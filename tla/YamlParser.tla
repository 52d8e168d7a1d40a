------------------------------ MODULE YamlParser ------------------------------
(***************************************************************************)
(* The event parser of the bundled YAML library (parser.c).  It pulls      *)
(* tokens out of the scanner and turns them into events; a stack of states *)
(* says what follows the node being parsed.  Each production of the C file *)
(* is one operator from a parser to the parser after the call, whose field *)
(* "event" is the event produced.  Marks appear only as the number of open *)
(* collections; memory exhaustion is not modelled.                         *)
(*                                                                         *)
(* The scanner is a parameter: the parser sees of it the queue of tokens   *)
(* and the error, which it takes over.  An error stays, and ends the call  *)
(* wherever the production was.                                            *)
(***************************************************************************)
EXTENDS YamlEvents

CONSTANTS Scanner(_, _),       \* a scanner at the beginning of a text
          FetchTokens(_)       \* yaml_parser_fetch_more_tokens

\* "available" says that the head of the queue of tokens may go, "size" how many
\* characters there are, more than tokens of any kind.
NewParser(text, encoding) ==
    [scan |-> Scanner(text, encoding), size |-> Len(text), available |-> FALSE, ended |-> FALSE,
     state |-> "STREAM-START", states |-> <<>>, marks |-> 0,
     directives |-> <<>>, event |-> NoEvent, error |-> "none"]

-------------------------------------------------------------------------------
(* The token at hand: PEEK_TOKEN, SKIP_TOKEN, and the two in a row.         *)

Peek(p) ==
    LET scan == FetchTokens(p.scan)
    IN IF p.available \/ p.error # "none" THEN p
       ELSE [p EXCEPT !.scan = scan, !.available = (scan.error = "none"), !.error = scan.error]

\* The token at the head; there is none after an error of the scanner.
Current(p) == IF p.scan.tokens = <<>> THEN [type |-> "NO-TOKEN"] ELSE Head(p.scan.tokens)
Sees(p, types) == Current(p).type \in types

Skip(p) ==
    IF p.scan.tokens = <<>> THEN p
    ELSE [p EXCEPT !.available = FALSE,
                   !.ended = Sees(p, {"STREAM-END"}),
                   !.scan = [@ EXCEPT !.parsed = @ + 1, !.tokens = Tail(@)]]
Advance(p) == Peek(Skip(p))

Fail(p) == IF p.error = "none" THEN [p EXCEPT !.error = "parser"] ELSE p
Push(p, state) == [p EXCEPT !.states = Append(@, state)]
Goto(p, state, event) == [p EXCEPT !.state = state, !.event = event]
Return(p, event) ==
    [p EXCEPT !.state = Last(p.states), !.states = Front(@), !.event = event]
OpenMark(p) == [p EXCEPT !.marks = @ + 1]
CloseMark(p) == [p EXCEPT !.marks = @ - 1]

-------------------------------------------------------------------------------
(* Directives.                                                              *)

\* One of the %YAML and %TAG directives before a document, if there is one;
\* found is what they declare.
ReadDirective(read) ==
    LET p == read.parser
        found == read.found
        directive == [handle |-> Current(p).handle, prefix |-> Current(p).prefix]
    IN CASE p.error = "none" /\ Sees(p, {"VERSION-DIRECTIVE"}) ->
              IF found.version # Null \/ Current(p).value # <<1, 1>>
              THEN [read EXCEPT !.parser = Fail(p)]
              ELSE [parser |-> Advance(p), found |-> [found EXCEPT !.version = Current(p).value]]
         [] p.error = "none" /\ Sees(p, {"TAG-DIRECTIVE"}) ->
              IF directive.handle \in Handles(p.directives)
              THEN [read EXCEPT !.parser = Fail(p)]
              ELSE [parser |-> Advance([p EXCEPT !.directives = Append(@, directive)]),
                    found |-> [found EXCEPT !.tags = Append(@, directive)]]
         [] OTHER -> read

ProcessDirectives(p) ==
    LET After[n \in 0 .. p.size] ==
            IF n = 0 THEN [parser |-> p, found |-> [version |-> Null, tags |-> <<>>]]
            ELSE ReadDirective(After[n - 1])
    IN [After[p.size] EXCEPT !.parser.directives = WithDefaults(@)]

-------------------------------------------------------------------------------
(* The stream and its documents.                                            *)

ParseStreamStart(q) ==
    LET p == Peek(q)
    IN IF Sees(p, {"STREAM-START"})
       THEN Skip(Goto(p, "IMPLICIT-DOCUMENT-START", StreamStart(Current(p).encoding)))
       ELSE Fail(p)

SkipDocumentEnd(p) ==
    IF p.error = "none" /\ Sees(p, {"DOCUMENT-END"}) THEN Advance(p) ELSE p
SkipDocumentEnds(p) ==
    LET After[n \in 0 .. p.size] == IF n = 0 THEN p ELSE SkipDocumentEnd(After[n - 1])
    IN After[p.size]

ParseDocumentStart(q, implicit) ==
    LET p == IF implicit THEN Peek(q) ELSE SkipDocumentEnds(Peek(q))
        read == ProcessDirectives(p)
        r == Peek(read.parser)
    IN IF Sees(p, {"STREAM-END"}) THEN Skip(Goto(p, "END", StreamEnd))
       ELSE IF implicit /\ ~Sees(p, {"VERSION-DIRECTIVE", "TAG-DIRECTIVE", "DOCUMENT-START"})
       THEN Push(Goto(r, "BLOCK-NODE", DocumentStart(Null, <<>>, TRUE)), "DOCUMENT-END")
       ELSE IF r.error # "none" THEN r
       ELSE IF ~Sees(r, {"DOCUMENT-START"}) THEN Fail(r)
       ELSE Skip(Push(Goto(r, "DOCUMENT-CONTENT",
                           DocumentStart(read.found.version, read.found.tags, FALSE)),
                      "DOCUMENT-END"))

ParseDocumentEnd(q) ==
    LET p == Peek(q)
        explicit == Sees(p, {"DOCUMENT-END"})
        r == IF explicit THEN Skip(p) ELSE p
    IN Goto([r EXCEPT !.directives = <<>>], "DOCUMENT-START", DocumentEnd(~explicit))

-------------------------------------------------------------------------------
(* Nodes.                                                                   *)

\* TAG ANCHOR? | ANCHOR TAG?: the tokens of the properties and what follows.
NodeProperties(p) ==
    LET one == Sees(p, {"ANCHOR", "TAG"})
        second == IF one THEN Advance(p) ELSE p
        two == one /\ Sees(second, {"ANCHOR", "TAG"} \ {Current(p).type})
        tokens == (IF one THEN <<Current(p)>> ELSE <<>>)
                  \o (IF two THEN <<Current(second)>> ELSE <<>>)
        Find(type) == SelectSeq(tokens, LAMBDA t : t.type = type)
    IN [anchor |-> Find("ANCHOR"), tag |-> Find("TAG"),
        parser |-> IF two THEN Advance(second) ELSE second]

\* The tag a TAG token stands for under the directives in force, if any.
ResolveTag(p, tag) ==
    LET known == SelectSeq(p.directives, LAMBDA d : d.handle = tag.handle)
    IN IF tag.handle = <<>> THEN tag.suffix
       ELSE IF known = <<>> THEN Null ELSE known[1].prefix \o tag.suffix

\* The collection a token opens, and the state that reads its entries.
Opening(type) ==
    CASE type = "FLOW-SEQUENCE-START" -> <<"SEQUENCE-START", "flow", "FLOW-SEQUENCE-FIRST-ENTRY">>
      [] type = "FLOW-MAPPING-START" -> <<"MAPPING-START", "flow", "FLOW-MAPPING-FIRST-KEY">>
      [] type = "BLOCK-SEQUENCE-START" -> <<"SEQUENCE-START", "block", "BLOCK-SEQUENCE-FIRST-ENTRY">>
      [] type = "BLOCK-MAPPING-START" -> <<"MAPPING-START", "block", "BLOCK-MAPPING-FIRST-KEY">>
      [] type = "BLOCK-ENTRY" -> <<"SEQUENCE-START", "block", "INDENTLESS-SEQUENCE-ENTRY">>

\* What a node consists of after its properties.
NodeContents(props, block, indentless) ==
    LET p == props.parser
        anchor == IF props.anchor = <<>> THEN Null ELSE props.anchor[1].value
        untagged == props.tag = <<>>
        tag == IF untagged THEN Null ELSE ResolveTag(p, props.tag[1])
        type == Current(p).type
        opens == \/ type \in {"FLOW-SEQUENCE-START", "FLOW-MAPPING-START"}
                 \/ block /\ type \in {"BLOCK-SEQUENCE-START", "BLOCK-MAPPING-START"}
                 \/ indentless /\ type = "BLOCK-ENTRY"
        plain == \/ untagged /\ Current(p).style = "plain"
                 \/ tag = <<"!">>
    IN IF ~untagged /\ tag = Null THEN Fail(p)
       ELSE IF opens
       THEN Goto(p, Opening(type)[3],
                 Collection(Opening(type)[1], anchor, tag, untagged, Opening(type)[2]))
       ELSE IF Sees(p, {"SCALAR"})
       THEN Skip(Return(p, Scalar(anchor, tag, Current(p).value, plain, ~plain /\ untagged,
                                  Current(p).style)))
       ELSE IF anchor # Null \/ ~untagged
       THEN Return(p, Scalar(anchor, tag, <<>>, untagged, FALSE, "plain"))
       ELSE Fail(p)

ParseNode(q, block, indentless) ==
    LET p == Peek(q)
    IN IF Sees(p, {"ALIAS"}) THEN Skip(Return(p, Alias(Current(p).value)))
       ELSE NodeContents(NodeProperties(p), block, indentless)

ParseDocumentContent(q) ==
    LET p == Peek(q)
    IN IF Sees(p, {"VERSION-DIRECTIVE", "TAG-DIRECTIVE", "DOCUMENT-START",
                 "DOCUMENT-END", "STREAM-END"})
       THEN Return(p, EmptyScalar)
       ELSE ParseNode(p, TRUE, FALSE)

\* After an indicator: the node that follows, or an empty scalar when a token
\* of "closers" stands there; either way the state goes on with "next".
NodeOrEmpty(p, closers, next, block, indentless) ==
    IF Sees(p, closers) THEN Goto(p, next, EmptyScalar)
    ELSE ParseNode(Push(p, next), block, indentless)

\* The first call of a collection leaves its start token behind.
Enter(q, first) == IF first THEN Advance(OpenMark(Peek(q))) ELSE Peek(q)

\* The end of a collection: its end token and its mark go.
Leave(p, event) == Skip(CloseMark(Return(p, event)))

-------------------------------------------------------------------------------
(* Block collections.                                                       *)

ParseBlockSequenceEntry(q, first) ==
    LET p == Enter(q, first)
    IN CASE Sees(p, {"BLOCK-ENTRY"}) ->
              NodeOrEmpty(Advance(p), {"BLOCK-ENTRY", "BLOCK-END"},
                          "BLOCK-SEQUENCE-ENTRY", TRUE, FALSE)
         [] Sees(p, {"BLOCK-END"}) -> Leave(p, SequenceEnd)
         [] OTHER -> Fail(CloseMark(p))

ParseIndentlessSequenceEntry(q) ==
    LET p == Peek(q)
    IN IF Sees(p, {"BLOCK-ENTRY"})
       THEN NodeOrEmpty(Advance(p), {"BLOCK-ENTRY", "KEY", "VALUE", "BLOCK-END"},
                        "INDENTLESS-SEQUENCE-ENTRY", TRUE, FALSE)
       ELSE Return(p, SequenceEnd)

ParseBlockMappingKey(q, first) ==
    LET p == Enter(q, first)
    IN CASE Sees(p, {"KEY"}) ->
              NodeOrEmpty(Advance(p), {"KEY", "VALUE", "BLOCK-END"},
                          "BLOCK-MAPPING-VALUE", TRUE, TRUE)
         [] Sees(p, {"BLOCK-END"}) -> Leave(p, MappingEnd)
         [] OTHER -> Fail(CloseMark(p))

ParseBlockMappingValue(q) ==
    LET p == Peek(q)
    IN IF Sees(p, {"VALUE"})
       THEN NodeOrEmpty(Advance(p), {"KEY", "VALUE", "BLOCK-END"},
                        "BLOCK-MAPPING-KEY", TRUE, TRUE)
       ELSE Goto(p, "BLOCK-MAPPING-KEY", EmptyScalar)

-------------------------------------------------------------------------------
(* Flow collections.                                                        *)

\* The separator before an entry that is not the first one.
AfterComma(p, first) ==
    IF first THEN p
    ELSE IF Sees(p, {"FLOW-ENTRY"}) THEN Advance(p)
    ELSE Fail(CloseMark(p))

ParseFlowSequenceEntry(q, first) ==
    LET p == Enter(q, first)
        r == AfterComma(p, first)
    IN IF Sees(p, {"FLOW-SEQUENCE-END"}) THEN Leave(p, SequenceEnd)
       ELSE IF r.error # "none" THEN r
       ELSE CASE Sees(r, {"FLOW-SEQUENCE-END"}) -> Leave(r, SequenceEnd)
              [] Sees(r, {"KEY"}) ->
                   Skip(Goto(r, "FLOW-SEQUENCE-ENTRY-MAPPING-KEY",
                             MappingStart(Null, Null, TRUE, "flow")))
              [] OTHER -> ParseNode(Push(r, "FLOW-SEQUENCE-ENTRY"), FALSE, FALSE)

\* An absent key takes the token that shows its absence with it.
ParseFlowSequenceEntryMappingKey(q) ==
    LET p == Peek(q)
        next == "FLOW-SEQUENCE-ENTRY-MAPPING-VALUE"
    IN IF Sees(p, {"VALUE", "FLOW-ENTRY", "FLOW-SEQUENCE-END"})
       THEN Goto(Skip(p), next, EmptyScalar)
       ELSE ParseNode(Push(p, next), FALSE, FALSE)

EndFlowSequenceEntryMapping(q) == Goto(Peek(q), "FLOW-SEQUENCE-ENTRY", MappingEnd)
ParseFlowSequenceEntryMappingValue(q) ==
    LET p == Peek(q)
        next == "FLOW-SEQUENCE-ENTRY-MAPPING-END"
    IN IF Sees(p, {"VALUE"})
       THEN NodeOrEmpty(Advance(p), {"FLOW-ENTRY", "FLOW-SEQUENCE-END"}, next, FALSE, FALSE)
       ELSE Goto(p, next, EmptyScalar)

ParseFlowSequenceEntryMappingEnd(q) ==
    Goto(Peek(q), "FLOW-SEQUENCE-ENTRY", MappingEnd)

ParseFlowMappingKey(q, first) ==
    LET p == Enter(q, first)
        r == AfterComma(p, first)
    IN IF Sees(p, {"FLOW-MAPPING-END"}) THEN Leave(p, MappingEnd)
       ELSE IF r.error # "none" THEN r
       ELSE CASE Sees(r, {"FLOW-MAPPING-END"}) -> Leave(r, MappingEnd)
              [] Sees(r, {"KEY"}) ->
                   NodeOrEmpty(Advance(r), {"VALUE", "FLOW-ENTRY", "FLOW-MAPPING-END"},
                               "FLOW-MAPPING-VALUE", FALSE, FALSE)
              [] OTHER -> ParseNode(Push(r, "FLOW-MAPPING-EMPTY-VALUE"), FALSE, FALSE)

ParseFlowMappingValue(q, empty) ==
    LET p == Peek(q)
    IN IF ~empty /\ Sees(p, {"VALUE"})
       THEN NodeOrEmpty(Advance(p), {"FLOW-ENTRY", "FLOW-MAPPING-END"},
                        "FLOW-MAPPING-KEY", FALSE, FALSE)
       ELSE Goto(p, "FLOW-MAPPING-KEY", EmptyScalar)

-------------------------------------------------------------------------------
\* The state dispatcher.
StateMachine(p) ==
    CASE p.state = "STREAM-START" -> ParseStreamStart(p)
      [] p.state = "IMPLICIT-DOCUMENT-START" -> ParseDocumentStart(p, TRUE)
      [] p.state = "DOCUMENT-START" -> ParseDocumentStart(p, FALSE)
      [] p.state = "DOCUMENT-CONTENT" -> ParseDocumentContent(p)
      [] p.state = "DOCUMENT-END" -> ParseDocumentEnd(p)
      [] p.state = "BLOCK-NODE" -> ParseNode(p, TRUE, FALSE)
      [] p.state = "BLOCK-SEQUENCE-FIRST-ENTRY" -> ParseBlockSequenceEntry(p, TRUE)
      [] p.state = "BLOCK-SEQUENCE-ENTRY" -> ParseBlockSequenceEntry(p, FALSE)
      [] p.state = "INDENTLESS-SEQUENCE-ENTRY" -> ParseIndentlessSequenceEntry(p)
      [] p.state = "BLOCK-MAPPING-FIRST-KEY" -> ParseBlockMappingKey(p, TRUE)
      [] p.state = "BLOCK-MAPPING-KEY" -> ParseBlockMappingKey(p, FALSE)
      [] p.state = "BLOCK-MAPPING-VALUE" -> ParseBlockMappingValue(p)
      [] p.state = "FLOW-SEQUENCE-FIRST-ENTRY" -> ParseFlowSequenceEntry(p, TRUE)
      [] p.state = "FLOW-SEQUENCE-ENTRY" -> ParseFlowSequenceEntry(p, FALSE)
      [] p.state = "FLOW-SEQUENCE-ENTRY-MAPPING-KEY" -> ParseFlowSequenceEntryMappingKey(p)
      [] p.state = "FLOW-SEQUENCE-ENTRY-MAPPING-VALUE" -> ParseFlowSequenceEntryMappingValue(p)
      [] p.state = "FLOW-SEQUENCE-ENTRY-MAPPING-END" -> ParseFlowSequenceEntryMappingEnd(p)
      [] p.state = "FLOW-MAPPING-FIRST-KEY" -> ParseFlowMappingKey(p, TRUE)
      [] p.state = "FLOW-MAPPING-KEY" -> ParseFlowMappingKey(p, FALSE)
      [] p.state = "FLOW-MAPPING-VALUE" -> ParseFlowMappingValue(p, FALSE)
      [] p.state = "FLOW-MAPPING-EMPTY-VALUE" -> ParseFlowMappingValue(p, TRUE)

\* An error leaves no event behind.
Outcome(p) == IF p.error # "none" THEN [p EXCEPT !.event = NoEvent] ELSE p

\* The next event.  There is none after the end or an error.
Parse(p) ==
    IF p.ended \/ p.error # "none" \/ p.state = "END"
    THEN [p EXCEPT !.event = NoEvent]
    ELSE Outcome(StateMachine(p))
===============================================================================
