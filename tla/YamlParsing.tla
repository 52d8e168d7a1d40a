------------------------------- MODULE YamlParsing -------------------------------
(***************************************************************************)
(* A parser of the YAML library and who calls it: an application that asks *)
(* for one event after the other, or the loader, which takes all those of  *)
(* a document in one call.                                                 *)
(***************************************************************************)
EXTENDS YamlParser

VARIABLES parser,
          caller       \* "application" or "loader"

parsingVars == <<parser, caller>>

\* yaml_parser_parse, called by an application.
ParseEvent ==
    /\ caller = "application"
    /\ parser' = Parse(parser)
    /\ UNCHANGED caller

\* yaml_parser_load: what it leaves behind is not looked at here.
LoadEvents ==
    /\ caller = "loader"
    /\ UNCHANGED caller

\* A parser for another text; an application is through with the last one.
OpenParser(text, encoding) ==
    /\ \/ caller = "loader"
       \/ parser.error # "none"
       \/ parser.state \in {"STREAM-START", "END"}
    /\ parser' = NewParser(text, encoding)
    /\ UNCHANGED caller

ParsingInit ==
    /\ parser = NewParser(<<>>, "any")
    /\ caller \in {"application", "loader"}

ParsingNext ==
    \/ ParseEvent
    \/ LoadEvents
    \/ \E text \in Seq(STRING), encoding \in STRING : OpenParser(text, encoding)

ParsingSpec == ParsingInit /\ [][ParsingNext]_parsingVars

-------------------------------------------------------------------------------
(* The events as a stream.                                                  *)

\* What the states of the parser that stand for something open stand for.
OpenAt(state) ==
    CASE state \in {"IMPLICIT-DOCUMENT-START", "DOCUMENT-START"} -> <<>>
      [] state \in {"BLOCK-NODE", "DOCUMENT-CONTENT"} -> <<"document">>
      [] state = "DOCUMENT-END" -> <<"document-end">>
      [] state \in {"BLOCK-SEQUENCE-FIRST-ENTRY", "BLOCK-SEQUENCE-ENTRY",
                    "INDENTLESS-SEQUENCE-ENTRY", "FLOW-SEQUENCE-FIRST-ENTRY",
                    "FLOW-SEQUENCE-ENTRY"} -> <<"sequence">>
      [] state \in {"BLOCK-MAPPING-FIRST-KEY", "BLOCK-MAPPING-KEY", "FLOW-MAPPING-FIRST-KEY",
                    "FLOW-MAPPING-KEY"} -> <<"key">>
      [] state \in {"BLOCK-MAPPING-VALUE", "FLOW-MAPPING-VALUE", "FLOW-MAPPING-EMPTY-VALUE"} ->
           <<"value">>
      [] state \in {"FLOW-SEQUENCE-ENTRY-MAPPING-KEY", "FLOW-SEQUENCE-ENTRY-MAPPING-END"} ->
           <<"sequence", "key">>
      [] state = "FLOW-SEQUENCE-ENTRY-MAPPING-VALUE" -> <<"sequence", "value">>

AllOpen(states) == FlattenSeq([i \in DOMAIN states |-> OpenAt(states[i])])

\* A document whose node is still to come has its end on the stack already.
Awaited(p) == IF p.state \in {"BLOCK-NODE", "DOCUMENT-CONTENT"} THEN Tail(p.states) ELSE p.states

ContextOf(p) ==
    CASE p.error # "none" -> <<"ended">>
      [] p.error = "none" /\ p.state = "STREAM-START" -> <<>>
      [] p.error = "none" /\ p.state = "END" -> <<"ended">>
      [] OTHER -> <<"stream">> \o AllOpen(Awaited(p)) \o OpenAt(p.state)

\* The states that wait on the stack, those that begin a collection, and those
\* of them that have a mark.
Beginning == {"BLOCK-SEQUENCE-FIRST-ENTRY", "BLOCK-MAPPING-FIRST-KEY",
              "FLOW-SEQUENCE-FIRST-ENTRY", "FLOW-MAPPING-FIRST-KEY"}
Marked == {"BLOCK-SEQUENCE-ENTRY", "BLOCK-MAPPING-KEY", "BLOCK-MAPPING-VALUE",
           "FLOW-SEQUENCE-ENTRY", "FLOW-SEQUENCE-ENTRY-MAPPING-KEY",
           "FLOW-SEQUENCE-ENTRY-MAPPING-VALUE", "FLOW-SEQUENCE-ENTRY-MAPPING-END",
           "FLOW-MAPPING-KEY", "FLOW-MAPPING-VALUE", "FLOW-MAPPING-EMPTY-VALUE"}
Continuing == Marked \cup {"INDENTLESS-SEQUENCE-ENTRY"}
Outside == {"STREAM-START", "IMPLICIT-DOCUMENT-START", "DOCUMENT-START", "DOCUMENT-END", "END"}

\* Inside a document its end is at the bottom of the stack, and nowhere else:
\* nothing is popped that was not pushed, and nothing is left at the end.
StackFits(p) ==
    /\ p.states \in Seq(Continuing \cup {"DOCUMENT-END"})
    /\ \A i \in DOMAIN p.states : p.states[i] = "DOCUMENT-END" <=> i = 1
    /\ \/ p.state \in Outside /\ p.states = <<>>
       \/ p.state \in {"BLOCK-NODE", "DOCUMENT-CONTENT"} /\ p.states = <<"DOCUMENT-END">>
       \/ p.state \in Beginning \cup Continuing /\ p.states # <<>>

\* There is a mark for every open collection but those that have no end token.
MarkAt(state) == IF state \in Marked THEN <<state>> ELSE <<>>
AllMarks(states) == FlattenSeq([i \in DOMAIN states |-> MarkAt(states[i])])
MarksFit(p) == p.marks = Len(AllMarks(p.states)) + Len(MarkAt(p.state))

\* The start token of a collection is at hand when its first entry is parsed,
\* where it is skipped without a look.
StartAtHand(p) == p.state \in Beginning => p.available /\ ~Sees(p, {"STREAM-END"})

\* What the productions of the parser rely on, as long as there is no error.
ParserInv(p) ==
    p.error = "none" =>
        /\ StackFits(p) /\ MarksFit(p) /\ StartAtHand(p)
        /\ p.ended => p.state = "END"

Following == caller = "application"
EventStream == INSTANCE YamlEventStream WITH
    context <- IF Following THEN ContextOf(parser) ELSE <<>>,
    event <- IF Following THEN parser.event.kind ELSE "NO-EVENT"

\* The events an application is given come in the order the grammar of
\* streams allows (parser.c), whatever the text.
ImplementsEventStream == EventStream!Spec
===============================================================================
