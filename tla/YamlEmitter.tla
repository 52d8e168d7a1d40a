------------------------------ MODULE YamlEmitter -----------------------------
(***************************************************************************)
(* The emitter of the bundled YAML library (emitter.c): it turns events    *)
(* into text.  Events wait in a queue until enough of them are there to    *)
(* tell an empty collection from others and to choose the style of a key;  *)
(* a stack of states says what follows the node being written.             *)
(*                                                                         *)
(* Every operator maps an emitter to the emitter after the call.  "text"   *)
(* is all that has been written: the output buffer and its flushes,        *)
(* messages, memory exhaustion, the line number and sequence_context,      *)
(* which nothing reads, are left out.                                      *)
(***************************************************************************)
EXTENDS YamlEvents

NoData == [anchor |-> Null, alias |-> FALSE, handle |-> Null, suffix |-> Null, value |-> <<>>,
           multiline |-> FALSE, flowPlain |-> FALSE, blockPlain |-> FALSE,
           singleQuoted |-> FALSE, block |-> FALSE, style |-> "any"]

\* settings: the encoding, the indentation, the width, whether characters
\* outside ASCII may be written, the canonical form, and the line break.
NewEmitter(settings) ==
    [settings |-> settings, events |-> <<>>, state |-> "STREAM-START", states |-> <<>>,
     indent |-> 0, indents |-> <<>>, directives |-> <<>>, text |-> <<>>, column |-> 0,
     whitespace |-> FALSE, indention |-> FALSE, openEnded |-> FALSE, flow |-> 0,
     root |-> FALSE, mapping |-> FALSE, simpleKey |-> FALSE, data |-> NoData,
     opened |-> FALSE, closed |-> FALSE, failed |-> FALSE]

Refuse(e) == [e EXCEPT !.failed = TRUE]
Require(e, condition) == IF condition THEN e ELSE Refuse(e)
Await(e, state) == [e EXCEPT !.states = Append(@, state)]
Resume(e) == [e EXCEPT !.state = Last(e.states), !.states = Front(@)]
Become(e, state) == [e EXCEPT !.state = state]

-------------------------------------------------------------------------------
(* The writers.                                                             *)

Put(e, text) == [e EXCEPT !.text = @ \o text, !.column = @ + Len(text)]
PutBreak(e) == [e EXCEPT !.text = @ \o e.settings.break, !.column = 0]
WriteAnyBreak(e, c) == PutBreak(e)
WriteBreak(e, c) ==
    IF c = "\n" THEN PutBreak(e) ELSE [e EXCEPT !.text = Append(@, c), !.column = 0]

Space(e) == IF e.whitespace THEN e ELSE Put(e, <<" ">>)
Noted(e, whitespace, indention) ==
    [e EXCEPT !.whitespace = whitespace, !.indention = indention]

\* A negative width stands for no limit.
TooWide(e) == e.settings.width >= 0 /\ e.column > e.settings.width

WriteIndent(e) ==
    LET indent == IF e.indent >= 0 THEN e.indent ELSE 0
        fresh == \/ ~e.indention
                 \/ e.column > indent
                 \/ e.column = indent /\ ~e.whitespace
        r == IF fresh THEN PutBreak(e) ELSE e
    IN Noted(Put(r, [i \in 1..(indent - r.column) |-> " "]), TRUE, TRUE)

\* An indicator also ends what could have gone on: the text is no longer open.
WriteIndicator(e, indicator, spaced, isWhitespace, isIndention) ==
    [Noted(Put(IF spaced THEN Space(e) ELSE e, Chars(indicator)),
           isWhitespace, e.indention /\ isIndention) EXCEPT !.openEnded = FALSE]

WriteAnchor(e, value) == Noted(Put(e, value), FALSE, FALSE)
WriteTagHandle(e, handle) == WriteAnchor(Space(e), handle)

\* What a URI cannot hold, '!' among it, is written octet by octet.
WriteTagContent(e, value, spaced) ==
    LET Octets(c) == FlattenSeq([i \in DOMAIN Encode(Code[c]) |->
                                   <<"%">> \o Numeral(Encode(Code[c])[i], 2)])
        Written(c) == IF c \in Uri \ {"!"} THEN <<c>> ELSE Octets(c)
    IN WriteAnchor(IF spaced THEN Space(e) ELSE e,
                   FlattenSeq([i \in DOMAIN value |-> Written(value[i])]))

\* The words of a plain or a single-quoted scalar.  A space may become a line
\* break where the line is too wide; a line feed is written twice, since a
\* single one would be folded into a space.
WriteWords(e, value, quoted) ==
    LET n == Len(value)
        Foldable(w, i) == /\ ~e.simpleKey
                          /\ ~w.spaces
                          /\ TooWide(w.emitter)
                          /\ quoted => i \notin {1, n}
                          /\ At(value, i + 1) # " "
        Blanked(w, i) ==
            [w EXCEPT !.spaces = TRUE,
                      !.emitter = IF Foldable(w, i) THEN WriteIndent(@) ELSE Put(@, <<" ">>)]
        Broken(w, i) ==
            LET r == IF ~w.breaks /\ value[i] = "\n" THEN PutBreak(w.emitter) ELSE w.emitter
            IN [w EXCEPT !.breaks = TRUE,
                         !.emitter = [WriteBreak(r, value[i]) EXCEPT !.indention = TRUE]]
        Worded(w, i) ==
            LET r == IF w.breaks THEN WriteIndent(w.emitter) ELSE w.emitter
                c == IF quoted /\ value[i] = "'" THEN <<"'", "'">> ELSE <<value[i]>>
            IN [spaces |-> FALSE, breaks |-> FALSE,
                emitter |-> [Put(r, c) EXCEPT !.indention = FALSE]]
        Step(w, i) == CASE value[i] = " " -> Blanked(w, i)
                        [] value[i] \in Break -> Broken(w, i)
                        [] OTHER -> Worded(w, i)
    IN FoldLeftDomain(Step, [emitter |-> e, spaces |-> FALSE, breaks |-> FALSE], value).emitter

WritePlainScalar(e, value) ==
    LET r == Noted(WriteWords(Space(e), value, FALSE), FALSE, FALSE)
    IN [r EXCEPT !.openEnded = @ \/ e.root]

WriteSingleQuotedScalar(e, value) ==
    LET r == WriteWords(WriteIndicator(e, "'", TRUE, FALSE, FALSE), value, TRUE)
    IN Noted(WriteIndicator(r, "'", FALSE, FALSE, FALSE), FALSE, FALSE)

\* The escape of a character: by a letter where it has one, else by number.
Escaped(c) ==
    LET code == Code[c]
        letters == {l \in DOMAIN Escape \ {"\t"} : Escape[l] = c}
    IN <<"\\">> \o (CASE letters # {} -> << CHOOSE l \in letters : TRUE >>
                      [] letters = {} /\ code <= 255 -> <<"x">> \o Numeral(code, 2)
                      [] letters = {} /\ code \in 256..65535 -> <<"u">> \o Numeral(code, 4)
                      [] OTHER -> <<"U">> \o Numeral(code, 8))

Special(e, c) == ~IsPrintable(c) \/ (~e.settings.unicode /\ ~IsAscii(c))

WriteDoubleQuotedScalar(e, value) ==
    LET n == Len(value)
        Foldable(w, i) == /\ ~e.simpleKey
                          /\ ~w.spaces
                          /\ TooWide(w.emitter)
                          /\ i \notin {1, n}
        Folded(w, i) == LET r == WriteIndent(w.emitter)
                        IN IF At(value, i + 1) = " " THEN Put(r, <<"\\">>) ELSE r
        Escapes(c) == Special(e, c) \/ c \in Break \cup {"BOM", "\"", "\\"}
        Step(w, i) ==
            CASE Escapes(value[i]) ->
                   [emitter |-> Put(w.emitter, Escaped(value[i])), spaces |-> FALSE]
              [] value[i] = " " ->
                   [emitter |-> IF Foldable(w, i) THEN Folded(w, i) ELSE Put(w.emitter, <<" ">>),
                    spaces |-> TRUE]
              [] OTHER -> [emitter |-> Put(w.emitter, <<value[i]>>), spaces |-> FALSE]
        r == FoldLeftDomain(Step, [emitter |-> WriteIndicator(e, "\"", TRUE, FALSE, FALSE),
                                   spaces |-> FALSE], value)
    IN Noted(WriteIndicator(r.emitter, "\"", FALSE, FALSE, FALSE), FALSE, FALSE)

\* What the header says of the text: its indentation, when the first line does
\* not show it, and what becomes of the line breaks at its end.
WriteBlockScalarHints(e, value) ==
    LET n == Len(value)
        blank == n > 0 /\ At(value, 1) \in {" "} \cup Break
        r == IF blank THEN WriteIndicator(e, HexDigits[e.settings.indent + 1], FALSE, FALSE, FALSE)
             ELSE e
        chomp == CASE At(value, n) \notin Break -> "-"
                   [] At(value, n) \in Break /\ (n = 1 \/ At(value, n - 1) \in Break) -> "+"
                   [] OTHER -> ""
        open == [r EXCEPT !.openEnded = (chomp = "+")]
    IN IF chomp = "" THEN open ELSE WriteIndicator(open, chomp, FALSE, FALSE, FALSE)

WriteBlockHeader(e, indicator, value) ==
    Noted(PutBreak(WriteBlockScalarHints(WriteIndicator(e, indicator, TRUE, FALSE, FALSE), value)),
          TRUE, TRUE)

WriteLiteralScalar(e, value) ==
    LET Step(w, i) ==
            IF value[i] \in Break
            THEN [breaks |-> TRUE,
                  emitter |-> [WriteBreak(w.emitter, value[i]) EXCEPT !.indention = TRUE]]
            ELSE [breaks |-> FALSE,
                  emitter |-> [Put(IF w.breaks THEN WriteIndent(w.emitter) ELSE w.emitter,
                                   <<value[i]>>) EXCEPT !.indention = FALSE]]
    IN FoldLeftDomain(Step, [emitter |-> WriteBlockHeader(e, "|", value), breaks |-> TRUE],
                      value).emitter

\* A line feed between two lines of text is written twice, but not next to a
\* line that begins with a blank, which the reader does not fold.
WriteFoldedScalar(e, value) ==
    LET Beyond(i) == At(value, CHOOSE k \in i..(Len(value) + 1) :
                                   /\ At(value, k) \notin Break
                                   /\ \A j \in i..(k - 1) : At(value, j) \in Break)
        Doubled(w, i) == /\ ~w.breaks /\ ~w.leading
                         /\ value[i] = "\n"
                         /\ Beyond(i) \notin BlankZ
        Broken(w, i) ==
            LET r == IF Doubled(w, i) THEN PutBreak(w.emitter) ELSE w.emitter
            IN [w EXCEPT !.breaks = TRUE,
                         !.emitter = [WriteBreak(r, value[i]) EXCEPT !.indention = TRUE]]
        Foldable(w, i) == /\ ~w.breaks
                          /\ value[i] = " " /\ At(value, i + 1) # " "
                          /\ TooWide(w.emitter)
        Worded(w, i) ==
            LET r == IF w.breaks THEN WriteIndent(w.emitter) ELSE w.emitter
            IN [breaks |-> FALSE,
                leading |-> IF w.breaks THEN value[i] \in Blank ELSE w.leading,
                emitter |-> [IF Foldable(w, i) THEN WriteIndent(r) ELSE Put(r, <<value[i]>>)
                             EXCEPT !.indention = FALSE]]
        Step(w, i) == IF value[i] \in Break THEN Broken(w, i) ELSE Worded(w, i)
    IN FoldLeftDomain(Step, [emitter |-> WriteBlockHeader(e, ">", value), breaks |-> TRUE,
                             leading |-> TRUE], value).emitter

-------------------------------------------------------------------------------
(* The analysis of an event: what may be written, and in which styles.      *)

AnalyzeVersionDirective(e, version) == Require(e, version \in {Null, <<1, 1>>})

AnalyzeTagDirective(e, directive) ==
    LET handle == directive.handle
        n == Len(handle)
    IN Require(e, /\ n > 0
                  /\ handle[1] = "!" /\ handle[n] = "!"
                  /\ \A i \in 2..(n - 1) : handle[i] \in Alpha
                  /\ directive.prefix # <<>>)

AppendTagDirective(e, directive, mayRepeat) ==
    IF directive.handle \in Handles(e.directives) THEN Require(e, mayRepeat)
    ELSE [e EXCEPT !.directives = Append(@, directive)]

AnalyzeAnchor(e, anchor, alias) ==
    [Require(e, anchor # <<>> /\ ToSet(anchor) \subseteq Alpha)
        EXCEPT !.data.anchor = anchor, !.data.alias = alias]

\* The first directive whose prefix begins the tag gives its short form.
AnalyzeTag(e, tag) ==
    LET short == SelectSeq(e.directives, LAMBDA d : IsStrictPrefix(d.prefix, tag))
    IN IF short = <<>> THEN [Require(e, tag # <<>>) EXCEPT !.data.suffix = tag]
       ELSE [e EXCEPT !.data.handle = short[1].handle,
                      !.data.suffix = SubSeq(tag, Len(short[1].prefix) + 1, Len(tag))]

Indicators == Among("#,[]{}&*!|>'\"%@") \cup {"GRAVE"}

AnalyzeScalar(e, value) ==
    LET n == Len(value)
        Before(i) == i = 1 \/ At(value, i - 1) \in BlankZ
        After(i) == At(value, i + 1) \in BlankZ
        Begins(c) == n >= 3 /\ \A i \in 1..3 : value[i] = c
        document == Begins("-") \/ Begins(".")
        first == value[1]
        block == \/ document
                 \/ first \in Indicators
                 \/ first \in Among("?:-") /\ After(1)
                 \/ \E i \in 2..n : \/ value[i] = ":" /\ After(i)
                                    \/ value[i] = "#" /\ Before(i)
        flow == \/ block
                \/ first \in {"?", ":"}
                \/ \E i \in 2..n : value[i] \in Among(",?[]{}:")
        spaced == " " \in {first, value[n]}
        broken == {first, value[n]} \cap Break # {}
        breakSpace == \E i \in 2..n : value[i] = " " /\ value[i - 1] \in Break
        spaceBreak == \E i \in 2..n : value[i] \in Break /\ value[i - 1] = " "
        multiline == ToSet(value) \cap Break # {}
        special == \E c \in ToSet(value) : Special(e, c)
        plain == ~(spaced \/ broken \/ breakSpace \/ spaceBreak \/ special \/ multiline)
    IN IF n = 0
       THEN [e EXCEPT !.data.value = value, !.data.multiline = FALSE, !.data.flowPlain = FALSE,
                      !.data.blockPlain = TRUE, !.data.singleQuoted = TRUE,
                      !.data.block = FALSE]
       ELSE [e EXCEPT !.data.value = value, !.data.multiline = multiline,
                      !.data.flowPlain = plain /\ ~flow, !.data.blockPlain = plain /\ ~block,
                      !.data.singleQuoted = ~(breakSpace \/ spaceBreak \/ special),
                      !.data.block = ~(value[n] = " " \/ spaceBreak \/ special)]

\* A tag that is implied is written in the canonical form only.
AnalyzeEvent(e, event) ==
    LET clear == [e EXCEPT !.data = NoData]
        anchored == IF event.anchor = Null THEN clear ELSE AnalyzeAnchor(clear, event.anchor, FALSE)
        Tagged(implied) == IF event.tag # Null /\ (e.settings.canonical \/ ~implied)
                           THEN AnalyzeTag(anchored, event.tag) ELSE anchored
    IN CASE event.kind = "ALIAS" -> AnalyzeAnchor(clear, event.anchor, TRUE)
         [] event.kind = "SCALAR" ->
              AnalyzeScalar(Tagged(event.plainImplicit \/ event.quotedImplicit), event.value)
         [] event.kind \in {"SEQUENCE-START", "MAPPING-START"} -> Tagged(event.implicit)
         [] OTHER -> clear

-------------------------------------------------------------------------------
(* Nodes.                                                                   *)

\* A level deeper.  An indentless sequence stays at the level of its key.
IncreaseIndent(e, flow, indentless) ==
    LET best == e.settings.indent
        r == [e EXCEPT !.indents = Append(@, e.indent)]
    IN CASE e.indent < 0 -> [r EXCEPT !.indent = IF flow THEN best ELSE 0]
         [] e.indent >= 0 /\ ~indentless -> [r EXCEPT !.indent = @ + best]
         [] OTHER -> r
DecreaseIndent(e) == [e EXCEPT !.indent = Last(e.indents), !.indents = Front(@)]

EmptyCollection(e) ==
    /\ Len(e.events) >= 2
    /\ <<e.events[1].kind, e.events[2].kind>> \in {<<"SEQUENCE-START", "SEQUENCE-END">>,
                                                   <<"MAPPING-START", "MAPPING-END">>}

MaxSimpleKeyLength == 128

MayBeKey(e) ==
    Head(e.events).kind \in {"ALIAS", "SCALAR", "SEQUENCE-START", "MAPPING-START"}
CheckSimpleKey(e) ==
    LET kind == Head(e.events).kind
    IN /\ kind \in {"ALIAS", "SCALAR", "SEQUENCE-START", "MAPPING-START"}
       /\ kind = "SCALAR" => ~e.data.multiline
       /\ kind \in {"SEQUENCE-START", "MAPPING-START"} => EmptyCollection(e)
       /\ Size(e.data.anchor \o e.data.handle \o e.data.suffix \o e.data.value)
             <= MaxSimpleKeyLength

NoTag(e) == e.data.handle = Null /\ e.data.suffix = Null

\* The style that was asked for, or the next one that can hold the text.
SelectScalarStyle(e, event) ==
    LET data == e.data
        inFlow == e.flow > 0
        wanted == IF e.settings.canonical \/ (e.simpleKey /\ data.multiline) THEN "double-quoted"
                  ELSE IF event.style = "any" THEN "plain" ELSE event.style
        plainFits == /\ IF inFlow THEN data.flowPlain ELSE data.blockPlain
                     /\ data.value = <<>> => ~inFlow /\ ~e.simpleKey
                     /\ NoTag(e) => event.plainImplicit
        quoted == IF wanted = "plain" /\ ~plainFits THEN "single-quoted" ELSE wanted
        style == IF \/ quoted = "single-quoted" /\ ~data.singleQuoted
                    \/ /\ quoted \in {"literal", "folded"}
                       /\ ~data.block \/ inFlow \/ e.simpleKey
                 THEN "double-quoted" ELSE quoted
        r == [Require(e, ~NoTag(e) \/ event.plainImplicit \/ event.quotedImplicit)
                 EXCEPT !.data.style = style]
    IN IF NoTag(e) /\ ~event.quotedImplicit /\ style # "plain"
       THEN [r EXCEPT !.data.handle = <<"!">>] ELSE r

ProcessAnchor(e) ==
    IF e.data.anchor = Null THEN e
    ELSE WriteAnchor(WriteIndicator(e, IF e.data.alias THEN "*" ELSE "&", TRUE, FALSE, FALSE),
                     e.data.anchor)

ProcessTag(e) ==
    CASE NoTag(e) -> e
      [] ~NoTag(e) /\ e.data.handle # Null ->
           LET r == WriteTagHandle(e, e.data.handle)
           IN IF e.data.suffix = Null THEN r ELSE WriteTagContent(r, e.data.suffix, FALSE)
      [] OTHER ->
           LET r == WriteTagContent(WriteIndicator(e, "!<", TRUE, FALSE, FALSE),
                                    e.data.suffix, FALSE)
           IN WriteIndicator(r, ">", FALSE, FALSE, FALSE)

ProcessScalar(e) ==
    LET style == e.data.style
        value == e.data.value
    IN CASE style = "plain" -> WritePlainScalar(e, value)
         [] style = "single-quoted" -> WriteSingleQuotedScalar(e, value)
         [] style = "double-quoted" -> WriteDoubleQuotedScalar(e, value)
         [] style = "literal" -> WriteLiteralScalar(e, value)
         [] style = "folded" -> WriteFoldedScalar(e, value)

EmitAlias(e) == Resume(ProcessAnchor(e))

EmitScalar(e, event) ==
    LET r == ProcessTag(ProcessAnchor(SelectScalarStyle(e, event)))
    IN Resume(DecreaseIndent(ProcessScalar(IncreaseIndent(r, TRUE, FALSE))))

FlowStyle(e, event) ==
    e.flow > 0 \/ e.settings.canonical \/ event.style = "flow" \/ EmptyCollection(e)

EmitSequenceStart(e, event) ==
    Become(ProcessTag(ProcessAnchor(e)),
           IF FlowStyle(e, event) THEN "FLOW-SEQUENCE-FIRST-ITEM" ELSE "BLOCK-SEQUENCE-FIRST-ITEM")
EmitMappingStart(e, event) ==
    Become(ProcessTag(ProcessAnchor(e)),
           IF FlowStyle(e, event) THEN "FLOW-MAPPING-FIRST-KEY" ELSE "BLOCK-MAPPING-FIRST-KEY")

EmitNode(e, event, root, mapping, simpleKey) ==
    LET r == [e EXCEPT !.root = root, !.mapping = mapping, !.simpleKey = simpleKey]
    IN CASE event.kind = "ALIAS" -> EmitAlias(r)
         [] event.kind = "SCALAR" -> EmitScalar(r, event)
         [] event.kind = "SEQUENCE-START" -> EmitSequenceStart(r, event)
         [] event.kind = "MAPPING-START" -> EmitMappingStart(r, event)
         [] OTHER -> Refuse(r)

-------------------------------------------------------------------------------
(* Collections.                                                             *)

\* A line of its own, where the canonical form or the width asks for one.
FlowIndent(e) == IF e.settings.canonical \/ TooWide(e) THEN WriteIndent(e) ELSE e

OpenFlow(e, bracket) ==
    LET r == IncreaseIndent(WriteIndicator(e, bracket, TRUE, TRUE, FALSE), TRUE, FALSE)
    IN [r EXCEPT !.flow = @ + 1]

CloseFlow(e, bracket, first) ==
    LET r == DecreaseIndent([e EXCEPT !.flow = @ - 1])
        closed == IF e.settings.canonical /\ ~first
                  THEN WriteIndent(WriteIndicator(r, ",", FALSE, FALSE, FALSE)) ELSE r
    IN Resume(WriteIndicator(closed, bracket, FALSE, FALSE, FALSE))

Comma(e, first) == IF first THEN e ELSE WriteIndicator(e, ",", FALSE, FALSE, FALSE)

EmitFlowSequenceItem(e, event, first) ==
    LET open == IF first THEN OpenFlow(e, "[") ELSE e
    IN IF event.kind = "SEQUENCE-END" THEN CloseFlow(open, "]", first)
       ELSE EmitNode(Await(FlowIndent(Comma(open, first)), "FLOW-SEQUENCE-ITEM"),
                     event, FALSE, FALSE, FALSE)

EmitFlowMappingKey(e, event, first) ==
    LET open == IF first THEN OpenFlow(e, "{") ELSE e
        r == FlowIndent(Comma(open, first))
    IN IF event.kind = "MAPPING-END" THEN CloseFlow(open, "}", first)
       ELSE IF ~e.settings.canonical /\ CheckSimpleKey(r)
       THEN EmitNode(Await(r, "FLOW-MAPPING-SIMPLE-VALUE"), event, FALSE, TRUE, TRUE)
       ELSE EmitNode(Await(WriteIndicator(r, "?", TRUE, FALSE, FALSE), "FLOW-MAPPING-VALUE"),
                     event, FALSE, TRUE, FALSE)

EmitFlowMappingValue(e, event, simple) ==
    LET r == IF simple THEN WriteIndicator(e, ":", FALSE, FALSE, FALSE)
             ELSE WriteIndicator(FlowIndent(e), ":", TRUE, FALSE, FALSE)
    IN EmitNode(Await(r, "FLOW-MAPPING-KEY"), event, FALSE, TRUE, FALSE)

EmitBlockSequenceItem(e, event, first) ==
    LET open == IF first THEN IncreaseIndent(e, FALSE, e.mapping /\ ~e.indention) ELSE e
        r == WriteIndicator(WriteIndent(open), "-", TRUE, FALSE, TRUE)
    IN IF event.kind = "SEQUENCE-END" THEN Resume(DecreaseIndent(open))
       ELSE EmitNode(Await(r, "BLOCK-SEQUENCE-ITEM"), event, FALSE, FALSE, FALSE)

EmitBlockMappingKey(e, event, first) ==
    LET open == IF first THEN IncreaseIndent(e, FALSE, FALSE) ELSE e
        r == WriteIndent(open)
    IN IF event.kind = "MAPPING-END" THEN Resume(DecreaseIndent(open))
       ELSE IF CheckSimpleKey(r)
       THEN EmitNode(Await(r, "BLOCK-MAPPING-SIMPLE-VALUE"), event, FALSE, TRUE, TRUE)
       ELSE EmitNode(Await(WriteIndicator(r, "?", TRUE, FALSE, TRUE), "BLOCK-MAPPING-VALUE"),
                     event, FALSE, TRUE, FALSE)

EmitBlockMappingValue(e, event, simple) ==
    LET r == IF simple THEN WriteIndicator(e, ":", FALSE, FALSE, FALSE)
             ELSE WriteIndicator(WriteIndent(e), ":", TRUE, FALSE, TRUE)
    IN EmitNode(Await(r, "BLOCK-MAPPING-KEY"), event, FALSE, TRUE, FALSE)

-------------------------------------------------------------------------------
(* The stream and its documents.                                            *)

\* A setting out of range, or none, gives way to the default.
DefaultIndent == 2
DefaultWidth == 80
Settled(settings, encoding) ==
    LET indent == IF settings.indent \in 2..9 THEN settings.indent ELSE DefaultIndent
    IN [settings EXCEPT
          !.indent = indent,
          !.width = IF @ \in 0..(2 * indent) THEN DefaultWidth ELSE @,
          !.encoding = CASE @ # "any" -> @
                         [] @ = "any" /\ encoding # "any" -> encoding
                         [] OTHER -> "utf-8"]

EmitStreamStart(e, event) ==
    LET settings == Settled(e.settings, event.encoding)
    IN IF event.kind # "STREAM-START" THEN Refuse(e)
       ELSE [Become(e, "FIRST-DOCUMENT-START")
                EXCEPT !.settings = settings, !.indent = -1, !.column = 0,
                       !.whitespace = TRUE, !.indention = TRUE,
                       !.text = IF settings.encoding = "utf-8" THEN @ ELSE Append(@, "BOM")]

\* "..." ends a text that the next line could continue.
CloseOpenEnd(e) ==
    IF e.openEnded THEN WriteIndent(WriteIndicator(e, "...", TRUE, FALSE, FALSE)) ELSE e

WriteVersionDirective(e) ==
    WriteIndent(WriteIndicator(WriteIndicator(e, "%YAML", TRUE, FALSE, FALSE),
                               "1.1", TRUE, FALSE, FALSE))

WriteTagDirective(e, directive) ==
    WriteIndent(WriteTagContent(
        WriteTagHandle(WriteIndicator(e, "%TAG", TRUE, FALSE, FALSE), directive.handle),
        directive.prefix, TRUE))

EmitDocumentStart(e, event, first) ==
    LET Declare(r, d) == AppendTagDirective(AnalyzeTagDirective(r, d), d, FALSE)
        Default(r, d) == AppendTagDirective(r, d, TRUE)
        known == FoldLeft(Default, FoldLeft(Declare, AnalyzeVersionDirective(e, event.version),
                                            event.tags), DefaultDirectives)
        directives == event.version # Null \/ event.tags # <<>>
        implicit == event.implicit /\ first /\ ~e.settings.canonical /\ ~directives
        closed == IF directives THEN CloseOpenEnd(known) ELSE known
        version == IF event.version = Null THEN closed ELSE WriteVersionDirective(closed)
        tags == FoldLeft(WriteTagDirective, version, event.tags)
        marked == WriteIndicator(WriteIndent(tags), "---", TRUE, FALSE, FALSE)
    IN CASE event.kind = "STREAM-END" -> Become(CloseOpenEnd(e), "END")
         [] event.kind = "DOCUMENT-START" ->
              Become(IF implicit THEN tags
                     ELSE IF e.settings.canonical THEN WriteIndent(marked) ELSE marked,
                     "DOCUMENT-CONTENT")
         [] OTHER -> Refuse(e)

EmitDocumentContent(e, event) ==
    EmitNode(Await(e, "DOCUMENT-END"), event, TRUE, FALSE, FALSE)

EmitDocumentEnd(e, event) ==
    LET r == WriteIndent(e)
    IN IF event.kind # "DOCUMENT-END" THEN Refuse(e)
       ELSE [Become(IF event.implicit THEN r
                    ELSE WriteIndent(WriteIndicator(r, "...", TRUE, FALSE, FALSE)),
                    "DOCUMENT-START") EXCEPT !.directives = <<>>]

-------------------------------------------------------------------------------
\* The state dispatcher.
EmitterStateMachine(e, event) ==
    CASE e.state = "STREAM-START" -> EmitStreamStart(e, event)
      [] e.state = "FIRST-DOCUMENT-START" -> EmitDocumentStart(e, event, TRUE)
      [] e.state = "DOCUMENT-START" -> EmitDocumentStart(e, event, FALSE)
      [] e.state = "DOCUMENT-CONTENT" -> EmitDocumentContent(e, event)
      [] e.state = "DOCUMENT-END" -> EmitDocumentEnd(e, event)
      [] e.state = "FLOW-SEQUENCE-FIRST-ITEM" -> EmitFlowSequenceItem(e, event, TRUE)
      [] e.state = "FLOW-SEQUENCE-ITEM" -> EmitFlowSequenceItem(e, event, FALSE)
      [] e.state = "FLOW-MAPPING-FIRST-KEY" -> EmitFlowMappingKey(e, event, TRUE)
      [] e.state = "FLOW-MAPPING-KEY" -> EmitFlowMappingKey(e, event, FALSE)
      [] e.state = "FLOW-MAPPING-SIMPLE-VALUE" -> EmitFlowMappingValue(e, event, TRUE)
      [] e.state = "FLOW-MAPPING-VALUE" -> EmitFlowMappingValue(e, event, FALSE)
      [] e.state = "BLOCK-SEQUENCE-FIRST-ITEM" -> EmitBlockSequenceItem(e, event, TRUE)
      [] e.state = "BLOCK-SEQUENCE-ITEM" -> EmitBlockSequenceItem(e, event, FALSE)
      [] e.state = "BLOCK-MAPPING-FIRST-KEY" -> EmitBlockMappingKey(e, event, TRUE)
      [] e.state = "BLOCK-MAPPING-KEY" -> EmitBlockMappingKey(e, event, FALSE)
      [] e.state = "BLOCK-MAPPING-SIMPLE-VALUE" -> EmitBlockMappingValue(e, event, TRUE)
      [] e.state = "BLOCK-MAPPING-VALUE" -> EmitBlockMappingValue(e, event, FALSE)
      [] OTHER -> Refuse(e)

\* How many events must follow the head of the queue, unless what it opens is
\* closed before.
Lookahead(kind) == CASE kind = "DOCUMENT-START" -> 1 [] kind = "SEQUENCE-START" -> 2
                     [] kind = "MAPPING-START" -> 3 [] OTHER -> 0

NeedMoreEvents(e) ==
    LET Depth(k) == Len(SelectSeq(SubSeq(e.events, 1, k), LAMBDA v : v.kind \in Opens))
                    - Len(SelectSeq(SubSeq(e.events, 1, k), LAMBDA v : v.kind \in Closes))
    IN \/ e.events = <<>>
       \/ /\ Lookahead(Head(e.events).kind) > 0
          /\ Len(e.events) <= Lookahead(Head(e.events).kind)
          /\ \A k \in DOMAIN e.events : Depth(k) # 0

RECURSIVE Drain(_)
Drain(e) ==
    LET event == Head(e.events)
        r == EmitterStateMachine(AnalyzeEvent(e, event), event)
    IN IF e.failed \/ NeedMoreEvents(e) THEN e
       ELSE Drain([r EXCEPT !.events = Tail(@)])

Emit(e, event) ==
    LET queued == [e EXCEPT !.events = Append(@, event)]
    IN Drain(queued)
===============================================================================
