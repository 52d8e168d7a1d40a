------------------------------ MODULE YamlScanner ------------------------------
(***************************************************************************)
(* The scanner of the bundled YAML library (scanner.c): it turns the text  *)
(* into tokens.  A key is recognised only by the ':' after it, so KEY and  *)
(* BLOCK-MAPPING-START are inserted into the queue behind tokens already   *)
(* there; "keys" holds, for each flow level, the token that may still turn *)
(* out to be a key.                                                        *)
(*                                                                         *)
(* Every operator maps a scanner to the scanner after the call.  An error  *)
(* stays and ends the scan, so that what a function does to the rest of    *)
(* the scanner after one is of no matter.  Marks of tokens, messages and   *)
(* memory exhaustion are left out.                                         *)
(***************************************************************************)
EXTENDS YamlText

SimpleKeyLimit == 1024

Origin == [index |-> 0, line |-> 0, column |-> 0]
NoKey == [possible |-> FALSE, required |-> FALSE, number |-> 0, mark |-> Origin]

\* "parsed" tokens have left the queue.
NewScanner(text, encoding) ==
    [text |-> text, encoding |-> encoding, mark |-> Origin, started |-> FALSE,
     tokens |-> <<>>, parsed |-> 0,
     indent |-> 0, indents |-> <<>>, allowed |-> FALSE, keys |-> <<>>, flow |-> 0,
     error |-> "none"]

Token(type) == [type |-> type]
ValueToken(type, value) == [type |-> type, value |-> value]
ScalarToken(value, style) == [type |-> "SCALAR", value |-> value, style |-> style]
TagToken(handle, suffix) == [type |-> "TAG", handle |-> handle, suffix |-> suffix]

Failed(s) == s.error # "none"
Error(s) == IF Failed(s) THEN s ELSE [s EXCEPT !.error = "scanner"]

\* An assertion of the library that does not hold: the program ends.
Abort(s) == IF Failed(s) THEN s ELSE [s EXCEPT !.error = "abort"]
Check(s, condition) == IF condition THEN s ELSE Error(s)

-------------------------------------------------------------------------------
(* The text at hand.                                                        *)

Char(s, k) == IF s.mark.index + k < Len(s.text) THEN s.text[s.mark.index + k + 1] ELSE End
Piece(s, k, n) == [i \in 1..n |-> Char(s, k + i - 1)]

\* How many characters from k on are of a class, or come before one of it.
RECURSIVE RunOf(_, _, _), RunUntil(_, _, _)
RunOf(s, class, k) == IF Char(s, k) \in class THEN 1 + RunOf(s, class, k + 1) ELSE 0
RunUntil(s, class, k) == IF Char(s, k) \in class THEN 0 ELSE 1 + RunUntil(s, class, k + 1)

\* SKIP, n times, and SKIP_LINE.
Forward(s, n) == [s EXCEPT !.mark.index = @ + n, !.mark.column = @ + n]
NextLine(s) ==
    LET width == IF Char(s, 0) = "\r" /\ Char(s, 1) = "\n" THEN 2
                 ELSE IF Char(s, 0) \in Break THEN 1 ELSE 0
    IN IF width = 0 THEN s
       ELSE [s EXCEPT !.mark = [index |-> @.index + width, line |-> @.line + 1, column |-> 0]]

\* The line break at hand, as READ_LINE stores it.
LineBreak(s) == IF Char(s, 0) \in Break THEN <<Stored(Char(s, 0))>> ELSE <<>>

EatBlanks(s) == Forward(s, RunOf(s, Blank, 0))
EatComment(s) == IF Char(s, 0) = "#" THEN Forward(s, RunUntil(s, BreakZ, 0)) ELSE s

\* What may follow an indicator line, and nothing else.
EatLine(s) == LET r == EatComment(EatBlanks(s))
              IN NextLine(Check(r, Char(r, 0) \in BreakZ))

AtDocumentIndicator(s, c) ==
    /\ s.mark.column = 0
    /\ \A k \in 0..2 : Char(s, k) = c
    /\ Char(s, 3) \in BlankZ

RECURSIVE ScanToNextToken(_)
ScanToNextToken(s) ==
    LET bom == IF s.mark.column = 0 /\ Char(s, 0) = "BOM" THEN Forward(s, 1) ELSE s
        spaces == IF s.flow > 0 \/ ~s.allowed THEN Blank ELSE {" "}
        r == EatComment(Forward(bom, RunOf(bom, spaces, 0)))
    IN IF Char(r, 0) \in Break
       THEN ScanToNextToken([NextLine(r) EXCEPT !.allowed = @ \/ r.flow = 0])
       ELSE r

-------------------------------------------------------------------------------
(* The queue, the simple keys and the indentation.                          *)

Enqueue(s, token) == [s EXCEPT !.tokens = Append(@, token)]
Insert(s, number, token) == [s EXCEPT !.tokens = InsertAt(@, number - s.parsed + 1, token)]

Key(s) == Last(s.keys)
ForgetKey(s) == [s EXCEPT !.keys[Len(s.keys)].possible = FALSE]

RemoveSimpleKey(s) == ForgetKey(Check(s, ~(Key(s).possible /\ Key(s).required)))

SaveSimpleKey(s) ==
    LET required == s.flow = 0 /\ s.indent = s.mark.column
        key == [possible |-> TRUE, required |-> required,
                number |-> s.parsed + Len(s.tokens), mark |-> s.mark]
    IN CASE s.allowed -> [RemoveSimpleKey(s) EXCEPT !.keys[Len(s.keys)] = key]
         [] ~s.allowed /\ required -> Abort(s)
         [] OTHER -> s

\* A key must end on the line it begins on, within a limit of length.
Stale(s, key) ==
    /\ key.possible
    /\ key.mark.line < s.mark.line \/ key.mark.index + SimpleKeyLimit < s.mark.index

StaleSimpleKeys(s) ==
    LET r == Check(s, \A i \in DOMAIN s.keys : ~(Stale(s, s.keys[i]) /\ s.keys[i].required))
    IN [r EXCEPT !.keys = [i \in DOMAIN s.keys |->
            IF Stale(s, s.keys[i]) THEN [s.keys[i] EXCEPT !.possible = FALSE] ELSE s.keys[i]]]

IncreaseFlowLevel(s) == [s EXCEPT !.keys = Append(@, NoKey), !.flow = @ + 1]
DecreaseFlowOnly(s) == [s EXCEPT !.flow = @ - 1]
DecreaseFlowLevel(s) ==
    IF s.flow = 0 THEN s ELSE [s EXCEPT !.keys = Front(@), !.flow = @ - 1]

\* A token deeper than the current level opens a collection; "number" is the
\* place of its first token, -1 for the end of the queue.
RollIndent(s, column, number, type) ==
    LET r == [s EXCEPT !.indents = Append(@, s.indent), !.indent = column]
    IN IF s.flow > 0 \/ s.indent >= column THEN s
       ELSE IF number = -1 THEN Enqueue(r, Token(type)) ELSE Insert(r, number, Token(type))

RECURSIVE UnrollIndent(_, _)
UnrollIndent(s, column) ==
    IF s.flow > 0 \/ s.indent <= column THEN s
    ELSE UnrollIndent([Enqueue(s, Token("BLOCK-END")) EXCEPT !.indent = Last(s.indents),
                                                            !.indents = Front(@)], column)

-------------------------------------------------------------------------------
(* Tokens with a value.                                                     *)

AfterAnchor == BlankZ \cup Among("?:,]}%@") \cup {"GRAVE"}

ScanAnchor(s, type) ==
    LET n == RunOf(s, Alpha, 1)
    IN Enqueue(Forward(Check(s, n > 0 /\ Char(s, n + 1) \in AfterAnchor), n + 1),
               ValueToken(type, Piece(s, 1, n)))

\* '!', letters and, when it is there, the '!' that makes it a handle.
TagHandle(s) == LET n == RunOf(s, Alpha, 1)
                IN Piece(s, 0, IF Char(s, n + 1) = "!" THEN n + 2 ELSE n + 1)

\* An octet written as '%' and two digits, or -1.
EscapedOctet(s, k) ==
    IF Char(s, k) = "%" /\ Char(s, k + 1) \in Hex /\ Char(s, k + 2) \in Hex
    THEN NumberOf(Piece(s, k + 1, 2), 16) ELSE -1

\* The characters of a URI from here on; a character that is no ASCII one is
\* escaped octet by octet.
RECURSIVE ScanUri(_, _)
ScanUri(s, text) ==
    LET octets == [i \in 1..4 |-> EscapedOctet(s, 3 * (i - 1))]
        width == IF octets[1] = -1 THEN 0 ELSE Width(octets[1])
        whole == width > 0 /\ \A i \in 2..width : IsTrailing(octets[i])
    IN CASE Char(s, 0) \in Uri -> ScanUri(Forward(s, 1), Append(text, Char(s, 0)))
         [] Char(s, 0) = "%" /\ whole ->
              ScanUri(Forward(s, 3 * width), Append(text, Coded(Decode(octets, 1, width))))
         [] Char(s, 0) = "%" /\ ~whole -> [scan |-> Error(s), text |-> text]
         [] OTHER -> [scan |-> s, text |-> text]

\* !<uri>, !handle!suffix, !suffix or a lone '!'.
ScanTag(s) ==
    LET handle == TagHandle(s)
        named == Len(handle) > 1 /\ Last(handle) = "!"
        verbatim == Char(s, 1) = "<"
        uri == ScanUri(Forward(s, IF verbatim THEN 2 ELSE Len(handle)), <<>>)
        suffix == IF verbatim \/ named THEN uri.text ELSE Tail(handle) \o uri.text
        r == IF verbatim THEN Forward(uri.scan, 1) ELSE uri.scan
        token == CASE verbatim -> TagToken(<<>>, suffix)
                   [] ~verbatim /\ named -> TagToken(handle, suffix)
                   [] ~verbatim /\ ~named /\ suffix = <<>> -> TagToken(<<>>, <<"!">>)
                   [] OTHER -> TagToken(<<"!">>, suffix)
    IN Enqueue(Check(r, /\ verbatim \/ named => uri.text # <<>>
                        /\ verbatim => Char(uri.scan, 0) = ">"
                        /\ Char(r, 0) \in BlankZ), token)

MaxNumberLength == 9

\* The version of a %YAML directive, at a digit.
ScanVersion(s) ==
    LET major == RunOf(s, Digit, 0)
        minor == RunOf(s, Digit, major + 1)
        version == << NumberOf(Piece(s, 0, major), 10), NumberOf(Piece(s, major + 1, minor), 10) >>
    IN Enqueue(Forward(Check(s, /\ {major, minor} \subseteq 1..MaxNumberLength
                                /\ Char(s, major) = "."), major + 1 + minor),
               ValueToken("VERSION-DIRECTIVE", version))

\* The handle and the prefix of a %TAG directive.
ScanTagDirective(s) ==
    LET handle == TagHandle(s)
        uri == ScanUri(EatBlanks(Forward(s, Len(handle))), <<>>)
    IN Enqueue(Check(uri.scan, /\ Char(s, 0) = "!"
                               /\ Last(handle) = "!"
                               /\ Char(s, Len(handle)) \in Blank
                               /\ uri.text # <<>>
                               /\ Char(uri.scan, 0) \in BlankZ),
               [type |-> "TAG-DIRECTIVE", handle |-> handle, prefix |-> uri.text])

ScanDirective(s) ==
    LET n == RunOf(s, Alpha, 1)
        name == Piece(s, 1, n)
        value == EatBlanks(Forward(s, 1 + n))
    IN CASE Char(s, 1 + n) \notin BlankZ -> Error(s)
         [] Char(s, 1 + n) \in BlankZ /\ name = Chars("YAML") -> EatLine(ScanVersion(value))
         [] Char(s, 1 + n) \in BlankZ /\ name = Chars("TAG") -> EatLine(ScanTagDirective(value))
         [] OTHER -> Error(s)

-------------------------------------------------------------------------------
(* Block scalars.                                                           *)

\* Indentation and empty lines; "breaks" gathers the line breaks.  An
\* indentation of 0 is yet to be found: it is that of the deepest line so far.
RECURSIVE ScanBlockScalarBreaks(_, _, _, _)
ScanBlockScalarBreaks(s, indent, deepest, breaks) ==
    LET spaces == RunOf(s, {" "}, 0)
        room == indent - s.mark.column
        r == Forward(s, IF indent = 0 \/ spaces <= room THEN spaces
                        ELSE IF room > 0 THEN room ELSE 0)
        deeper == IF r.mark.column > deepest THEN r.mark.column ELSE deepest
        least == IF r.indent < 0 THEN 1 ELSE r.indent + 1
        found == IF indent > 0 THEN indent ELSE IF deeper > least THEN deeper ELSE least
    IN IF Char(r, 0) \in Break
       THEN ScanBlockScalarBreaks(NextLine(r), indent, deeper, breaks \o LineBreak(r))
       ELSE [scan |-> Check(r, ~(/\ indent = 0 \/ r.mark.column < indent
                                 /\ Char(r, 0) = "\t")),
             indent |-> found, breaks |-> breaks]

\* The lines of the scalar b: the text so far, the break that ended the last
\* line, the empty lines after it, and whether the last line began with a blank.
RECURSIVE ScanBlockScalarLines(_, _)
ScanBlockScalarLines(b, literal) ==
    LET s == b.scan
        blank == Char(s, 0) \in Blank
        folded == ~literal /\ b.leading = <<"\n">> /\ ~b.blank /\ ~blank
        n == RunUntil(s, BreakZ, 0)
        r == Forward(s, n)
        next == ScanBlockScalarBreaks(NextLine(r), b.indent, 0, <<>>)
    IN IF s.mark.column # b.indent \/ Char(s, 0) = End \/ Failed(s) THEN b
       ELSE ScanBlockScalarLines(
                [scan |-> next.scan, indent |-> b.indent, blank |-> blank,
                 text |-> b.text \o (CASE folded /\ b.trailing = <<>> -> <<" ">>
                                       [] folded /\ b.trailing # <<>> -> <<>>
                                       [] OTHER -> b.leading)
                          \o b.trailing \o Piece(s, 0, n),
                 leading |-> LineBreak(r), trailing |-> next.breaks], literal)

ScanBlockScalar(s, literal) ==
    LET Sign(k) == Char(s, k) \in {"+", "-"}
        Number(k) == Char(s, k) \in Digit
        sign == IF Sign(1) THEN 1 ELSE IF Number(1) /\ Sign(2) THEN 2 ELSE 0
        number == IF Number(1) THEN 1 ELSE IF Sign(1) /\ Number(2) THEN 2 ELSE 0
        increment == IF number = 0 THEN 0 ELSE DigitValue(Char(s, number))
        header == IF sign > number THEN sign ELSE number
        line == EatLine(Forward(Check(s, number = 0 \/ increment > 0), 1 + header))
        indent == IF increment = 0 \/ s.indent < 0 THEN increment ELSE s.indent + increment
        first == ScanBlockScalarBreaks(line, indent, 0, <<>>)
        b == ScanBlockScalarLines(
                 [scan |-> first.scan, indent |-> first.indent, blank |-> FALSE, text |-> <<>>,
                  leading |-> <<>>, trailing |-> first.breaks], literal)
        strip == sign > 0 /\ Char(s, sign) = "-"
        keep == sign > 0 /\ Char(s, sign) = "+"
    IN Enqueue(b.scan, ScalarToken(b.text \o (IF strip THEN <<>> ELSE b.leading)
                                          \o (IF keep THEN b.trailing ELSE <<>>),
                                   IF literal THEN "literal" ELSE "folded"))

-------------------------------------------------------------------------------
(* Quoted and plain scalars.                                                *)

\* Blanks and breaks between two words of a scalar: the spaces before the
\* first break, that break, and those after it.
Gap(s, broken) == [scan |-> s, spaces |-> <<>>, leading |-> <<>>, trailing |-> <<>>,
                   broken |-> broken]

RECURSIVE ScanGap(_, _)
ScanGap(g, indent) ==
    LET s == g.scan
    IN CASE Char(s, 0) \in Blank /\ ~g.broken ->
              ScanGap([g EXCEPT !.scan = Forward(s, 1), !.spaces = Append(@, Char(s, 0))], indent)
         [] Char(s, 0) \in Blank /\ g.broken ->
              IF Char(s, 0) = "\t" /\ s.mark.column < indent
              THEN [g EXCEPT !.scan = Error(s)]
              ELSE ScanGap([g EXCEPT !.scan = Forward(s, 1)], indent)
         [] Char(s, 0) \in Break /\ ~g.broken ->
              ScanGap([g EXCEPT !.scan = NextLine(s), !.spaces = <<>>,
                                !.leading = LineBreak(s), !.broken = TRUE], indent)
         [] Char(s, 0) \in Break /\ g.broken ->
              ScanGap([g EXCEPT !.scan = NextLine(s), !.trailing = @ \o LineBreak(s)], indent)
         [] OTHER -> g

\* The text a gap stands for: a single line feed is folded into a space.
Folded(g) ==
    CASE ~g.broken -> g.spaces
      [] g.broken /\ g.leading = <<"\n">> ->
           IF g.trailing = <<>> THEN <<" ">> ELSE g.trailing
      [] OTHER -> g.leading \o g.trailing

\* The characters up to a blank, the closing quote or an escaped line break.
RECURSIVE QuotedWord(_, _, _)
QuotedWord(s, text, single) ==
    LET c == Char(s, 0)
        d == Char(s, 1)
        More(n, char) == QuotedWord(Forward(s, n), Append(text, char), single)
        stop == [scan |-> s, text |-> text, broken |-> FALSE]
        digits == IF d \in DOMAIN EscapeLength THEN Piece(s, 2, EscapeLength[d]) ELSE <<>>
    IN CASE c \in BlankZ -> stop
         [] single /\ c = "'" /\ d = "'" -> More(2, "'")
         [] c = (IF single THEN "'" ELSE "\"") /\ ~(single /\ d = "'") -> stop
         [] ~single /\ c = "\\" /\ d \in Break ->
              [stop EXCEPT !.scan = NextLine(Forward(s, 1)), !.broken = TRUE]
         [] ~single /\ c = "\\" /\ d \in DOMAIN Escape -> More(2, Escape[d])
         [] ~single /\ c = "\\" /\ d \in DOMAIN EscapeLength ->
              IF \/ RunOf(s, Hex, 2) < EscapeLength[d]
                 \/ ~ValidCode(NumberOf(digits, 16))
              THEN [stop EXCEPT !.scan = Error(s)]
              ELSE More(2 + EscapeLength[d], Coded(NumberOf(digits, 16)))
         [] ~single /\ c = "\\" /\ d \notin Break \cup DOMAIN Escape \cup DOMAIN EscapeLength ->
              [stop EXCEPT !.scan = Error(s)]
         [] OTHER -> More(1, c)

RECURSIVE QuotedText(_, _, _)
QuotedText(s, text, single) ==
    LET word == QuotedWord(s, text, single)
        gap == ScanGap(Gap(word.scan, word.broken), 0)
    IN IF \/ AtDocumentIndicator(s, "-") \/ AtDocumentIndicator(s, ".")
          \/ Char(s, 0) = End \/ Failed(word.scan)
       THEN [scan |-> Error(s), text |-> text]
       ELSE IF Char(word.scan, 0) = (IF single THEN "'" ELSE "\"")
       THEN [scan |-> Forward(word.scan, 1), text |-> word.text]
       ELSE QuotedText(gap.scan, word.text \o Folded(gap), single)

ScanFlowScalar(s, single) ==
    LET r == QuotedText(Forward(s, 1), <<>>, single)
    IN Enqueue(r.scan, ScalarToken(r.text, IF single THEN "single-quoted" ELSE "double-quoted"))

\* Where a plain word ends: a blank, ": ", and in the flow context an indicator.
EndsPlain(s, k) ==
    \/ Char(s, k) \in BlankZ
    \/ Char(s, k) = ":" /\ Char(s, k + 1) \in BlankZ
    \/ s.flow > 0 /\ Char(s, k) \in Among(",:?[]{}")

RECURSIVE PlainWord(_, _)
PlainWord(s, k) == IF EndsPlain(s, k) THEN 0 ELSE 1 + PlainWord(s, k + 1)

\* The text of a plain scalar; g is the gap before the next word.
RECURSIVE PlainText(_, _)
PlainText(g, text) ==
    LET s == g.scan
        n == PlainWord(s, 0)
        r == Forward(s, n)
        gap == ScanGap(Gap(r, FALSE), s.indent + 1)
        stop == [gap |-> g, text |-> text]
        word == text \o (IF n = 0 THEN <<>> ELSE Folded(g)) \o Piece(s, 0, n)
    IN CASE \/ AtDocumentIndicator(s, "-") \/ AtDocumentIndicator(s, ".")
            \/ Char(s, 0) = "#" \/ Failed(s) -> stop
         [] s.flow > 0 /\ Char(r, 0) = ":" /\ Char(r, 1) \notin BlankZ ->
              [stop EXCEPT !.gap.scan = Error(r)]
         [] Char(r, 0) \notin Blank \cup Break ->
              [gap |-> IF n = 0 THEN g ELSE Gap(r, FALSE), text |-> word]
         [] s.flow = 0 /\ gap.scan.mark.column < s.indent + 1 ->
              [gap |-> gap, text |-> word]
         [] OTHER -> PlainText(gap, word)

\* A scalar that ends on a later line leaves the scanner where a key may begin.
ScanPlainScalar(s) ==
    LET r == PlainText(Gap(s, FALSE), <<>>)
    IN [Enqueue(r.gap.scan, ScalarToken(r.text, "plain")) EXCEPT !.allowed = @ \/ r.gap.broken]

-------------------------------------------------------------------------------
(* The fetchers: one for each kind of token.                                *)

Allow(s, allowed) == [s EXCEPT !.allowed = allowed]
Consume(s, n, type) == Enqueue(Forward(s, n), Token(type))
WithKey(s) == Allow(SaveSimpleKey(s), FALSE)

\* Back to the level of the stream, as directives and indicators demand.
AtTopLevel(s) == Allow(RemoveSimpleKey(UnrollIndent(s, -1)), FALSE)

\* A block collection opens at an indicator, where a new line allows one.
OpenBlock(s, type) ==
    IF s.flow > 0 THEN s ELSE RollIndent(Check(s, s.allowed), s.mark.column, -1, type)

FetchStreamStart(s) ==
    Enqueue([s EXCEPT !.indent = -1, !.keys = Append(@, NoKey), !.allowed = TRUE,
                      !.started = TRUE], [type |-> "STREAM-START", encoding |-> s.encoding])

FetchStreamEnd(s) ==
    LET r == IF s.mark.column = 0 THEN s
             ELSE [s EXCEPT !.mark.column = 0, !.mark.line = @ + 1]
    IN Enqueue(AtTopLevel(r), Token("STREAM-END"))

FetchDirective(s) == ScanDirective(AtTopLevel(s))
FetchDocumentIndicator(s, type) == Consume(AtTopLevel(s), 3, type)
FetchFlowCollectionStart(s, type) ==
    Consume(Allow(IncreaseFlowLevel(SaveSimpleKey(s)), TRUE), 1, type)
FetchFlowCollectionEnd(s, type) ==
    Consume(Allow(DecreaseFlowLevel(RemoveSimpleKey(s)), FALSE), 1, type)
FetchFlowEntry(s) == Consume(Allow(RemoveSimpleKey(s), TRUE), 1, "FLOW-ENTRY")
FetchBlockEntry(s) ==
    Consume(Allow(RemoveSimpleKey(OpenBlock(s, "BLOCK-SEQUENCE-START")), TRUE), 1, "BLOCK-ENTRY")
FetchKey(s) ==
    Consume(Allow(RemoveSimpleKey(OpenBlock(s, "BLOCK-MAPPING-START")), s.flow = 0), 1, "KEY")

\* ':' makes a key of the token that may be one; without one it is the value
\* of an explicit or an absent key.
FetchValue(s) ==
    LET key == Key(s)
        keyed == RollIndent(Insert(s, key.number, Token("KEY")), key.mark.column, key.number,
                            "BLOCK-MAPPING-START")
    IN Consume(IF key.possible THEN Allow(ForgetKey(keyed), FALSE)
               ELSE Allow(OpenBlock(s, "BLOCK-MAPPING-START"), s.flow = 0), 1, "VALUE")

FetchAnchor(s, type) == ScanAnchor(WithKey(s), type)
FetchTag(s) == ScanTag(WithKey(s))
FetchBlockScalar(s, literal) == ScanBlockScalar(Allow(RemoveSimpleKey(s), TRUE), literal)
FetchFlowScalar(s, single) == ScanFlowScalar(WithKey(s), single)
FetchPlainScalar(s) == ScanPlainScalar(WithKey(s))

\* The characters a plain scalar may begin with.
StartsPlain(s) ==
    LET c == Char(s, 0)
    IN \/ c \notin BlankZ \cup Among("-?:,[]{}#&*!|>'\"%@") \cup {"GRAVE"}
       \/ c = "-" /\ Char(s, 1) \notin Blank
       \/ s.flow = 0 /\ c \in {"?", ":"} /\ Char(s, 1) \notin BlankZ

FetchNextToken(s) ==
    LET found == StaleSimpleKeys(ScanToNextToken(s))
        r == UnrollIndent(found, found.mark.column)
        c == Char(r, 0)
        spaced == Char(r, 1) \in BlankZ
    IN IF ~s.started THEN FetchStreamStart(s)
       ELSE IF Failed(r) THEN r
       ELSE IF c = End THEN FetchStreamEnd(r)
       ELSE IF r.mark.column = 0 /\ c = "%" THEN FetchDirective(r)
       ELSE IF AtDocumentIndicator(r, "-") THEN FetchDocumentIndicator(r, "DOCUMENT-START")
       ELSE IF AtDocumentIndicator(r, ".") THEN FetchDocumentIndicator(r, "DOCUMENT-END")
       ELSE CASE c = "[" -> FetchFlowCollectionStart(r, "FLOW-SEQUENCE-START")
              [] c = "{" -> FetchFlowCollectionStart(r, "FLOW-MAPPING-START")
              [] c = "]" -> FetchFlowCollectionEnd(r, "FLOW-SEQUENCE-END")
              [] c = "}" -> FetchFlowCollectionEnd(r, "FLOW-MAPPING-END")
              [] c = "," -> FetchFlowEntry(r)
              [] c = "-" /\ spaced -> FetchBlockEntry(r)
              [] c = "?" /\ (r.flow > 0 \/ spaced) -> FetchKey(r)
              [] c = ":" /\ (r.flow > 0 \/ spaced) -> FetchValue(r)
              [] c = "*" -> FetchAnchor(r, "ALIAS")
              [] c = "&" -> FetchAnchor(r, "ANCHOR")
              [] c = "!" -> FetchTag(r)
              [] c = "|" /\ r.flow = 0 -> FetchBlockScalar(r, TRUE)
              [] c = ">" /\ r.flow = 0 -> FetchBlockScalar(r, FALSE)
              [] c = "'" -> FetchFlowScalar(r, TRUE)
              [] c = "\"" -> FetchFlowScalar(r, FALSE)
              [] StartsPlain(r) -> FetchPlainScalar(r)
              [] OTHER -> Error(r)

\* The head of the queue may go when no key can come before it any more.
RECURSIVE FetchMoreTokens(_)
FetchMoreTokens(s) ==
    LET r == IF s.tokens = <<>> THEN s ELSE StaleSimpleKeys(s)
        waits == \E i \in DOMAIN r.keys : r.keys[i].possible /\ r.keys[i].number = r.parsed
    IN IF Failed(r) THEN r
       ELSE IF s.tokens = <<>> \/ waits THEN FetchMoreTokens(FetchNextToken(r))
       ELSE r
===============================================================================
