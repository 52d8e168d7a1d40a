-------------------------------- MODULE JsonDump --------------------------------
(***************************************************************************)
(* The text of a value (dump.c, strconv.c of jansson).  The values here    *)
(* are trees, so that the check for values that contain themselves never   *)
(* stops a dump.                                                           *)
(***************************************************************************)
EXTENDS JsonLoader

Style(indent, flags) == [indent |-> indent, flags |-> flags]

Spaces(n) == [i \in 1..n |-> 32]

\* A line break and the indentation; or the space after a comma.
DumpIndent(style, depth, space) ==
    IF style.indent > 0 THEN <<10>> \o Spaces(style.indent * depth)
    ELSE IF space /\ "COMPACT" \notin style.flags THEN <<32>>
    ELSE <<>>

Hex4(n) == Ascii("\\u") \o [i \in 1..4 |-> Ascii("0123456789abcdef")[1 + ((n \div 16^(4 - i)) % 16)]]

EscapeOf(code) ==
    CASE code = 92 -> Ascii("\\\\")
      [] code = 34 -> Ascii("\\\"")
      [] code = 8 -> Ascii("\\b")
      [] code = 12 -> Ascii("\\f")
      [] code = 10 -> Ascii("\\n")
      [] code = 13 -> Ascii("\\r")
      [] code = 9 -> Ascii("\\t")
      [] code \in 65536..1114111 ->
           Hex4(55296 + ((code - 65536) \div 1024)) \o Hex4(56320 + ((code - 65536) % 1024))
      [] OTHER -> Hex4(code)

\* What JSON does not let stand for itself, and what is not ASCII, if so asked.
NeedsEscape(code, ascii) == code \in {92, 34} \cup 0..31 \/ (ascii /\ code > 127)

RECURSIVE DumpText(_, _, _)
DumpText(octets, at, ascii) ==
    IF at > Len(octets) THEN <<>>
    ELSE LET count == CharacterAt(octets, at)
             code == Decode(octets, at, count)
         IN (IF NeedsEscape(code, ascii) THEN EscapeOf(code)
             ELSE SubSeq(octets, at, at + count - 1))
            \o DumpText(octets, at + count, ascii)
DumpString(octets, style) ==
    Ascii("\"") \o DumpText(octets, 1, "ENSURE_ASCII" \in style.flags) \o Ascii("\"")

-------------------------------------------------------------------------------
(* Reals, as printf's "%.17g" writes them.                                  *)

Zeros(n) == [i \in 1..n |-> 48]

RECURSIVE Numerals(_)
Numerals(n) == IF n < 10 THEN <<48 + n>> ELSE Append(Numerals(n \div 10), 48 + (n % 10))

Exponent(n) ==
    Ascii(IF n < 0 THEN "e-" ELSE "e+")
    \o (IF n \in -9..9 THEN Zeros(1) ELSE <<>>) \o Numerals(IF n < 0 THEN -n ELSE n)

Pointed(whole, fraction) == IF fraction = <<>> THEN whole ELSE whole \o Ascii(".") \o fraction

Printed(real) ==
    LET digits == real.digits
        n == Len(digits)
        point == real.point
    IN (IF real.negative THEN Ascii("-") ELSE <<>>) \o
       CASE digits = <<>> -> Ascii("0")
         [] digits # <<>> /\ point \in -3..0 -> Pointed(Ascii("0"), Zeros(-point) \o digits)
         [] digits # <<>> /\ point \in 1..17 ->
              IF n <= point THEN digits \o Zeros(point - n)
              ELSE Pointed(SubSeq(digits, 1, point), SubSeq(digits, point + 1, n))
         [] OTHER -> Pointed(<<digits[1]>>, Tail(digits)) \o Exponent(point - 1)

DtostrAsPrinted(real) == Printed(real)

\* jsonp_dtostr: without a point or an exponent it would be read as an integer.
Dtostr(real) ==
    LET text == Printed(real)
    IN IF ToSet(text) \cap AsciiAmong(".e") = {} THEN text \o Ascii(".0") ELSE text

-------------------------------------------------------------------------------
(* do_dump.                                                                 *)

\* The members in the order the flags ask for, and that of the table else.
Members(object, style) ==
    LET pairs == object.table.pairs
    IN IF "SORT_KEYS" \in style.flags
       THEN SortSeq(pairs, LAMBDA p, q : Before(p.key, q.key))
       ELSE IF "PRESERVE_ORDER" \in style.flags
       THEN SortSeq(pairs, LAMBDA p, q : p.serial < q.serial)
       ELSE pairs

\* The parts between two brackets, each on a line of its own if indented.
Enclosed(brackets, parts, style, depth) ==
    LET between == Ascii(",") \o DumpIndent(style, depth + 1, TRUE)
        rest == [i \in 1..(Len(parts) - 1) |-> between \o parts[i + 1]]
    IN <<brackets[1]>> \o
       (IF parts = <<>> THEN <<>>
        ELSE DumpIndent(style, depth + 1, FALSE) \o parts[1] \o FlattenSeq(rest)
             \o DumpIndent(style, depth, FALSE))
       \o <<brackets[2]>>

RECURSIVE DumpValue(_, _, _)
DumpMember(pair, style, depth) ==
    DumpString(pair.key, style)
    \o Ascii(IF "COMPACT" \in style.flags THEN ":" ELSE ": ")
    \o DumpValue(pair.value, style, depth)

DumpArray(array, style, depth) ==
    Enclosed(Ascii("[]"), [i \in DOMAIN array.items |->
                             DumpValue(array.items[i], style, depth + 1)], style, depth)

DumpObject(object, style, depth) ==
    LET members == Members(object, style)
    IN Enclosed(Ascii("{}"), [i \in DOMAIN members |->
                                DumpMember(members[i], style, depth + 1)], style, depth)

DumpValue(value, style, depth) ==
    CASE value.type \in {"null", "true", "false"} -> Ascii(value.type)
      [] value.type = "integer" -> value.digits
      [] value.type = "real" -> Dtostr(value.real)
      [] value.type = "string" -> DumpString(value.octets, style)
      [] value.type = "array" -> DumpArray(value, style, depth)
      [] value.type = "object" -> DumpObject(value, style, depth)

IsContainer(value) == value.type \in {"array", "object"}

\* json_dumps: no text at all for a value that is no container, unless asked.
NoText == <<>>
JsonDumps(value, style) ==
    IF IsContainer(value) \/ "ENCODE_ANY" \in style.flags
    THEN DumpValue(value, style, 0)
    ELSE NoText
===============================================================================
