------------------------------- MODULE JsonLexer -------------------------------
(***************************************************************************)
(* The tokens of a JSON text (load.c, utf.c, strconv.c of jansson).        *)
(* A stream is the octets up to the first that is not UTF-8, with the      *)
(* state that ends it; "at" is the octet the lexer reads next.             *)
(***************************************************************************)
EXTENDS JsonValue

StreamEof == -1
StreamError == -2

\* utf8_check_first and utf8_check_full.
CheckFirst(octet) ==
    CASE octet < 128 -> 1
      [] octet \in 194..223 -> 2
      [] octet \in 224..239 -> 3
      [] octet \in 240..244 -> 4
      [] OTHER -> 0

CheckFullAnyLength(octets, at, count) ==
    /\ at + count - 1 <= Len(octets)
    /\ \A i \in (at + 1)..(at + count - 1) : IsTrailing(octets[i])
    /\ ValidCode(Decode(octets, at, count))

CheckFull(octets, at, count) ==
    /\ at + count - 1 <= Len(octets)
    /\ \A i \in (at + 1)..(at + count - 1) : IsTrailing(octets[i])
    /\ LET code == Decode(octets, at, count) IN ValidCode(code) /\ Shortest(code, count)

\* How many octets stream_get buffers at once, having checked them; 0 if they
\* are no character.
CharacterAt(octets, at) ==
    LET count == CheckFirst(octets[at])
    IN IF count <= 1 \/ CheckFull(octets, at, count) THEN count ELSE 0

RECURSIVE StreamFrom(_, _)
StreamFrom(octets, at) ==
    IF at > Len(octets) \/ octets[at] = 0 THEN <<StreamEof>>
    ELSE LET count == CharacterAt(octets, at)
         IN IF count = 0 THEN <<StreamError>>
            ELSE SubSeq(octets, at, at + count - 1) \o StreamFrom(octets, at + count)
Stream(octets) == StreamFrom(octets, 1)

\* Past its end a stream gives the state again and again.
Get(s, at) == IF at < Len(s) THEN s[at] ELSE Last(s)
HasEnded(c) == c \in {StreamEof, StreamError}

Ascii(letters) == [i \in 1..Len(letters) |-> Code[SubSeq(letters, i, i)]]
AsciiAmong(letters) == ToSet(Ascii(letters))

JsonSpace == AsciiAmong(" \t\n\r")
Structural == AsciiAmong("{}[]:,")
Digits == AsciiAmong("0123456789")
Upper == 65..90
Lower == 97..122
AnyLetter == Upper \cup Lower

RECURSIVE SkipAll(_, _, _)
SkipAll(s, at, class) == IF Get(s, at) \in class THEN SkipAll(s, at + 1, class) ELSE at

JsonToken(kind, next) == [kind |-> kind, next |-> next]
Invalid == JsonToken("INVALID", 0)
Aborted == JsonToken("ABORT", 0)     \* an assertion that fails ends the program
Valued(kind, value, next) == [kind |-> kind, value |-> value, next |-> next]

-------------------------------------------------------------------------------
(* Strings.                                                                 *)

\* The first pass looks for the closing quote.  l_isxdigit holds of every
\* octet, so that the four after "\u" may be any, the quote among them.
RECURSIVE ClosingQuote(_, _)
ClosingQuote(s, at) ==
    LET c == Get(s, at)
        next == Get(s, at + 1)
    IN CASE c = Code["\""] -> at
         [] HasEnded(c) \/ c \in 0..31 -> 0
         [] c = Code["\\"] /\ next = Code["u"] ->
              IF \E i \in 2..5 : HasEnded(Get(s, at + i)) THEN 0 ELSE ClosingQuote(s, at + 6)
         [] c = Code["\\"] /\ next \in AsciiAmong("\"\\/bfnrt") -> ClosingQuote(s, at + 2)
         [] c = Code["\\"] /\ next \notin AsciiAmong("u\"\\/bfnrt") -> 0
         [] OTHER -> ClosingQuote(s, at + 1)

\* decode_unicode_escape takes all letters for digits, and asserts that there
\* is nothing else.
EscapeDigit(c) ==
    CASE c \in Digits -> c - 48
      [] c \in Lower -> c - 87
      [] c \in Upper -> c - 55
CanDecode(s, at) == \A i \in 1..4 : Get(s, at + i) \in Digits \cup AnyLetter
DecodeEscape(s, at) == FoldLeft(LAMBDA n, i : 16 * n + EscapeDigit(s[at + i]), 0, <<1, 2, 3, 4>>)

High == 55296..56319
Low == 56320..57343
Paired(high, low) == (1024 * (high - 55296)) + (low - 56320) + 65536

Unescaped(c) ==
    CASE c = Code["b"] -> 8
      [] c = Code["f"] -> 12
      [] c = Code["n"] -> 10
      [] c = Code["r"] -> 13
      [] c = Code["t"] -> 9
      [] OTHER -> c

\* The second pass decodes the escapes.
RECURSIVE Unescape(_, _, _, _)
Unescape(s, at, last, octets) ==
    LET value == DecodeEscape(s, at + 1)
        second == at + 6
        isPair == Get(s, second) = Code["\\"] /\ Get(s, second + 1) = Code["u"]
        low == DecodeEscape(s, second + 1)
    IN CASE at > last -> Valued("STRING", octets, last + 2)
         [] at <= last /\ s[at] # Code["\\"] ->
              Unescape(s, at + 1, last, Append(octets, s[at]))
         [] at <= last /\ s[at] = Code["\\"] /\ s[at + 1] # Code["u"] ->
              Unescape(s, at + 2, last, Append(octets, Unescaped(s[at + 1])))
         [] at <= last /\ s[at] = Code["\\"] /\ s[at + 1] = Code["u"] ->
              IF ~CanDecode(s, at + 1) THEN Aborted
              ELSE IF value \in High
              THEN IF ~isPair THEN Invalid
                   ELSE IF ~CanDecode(s, second + 1) THEN Aborted
                   ELSE IF low \notin Low THEN Invalid
                   ELSE Unescape(s, at + 12, last, octets \o Encode(Paired(value, low)))
              ELSE IF value \in Low \cup {0} THEN Invalid
              ELSE Unescape(s, at + 6, last, octets \o Encode(value))

\* "at" is the octet after the opening quote.
ScanString(s, at) ==
    LET closing == ClosingQuote(s, at)
    IN IF closing = 0 THEN Invalid ELSE Unescape(s, at, closing - 1, <<>>)

-------------------------------------------------------------------------------
(* Numbers.  The value of an integer is its numeral, that of a real a sign, *)
(* the digits without the zeros around them, and the place of the point.    *)

MaxLong == Ascii("9223372036854775807")
MinLong == Ascii("9223372036854775808")

\* strcmp, on octets.
Before(a, b) ==
    \/ IsStrictPrefix(a, b)
    \/ \E i \in DOMAIN a \cap DOMAIN b :
           a[i] < b[i] /\ SubSeq(a, 1, i - 1) = SubSeq(b, 1, i - 1)

Exceeds(digits, limit) ==
    Len(digits) > Len(limit) \/ (Len(digits) = Len(limit) /\ Before(limit, digits))

\* strtol: a long, unless it does not fit.
Integer(text) ==
    LET negative == text[1] = Code["-"]
        digits == IF negative THEN Tail(text) ELSE text
    IN IF Exceeds(digits, IF negative THEN MinLong ELSE MaxLong) THEN Invalid
       ELSE Valued("INTEGER", IF digits = Ascii("0") THEN digits ELSE text, 0)

ValueOf(digits) == FoldLeft(LAMBDA n, c : (10 * n) + c - 48, 0, digits)
LeadingZeros(digits) == CHOOSE n \in 0..Len(digits) :
    /\ \A i \in 1..n : digits[i] = 48
    /\ n < Len(digits) => digits[n + 1] # 48

\* strtod, for a numeral in the C locale; rounding is left out.
Strtod(text) ==
    LET negative == text[1] = Code["-"]
        from == IF negative THEN 2 ELSE 1
        e == SelectInSeq(text, LAMBDA c : c \in AsciiAmong("eE"))
        mantissa == SubSeq(text, from, IF e = 0 THEN Len(text) ELSE e - 1)
        exponent == IF e = 0 THEN 0
                    ELSE LET sign == text[e + 1]
                             first == IF sign \in Digits THEN e + 1 ELSE e + 2
                             n == ValueOf(SubSeq(text, first, Len(text)))
                         IN IF sign = Code["-"] THEN -n ELSE n
        point == SelectInSeq(mantissa, LAMBDA c : c = Code["."])
        whole == IF point = 0 THEN Len(mantissa) ELSE point - 1
        digits == SelectSeq(mantissa, LAMBDA c : c \in Digits)
        leading == LeadingZeros(digits)
        significant == SubSeq(digits, leading + 1, Len(digits))
        trailing == LeadingZeros(Reverse(significant))
    IN IF significant = <<>> THEN [negative |-> negative, digits |-> <<>>, point |-> 0]
       ELSE [negative |-> negative,
             digits |-> SubSeq(significant, 1, Len(significant) - trailing),
             point |-> whole - leading + exponent]

\* Beyond DBL_MAX; and below the least double above 0.
Overflows(real) ==
    real.point > 309 \/ (real.point = 309 /\ Before(Ascii("17976931348623157"), real.digits))
Vanishes(real) == real.point < -323

\* jsonp_strtod refuses what overflows; what underflows to 0 it takes.
Real(text) ==
    LET real == Strtod(text)
    IN IF Overflows(real) THEN Invalid
       ELSE Valued("REAL", IF Vanishes(real) THEN [real EXCEPT !.digits = <<>>, !.point = 0]
                           ELSE real, 0)

Sized(token, next) == IF token.kind = "INVALID" THEN token ELSE [token EXCEPT !.next = next]

ScanNumber(s, at) ==
    LET first == IF Get(s, at) = Code["-"] THEN at + 1 ELSE at
        whole == IF Get(s, first) = Code["0"] THEN first + 1 ELSE SkipAll(s, first, Digits)
        hasPoint == Get(s, whole) = Code["."]
        fraction == IF hasPoint THEN SkipAll(s, whole + 1, Digits) ELSE whole
        hasExponent == Get(s, fraction) \in AsciiAmong("eE")
        unsigned == IF Get(s, fraction + 1) \in AsciiAmong("+-") THEN fraction + 2 ELSE fraction + 1
        last == IF hasExponent THEN SkipAll(s, unsigned, Digits) ELSE fraction
        text == SubSeq(s, at, last - 1)
    IN IF \/ Get(s, first) \notin Digits
          \/ Get(s, first) = Code["0"] /\ Get(s, whole) \in Digits
          \/ hasPoint /\ fraction = whole + 1
          \/ hasExponent /\ last = unsigned
       THEN Invalid
       ELSE Sized(IF hasPoint \/ hasExponent THEN Real(text) ELSE Integer(text), last)

-------------------------------------------------------------------------------
(* lex_scan.                                                                *)

Keyword(text) ==
    CASE text = Ascii("true") -> "true"
      [] text = Ascii("false") -> "false"
      [] text = Ascii("null") -> "null"
      [] OTHER -> "INVALID"

LexScan(s, from) ==
    LET at == SkipAll(s, from, JsonSpace)
        c == Get(s, at)
        afterWord == SkipAll(s, at, AnyLetter)
    IN CASE c = StreamEof -> JsonToken("EOF", at)
         [] c \in Structural -> JsonToken(Coded(c), at + 1)
         [] c = Code["\""] -> ScanString(s, at + 1)
         [] c \in Digits \/ c = Code["-"] -> ScanNumber(s, at)
         [] c \in AnyLetter -> JsonToken(Keyword(SubSeq(s, at, afterWord - 1)), afterWord)
         [] OTHER -> Invalid
===============================================================================
