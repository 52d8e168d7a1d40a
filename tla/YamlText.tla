------------------------------- MODULE YamlText -------------------------------
(***************************************************************************)
(* The characters the YAML library distinguishes, after decoding, and the  *)
(* macros of yaml_private.h that classify them.  A text is a sequence of   *)
(* characters; a character is a one-letter string, or a name for one that  *)
(* has no letter (NEL, LS, ...).  The scanner, which reads texts, and the  *)
(* emitter, which writes them, share this alphabet.                        *)
(***************************************************************************)
EXTENDS Utf8, SequencesExt

\* The text a string of letters stands for, and the set of its characters.
Chars(letters) == [i \in 1..Len(letters) |-> SubSeq(letters, i, i)]
Among(letters) == ToSet(Chars(letters))

End == "NUL"           \* what the buffer holds after the last character

Digit == Among("0123456789")
Hex == Digit \cup Among("ABCDEFabcdef")
Alpha == Digit \cup Among("ABCDEFGHIJKLMNOPQRSTUVWXYZabcdefghijklmnopqrstuvwxyz_-")
Blank == {" ", "\t"}
Break == {"\r", "\n", "NEL", "LS", "PS"}
BreakZ == Break \cup {End}
SpaceZ == BreakZ \cup {" "}
BlankZ == BreakZ \cup Blank

\* The characters a URI may hold besides the escapes that start with '%'.
Uri == Alpha \cup Among(";/?:@&=+$,.!~*'()[]")

\* The characters of an index past the end read the terminator.
At(text, i) == IF i \in DOMAIN text THEN text[i] ELSE End

\* The code points of the alphabet: the letters in ASCII order, and the
\* characters that have a name.
Letters == Chars(" !\"#$%&'()*+,-./0123456789:;<=>?@ABCDEFGHIJKLMNOPQRSTUVWXYZ[\\]^_")
           \o <<"GRAVE">> \o Chars("abcdefghijklmnopqrstuvwxyz{|}~")
Named == << <<"NUL", 0>>, <<"BEL", 7>>, <<"BS", 8>>, <<"\t", 9>>, <<"\n", 10>>, <<"VT", 11>>,
            <<"\f", 12>>, <<"\r", 13>>, <<"ESC", 27>>, <<"NEL", 133>>, <<"NBSP", 160>>,
            <<"LS", 8232>>, <<"PS", 8233>>, <<"SNOWMAN", 9731>>, <<"BOM", 65279>>,
            <<"ROCKET", 128640>> >>
Code == [c \in ToSet(Letters) \cup {pair[1] : pair \in ToSet(Named)} |->
            IF c \in ToSet(Letters) THEN 31 + (CHOOSE i \in DOMAIN Letters : Letters[i] = c)
            ELSE (CHOOSE pair \in ToSet(Named) : pair[1] = c)[2]]
Coded(code) == CHOOSE c \in DOMAIN Code : Code[c] = code

IsAscii(c) == Code[c] <= 127

\* IS_PRINTABLE goes by the first octets: it knows nothing beyond U+FFFD.
IsPrintable(c) ==
    \/ Code[c] = 10
    \/ Code[c] \in 32..126
    \/ Code[c] \in 160..55295
    \/ Code[c] \in 57344..65533 /\ c # "BOM"

\* A decimal or hexadecimal numeral and its value.
HexDigits == Chars("0123456789ABCDEF")
DigitValue(d) ==
    CHOOSE n \in 0..15 : d \in {HexDigits[n + 1], Chars("0123456789abcdef")[n + 1]}
NumberOf(digits, base) == FoldLeft(LAMBDA n, d : base * n + DigitValue(d), 0, digits)
Numeral(n, width) == [i \in 1..width |-> HexDigits[1 + ((n \div 16^(width - i)) % 16)]]

\* The escapes of one letter in a double-quoted scalar, and the lengths of
\* those by number.
Escape == [c \in Among("0abtnvfreNLP_ \"'\\") \cup {"\t"} |->
             CASE c = "0" -> "NUL" [] c = "a" -> "BEL" [] c = "b" -> "BS" [] c = "t" -> "\t"
               [] c = "n" -> "\n" [] c = "v" -> "VT" [] c = "f" -> "\f" [] c = "r" -> "\r"
               [] c = "e" -> "ESC" [] c = "N" -> "NEL" [] c = "_" -> "NBSP"
               [] c = "L" -> "LS" [] c = "P" -> "PS" [] OTHER -> c]
EscapeLength == [x |-> 2, u |-> 4, U |-> 8]

\* A line break in the form READ_LINE stores it.
Stored(break) == IF break \in {"LS", "PS"} THEN break ELSE "\n"

\* How many octets a text takes.
Size(text) == FoldLeft(LAMBDA n, c : n + Len(Encode(Code[c])), 0, text)
===============================================================================
