--------------------------------- MODULE Utf8 ---------------------------------
(***************************************************************************)
(* UTF-8 as reader.c, writer.c and api.c of the bundled YAML library write *)
(* it out: an octet's class gives the width of its character, and every    *)
(* later octet carries six bits.                                           *)
(***************************************************************************)
EXTENDS Integers, Sequences

Octet == 0..255

Between(code, first, last) == first <= code /\ code <= last

\* The code points the reader accepts: no surrogates, nothing past U+10FFFF.
ValidCode(code) == Between(code, 0, 1114111) /\ ~Between(code, 55296, 57343)

\* The octets a code point takes.
Encode(code) ==
    CASE code <= 127 -> << code >>
      [] Between(code, 128, 2047) -> << 192 + (code \div 64), 128 + (code % 64) >>
      [] Between(code, 2048, 65535) ->
           << 224 + (code \div 4096), 128 + ((code \div 64) % 64), 128 + (code % 64) >>
      [] OTHER ->
           << 240 + (code \div 262144), 128 + ((code \div 4096) % 64),
              128 + ((code \div 64) % 64), 128 + (code % 64) >>

\* How many octets the character takes that starts with this one; 0 for none.
Width(octet) ==
    CASE octet < 128 -> 1
      [] octet \in 192..223 -> 2
      [] octet \in 224..239 -> 3
      [] octet \in 240..247 -> 4
      [] OTHER -> 0

\* The bits the first octet contributes.
Lead(octet) ==
    CASE octet < 128 -> octet
      [] octet \in 192..223 -> octet % 32
      [] octet \in 224..239 -> octet % 16
      [] octet \in 240..247 -> octet % 8
      [] OTHER -> 0

IsTrailing(octet) == octet \in 128..191

\* The code point the octets from "at" on stand for, given its width.
Decode(octets, at, width) ==
    CASE width = 1 -> Lead(octets[at])
      [] width = 2 -> (64 * Lead(octets[at])) + (octets[at + 1] % 64)
      [] width = 3 -> (4096 * Lead(octets[at])) + (64 * (octets[at + 1] % 64))
                      + (octets[at + 2] % 64)
      [] width = 4 -> (262144 * Lead(octets[at])) + (4096 * (octets[at + 1] % 64))
                      + (64 * (octets[at + 2] % 64)) + (octets[at + 3] % 64)

\* A character must take no more octets than it needs.
Shortest(code, width) ==
    \/ width = 1
    \/ width = 2 /\ code >= 128
    \/ width = 3 /\ code >= 2048
    \/ width = 4 /\ code >= 65536
===============================================================================
