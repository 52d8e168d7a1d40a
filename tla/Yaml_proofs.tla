------------------------------- MODULE Yaml_proofs -------------------------------
(***************************************************************************)
(* Proofs about the YAML library: the reader and the parser.               *)
(*                                                                         *)
(* The reader, for any octets and any way to cut them.  The first part is  *)
(* about characters: decoding is the inverse of encoding in each of the    *)
(* three encodings, so that no octets stand for two texts, and octets that *)
(* begin with no character go on with none.  The second part is about the  *)
(* calls: what was delivered is the text of the octets that are gone, and  *)
(* what is in the buffers fits.                                            *)
(*                                                                         *)
(* The parser, for any text and whatever tokens the scanner finds in it:   *)
(* what each production does to the stack of states and the marks, and     *)
(* that the event it gives is a step of YamlEventStream.                   *)
(***************************************************************************)
EXTENDS YamlReader, YamlParsing, SequenceLemmas

(* The encodings a reader can settle on.                                    *)
Encodings == {"utf-8", "utf-16le", "utf-16be"}

(* The codes that an octet sequence can encode, and those of them that may  *)
(* stand in a document (reader.c:290-295, 404-418).                         *)
Valid == {code \in Nat : ValidCode(code)}
Permitted == {code \in Nat : IsPermitted(code)}

(* A permitted code can be encoded, and is not the NUL that ends the text.  *)
LEMMA PermittedCodes ==
  ASSUME NEW c \in Permitted
  PROVE  c \in Valid /\ c # 0
  BY SMT DEF Permitted, Valid, IsPermitted, ValidCode, Between

(* An octet is a number up to 255.                                          *)
LEMMA OctetsArePlain == \A o : o \in Octet <=> o \in Nat /\ o <= 255
  BY SMT DEF Octet

(* The length and the parts of short tuples.                                *)
LEMMA Tuples ==
  ASSUME NEW S, NEW a \in S, NEW b \in S, NEW c \in S, NEW d \in S
  PROVE  /\ <<a>> \in Seq(S) /\ Len(<<a>>) = 1 /\ <<a>>[1] = a
         /\ <<a, b>> \in Seq(S) /\ Len(<<a, b>>) = 2 /\ <<a, b>>[1] = a /\ <<a, b>>[2] = b
         /\ <<a, b, c>> \in Seq(S) /\ Len(<<a, b, c>>) = 3
         /\ <<a, b, c>>[1] = a /\ <<a, b, c>>[2] = b /\ <<a, b, c>>[3] = c
         /\ <<a, b, c, d>> \in Seq(S) /\ Len(<<a, b, c, d>>) = 4
         /\ <<a, b, c, d>>[1] = a /\ <<a, b, c, d>>[2] = b
         /\ <<a, b, c, d>>[3] = c /\ <<a, b, c, d>>[4] = d
  OBVIOUS

(* What the first octet tells, and the others.                              *)
LEMMA FirstOctet ==
  ASSUME NEW o \in Octet
  PROVE  /\ o < 128 => Width(o) = 1 /\ Lead(o) = o
         /\ 192 <= o /\ o <= 223 => Width(o) = 2 /\ Lead(o) = o - 192
         /\ 224 <= o /\ o <= 239 => Width(o) = 3 /\ Lead(o) = o - 224
         /\ 240 <= o /\ o <= 247 => Width(o) = 4 /\ Lead(o) = o - 240
         /\ (128 <= o /\ o < 192) \/ o > 247 => Width(o) = 0
  BY SMT DEF Octet, Width, Lead

(* A trailing octet is 128 and six bits.                                    *)
LEMMA NextOctet ==
  ASSUME NEW o \in Octet
  PROVE  /\ IsTrailing(o) <=> 128 <= o /\ o < 192
         /\ IsTrailing(o) => o % 64 = o - 128
  BY SMT DEF Octet, IsTrailing

(* The octets of a character: the code in digits of six bits.               *)
LEMMA Digits ==
  ASSUME NEW c \in Valid
  PROVE  /\ c \in Nat
         /\ c <= 127 => c \in Octet
         /\ c % 64 \in 0 .. 63
         /\ (c \div 64) % 64 \in 0 .. 63
         /\ (c \div 4096) % 64 \in 0 .. 63
         /\ c <= 2047 => c \div 64 \in 0 .. 31 /\ c = 64 * (c \div 64) + (c % 64)
         /\ c <= 65535 => /\ c \div 4096 \in 0 .. 15
                          /\ c = 4096 * (c \div 4096) + 64 * ((c \div 64) % 64) + (c % 64)
         /\ c \div 262144 \in 0 .. 4
         /\ c = 262144 * (c \div 262144) + 4096 * ((c \div 4096) % 64)
                + 64 * ((c \div 64) % 64) + (c % 64)
  <1>1. c \in Nat /\ c <= 1114111
    BY SMT DEF Valid, ValidCode, Between
  <1> QED BY SMT, <1>1, OctetsArePlain

(* Encode, for each number of octets.                                       *)
LEMMA EncodeParts ==
  ASSUME NEW c \in Valid
  PROVE  /\ c <= 127 => Encode(c) = <<c>>
         /\ 128 <= c /\ c <= 2047 => Encode(c) = << 192 + (c \div 64), 128 + (c % 64) >>
         /\ 2048 <= c /\ c <= 65535 =>
              Encode(c) = << 224 + (c \div 4096), 128 + ((c \div 64) % 64), 128 + (c % 64) >>
         /\ 65536 <= c =>
              Encode(c) = << 240 + (c \div 262144), 128 + ((c \div 4096) % 64),
                             128 + ((c \div 64) % 64), 128 + (c % 64) >>
  BY SMT DEF Encode, Valid, Between

(* The same, octet by octet.                                                *)
EncodesAs(e, c) ==
  /\ e \in Seq(Octet)
  /\ c <= 127 => Len(e) = 1 /\ e[1] = c
  /\ 128 <= c /\ c <= 2047 =>
       Len(e) = 2 /\ e[1] = 192 + (c \div 64) /\ e[2] = 128 + (c % 64)
  /\ 2048 <= c /\ c <= 65535 =>
       /\ Len(e) = 3
       /\ e[1] = 224 + (c \div 4096) /\ e[2] = 128 + ((c \div 64) % 64) /\ e[3] = 128 + (c % 64)
  /\ 65536 <= c =>
       /\ Len(e) = 4
       /\ e[1] = 240 + (c \div 262144) /\ e[2] = 128 + ((c \div 4096) % 64)
       /\ e[3] = 128 + ((c \div 64) % 64) /\ e[4] = 128 + (c % 64)

(* What Encode gives, octet by octet: from one to four of them, the first   *)
(* octet of the form its number calls for, the others trailing.             *)
LEMMA EncodeIsOctets ==
  ASSUME NEW c \in Valid
  PROVE  EncodesAs(Encode(c), c)
  <1> DEFINE c0 == c % 64
             c1 == (c \div 64) % 64
             c2 == (c \div 4096) % 64
             e == Encode(c)
  <1>0. /\ c \in Nat /\ (c <= 127 => c \in Octet)
        /\ 128 + c0 \in Octet /\ 128 + c1 \in Octet /\ 128 + c2 \in Octet
        /\ c <= 2047 => 192 + (c \div 64) \in Octet
        /\ c <= 65535 => 224 + (c \div 4096) \in Octet
        /\ 240 + (c \div 262144) \in Octet
    <2>1. c0 \in 0 .. 63 /\ c1 \in 0 .. 63 /\ c2 \in 0 .. 63
      BY SMT, Digits
    <2> HIDE DEF c0, c1, c2
    <2>2. 128 + c0 \in Octet /\ 128 + c1 \in Octet /\ 128 + c2 \in Octet
      BY SMT, <2>1 DEF Octet
    <2>3. c \in Nat /\ (c <= 127 => c \in Octet)
      BY SMT, Digits
    <2>4. c <= 2047 => 192 + (c \div 64) \in Octet
      <3>1. c <= 2047 => c \div 64 \in 0 .. 31
        BY SMT, Digits
      <3> QED BY SMT, <3>1 DEF Octet
    <2>5. c <= 65535 => 224 + (c \div 4096) \in Octet
      BY SMT, Digits DEF Octet
    <2>6. 240 + (c \div 262144) \in Octet
      BY SMT, Digits DEF Octet
    <2> QED BY <2>2, <2>3, <2>4, <2>5, <2>6
  <1>1. CASE c <= 127
    <2>1. e = <<c>> /\ c \in Octet
      BY SMT, <1>0, <1>1, EncodeParts
    <2>2. e \in Seq(Octet) /\ Len(e) = 1 /\ e[1] = c
      BY <2>1, Tuples
    <2> QED BY SMT, <1>0, <1>1, <2>2 DEF EncodesAs
  <1>2. CASE 128 <= c /\ c <= 2047
    <2>1. e = << 192 + (c \div 64), 128 + c0 >> /\ 192 + (c \div 64) \in Octet
      BY SMT, <1>0, <1>2, EncodeParts
    <2> DEFINE x == 192 + (c \div 64)
               y == 128 + c0
    <2> HIDE DEF x, y, e
    <2>2. e \in Seq(Octet) /\ Len(e) = 2 /\ e[1] = x /\ e[2] = y
      <3>1. e = <<x, y>> /\ x \in Octet /\ y \in Octet
        BY <2>1, <1>0 DEF x, y
      <3> QED BY <3>1, Tuples
    <2> QED BY SMT, <1>0, <1>2, <2>2 DEF EncodesAs, x, y, e
  <1>3. CASE 2048 <= c /\ c <= 65535
    <2>1. e = << 224 + (c \div 4096), 128 + c1, 128 + c0 >> /\ 224 + (c \div 4096) \in Octet
      BY SMT, <1>0, <1>3, EncodeParts
    <2> DEFINE x == 224 + (c \div 4096)
               y == 128 + c1
               z == 128 + c0
    <2> HIDE DEF x, y, z, e
    <2>2. e \in Seq(Octet) /\ Len(e) = 3 /\ e[1] = x /\ e[2] = y /\ e[3] = z
      <3>1. e = <<x, y, z>> /\ x \in Octet /\ y \in Octet /\ z \in Octet
        BY <2>1, <1>0 DEF x, y, z
      <3> QED BY <3>1, Tuples
    <2> QED BY SMT, <1>0, <1>3, <2>2 DEF EncodesAs, x, y, z, e
  <1>4. CASE 65536 <= c
    <2>1. e = << 240 + (c \div 262144), 128 + c2, 128 + c1, 128 + c0 >>
      BY SMT, <1>0, <1>4, EncodeParts
    <2> DEFINE x == 240 + (c \div 262144)
               y == 128 + c2
               z == 128 + c1
               w == 128 + c0
    <2> HIDE DEF x, y, z, w, e
    <2>2. e \in Seq(Octet) /\ Len(e) = 4 /\ e[1] = x /\ e[2] = y /\ e[3] = z /\ e[4] = w
      <3>1. e = <<x, y, z, w>> /\ x \in Octet /\ y \in Octet /\ z \in Octet /\ w \in Octet
        BY <2>1, <1>0 DEF x, y, z, w
      <3> QED BY <3>1, Tuples
    <2> QED BY SMT, <1>0, <1>4, <2>2 DEF EncodesAs, x, y, z, w, e
  <1> QED BY SMT, <1>0, <1>1, <1>2, <1>3, <1>4

(* What stands at the head of octets that begin with a character.           *)
StartsWith(s, e) == Len(s) >= Len(e) /\ \A i \in 1 .. Len(e) : s[i] = e[i]

(* A whole shortest form of a valid code at the head is found there.        *)
LEMMA HeadIsFound ==
  ASSUME NEW s \in Seq(Octet), NEW w \in 1 .. 4, Width(s[1]) = w, w <= Len(s),
         \A k \in 2 .. w : IsTrailing(s[k]),
         Shortest(Decode(s, 1, w), w), ValidCode(Decode(s, 1, w))
  PROVE  Utf8Head(s) = Found(w, Decode(s, 1, w))
  <1>1. w # 0 /\ ~(w > Len(s)) /\ w \in 1 .. Len(s)
    BY SMT
  <1> QED BY SMT, <1>1 DEF Utf8Head

(* Decoding is the inverse of encoding: octets that begin with a character  *)
(* in UTF-8 have this character for their head.                             *)
LEMMA Utf8HeadOfCode ==
  ASSUME NEW c \in Valid, NEW s \in Seq(Octet), StartsWith(s, Encode(c))
  PROVE  Utf8Head(s) = Found(Len(Encode(c)), c)
  <1> DEFINE e == Encode(c)
  <1>0. /\ c \in Nat /\ Len(s) \in Nat /\ Len(e) \in Nat /\ ValidCode(c)
        /\ \A i \in 1 .. Len(s) : s[i] \in Octet
    BY SMTT(30), EncodeIsOctets DEF Valid, EncodesAs
  <1>1. CASE c <= 127
    <2>1. Len(e) = 1 /\ s[1] = c /\ Len(s) >= 1
      BY SMTT(30), <1>0, <1>1, EncodeIsOctets DEF StartsWith, EncodesAs
    <2>2. Width(s[1]) = 1 /\ Lead(s[1]) = c
      BY SMTT(30), <1>0, <1>1, <2>1, FirstOctet
    <2>3. Decode(s, 1, 1) = c /\ Shortest(c, 1)
      BY SMTT(30), <2>2 DEF Decode, Shortest
    <2> HIDE DEF e
    <2>4. \A k \in 2 .. 1 : IsTrailing(s[k])
      BY SMT
    <2>5. Utf8Head(s) = Found(1, c)
      BY SMTT(30), <1>0, <2>1, <2>2, <2>3, <2>4, HeadIsFound
    <2> QED BY <2>1, <2>5 DEF e
  <1>2. CASE 128 <= c /\ c <= 2047
    <2>1. Len(e) = 2 /\ s[1] = 192 + (c \div 64) /\ s[2] = 128 + (c % 64) /\ Len(s) >= 2
      BY SMTT(30), <1>0, <1>2, EncodeIsOctets DEF StartsWith, EncodesAs
    <2>d. c \div 64 \in 0 .. 31 /\ c % 64 \in 0 .. 63 /\ c = 64 * (c \div 64) + (c % 64)
      BY SMTT(30), <1>0, <1>2, Digits
    <2> DEFINE x == c \div 64
               y == c % 64
    <2> HIDE DEF e, x, y
    <2>2. Width(s[1]) = 2 /\ Lead(s[1]) = x
      BY SMTT(30), <1>0, <2>1, <2>d, FirstOctet DEF x
    <2>3. IsTrailing(s[2]) /\ s[2] % 64 = y
      BY SMTT(30), <1>0, <2>1, <2>d, NextOctet DEF y
    <2>4. Decode(s, 1, 2) = c /\ Shortest(c, 2)
      BY SMTT(30), <1>2, <2>d, <2>2, <2>3 DEF Decode, Shortest, x, y
    <2>5. \A k \in 2 .. 2 : IsTrailing(s[k])
      BY SMTT(30), <2>3
    <2>6. Utf8Head(s) = Found(2, c)
      BY SMTT(30), <1>0, <2>1, <2>2, <2>4, <2>5, HeadIsFound
    <2> QED BY <2>1, <2>6 DEF e
  <1>3. CASE 2048 <= c /\ c <= 65535
    <2>1. /\ Len(e) = 3 /\ s[1] = 224 + (c \div 4096) /\ s[2] = 128 + ((c \div 64) % 64)
          /\ s[3] = 128 + (c % 64) /\ Len(s) >= 3
      BY SMTT(30), <1>0, <1>3, EncodeIsOctets DEF StartsWith, EncodesAs
    <2>d. /\ c \div 4096 \in 0 .. 15 /\ (c \div 64) % 64 \in 0 .. 63 /\ c % 64 \in 0 .. 63
          /\ c = 4096 * (c \div 4096) + 64 * ((c \div 64) % 64) + (c % 64)
      BY SMTT(30), <1>0, <1>3, Digits
    <2> DEFINE x == c \div 4096
               y == (c \div 64) % 64
               z == c % 64
    <2> HIDE DEF e, x, y, z
    <2>2. Width(s[1]) = 3 /\ Lead(s[1]) = x
      BY SMTT(30), <1>0, <2>1, <2>d, FirstOctet DEF x
    <2>3. IsTrailing(s[2]) /\ s[2] % 64 = y /\ IsTrailing(s[3]) /\ s[3] % 64 = z
      BY SMTT(30), <1>0, <2>1, <2>d, NextOctet DEF y, z
    <2>4. Decode(s, 1, 3) = c /\ Shortest(c, 3)
      BY SMTT(30), <1>3, <2>d, <2>2, <2>3 DEF Decode, Shortest, x, y, z
    <2>5. \A k \in 2 .. 3 : IsTrailing(s[k])
      BY SMTT(30), <2>3
    <2>6. Utf8Head(s) = Found(3, c)
      BY SMTT(30), <1>0, <2>1, <2>2, <2>4, <2>5, HeadIsFound
    <2> QED BY <2>1, <2>6 DEF e
  <1>4. CASE 65536 <= c
    <2>1. /\ Len(e) = 4 /\ s[1] = 240 + (c \div 262144) /\ s[2] = 128 + ((c \div 4096) % 64)
          /\ s[3] = 128 + ((c \div 64) % 64) /\ s[4] = 128 + (c % 64) /\ Len(s) >= 4
      BY SMTT(30), <1>0, <1>4, EncodeIsOctets DEF StartsWith, EncodesAs
    <2>d. /\ c \div 262144 \in 0 .. 4 /\ (c \div 4096) % 64 \in 0 .. 63
          /\ (c \div 64) % 64 \in 0 .. 63 /\ c % 64 \in 0 .. 63
          /\ c = 262144 * (c \div 262144) + 4096 * ((c \div 4096) % 64)
                 + 64 * ((c \div 64) % 64) + (c % 64)
      BY SMTT(30), <1>0, <1>4, Digits
    <2> DEFINE x == c \div 262144
               y == (c \div 4096) % 64
               z == (c \div 64) % 64
               w == c % 64
    <2> HIDE DEF e, x, y, z, w
    <2>2. Width(s[1]) = 4 /\ Lead(s[1]) = x
      BY SMTT(30), <1>0, <2>1, <2>d, FirstOctet DEF x
    <2>3. /\ IsTrailing(s[2]) /\ s[2] % 64 = y /\ IsTrailing(s[3]) /\ s[3] % 64 = z
          /\ IsTrailing(s[4]) /\ s[4] % 64 = w
      BY SMTT(30), <1>0, <2>1, <2>d, NextOctet DEF y, z, w
    <2>4. Decode(s, 1, 4) = c /\ Shortest(c, 4)
      BY SMTT(30), <1>4, <2>d, <2>2, <2>3 DEF Decode, Shortest, x, y, z, w
    <2>5. \A k \in 2 .. 4 : IsTrailing(s[k])
      BY SMTT(30), <2>3
    <2>6. Utf8Head(s) = Found(4, c)
      BY SMTT(30), <1>0, <2>1, <2>2, <2>4, <2>5, HeadIsFound
    <2> QED BY <2>1, <2>6 DEF e
  <1> QED BY SMTT(30), <1>0, <1>1, <1>2, <1>3, <1>4

(* UTF-16: units of two octets, and pairs of units for what is beyond them. *)
Units == {u \in Nat : u <= 65535}

(* A unit is two octets, the lower or the upper first.                      *)
LEMMA Octets16Parts ==
  ASSUME NEW u \in Units, NEW order \in Encodings
  PROVE  LET e == Octets16(u, order)
         IN  /\ e \in Seq(Octet) /\ Len(e) = 2
             /\ e[1] = (IF order = "utf-16le" THEN u % 256 ELSE u \div 256)
             /\ e[2] = (IF order = "utf-16le" THEN u \div 256 ELSE u % 256)
  <1>1. u % 256 \in Octet /\ u \div 256 \in Octet
    <2>1. u \in Nat /\ u <= 65535
      BY SMT DEF Units
    <2>2. u % 256 \in 0 .. 255 /\ u \div 256 \in 0 .. 255
      BY SMT, <2>1
    <2> QED BY <2>2 DEF Octet
  <1> DEFINE x == u % 256
             y == u \div 256
  <1> HIDE DEF x, y
  <1>2. Octets16(u, order) = IF order = "utf-16le" THEN <<x, y>> ELSE <<y, x>>
    BY Zenon DEF Octets16, x, y
  <1>3. x \in Octet /\ y \in Octet
    BY <1>1 DEF x, y
  <1>4. /\ <<x, y>> \in Seq(Octet) /\ Len(<<x, y>>) = 2 /\ <<x, y>>[1] = x /\ <<x, y>>[2] = y
        /\ <<y, x>> \in Seq(Octet) /\ Len(<<y, x>>) = 2 /\ <<y, x>>[1] = y /\ <<y, x>>[2] = x
    BY <1>3, Tuples
  <1> QED BY Zenon, <1>2, <1>4 DEF x, y

(* The unit at a place, from the octets there.                              *)
LEMMA UnitOfOctets16 ==
  ASSUME NEW u \in Units, NEW order \in Encodings, NEW s, NEW k \in Nat,
         s[k] = Octets16(u, order)[1], s[k + 1] = Octets16(u, order)[2]
  PROVE  Unit(s, k, order) = u
  <1>1. /\ s[k] = (IF order = "utf-16le" THEN u % 256 ELSE u \div 256)
        /\ s[k + 1] = (IF order = "utf-16le" THEN u \div 256 ELSE u % 256)
    BY SMT, Octets16Parts
  <1>2. u = 256 * (u \div 256) + (u % 256) /\ u \div 256 \in Nat /\ u % 256 \in Nat
    BY SMT DEF Units
  <1> QED BY SMT, <1>1, <1>2 DEF Unit

(* The two units of a code beyond 16 bits.                                  *)
High(c) == 55296 + ((c - 65536) \div 1024)
Low(c) == 56320 + ((c - 65536) % 1024)

(* A code that takes two units.                                             *)
Wide(c) == c >= 65536

(* The units of a wide code are a high and a low surrogate, and give the    *)
(* code back.                                                               *)
LEMMA Surrogates ==
  ASSUME NEW c \in Valid, Wide(c)
  PROVE  /\ High(c) \in Units /\ IsHighSurrogate(High(c)) /\ ~IsLowSurrogate(High(c))
         /\ Low(c) \in Units /\ IsLowSurrogate(Low(c))
         /\ Pair(High(c), Low(c)) = c
  <1> DEFINE r == c - 65536
             h == r \div 1024
             l == r % 1024
  <1>1. c \in Nat /\ c <= 1114111
    BY SMT DEF Valid, ValidCode, Between
  <1>2. h \in Nat /\ h <= 1023 /\ l \in Nat /\ l <= 1023 /\ c = 65536 + 1024 * h + l
    BY SMT, <1>1 DEF Wide
  <1>3. High(c) = 55296 + h /\ Low(c) = 56320 + l
    BY DEF High, Low
  <1> HIDE DEF r, h, l
  <1>4. High(c) \in Units /\ Low(c) \in Units
    BY SMT, <1>2, <1>3 DEF Units
  <1>5. IsHighSurrogate(High(c)) /\ ~IsLowSurrogate(High(c)) /\ IsLowSurrogate(Low(c))
    BY SMT, <1>2, <1>3 DEF IsHighSurrogate, IsLowSurrogate, Between
  <1>6. High(c) % 1024 = h /\ Low(c) % 1024 = l
    BY SMT, <1>2, <1>3
  <1>7. Pair(High(c), Low(c)) = c
    BY SMT, <1>2, <1>6 DEF Pair
  <1> QED BY <1>4, <1>5, <1>7

(* A permitted code that fits a unit is no surrogate.                       *)
LEMMA PlainUnits ==
  ASSUME NEW c \in Valid, ~Wide(c)
  PROVE  c \in Units /\ ~IsHighSurrogate(c) /\ ~IsLowSurrogate(c)
  BY SMT DEF Wide, Valid, ValidCode, Units, IsHighSurrogate, IsLowSurrogate, Between

(* The octets of a character in any encoding.                               *)
LEMMA EncodedCases ==
  ASSUME NEW c \in Valid, NEW order \in Encodings
  PROVE  /\ order = "utf-8" => Encoded(c, order) = Encode(c)
         /\ order # "utf-8" /\ ~Wide(c) => Encoded(c, order) = Octets16(c, order)
         /\ order # "utf-8" /\ Wide(c) =>
              Encoded(c, order) = Octets16(High(c), order) \o Octets16(Low(c), order)
  <1>1. c \in Nat
    BY DEF Valid
  <1> QED BY SMT, <1>1 DEF Encoded, High, Low, Wide

(* A wide code takes four octets, two for each of its units.                *)
LEMMA PairOctets ==
  ASSUME NEW c \in Valid, Wide(c), NEW order \in Encodings
  PROVE  LET e == Octets16(High(c), order) \o Octets16(Low(c), order)
         IN  /\ e \in Seq(Octet) /\ Len(e) = 4
             /\ e[1] = Octets16(High(c), order)[1] /\ e[2] = Octets16(High(c), order)[2]
             /\ e[3] = Octets16(Low(c), order)[1] /\ e[4] = Octets16(Low(c), order)[2]
  <1> DEFINE a == Octets16(High(c), order)
             b == Octets16(Low(c), order)
  <1>1. a \in Seq(Octet) /\ Len(a) = 2 /\ b \in Seq(Octet) /\ Len(b) = 2
    BY Surrogates, Octets16Parts
  <1> HIDE DEF a, b
  <1>2. /\ a \o b \in Seq(Octet) /\ Len(a \o b) = 4
        /\ (a \o b)[1] = a[1] /\ (a \o b)[2] = a[2] /\ (a \o b)[3] = b[1] /\ (a \o b)[4] = b[2]
    <2>1. /\ a \o b \in Seq(Octet) /\ Len(a \o b) = Len(a) + Len(b)
          /\ \A i \in 1 .. Len(a) + Len(b) :
                (a \o b)[i] = IF i <= Len(a) THEN a[i] ELSE b[i - Len(a)]
      BY <1>1, ConcatProperties
    <2>2. Len(a \o b) = 4 /\ \A i \in 1 .. 4 : (a \o b)[i] = IF i <= 2 THEN a[i] ELSE b[i - 2]
      BY <1>1, <2>1
    <2>3. (a \o b)[1] = a[1] /\ (a \o b)[2] = a[2]
      BY <2>2
    <2>4. (a \o b)[3] = b[1] /\ (a \o b)[4] = b[2]
      BY <2>2
    <2> QED BY <2>1, <2>2, <2>3, <2>4
  <1> QED BY <1>2 DEF a, b

(* A character takes from one to four octets in any encoding, and in UTF-8  *)
(* at most one and a half times as many as in the encoding it came in.      *)
LEMMA EncodedParts ==
  ASSUME NEW c \in Valid, NEW order \in Encodings
  PROVE  /\ Encoded(c, order) \in Seq(Octet) /\ Len(Encoded(c, order)) \in 1 .. 4
         /\ 2 * Len(Encode(c)) <= 3 * Len(Encoded(c, order))
         /\ Len(Encode(c)) \in 1 .. 4
  <1>0. c \in Valid /\ c \in Nat
    BY DEF Valid
  <1>1. /\ Encode(c) \in Seq(Octet) /\ Len(Encode(c)) \in 1 .. 4
        /\ ~Wide(c) => Len(Encode(c)) <= 3
    <2>1. EncodesAs(Encode(c), c)
      BY <1>0, EncodeIsOctets
    <2> DEFINE e == Encode(c)
    <2>2. /\ e \in Seq(Octet)
          /\ c <= 127 => Len(e) = 1
          /\ 128 <= c /\ c <= 2047 => Len(e) = 2
          /\ 2048 <= c /\ c <= 65535 => Len(e) = 3
          /\ 65536 <= c => Len(e) = 4
      BY SMT, <2>1 DEF EncodesAs
    <2> HIDE DEF e
    <2> DEFINE n == Len(e)
    <2>3. /\ c <= 127 => n = 1
          /\ 128 <= c /\ c <= 2047 => n = 2
          /\ 2048 <= c /\ c <= 65535 => n = 3
          /\ 65536 <= c => n = 4
      BY <2>2
    <2> HIDE DEF n
    <2>4. n \in 1 .. 4 /\ (~Wide(c) => n <= 3)
      BY SMT, <1>0, <2>3 DEF Wide
    <2> QED BY SMT, <2>2, <2>4 DEF e, n
  <1>2. CASE order = "utf-8"
    <2>1. Encoded(c, order) = Encode(c)
      BY <1>0, <1>2, EncodedCases
    <2>2. \A n \in Nat : 2 * n <= 3 * n
      BY SMT
    <2> QED BY SMT, <1>1, <2>1, <2>2
  <1>3. CASE order # "utf-8" /\ ~Wide(c)
    <2>1. Encoded(c, order) = Octets16(c, order) /\ c \in Units
      BY SMT, <1>0, <1>3, EncodedCases, PlainUnits
    <2>2. Octets16(c, order) \in Seq(Octet) /\ Len(Octets16(c, order)) = 2
      BY <2>1, Octets16Parts
    <2> QED BY SMT, <1>1, <1>3, <2>1, <2>2
  <1>4. CASE order # "utf-8" /\ Wide(c)
    <2>1. Encoded(c, order) = Octets16(High(c), order) \o Octets16(Low(c), order)
      BY SMT, <1>0, <1>4, EncodedCases
    <2>2. Encoded(c, order) \in Seq(Octet) /\ Len(Encoded(c, order)) = 4
      BY SMT, <1>0, <1>4, <2>1, PairOctets
    <2>3. 4 \in 1 .. 4 /\ \A n \in 1 .. 4 : 2 * n <= 3 * 4
      BY SMT
    <2> QED BY Zenon, <1>1, <2>2, <2>3
  <1> QED BY SMT, <1>0, <1>2, <1>3, <1>4

(* Octets that begin with a character have it for their head.               *)
LEMMA HeadOfCode ==
  ASSUME NEW c \in Valid, NEW order \in Encodings, NEW s \in Seq(Octet),
         StartsWith(s, Encoded(c, order))
  PROVE  HeadOf(s, order) = Found(Len(Encoded(c, order)), c)
  <1>0. c \in Valid /\ c \in Nat /\ Len(s) \in Nat
    BY DEF Valid
  <1>1. CASE order = "utf-8"
    BY <1>0, <1>1, EncodedCases, Utf8HeadOfCode DEF HeadOf
  <1>2. CASE order # "utf-8" /\ ~Wide(c)
    <2>1. Encoded(c, order) = Octets16(c, order) /\ c \in Units /\ Len(Octets16(c, order)) = 2
      BY SMT, <1>0, <1>2, EncodedCases, PlainUnits, Octets16Parts
    <2>2. Len(s) >= 2 /\ s[1] = Octets16(c, order)[1] /\ s[2] = Octets16(c, order)[2]
      BY SMT, <2>1 DEF StartsWith
    <2>3. Unit(s, 1, order) = c
      BY SMT, <2>1, <2>2, UnitOfOctets16
    <2>4. ~IsHighSurrogate(c) /\ ~IsLowSurrogate(c)
      BY <1>0, <1>2, PlainUnits
    <2>5. ~(Len(s) < 2)
      BY <1>0, <2>2
    <2>6. Utf16Head(s, order) = Found(2, c)
      BY Zenon, <2>3, <2>4, <2>5 DEF Utf16Head
    <2> QED BY <1>2, <2>1, <2>6 DEF HeadOf
  <1>3. CASE order # "utf-8" /\ Wide(c)
    <2> DEFINE e == Octets16(High(c), order) \o Octets16(Low(c), order)
    <2>1. Encoded(c, order) = e
      BY <1>0, <1>3, EncodedCases
    <2>2. /\ Len(e) = 4
          /\ e[1] = Octets16(High(c), order)[1] /\ e[2] = Octets16(High(c), order)[2]
          /\ e[3] = Octets16(Low(c), order)[1] /\ e[4] = Octets16(Low(c), order)[2]
      BY <1>0, <1>3, PairOctets
    <2> HIDE DEF e
    <2>3. Len(s) >= 4 /\ s[1] = e[1] /\ s[2] = e[2] /\ s[3] = e[3] /\ s[4] = e[4]
      BY SMT, <2>1, <2>2 DEF StartsWith
    <2>4. High(c) \in Units /\ Low(c) \in Units
      BY <1>0, <1>3, Surrogates
    <2>5. Unit(s, 1, order) = High(c) /\ Unit(s, 3, order) = Low(c)
      BY SMT, <2>2, <2>3, <2>4, UnitOfOctets16
    <2>6. ~(Len(s) < 2) /\ ~(Len(s) < 4)
      BY <1>0, <2>3
    <2>7. /\ IsHighSurrogate(High(c)) /\ ~IsLowSurrogate(High(c)) /\ IsLowSurrogate(Low(c))
          /\ Pair(High(c), Low(c)) = c
      BY <1>0, <1>3, Surrogates
    <2>8. Utf16Head(s, order) = Found(4, c)
      BY Zenon, <2>5, <2>6, <2>7 DEF Utf16Head
    <2> QED BY <1>3, <2>1, <2>2, <2>8 DEF HeadOf
  <1> QED BY SMT, <1>0, <1>1, <1>2, <1>3

(* What octets begin with can be taken off and put back.                    *)
LEMMA TakeOff ==
  ASSUME NEW S, NEW s \in Seq(S), NEW e \in Seq(S), StartsWith(s, e)
  PROVE  Drop(s, Len(e)) \in Seq(S) /\ s = e \o Drop(s, Len(e))
  <1> DEFINE n == Len(e)
             d == SubSeq(s, n + 1, Len(s))
  <1>1. n \in Nat /\ Len(s) \in Nat /\ n <= Len(s)
    BY DEF StartsWith
  <1>2. /\ d \in Seq(S) /\ Len(d) = Len(s) - n
        /\ \A i \in 1 .. Len(s) - n : d[i] = s[n + i]
    BY <1>1
  <1> HIDE DEF d
  <1>3. /\ e \o d \in Seq(S) /\ Len(e \o d) = Len(s)
        /\ \A i \in 1 .. Len(s) : (e \o d)[i] = IF i <= n THEN e[i] ELSE d[i - n]
    <2>1. /\ e \o d \in Seq(S) /\ Len(e \o d) = n + Len(d)
          /\ \A i \in 1 .. n + Len(d) : (e \o d)[i] = IF i <= n THEN e[i] ELSE d[i - n]
      BY <1>2, ConcatProperties
    <2>2. n + Len(d) = Len(s)
      BY <1>1, <1>2
    <2> QED BY <2>1, <2>2
  <1>4. ASSUME NEW i \in 1 .. Len(s) PROVE (e \o d)[i] = s[i]
    <2>1. CASE i <= n
      <3>1. i \in 1 .. Len(e) /\ s[i] = e[i]
        BY <1>1, <2>1 DEF StartsWith
      <3> QED BY <1>3, <2>1, <3>1
    <2>2. CASE i > n
      <3>1. i - n \in 1 .. Len(s) - n /\ n + (i - n) = i /\ ~(i <= n)
        BY <1>1, <2>2
      <3>2. d[i - n] = s[i]
        BY <1>2, <3>1
      <3> QED BY <1>3, <3>1, <3>2
    <2>3. i <= n \/ i > n
      BY <1>1
    <2> QED BY <2>1, <2>2, <2>3
  <1>5. e \o d = s
    BY <1>3, <1>4, SeqEqual
  <1> QED BY <1>2, <1>5 DEF d, Drop

(* What is put in front of octets can be taken off again.                   *)
LEMMA PutOn ==
  ASSUME NEW S, NEW e \in Seq(S), NEW r \in Seq(S)
  PROVE  /\ e \o r \in Seq(S) /\ StartsWith(e \o r, e)
         /\ Drop(e \o r, Len(e)) = r
  <1>1. /\ e \o r \in Seq(S) /\ Len(e \o r) = Len(e) + Len(r)
        /\ \A i \in 1 .. Len(e) + Len(r) : (e \o r)[i] = IF i <= Len(e) THEN e[i] ELSE r[i - Len(e)]
    BY ConcatProperties
  <1>2. StartsWith(e \o r, e)
    BY <1>1 DEF StartsWith
  <1>3. Drop(e \o r, Len(e)) \in Seq(S) /\ e \o r = e \o Drop(e \o r, Len(e))
    BY <1>1, <1>2, TakeOff
  <1>4. \A a, b \in Seq(S) : e \o a = e \o b => a = b
    BY ConcatSimplifications
  <1>5. Drop(e \o r, Len(e)) = r
    BY <1>3, <1>4
  <1> QED BY <1>1, <1>2, <1>5

-----------------------------------------------------------------------------
(* Texts.                                                                   *)

(* The octets of a text, character by character.                            *)
Pieces(text, order) == [i \in DOMAIN text |-> Encoded(text[i], order)]

(* A text with one character more has one piece more.                       *)
LEMMA PiecesAppend ==
  ASSUME NEW order \in Encodings, NEW t \in Seq(Valid), NEW c \in Valid
  PROVE  /\ Pieces(t, order) \in Seq(Seq(Octet))
         /\ Pieces(Append(t, c), order) = Append(Pieces(t, order), Encoded(c, order))
  <1>1. \A d \in Valid : Encoded(d, order) \in Seq(Octet)
    BY EncodedParts
  <1> DEFINE E(d) == Encoded(d, order)
  <1> HIDE DEF E
  <1>2. \A d \in Valid : E(d) \in Seq(Octet)
    BY <1>1 DEF E
  <1> DEFINE T == Seq(Octet)
  <1> HIDE DEF T
  <1>3. \A d \in Valid : E(d) \in T
    BY <1>2 DEF T
  <1>4. [i \in DOMAIN t |-> E(t[i])] \in Seq(T)
    BY <1>3
  <1>5. [i \in DOMAIN Append(t, c) |-> E(Append(t, c)[i])] = Append([i \in DOMAIN t |-> E(t[i])], E(c))
    <2> DEFINE p == [i \in DOMAIN t |-> E(t[i])]
               a == Append(t, c)
               r == [i \in DOMAIN a |-> E(a[i])]
    <2>1. p \in Seq(T) /\ Len(p) = Len(t) /\ \A i \in 1 .. Len(t) : p[i] = E(t[i])
      BY <1>3
    <2>2. /\ a \in Seq(Valid) /\ Len(a) = Len(t) + 1 /\ a[Len(t) + 1] = c
          /\ \A i \in 1 .. Len(t) : a[i] = t[i]
      BY AppendProperties
    <2> HIDE DEF a, p
    <2>3. r \in Seq(T) /\ Len(r) = Len(a) /\ \A i \in 1 .. Len(a) : r[i] = E(a[i])
      BY <1>3, <2>2
    <2> HIDE DEF r
    <2>4. /\ Append(p, E(c)) \in Seq(T) /\ Len(Append(p, E(c))) = Len(p) + 1
          /\ \A i \in 1 .. Len(p) : Append(p, E(c))[i] = p[i]
          /\ Append(p, E(c))[Len(p) + 1] = E(c)
      BY <1>3, <2>1, AppendProperties
    <2>5. ASSUME NEW i \in 1 .. Len(r) PROVE r[i] = Append(p, E(c))[i]
      <3>1. Len(t) \in Nat /\ (i \in 1 .. Len(t) \/ i = Len(t) + 1)
        BY <2>2, <2>3
      <3> QED BY <2>1, <2>2, <2>3, <2>4, <3>1
    <2>6. r = Append(p, E(c))
      BY <2>1, <2>2, <2>3, <2>4, <2>5, SeqEqual
    <2> QED BY <2>6 DEF r, p, a
  <1> QED BY <1>4, <1>5 DEF Pieces, E, T

(* Two texts on end have the pieces of the one and then of the other.       *)
LEMMA PiecesConcat ==
  ASSUME NEW order \in Encodings, NEW t \in Seq(Valid), NEW u \in Seq(Valid)
  PROVE  Pieces(t \o u, order) = Pieces(t, order) \o Pieces(u, order)
  <1> DEFINE E(d) == Encoded(d, order)
             T == Seq(Octet)
  <1>1. \A d \in Valid : E(d) \in T
    BY EncodedParts
  <1> HIDE DEF E, T
  <1> DEFINE p == [i \in DOMAIN t |-> E(t[i])]
             q == [i \in DOMAIN u |-> E(u[i])]
             r == [i \in DOMAIN (t \o u) |-> E((t \o u)[i])]
  <1>2. /\ t \o u \in Seq(Valid) /\ Len(t \o u) = Len(t) + Len(u)
        /\ \A i \in 1 .. Len(t) + Len(u) : (t \o u)[i] = IF i <= Len(t) THEN t[i] ELSE u[i - Len(t)]
    BY ConcatProperties
  <1>3. p \in Seq(T) /\ Len(p) = Len(t) /\ \A i \in 1 .. Len(t) : p[i] = E(t[i])
    BY <1>1
  <1>4. q \in Seq(T) /\ Len(q) = Len(u) /\ \A i \in 1 .. Len(u) : q[i] = E(u[i])
    BY <1>1
  <1>v. /\ Len(t) \in Nat /\ Len(u) \in Nat
        /\ \A v \in Seq(Valid) : LET x == [i \in DOMAIN v |-> E(v[i])]
                                 IN x \in Seq(T) /\ Len(x) = Len(v) /\ \A i \in 1 .. Len(v) : x[i] = E(v[i])
    BY <1>1
  <1>5. r \in Seq(T) /\ Len(r) = Len(t) + Len(u) /\ \A i \in 1 .. Len(t) + Len(u) : r[i] = E((t \o u)[i])
    BY <1>2, <1>v
  <1> HIDE DEF p, q, r
  <1>6. /\ p \o q \in Seq(T) /\ Len(p \o q) = Len(t) + Len(u)
        /\ \A i \in 1 .. Len(t) + Len(u) : (p \o q)[i] = IF i <= Len(t) THEN p[i] ELSE q[i - Len(t)]
    <2>1. /\ p \o q \in Seq(T) /\ Len(p \o q) = Len(p) + Len(q)
          /\ \A i \in 1 .. Len(p) + Len(q) : (p \o q)[i] = IF i <= Len(p) THEN p[i] ELSE q[i - Len(p)]
      <3>1. p \in Seq(T) /\ q \in Seq(T)
        BY <1>3, <1>4
      <3> QED BY <3>1, ConcatProperties
    <2> QED BY <1>3, <1>4, <2>1
  <1>7. ASSUME NEW i \in 1 .. Len(t) + Len(u) PROVE r[i] = (p \o q)[i]
    <2>0. Len(t) \in Nat /\ Len(u) \in Nat
      OBVIOUS
    <2>1. CASE i <= Len(t)
      <3>1. i \in 1 .. Len(t)
        BY <2>0, <2>1
      <3> QED BY <1>2, <1>3, <1>5, <1>6, <2>1, <3>1
    <2>2. CASE ~(i <= Len(t))
      <3>1. i - Len(t) \in 1 .. Len(u)
        BY <2>0, <2>2
      <3>2. (p \o q)[i] = E(u[i - Len(t)])
        BY <1>4, <1>6, <2>2, <3>1
      <3> QED BY <1>2, <1>5, <2>2, <3>2
    <2> QED BY <2>1, <2>2
  <1>8. r = p \o q
    BY <1>5, <1>6, <1>7, SeqEqual
  <1> QED BY <1>8 DEF Pieces, p, q, r, E

(* No character takes no octet.                                             *)
LEMMA NoText ==
  ASSUME NEW order \in Encodings
  PROVE  EncodedText(<<>>, order) = <<>>
  <1>1. [i \in DOMAIN (<<>>) |-> Encoded((<<>>)[i], order)] = <<>>
    OBVIOUS
  <1> QED BY <1>1, FlattenEmpty DEF EncodedText

(* One character more adds its octets.                                      *)
LEMMA TextAppend ==
  ASSUME NEW order \in Encodings, NEW t \in Seq(Valid), NEW c \in Valid
  PROVE  /\ EncodedText(t, order) \in Seq(Octet)
         /\ EncodedText(Append(t, c), order) = EncodedText(t, order) \o Encoded(c, order)
  <1>1. /\ Pieces(t, order) \in Seq(Seq(Octet)) /\ Encoded(c, order) \in Seq(Octet)
        /\ Pieces(Append(t, c), order) = Append(Pieces(t, order), Encoded(c, order))
    BY PiecesAppend, EncodedParts
  <1>2. /\ FlattenSeq(Pieces(t, order)) \in Seq(Octet)
        /\ FlattenSeq(Append(Pieces(t, order), Encoded(c, order)))
             = FlattenSeq(Pieces(t, order)) \o Encoded(c, order)
    BY <1>1, FlattenAppend
  <1>3. /\ EncodedText(t, order) = FlattenSeq(Pieces(t, order))
        /\ EncodedText(Append(t, c), order) = FlattenSeq(Pieces(Append(t, c), order))
    BY Zenon DEF EncodedText, Pieces
  <1> QED BY <1>1, <1>2, <1>3

(* Two texts on end have the octets of the one and then of the other.       *)
LEMMA TextConcat ==
  ASSUME NEW order \in Encodings, NEW t \in Seq(Valid), NEW u \in Seq(Valid)
  PROVE  /\ EncodedText(t, order) \in Seq(Octet)
         /\ EncodedText(u, order) \in Seq(Octet)
         /\ EncodedText(t \o u, order) = EncodedText(t, order) \o EncodedText(u, order)
  <1>0. 0 \in Valid
    BY SMT DEF Valid, ValidCode, Between
  <1>1. /\ Pieces(t, order) \in Seq(Seq(Octet)) /\ Pieces(u, order) \in Seq(Seq(Octet))
        /\ Pieces(t \o u, order) = Pieces(t, order) \o Pieces(u, order)
    BY <1>0, PiecesAppend, PiecesConcat
  <1>2. FlattenSeq(Pieces(t, order) \o Pieces(u, order))
             = FlattenSeq(Pieces(t, order)) \o FlattenSeq(Pieces(u, order))
    BY <1>1, FlattenConcat
  <1>3. /\ EncodedText(t, order) = FlattenSeq(Pieces(t, order))
        /\ EncodedText(u, order) = FlattenSeq(Pieces(u, order))
        /\ EncodedText(t \o u, order) = FlattenSeq(Pieces(t \o u, order))
    BY Zenon DEF EncodedText, Pieces
  <1>4. EncodedText(t, order) \in Seq(Octet) /\ EncodedText(u, order) \in Seq(Octet)
    BY <1>0, TextAppend
  <1> QED BY <1>1, <1>2, <1>3, <1>4

(* What the head of octets can be.                                          *)

(* The first octet calls for at most four octets, or for none when no       *)
(* character begins with it.                                                *)
LEMMA WidthIsSmall ==
  ASSUME NEW o \in Octet
  PROVE  Width(o) \in 0 .. 4
  BY SMT DEF Octet, Width

(* The head of s is a whole character c in w octets of UTF-8.               *)
Utf8Whole(s, w, c) ==
  /\ w \in 1 .. 4 /\ w <= Len(s) /\ w = Width(s[1])
  /\ \A k \in 2 .. w : IsTrailing(s[k])
  /\ c = Decode(s, 1, w) /\ Shortest(c, w) /\ ValidCode(c)

(* The head of octets in UTF-8 is no character, one that lacks octets, or a *)
(* whole one.                                                               *)
LEMMA Utf8HeadCases ==
  ASSUME NEW s \in Seq(Octet), s # <<>>
  PROVE  \/ Utf8Head(s) = Malformed
         \/ Width(s[1]) > Len(s) /\ Utf8Head(s) = Missing
         \/ \E w, c : Utf8Whole(s, w, c) /\ Utf8Head(s) = Found(w, c)
  <1> DEFINE w == Width(s[1])
             c == Decode(s, 1, w)
             trailing == \A k \in 2 .. w : IsTrailing(s[k])
             good == trailing /\ Shortest(c, w) /\ ValidCode(c)
  <1>1. Len(s) \in Nat /\ Len(s) >= 1 /\ s[1] \in Octet
    BY EmptySeq
  <1>2. w \in 0 .. 4
    BY <1>1, WidthIsSmall
  <1>3. Utf8Head(s) = CASE w = 0 -> Malformed
                        [] w > Len(s) -> Missing
                        [] w \in 1..Len(s) -> IF good THEN Found(w, c) ELSE Malformed
    BY Zenon DEF Utf8Head
  <1>e. good /\ w \in 1 .. 4 /\ w <= Len(s) => Utf8Whole(s, w, c)
    BY Zenon DEF Utf8Whole
  <1> HIDE DEF w, c, good
  <1>4. CASE w = 0
    <2>1. ~(w > Len(s)) /\ w \notin 1 .. Len(s)
      BY <1>1, <1>4
    <2> QED BY <1>3, <1>4, <2>1
  <1>5. CASE w > Len(s)
    <2>1. w # 0 /\ w \notin 1 .. Len(s)
      BY <1>1, <1>2, <1>5
    <2> QED BY <1>3, <1>5, <2>1 DEF w
  <1>6. CASE w # 0 /\ ~(w > Len(s))
    <2>1. w \in 1 .. Len(s) /\ w \in 1 .. 4 /\ w <= Len(s)
      BY <1>1, <1>2, <1>6
    <2>2. Utf8Head(s) = IF good THEN Found(w, c) ELSE Malformed
      BY <1>3, <1>6, <2>1
    <2> QED BY <1>e, <2>1, <2>2
  <1> QED BY <1>4, <1>5, <1>6

(* The first octet is what its width and its leading bits say.              *)
LEMMA FirstOctetBack ==
  ASSUME NEW o \in Octet
  PROVE  /\ Width(o) = 1 => o \in Nat /\ o <= 127 /\ Lead(o) = o
         /\ Width(o) = 2 => Lead(o) \in 0 .. 31 /\ o = 192 + Lead(o)
         /\ Width(o) = 3 => Lead(o) \in 0 .. 15 /\ o = 224 + Lead(o)
         /\ Width(o) = 4 => Lead(o) \in 0 .. 7 /\ o = 240 + Lead(o)
  <1>1. o \in Nat /\ o <= 255
    BY OctetsArePlain
  <1>2. CASE o < 128
    BY SMT, <1>1, <1>2, FirstOctet
  <1>3. CASE 192 <= o /\ o <= 223
    BY SMT, <1>1, <1>3, FirstOctet
  <1>4. CASE 224 <= o /\ o <= 239
    BY SMT, <1>1, <1>4, FirstOctet
  <1>5. CASE 240 <= o /\ o <= 247
    BY SMT, <1>1, <1>5, FirstOctet
  <1>6. CASE (128 <= o /\ o < 192) \/ o > 247
    BY SMT, <1>1, <1>6, FirstOctet
  <1> QED BY SMT, <1>1, <1>2, <1>3, <1>4, <1>5, <1>6

(* The same for two octets.                                                 *)
LEMMA FirstOfTwo ==
  ASSUME NEW o \in Octet, Width(o) = 2
  PROVE  Lead(o) \in 0 .. 31 /\ o = 192 + Lead(o)
  BY SMT, FirstOctetBack

(* The same for three octets.                                               *)
LEMMA FirstOfThree ==
  ASSUME NEW o \in Octet, Width(o) = 3
  PROVE  Lead(o) \in 0 .. 15 /\ o = 224 + Lead(o)
  BY SMT, FirstOctetBack

(* The same for four octets.                                                *)
LEMMA FirstOfFour ==
  ASSUME NEW o \in Octet, Width(o) = 4
  PROVE  Lead(o) \in 0 .. 7 /\ o = 240 + Lead(o)
  BY SMT, FirstOctetBack

(* A trailing octet is what its six bits say.                               *)
LEMMA NextOctetBack ==
  ASSUME NEW o \in Octet, IsTrailing(o)
  PROVE  o % 64 \in 0 .. 63 /\ o = 128 + (o % 64)
  BY SMT, NextOctet, OctetsArePlain

(* A character that was found is what the octets begin with.                *)
LEMMA Utf8WholeIsEncoded ==
  ASSUME NEW s \in Seq(Octet), NEW w, NEW c, Utf8Whole(s, w, c)
  PROVE  c \in Valid /\ Len(Encode(c)) = w /\ StartsWith(s, Encode(c))
  <1>0. /\ w \in 1 .. 4 /\ w <= Len(s) /\ w = Width(s[1]) /\ Len(s) \in Nat
        /\ \A k \in 2 .. w : IsTrailing(s[k])
        /\ c = Decode(s, 1, w) /\ Shortest(c, w) /\ ValidCode(c)
        /\ s[1] \in Octet
    <2>1. /\ w \in 1 .. 4 /\ w <= Len(s) /\ w = Width(s[1])
          /\ \A k \in 2 .. w : IsTrailing(s[k])
          /\ c = Decode(s, 1, w) /\ Shortest(c, w) /\ ValidCode(c)
      BY Zenon DEF Utf8Whole
    <2>2. Len(s) \in Nat /\ (w \in 1 .. 4 /\ w <= Len(s) => 1 \in 1 .. Len(s))
      OBVIOUS
    <2>3. s[1] \in Octet
      BY <2>1, <2>2
    <2> QED BY <2>1, <2>2, <2>3
  <1>v. c \in Nat => c \in Valid
    BY <1>0 DEF Valid
  <1> DEFINE e == Encode(c)
  <1>1. CASE w = 1
    <2>1. s[1] \in Nat /\ s[1] <= 127 /\ Lead(s[1]) = s[1]
      BY <1>0, <1>1, FirstOctetBack
    <2>2. c = s[1]
      BY SMT, <1>0, <1>1, <2>1 DEF Decode
    <2>3. c \in Valid /\ c <= 127
      BY <1>v, <2>1, <2>2
    <2>4. Len(e) = 1 /\ e[1] = c
      BY SMT, <2>3, EncodeIsOctets DEF EncodesAs
    <2> HIDE DEF e
    <2>5. StartsWith(s, e)
      BY SMT, <1>0, <1>1, <2>2, <2>4 DEF StartsWith
    <2> QED BY <1>1, <2>3, <2>4, <2>5 DEF e
  <1>2. CASE w = 2
    <2>0. s[2] \in Octet /\ IsTrailing(s[2])
      <3>1. 2 \in 1 .. Len(s) /\ 2 \in 2 .. w
        BY <1>0, <1>2
      <3> QED BY <1>0, <3>1
    <2> DEFINE x == Lead(s[1])
               y == s[2] % 64
    <2>1. x \in 0 .. 31 /\ s[1] = 192 + x
      <3>1. s[1] \in Octet /\ Width(s[1]) = 2
        BY <1>0, <1>2
      <3>2. Lead(s[1]) \in 0 .. 31 /\ s[1] = 192 + Lead(s[1])
        BY <3>1, FirstOfTwo
      <3> QED BY <3>2
    <2>2. y \in 0 .. 63
      BY <2>0, NextOctetBack
    <2>3. s[2] = 128 + y
      BY <2>0, NextOctetBack
    <2> HIDE DEF x, y
    <2>4. c = 64 * x + y /\ c >= 128
      BY SMT, <1>0, <1>2 DEF Decode, Shortest, x, y
    <2>5. c \in Nat /\ c <= 2047 /\ c \div 64 = x /\ c % 64 = y
      BY SMTT(30), <2>1, <2>2, <2>4
    <2>6. Len(e) = 2 /\ e[1] = s[1] /\ e[2] = s[2]
      BY SMT, <1>v, <2>1, <2>3, <2>4, <2>5, EncodeIsOctets DEF EncodesAs
    <2> HIDE DEF e
    <2>7. StartsWith(s, e)
      BY SMT, <1>0, <1>2, <2>6 DEF StartsWith
    <2> QED BY <1>2, <1>v, <2>5, <2>6, <2>7 DEF e
  <1>3. CASE w = 3
    <2>0. s[2] \in Octet /\ IsTrailing(s[2]) /\ s[3] \in Octet /\ IsTrailing(s[3])
      <3>1. 2 \in 1 .. Len(s) /\ 2 \in 2 .. w /\ 3 \in 1 .. Len(s) /\ 3 \in 2 .. w
        BY <1>0, <1>3
      <3> QED BY <1>0, <3>1
    <2> DEFINE x == Lead(s[1])
               y == s[2] % 64
               z == s[3] % 64
    <2>1. x \in 0 .. 15 /\ s[1] = 224 + x
      <3>1. s[1] \in Octet /\ Width(s[1]) = 3
        BY <1>0, <1>3
      <3>2. Lead(s[1]) \in 0 .. 15 /\ s[1] = 224 + Lead(s[1])
        BY <3>1, FirstOfThree
      <3> QED BY <3>2
    <2>2. y \in 0 .. 63 /\ z \in 0 .. 63
      BY <2>0, NextOctetBack
    <2>3. s[2] = 128 + y /\ s[3] = 128 + z
      BY <2>0, NextOctetBack
    <2> HIDE DEF x, y, z
    <2>4. c = 4096 * x + 64 * y + z /\ c >= 2048
      BY SMT, <1>0, <1>3 DEF Decode, Shortest, x, y, z
    <2>5. c \in Nat /\ c <= 65535 /\ c \div 4096 = x /\ (c \div 64) % 64 = y /\ c % 64 = z
      BY SMTT(30), <2>1, <2>2, <2>4
    <2>6. Len(e) = 3 /\ e[1] = s[1] /\ e[2] = s[2] /\ e[3] = s[3]
      BY SMT, <1>v, <2>1, <2>3, <2>4, <2>5, EncodeIsOctets DEF EncodesAs
    <2> HIDE DEF e
    <2>7. StartsWith(s, e)
      BY SMT, <1>0, <1>3, <2>6 DEF StartsWith
    <2> QED BY SMT, <1>3, <1>v, <2>5, <2>6, <2>7 DEF e
  <1>4. CASE w = 4
    <2>0. /\ s[2] \in Octet /\ IsTrailing(s[2]) /\ s[3] \in Octet /\ IsTrailing(s[3])
          /\ s[4] \in Octet /\ IsTrailing(s[4])
      <3>1. /\ 2 \in 1 .. Len(s) /\ 2 \in 2 .. w /\ 3 \in 1 .. Len(s) /\ 3 \in 2 .. w
            /\ 4 \in 1 .. Len(s) /\ 4 \in 2 .. w
        BY <1>0, <1>4
      <3> QED BY <1>0, <3>1
    <2> DEFINE x == Lead(s[1])
               y == s[2] % 64
               z == s[3] % 64
               v == s[4] % 64
    <2>1. x \in 0 .. 7 /\ s[1] = 240 + x
      <3>1. s[1] \in Octet /\ Width(s[1]) = 4
        BY <1>0, <1>4
      <3>2. Lead(s[1]) \in 0 .. 7 /\ s[1] = 240 + Lead(s[1])
        BY <3>1, FirstOfFour
      <3> QED BY <3>2
    <2>2. /\ y \in 0 .. 63 /\ z \in 0 .. 63
          /\ v \in 0 .. 63
      BY <2>0, NextOctetBack
    <2>3. s[2] = 128 + y /\ s[3] = 128 + z /\ s[4] = 128 + v
      BY <2>0, NextOctetBack
    <2> HIDE DEF x, y, z, v
    <2>4. c = 262144 * x + 4096 * y + 64 * z + v /\ c >= 65536
      BY SMT, <1>0, <1>4 DEF Decode, Shortest, x, y, z, v
    <2>5. /\ c \in Nat /\ c \div 262144 = x /\ (c \div 4096) % 64 = y
          /\ (c \div 64) % 64 = z /\ c % 64 = v
      BY SMTT(40), <2>1, <2>2, <2>4
    <2>6. Len(e) = 4 /\ e[1] = s[1] /\ e[2] = s[2] /\ e[3] = s[3] /\ e[4] = s[4]
      <3>1. EncodesAs(e, c)
        BY <1>v, <2>5, EncodeIsOctets
      <3> HIDE DEF e
      <3>2. /\ Len(e) = 4 /\ e[1] = 240 + (c \div 262144) /\ e[2] = 128 + ((c \div 4096) % 64)
            /\ e[3] = 128 + ((c \div 64) % 64) /\ e[4] = 128 + (c % 64)
        BY SMT, <2>4, <3>1 DEF EncodesAs
      <3> QED BY SMT, <2>1, <2>3, <2>5, <3>2
    <2> HIDE DEF e
    <2>7. StartsWith(s, e)
      BY SMT, <1>0, <1>4, <2>6 DEF StartsWith
    <2> QED BY SMT, <1>4, <1>v, <2>5, <2>6, <2>7 DEF e
  <1> QED BY SMT, <1>0, <1>1, <1>2, <1>3, <1>4

(* The unit at a place gives the octets there back.                         *)
LEMMA UnitBack ==
  ASSUME NEW order \in Encodings, NEW s, NEW k \in Nat, s[k] \in Octet, s[k + 1] \in Octet
  PROVE  LET u == Unit(s, k, order)
         IN  u \in Units /\ Octets16(u, order)[1] = s[k] /\ Octets16(u, order)[2] = s[k + 1]
  <1> DEFINE a == s[k]
             b == s[k + 1]
             u == Unit(s, k, order)
  <1>1. a \in Nat /\ a <= 255 /\ b \in Nat /\ b <= 255
    BY OctetsArePlain
  <1>2. u = IF order = "utf-16le" THEN a + (256 * b) ELSE (256 * a) + b
    BY DEF Unit
  <1> HIDE DEF a, b, u
  <1>3. /\ u \in Units
        /\ order = "utf-16le" => u % 256 = a /\ u \div 256 = b
        /\ order # "utf-16le" => u % 256 = b /\ u \div 256 = a
    BY SMT, <1>1, <1>2 DEF Units
  <1>4. /\ Octets16(u, order)[1] = (IF order = "utf-16le" THEN u % 256 ELSE u \div 256)
        /\ Octets16(u, order)[2] = (IF order = "utf-16le" THEN u \div 256 ELSE u % 256)
    BY SMT, <1>3, Octets16Parts
  <1>5. Octets16(u, order)[1] = a /\ Octets16(u, order)[2] = b
    BY SMT, <1>3, <1>4
  <1> QED BY <1>3, <1>5 DEF a, b, u

(* Two surrogates in order give a wide code, which gives them back.         *)
LEMMA PairBack ==
  ASSUME NEW h \in Units, NEW l \in Units, IsHighSurrogate(h), IsLowSurrogate(l)
  PROVE  LET c == Pair(h, l)
         IN  c \in Valid /\ Wide(c) /\ High(c) = h /\ Low(c) = l
  <1> DEFINE x == h % 1024
             y == l % 1024
             c == Pair(h, l)
  <1>1. x \in Nat /\ x <= 1023 /\ y \in Nat /\ y <= 1023 /\ h = 55296 + x /\ l = 56320 + y
    BY SMT DEF Units, IsHighSurrogate, IsLowSurrogate, Between
  <1>2. c = 65536 + (1024 * x) + y
    BY DEF Pair
  <1> HIDE DEF x, y, c
  <1>3. c \in Valid /\ Wide(c)
    BY SMT, <1>1, <1>2 DEF Valid, ValidCode, Between, Wide
  <1>4. (c - 65536) \div 1024 = x /\ (c - 65536) % 1024 = y
    BY SMT, <1>1, <1>2
  <1>5. High(c) = h /\ Low(c) = l
    BY SMT, <1>1, <1>4 DEF High, Low
  <1> QED BY <1>3, <1>5 DEF c

(* A unit that is no surrogate is a character.                              *)
LEMMA UnitIsCode ==
  ASSUME NEW u \in Units, ~IsHighSurrogate(u), ~IsLowSurrogate(u)
  PROVE  u \in Valid /\ ~Wide(u)
  BY SMT DEF Units, IsHighSurrogate, IsLowSurrogate, Between, Valid, ValidCode, Wide

(* The head of s is a whole character in this encoding.                     *)
HeadIsCode(s, order) ==
  \E c \in Valid : /\ HeadOf(s, order) = Found(Len(Encoded(c, order)), c)
                   /\ StartsWith(s, Encoded(c, order))

(* The head of octets in any encoding is no character, one that lacks       *)
(* octets, or a whole one: nothing is found that was not there.             *)
LEMMA HeadCases ==
  ASSUME NEW order \in Encodings, NEW s \in Seq(Octet), s # <<>>
  PROVE  \/ HeadOf(s, order) = Malformed
         \/ HeadOf(s, order) = Missing
         \/ HeadIsCode(s, order)
  <1>1. CASE order = "utf-8"
    <2>1. HeadOf(s, order) = Utf8Head(s)
      BY <1>1 DEF HeadOf
    <2>2. CASE \E w, c : Utf8Whole(s, w, c) /\ Utf8Head(s) = Found(w, c)
      <3>1. PICK w, c : Utf8Whole(s, w, c) /\ Utf8Head(s) = Found(w, c)
        BY <2>2
      <3>2. c \in Valid /\ Len(Encode(c)) = w /\ StartsWith(s, Encode(c))
        BY <3>1, Utf8WholeIsEncoded
      <3>3. Encoded(c, order) = Encode(c)
        BY <1>1, <3>2, EncodedCases
      <3> QED BY <2>1, <3>1, <3>2, <3>3 DEF HeadIsCode
    <2> QED BY <2>1, <2>2, Utf8HeadCases
  <1>2. CASE order # "utf-8"
    <2> DEFINE first == Unit(s, 1, order)
               second == Unit(s, 3, order)
    <2>0. Len(s) \in Nat
      OBVIOUS
    <2>1. HeadOf(s, order) =
            IF Len(s) < 2 THEN Missing
            ELSE IF IsLowSurrogate(first) THEN Malformed
            ELSE IF ~IsHighSurrogate(first) THEN Found(2, first)
            ELSE IF Len(s) < 4 THEN Missing
            ELSE IF IsLowSurrogate(second) THEN Found(4, Pair(first, second))
            ELSE Malformed
      BY Zenon, <1>2 DEF HeadOf, Utf16Head
    <2>2. Len(s) >= 2 => s[1] \in Octet /\ s[2] \in Octet
      BY <2>0
    <2>3. Len(s) >= 4 => s[3] \in Octet /\ s[4] \in Octet
      BY <2>0
    <2>4. Len(s) >= 2 => /\ first \in Units /\ Octets16(first, order)[1] = s[1]
                         /\ Octets16(first, order)[2] = s[2]
      <3>1. Len(s) >= 2 => s[1] \in Octet /\ s[1 + 1] \in Octet /\ 1 \in Nat
        BY <2>2
      <3>2. 1 + 1 = 2
        OBVIOUS
      <3> QED BY <3>1, <3>2, UnitBack
    <2>5. Len(s) >= 4 => /\ second \in Units /\ Octets16(second, order)[1] = s[3]
                         /\ Octets16(second, order)[2] = s[4]
      <3>1. Len(s) >= 4 => s[3] \in Octet /\ s[3 + 1] \in Octet /\ 3 \in Nat
        BY <2>3
      <3>2. 3 + 1 = 4
        OBVIOUS
      <3> QED BY <3>1, <3>2, UnitBack
    <2> HIDE DEF first, second
    <2>6. CASE Len(s) >= 2 /\ ~IsLowSurrogate(first) /\ ~IsHighSurrogate(first)
      <3>1. HeadOf(s, order) = Found(2, first)
        <4>1. ~(Len(s) < 2)
          BY <2>0, <2>6
        <4> QED BY <2>1, <2>6, <4>1
      <3>2. first \in Valid /\ ~Wide(first) /\ first \in Units
        BY <2>4, <2>6, UnitIsCode
      <3>3. Encoded(first, order) = Octets16(first, order) /\ Len(Octets16(first, order)) = 2
        BY <1>2, <3>2, EncodedCases, Octets16Parts
      <3>4. StartsWith(s, Octets16(first, order))
        <4> DEFINE e == Octets16(first, order)
        <4>1. Len(e) = 2 /\ e[1] = s[1] /\ e[2] = s[2]
          BY <2>4, <2>6, <3>3
        <4> HIDE DEF e
        <4> QED BY <2>6, <4>1 DEF StartsWith, e
      <3> QED BY <3>1, <3>2, <3>3, <3>4 DEF HeadIsCode
    <2>7. CASE /\ Len(s) >= 4 /\ ~IsLowSurrogate(first) /\ IsHighSurrogate(first)
               /\ IsLowSurrogate(second)
      <3> DEFINE c == Pair(first, second)
      <3>1. HeadOf(s, order) = Found(4, c)
        <4>1. ~(Len(s) < 2) /\ ~(Len(s) < 4)
          BY <2>0, <2>7
        <4> QED BY <2>1, <2>7, <4>1
      <3>2. first \in Units /\ second \in Units
        BY <2>0, <2>4, <2>5, <2>7
      <3>3. c \in Valid /\ Wide(c) /\ High(c) = first /\ Low(c) = second
        BY <2>7, <3>2, PairBack
      <3> HIDE DEF c
      <3> DEFINE e == Octets16(High(c), order) \o Octets16(Low(c), order)
      <3>4. Encoded(c, order) = e
        BY <1>2, <3>3, EncodedCases
      <3>5. /\ Len(e) = 4
            /\ e[1] = Octets16(High(c), order)[1] /\ e[2] = Octets16(High(c), order)[2]
            /\ e[3] = Octets16(Low(c), order)[1] /\ e[4] = Octets16(Low(c), order)[2]
        BY <3>3, PairOctets
      <3> HIDE DEF e
      <3>6. e[1] = s[1] /\ e[2] = s[2] /\ e[3] = s[3] /\ e[4] = s[4]
        BY <2>0, <2>4, <2>5, <2>7, <3>3, <3>5
      <3>7. StartsWith(s, e)
        BY <2>7, <3>5, <3>6 DEF StartsWith
      <3> QED BY <3>1, <3>3, <3>4, <3>5, <3>7 DEF HeadIsCode
    <2> QED BY <2>0, <2>1, <2>6, <2>7
  <1> QED BY <1>1, <1>2

(* What begins with no character does not, whatever follows.                *)
LEMMA Utf8StaysMalformed ==
  ASSUME NEW s \in Seq(Octet), s # <<>>, NEW t \in Seq(Octet), StartsWith(t, s),
         Utf8Head(s) = Malformed
  PROVE  Utf8Head(t) = Malformed
  <1> DEFINE w == Width(s[1])
  <1>0. /\ Len(s) \in Nat /\ Len(s) >= 1 /\ Len(t) \in Nat /\ Len(t) >= Len(s)
        /\ s[1] \in Octet
    BY EmptySeq DEF StartsWith
  <1>1. t[1] = s[1]
    BY <1>0 DEF StartsWith
  <1>2. w \in 0 .. 4
    BY <1>0, WidthIsSmall
  <1>3. Missing # Malformed
    BY DEF Missing, Malformed, Found
  <1>4. CASE w = 0
    <2>1. ~(w > Len(t)) /\ w \notin 1 .. Len(t)
      BY <1>0, <1>4
    <2> QED BY Zenon, <1>1, <1>4, <2>1 DEF Utf8Head
  <1>5. CASE w > Len(s)
    <2>1. w # 0 /\ w \notin 1 .. Len(s)
      BY <1>0, <1>2, <1>5
    <2>2. Utf8Head(s) = Missing
      BY Zenon, <1>5, <2>1 DEF Utf8Head
    <2> QED BY <1>3, <2>2
  <1>6. CASE w # 0 /\ ~(w > Len(s))
    <2>1. w \in 1 .. Len(s) /\ w \in 1 .. Len(t) /\ ~(w > Len(t)) /\ w \in 1 .. 4
      BY <1>0, <1>2, <1>6
    <2>2. \A k \in 2 .. w : t[k] = s[k]
      <3>1. \A k \in 2 .. w : k \in 1 .. Len(s)
        BY <2>1
      <3> QED BY <3>1 DEF StartsWith
    <2>3. Decode(t, 1, w) = Decode(s, 1, w)
      <3>1. (w >= 2 => t[2] = s[2]) /\ (w >= 3 => t[3] = s[3]) /\ (w >= 4 => t[4] = s[4])
        BY <2>1, <2>2
      <3>2. CASE w = 1
        BY <1>1, <3>2 DEF Decode
      <3>3. CASE w = 2
        BY <1>1, <3>1, <3>3 DEF Decode
      <3>4. CASE w = 3
        BY <1>1, <3>1, <3>4 DEF Decode
      <3>5. CASE w = 4
        BY <1>1, <3>1, <3>5 DEF Decode
      <3> QED BY <2>1, <3>2, <3>3, <3>4, <3>5
    <2> DEFINE good(u) == /\ \A k \in 2 .. w : IsTrailing(u[k])
                          /\ Shortest(Decode(u, 1, w), w) /\ ValidCode(Decode(u, 1, w))
    <2>4. Utf8Head(s) = IF good(s) THEN Found(w, Decode(s, 1, w)) ELSE Malformed
      BY Zenon, <1>6, <2>1 DEF Utf8Head
    <2>5. Utf8Head(t) = IF good(t) THEN Found(w, Decode(t, 1, w)) ELSE Malformed
      BY Zenon, <1>1, <1>6, <2>1 DEF Utf8Head
    <2>6. good(t) <=> good(s)
      BY Zenon, <2>2, <2>3
    <2> QED BY Zenon, <2>3, <2>4, <2>5, <2>6
  <1> QED BY <1>4, <1>5, <1>6

(* The same for every encoding: no octets that arrive later make a          *)
(* character of what is malformed.                                          *)
LEMMA StaysMalformed ==
  ASSUME NEW order \in Encodings, NEW s \in Seq(Octet), s # <<>>,
         NEW t \in Seq(Octet), StartsWith(t, s), HeadOf(s, order) = Malformed
  PROVE  HeadOf(t, order) = Malformed
  <1>1. CASE order = "utf-8"
    <2>1. Utf8Head(s) = Malformed
      BY <1>1 DEF HeadOf
    <2>2. Utf8Head(t) = Malformed
      BY <2>1, Utf8StaysMalformed
    <2> QED BY <1>1, <2>2 DEF HeadOf
  <1>2. CASE order # "utf-8"
    <2>0. /\ Len(s) \in Nat /\ Len(s) >= 1 /\ Len(t) \in Nat /\ Len(t) >= Len(s)
          /\ \A i \in 1 .. Len(s) : t[i] = s[i]
      BY EmptySeq DEF StartsWith
    <2>1. Len(s) >= 2 => Unit(t, 1, order) = Unit(s, 1, order) /\ ~(Len(t) < 2)
      <3>1. Len(s) >= 2 => t[1] = s[1] /\ t[1 + 1] = s[1 + 1]
        BY <2>0
      <3> QED BY <2>0, <3>1 DEF Unit
    <2>2. Len(s) >= 4 => Unit(t, 3, order) = Unit(s, 3, order) /\ ~(Len(t) < 4)
      <3>1. Len(s) >= 4 => t[3] = s[3] /\ t[3 + 1] = s[3 + 1]
        BY <2>0
      <3> QED BY <2>0, <3>1 DEF Unit
    <2>3. Missing # Malformed /\ \A c : Found(2, c) # Malformed /\ Found(4, c) # Malformed
      BY DEF Missing, Malformed, Found
    <2>4. HeadOf(s, order) = Utf16Head(s, order) /\ HeadOf(t, order) = Utf16Head(t, order)
      BY <1>2 DEF HeadOf
    <2> DEFINE f(u) == IsLowSurrogate(Unit(u, 1, order))
               g(u) == IsHighSurrogate(Unit(u, 1, order))
               h(u) == IsLowSurrogate(Unit(u, 3, order))
               p(u) == Found(2, Unit(u, 1, order))
               q(u) == Found(4, Pair(Unit(u, 1, order), Unit(u, 3, order)))
    <2>5. /\ p(s) # Malformed /\ q(s) # Malformed
          /\ Len(s) >= 2 => (f(s) <=> f(t)) /\ (g(s) <=> g(t))
          /\ Len(s) >= 4 => (h(s) <=> h(t))
      BY Zenon, <2>1, <2>2, <2>3
    <2>6. \A u : Utf16Head(u, order) =
            IF Len(u) < 2 THEN Missing ELSE IF f(u) THEN Malformed ELSE IF ~g(u) THEN p(u)
            ELSE IF Len(u) < 4 THEN Missing ELSE IF h(u) THEN q(u) ELSE Malformed
      BY Zenon DEF Utf16Head
    <2> HIDE DEF f, g, h, p, q
    <2>7. Utf16Head(s, order) = Malformed
      BY <2>4
    <2>8. ~(Len(s) < 2) /\ (f(s) \/ (g(s) /\ ~(Len(s) < 4) /\ ~h(s)))
      BY Zenon, <2>3, <2>5, <2>6, <2>7
    <2>9. ~(Len(t) < 2) /\ (f(t) \/ (~f(t) /\ g(t) /\ ~(Len(t) < 4) /\ ~h(t)))
      BY <2>0, <2>1, <2>2, <2>5, <2>8
    <2>10. Utf16Head(t, order) = Malformed
      BY Zenon, <2>6, <2>9
    <2> QED BY <2>4, <2>10
  <1> QED BY <1>1, <1>2

(* What begins with something is not empty.                                 *)
LEMMA BeginsNotEmpty ==
  ASSUME NEW S, NEW s \in Seq(S), NEW e \in Seq(S), Len(e) \in 1 .. 4, StartsWith(s, e)
  PROVE  s # <<>>
  <1>1. Len(s) >= Len(e)
    BY DEF StartsWith
  <1>2. Len(s) # 0
    BY <1>1
  <1> QED BY <1>2

(* A text that is not empty begins with a character, and its octets with    *)
(* the octets of that.                                                      *)
LEMMA TextBegins ==
  ASSUME NEW order \in Encodings, NEW u \in Seq(Valid), u # <<>>
  PROVE  \E d \in Valid, v \in Seq(Valid) :
            /\ u = <<d>> \o v /\ u[1] = d
            /\ EncodedText(v, order) \in Seq(Octet)
            /\ EncodedText(u, order) = Encoded(d, order) \o EncodedText(v, order)
            /\ EncodedText(u, order) # <<>>
            /\ HeadOf(EncodedText(u, order), order) = Found(Len(Encoded(d, order)), d)
  <1> DEFINE d == u[1]
             v == Tail(u)
  <1>1. d \in Valid /\ v \in Seq(Valid) /\ u = <<d>> \o v
    <2>1. Len(u) \in Nat /\ Len(u) >= 1
      BY EmptySeq
    <2>2. d \in Valid /\ v \in Seq(Valid)
      BY <2>1, HeadTailProperties
    <2>3. SubSeq(u, 1, Len(u)) = <<u[1]>> \o SubSeq(u, 1 + 1, Len(u))
      <3>1. 1 \in 1 .. Len(u) /\ Len(u) \in 1 .. Len(u)
        BY <2>1
      <3> QED BY <3>1, SubSeqRecursiveFirst
    <2>4. SubSeq(u, 1, Len(u)) = u /\ v = SubSeq(u, 2, Len(u)) /\ 1 + 1 = 2
      BY SubSeqFull, TailIsSubSeq
    <2> QED BY <2>2, <2>3, <2>4
  <1> HIDE DEF v
  <1>2. EncodedText(<<d>>, order) = Encoded(d, order) /\ Encoded(d, order) \in Seq(Octet)
    <2>1. <<>> \in Seq(Valid) /\ Append(<<>>, d) = <<d>>
      OBVIOUS
    <2>2. EncodedText(Append(<<>>, d), order) = EncodedText(<<>>, order) \o Encoded(d, order)
      BY <1>1, <2>1, TextAppend
    <2>3. Encoded(d, order) \in Seq(Octet)
      BY <1>1, EncodedParts
    <2>4. <<>> \o Encoded(d, order) = Encoded(d, order)
      BY <2>3, ConcatEmptySeq
    <2> QED BY <2>1, <2>2, <2>3, <2>4, NoText
  <1>3. /\ EncodedText(v, order) \in Seq(Octet)
        /\ EncodedText(u, order) = Encoded(d, order) \o EncodedText(v, order)
    <2>1. <<d>> \in Seq(Valid)
      BY <1>1
    <2>2. /\ EncodedText(v, order) \in Seq(Octet)
          /\ EncodedText(<<d>> \o v, order) = EncodedText(<<d>>, order) \o EncodedText(v, order)
      BY <1>1, <2>1, TextConcat
    <2> QED BY <1>1, <1>2, <2>2
  <1> DEFINE e == Encoded(d, order)
             f == EncodedText(v, order)
             g == EncodedText(u, order)
  <1>4. Len(e) \in 1 .. 4
    BY <1>1, EncodedParts
  <1> HIDE DEF e, f, g
  <1>5. e \in Seq(Octet) /\ f \in Seq(Octet) /\ g = e \o f
    BY <1>2, <1>3 DEF e, f, g
  <1>6. g \in Seq(Octet) /\ StartsWith(g, e)
    BY <1>5, PutOn
  <1>7. g # <<>>
    BY <1>4, <1>5, <1>6, BeginsNotEmpty
  <1>8. HeadOf(g, order) = Found(Len(e), d)
    BY <1>1, <1>6, HeadOfCode DEF e
  <1> QED BY <1>1, <1>3, <1>7, <1>8 DEF e, g

(* Octets stand for one text at most: what begins with the octets of a text *)
(* goes on with the octets of the rest.                                     *)
GoesOn(order, t) ==
  \A r \in Seq(Octet), whole \in Seq(Valid) :
     EncodedText(t, order) \o r = EncodedText(whole, order) =>
        \E u \in Seq(Valid) : whole = t \o u /\ r = EncodedText(u, order)

(* A text that goes on so, and one character more.                          *)
LEMMA GoesOnWithOneMore ==
  ASSUME NEW order \in Encodings, NEW s \in Seq(Valid), NEW c \in Valid, GoesOn(order, s)
  PROVE  GoesOn(order, Append(s, c))
  <1> SUFFICES ASSUME NEW r \in Seq(Octet), NEW whole \in Seq(Valid),
                      EncodedText(Append(s, c), order) \o r = EncodedText(whole, order)
               PROVE  \E u \in Seq(Valid) : whole = Append(s, c) \o u /\ r = EncodedText(u, order)
    BY DEF GoesOn
  <1> DEFINE a == EncodedText(s, order)
             e == Encoded(c, order)
             b == e \o r
  <1>1. a \in Seq(Octet) /\ e \in Seq(Octet) /\ Len(e) \in 1 .. 4
    BY TextAppend, EncodedParts
  <1>2. EncodedText(Append(s, c), order) = a \o e
    BY TextAppend
  <1>e. a = EncodedText(s, order) /\ e = Encoded(c, order)
    OBVIOUS
  <1> HIDE DEF a, e
  <1>3. (a \o e) \o r = a \o b
    BY <1>1, ConcatAssociative
  <1>4. b \in Seq(Octet) /\ StartsWith(b, e) /\ Drop(b, Len(e)) = r
    BY <1>1, PutOn
  <1> HIDE DEF b
  <1>5. PICK u \in Seq(Valid) : whole = s \o u /\ b = EncodedText(u, order)
    <2>1. EncodedText(s, order) \o b = EncodedText(whole, order)
      BY <1>2, <1>3, <1>e
    <2> QED BY <1>4, <2>1 DEF GoesOn
  <1>6. u # <<>>
    <2>2. b # <<>>
      BY <1>1, <1>4, BeginsNotEmpty
    <2> QED BY <1>5, <2>2, NoText
  <1>7. PICK d \in Valid, v \in Seq(Valid) :
            /\ u = <<d>> \o v
            /\ EncodedText(v, order) \in Seq(Octet)
            /\ EncodedText(u, order) = Encoded(d, order) \o EncodedText(v, order)
            /\ HeadOf(EncodedText(u, order), order) = Found(Len(Encoded(d, order)), d)
    BY <1>6, TextBegins
  <1>8. HeadOf(b, order) = Found(Len(e), c)
    BY <1>4, <1>e, HeadOfCode
  <1>9. c = d
    <2>1. Found(Len(e), c) = Found(Len(Encoded(d, order)), d)
      BY <1>5, <1>7, <1>8
    <2>2. Found(Len(e), c).code = Found(Len(Encoded(d, order)), d).code
      BY <2>1
    <2>3. \A w, x : Found(w, x).code = x
      BY DEF Found
    <2> QED BY <2>2, <2>3
  <1>10. b = e \o EncodedText(v, order)
    BY <1>5, <1>7, <1>9, <1>e
  <1>11. Drop(b, Len(e)) = EncodedText(v, order)
    BY <1>1, <1>7, <1>10, PutOn
  <1>12. whole = Append(s, c) \o v
    <2>1. <<c>> \in Seq(Valid) /\ Append(s, c) = s \o <<c>>
      BY AppendIsConcat
    <2>2. (s \o <<c>>) \o v = s \o (<<c>> \o v)
      BY <2>1, ConcatAssociative
    <2> QED BY <1>5, <1>7, <1>9, <2>1, <2>2
  <1> QED BY <1>4, <1>11, <1>12

(* Two texts of which the octets of one begin with those of the other agree *)
(* as far: no octets stand for two texts.                                   *)
LEMMA EveryTextGoesOn ==
  ASSUME NEW order \in Encodings, NEW t \in Seq(Valid)
  PROVE  GoesOn(order, t)
  <1> DEFINE T == {n \in Nat : \A s \in Seq(Valid) : Len(s) = n => GoesOn(order, s)}
  <1>1. 0 \in T
    <2> SUFFICES GoesOn(order, <<>>)
      BY EmptySeq
    <2> SUFFICES ASSUME NEW r \in Seq(Octet), NEW whole \in Seq(Valid),
                        EncodedText(<<>>, order) \o r = EncodedText(whole, order)
                 PROVE  \E u \in Seq(Valid) : whole = <<>> \o u /\ r = EncodedText(u, order)
      BY DEF GoesOn
    <2>1. r = EncodedText(whole, order)
      BY NoText, ConcatEmptySeq
    <2>2. <<>> \o whole = whole
      BY ConcatEmptySeq
    <2> QED BY <2>1, <2>2
  <1>2. ASSUME NEW n \in T PROVE n + 1 \in T
    <2> SUFFICES ASSUME NEW s \in Seq(Valid), Len(s) = n + 1 PROVE GoesOn(order, s)
      OBVIOUS
    <2>1. s # <<>> /\ n \in Nat
      BY EmptySeq
    <2>2. PICK p \in Seq(Valid), c \in Valid : s = Append(p, c)
      BY <2>1, SequenceEmptyOrAppend
    <2>3. Len(p) = n
      <3>1. Len(s) = Len(p) + 1 /\ Len(p) \in Nat
        BY <2>2, AppendProperties
      <3> QED BY <2>1, <3>1
    <2>4. GoesOn(order, p)
      BY <2>3
    <2> QED BY <2>2, <2>4, GoesOnWithOneMore
  <1>3. T = Nat
    <2>1. T \in SUBSET Nat
      OBVIOUS
    <2> HIDE DEF T
    <2> QED BY <1>1, <1>2, <2>1, Induct
  <1>4. Len(t) \in T
    BY <1>3
  <1> QED BY <1>4

-----------------------------------------------------------------------------
(* Byte order marks.                                                        *)
LEMMA MarkParts ==
  /\ DOMAIN Marks = Encodings
  /\ \A order \in Encodings : /\ Marks[order] \in Seq(Octet) /\ Len(Marks[order]) \in 2 .. 3
                              /\ Marks[order][1] = CASE order = "utf-8" -> 239
                                                     [] order = "utf-16le" -> 255
                                                     [] order = "utf-16be" -> 254
  <1>1. 239 \in Octet /\ 187 \in Octet /\ 191 \in Octet /\ 255 \in Octet /\ 254 \in Octet
    BY SMT DEF Octet
  <1>2. DOMAIN Marks = Encodings
    BY Zenon DEF Marks, Encodings
  <1>3. /\ Marks["utf-8"] = <<239, 187, 191>> /\ Marks["utf-16le"] = <<255, 254>>
        /\ Marks["utf-16be"] = <<254, 255>>
    BY SMT DEF Marks
  <1>4. /\ Marks["utf-8"] \in Seq(Octet) /\ Len(Marks["utf-8"]) = 3 /\ Marks["utf-8"][1] = 239
        /\ Marks["utf-16le"] \in Seq(Octet) /\ Len(Marks["utf-16le"]) = 2 /\ Marks["utf-16le"][1] = 255
        /\ Marks["utf-16be"] \in Seq(Octet) /\ Len(Marks["utf-16be"]) = 2 /\ Marks["utf-16be"][1] = 254
    BY SMT, <1>1, <1>3, Tuples
  <1> QED BY SMT, <1>2, <1>4 DEF Encodings

(* The test for a mark looks at the octets the mark has.                    *)
LEMMA BeginsIsStartsWith ==
  ASSUME NEW octets \in Seq(Octet), NEW order \in Encodings
  PROVE  Begins(octets, Marks[order]) <=> StartsWith(octets, Marks[order])
  <1> DEFINE m == Marks[order]
  <1>1. m \in Seq(Octet) /\ Len(m) \in Nat
    BY MarkParts
  <1> HIDE DEF m
  <1>2. Len(octets) >= Len(m) =>
           /\ SubSeq(octets, 1, Len(m)) \in Seq(Octet) /\ Len(SubSeq(octets, 1, Len(m))) = Len(m)
           /\ \A i \in 1 .. Len(m) : SubSeq(octets, 1, Len(m))[i] = octets[i]
    BY <1>1
  <1>3. Begins(octets, m) => StartsWith(octets, m)
    BY <1>1, <1>2 DEF Begins, StartsWith
  <1>4. StartsWith(octets, m) => Begins(octets, m)
    <2>1. ASSUME StartsWith(octets, m) PROVE SubSeq(octets, 1, Len(m)) = m
      <3>1. Len(octets) >= Len(m) /\ \A i \in 1 .. Len(m) : octets[i] = m[i]
        BY <2>1 DEF StartsWith
      <3> QED BY <1>1, <1>2, <3>1, SeqEqual
    <2> QED BY <2>1 DEF Begins, StartsWith
  <1> QED BY <1>3, <1>4 DEF m

(* No octets begin with two marks: the mark in front names one encoding.    *)
LEMMA OneMark ==
  ASSUME NEW octets \in Seq(Octet), NEW a \in Encodings, NEW b \in Encodings,
         Begins(octets, Marks[a]), Begins(octets, Marks[b])
  PROVE  a = b
  <1> DEFINE m == Marks[a]
             n == Marks[b]
  <1>1. StartsWith(octets, m) /\ StartsWith(octets, n)
    BY BeginsIsStartsWith
  <1>2. /\ Len(m) \in 2 .. 3 /\ Len(n) \in 2 .. 3
        /\ m[1] = n[1] => a = b
    <2>1. /\ m[1] = CASE a = "utf-8" -> 239 [] a = "utf-16le" -> 255 [] a = "utf-16be" -> 254
          /\ n[1] = CASE b = "utf-8" -> 239 [] b = "utf-16le" -> 255 [] b = "utf-16be" -> 254
          /\ Len(m) \in 2 .. 3 /\ Len(n) \in 2 .. 3
      BY Zenon, MarkParts
    <2> HIDE DEF m, n
    <2> QED BY SMT, <2>1 DEF Encodings
  <1> HIDE DEF m, n
  <1>3. octets[1] = m[1] /\ octets[1] = n[1]
    <2>1. 1 \in 1 .. Len(m) /\ 1 \in 1 .. Len(n)
      BY <1>2
    <2> QED BY <1>1, <2>1 DEF StartsWith
  <1> QED BY <1>2, <1>3

(* The encoding that octets are in, and the mark in front of them.          *)
Fits(octets, order) ==
  \/ Begins(octets, Marks[order])
  \/ order = "utf-8" /\ \A other \in Encodings : ~Begins(octets, Marks[other])
MarkOf(octets, order) == IF Begins(octets, Marks[order]) THEN Marks[order] ELSE <<>>

(* All texts that octets stand for.                                         *)
TextsOf(octets) == {text \in Seq(Permitted) : StandsFor(octets, text)}

(* A text of permitted codes can be encoded.                                *)
LEMMA PermittedTexts == Seq(Permitted) \subseteq Seq(Valid)
  <1>1. Permitted \subseteq Valid
    BY PermittedCodes
  <1> QED BY <1>1, SeqMonotonic

(* The mark in front is octets.                                             *)
LEMMA MarkOfParts ==
  ASSUME NEW octets, NEW order \in Encodings
  PROVE  MarkOf(octets, order) \in Seq(Octet)
  <1>1. <<>> \in Seq(Octet) /\ Marks[order] \in Seq(Octet)
    BY MarkParts, EmptySeq
  <1> QED BY <1>1 DEF MarkOf

(* In the encoding that fits, octets stand for a text exactly when they are *)
(* the mark and the text.                                                   *)
LEMMA StandsForMarked ==
  ASSUME NEW octets \in Seq(Octet), NEW order \in Encodings, Fits(octets, order),
         NEW text \in Seq(Valid)
  PROVE  StandsFor(octets, text) <=> octets = MarkOf(octets, order) \o EncodedText(text, order)
  <1>1. \A o \in Encodings : EncodedText(text, o) \in Seq(Octet)
    BY EmptySeq, TextConcat
  <1>2. ASSUME StandsFor(octets, text)
        PROVE  octets = MarkOf(octets, order) \o EncodedText(text, order)
    <2>1. CASE \E other \in DOMAIN Marks : octets = Marks[other] \o EncodedText(text, other)
      <3>1. PICK other \in Encodings : octets = Marks[other] \o EncodedText(text, other)
        BY <2>1, MarkParts
      <3>2. Begins(octets, Marks[other])
        <4>1. StartsWith(octets, Marks[other])
          BY <1>1, <3>1, MarkParts, PutOn
        <4> QED BY <4>1, BeginsIsStartsWith
      <3>3. Begins(octets, Marks[order]) /\ order = other
        <4>1. Begins(octets, Marks[order])
          BY <3>2 DEF Fits
        <4> QED BY <3>2, <4>1, OneMark
      <3> QED BY <3>1, <3>3 DEF MarkOf
    <2>2. CASE /\ \A other \in DOMAIN Marks : ~Begins(octets, Marks[other])
               /\ octets = EncodedText(text, "utf-8")
      <3>1. ~Begins(octets, Marks[order])
        BY <2>2, MarkParts
      <3>2. order = "utf-8" /\ MarkOf(octets, order) = <<>>
        BY <3>1 DEF Fits, MarkOf
      <3> QED BY <2>2, <3>2, ConcatEmptySeq
    <2> QED BY <1>2, <2>1, <2>2 DEF StandsFor
  <1>3. ASSUME octets = MarkOf(octets, order) \o EncodedText(text, order)
        PROVE  StandsFor(octets, text)
    <2>1. CASE Begins(octets, Marks[order])
      BY <1>3, <2>1, MarkParts DEF MarkOf, StandsFor
    <2>2. CASE ~Begins(octets, Marks[order])
      <3>1. order = "utf-8" /\ (\A other \in Encodings : ~Begins(octets, Marks[other]))
        BY <2>2 DEF Fits
      <3>2. octets = EncodedText(text, "utf-8")
        BY <1>1, <1>3, <2>2, <3>1, ConcatEmptySeq DEF MarkOf
      <3> QED BY <3>1, <3>2, MarkParts DEF StandsFor
    <2> QED BY <2>1, <2>2
  <1> QED BY <1>2, <1>3

(* What has been read of the octets: a text, and what is left.              *)
HasRead(octets, order, text, rest) ==
  octets = (MarkOf(octets, order) \o EncodedText(text, order)) \o rest

(* What octets stand for begins with what has been read of them, and the    *)
(* octets left stand for the rest of it.                                    *)
LEMMA TextsBeginAlike ==
  ASSUME NEW octets \in Seq(Octet), NEW order \in Encodings, Fits(octets, order),
         NEW text \in Seq(Permitted), NEW rest \in Seq(Octet), HasRead(octets, order, text, rest),
         NEW whole \in TextsOf(octets)
  PROVE  \E u \in Seq(Valid) : whole = text \o u /\ rest = EncodedText(u, order)
  <1> DEFINE m == MarkOf(octets, order)
             a == EncodedText(text, order)
             b == EncodedText(whole, order)
  <1>1. whole \in Seq(Valid) /\ text \in Seq(Valid) /\ StandsFor(octets, whole)
    BY PermittedTexts DEF TextsOf
  <1>2. octets = m \o b /\ octets = (m \o a) \o rest
    BY <1>1, StandsForMarked DEF HasRead
  <1>3. m \in Seq(Octet) /\ a \in Seq(Octet) /\ b \in Seq(Octet)
    BY <1>1, MarkOfParts, TextConcat
  <1>e. a = EncodedText(text, order) /\ b = EncodedText(whole, order)
    OBVIOUS
  <1> HIDE DEF m, a, b
  <1>4. (m \o a) \o rest = m \o (a \o rest) /\ a \o rest \in Seq(Octet)
    BY <1>3, ConcatAssociative, ConcatProperties
  <1>5. a \o rest = b
    <2>1. \A p, q \in Seq(Octet) : m \o p = m \o q => p = q
      BY <1>3, ConcatSimplifications
    <2> QED BY <1>2, <1>3, <1>4, <2>1
  <1>6. GoesOn(order, text)
    BY <1>1, EveryTextGoesOn
  <1>7. EncodedText(text, order) \o rest = EncodedText(whole, order)
    BY <1>5, <1>e
  <1> QED BY <1>1, <1>6, <1>7 DEF GoesOn

(* Octets that go on with no permitted character stand for no text.         *)
IsBad(found, isLast) ==
  \/ found = Malformed
  \/ found = Missing /\ isLast
  \/ found.width > 0 /\ ~IsPermitted(found.code)

(* When the octets that are left begin with no permitted character, all     *)
(* octets together stand for no text.                                       *)
LEMMA BadMeansNoText ==
  ASSUME NEW octets \in Seq(Octet), NEW order \in Encodings, Fits(octets, order),
         NEW text \in Seq(Permitted), NEW s \in Seq(Octet), NEW r \in Seq(Octet),
         HasRead(octets, order, text, s \o r), s # <<>>,
         NEW isLast \in BOOLEAN, isLast => r = <<>>,
         IsBad(HeadOf(s, order), isLast)
  PROVE  TextsOf(octets) = {}
  <1> SUFFICES ASSUME NEW whole \in TextsOf(octets) PROVE FALSE
    OBVIOUS
  <1> DEFINE rest == s \o r
  <1>1. rest \in Seq(Octet) /\ StartsWith(rest, s) /\ rest # <<>> /\ (r = <<>> => rest = s)
    <2>1. rest \in Seq(Octet) /\ StartsWith(rest, s)
      BY PutOn
    <2>2. rest # <<>> /\ (r = <<>> => rest = s)
      BY ConcatEqualIffEmpty, ConcatEmptySeq
    <2> QED BY <2>1, <2>2
  <1>h. HasRead(octets, order, text, rest)
    OBVIOUS
  <1> HIDE DEF rest
  <1>2. PICK u \in Seq(Valid) : whole = text \o u /\ rest = EncodedText(u, order)
    BY <1>1, <1>h, TextsBeginAlike
  <1>3. u # <<>>
    BY <1>1, <1>2, NoText
  <1>4. PICK d \in Valid : u[1] = d /\ HeadOf(rest, order) = Found(Len(Encoded(d, order)), d)
    BY <1>2, <1>3, TextBegins
  <1>5. d \in Permitted
    <2>1. whole \in Seq(Permitted) /\ text \in Seq(Permitted)
      BY DEF TextsOf
    <2>2. Len(u) \in Nat /\ Len(u) >= 1 /\ Len(text) \in Nat
      BY <1>3, EmptySeq
    <2>3. text \in Seq(Valid)
      BY PermittedTexts
    <2>4. Len(whole) = Len(text) + Len(u) /\ whole[Len(text) + 1] = u[1]
      <3>1. /\ Len(text \o u) = Len(text) + Len(u)
            /\ \A i \in 1 .. Len(text) + Len(u) :
                  (text \o u)[i] = IF i <= Len(text) THEN text[i] ELSE u[i - Len(text)]
        BY <2>3, ConcatProperties
      <3>2. /\ Len(text) + 1 \in 1 .. Len(text) + Len(u) /\ ~(Len(text) + 1 <= Len(text))
            /\ (Len(text) + 1) - Len(text) = 1
        BY <2>2
      <3> QED BY <1>2, <3>1, <3>2
    <2>5. Len(text) + 1 \in 1 .. Len(whole)
      BY <2>2, <2>4
    <2>6. whole[Len(text) + 1] \in Permitted
      BY <2>1, <2>5, ElementOfSeq
    <2> QED BY <1>4, <2>4, <2>6
  <1>6. Len(Encoded(d, order)) \in 1 .. 4
    BY EncodedParts
  <1>7. /\ Found(Len(Encoded(d, order)), d) # Malformed /\ Found(Len(Encoded(d, order)), d) # Missing
        /\ \A w, x : Found(w, x).code = x
    <2>1. \A w, x : Found(w, x).width = w /\ Found(w, x).code = x
      BY DEF Found
    <2>2. Malformed.width = -1 /\ Missing.width = 0
      BY <2>1 DEF Malformed, Missing
    <2>3. Len(Encoded(d, order)) # -1 /\ Len(Encoded(d, order)) # 0
      <3>1. \A n \in 1 .. 4 : n # -1 /\ n # 0
        OBVIOUS
      <3> QED BY <1>6, <3>1
    <2> QED BY <2>1, <2>2, <2>3
  <1>8. CASE HeadOf(s, order) = Malformed
    BY <1>1, <1>4, <1>7, <1>8, StaysMalformed
  <1>9. CASE HeadOf(s, order) = Missing
    <2>1. ~(Missing.width > 0) /\ Missing # Malformed
      BY DEF Missing, Malformed, Found
    <2>2. rest = s
      BY <1>1, <1>9, <2>1 DEF IsBad
    <2> QED BY <1>4, <1>7, <1>9, <2>2
  <1>10. CASE HeadIsCode(s, order) /\ HeadOf(s, order) # Missing /\ HeadOf(s, order) # Malformed
    <2>1. PICK c \in Valid : /\ HeadOf(s, order) = Found(Len(Encoded(c, order)), c)
                             /\ StartsWith(s, Encoded(c, order))
      BY <1>10 DEF HeadIsCode
    <2>2. ~IsPermitted(c)
      <3>1. ~IsPermitted(HeadOf(s, order).code)
        BY <1>10 DEF IsBad
      <3> QED BY <1>7, <2>1, <3>1
    <2>3. StartsWith(rest, Encoded(c, order))
      BY <1>1, <2>1, EncodedParts DEF StartsWith
    <2>4. HeadOf(rest, order) = Found(Len(Encoded(c, order)), c)
      BY <1>1, <2>3, HeadOfCode
    <2>5. c = d
      <3>1. Found(Len(Encoded(c, order)), c).code = Found(Len(Encoded(d, order)), d).code
        BY <1>4, <2>4
      <3> QED BY <1>7, <3>1
    <2> QED BY <1>5, <2>2, <2>5 DEF Permitted
  <1> QED BY <1>8, <1>9, <1>10, HeadCases

-----------------------------------------------------------------------------
(* The calls.                                                               *)
ReaderTypeOK ==
  /\ source \in Seq(Octet) /\ raw \in Seq(Octet)
  /\ wholly \in BOOLEAN /\ eof \in BOOLEAN
  /\ encoding \in Encodings \cup {"any"}
  /\ buffer \in Seq(Valid) /\ delivered \in Seq(Valid)
  /\ wanted \in Nat
  /\ at \in {"idle", "encoding", "fill", "decode"}
  /\ broken \in {"none", "input", "reader"}

(* Where a call can be, and with what.                                      *)
CallInv ==
  /\ ReaderTypeOK
  /\ eof => source = <<>>
  /\ broken # "none" => at = "idle"
  /\ at = "encoding" => encoding = "any"
  /\ at \in {"fill", "decode"} => encoding \in Encodings
  /\ Len(raw) <= RawSize

(* What the handler delivers is not lost, and nothing is the end.           *)
LEMMA FillRawParts ==
  ASSUME CallInv, FillRaw
  PROVE  /\ source' \in Seq(Octet) /\ raw' \in Seq(Octet) /\ eof' \in BOOLEAN
         /\ eof' => source' = <<>>
         /\ Len(raw') <= RawSize
         /\ raw' \o source' = raw \o source
  <1>0. /\ source \in Seq(Octet) /\ raw \in Seq(Octet) /\ eof \in BOOLEAN /\ wholly \in BOOLEAN
        /\ (eof => source = <<>>) /\ Len(raw) <= RawSize
        /\ RawSize \in Nat /\ Len(raw) \in Nat /\ Len(source) \in Nat
    BY ReaderAssumption DEF CallInv, ReaderTypeOK
  <1>1. CASE (eof \/ Len(raw) = RawSize) /\ UNCHANGED <<source, raw, eof>>
    BY <1>0, <1>1
  <1>2. CASE \E n \in Delivery : Deliver(n)
    <2>1. PICK n \in Delivery : Deliver(n)
      BY <1>2
    <2>2. /\ Len(raw) < RawSize /\ n <= RawSize - Len(raw)
          /\ raw' = raw \o SubSeq(source, 1, n) /\ source' = Drop(source, n) /\ eof' = (n = 0)
      BY <2>1 DEF Deliver
    <2>3. n \in Nat /\ n <= Len(source) /\ (n = 0 => source = <<>>)
      <3>1. CASE source = <<>>
        BY <2>1, <3>1 DEF Delivery
      <3>2. CASE source # <<>> /\ wholly
        <4>1. Len(source) # 0
          BY <1>0, <3>2
        <4>2. n = IF Len(source) < RawSize - Len(raw) THEN Len(source) ELSE RawSize - Len(raw)
          BY <2>1, <3>2 DEF Delivery
        <4> QED BY <1>0, <2>2, <4>1, <4>2
      <3>3. CASE source # <<>> /\ ~wholly
        <4>1. n \in 1 .. Len(source)
          BY <2>1, <3>3 DEF Delivery
        <4> QED BY <1>0, <4>1
      <3> QED BY <3>1, <3>2, <3>3
    <2> DEFINE a == SubSeq(source, 1, n)
               b == SubSeq(source, n + 1, Len(source))
    <2>4. a \in Seq(Octet) /\ Len(a) = n /\ b \in Seq(Octet) /\ Len(b) = Len(source) - n
      BY <1>0, <2>3
    <2>5. a \o b = source
      <3>1. 1 \in 1 .. Len(source) + 1 /\ n \in 1 - 1 .. Len(source) /\ Len(source) \in n .. Len(source)
        BY <1>0, <2>3
      <3>2. a \o b = SubSeq(source, 1, Len(source))
        BY <1>0, <3>1, ConcatAdjacentSubSeq
      <3> QED BY <1>0, <3>2, SubSeqFull
    <2>6. source' = b /\ raw' = raw \o a
      BY <2>2 DEF Drop
    <2> HIDE DEF a, b
    <2>7. raw' \in Seq(Octet) /\ Len(raw') = Len(raw) + n
      BY <1>0, <2>4, <2>6, ConcatProperties
    <2>8. (raw \o a) \o b = raw \o (a \o b)
      <3>1. raw \in Seq(Octet) /\ a \in Seq(Octet) /\ b \in Seq(Octet)
        BY <1>0, <2>4
      <3> QED BY <3>1, ConcatAssociative
    <2>9. eof' => source' = <<>>
      <3>1. source = <<>> => Len(source) = 0
        OBVIOUS
      <3>2. n = 0 => Len(b) = 0
        BY <2>3, <2>4, <3>1
      <3>3. b \in Seq(Octet)
        BY <2>4
      <3>4. n = 0 => b = <<>>
        BY <3>2, <3>3, EmptySeq
      <3> QED BY <2>2, <2>6, <3>4
    <2>10. Len(raw') <= RawSize
      BY <1>0, <2>2, <2>3, <2>7
    <2> QED BY <2>2, <2>4, <2>5, <2>6, <2>7, <2>8, <2>9, <2>10
  <1> QED BY <1>1, <1>2 DEF FillRaw

(* Which encoding the octets are taken for, and the mark in front of them.  *)
LEMMA DetermineEncodingParts ==
  ASSUME CallInv, DetermineEncoding
  PROVE  /\ encoding' \in Encodings /\ raw' \in Seq(Octet) /\ Len(raw') <= RawSize
         /\ Fits(raw \o source, encoding')
         /\ raw \o source = MarkOf(raw \o source, encoding') \o (raw' \o source)
  <1> DEFINE O == raw \o source
  <1>0. /\ source \in Seq(Octet) /\ raw \in Seq(Octet) /\ Len(raw) <= RawSize
        /\ RawSize \in Nat /\ Len(raw) \in Nat
        /\ (eof \/ Len(raw) >= 3) /\ (eof => source = <<>>)
    BY ReaderAssumption DEF CallInv, ReaderTypeOK, DetermineEncoding
  <1>1. O \in Seq(Octet) /\ StartsWith(O, raw) /\ (source = <<>> => O = raw)
    BY <1>0, PutOn, ConcatEmptySeq
  <1>o. O = raw \o source
    OBVIOUS
  <1> HIDE DEF O
  <1>2. \A order \in Encodings : Begins(raw, Marks[order]) <=> Begins(O, Marks[order])
    <2>1. CASE source = <<>>
      BY <1>1, <2>1
    <2>2. CASE Len(raw) >= 3
      <3> SUFFICES ASSUME NEW order \in Encodings
                   PROVE  StartsWith(raw, Marks[order]) <=> StartsWith(O, Marks[order])
        BY <1>0, <1>1, BeginsIsStartsWith
      <3> DEFINE m == Marks[order]
      <3>1. Len(m) \in 2 .. 3
        BY MarkParts
      <3> HIDE DEF m
      <3>2. Len(O) \in Nat /\ Len(O) >= Len(raw) /\ \A i \in 1 .. Len(raw) : O[i] = raw[i]
        BY <1>1 DEF StartsWith
      <3>3. Len(raw) >= Len(m) /\ Len(O) >= Len(m) /\ \A i \in 1 .. Len(m) : O[i] = raw[i]
        <4>1. Len(raw) >= Len(m) /\ Len(O) >= Len(m)
          <5>1. Len(raw) \in Nat /\ Len(raw) >= 3 /\ Len(O) \in Nat /\ Len(O) >= Len(raw)
            BY <1>0, <2>2, <3>2
          <5>2. \A k \in 2 .. 3, a, b \in Nat : a >= 3 /\ b >= a => a >= k /\ b >= k
            OBVIOUS
          <5> QED BY <3>1, <5>1, <5>2
        <4>2. \A i \in 1 .. Len(m) : i \in 1 .. Len(raw)
          BY <1>0, <3>1, <4>1
        <4> QED BY <3>2, <4>1, <4>2
      <3>4. StartsWith(raw, m) <=> StartsWith(O, m)
        BY <3>3 DEF StartsWith
      <3> QED BY <3>4 DEF m
    <2> QED BY <1>0, <2>1, <2>2
  <1> DEFINE marked == {order \in DOMAIN Marks : Begins(raw, Marks[order])}
  <1>3. CASE marked = {}
    <2>1. encoding' = "utf-8" /\ raw' = raw
      BY <1>3 DEF DetermineEncoding
    <2>2. "utf-8" \in Encodings /\ \A order \in Encodings : ~Begins(O, Marks[order])
      BY <1>2, <1>3, MarkParts DEF Encodings
    <2>3. MarkOf(O, encoding') = <<>> /\ Fits(O, encoding')
      BY <2>1, <2>2 DEF MarkOf, Fits
    <2>4. <<>> \o O = O
      BY <1>1, ConcatEmptySeq
    <2> QED BY <1>0, <1>o, <2>1, <2>2, <2>3, <2>4
  <1>4. CASE marked # {}
    <2>1. PICK order \in marked : encoding' = order /\ raw' = Drop(raw, Len(Marks[order]))
      BY <1>4 DEF DetermineEncoding
    <2>2. order \in Encodings /\ Begins(raw, Marks[order])
      BY <2>1, MarkParts
    <2>3. Begins(O, Marks[order]) /\ StartsWith(raw, Marks[order])
      BY <1>0, <1>2, <2>2, BeginsIsStartsWith
    <2>4. MarkOf(O, order) = Marks[order] /\ Fits(O, order)
      BY <2>3 DEF MarkOf, Fits
    <2> DEFINE m == Marks[order]
    <2>5. m \in Seq(Octet) /\ Len(m) \in Nat
      BY <2>2, MarkParts
    <2> HIDE DEF m
    <2>6. Drop(raw, Len(m)) \in Seq(Octet) /\ raw = m \o Drop(raw, Len(m))
      BY <1>0, <2>3, <2>5, TakeOff DEF m
    <2>7. raw' \in Seq(Octet) /\ raw = m \o raw'
      BY <2>1, <2>6 DEF m
    <2>8. Len(raw') <= RawSize
      <3>1. Len(raw) = Len(m) + Len(raw') /\ Len(raw') \in Nat
        BY <2>5, <2>7, ConcatProperties
      <3> QED BY <1>0, <2>5, <3>1
    <2>9. (m \o raw') \o source = m \o (raw' \o source)
      BY <1>0, <2>5, <2>7, ConcatAssociative
    <2> QED BY <1>o, <2>1, <2>2, <2>4, <2>7, <2>8, <2>9 DEF m
  <1> QED BY <1>3, <1>4 DEF O

(* The character that is taken off.                                         *)
LEMMA FoundParts ==
  ASSUME NEW order \in Encodings, NEW s \in Seq(Octet), s # <<>>, NEW isLast \in BOOLEAN,
         ~IsBad(HeadOf(s, order), isLast), HeadOf(s, order) # Missing
  PROVE  \E c \in Permitted :
            /\ HeadOf(s, order).code = c
            /\ HeadOf(s, order).width = Len(Encoded(c, order))
            /\ Drop(s, Len(Encoded(c, order))) \in Seq(Octet)
            /\ s = Encoded(c, order) \o Drop(s, Len(Encoded(c, order)))
  <1>1. HeadIsCode(s, order)
    BY HeadCases DEF IsBad
  <1>2. PICK c \in Valid : /\ HeadOf(s, order) = Found(Len(Encoded(c, order)), c)
                           /\ StartsWith(s, Encoded(c, order))
    BY <1>1 DEF HeadIsCode
  <1>3. HeadOf(s, order).code = c /\ HeadOf(s, order).width = Len(Encoded(c, order))
    <2>1. \A w, x : Found(w, x).code = x /\ Found(w, x).width = w
      BY DEF Found
    <2> QED BY <1>2, <2>1
  <1>4. Encoded(c, order) \in Seq(Octet) /\ Len(Encoded(c, order)) > 0
    <2>1. \A n \in 1 .. 4 : n > 0
      OBVIOUS
    <2> QED BY <2>1, EncodedParts
  <1>5. IsPermitted(c)
    BY <1>3, <1>4 DEF IsBad
  <1>6. c \in Permitted
    BY <1>5 DEF Permitted, Valid
  <1>7. /\ Drop(s, Len(Encoded(c, order))) \in Seq(Octet)
        /\ s = Encoded(c, order) \o Drop(s, Len(Encoded(c, order)))
    BY <1>2, <1>4, TakeOff
  <1> QED BY <1>3, <1>6, <1>7

(* The ways DecodeCharacter can go.                                         *)
Refuses ==
  /\ IsBad(HeadOf(raw, encoding), eof)
  /\ broken' = "reader" /\ at' = "idle"
  /\ UNCHANGED <<raw, buffer, delivered>>
Takes(c) ==
  /\ raw' \in Seq(Octet) /\ raw = Encoded(c, encoding) \o raw'
  /\ Store(c)
  /\ UNCHANGED <<at, broken>>
Waits ==
  /\ ~eof
  /\ at' = IF Len(buffer) < wanted THEN "fill" ELSE "idle"
  /\ UNCHANGED <<raw, buffer, delivered, broken>>

(* One character of a call: it is refused, taken off and stored, or waited  *)
(* for.                                                                     *)
LEMMA DecodeCharacterParts ==
  ASSUME CallInv, DecodeCharacter
  PROVE  /\ at = "decode" /\ raw # <<>> /\ encoding \in Encodings /\ broken = "none"
         /\ Refuses \/ (\E c \in Permitted : Takes(c)) \/ Waits
         /\ UNCHANGED <<source, wholly, eof, encoding, wanted>>
  <1> DEFINE found == HeadOf(raw, encoding)
  <1>1. /\ at = "decode" /\ raw # <<>> /\ UNCHANGED <<source, wholly, eof, encoding, wanted>>
        /\ \/ /\ IsBad(found, eof)
              /\ broken' = "reader" /\ at' = "idle"
              /\ UNCHANGED <<raw, buffer, delivered>>
           \/ /\ ~IsBad(found, eof) /\ found # Missing
              /\ raw' = Drop(raw, found.width)
              /\ Store(found.code)
              /\ UNCHANGED <<at, broken>>
           \/ /\ ~IsBad(found, eof) /\ found = Missing
              /\ at' = IF Len(buffer) < wanted THEN "fill" ELSE "idle"
              /\ UNCHANGED <<raw, buffer, delivered, broken>>
    BY Zenon DEF DecodeCharacter, IsBad
  <1>2. encoding \in Encodings /\ broken = "none" /\ raw \in Seq(Octet) /\ eof \in BOOLEAN
    BY <1>1 DEF CallInv, ReaderTypeOK
  <1> HIDE DEF found
  <1>3. CASE /\ ~IsBad(found, eof) /\ found # Missing
             /\ raw' = Drop(raw, found.width)
             /\ Store(found.code)
             /\ UNCHANGED <<at, broken>>
    <2>1. PICK c \in Permitted :
            /\ found.code = c /\ found.width = Len(Encoded(c, encoding))
            /\ Drop(raw, Len(Encoded(c, encoding))) \in Seq(Octet)
            /\ raw = Encoded(c, encoding) \o Drop(raw, Len(Encoded(c, encoding)))
      BY <1>1, <1>2, <1>3, FoundParts DEF found
    <2>2. raw' = Drop(raw, Len(Encoded(c, encoding))) /\ Store(c) /\ UNCHANGED <<at, broken>>
      BY <1>3, <2>1
    <2>3. Takes(c)
      BY <2>1, <2>2 DEF Takes
    <2> QED BY <1>1, <1>2, <2>3
  <1>4. CASE /\ ~IsBad(found, eof) /\ found = Missing
             /\ at' = IF Len(buffer) < wanted THEN "fill" ELSE "idle"
             /\ UNCHANGED <<raw, buffer, delivered, broken>>
    <2>1. ~eof
      BY <1>4 DEF IsBad
    <2> QED BY <1>1, <1>2, <1>4, <2>1 DEF Waits
  <1>5. CASE /\ IsBad(found, eof)
             /\ broken' = "reader" /\ at' = "idle"
             /\ UNCHANGED <<raw, buffer, delivered>>
    BY <1>1, <1>2, <1>5 DEF Refuses, found
  <1> QED BY <1>1, <1>3, <1>4, <1>5

(* The scanner asks for more than the buffer holds, and the call begins at  *)
(* the encoding, at the handler or at the characters (reader.c:148-188).    *)
LEMMA AskParts ==
  ASSUME CallInv, NEW length \in Nat, NEW left \in 0 .. length - 1, Ask(length, left)
  PROVE  /\ ReaderIdle /\ ~(eof /\ raw = <<>>)
         /\ buffer' \in Seq(Valid) /\ Len(buffer') = left /\ wanted' = length
         /\ at' = IF encoding = "any" THEN "encoding" ELSE IF raw = <<>> THEN "fill" ELSE "decode"
         /\ UNCHANGED <<source, wholly, raw, eof, encoding, delivered, broken>>
  <1>1. /\ ReaderIdle /\ ~(eof /\ raw = <<>>) /\ left <= Len(buffer) /\ wanted' = length
        /\ buffer' = SubSeq(buffer, Len(buffer) - left + 1, Len(buffer))
        /\ at' = IF encoding = "any" THEN "encoding" ELSE IF raw = <<>> THEN "fill" ELSE "decode"
        /\ UNCHANGED <<source, wholly, raw, eof, encoding, delivered, broken>>
    BY DEF Ask, Drop
  <1>2. buffer \in Seq(Valid) /\ Len(buffer) \in Nat /\ left \in Nat
    BY DEF CallInv, ReaderTypeOK
  <1> DEFINE m == Len(buffer) - left + 1
  <1>3. m \in Int /\ m >= 1 /\ Len(buffer) - m + 1 = left /\ (m <= Len(buffer) <=> left # 0)
    BY <1>1, <1>2
  <1>4. \A i \in m .. Len(buffer) : buffer[i] \in Valid
    BY <1>2, <1>3
  <1> HIDE DEF m
  <1>5. /\ SubSeq(buffer, m, Len(buffer)) \in Seq(Valid)
        /\ Len(SubSeq(buffer, m, Len(buffer))) = IF m <= Len(buffer) THEN Len(buffer) - m + 1 ELSE 0
    <2>1. Len(buffer) \in Int
      BY <1>2
    <2> QED BY <1>3, <1>4, <2>1, SubSeqProperties
  <1> QED BY <1>1, <1>3, <1>5 DEF m

(* NUL can be encoded, though it may not stand in a document.               *)
LEMMA NulIsValid == 0 \in Valid
  BY SMT DEF Valid, ValidCode, Between

(* Storing a character keeps the types.                                     *)
LEMMA StoreParts ==
  ASSUME CallInv, NEW c \in Valid, Store(c)
  PROVE  buffer' \in Seq(Valid) /\ delivered' \in Seq(Valid)
  BY AppendProperties DEF CallInv, ReaderTypeOK, Store

(* Taking a character makes the raw buffer shorter.                         *)
LEMMA TakesParts ==
  ASSUME CallInv, encoding \in Encodings, NEW c \in Permitted, Takes(c)
  PROVE  /\ c \in Valid /\ Encoded(c, encoding) \in Seq(Octet)
         /\ Len(raw) = Len(Encoded(c, encoding)) + Len(raw')
         /\ Len(raw') \in Nat /\ Len(raw') <= Len(raw)
  <1>1. c \in Valid
    BY PermittedCodes
  <1>2. Encoded(c, encoding) \in Seq(Octet) /\ Len(Encoded(c, encoding)) \in Nat
    BY <1>1, EncodedParts
  <1> DEFINE e == Encoded(c, encoding)
  <1>3. raw' \in Seq(Octet) /\ raw = e \o raw'
    BY DEF Takes
  <1> HIDE DEF e
  <1>4. e \in Seq(Octet) /\ Len(e) \in Nat /\ Len(raw') \in Nat
    BY <1>2, <1>3 DEF e
  <1>5. Len(raw) = Len(e) + Len(raw')
    BY <1>3, <1>4, ConcatProperties
  <1> QED BY <1>1, <1>2, <1>4, <1>5 DEF e

(* The control of a call, and the types.                                    *)
LEMMA CallInvStep ==
  ASSUME CallInv, NEW lengths \in SUBSET Nat, [ReaderNext(lengths)]_readerVars
  PROVE  CallInv'
  <1> USE DEF CallInv, ReaderTypeOK
  <1>0. RawSize \in Nat /\ Len(raw) \in Nat
    BY ReaderAssumption
  <1>1. CASE Look(lengths)
    <2>0. PICK length \in Nat : \E left \in 0 .. length - 1 : Ask(length, left)
      BY <1>1 DEF Look
    <2>1. PICK left \in 0 .. length - 1 : Ask(length, left)
      BY <2>0
    <2>2. /\ buffer' \in Seq(Valid) /\ wanted' = length /\ ReaderIdle
          /\ at' = IF encoding = "any" THEN "encoding" ELSE IF raw = <<>> THEN "fill" ELSE "decode"
          /\ UNCHANGED <<source, wholly, raw, eof, encoding, delivered, broken>>
      BY <2>1, AskParts
    <2> QED BY <2>2 DEF ReaderIdle, Encodings
  <1>2. CASE ReadFails
    BY <1>2 DEF ReadFails
  <1>3. CASE FillForEncoding
    <2>1. FillRaw /\ UNCHANGED <<wholly, encoding, buffer, delivered, wanted, at, broken>>
      BY <1>3 DEF FillForEncoding
    <2>2. /\ source' \in Seq(Octet) /\ raw' \in Seq(Octet) /\ eof' \in BOOLEAN
          /\ eof' => source' = <<>>
          /\ Len(raw') <= RawSize
      BY <2>1, FillRawParts
    <2> QED BY <2>1, <2>2
  <1>4. CASE DetermineEncoding
    <2>1. encoding' \in Encodings /\ raw' \in Seq(Octet) /\ Len(raw') <= RawSize
      BY <1>4, DetermineEncodingParts
    <2>2. /\ at = "encoding" /\ at' \in {"fill", "decode"}
          /\ UNCHANGED <<source, wholly, eof, buffer, delivered, wanted, broken>>
      BY <1>4 DEF DetermineEncoding
    <2> QED BY <2>1, <2>2
  <1>5. CASE Fill
    <2>1. /\ at = "fill" /\ at' = "decode" /\ FillRaw
          /\ UNCHANGED <<wholly, encoding, buffer, delivered, wanted, broken>>
      BY <1>5 DEF Fill
    <2>2. /\ source' \in Seq(Octet) /\ raw' \in Seq(Octet) /\ eof' \in BOOLEAN
          /\ eof' => source' = <<>>
          /\ Len(raw') <= RawSize
      BY <2>1, FillRawParts
    <2> QED BY <2>1, <2>2
  <1>6. CASE DecodeCharacter
    <2>1. /\ at = "decode" /\ encoding \in Encodings /\ broken = "none"
          /\ Refuses \/ (\E c \in Permitted : Takes(c)) \/ Waits
          /\ UNCHANGED <<source, wholly, eof, encoding, wanted>>
      BY <1>6, DecodeCharacterParts
    <2>2. CASE Refuses
      BY <2>1, <2>2 DEF Refuses
    <2>3. CASE \E c \in Permitted : Takes(c)
      <3>1. PICK c \in Permitted : Takes(c)
        BY <2>3
      <3>2. c \in Valid /\ Len(raw') \in Nat /\ Len(raw') <= Len(raw)
        BY <2>1, <3>1, TakesParts
      <3>3. raw' \in Seq(Octet) /\ Store(c) /\ UNCHANGED <<at, broken>>
        BY <3>1 DEF Takes
      <3>4. buffer' \in Seq(Valid) /\ delivered' \in Seq(Valid)
        BY <3>2, <3>3, StoreParts
      <3>5. Len(raw') <= RawSize
        BY <1>0, <3>2
      <3> QED BY <2>1, <3>3, <3>4, <3>5
    <2>4. CASE Waits
      BY <2>1, <2>4 DEF Waits
    <2> QED BY <2>1, <2>2, <2>3, <2>4
  <1>7. CASE FinishDecoding
    <2>1. /\ at = "decode" /\ (Store(0) \/ UNCHANGED <<buffer, delivered>>)
          /\ at' \in {"fill", "idle"}
          /\ UNCHANGED <<source, wholly, raw, eof, encoding, wanted, broken>>
      BY <1>7 DEF FinishDecoding
    <2>2. buffer' \in Seq(Valid) /\ delivered' \in Seq(Valid)
      BY <2>1, NulIsValid, StoreParts
    <2> QED BY <2>1, <2>2
  <1>8. CASE UNCHANGED readerVars
    BY <1>8 DEF readerVars
  <1> QED BY <1>1, <1>2, <1>3, <1>4, <1>5, <1>6, <1>7, <1>8 DEF ReaderNext, ReaderStep

-----------------------------------------------------------------------------
(* What was read is what the octets say.                                    *)
AsRead(octets) ==
  /\ Fits(octets, encoding)
  /\ \E text \in Seq(Permitted) :
        /\ HasRead(octets, encoding, text, raw \o source)
        /\ delivered = IF ReadWholly THEN Append(text, 0) ELSE text

(* The inductive invariant: while no encoding is settled nothing was        *)
(* delivered or lost; then the octets are the mark, the text delivered and  *)
(* what is left; and a reader that gave up was given no text.               *)
ReadInv(octets) ==
  /\ encoding = "any" => delivered = <<>> /\ raw \o source = octets /\ (eof => at = "encoding")
  /\ encoding # "any" => AsRead(octets)
  /\ broken = "reader" => TextsOf(octets) = {}

(* A step that only moves octets into the raw buffer.                       *)
LEMMA AsReadStays ==
  ASSUME NEW octets, AsRead(octets), encoding' = encoding, raw' \o source' = raw \o source,
         delivered' = delivered, ReadWholly' <=> ReadWholly
  PROVE  AsRead(octets)'
  BY DEF AsRead

(* One character keeps the invariant.                                       *)
LEMMA ReadInvDecodes ==
  ASSUME CallInv, NEW octets \in Seq(Octet), ReadInv(octets), DecodeCharacter
  PROVE  ReadInv(octets)'
  <1>1. /\ at = "decode" /\ raw # <<>> /\ encoding \in Encodings /\ broken = "none"
        /\ Refuses \/ (\E c \in Permitted : Takes(c)) \/ Waits
        /\ UNCHANGED <<source, wholly, eof, encoding, wanted>>
    BY DecodeCharacterParts
  <1>2. /\ raw \in Seq(Octet) /\ source \in Seq(Octet) /\ eof \in BOOLEAN
        /\ (eof => source = <<>>) /\ encoding # "any"
    BY <1>1 DEF CallInv, ReaderTypeOK, Encodings
  <1>3. PICK text \in Seq(Permitted) :
            /\ HasRead(octets, encoding, text, raw \o source)
            /\ delivered = text /\ ~ReadWholly
    BY <1>1, <1>2 DEF ReadInv, AsRead, ReadWholly, ReaderIdle
  <1>f. Fits(octets, encoding) /\ AsRead(octets)
    BY <1>2 DEF ReadInv, AsRead
  <1>4. CASE Refuses
    <2>1. TextsOf(octets) = {}
      <3>1. IsBad(HeadOf(raw, encoding), eof)
        BY <1>4 DEF Refuses
      <3> QED BY <1>1, <1>2, <1>3, <1>f, <3>1, BadMeansNoText
    <2>2. ~ReadWholly' /\ UNCHANGED <<raw, source, encoding, delivered>>
      BY <1>1, <1>4 DEF Refuses, ReadWholly, ReaderIdle
    <2>3. AsRead(octets)'
      BY <1>3, <1>f, <2>2, AsReadStays
    <2> QED BY <1>1, <1>2, <2>1, <2>3 DEF ReadInv
  <1>5. CASE Waits
    <2>1. ~ReadWholly' /\ UNCHANGED <<raw, source, encoding, delivered, broken>>
      BY <1>1, <1>5 DEF Waits, ReadWholly, ReaderIdle
    <2>2. AsRead(octets)'
      BY <1>3, <1>f, <2>1, AsReadStays
    <2> QED BY <1>1, <1>2, <2>1, <2>2 DEF ReadInv
  <1>6. CASE \E c \in Permitted : Takes(c)
    <2>1. PICK c \in Permitted : Takes(c)
      BY <1>6
    <2>2. /\ raw' \in Seq(Octet) /\ raw = Encoded(c, encoding) \o raw'
          /\ delivered' = Append(text, c) /\ UNCHANGED <<at, broken>>
      BY <1>3, <2>1 DEF Takes, Store
    <2>3. c \in Valid /\ text \in Seq(Valid)
      BY PermittedCodes, PermittedTexts
    <2> DEFINE m == MarkOf(octets, encoding)
               t == EncodedText(text, encoding)
               e == Encoded(c, encoding)
               r == raw'
               s == source
    <2>4. /\ m \in Seq(Octet) /\ t \in Seq(Octet) /\ e \in Seq(Octet) /\ r \in Seq(Octet)
          /\ s \in Seq(Octet) /\ raw = e \o r
      BY <1>1, <1>2, <2>2, <2>3, MarkOfParts, TextAppend, EncodedParts
    <2>5. octets = (m \o t) \o (raw \o s)
      BY <1>3 DEF HasRead
    <2>6. EncodedText(Append(text, c), encoding) = t \o e
      BY <1>1, <2>3, TextAppend
    <2>7. HasRead(octets, encoding, Append(text, c), r \o s)
      <3> HIDE DEF m, t, e, r, s
      <3>1. (e \o r) \o s = e \o (r \o s) /\ r \o s \in Seq(Octet)
        BY <2>4, ConcatAssociative, ConcatProperties
      <3>2. (m \o t) \o (e \o (r \o s)) = ((m \o t) \o e) \o (r \o s)
        <4> DEFINE n == m \o t
                   q == r \o s
        <4>1. n \in Seq(Octet) /\ q \in Seq(Octet) /\ e \in Seq(Octet)
          BY <2>4, ConcatProperties
        <4> HIDE DEF n, q
        <4>2. (n \o e) \o q = n \o (e \o q)
          BY <4>1, ConcatAssociative
        <4> QED BY <4>2 DEF n, q
      <3>3. (m \o t) \o e = m \o (t \o e)
        <4>1. m \in Seq(Octet) /\ t \in Seq(Octet) /\ e \in Seq(Octet)
          BY <2>4
        <4> QED BY <4>1, ConcatAssociative
      <3>4. octets = (m \o (t \o e)) \o (r \o s)
        BY <2>4, <2>5, <3>1, <3>2, <3>3
      <3> QED BY <2>6, <3>4 DEF HasRead, m
    <2>8. Append(text, c) \in Seq(Permitted) /\ ~ReadWholly'
      BY <1>1, <2>2, AppendProperties DEF ReadWholly, ReaderIdle
    <2>9. HasRead(octets, encoding', Append(text, c), raw' \o source') /\ Fits(octets, encoding')
      BY <1>1, <1>f, <2>7
    <2>10. AsRead(octets)'
      BY <2>2, <2>8, <2>9 DEF AsRead
    <2> QED BY <1>1, <1>2, <2>2, <2>10 DEF ReadInv
  <1> QED BY <1>1, <1>4, <1>5, <1>6

(* Every step keeps the invariant.                                          *)
LEMMA ReadInvStep ==
  ASSUME CallInv, NEW octets \in Seq(Octet), ReadInv(octets),
         NEW lengths \in SUBSET Nat, [ReaderNext(lengths)]_readerVars
  PROVE  ReadInv(octets)'
  <1>0. "any" \notin Encodings
    BY DEF Encodings
  <1>1. CASE Look(lengths)
    <2>0. PICK length \in Nat : \E left \in 0 .. length - 1 : Ask(length, left)
      BY <1>1 DEF Look
    <2>1. PICK left \in 0 .. length - 1 : Ask(length, left)
      BY <2>0
    <2>2. /\ ReaderIdle /\ ~(eof /\ raw = <<>>) /\ at' # "idle"
          /\ encoding = "any" => at' = "encoding"
          /\ UNCHANGED <<source, raw, eof, encoding, delivered, broken>>
      BY <2>1, AskParts
    <2>3. ~ReadWholly /\ ~ReadWholly'
      BY <2>2 DEF ReadWholly, ReaderIdle
    <2> QED BY <2>2, <2>3, AsReadStays DEF ReadInv
  <1>2. CASE ReadFails
    <2>1. /\ at # "idle" /\ ~eof /\ broken' = "input"
          /\ UNCHANGED <<source, raw, eof, encoding, delivered>>
      BY <1>2 DEF ReadFails
    <2>2. ~ReadWholly /\ ~ReadWholly'
      BY <2>1 DEF ReadWholly, ReaderIdle
    <2> QED BY <2>1, <2>2, AsReadStays DEF ReadInv
  <1>3. CASE FillForEncoding
    <2>1. /\ at = "encoding" /\ FillRaw
          /\ UNCHANGED <<wholly, encoding, buffer, delivered, wanted, at, broken>>
      BY <1>3 DEF FillForEncoding
    <2>2. encoding = "any"
      BY <2>1 DEF CallInv
    <2>3. raw' \o source' = raw \o source
      BY <2>1, FillRawParts
    <2> QED BY <2>1, <2>2, <2>3 DEF ReadInv
  <1>4. CASE DetermineEncoding
    <2>1. /\ at = "encoding" /\ at' \in {"fill", "decode"}
          /\ UNCHANGED <<source, wholly, eof, buffer, delivered, wanted, broken>>
      BY <1>4 DEF DetermineEncoding
    <2>2. encoding = "any" /\ delivered = <<>> /\ raw \o source = octets /\ source \in Seq(Octet)
      BY <2>1 DEF CallInv, ReaderTypeOK, ReadInv
    <2>3. /\ encoding' \in Encodings /\ raw' \in Seq(Octet)
          /\ Fits(octets, encoding')
          /\ octets = MarkOf(octets, encoding') \o (raw' \o source)
      BY <1>4, <2>2, DetermineEncodingParts
    <2>4. MarkOf(octets, encoding') \o EncodedText(<<>>, encoding') = MarkOf(octets, encoding')
      BY <2>3, MarkOfParts, NoText, ConcatEmptySeq
    <2>5. HasRead(octets, encoding', <<>>, raw' \o source')
      BY <2>1, <2>3, <2>4 DEF HasRead
    <2>6. <<>> \in Seq(Permitted) /\ ~ReadWholly' /\ delivered' = <<>>
      BY <2>1, <2>2 DEF ReadWholly, ReaderIdle
    <2>7. AsRead(octets)'
      BY <2>3, <2>5, <2>6 DEF AsRead
    <2> QED BY <1>0, <2>1, <2>3, <2>7 DEF ReadInv
  <1>5. CASE Fill
    <2>1. /\ at = "fill" /\ at' = "decode" /\ FillRaw
          /\ UNCHANGED <<wholly, encoding, buffer, delivered, wanted, broken>>
      BY <1>5 DEF Fill
    <2>2. encoding # "any"
      BY <1>0, <2>1 DEF CallInv
    <2>3. raw' \o source' = raw \o source
      BY <2>1, FillRawParts
    <2>4. ~ReadWholly /\ ~ReadWholly'
      BY <2>1 DEF ReadWholly, ReaderIdle
    <2> QED BY <2>1, <2>2, <2>3, <2>4, AsReadStays DEF ReadInv
  <1>6. CASE DecodeCharacter
    BY <1>6, ReadInvDecodes
  <1>7. CASE FinishDecoding
    <2>1. /\ at = "decode" /\ raw = <<>>
          /\ IF eof THEN Store(0) ELSE UNCHANGED <<buffer, delivered>>
          /\ at' = IF Len(buffer) < wanted /\ ~eof THEN "fill" ELSE "idle"
          /\ UNCHANGED <<source, wholly, raw, eof, encoding, wanted, broken>>
      BY <1>7 DEF FinishDecoding
    <2>2. encoding # "any" /\ broken = "none"
      BY <1>0, <2>1 DEF CallInv
    <2>3. ~ReadWholly /\ AsRead(octets)
      BY <2>1, <2>2 DEF ReadWholly, ReaderIdle, ReadInv
    <2>4. CASE eof
      <3>1. ReadWholly'
        BY <2>1, <2>2, <2>4 DEF ReadWholly, ReaderIdle
      <3>2. PICK text \in Seq(Permitted) : HasRead(octets, encoding, text, raw \o source) /\ delivered = text
        BY <2>3 DEF AsRead
      <3>3. delivered' = Append(text, 0)
        BY <2>1, <2>4, <3>2 DEF Store
      <3>4. HasRead(octets, encoding', text, raw' \o source') /\ Fits(octets, encoding')
        BY <2>1, <2>3, <3>2 DEF AsRead
      <3>5. AsRead(octets)'
        BY <3>1, <3>3, <3>4 DEF AsRead
      <3> QED BY <2>1, <2>2, <3>5 DEF ReadInv
    <2>5. CASE ~eof
      <3>1. ~ReadWholly'
        BY <2>1, <2>5 DEF ReadWholly
      <3> QED BY <2>1, <2>2, <2>3, <2>5, <3>1, AsReadStays DEF ReadInv
    <2> QED BY <2>4, <2>5
  <1>8. CASE UNCHANGED readerVars
    <2>1. ReadWholly' <=> ReadWholly
      BY <1>8 DEF readerVars, ReadWholly, ReaderIdle
    <2> QED BY <1>8, <2>1, AsReadStays DEF readerVars, ReadInv
  <1> QED BY <1>1, <1>2, <1>3, <1>4, <1>5, <1>6, <1>7, <1>8 DEF ReaderNext, ReaderStep

(* A new reader has it.                                                     *)
LEMMA ReadInvInit ==
  ASSUME NEW octets \in Seq(Octet), NEW whole \in BOOLEAN, ReaderAt(octets, whole)
  PROVE  CallInv /\ ReadInv(octets)
  <1>1. /\ source = octets /\ wholly = whole
        /\ raw = <<>> /\ eof = FALSE /\ encoding = "any"
        /\ buffer = <<>> /\ delivered = <<>> /\ wanted = 0
        /\ at = "idle" /\ broken = "none"
    BY DEF ReaderAt
  <1>2. RawSize \in Nat /\ Len(raw) = 0
    BY <1>1, ReaderAssumption, EmptySeq
  <1>3. CallInv
    <2>1. Len(raw) <= RawSize
      BY <1>2
    <2>2. /\ source \in Seq(Octet) /\ raw \in Seq(Octet) /\ wholly \in BOOLEAN /\ eof \in BOOLEAN
          /\ buffer \in Seq(Valid) /\ delivered \in Seq(Valid) /\ wanted \in Nat
      BY <1>1, EmptySeq
    <2>3. /\ encoding \in Encodings \cup {"any"}
          /\ at \in {"idle", "encoding", "fill", "decode"} /\ broken \in {"none", "input", "reader"}
          /\ ~eof /\ broken = "none" /\ at = "idle"
      BY <1>1
    <2> QED BY <2>1, <2>2, <2>3 DEF CallInv, ReaderTypeOK
  <1>4. raw \o source = octets
    BY <1>1, ConcatEmptySeq
  <1> QED BY <1>1, <1>3, <1>4 DEF ReadInv

(* The invariant says what the reader promises.                             *)
LEMMA ReadInvIsExact ==
  ASSUME CallInv, NEW octets \in Seq(Octet), ReadInv(octets)
  PROVE  ReadsExactly(TextsOf(octets))
  <1>1. ASSUME ReadWholly
        PROVE  \E text \in TextsOf(octets) : TextsOf(octets) = {text} /\ delivered = Append(text, 0)
    <2>1. at = "idle" /\ eof /\ raw = <<>> /\ source = <<>> /\ encoding # "any"
      BY <1>1 DEF ReadWholly, ReaderIdle, CallInv, ReadInv
    <2>2. encoding \in Encodings
      BY <2>1 DEF CallInv, ReaderTypeOK
    <2>3. PICK text \in Seq(Permitted) : /\ HasRead(octets, encoding, text, raw \o source)
                                         /\ delivered = Append(text, 0)
      BY <1>1, <2>1 DEF ReadInv, AsRead
    <2>4. Fits(octets, encoding) /\ text \in Seq(Valid)
      BY <2>1, PermittedTexts DEF ReadInv, AsRead
    <2>5. raw \o source = <<>> /\ <<>> \in Seq(Octet)
      BY <2>1, EmptySeq, ConcatEmptySeq
    <2>6. HasRead(octets, encoding, text, <<>>)
      BY <2>3, <2>5
    <2>7. octets = MarkOf(octets, encoding) \o EncodedText(text, encoding)
      <3>1. MarkOf(octets, encoding) \o EncodedText(text, encoding) \in Seq(Octet)
        BY <2>2, <2>4, MarkOfParts, EmptySeq, TextConcat, ConcatProperties
      <3> QED BY <2>6, <3>1, ConcatEmptySeq DEF HasRead
    <2>8. text \in TextsOf(octets)
      BY <2>2, <2>4, <2>7, StandsForMarked DEF TextsOf
    <2>9. ASSUME NEW other \in TextsOf(octets) PROVE other = text
      <3>1. PICK u \in Seq(Valid) : other = text \o u /\ <<>> = EncodedText(u, encoding)
        BY <2>2, <2>4, <2>5, <2>6, TextsBeginAlike
      <3>2. u = <<>>
        BY <2>2, <3>1, TextBegins
      <3> QED BY <2>4, <3>1, <3>2, ConcatEmptySeq
    <2> QED BY <2>3, <2>8, <2>9
  <1>2. ASSUME broken = "reader" PROVE TextsOf(octets) = {}
    BY <1>2 DEF ReadInv
  <1> QED BY <1>1, <1>2 DEF ReadsExactly

-----------------------------------------------------------------------------
(* The buffers.                                                             *)

(* A character takes at most four octets.                                   *)
LEMMA TextLength ==
  ASSUME NEW t \in Seq(Valid)
  PROVE  Len(EncodedText(t, "utf-8")) \in Nat /\ Len(EncodedText(t, "utf-8")) <= 4 * Len(t)
  <1> DEFINE E(s) == EncodedText(s, "utf-8")
             T == {n \in Nat : \A s \in Seq(Valid) : Len(s) = n => Len(E(s)) \in Nat /\ Len(E(s)) <= 4 * n}
  <1>0. "utf-8" \in Encodings
    BY DEF Encodings
  <1>1. 0 \in T
    <2>1. Len(E(<<>>)) = 0
      BY <1>0, NoText, EmptySeq
    <2> HIDE DEF E
    <2> QED BY <2>1, EmptySeq
  <1>2. ASSUME NEW n \in T PROVE n + 1 \in T
    <2>0. n + 1 \in Nat
      OBVIOUS
    <2> SUFFICES ASSUME NEW s \in Seq(Valid), Len(s) = n + 1
                 PROVE  Len(E(s)) \in Nat /\ Len(E(s)) <= 4 * (n + 1)
      BY Zenon, <2>0
    <2>1. s # <<>> /\ n \in Nat
      BY EmptySeq
    <2>2. PICK p \in Seq(Valid), c \in Valid : s = Append(p, c)
      BY <2>1, SequenceEmptyOrAppend
    <2>3. Len(p) = n
      <3>1. Len(s) = Len(p) + 1 /\ Len(p) \in Nat
        BY <2>2, AppendProperties
      <3> QED BY <2>1, <3>1
    <2>4. Len(E(p)) \in Nat /\ Len(E(p)) <= 4 * n
      BY <2>3
    <2>5. E(s) = E(p) \o Encoded(c, "utf-8") /\ E(p) \in Seq(Octet) /\ Encoded(c, "utf-8") \in Seq(Octet)
          /\ Len(Encoded(c, "utf-8")) \in 1 .. 4
      BY <1>0, <2>2, TextAppend, EncodedParts
    <2> DEFINE x == Len(E(s))
               y == Len(E(p))
               z == Len(Encoded(c, "utf-8"))
    <2>6. x = y + z
      BY <2>5, ConcatProperties
    <2>7. y \in Nat /\ y <= 4 * n /\ z \in 1 .. 4
      BY <2>4, <2>5
    <2>8. x \in Nat /\ x <= 4 * (n + 1)
      <3> HIDE DEF x, y, z
      <3> QED BY <2>1, <2>6, <2>7
    <2> QED BY <2>8
  <1>3. T = Nat
    <2>1. T \in SUBSET Nat
      OBVIOUS
    <2> HIDE DEF T
    <2> QED BY <1>1, <1>2, <2>1, Induct
  <1>4. Len(t) \in T
    BY <1>3
  <1> QED BY <1>4

(* What is in the buffer, in octets.                                        *)
Utf8Length(text) == Len(EncodedText(text, "utf-8"))

(* A character takes at most three octets there for two that it took in the *)
(* raw buffer.                                                              *)
LEMMA StoredGrows ==
  ASSUME NEW t \in Seq(Valid), NEW c \in Valid, NEW order \in Encodings
  PROVE  /\ Utf8Length(t) \in Nat
         /\ Utf8Length(Append(t, c)) \in Nat
         /\ Len(Encoded(c, order)) \in Nat
         /\ 2 * Utf8Length(Append(t, c)) <= 2 * Utf8Length(t) + 3 * Len(Encoded(c, order))
  <1>0. "utf-8" \in Encodings /\ Append(t, c) \in Seq(Valid)
    BY AppendProperties DEF Encodings
  <1>1. /\ EncodedText(t, "utf-8") \in Seq(Octet)
        /\ EncodedText(Append(t, c), "utf-8") = EncodedText(t, "utf-8") \o Encoded(c, "utf-8")
        /\ Encoded(c, "utf-8") = Encode(c) /\ Encoded(c, "utf-8") \in Seq(Octet)
    BY <1>0, TextAppend, EncodedCases, EncodedParts
  <1>2. Utf8Length(Append(t, c)) = Utf8Length(t) + Len(Encode(c))
    BY <1>1, ConcatProperties DEF Utf8Length
  <1> DEFINE x == Len(Encode(c))
             y == Len(Encoded(c, order))
  <1>3. 2 * x <= 3 * y /\ x \in 1 .. 4 /\ y \in 1 .. 4
    BY EncodedParts
  <1>4. Utf8Length(t) \in Nat
    BY TextLength DEF Utf8Length
  <1> HIDE DEF x, y
  <1>5. /\ Utf8Length(t) + x \in Nat /\ y \in Nat
        /\ 2 * (Utf8Length(t) + x) <= 2 * Utf8Length(t) + 3 * y
    BY <1>3, <1>4
  <1> QED BY <1>2, <1>4, <1>5 DEF x, y

(* The NUL at the end takes one octet.                                      *)
LEMMA NulIsOneOctet ==
  ASSUME NEW t \in Seq(Valid)
  PROVE  Utf8Length(Append(t, 0)) = Utf8Length(t) + 1
  <1>0. "utf-8" \in Encodings
    BY DEF Encodings
  <1>1. /\ EncodedText(t, "utf-8") \in Seq(Octet)
        /\ EncodedText(Append(t, 0), "utf-8") = EncodedText(t, "utf-8") \o Encoded(0, "utf-8")
    BY <1>0, NulIsValid, TextAppend
  <1>2. Encoded(0, "utf-8") = Encode(0)
    BY <1>0, NulIsValid, EncodedCases
  <1>3. Encode(0) \in Seq(Octet) /\ Len(Encode(0)) = 1
    BY SMT, NulIsValid, EncodeIsOctets DEF EncodesAs
  <1> DEFINE a == EncodedText(t, "utf-8")
             b == Encode(0)
  <1>4. /\ a \in Seq(Octet) /\ b \in Seq(Octet) /\ Len(b) = 1
        /\ EncodedText(Append(t, 0), "utf-8") = a \o b
    BY <1>1, <1>2, <1>3
  <1>5. Utf8Length(t) = Len(a) /\ Utf8Length(Append(t, 0)) = Len(a \o b)
    BY <1>4 DEF Utf8Length
  <1> HIDE DEF a, b
  <1>6. Len(a \o b) = Len(a) + 1
    <2>1. a \in Seq(Octet) /\ b \in Seq(Octet)
      BY <1>4
    <2>2. Len(a \o b) = Len(a) + Len(b)
      BY <2>1, ConcatProperties
    <2> QED BY <1>4, <2>2
  <1> QED BY <1>5, <1>6

(* How far ahead the scanner may look, for the buffers.                     *)
LooksNotTooFar(lengths) ==
  lengths \subseteq Nat /\ \A length \in lengths : 8 * length <= 3 * RawSize + 6

(* What is in both buffers at the points of a call, for any lengths.        *)
BufferInv(lengths) ==
  /\ at # "idle" => wanted \in lengths
  /\ at \in {"encoding", "fill"} => Len(buffer) < wanted
  /\ at = "decode" => 2 * Utf8Length(buffer) + 3 * Len(raw) + 8 <= 8 * wanted + 3 * RawSize
  /\ Utf8Length(buffer) <= BufferSize

(* While the scanner lacks a character, the buffer has room for what a full *)
(* raw buffer turns into.                                                   *)
LEMMA RoomForSome ==
  ASSUME CallInv, NEW lengths, LooksNotTooFar(lengths), BufferInv(lengths),
         Len(buffer) < wanted, wanted \in lengths
  PROVE  2 * Utf8Length(buffer) + 3 * RawSize + 8 <= 8 * wanted + 3 * RawSize
  <1>1. /\ Utf8Length(buffer) \in Nat /\ Utf8Length(buffer) <= 4 * Len(buffer) /\ Len(buffer) \in Nat
        /\ wanted \in Nat /\ RawSize \in Nat
    BY TextLength, ReaderAssumption DEF CallInv, ReaderTypeOK, Utf8Length
  <1> QED BY <1>1

(* Every step keeps this.                                                   *)
LEMMA BufferInvStep ==
  ASSUME CallInv, CallInv', NEW lengths, LooksNotTooFar(lengths), BufferInv(lengths),
         [ReaderNext(lengths)]_readerVars
  PROVE  BufferInv(lengths)'
  <1>0. /\ RawSize \in Nat /\ BufferSize = 3 * RawSize /\ lengths \in SUBSET Nat
        /\ buffer \in Seq(Valid) /\ buffer' \in Seq(Valid)
        /\ Utf8Length(buffer) \in Nat /\ Utf8Length(buffer') \in Nat /\ Utf8Length(buffer') <= 4 * Len(buffer')
        /\ Len(buffer) \in Nat /\ Len(buffer') \in Nat
        /\ Len(raw) \in Nat /\ Len(raw') \in Nat /\ Len(raw') <= RawSize
        /\ wanted \in Nat /\ wanted' \in Nat
    BY TextLength, ReaderAssumption DEF LooksNotTooFar, CallInv, ReaderTypeOK, Utf8Length
  <1> DEFINE E == Utf8Length(buffer)
             R == Len(raw)
             L == Len(buffer)
  <1>1. CASE Look(lengths)
    <2>0. PICK length \in lengths : \E left \in 0 .. length - 1 : Ask(length, left)
      BY <1>1 DEF Look
    <2>1. length \in Nat /\ 8 * length <= 3 * RawSize + 6
      BY <1>0, <2>0 DEF LooksNotTooFar
    <2>2. PICK left \in 0 .. length - 1 : Ask(length, left)
      BY <2>0
    <2>3. /\ Len(buffer') = left /\ wanted' = length
          /\ at' \in {"encoding", "fill", "decode"} /\ UNCHANGED raw
      BY <2>1, <2>2, AskParts
    <2>4. left \in Nat /\ left + 1 <= length
      BY <2>1
    <2>5. Utf8Length(buffer') <= 4 * left
      BY <1>0, <2>3
    <2> DEFINE F == Utf8Length(buffer')
               Q == Len(raw')
    <2>6. F \in Nat /\ Q \in Nat /\ Q <= RawSize /\ F <= 4 * left
      BY <1>0, <2>5
    <2> HIDE DEF F, Q
    <2>7. 2 * F + 3 * Q + 8 <= 8 * length + 3 * RawSize /\ F <= BufferSize
      BY <1>0, <2>1, <2>4, <2>6
    <2> QED BY <2>0, <2>1, <2>3, <2>4, <2>7 DEF BufferInv, F, Q
  <1>2. CASE ReadFails
    BY <1>2 DEF ReadFails, BufferInv
  <1>3. CASE FillForEncoding
    BY <1>3 DEF FillForEncoding, BufferInv
  <1>4. CASE DetermineEncoding
    <2>1. /\ at = "encoding" /\ at' \in {"fill", "decode"} /\ UNCHANGED <<buffer, wanted>>
      BY <1>4 DEF DetermineEncoding
    <2>2. 2 * E + 3 * RawSize + 8 <= 8 * wanted + 3 * RawSize /\ wanted \in lengths /\ Len(buffer) < wanted
      BY <2>1, RoomForSome DEF BufferInv
    <2> DEFINE Q == Len(raw')
    <2>3. 2 * E + 3 * Q + 8 <= 8 * wanted + 3 * RawSize
      <3> HIDE DEF E, Q
      <3>1. E \in Nat /\ Q \in Nat /\ Q <= RawSize
        BY <1>0 DEF E, Q
      <3> QED BY <1>0, <2>2, <3>1
    <2> QED BY <2>1, <2>2, <2>3 DEF BufferInv
  <1>5. CASE Fill
    <2>1. /\ at = "fill" /\ at' = "decode" /\ UNCHANGED <<buffer, wanted>>
      BY <1>5 DEF Fill
    <2>2. 2 * E + 3 * RawSize + 8 <= 8 * wanted + 3 * RawSize /\ wanted \in lengths /\ Len(buffer) < wanted
      BY <2>1, RoomForSome DEF BufferInv
    <2> DEFINE Q == Len(raw')
    <2>3. 2 * E + 3 * Q + 8 <= 8 * wanted + 3 * RawSize
      <3> HIDE DEF E, Q
      <3>1. E \in Nat /\ Q \in Nat /\ Q <= RawSize
        BY <1>0 DEF E, Q
      <3> QED BY <1>0, <2>2, <3>1
    <2> QED BY <2>1, <2>2, <2>3 DEF BufferInv
  <1>6. CASE DecodeCharacter
    <2>1. /\ at = "decode" /\ encoding \in Encodings /\ broken = "none"
          /\ Refuses \/ (\E c \in Permitted : Takes(c)) \/ Waits
          /\ UNCHANGED wanted
      BY <1>6, DecodeCharacterParts
    <2>2. 2 * E + 3 * R + 8 <= 8 * wanted + 3 * RawSize /\ wanted \in lengths /\ E <= BufferSize
      BY <2>1 DEF BufferInv
    <2>3. 8 * wanted <= 3 * RawSize + 6
      BY <2>2 DEF LooksNotTooFar
    <2>4. CASE Refuses
      BY <2>2, <2>4 DEF Refuses, BufferInv
    <2>5. CASE Waits
      <3>1. /\ UNCHANGED <<raw, buffer>> /\ at' = IF Len(buffer) < wanted THEN "fill" ELSE "idle"
        BY <2>5 DEF Waits
      <3> QED BY <2>1, <2>2, <3>1 DEF BufferInv
    <2>6. CASE \E c \in Permitted : Takes(c)
      <3>1. PICK c \in Permitted : Takes(c)
        BY <2>6
      <3> DEFINE Y == Len(Encoded(c, encoding))
                 F == Utf8Length(buffer')
                 Q == Len(raw')
      <3>2. c \in Valid /\ R = Y + Q
        BY <2>1, <3>1, TakesParts
      <3>3. buffer' = Append(buffer, c) /\ UNCHANGED at
        BY <3>1 DEF Takes, Store
      <3>4. Y \in Nat /\ 2 * F <= 2 * E + 3 * Y
        BY <1>0, <2>1, <3>2, <3>3, StoredGrows
      <3>5. 2 * F + 3 * Q + 8 <= 8 * wanted + 3 * RawSize /\ F <= BufferSize
        <4> HIDE DEF E, F, Q, R, Y
        <4>1. E \in Nat /\ F \in Nat /\ Q \in Nat /\ R \in Nat
          BY <1>0 DEF E, F, Q, R
        <4> QED BY <1>0, <2>2, <2>3, <3>2, <3>4, <4>1
      <3> QED BY <2>1, <2>2, <3>3, <3>5 DEF BufferInv
    <2> QED BY <2>1, <2>4, <2>5, <2>6
  <1>7. CASE FinishDecoding
    <2>1. /\ at = "decode"
          /\ IF eof THEN Store(0) ELSE UNCHANGED <<buffer, delivered>>
          /\ at' = IF Len(buffer) < wanted /\ ~eof THEN "fill" ELSE "idle"
          /\ UNCHANGED <<raw, wanted>>
      BY <1>7 DEF FinishDecoding
    <2>2. 2 * E + 3 * R + 8 <= 8 * wanted + 3 * RawSize /\ wanted \in lengths /\ E <= BufferSize
      BY <2>1 DEF BufferInv
    <2>3. 8 * wanted <= 3 * RawSize + 6
      BY <2>2 DEF LooksNotTooFar
    <2>4. CASE eof
      <3>1. at' = "idle" /\ buffer' = Append(buffer, 0)
        BY <2>1, <2>4 DEF Store
      <3>2. Utf8Length(buffer') = E + 1
        BY <1>0, <3>1, NulIsOneOctet
      <3>3. E + 1 <= BufferSize
        <4> HIDE DEF E, R
        <4>1. E \in Nat /\ R \in Nat
          BY <1>0 DEF E, R
        <4> QED BY <1>0, <2>2, <2>3, <4>1
      <3> QED BY <3>1, <3>2, <3>3 DEF BufferInv
    <2>5. CASE ~eof
      <3>1. UNCHANGED <<buffer, raw, wanted>> /\ at' = IF Len(buffer) < wanted THEN "fill" ELSE "idle"
        BY <2>1, <2>5
      <3> QED BY <2>2, <3>1 DEF BufferInv
    <2> QED BY <2>4, <2>5
  <1>8. CASE UNCHANGED readerVars
    BY <1>8 DEF readerVars, BufferInv
  <1> QED BY <1>1, <1>2, <1>3, <1>4, <1>5, <1>6, <1>7, <1>8 DEF ReaderNext, ReaderStep

(* A new reader has empty buffers.                                          *)
LEMMA BufferInvInit ==
  ASSUME NEW octets \in Seq(Octet), NEW whole \in BOOLEAN, ReaderAt(octets, whole), NEW lengths
  PROVE  BufferInv(lengths)
  <1>1. at = "idle" /\ buffer = <<>> /\ "utf-8" \in Encodings
    BY DEF ReaderAt, Encodings
  <1>2. Utf8Length(buffer) = 0
    BY <1>1, NoText, EmptySeq DEF Utf8Length
  <1>3. 0 <= BufferSize
    BY ReaderAssumption
  <1> QED BY <1>1, <1>2, <1>3 DEF BufferInv

-----------------------------------------------------------------------------
(* A reader of these octets, and a scanner that looks ahead so far.         *)
ReaderSpec(octets, whole, lengths) ==
  ReaderAt(octets, whole) /\ [][ReaderNext(lengths)]_readerVars

(* Whatever the octets, the pieces the handler cuts them into and the       *)
(* lengths the scanner asks for: when the reader is through, it has         *)
(* delivered the one text the octets stand for, and the NUL after it; and   *)
(* it refuses octets only when they stand for no text                       *)
(* (yaml_parser_update_buffer, reader.c:141-464).                           *)
THEOREM ReaderIsExact ==
  ASSUME NEW octets \in Seq(Octet), NEW whole \in BOOLEAN, NEW lengths \in SUBSET Nat
  PROVE  ReaderSpec(octets, whole, lengths) => []ReadsExactly(TextsOf(octets))
  <1> DEFINE Inv == CallInv /\ ReadInv(octets)
  <1>1. ReaderAt(octets, whole) => Inv
    BY ReadInvInit
  <1>2. Inv /\ [ReaderNext(lengths)]_readerVars => Inv'
    BY CallInvStep, ReadInvStep
  <1>3. Inv => ReadsExactly(TextsOf(octets))
    BY ReadInvIsExact
  <1> QED BY <1>1, <1>2, <1>3, PTL DEF ReaderSpec

(* Neither buffer ever holds more than its size, though the code writes a   *)
(* decoded character without looking at the end of the buffer               *)
(* (reader.c:425-448): the raw buffer full of the worst encoding grows by   *)
(* half, which the factor three between the sizes leaves room for. The      *)
(* scanner of the library looks at most eight characters ahead, and its raw *)
(* buffer has 16384 octets.                                                 *)
THEOREM ReaderBuffersFit ==
  ASSUME NEW octets \in Seq(Octet), NEW whole \in BOOLEAN, NEW lengths, LooksNotTooFar(lengths)
  PROVE  ReaderSpec(octets, whole, lengths) => []BuffersFit
  <1> DEFINE Inv == CallInv /\ BufferInv(lengths)
  <1>0. lengths \in SUBSET Nat
    BY DEF LooksNotTooFar
  <1>1. ReaderAt(octets, whole) => Inv
    BY ReadInvInit, BufferInvInit
  <1>2. Inv /\ [ReaderNext(lengths)]_readerVars => Inv'
    BY <1>0, CallInvStep, BufferInvStep
  <1>3. Inv => BuffersFit
    BY DEF CallInv, BufferInv, BuffersFit, Utf8Length
  <1> QED BY <1>1, <1>2, <1>3, PTL DEF ReaderSpec

------------------------------------------------------------------------------
(* The parser: what moves on in the tokens.                                 *)

(* A parser has the fields of a new one; what the scanner is does not       *)
(* matter.                                                                  *)
IsParser(p) ==
  DOMAIN p = {"scan", "size", "available", "ended", "state", "states", "marks",
              "directives", "event", "error"}

(* A helper that only moves on in the tokens leaves the control of the      *)
(* parser as it is, and no error is forgotten.                              *)
Keeps(p, r) ==
  /\ IsParser(p) /\ IsParser(r)
  /\ r.size = p.size
  /\ r.state = p.state /\ r.states = p.states /\ r.marks = p.marks
  /\ r.error = "none" => p.error = "none" /\ (~p.ended => ~r.ended)

(* It does so however often it is called.                                   *)
LEMMA KeepsTransitively ==
  ASSUME NEW p, NEW q, NEW r, Keeps(p, q), Keeps(q, r)
  PROVE  Keeps(p, r)
  BY DEF Keeps

(* A new parser has nothing on its stack.                                   *)
LEMMA NewParserIs ==
  ASSUME NEW text, NEW enc
  PROVE  LET p == NewParser(text, enc)
         IN /\ IsParser(p) /\ p.size = Len(text)
            /\ p.state = "STREAM-START" /\ p.states = <<>> /\ p.marks = 0
            /\ p.event.kind = "NO-EVENT" /\ p.error = "none" /\ ~p.ended
  BY DEF NewParser, IsParser, NoEvent, Event

(* PEEK_TOKEN: there is a token at hand, or an error.                       *)
LEMMA PeekKeeps ==
  ASSUME NEW p, IsParser(p)
  PROVE  /\ Keeps(p, Peek(p))
         /\ Peek(p).ended = p.ended
         /\ Peek(p).error = "none" => Peek(p).available
         /\ p.error = "none" /\ p.available => Peek(p) = p
  BY DEF Peek, IsParser, Keeps

(* SKIP_TOKEN of any token but the last.                                    *)
LEMMA SkipKeeps ==
  ASSUME NEW p, IsParser(p), ~Sees(p, {"STREAM-END"})
  PROVE  Keeps(p, Skip(p)) /\ Skip(p).event = p.event /\ Skip(p).error = p.error
  BY DEF Skip, IsParser, Keeps

(* The same with the next token looked at.                                  *)
LEMMA AdvanceKeeps ==
  ASSUME NEW p, IsParser(p), ~Sees(p, {"STREAM-END"})
  PROVE  /\ Keeps(p, Advance(p))
         /\ Advance(p).error = "none" => Advance(p).available
  BY SkipKeeps, PeekKeeps, KeepsTransitively DEF Advance, Keeps

(* An error that is raised stays an error.                                  *)
LEMMA FailFails ==
  ASSUME NEW p, IsParser(p)
  PROVE  IsParser(Fail(p)) /\ Fail(p).error # "none" /\ Fail(p).size = p.size
  BY DEF Fail, IsParser

(* One round of the loops keeps the control.                                *)
LEMMA RoundKeeps ==
  ASSUME NEW p, IsParser(p)
  PROVE  Keeps(p, SkipDocumentEnd(p))
  <1>1. Sees(p, {"DOCUMENT-END"}) => ~Sees(p, {"STREAM-END"})
    BY DEF Sees
  <1>2. Keeps(p, p)
    BY DEF Keeps
  <1> QED BY <1>1, <1>2, AdvanceKeeps DEF SkipDocumentEnd

(* The loop does, whatever the scanner finds.                               *)
LEMMA SkipDocumentEndsKeeps ==
  ASSUME NEW p, IsParser(p), p.size \in Nat
  PROVE  Keeps(p, SkipDocumentEnds(p))
  <1> DEFINE Runs(f, k) == f = [n \in 0 .. k |-> IF n = 0 THEN p ELSE SkipDocumentEnd(f[n - 1])]
             T == {k \in Nat : \E f : Runs(f, k)}
             after == CHOOSE f : Runs(f, p.size)
             V == {k \in Nat : k <= p.size => Keeps(p, after[k])}
  <1>1. 0 \in T
    <2>1. Runs([n \in 0 .. 0 |-> p], 0)
      OBVIOUS
    <2> QED BY <2>1
  <1>2. ASSUME NEW k \in T PROVE k + 1 \in T
    <2>1. PICK f : Runs(f, k)
      OBVIOUS
    <2> DEFINE g == [n \in 0 .. k + 1 |-> IF n <= k THEN f[n] ELSE SkipDocumentEnd(f[k])]
    <2>2. k \in Nat
      OBVIOUS
    <2>3. \A n \in 0 .. k + 1 : g[n] = IF n = 0 THEN p ELSE SkipDocumentEnd(g[n - 1])
      BY <2>1, <2>2
    <2>4. Runs(g, k + 1)
      <3>1. g = [n \in 0 .. k + 1 |-> g[n]]
        OBVIOUS
      <3> HIDE DEF g
      <3> QED BY <3>1, <2>3
    <2> HIDE DEF g, Runs
    <2> QED BY <2>2, <2>4
  <1>3. Runs(after, p.size)
    <2> HIDE DEF Runs
    <2>1. T = Nat
      BY <1>1, <1>2, Induct
    <2> QED BY <2>1
  <1>4. SkipDocumentEnds(p) = after[p.size]
    BY DEF SkipDocumentEnds
  <1> HIDE DEF after
  <1>5. /\ after[0] = p
        /\ \A n \in 1 .. p.size : after[n] = SkipDocumentEnd(after[n - 1])
    BY <1>3
  <1>6. 0 \in V
    BY <1>5 DEF Keeps
  <1>7. ASSUME NEW k \in V PROVE k + 1 \in V
    <2> SUFFICES ASSUME k + 1 <= p.size PROVE Keeps(p, after[k + 1])
      OBVIOUS
    <2>1. Keeps(p, after[k])
      OBVIOUS
    <2>2. k + 1 \in 1 .. p.size /\ (k + 1) - 1 = k
      OBVIOUS
    <2>3. after[k + 1] = SkipDocumentEnd(after[k])
      BY <1>5, <2>2
    <2> QED BY <2>1, <2>3, RoundKeeps, KeepsTransitively DEF Keeps
  <1>8. V = Nat
    BY <1>6, <1>7, Induct
  <1> QED BY <1>4, <1>8

(* A round of the directives keeps it too; what it finds stays a record.     *)
LEMMA DirectiveKeeps ==
  ASSUME NEW read, DOMAIN read = {"parser", "found"}, IsParser(read.parser)
  PROVE  /\ DOMAIN ReadDirective(read) = {"parser", "found"}
         /\ Keeps(read.parser, ReadDirective(read).parser)
  <1> DEFINE p == read.parser
             directive == [handle |-> Current(p).handle, prefix |-> Current(p).prefix]
             q == [p EXCEPT !.directives = Append(@, directive)]
  <1>1. Sees(p, {"VERSION-DIRECTIVE"}) \/ Sees(p, {"TAG-DIRECTIVE"}) => ~Sees(p, {"STREAM-END"})
    BY DEF Sees
  <1>2. Keeps(p, p) /\ Keeps(p, q) /\ (Sees(q, {"STREAM-END"}) <=> Sees(p, {"STREAM-END"}))
    BY DEF Keeps, IsParser, Sees, Current
  <1>3. p.error = "none" => Keeps(p, Fail(p))
    BY DEF Keeps, IsParser, Fail
  <1>4. ~Sees(p, {"STREAM-END"}) => Keeps(p, Advance(p)) /\ Keeps(p, Advance(q))
    <2>1. IsParser(p) /\ IsParser(q)
      BY <1>2 DEF Keeps
    <2> HIDE DEF p, q
    <2> QED BY <1>2, <2>1, AdvanceKeeps, KeepsTransitively
  <1>5. CASE p.error = "none" /\ Sees(p, {"VERSION-DIRECTIVE"})
    BY <1>1, <1>3, <1>4, <1>5 DEF ReadDirective
  <1>6. CASE p.error = "none" /\ Sees(p, {"TAG-DIRECTIVE"})
    <2>1. ~Sees(p, {"VERSION-DIRECTIVE"})
      BY <1>6 DEF Sees
    <2>2. ReadDirective(read) =
            IF directive.handle \in Handles(p.directives)
            THEN [read EXCEPT !.parser = Fail(p)]
            ELSE [parser |-> Advance(q),
                  found |-> [read.found EXCEPT !.tags = Append(@, directive)]]
      BY <1>6, <2>1 DEF ReadDirective
    <2>3. ~Sees(p, {"STREAM-END"})
      BY <1>1, <1>6
    <2> HIDE DEF p, q, directive
    <2> QED BY <1>3, <1>4, <1>6, <2>2, <2>3 DEF p
  <1>7. CASE ~(p.error = "none" /\ (Sees(p, {"VERSION-DIRECTIVE"}) \/ Sees(p, {"TAG-DIRECTIVE"})))
    BY <1>2, <1>7 DEF ReadDirective
  <1> QED BY <1>5, <1>6, <1>7

(* And so does the reading of all directives.                               *)
LEMMA ProcessDirectivesKeeps ==
  ASSUME NEW p, IsParser(p), p.size \in Nat
  PROVE  Keeps(p, ProcessDirectives(p).parser)
  <1> DEFINE start == [parser |-> p, found |-> [version |-> Null, tags |-> <<>>]]
             Runs(f, k) == f = [n \in 0 .. k |-> IF n = 0 THEN start ELSE ReadDirective(f[n - 1])]
             T == {k \in Nat : \E f : Runs(f, k)}
             after == CHOOSE f : Runs(f, p.size)
             Sound(read) == DOMAIN read = {"parser", "found"} /\ Keeps(p, read.parser)
             V == {k \in Nat : k <= p.size => Sound(after[k])}
  <1>0. Sound(start)
    BY DEF Keeps
  <1> HIDE DEF start
  <1>1. 0 \in T
    <2>1. Runs([n \in 0 .. 0 |-> start], 0)
      OBVIOUS
    <2> QED BY <2>1
  <1>2. ASSUME NEW k \in T PROVE k + 1 \in T
    <2>1. PICK f : Runs(f, k)
      OBVIOUS
    <2> DEFINE g == [n \in 0 .. k + 1 |-> IF n <= k THEN f[n] ELSE ReadDirective(f[k])]
    <2>2. k \in Nat
      OBVIOUS
    <2>3. \A n \in 0 .. k + 1 : g[n] = IF n = 0 THEN start ELSE ReadDirective(g[n - 1])
      BY <2>1, <2>2
    <2>4. Runs(g, k + 1)
      <3>1. g = [n \in 0 .. k + 1 |-> g[n]]
        OBVIOUS
      <3> HIDE DEF g
      <3> QED BY <3>1, <2>3
    <2> HIDE DEF g, Runs
    <2> QED BY <2>2, <2>4
  <1>3. Runs(after, p.size)
    <2> HIDE DEF Runs
    <2>1. T = Nat
      BY <1>1, <1>2, Induct
    <2> QED BY <2>1
  <1>4. ProcessDirectives(p) = [after[p.size] EXCEPT !.parser.directives = WithDefaults(@)]
    BY DEF ProcessDirectives, start
  <1> HIDE DEF after
  <1>5. /\ after[0] = start
        /\ \A n \in 1 .. p.size : after[n] = ReadDirective(after[n - 1])
    BY <1>3
  <1>6. 0 \in V
    BY <1>0, <1>5
  <1>7. ASSUME NEW k \in V PROVE k + 1 \in V
    <2> SUFFICES ASSUME k + 1 <= p.size PROVE Sound(after[k + 1])
      OBVIOUS
    <2>1. Sound(after[k])
      OBVIOUS
    <2>2. k + 1 \in 1 .. p.size /\ (k + 1) - 1 = k
      OBVIOUS
    <2>3. after[k + 1] = ReadDirective(after[k])
      BY <1>5, <2>2
    <2>4. IsParser(after[k].parser)
      BY <2>1 DEF Keeps
    <2>5. /\ DOMAIN after[k + 1] = {"parser", "found"}
          /\ Keeps(after[k].parser, after[k + 1].parser)
      BY <2>1, <2>3, <2>4, DirectiveKeeps
    <2> QED BY <2>1, <2>5, KeepsTransitively
  <1>8. V = Nat
    BY <1>6, <1>7, Induct
  <1>9. Sound(after[p.size])
    BY <1>8
  <1> DEFINE q == after[p.size].parser
             r == [q EXCEPT !.directives = WithDefaults(@)]
  <1>10. ProcessDirectives(p).parser = r
    BY <1>4, <1>9
  <1>11. Keeps(p, r)
    BY <1>9 DEF Keeps, IsParser
  <1> QED BY <1>10, <1>11

(* What every production makes of a parser: no error is forgotten, and the  *)
(* stream has not ended unless it had.                                      *)
Goes(p, r) ==
  /\ IsParser(p) /\ IsParser(r) /\ r.size = p.size
  /\ r.error = "none" => p.error = "none" /\ (~p.ended => ~r.ended)

LEMMA KeepsGoes ==
  ASSUME NEW p, NEW q, NEW r
  PROVE  /\ Keeps(p, q) => Goes(p, q)
         /\ Goes(p, q) /\ Goes(q, r) => Goes(p, r)
  BY DEF Keeps, Goes

(* What does not touch the tokens sees the same one.                        *)
SameToken(p, r) ==
  /\ r.available = p.available
  /\ \A types : Sees(r, types) <=> Sees(p, types)

(* A state is put on the stack.                                             *)
LEMMA PushStep ==
  ASSUME NEW p, IsParser(p), NEW state
  PROVE  LET r == Push(p, state)
         IN /\ Goes(p, r) /\ SameToken(p, r)
            /\ r.state = p.state /\ r.states = Append(p.states, state) /\ r.marks = p.marks
  BY DEF Push, IsParser, Goes, SameToken, Sees, Current

(* The state changes.                                                       *)
LEMMA GotoStep ==
  ASSUME NEW p, IsParser(p), NEW state, NEW event
  PROVE  LET r == Goto(p, state, event)
         IN /\ Goes(p, r) /\ SameToken(p, r)
            /\ r.state = state /\ r.states = p.states /\ r.marks = p.marks /\ r.event = event
  BY DEF Goto, IsParser, Goes, SameToken, Sees, Current

(* A state is taken from the stack.                                         *)
LEMMA ReturnStep ==
  ASSUME NEW p, IsParser(p), NEW event
  PROVE  LET r == Return(p, event)
         IN /\ Goes(p, r) /\ SameToken(p, r)
            /\ r.state = Last(p.states) /\ r.states = Front(p.states) /\ r.marks = p.marks
            /\ r.event = event
  BY DEF Return, IsParser, Goes, SameToken, Sees, Current

(* The marks are counted up and down.                                       *)
LEMMA MarkSteps ==
  ASSUME NEW p, IsParser(p)
  PROVE  /\ LET r == OpenMark(p)
            IN /\ Goes(p, r) /\ SameToken(p, r)
               /\ r.state = p.state /\ r.states = p.states /\ r.marks = p.marks + 1
         /\ LET r == CloseMark(p)
            IN /\ Goes(p, r) /\ SameToken(p, r) /\ r.event = p.event
               /\ r.state = p.state /\ r.states = p.states /\ r.marks = p.marks - 1
  <1>1. LET r == OpenMark(p)
        IN /\ Goes(p, r) /\ SameToken(p, r)
           /\ r.state = p.state /\ r.states = p.states /\ r.marks = p.marks + 1
    BY DEF OpenMark, IsParser, Goes, SameToken, Sees, Current
  <1>2. LET r == CloseMark(p)
        IN /\ Goes(p, r) /\ SameToken(p, r) /\ r.event = p.event
           /\ r.state = p.state /\ r.states = p.states /\ r.marks = p.marks - 1
    BY DEF CloseMark, IsParser, Goes, SameToken, Sees, Current
  <1> QED BY <1>1, <1>2

(* A parser that has looked has a token at hand, or an error.               *)
Ready(p) == p.error = "none" => p.available

(* The properties of a node are skipped.                                    *)
LEMMA NodePropertiesKeeps ==
  ASSUME NEW p, IsParser(p), Ready(p)
  PROVE  Keeps(p, NodeProperties(p).parser) /\ Ready(NodeProperties(p).parser)
  <1> DEFINE one == Sees(p, {"ANCHOR", "TAG"})
             second == IF one THEN Advance(p) ELSE p
             two == one /\ Sees(second, {"ANCHOR", "TAG"} \ {Current(p).type})
             last == IF two THEN Advance(second) ELSE second
  <1>1. NodeProperties(p).parser = last
    BY DEF NodeProperties
  <1>2. one => ~Sees(p, {"STREAM-END"})
    BY DEF Sees
  <1>3. Keeps(p, second) /\ Ready(second)
    BY <1>2, AdvanceKeeps DEF Ready, Keeps
  <1>4. two => ~Sees(second, {"STREAM-END"})
    BY DEF Sees
  <1> HIDE DEF second, one
  <1>5. Keeps(p, last) /\ Ready(last)
    <2>1. IsParser(second)
      BY <1>3 DEF Keeps
    <2>2. CASE two
      <3> HIDE DEF two
      <3>1. Keeps(second, Advance(second)) /\ Ready(Advance(second))
        BY <1>4, <2>1, <2>2, AdvanceKeeps DEF Ready
      <3> QED BY <1>3, <2>2, <3>1, KeepsTransitively
    <2> QED BY <1>3, <2>2
  <1> QED BY <1>1, <1>5

(* A node without contents, or an alias: the state on the stack goes on.    *)
Given(q, r) ==
  /\ Goes(q, r)
  /\ r.state = Last(q.states) /\ r.states = Front(q.states) /\ r.marks = q.marks
  /\ r.event.kind \in {"ALIAS", "SCALAR"}

(* A collection: its first entry is next, and its start token is at hand.   *)
Opened(q, r) ==
  /\ Goes(q, r)
  /\ r.states = q.states /\ r.marks = q.marks
  /\ \/ /\ r.event.kind = "SEQUENCE-START"
        /\ r.state \in {"FLOW-SEQUENCE-FIRST-ENTRY", "BLOCK-SEQUENCE-FIRST-ENTRY",
                        "INDENTLESS-SEQUENCE-ENTRY"}
     \/ /\ r.event.kind = "MAPPING-START"
        /\ r.state \in {"FLOW-MAPPING-FIRST-KEY", "BLOCK-MAPPING-FIRST-KEY"}
  /\ Ready(r) /\ ~Sees(r, {"STREAM-END"})

(* The table of the collections.                                            *)
LEMMA OpeningIs ==
  /\ Opening("FLOW-SEQUENCE-START") = <<"SEQUENCE-START", "flow", "FLOW-SEQUENCE-FIRST-ENTRY">>
  /\ Opening("FLOW-MAPPING-START") = <<"MAPPING-START", "flow", "FLOW-MAPPING-FIRST-KEY">>
  /\ Opening("BLOCK-SEQUENCE-START") = <<"SEQUENCE-START", "block", "BLOCK-SEQUENCE-FIRST-ENTRY">>
  /\ Opening("BLOCK-MAPPING-START") = <<"MAPPING-START", "block", "BLOCK-MAPPING-FIRST-KEY">>
  /\ Opening("BLOCK-ENTRY") = <<"SEQUENCE-START", "block", "INDENTLESS-SEQUENCE-ENTRY">>
  BY DEF Opening

(* A leaf is given with or without a token of its own.                      *)
LEMMA LeafIsGiven ==
  ASSUME NEW q, NEW p, Keeps(q, p), NEW event, event.kind \in {"ALIAS", "SCALAR"}
  PROVE  /\ Given(q, Return(p, event))
         /\ ~Sees(p, {"STREAM-END"}) => Given(q, Skip(Return(p, event)))
  <1> DEFINE r == Return(p, event)
  <1>0. IsParser(p)
    BY DEF Keeps
  <1>1. /\ Goes(p, r) /\ SameToken(p, r)
        /\ r.state = Last(p.states) /\ r.states = Front(p.states) /\ r.marks = p.marks
        /\ r.event = event
    BY <1>0, ReturnStep
  <1> HIDE DEF r
  <1>2. Given(q, r)
    BY <1>1 DEF Given, Keeps, Goes
  <1>3. ASSUME ~Sees(p, {"STREAM-END"}) PROVE Given(q, Skip(r))
    <2>1. Keeps(r, Skip(r)) /\ Skip(r).event = r.event
      BY <1>1, <1>3, SkipKeeps DEF SameToken, Goes
    <2> QED BY <1>2, <2>1 DEF Given, Keeps, Goes
  <1> QED BY <1>2, <1>3 DEF r

(* A node is refused, or it is a leaf, or a collection begins.              *)
LEMMA NodeOutcomes ==
  ASSUME NEW q, IsParser(q), NEW block \in BOOLEAN, NEW indentless \in BOOLEAN
  PROVE  LET r == ParseNode(q, block, indentless)
         IN /\ Goes(q, r)
            /\ r.error # "none" \/ Given(q, r) \/ Opened(q, r)
  <1> DEFINE start == Peek(q)
             props == NodeProperties(start)
             p == props.parser
             anchor == IF props.anchor = <<>> THEN Null ELSE props.anchor[1].value
             untagged == props.tag = <<>>
             tag == IF untagged THEN Null ELSE ResolveTag(p, props.tag[1])
             type == Current(p).type
             opens == \/ type \in {"FLOW-SEQUENCE-START", "FLOW-MAPPING-START"}
                      \/ block /\ type \in {"BLOCK-SEQUENCE-START", "BLOCK-MAPPING-START"}
                      \/ indentless /\ type = "BLOCK-ENTRY"
             plain == \/ untagged /\ Current(p).style = "plain"
                      \/ tag = <<"!">>
             alias == Alias(Current(start).value)
             opened == Collection(Opening(type)[1], anchor, tag, untagged, Opening(type)[2])
             scalar == Scalar(anchor, tag, Current(p).value, plain, ~plain /\ untagged,
                              Current(p).style)
             empty == Scalar(anchor, tag, <<>>, untagged, FALSE, "plain")
             r == ParseNode(q, block, indentless)
  <1>1. r = IF Sees(start, {"ALIAS"}) THEN Skip(Return(start, alias))
            ELSE IF ~untagged /\ tag = Null THEN Fail(p)
            ELSE IF opens THEN Goto(p, Opening(type)[3], opened)
            ELSE IF Sees(p, {"SCALAR"}) THEN Skip(Return(p, scalar))
            ELSE IF anchor # Null \/ ~untagged THEN Return(p, empty)
            ELSE Fail(p)
    BY DEF ParseNode, NodeContents
  <1>2. Keeps(q, start) /\ Ready(start)
    BY PeekKeeps DEF Ready
  <1>3. Keeps(q, p) /\ Ready(p)
    BY <1>2, NodePropertiesKeeps, KeepsTransitively DEF Keeps
  <1>4. /\ alias.kind = "ALIAS" /\ scalar.kind = "SCALAR" /\ empty.kind = "SCALAR"
        /\ opened.kind = Opening(type)[1]
    BY DEF Alias, Scalar, Collection
  <1>5. /\ Sees(start, {"ALIAS"}) => ~Sees(start, {"STREAM-END"})
        /\ Sees(p, {"SCALAR"}) => ~Sees(p, {"STREAM-END"})
        /\ opens => /\ ~Sees(p, {"STREAM-END"})
                    /\ type \in {"FLOW-SEQUENCE-START", "FLOW-MAPPING-START", "BLOCK-SEQUENCE-START",
                                 "BLOCK-MAPPING-START", "BLOCK-ENTRY"}
    BY DEF Sees
  <1>6. Fail(p).error # "none" /\ Goes(q, Fail(p))
    BY <1>3, FailFails DEF Keeps, Goes
  <1>7. /\ Sees(start, {"ALIAS"}) => Given(q, Skip(Return(start, alias)))
        /\ Sees(p, {"SCALAR"}) => Given(q, Skip(Return(p, scalar)))
        /\ Given(q, Return(p, empty))
    <2> HIDE DEF start, p, alias, scalar, empty
    <2> QED BY <1>2, <1>3, <1>4, <1>5, LeafIsGiven
  <1>8. ASSUME opens PROVE Opened(q, Goto(p, Opening(type)[3], opened))
    <2> HIDE DEF p, opens, opened, type
    <2> DEFINE g == Goto(p, Opening(type)[3], opened)
    <2>1. /\ Goes(p, g) /\ SameToken(p, g)
          /\ g.state = Opening(type)[3] /\ g.states = p.states /\ g.marks = p.marks /\ g.event = opened
      BY <1>3, GotoStep DEF Keeps
    <2> HIDE DEF g
    <2>2. Goes(q, g)
      BY <1>3, <2>1, KeepsGoes
    <2>3. /\ g.states = q.states /\ g.marks = q.marks
          /\ Ready(g) /\ ~Sees(g, {"STREAM-END"})
      BY <1>3, <1>5, <1>8, <2>1 DEF Keeps, Ready, SameToken, Goes
    <2>4. \/ g.event.kind = "SEQUENCE-START"
             /\ g.state \in {"FLOW-SEQUENCE-FIRST-ENTRY", "BLOCK-SEQUENCE-FIRST-ENTRY",
                             "INDENTLESS-SEQUENCE-ENTRY"}
          \/ g.event.kind = "MAPPING-START"
             /\ g.state \in {"FLOW-MAPPING-FIRST-KEY", "BLOCK-MAPPING-FIRST-KEY"}
      BY <1>4, <1>5, <1>8, <2>1, OpeningIs
    <2> QED BY <2>2, <2>3, <2>4 DEF Opened, g
  <1> HIDE DEF start, p, opens, type, untagged, tag, anchor, alias, scalar, empty, opened, r
  <1> QED BY <1>1, <1>6, <1>7, <1>8 DEF Given, Opened, r

------------------------------------------------------------------------------
(* Stacks and contexts.                                                     *)

(* What a sequence gets at its end can be taken off again.                  *)
LEMMA AppendTop ==
  ASSUME NEW S, NEW s \in Seq(S), NEW x \in S
  PROVE  /\ Append(s, x) \in Seq(S) /\ Append(s, x) # <<>>
         /\ Append(s, x)[Len(Append(s, x))] = x
         /\ SubSeq(Append(s, x), 1, Len(Append(s, x)) - 1) = s
         /\ Last(Append(s, x)) = x /\ Front(Append(s, x)) = s
  <1>1. /\ Append(s, x) \in Seq(S) /\ Append(s, x) # <<>>
        /\ Append(s, x)[Len(Append(s, x))] = x
    OBVIOUS
  <1>2. SubSeq(Append(s, x), 1, Len(Append(s, x)) - 1) = s
    OBVIOUS
  <1> QED BY <1>1, <1>2 DEF Last, Front

(* And what has an end is what it has before, with the end.                 *)
LEMMA FrontAndLast ==
  ASSUME NEW S, NEW s \in Seq(S), s # <<>>
  PROVE  /\ Front(s) \in Seq(S) /\ Last(s) \in S /\ s = Append(Front(s), Last(s))
         /\ Len(Front(s)) = Len(s) - 1 /\ Last(s) = s[Len(s)]
         /\ \A i \in 1 .. Len(s) - 1 : Front(s)[i] = s[i]
  <1>1. PICK f \in Seq(S), x \in S : s = Append(f, x)
    BY SequenceEmptyOrAppend
  <1>2. Front(s) = f /\ Last(s) = x
    BY <1>1, AppendTop
  <1>3. /\ Len(s) = Len(f) + 1 /\ s[Len(s)] = x
        /\ \A i \in 1 .. Len(f) : f[i] = s[i]
        /\ Len(f) \in Nat
    BY <1>1
  <1> QED BY <1>1, <1>2, <1>3

(* The states that may be on the stack, and those inside a document.        *)
Waiting == Continuing \cup {"DOCUMENT-END"}
States == Beginning \cup Continuing \cup Outside \cup {"BLOCK-NODE", "DOCUMENT-CONTENT"}

(* What contexts are made of.                                               *)
Parts == {"stream", "ended", "document", "document-end", "sequence", "key", "value"}

(* Short tuples are sequences.                                              *)
LEMMA ShortTuples ==
  ASSUME NEW S, NEW a \in S, NEW b \in S
  PROVE  <<>> \in Seq(S) /\ <<a>> \in Seq(S) /\ <<a, b>> \in Seq(S)
  OBVIOUS

(* Concatenation with them is appending.                                    *)
LEMMA ShortAppends ==
  ASSUME NEW S, NEW s \in Seq(S), NEW a \in S, NEW b \in S
  PROVE  /\ Append(<<>>, a) = <<a>> /\ Append(<<a>>, b) = <<a, b>>
         /\ s \o <<>> = s /\ s \o <<a>> = Append(s, a)
         /\ s \o <<a, b>> = Append(Append(s, a), b)
  <1>1. Append(<<>>, a) = <<a>> /\ Append(<<a>>, b) = <<a, b>>
    <2>1. /\ <<>> \in Seq(S) /\ <<a>> \in Seq(S) /\ <<a, b>> \in Seq(S)
          /\ Len(<<>>) = 0 /\ Len(<<a>>) = 1 /\ Len(<<a, b>>) = 2
          /\ <<a>>[1] = a /\ <<a, b>>[1] = a /\ <<a, b>>[2] = b
      BY ShortTuples
    <2>2. /\ Append(<<>>, a) \in Seq(S) /\ Len(Append(<<>>, a)) = 1 /\ Append(<<>>, a)[1] = a
          /\ Append(<<a>>, b) \in Seq(S) /\ Len(Append(<<a>>, b)) = 2
          /\ Append(<<a>>, b)[1] = a /\ Append(<<a>>, b)[2] = b
      BY <2>1, AppendProperties
    <2>3. Append(<<>>, a) = <<a>>
      BY <2>1, <2>2, SeqEqual
    <2>4. \A i \in 1 .. 2 : Append(<<a>>, b)[i] = <<a, b>>[i]
      <3>1. \A i \in 1 .. 2 : i = 1 \/ i = 2
        OBVIOUS
      <3> QED BY <2>1, <2>2, <3>1
    <2> QED BY <2>1, <2>2, <2>3, <2>4, SeqEqual
  <1>2. s \o <<>> = s
    BY ConcatEmptySeq
  <1>3. s \o <<a>> = Append(s, a) /\ Append(s, a) \in Seq(S) /\ <<a>> \in Seq(S) /\ <<b>> \in Seq(S)
    BY AppendIsConcat, ShortTuples
  <1>4. (s \o <<a>>) \o <<b>> = s \o (<<a>> \o <<b>>)
    BY <1>3, ConcatAssociative
  <1>5. <<a>> \o <<b>> = <<a, b>>
    BY <1>1, <1>3, AppendIsConcat
  <1>6. Append(s, a) \o <<b>> = Append(Append(s, a), b)
    BY <1>3, AppendIsConcat
  <1> QED BY <1>1, <1>2, <1>3, <1>4, <1>5, <1>6

(* What a state stands for is a sequence.                                   *)
LEMMA OpenAtIs ==
  ASSUME NEW state \in States \ {"STREAM-START", "END"}
  PROVE  OpenAt(state) \in Seq(Parts) /\ MarkAt(state) \in Seq(States)
  <1>1. \/ OpenAt(state) = <<>>
        \/ \E a \in Parts : OpenAt(state) = <<a>>
        \/ \E a, b \in Parts : OpenAt(state) = <<a, b>>
    <2>1. OpenAt(state) \in {<<>>, <<"document">>, <<"document-end">>, <<"sequence">>, <<"key">>,
                             <<"value">>, <<"sequence", "key">>, <<"sequence", "value">>}
      BY DEF OpenAt, States, Beginning, Continuing, Marked, Outside
    <2> QED BY <2>1 DEF Parts
  <1>2. MarkAt(state) \in Seq(States)
    <2> HIDE DEF States
    <2> QED BY ShortTuples DEF MarkAt
  <1> HIDE DEF Parts
  <1>3. OpenAt(state) \in Seq(Parts)
    <2>1. \A a, b \in Parts : <<>> \in Seq(Parts) /\ <<a>> \in Seq(Parts) /\ <<a, b>> \in Seq(Parts)
      BY ShortTuples
    <2>2. <<>> \in Seq(Parts)
      OBVIOUS
    <2> QED BY <1>1, <2>1, <2>2
  <1> QED BY <1>2, <1>3

(* What the stack stands for, one state more.                               *)
LEMMA AllOpenAppend ==
  ASSUME NEW b \in Seq(Waiting), NEW k \in Waiting
  PROVE  /\ AllOpen(b) \in Seq(Parts) /\ AllOpen(Append(b, k)) = AllOpen(b) \o OpenAt(k)
         /\ AllMarks(b) \in Seq(States) /\ AllMarks(Append(b, k)) = AllMarks(b) \o MarkAt(k)
  <1> DEFINE c == Append(b, k)
             open == [i \in DOMAIN b |-> OpenAt(b[i])]
             marks == [i \in DOMAIN b |-> MarkAt(b[i])]
  <1>1. \A s \in Waiting : OpenAt(s) \in Seq(Parts) /\ MarkAt(s) \in Seq(States)
    <2>1. \A s \in Waiting : s \in States \ {"STREAM-START", "END"}
      BY DEF Waiting, States, Continuing, Outside, Marked, Beginning
    <2> QED BY <2>1, OpenAtIs
  <1>2. open \in Seq(Seq(Parts)) /\ marks \in Seq(Seq(States)) /\ Len(open) = Len(b) /\ Len(marks) = Len(b)
    <2>1. DOMAIN b = 1 .. Len(b) /\ Len(b) \in Nat /\ \A i \in DOMAIN b : b[i] \in Waiting
      OBVIOUS
    <2> HIDE DEF Waiting
    <2>2. /\ open = [i \in 1 .. Len(b) |-> OpenAt(b[i])]
          /\ marks = [i \in 1 .. Len(b) |-> MarkAt(b[i])]
      BY <2>1
    <2>3. /\ open \in [1 .. Len(b) -> Seq(Parts)]
          /\ marks \in [1 .. Len(b) -> Seq(States)]
      BY <1>1, <2>1
    <2> HIDE DEF open, marks
    <2>4. \A n \in Nat : /\ \A f \in [1 .. n -> Seq(Parts)] : f \in Seq(Seq(Parts)) /\ Len(f) = n
                       /\ \A f \in [1 .. n -> Seq(States)] : f \in Seq(Seq(States)) /\ Len(f) = n
      OBVIOUS
    <2> QED BY <2>1, <2>3, <2>4
  <1>3. /\ DOMAIN c = 1 .. Len(b) + 1 /\ DOMAIN b = 1 .. Len(b) /\ Len(b) \in Nat
        /\ \A i \in 1 .. Len(b) : c[i] = b[i]
        /\ c[Len(b) + 1] = k
    OBVIOUS
  <1> HIDE DEF c
  <1>4. [i \in DOMAIN c |-> OpenAt(c[i])] = Append(open, OpenAt(k))
    <2>1. \A i \in 1 .. Len(b) + 1 : OpenAt(c[i]) = Append(open, OpenAt(k))[i]
      BY <1>2, <1>3
    <2>2. DOMAIN Append(open, OpenAt(k)) = 1 .. Len(b) + 1
      BY <1>2
    <2> QED BY <1>1, <1>2, <1>3, <2>1, <2>2
  <1>5. [i \in DOMAIN c |-> MarkAt(c[i])] = Append(marks, MarkAt(k))
    <2>1. \A i \in 1 .. Len(b) + 1 : MarkAt(c[i]) = Append(marks, MarkAt(k))[i]
      BY <1>2, <1>3
    <2>2. DOMAIN Append(marks, MarkAt(k)) = 1 .. Len(b) + 1
      BY <1>2
    <2> QED BY <1>1, <1>2, <1>3, <2>1, <2>2
  <1>6. /\ AllOpen(b) = FlattenSeq(open) /\ AllOpen(c) = FlattenSeq(Append(open, OpenAt(k)))
        /\ AllMarks(b) = FlattenSeq(marks) /\ AllMarks(c) = FlattenSeq(Append(marks, MarkAt(k)))
    BY <1>4, <1>5 DEF AllOpen, AllMarks
  <1> HIDE DEF open, marks
  <1> QED BY <1>1, <1>2, <1>6, FlattenAppend DEF c

(* The context below the state of the parser.                               *)
Base(b) == <<"stream">> \o AllOpen(b)

LEMMA BaseAppend ==
  ASSUME NEW b \in Seq(Waiting), NEW k \in Waiting
  PROVE  /\ Base(b) \in Seq(Parts) /\ Base(<<>>) = <<"stream">>
         /\ Base(Append(b, k)) = Base(b) \o OpenAt(k)
  <1>1. AllOpen(b) \in Seq(Parts) /\ AllOpen(Append(b, k)) = AllOpen(b) \o OpenAt(k)
    BY AllOpenAppend
  <1>2. <<"stream">> \in Seq(Parts)
    <2>1. "stream" \in Parts
      BY DEF Parts
    <2> QED BY <2>1, ShortTuples
  <1>3. OpenAt(k) \in Seq(Parts)
    <2>1. k \in States \ {"STREAM-START", "END"}
      BY DEF Waiting, States, Continuing, Outside, Marked, Beginning
    <2> QED BY <2>1, OpenAtIs
  <1>4. Base(b) \in Seq(Parts)
    BY <1>1, <1>2, ConcatProperties DEF Base
  <1>5. Base(Append(b, k)) = Base(b) \o OpenAt(k)
    BY <1>1, <1>2, <1>3, ConcatAssociative DEF Base
  <1>6. Base(<<>>) = <<"stream">>
    <2>1. [i \in DOMAIN <<>> |-> OpenAt(<<>>[i])] = <<>>
      OBVIOUS
    <2>2. AllOpen(<<>>) = <<>>
      BY <2>1, FlattenEmpty DEF AllOpen
    <2> QED BY <1>2, <2>2, ConcatEmptySeq DEF Base
  <1> QED BY <1>4, <1>5, <1>6

(* The steps of YamlEventStream, as a relation between a context, the event *)
(* and the context after it.                                                *)
Turns == {<<"document", "document-end">>, <<"sequence", "sequence">>,
          <<"key", "value">>, <<"value", "key">>}
NodeStep(c, kind, d) ==
  \E rest \in Seq(Parts), top \in Parts, next \in Parts :
    /\ c = Append(rest, top) /\ <<top, next>> \in Turns
    /\ \/ kind \in {"ALIAS", "SCALAR"} /\ d = Append(rest, next)
       \/ kind = "SEQUENCE-START" /\ d = Append(Append(rest, next), "sequence")
       \/ kind = "MAPPING-START" /\ d = Append(Append(rest, next), "key")
EndStep(c, kind, d) ==
  \E top \in {"sequence", "key"} :
    /\ d \in Seq(Parts) /\ c = Append(d, top)
    /\ kind = IF top = "sequence" THEN "SEQUENCE-END" ELSE "MAPPING-END"
DocumentStep(c, kind, d) ==
  \/ c = <<>> /\ kind = "STREAM-START" /\ d = <<"stream">>
  \/ c = <<"stream">> /\ kind = "STREAM-END" /\ d = <<"ended">>
  \/ c = <<"stream">> /\ kind = "DOCUMENT-START" /\ d = <<"stream", "document">>
  \/ c = <<"stream", "document-end">> /\ kind = "DOCUMENT-END" /\ d = <<"stream">>
LastStep(c, kind, d) == kind = "NO-EVENT" /\ d = <<"ended">>
StreamStep(c, kind, d) ==
  NodeStep(c, kind, d) \/ EndStep(c, kind, d) \/ DocumentStep(c, kind, d) \/ LastStep(c, kind, d)

(* They are that.                                                           *)
LEMMA StreamStepIsStep ==
  ASSUME Following, Following', StreamStep(ContextOf(parser), parser'.event.kind, ContextOf(parser'))
  PROVE  EventStream!Next
  <1> DEFINE c == ContextOf(parser)
             d == ContextOf(parser')
             kind == parser'.event.kind
  <1>0. /\ (IF Following THEN ContextOf(parser) ELSE <<>>) = c
        /\ (IF Following THEN ContextOf(parser) ELSE <<>>)' = d
        /\ (IF Following THEN parser.event.kind ELSE "NO-EVENT")' = kind
    OBVIOUS
  <1>1. CASE NodeStep(c, kind, d)
    <2>1. PICK rest \in Seq(Parts), top \in Parts, next \in Parts :
            /\ c = Append(rest, top) /\ <<top, next>> \in Turns
            /\ \/ kind \in {"ALIAS", "SCALAR"} /\ d = Append(rest, next)
               \/ kind = "SEQUENCE-START" /\ d = Append(Append(rest, next), "sequence")
               \/ kind = "MAPPING-START" /\ d = Append(Append(rest, next), "key")
      BY <1>1 DEF NodeStep
    <2>2. c # <<>> /\ c[Len(c)] = top /\ SubSeq(c, 1, Len(c) - 1) = rest
      BY <2>1, AppendTop
    <2>3. top \in DOMAIN EventStream!AfterNode /\ EventStream!AfterNode[top] = next
      BY <2>1 DEF EventStream!AfterNode, Turns
    <2> HIDE DEF c, d, kind
    <2>4. /\ EventStream!NodeExpected
          /\ EventStream!NodeGiven = Append(rest, next)
      BY <1>0, <2>2, <2>3 DEF EventStream!NodeExpected, EventStream!NodeGiven, EventStream!Top, EventStream!Rest
    <2>5. \/ EventStream!Leaf("ALIAS") \/ EventStream!Leaf("SCALAR")
          \/ EventStream!Collection("SEQUENCE-START", "sequence")
          \/ EventStream!Collection("MAPPING-START", "key")
      BY <1>0, <2>1, <2>4 DEF EventStream!Leaf, EventStream!Collection
    <2> QED BY <2>5 DEF EventStream!Next
  <1>2. CASE EndStep(c, kind, d)
    <2>1. PICK top \in {"sequence", "key"} :
            /\ d \in Seq(Parts) /\ c = Append(d, top)
            /\ kind = IF top = "sequence" THEN "SEQUENCE-END" ELSE "MAPPING-END"
      BY <1>2 DEF EndStep
    <2>2. top \in Parts
      BY DEF Parts
    <2>3. c # <<>> /\ c[Len(c)] = top /\ SubSeq(c, 1, Len(c) - 1) = d
      BY <2>1, <2>2, AppendTop
    <2> HIDE DEF c, d, kind
    <2>4. EventStream!SequenceEnd \/ EventStream!MappingEnd
      BY <1>0, <2>1, <2>3 DEF EventStream!SequenceEnd, EventStream!MappingEnd, EventStream!Close,
                              EventStream!Top, EventStream!Rest
    <2> QED BY <2>4 DEF EventStream!Next
  <1>3. CASE DocumentStep(c, kind, d)
    <2>1. /\ Append(<<>>, "stream") = <<"stream">>
          /\ Append(<<"stream">>, "document") = <<"stream", "document">>
          /\ SubSeq(<<"stream", "document-end">>, 1, Len(<<"stream", "document-end">>) - 1) = <<"stream">>
      <3>1. {"stream", "document", "document-end"} \subseteq Parts
        BY DEF Parts
      <3>2. <<"stream">> \in Seq(Parts) /\ <<>> \in Seq(Parts)
        BY <3>1, ShortTuples
      <3>3. <<"stream", "document-end">> = Append(<<"stream">>, "document-end")
        BY <3>1, <3>2, ShortAppends
      <3>4. SubSeq(Append(<<"stream">>, "document-end"), 1, Len(Append(<<"stream">>, "document-end")) - 1)
            = <<"stream">>
        BY <3>1, <3>2, AppendTop
      <3> QED BY <3>1, <3>2, <3>3, <3>4, ShortAppends
    <2> HIDE DEF c, d, kind
    <2>2. \/ EventStream!StreamStart \/ EventStream!StreamEnd
          \/ EventStream!DocumentStart \/ EventStream!DocumentEnd
      BY <1>0, <1>3, <2>1 DEF DocumentStep, EventStream!StreamStart, EventStream!StreamEnd,
         EventStream!DocumentStart, EventStream!DocumentEnd, EventStream!Open, EventStream!Close,
         EventStream!Rest
    <2> QED BY <2>2 DEF EventStream!Next
  <1>4. CASE LastStep(c, kind, d)
    <2> HIDE DEF c, d, kind
    <2>1. EventStream!Refusal \/ EventStream!Silence
      BY <1>0, <1>4 DEF LastStep, EventStream!Refusal, EventStream!Silence
    <2> QED BY <2>1 DEF EventStream!Next
  <1> QED BY <1>1, <1>2, <1>3, <1>4 DEF StreamStep

------------------------------------------------------------------------------
(* The steps of the parser.                                                 *)

(* The parts of a context, and the marks, one by one.                       *)
LEMMA OpenTable ==
  /\ \A s \in {"IMPLICIT-DOCUMENT-START", "DOCUMENT-START"} : OpenAt(s) = <<>>
  /\ \A s \in {"BLOCK-NODE", "DOCUMENT-CONTENT"} : OpenAt(s) = <<"document">>
  /\ OpenAt("DOCUMENT-END") = <<"document-end">>
  /\ \A s \in {"BLOCK-SEQUENCE-FIRST-ENTRY", "BLOCK-SEQUENCE-ENTRY", "INDENTLESS-SEQUENCE-ENTRY",
               "FLOW-SEQUENCE-FIRST-ENTRY", "FLOW-SEQUENCE-ENTRY"} : OpenAt(s) = <<"sequence">>
  /\ \A s \in {"BLOCK-MAPPING-FIRST-KEY", "BLOCK-MAPPING-KEY", "FLOW-MAPPING-FIRST-KEY",
               "FLOW-MAPPING-KEY"} : OpenAt(s) = <<"key">>
  /\ \A s \in {"BLOCK-MAPPING-VALUE", "FLOW-MAPPING-VALUE", "FLOW-MAPPING-EMPTY-VALUE"} :
        OpenAt(s) = <<"value">>
  /\ \A s \in {"FLOW-SEQUENCE-ENTRY-MAPPING-KEY", "FLOW-SEQUENCE-ENTRY-MAPPING-END"} :
        OpenAt(s) = <<"sequence", "key">>
  /\ OpenAt("FLOW-SEQUENCE-ENTRY-MAPPING-VALUE") = <<"sequence", "value">>
  BY DEF OpenAt

(* A state has at most one mark, and those at the beginning have none.      *)
LEMMA MarkTable ==
  /\ \A s \in Marked : Len(MarkAt(s)) = 1
  /\ \A s \in Beginning \cup Outside \cup {"BLOCK-NODE", "DOCUMENT-CONTENT", "INDENTLESS-SEQUENCE-ENTRY"} :
        MarkAt(s) = <<>> /\ Len(MarkAt(s)) = 0
  <1>1. \A s \in Marked : Len(MarkAt(s)) = 1
    BY DEF MarkAt
  <1>2. \A s \in Beginning \cup Outside \cup {"BLOCK-NODE", "DOCUMENT-CONTENT", "INDENTLESS-SEQUENCE-ENTRY"} :
          s \notin Marked
    BY DEF Marked, Beginning, Outside
  <1> QED BY <1>1, <1>2 DEF MarkAt

(* A parser in order.                                                       *)
Sound(p) == IsParser(p) /\ p.size \in Nat /\ ParserInv(p)

(* What a production must make of it, if there is no error.                 *)
Good(p, r) ==
  /\ IsParser(r) /\ r.size = p.size
  /\ r.error = "none" => ParserInv(r) /\ StreamStep(ContextOf(p), r.event.kind, ContextOf(r))

(* A stack inside a document.                                               *)
Stacked(b) == b \in Seq(Waiting) /\ \A i \in DOMAIN b : b[i] = "DOCUMENT-END" <=> i = 1
MayWaitOn(b, next) == (next = "DOCUMENT-END" /\ b = <<>>) \/ (next \in Continuing /\ b # <<>>)

(* The context in a document.                                               *)
LEMMA ContextIs ==
  ASSUME NEW p, p.error = "none", p.state \notin {"STREAM-START", "END"}
  PROVE  ContextOf(p) = Base(Awaited(p)) \o OpenAt(p.state)
  BY DEF ContextOf, Base

(* One state more on the stack.                                             *)
LEMMA StackedAppend ==
  ASSUME NEW b, Stacked(b), NEW next, MayWaitOn(b, next)
  PROVE  /\ next \in Waiting /\ Stacked(Append(b, next)) /\ Append(b, next) # <<>>
         /\ Base(Append(b, next)) = Base(b) \o OpenAt(next)
         /\ Base(b) \in Seq(Parts)
         /\ Len(AllMarks(Append(b, next))) = Len(AllMarks(b)) + Len(MarkAt(next))
         /\ Len(AllMarks(b)) \in Nat /\ Len(MarkAt(next)) \in Nat
  <1>1. next \in Waiting
    BY DEF MayWaitOn, Waiting
  <1>2. Stacked(Append(b, next)) /\ Append(b, next) # <<>>
    <2>1. "DOCUMENT-END" \notin Continuing
      BY DEF Continuing, Marked
    <2> DEFINE c == Append(b, next)
    <2>2. /\ c \in Seq(Waiting) /\ c # <<>> /\ DOMAIN c = 1 .. Len(b) + 1 /\ DOMAIN b = 1 .. Len(b)
          /\ \A i \in 1 .. Len(b) : c[i] = b[i]
          /\ c[Len(b) + 1] = next /\ Len(b) \in Nat /\ (b = <<>> <=> Len(b) = 0)
      BY <1>1 DEF Stacked
    <2> HIDE DEF c
    <2>3. \A i \in DOMAIN c : c[i] = "DOCUMENT-END" <=> i = 1
      <3>1. ASSUME NEW i \in 1 .. Len(b) PROVE c[i] = "DOCUMENT-END" <=> i = 1
        BY <2>2 DEF Stacked
      <3>2. c[Len(b) + 1] = "DOCUMENT-END" <=> Len(b) + 1 = 1
        BY <2>1, <2>2 DEF MayWaitOn
      <3> QED BY <2>2, <3>1, <3>2
    <2> QED BY <2>2, <2>3 DEF Stacked, c
  <1>3. /\ AllMarks(b) \in Seq(States) /\ AllMarks(Append(b, next)) = AllMarks(b) \o MarkAt(next)
    BY <1>1, AllOpenAppend DEF Stacked
  <1>4. MarkAt(next) \in Seq(States)
    <2>1. next \in States \ {"STREAM-START", "END"}
      BY <1>1 DEF Waiting, States, Continuing, Outside, Marked, Beginning
    <2> QED BY <2>1, OpenAtIs
  <1>5. Len(AllMarks(b) \o MarkAt(next)) = Len(AllMarks(b)) + Len(MarkAt(next))
    BY <1>3, <1>4, ConcatProperties
  <1>6. Len(AllMarks(b)) \in Nat /\ Len(MarkAt(next)) \in Nat
    <2> HIDE DEF States
    <2> QED BY <1>3, <1>4, LenProperties
  <1>7. /\ Base(b) \in Seq(Parts)
        /\ Base(Append(b, next)) = Base(b) \o OpenAt(next)
    BY <1>1, BaseAppend DEF Stacked
  <1> QED BY <1>1, <1>2, <1>3, <1>5, <1>6, <1>7

(* The states that wait for a node, and those that follow it.               *)
NodeTurn(s, next) ==
  \E top \in Parts, turned \in Parts :
    /\ <<top, turned>> \in Turns
    /\ \/ OpenAt(s) = <<top>> /\ OpenAt(next) = <<turned>>
       \/ OpenAt(s) = <<"sequence", top>> /\ OpenAt(next) = <<"sequence", turned>>

(* A node has been given, or a collection begins; the parser goes on with   *)
(* "next" after it.                                                         *)
LeafThen(b, r, next) == r.states = b /\ r.state = next /\ r.event.kind \in {"ALIAS", "SCALAR"}
BeginsThen(b, r, next) ==
  /\ r.states = Append(b, next)
  /\ \/ /\ r.event.kind = "SEQUENCE-START"
        /\ r.state \in {"FLOW-SEQUENCE-FIRST-ENTRY", "BLOCK-SEQUENCE-FIRST-ENTRY",
                        "INDENTLESS-SEQUENCE-ENTRY"}
     \/ /\ r.event.kind = "MAPPING-START"
        /\ r.state \in {"FLOW-MAPPING-FIRST-KEY", "BLOCK-MAPPING-FIRST-KEY"}
  /\ Ready(r) /\ ~Sees(r, {"STREAM-END"})

(* That keeps the parser in order.                                          *)
LEMMA NodeKeepsOrder ==
  ASSUME NEW b, Stacked(b), NEW next, MayWaitOn(b, next),
         NEW r, IsParser(r), r.error = "none", ~r.ended,
         r.marks = Len(AllMarks(b)) + Len(MarkAt(next)),
         LeafThen(b, r, next) \/ BeginsThen(b, r, next)
  PROVE  ParserInv(r)
  <1>1. CASE LeafThen(b, r, next)
    <2>1. StackFits(r)
      <3>1. next = "DOCUMENT-END" => next \in Outside
        BY DEF Outside
      <3> QED BY <1>1, <3>1 DEF StackFits, LeafThen, Stacked, MayWaitOn, Waiting
    <2>2. MarksFit(r)
      BY <1>1 DEF MarksFit, LeafThen
    <2>3. r.state \notin Beginning
      BY <1>1 DEF LeafThen, MayWaitOn, Beginning, Continuing, Marked
    <2> QED BY <2>1, <2>2, <2>3 DEF ParserInv, StartAtHand
  <1>2. CASE BeginsThen(b, r, next)
    <2>1. r.state \in Beginning \cup Continuing
      BY <1>2 DEF BeginsThen, Beginning, Continuing
    <2>2. StackFits(r)
      BY <1>2, <2>1, StackedAppend DEF StackFits, BeginsThen, Stacked, Waiting
    <2>3. MarksFit(r)
      <3>1. Len(MarkAt(r.state)) = 0
        <4>1. r.state \in Beginning \cup {"INDENTLESS-SEQUENCE-ENTRY"}
          BY <1>2 DEF BeginsThen, Beginning
        <4> QED BY <4>1, MarkTable
      <3> QED BY <1>2, <3>1, StackedAppend DEF MarksFit, BeginsThen
    <2>4. StartAtHand(r)
      BY <1>2 DEF StartAtHand, BeginsThen, Ready
    <2> QED BY <2>2, <2>3, <2>4 DEF ParserInv
  <1> QED BY <1>1, <1>2

(* And it is a step of the stream.                                          *)
LEMMA NodeIsStep ==
  ASSUME NEW p, p.error = "none", p.state \notin {"STREAM-START", "END"},
         NEW b, b = Awaited(p), Stacked(b), NEW next, MayWaitOn(b, next), NodeTurn(p.state, next),
         NEW r, r.error = "none", LeafThen(b, r, next) \/ BeginsThen(b, r, next)
  PROVE  NodeStep(ContextOf(p), r.event.kind, ContextOf(r))
  <1> DEFINE base == Base(b)
  <1>1. base \in Seq(Parts) /\ Base(Append(b, next)) = base \o OpenAt(next)
    BY StackedAppend
  <1>2. ContextOf(p) = base \o OpenAt(p.state)
    BY ContextIs
  <1>3. {"sequence", "key"} \subseteq Parts
    BY DEF Parts
  <1>4. PICK top \in Parts, turned \in Parts :
          /\ <<top, turned>> \in Turns
          /\ \/ OpenAt(p.state) = <<top>> /\ OpenAt(next) = <<turned>>
             \/ OpenAt(p.state) = <<"sequence", top>> /\ OpenAt(next) = <<"sequence", turned>>
    BY DEF NodeTurn
  <1> HIDE DEF base
  <1>5. PICK rest \in Seq(Parts) :
          ContextOf(p) = Append(rest, top) /\ base \o OpenAt(next) = Append(rest, turned)
    <2>1. CASE OpenAt(p.state) = <<top>> /\ OpenAt(next) = <<turned>>
      <3>1. base \o <<top>> = Append(base, top) /\ base \o <<turned>> = Append(base, turned)
        BY <1>1, ShortAppends
      <3> QED BY <1>1, <1>2, <2>1, <3>1
    <2>2. CASE OpenAt(p.state) = <<"sequence", top>> /\ OpenAt(next) = <<"sequence", turned>>
      <3>1. /\ base \o <<"sequence", top>> = Append(Append(base, "sequence"), top)
            /\ base \o <<"sequence", turned>> = Append(Append(base, "sequence"), turned)
        BY <1>1, <1>3, ShortAppends
      <3>2. Append(base, "sequence") \in Seq(Parts)
        BY <1>1, <1>3, AppendTop
      <3> QED BY <1>2, <2>2, <3>1, <3>2
    <2> QED BY <1>4, <2>1, <2>2
  <1>6. next \notin {"BLOCK-NODE", "DOCUMENT-CONTENT", "STREAM-START", "END"}
    BY DEF MayWaitOn, Continuing, Marked
  <1>7. CASE LeafThen(b, r, next)
    <2>1. Awaited(r) = b
      BY <1>6, <1>7 DEF LeafThen, Awaited
    <2>2. ContextOf(r) = base \o OpenAt(next)
      BY <1>6, <1>7, <2>1, ContextIs DEF LeafThen, base
    <2> QED BY <1>4, <1>5, <1>7, <2>2 DEF NodeStep, LeafThen
  <1>8. CASE BeginsThen(b, r, next)
    <2>1. r.state \notin {"BLOCK-NODE", "DOCUMENT-CONTENT", "STREAM-START", "END"}
      BY <1>8 DEF BeginsThen
    <2>2. Awaited(r) = Append(b, next)
      BY <1>8, <2>1 DEF BeginsThen, Awaited
    <2>3. ContextOf(r) = Append(rest, turned) \o OpenAt(r.state)
      BY <1>1, <1>5, <2>1, <2>2, ContextIs
    <2>4. Append(rest, turned) \in Seq(Parts)
      BY <1>5, AppendTop
    <2>5. \/ r.event.kind = "SEQUENCE-START" /\ OpenAt(r.state) = <<"sequence">>
          \/ r.event.kind = "MAPPING-START" /\ OpenAt(r.state) = <<"key">>
      BY <1>8, OpenTable DEF BeginsThen
    <2>6. /\ Append(rest, turned) \o <<"sequence">> = Append(Append(rest, turned), "sequence")
          /\ Append(rest, turned) \o <<"key">> = Append(Append(rest, turned), "key")
      BY <1>3, <2>4, ShortAppends
    <2>7. \/ r.event.kind = "SEQUENCE-START" /\ ContextOf(r) = Append(Append(rest, turned), "sequence")
          \/ r.event.kind = "MAPPING-START" /\ ContextOf(r) = Append(Append(rest, turned), "key")
      BY <2>3, <2>5, <2>6
    <2> QED BY <1>4, <1>5, <2>7 DEF NodeStep
  <1> QED BY <1>7, <1>8

(* The end of a collection gives back the state below.                      *)
EndsThen(p, r, kind) ==
  /\ r.state = Last(p.states) /\ r.states = Front(p.states)
  /\ r.event.kind = kind /\ r.marks = Len(AllMarks(p.states))

LEMMA EndIsGood ==
  ASSUME NEW p, StackFits(p), p.error = "none", p.state \in Beginning \cup Continuing,
         NEW top \in {"sequence", "key"}, OpenAt(p.state) = <<top>>,
         NEW r, IsParser(r), r.size = p.size, r.error = "none", ~r.ended,
         EndsThen(p, r, IF top = "sequence" THEN "SEQUENCE-END" ELSE "MAPPING-END")
  PROVE  Good(p, r)
  <1> DEFINE s == p.states
             b == Front(s)
             next == Last(s)
  <1>1. Stacked(s) /\ s # <<>>
    <2>1. p.state \notin Outside \cup {"BLOCK-NODE", "DOCUMENT-CONTENT"}
      BY DEF Beginning, Continuing, Marked, Outside
    <2> QED BY <2>1 DEF StackFits, Stacked, Waiting
  <1>2. /\ b \in Seq(Waiting) /\ next \in Waiting /\ s = Append(b, next)
        /\ Len(b) = Len(s) - 1 /\ next = s[Len(s)]
        /\ \A i \in 1 .. Len(s) - 1 : b[i] = s[i]
    <2> HIDE DEF Waiting
    <2> QED BY <1>1, FrontAndLast DEF Stacked
  <1>3. s \in Seq(Waiting) /\ Len(s) \in Nat /\ Len(s) > 0 /\ \A i \in 1 .. Len(s) : s[i] = "DOCUMENT-END" <=> i = 1
    BY <1>1 DEF Stacked
  <1> HIDE DEF s, b, next
  <1>4. Stacked(b) /\ MayWaitOn(b, next)
    <2>1. DOMAIN b = 1 .. Len(s) - 1 /\ (b = <<>> <=> Len(s) = 1)
      BY <1>2, <1>3
    <2>2. \A i \in DOMAIN b : b[i] = "DOCUMENT-END" <=> i = 1
      BY <1>2, <1>3, <2>1
    <2>3. next = "DOCUMENT-END" <=> Len(s) = 1
      BY <1>2, <1>3
    <2> QED BY <1>2, <2>1, <2>2, <2>3 DEF Stacked, MayWaitOn, Waiting
  <1>5. /\ Base(s) = Base(b) \o OpenAt(next) /\ Base(s) \in Seq(Parts)
        /\ Len(AllMarks(s)) = Len(AllMarks(b)) + Len(MarkAt(next))
    <2>1. Base(s) \in Seq(Parts)
      BY <1>2, <1>3, BaseAppend
    <2> QED BY <1>2, <1>4, <2>1, StackedAppend
  <1>6. p.state \notin {"BLOCK-NODE", "DOCUMENT-CONTENT", "STREAM-START", "END"}
    BY DEF Beginning, Continuing, Marked
  <1>7. next \notin {"BLOCK-NODE", "DOCUMENT-CONTENT", "STREAM-START", "END"}
    BY <1>4 DEF MayWaitOn, Continuing, Marked
  <1>8. ContextOf(p) = Append(Base(s), top)
    <2>1. Awaited(p) = s
      BY <1>6 DEF Awaited, s
    <2>2. top \in Parts
      BY DEF Parts
    <2>3. Base(s) \o <<top>> = Append(Base(s), top)
      BY <1>5, <2>2, ShortAppends
    <2> QED BY <1>6, <2>1, <2>3, ContextIs
  <1>9. r.state = next /\ r.states = b
    BY DEF EndsThen, s, b, next
  <1>10. ContextOf(r) = Base(s)
    <2>1. Awaited(r) = b
      BY <1>7, <1>9 DEF Awaited
    <2> QED BY <1>5, <1>7, <1>9, <2>1, ContextIs
  <1>11. EndStep(ContextOf(p), r.event.kind, ContextOf(r))
    BY <1>5, <1>8, <1>10 DEF EndStep, EndsThen
  <1>12. ParserInv(r)
    <2>1. StackFits(r)
      <3>1. next = "DOCUMENT-END" => next \in Outside
        BY DEF Outside
      <3> QED BY <1>4, <1>9, <3>1 DEF StackFits, Stacked, MayWaitOn, Waiting
    <2>2. MarksFit(r)
      BY <1>5, <1>9 DEF MarksFit, EndsThen, s
    <2>3. r.state \notin Beginning
      BY <1>4, <1>9 DEF MayWaitOn, Beginning, Continuing, Marked
    <2> QED BY <2>1, <2>2, <2>3 DEF ParserInv, StartAtHand
  <1> QED BY <1>11, <1>12 DEF Good, StreamStep

------------------------------------------------------------------------------
(* The productions of collections.                                          *)

(* A parser inside a collection, before the next event.                     *)
Inside(p) ==
  /\ Sound(p) /\ p.error = "none" /\ ~p.ended
  /\ p.state \in Beginning \cup Continuing

(* What follows of the stack.                                               *)
LEMMA InsideIs ==
  ASSUME NEW p, Inside(p)
  PROVE  /\ Stacked(p.states) /\ p.states # <<>> /\ Awaited(p) = p.states
         /\ StackFits(p) /\ MarksFit(p) /\ StartAtHand(p)
         /\ p.state \notin {"STREAM-START", "END"}
         /\ Len(AllMarks(p.states)) \in Nat
         /\ \A next \in Continuing : MayWaitOn(p.states, next)
  <1>1. StackFits(p) /\ MarksFit(p) /\ StartAtHand(p)
    BY DEF Inside, Sound, ParserInv
  <1>2. p.state \notin Outside \cup {"BLOCK-NODE", "DOCUMENT-CONTENT"}
    BY DEF Inside, Beginning, Continuing, Marked, Outside
  <1>3. Stacked(p.states) /\ p.states # <<>>
    BY <1>1, <1>2 DEF StackFits, Stacked, Waiting
  <1>4. Awaited(p) = p.states /\ p.state \notin {"STREAM-START", "END"}
    BY <1>2 DEF Awaited, Outside
  <1>5. \A next \in Continuing : MayWaitOn(p.states, next)
    BY <1>3 DEF MayWaitOn
  <1>6. Len(AllMarks(p.states)) \in Nat
    <2>1. "BLOCK-MAPPING-KEY" \in Continuing
      BY DEF Continuing, Marked
    <2> QED BY <1>3, <1>5, <2>1, StackedAppend
  <1> QED BY <1>1, <1>3, <1>4, <1>5, <1>6

(* A parser on its way through a production: the stack is still that of the *)
(* call, and "more" marks are those of the collection it is in.             *)
Within(p, q, more) ==
  /\ Goes(p, q)
  /\ q.states = p.states /\ q.marks = Len(AllMarks(p.states)) + more

(* It looks at a token, or leaves one behind.                               *)
LEMMA PeekWithin ==
  ASSUME NEW p, Inside(p)
  PROVE  Within(p, Peek(p), Len(MarkAt(p.state)))
  <1>1. Keeps(p, Peek(p))
    BY PeekKeeps DEF Inside, Sound
  <1> QED BY <1>1, KeepsGoes, InsideIs DEF Within, Keeps, MarksFit

LEMMA AdvanceWithin ==
  ASSUME NEW p, NEW q, NEW more, Within(p, q, more), ~Sees(q, {"STREAM-END"})
  PROVE  Within(p, Advance(q), more) /\ Within(p, Skip(q), more)
  <1>1. IsParser(q)
    BY DEF Within, Goes
  <1>2. Keeps(q, Advance(q)) /\ Keeps(q, Skip(q))
    BY <1>1, AdvanceKeeps, SkipKeeps
  <1> QED BY <1>2, KeepsGoes DEF Within, Keeps

(* The first call of a collection opens its mark.                           *)
LEMMA EnterWithin ==
  ASSUME NEW p, Inside(p), NEW first \in BOOLEAN,
         (first /\ p.state \in Beginning) \/ (~first /\ p.state \in Marked)
  PROVE  Within(p, Enter(p, first), 1)
  <1>1. IsParser(p) /\ MarksFit(p) /\ StartAtHand(p) /\ p.error = "none"
    BY InsideIs DEF Inside, Sound
  <1>2. CASE first
    <2>1. p.available /\ ~Sees(p, {"STREAM-END"}) /\ p.marks = Len(AllMarks(p.states))
      BY <1>1, <1>2, MarkTable, InsideIs DEF StartAtHand, MarksFit
    <2>2. Peek(p) = p
      BY <1>1, <2>1, PeekKeeps
    <2> DEFINE q == OpenMark(p)
    <2>3. Goes(p, q) /\ SameToken(p, q) /\ q.states = p.states /\ q.marks = p.marks + 1
      BY <1>1, MarkSteps
    <2> HIDE DEF q
    <2>4. Within(p, q, 1) /\ ~Sees(q, {"STREAM-END"})
      BY <2>1, <2>3 DEF Within, SameToken
    <2>5. Within(p, Advance(q), 1)
      BY <2>4, AdvanceWithin
    <2> QED BY <1>2, <2>2, <2>5 DEF Enter, q
  <1>3. CASE ~first
    <2>1. Len(MarkAt(p.state)) = 1
      BY <1>3, MarkTable
    <2> QED BY <1>3, <2>1, PeekWithin DEF Enter
  <1> QED BY <1>2, <1>3

(* A production that fails is good.                                         *)
LEMMA ErrorIsGood ==
  ASSUME NEW p, NEW q, Goes(p, q)
  PROVE  /\ Good(p, Fail(q)) /\ Good(p, Fail(CloseMark(q)))
         /\ Fail(CloseMark(q)).error # "none"
         /\ q.error # "none" => Good(p, q)
  <1>1. IsParser(CloseMark(q)) /\ CloseMark(q).size = q.size
    BY MarkSteps DEF Goes
  <1> QED BY <1>1, FailFails DEF Good, Goes

(* What a production gives for a node is good.                              *)
LEMMA NodeIsGood ==
  ASSUME NEW p, Sound(p), p.error = "none", ~p.ended, p.state \notin {"STREAM-START", "END"},
         Stacked(Awaited(p)), NEW next, MayWaitOn(Awaited(p), next), NodeTurn(p.state, next),
         NEW r, Goes(p, r), r.marks = Len(AllMarks(Awaited(p))) + Len(MarkAt(next)),
         r.error # "none" \/ LeafThen(Awaited(p), r, next) \/ BeginsThen(Awaited(p), r, next)
  PROVE  Good(p, r)
  <1> SUFFICES ASSUME r.error = "none"
               PROVE  ParserInv(r) /\ StreamStep(ContextOf(p), r.event.kind, ContextOf(r))
    BY DEF Good, Goes
  <1>1. IsParser(r) /\ ~r.ended
    BY DEF Goes
  <1>2. ParserInv(r)
    BY <1>1, NodeKeepsOrder
  <1>3. NodeStep(ContextOf(p), r.event.kind, ContextOf(r))
    BY NodeIsStep
  <1> QED BY <1>2, <1>3 DEF StreamStep

(* A node after which the production goes on with the state it has pushed.  *)
LEMMA PushedNodeIsGood ==
  ASSUME NEW p, Inside(p), NEW next \in Continuing, NodeTurn(p.state, next),
         NEW q, Within(p, q, Len(MarkAt(next))),
         NEW block \in BOOLEAN, NEW indentless \in BOOLEAN
  PROVE  Good(p, ParseNode(Push(q, next), block, indentless))
  <1> DEFINE s == Push(q, next)
             r == ParseNode(s, block, indentless)
  <1>1. /\ Stacked(p.states) /\ Awaited(p) = p.states /\ MayWaitOn(p.states, next)
        /\ p.state \notin {"STREAM-START", "END"}
    BY InsideIs
  <1>2. IsParser(q)
    BY DEF Within, Goes
  <1>3. /\ Goes(q, s) /\ s.states = Append(q.states, next) /\ s.marks = q.marks
    BY <1>2, PushStep
  <1> HIDE DEF s
  <1>4. Goes(s, r) /\ (r.error # "none" \/ Given(s, r) \/ Opened(s, r))
    BY <1>3, NodeOutcomes DEF Goes
  <1> HIDE DEF r
  <1>5. Goes(p, r)
    BY <1>3, <1>4, KeepsGoes DEF Within
  <1>6. Last(s.states) = next /\ Front(s.states) = p.states /\ s.states = Append(p.states, next)
    <2>1. next \in Waiting /\ p.states \in Seq(Waiting)
      BY <1>1 DEF Waiting, Stacked
    <2> HIDE DEF Waiting
    <2> QED BY <1>3, <2>1, AppendTop DEF Within
  <1>7. ASSUME r.error = "none"
        PROVE  /\ r.marks = Len(AllMarks(p.states)) + Len(MarkAt(next))
               /\ LeafThen(p.states, r, next) \/ BeginsThen(p.states, r, next)
    BY <1>3, <1>4, <1>6, <1>7 DEF Given, Opened, LeafThen, BeginsThen, Within
  <1>8. CASE r.error # "none"
    BY <1>5, <1>8, ErrorIsGood DEF s, r
  <1>9. CASE r.error = "none"
    <2>1. Good(p, r)
      BY <1>1, <1>5, <1>7, <1>9, NodeIsGood DEF Inside
    <2> QED BY <2>1 DEF s, r
  <1> QED BY <1>8, <1>9

(* The same when the node may be missing.                                   *)
LEMMA NodeOrEmptyIsGood ==
  ASSUME NEW p, Inside(p), NEW next \in Continuing, NodeTurn(p.state, next),
         NEW q, Within(p, q, Len(MarkAt(next))), NEW closers,
         NEW block \in BOOLEAN, NEW indentless \in BOOLEAN
  PROVE  /\ Good(p, NodeOrEmpty(q, closers, next, block, indentless))
         /\ Good(p, Goto(q, next, EmptyScalar))
  <1> DEFINE r == Goto(q, next, EmptyScalar)
  <1>1. IsParser(q)
    BY DEF Within, Goes
  <1>2. /\ Goes(q, r) /\ r.state = next /\ r.states = q.states /\ r.marks = q.marks
        /\ r.event = EmptyScalar
    BY <1>1, GotoStep
  <1>3. EmptyScalar.kind = "SCALAR"
    BY DEF EmptyScalar, Scalar
  <1> HIDE DEF r
  <1>4. LeafThen(p.states, r, next) /\ r.marks = Len(AllMarks(p.states)) + Len(MarkAt(next))
    BY <1>2, <1>3 DEF LeafThen, Within
  <1>5. Goes(p, r)
    BY <1>2, KeepsGoes DEF Within
  <1>6. Good(p, r)
    <2>1. /\ Stacked(p.states) /\ Awaited(p) = p.states /\ MayWaitOn(p.states, next)
          /\ p.state \notin {"STREAM-START", "END"}
      BY InsideIs
    <2> QED BY <1>4, <1>5, <2>1, NodeIsGood DEF Inside
  <1> QED BY <1>6, PushedNodeIsGood DEF NodeOrEmpty, r

(* The end of a collection is good, with its end token or without.          *)
LEMMA EndingIsGood ==
  ASSUME NEW p, Inside(p), NEW top \in {"sequence", "key"}, OpenAt(p.state) = <<top>>,
         NEW q, NEW event, event.kind = IF top = "sequence" THEN "SEQUENCE-END" ELSE "MAPPING-END"
  PROVE  /\ Within(p, q, 0) => Good(p, Return(q, event))
         /\ Within(p, q, 1) /\ ~Sees(q, {"STREAM-END"}) => Good(p, Leave(q, event))
  <1> DEFINE r == Return(q, event)
             c == CloseMark(r)
  <1>1. ASSUME IsParser(q)
        PROVE  /\ Goes(q, r) /\ SameToken(q, r) /\ r.state = Last(q.states)
               /\ r.states = Front(q.states) /\ r.marks = q.marks /\ r.event = event
    BY <1>1, ReturnStep
  <1>2. ASSUME IsParser(r)
        PROVE  /\ Goes(r, c) /\ SameToken(r, c) /\ c.state = r.state /\ c.states = r.states
               /\ c.marks = r.marks - 1 /\ c.event = r.event
    BY <1>2, MarkSteps
  <1>3. Len(AllMarks(p.states)) \in Nat /\ StackFits(p)
    BY InsideIs
  <1> HIDE DEF r, c
  <1>4. ASSUME Within(p, q, 0) PROVE Good(p, r)
    <2>1. Goes(q, r)
      BY <1>1, <1>4 DEF Within, Goes
    <2>2. Goes(p, r)
      BY <1>4, <2>1, KeepsGoes DEF Within
    <2>3. EndsThen(p, r, event.kind)
      BY <1>1, <1>3, <1>4 DEF Within, EndsThen, Goes
    <2>4. CASE r.error = "none"
      BY <1>3, <2>2, <2>3, <2>4, EndIsGood DEF Inside, Goes
    <2> QED BY <2>2, <2>4, ErrorIsGood
  <1>5. ASSUME Within(p, q, 1), ~Sees(q, {"STREAM-END"}) PROVE Good(p, Skip(c))
    <2>1. Goes(q, r) /\ IsParser(r)
      BY <1>1, <1>5 DEF Within, Goes
    <2>2. Goes(r, c) /\ IsParser(c) /\ ~Sees(c, {"STREAM-END"})
      BY <1>1, <1>2, <1>5, <2>1 DEF Goes, SameToken
    <2>3. Keeps(c, Skip(c)) /\ Skip(c).event = c.event
      BY <2>2, SkipKeeps
    <2>4. Goes(p, Skip(c))
      BY <1>5, <2>1, <2>2, <2>3, KeepsGoes DEF Within
    <2>5. EndsThen(p, Skip(c), event.kind)
      BY <1>1, <1>2, <1>3, <1>5, <2>1, <2>2, <2>3 DEF Within, EndsThen, Goes, Keeps
    <2>6. CASE Skip(c).error = "none"
      BY <1>3, <2>4, <2>5, <2>6, EndIsGood DEF Inside, Goes
    <2> QED BY <2>4, <2>6, ErrorIsGood
  <1> QED BY <1>4, <1>5 DEF Leave, r, c

(* The states that follow a node.                                           *)
LEMMA NodeTurns ==
  /\ \A s \in {"BLOCK-NODE", "DOCUMENT-CONTENT"} : NodeTurn(s, "DOCUMENT-END")
  /\ \A s \in {"BLOCK-SEQUENCE-FIRST-ENTRY", "BLOCK-SEQUENCE-ENTRY"} :
        NodeTurn(s, "BLOCK-SEQUENCE-ENTRY")
  /\ NodeTurn("INDENTLESS-SEQUENCE-ENTRY", "INDENTLESS-SEQUENCE-ENTRY")
  /\ \A s \in {"BLOCK-MAPPING-FIRST-KEY", "BLOCK-MAPPING-KEY"} : NodeTurn(s, "BLOCK-MAPPING-VALUE")
  /\ NodeTurn("BLOCK-MAPPING-VALUE", "BLOCK-MAPPING-KEY")
  /\ \A s \in {"FLOW-SEQUENCE-FIRST-ENTRY", "FLOW-SEQUENCE-ENTRY"} : NodeTurn(s, "FLOW-SEQUENCE-ENTRY")
  /\ NodeTurn("FLOW-SEQUENCE-ENTRY-MAPPING-KEY", "FLOW-SEQUENCE-ENTRY-MAPPING-VALUE")
  /\ NodeTurn("FLOW-SEQUENCE-ENTRY-MAPPING-VALUE", "FLOW-SEQUENCE-ENTRY-MAPPING-END")
  /\ \A s \in {"FLOW-MAPPING-FIRST-KEY", "FLOW-MAPPING-KEY"} :
        NodeTurn(s, "FLOW-MAPPING-VALUE") /\ NodeTurn(s, "FLOW-MAPPING-EMPTY-VALUE")
  /\ \A s \in {"FLOW-MAPPING-VALUE", "FLOW-MAPPING-EMPTY-VALUE"} : NodeTurn(s, "FLOW-MAPPING-KEY")
  <1>1. \A top \in Parts, turned \in Parts : \A s, next :
          (/\ <<top, turned>> \in Turns
           /\ \/ OpenAt(s) = <<top>> /\ OpenAt(next) = <<turned>>
              \/ OpenAt(s) = <<"sequence", top>> /\ OpenAt(next) = <<"sequence", turned>>)
          => NodeTurn(s, next)
    BY DEF NodeTurn
  <1>2. /\ {"document", "document-end", "sequence", "key", "value"} \subseteq Parts
        /\ <<"document", "document-end">> \in Turns /\ <<"sequence", "sequence">> \in Turns
        /\ <<"key", "value">> \in Turns /\ <<"value", "key">> \in Turns
    BY DEF Parts, Turns
  <1> QED BY <1>1, <1>2, OpenTable

(* A step after which the stack is as before.                               *)
LEMMA StayingIsGood ==
  ASSUME NEW p, Inside(p), NEW r, r.state \in Continuing, Within(p, r, Len(MarkAt(r.state))),
         StreamStep(Base(p.states) \o OpenAt(p.state), r.event.kind, Base(p.states) \o OpenAt(r.state))
  PROVE  Good(p, r)
  <1> SUFFICES ASSUME r.error = "none"
               PROVE  ParserInv(r) /\ StreamStep(ContextOf(p), r.event.kind, ContextOf(r))
    BY DEF Good, Within, Goes
  <1>1. ~r.ended /\ r.states = p.states
    BY DEF Within, Goes, Inside
  <1>2. r.state \notin Beginning \cup {"STREAM-START", "END", "BLOCK-NODE", "DOCUMENT-CONTENT"}
    BY DEF Continuing, Marked, Beginning
  <1>3. ParserInv(r)
    <2>1. StackFits(r)
      BY <1>1, InsideIs DEF StackFits, Stacked, Waiting
    <2>2. MarksFit(r)
      BY <1>1 DEF MarksFit, Within
    <2> QED BY <1>1, <1>2, <2>1, <2>2 DEF ParserInv, StartAtHand
  <1>4. ContextOf(r) = Base(p.states) \o OpenAt(r.state)
    <2>1. Awaited(r) = p.states
      BY <1>1, <1>2 DEF Awaited
    <2> QED BY <1>2, <2>1, ContextIs
  <1>5. ContextOf(p) = Base(p.states) \o OpenAt(p.state)
    BY InsideIs, ContextIs DEF Inside
  <1> QED BY <1>3, <1>4, <1>5

(* A pair in a flow sequence is a mapping of its own, without a mark.       *)
LEMMA PairIsGood ==
  ASSUME NEW p, Inside(p), NEW q, Within(p, q, 1)
  PROVE  /\ p.state \in {"FLOW-SEQUENCE-FIRST-ENTRY", "FLOW-SEQUENCE-ENTRY"}
               /\ ~Sees(q, {"STREAM-END"})
            => Good(p, Skip(Goto(q, "FLOW-SEQUENCE-ENTRY-MAPPING-KEY",
                                 MappingStart(Null, Null, TRUE, "flow"))))
         /\ p.state = "FLOW-SEQUENCE-ENTRY-MAPPING-END"
            => Good(p, Goto(q, "FLOW-SEQUENCE-ENTRY", MappingEnd))
  <1> DEFINE base == Base(p.states)
             inner == "FLOW-SEQUENCE-ENTRY-MAPPING-KEY"
             start == MappingStart(Null, Null, TRUE, "flow")
             begun == Goto(q, inner, start)
             ended == Goto(q, "FLOW-SEQUENCE-ENTRY", MappingEnd)
  <1>0. IsParser(q)
    BY DEF Within, Goes
  <1>1. /\ base \in Seq(Parts) /\ {"sequence", "key"} \subseteq Parts
        /\ <<"sequence", "sequence">> \in Turns
    <2>1. Stacked(p.states) /\ MayWaitOn(p.states, "FLOW-MAPPING-KEY")
      BY InsideIs DEF Continuing, Marked
    <2> QED BY <2>1, StackedAppend DEF Parts, Turns
  <1>2. /\ base \o <<"sequence">> = Append(base, "sequence")
        /\ base \o <<"sequence", "key">> = Append(Append(base, "sequence"), "key")
        /\ Append(base, "sequence") \in Seq(Parts)
    BY <1>1, ShortAppends, AppendTop
  <1>3. inner \in Marked /\ "FLOW-SEQUENCE-ENTRY" \in Marked /\ Marked \subseteq Continuing
    BY DEF Continuing, Marked
  <1>4. Len(MarkAt(inner)) = 1 /\ Len(MarkAt("FLOW-SEQUENCE-ENTRY")) = 1
    BY <1>3, MarkTable
  <1>5. OpenAt(inner) = <<"sequence", "key">> /\ OpenAt("FLOW-SEQUENCE-ENTRY") = <<"sequence">>
    BY OpenTable
  <1> HIDE DEF base
  <1>6. ASSUME p.state \in {"FLOW-SEQUENCE-FIRST-ENTRY", "FLOW-SEQUENCE-ENTRY"}, ~Sees(q, {"STREAM-END"})
        PROVE  Good(p, Skip(begun))
    <2>2. start.kind = "MAPPING-START"
      BY DEF MappingStart, Collection
    <2> HIDE DEF start
    <2>1. /\ Goes(q, begun) /\ SameToken(q, begun) /\ begun.state = inner /\ begun.states = q.states
          /\ begun.marks = q.marks /\ begun.event = start
      BY <1>0, GotoStep
    <2> HIDE DEF begun, inner
    <2>3. Keeps(begun, Skip(begun)) /\ Skip(begun).event = start
      BY <1>6, <2>1, SkipKeeps DEF Goes, SameToken
    <2>4. Within(p, Skip(begun), 1) /\ Skip(begun).state = inner
      BY <2>1, <2>3, KeepsGoes DEF Within, Keeps
    <2>5. NodeStep(base \o <<"sequence">>, "MAPPING-START", base \o <<"sequence", "key">>)
      BY <1>1, <1>2 DEF NodeStep
    <2>6. OpenAt(p.state) = <<"sequence">>
      BY <1>6, OpenTable
    <2> QED BY <1>3, <1>4, <1>5, <2>2, <2>3, <2>4, <2>5, <2>6, StayingIsGood DEF StreamStep, base
  <1>7. ASSUME p.state = "FLOW-SEQUENCE-ENTRY-MAPPING-END" PROVE Good(p, ended)
    <2>1. /\ Goes(q, ended) /\ ended.state = "FLOW-SEQUENCE-ENTRY" /\ ended.states = q.states
          /\ ended.marks = q.marks /\ ended.event = MappingEnd
      BY <1>0, GotoStep
    <2>2. MappingEnd.kind = "MAPPING-END"
      BY DEF MappingEnd, Event
    <2> HIDE DEF ended
    <2>4. Within(p, ended, 1)
      BY <2>1, KeepsGoes DEF Within
    <2>5. EndStep(base \o <<"sequence", "key">>, "MAPPING-END", base \o <<"sequence">>)
      BY <1>1, <1>2 DEF EndStep
    <2>6. OpenAt(p.state) = <<"sequence", "key">>
      BY <1>7, OpenTable
    <2> QED BY <1>3, <1>4, <1>5, <2>1, <2>2, <2>4, <2>5, <2>6, StayingIsGood DEF StreamStep, base
  <1> QED BY <1>6, <1>7

------------------------------------------------------------------------------
(* The productions of collections, one by one.                              *)

(* The tokens the productions look for are not the last one.                *)
LEMMA NotTheEnd ==
  ASSUME NEW q, NEW types, Sees(q, types), "STREAM-END" \notin types
  PROVE  ~Sees(q, {"STREAM-END"})
  BY DEF Sees

(* The events at the ends.                                                  *)
LEMMA EndKinds == SequenceEnd.kind = "SEQUENCE-END" /\ MappingEnd.kind = "MAPPING-END"
  BY DEF SequenceEnd, MappingEnd, Event

(* A block sequence.                                                        *)
LEMMA BlockSequenceIsGood ==
  ASSUME NEW p, Inside(p), NEW first \in BOOLEAN,
         p.state = IF first THEN "BLOCK-SEQUENCE-FIRST-ENTRY" ELSE "BLOCK-SEQUENCE-ENTRY"
  PROVE  Good(p, ParseBlockSequenceEntry(p, first))
  <1> DEFINE q == Enter(p, first)
  <1>1. /\ "BLOCK-SEQUENCE-ENTRY" \in Marked /\ "BLOCK-SEQUENCE-ENTRY" \in Continuing
        /\ "BLOCK-SEQUENCE-FIRST-ENTRY" \in Beginning
    BY DEF Marked, Continuing, Beginning
  <1>2. Within(p, q, 1)
    BY <1>1, EnterWithin
  <1>3. Len(MarkAt("BLOCK-SEQUENCE-ENTRY")) = 1 /\ NodeTurn(p.state, "BLOCK-SEQUENCE-ENTRY")
    BY <1>1, MarkTable, NodeTurns
  <1>4. OpenAt(p.state) = <<"sequence">>
    BY OpenTable
  <1> HIDE DEF q
  <1>5. CASE Sees(q, {"BLOCK-ENTRY"})
    <2>1. Within(p, Advance(q), 1)
      BY <1>2, <1>5, NotTheEnd, AdvanceWithin
    <2>2. Good(p, NodeOrEmpty(Advance(q), {"BLOCK-ENTRY", "BLOCK-END"},
                              "BLOCK-SEQUENCE-ENTRY", TRUE, FALSE))
      BY <1>1, <1>3, <2>1, NodeOrEmptyIsGood
    <2>3. ~Sees(q, {"BLOCK-END"})
      BY <1>5 DEF Sees
    <2> QED BY <1>5, <2>2, <2>3 DEF ParseBlockSequenceEntry, q
  <1>6. CASE Sees(q, {"BLOCK-END"})
    <2>1. Good(p, Leave(q, SequenceEnd))
      BY <1>2, <1>4, <1>6, NotTheEnd, EndKinds, EndingIsGood
    <2>2. ~Sees(q, {"BLOCK-ENTRY"})
      BY <1>6 DEF Sees
    <2> QED BY <1>6, <2>1, <2>2 DEF ParseBlockSequenceEntry, q
  <1>7. CASE ~Sees(q, {"BLOCK-ENTRY"}) /\ ~Sees(q, {"BLOCK-END"})
    <2>1. Good(p, Fail(CloseMark(q)))
      BY <1>2, ErrorIsGood DEF Within
    <2> QED BY <1>7, <2>1 DEF ParseBlockSequenceEntry, q
  <1> QED BY <1>5, <1>6, <1>7

(* A block sequence without an indentation of its own has no end token.     *)
LEMMA IndentlessSequenceIsGood ==
  ASSUME NEW p, Inside(p), p.state = "INDENTLESS-SEQUENCE-ENTRY"
  PROVE  Good(p, ParseIndentlessSequenceEntry(p))
  <1> DEFINE q == Peek(p)
  <1>1. /\ "INDENTLESS-SEQUENCE-ENTRY" \in Continuing
        /\ Len(MarkAt("INDENTLESS-SEQUENCE-ENTRY")) = 0
        /\ NodeTurn(p.state, "INDENTLESS-SEQUENCE-ENTRY")
        /\ OpenAt(p.state) = <<"sequence">>
    <2>1. "INDENTLESS-SEQUENCE-ENTRY" \in Continuing
      BY DEF Continuing
    <2> QED BY <2>1, MarkTable, NodeTurns, OpenTable
  <1>2. Within(p, q, 0)
    BY <1>1, PeekWithin
  <1> HIDE DEF q
  <1>3. CASE Sees(q, {"BLOCK-ENTRY"})
    <2>1. Within(p, Advance(q), 0)
      BY <1>2, <1>3, NotTheEnd, AdvanceWithin
    <2>2. Good(p, NodeOrEmpty(Advance(q), {"BLOCK-ENTRY", "KEY", "VALUE", "BLOCK-END"},
                              "INDENTLESS-SEQUENCE-ENTRY", TRUE, FALSE))
      BY <1>1, <2>1, NodeOrEmptyIsGood
    <2> QED BY <1>3, <2>2 DEF ParseIndentlessSequenceEntry, q
  <1>4. CASE ~Sees(q, {"BLOCK-ENTRY"})
    <2>1. Good(p, Return(q, SequenceEnd))
      BY <1>1, <1>2, EndKinds, EndingIsGood
    <2> QED BY <1>4, <2>1 DEF ParseIndentlessSequenceEntry, q
  <1> QED BY <1>3, <1>4

(* The key of a block mapping.                                              *)
LEMMA BlockMappingKeyIsGood ==
  ASSUME NEW p, Inside(p), NEW first \in BOOLEAN,
         p.state = IF first THEN "BLOCK-MAPPING-FIRST-KEY" ELSE "BLOCK-MAPPING-KEY"
  PROVE  Good(p, ParseBlockMappingKey(p, first))
  <1> DEFINE q == Enter(p, first)
  <1>1. /\ "BLOCK-MAPPING-KEY" \in Marked /\ "BLOCK-MAPPING-VALUE" \in Marked
        /\ "BLOCK-MAPPING-VALUE" \in Continuing /\ "BLOCK-MAPPING-FIRST-KEY" \in Beginning
    BY DEF Marked, Continuing, Beginning
  <1>2. Within(p, q, 1)
    BY <1>1, EnterWithin
  <1>3. Len(MarkAt("BLOCK-MAPPING-VALUE")) = 1 /\ NodeTurn(p.state, "BLOCK-MAPPING-VALUE")
    BY <1>1, MarkTable, NodeTurns
  <1>4. OpenAt(p.state) = <<"key">>
    BY OpenTable
  <1> HIDE DEF q
  <1>5. CASE Sees(q, {"KEY"})
    <2>1. Within(p, Advance(q), 1)
      BY <1>2, <1>5, NotTheEnd, AdvanceWithin
    <2>2. Good(p, NodeOrEmpty(Advance(q), {"KEY", "VALUE", "BLOCK-END"},
                              "BLOCK-MAPPING-VALUE", TRUE, TRUE))
      BY <1>1, <1>3, <2>1, NodeOrEmptyIsGood
    <2>3. ~Sees(q, {"BLOCK-END"})
      BY <1>5 DEF Sees
    <2> QED BY <1>5, <2>2, <2>3 DEF ParseBlockMappingKey, q
  <1>6. CASE Sees(q, {"BLOCK-END"})
    <2>1. Good(p, Leave(q, MappingEnd))
      BY <1>2, <1>4, <1>6, NotTheEnd, EndKinds, EndingIsGood
    <2>2. ~Sees(q, {"KEY"})
      BY <1>6 DEF Sees
    <2> QED BY <1>6, <2>1, <2>2 DEF ParseBlockMappingKey, q
  <1>7. CASE ~Sees(q, {"KEY"}) /\ ~Sees(q, {"BLOCK-END"})
    <2>1. Good(p, Fail(CloseMark(q)))
      BY <1>2, ErrorIsGood DEF Within
    <2> QED BY <1>7, <2>1 DEF ParseBlockMappingKey, q
  <1> QED BY <1>5, <1>6, <1>7

(* A state inside a collection with an end token that does not begin it.    *)
LEMMA MarkedWithin ==
  ASSUME NEW p, Inside(p), NEW next \in Marked, p.state \in Marked
  PROVE  Within(p, Peek(p), 1) /\ next \in Continuing /\ Len(MarkAt(next)) = 1
  <1>1. Len(MarkAt(p.state)) = 1 /\ Len(MarkAt(next)) = 1
    BY MarkTable
  <1> QED BY <1>1, PeekWithin DEF Continuing

(* The value of a block mapping.                                            *)
LEMMA BlockMappingValueIsGood ==
  ASSUME NEW p, Inside(p), p.state = "BLOCK-MAPPING-VALUE"
  PROVE  Good(p, ParseBlockMappingValue(p))
  <1> DEFINE q == Peek(p)
  <1>1. /\ Within(p, q, 1) /\ "BLOCK-MAPPING-KEY" \in Continuing
        /\ Len(MarkAt("BLOCK-MAPPING-KEY")) = 1
    <2>1. p.state \in Marked /\ "BLOCK-MAPPING-KEY" \in Marked
      BY DEF Marked
    <2> QED BY <2>1, MarkedWithin
  <1>2. NodeTurn(p.state, "BLOCK-MAPPING-KEY")
    BY NodeTurns
  <1> HIDE DEF q
  <1>3. CASE Sees(q, {"VALUE"})
    <2>1. Within(p, Advance(q), 1)
      BY <1>1, <1>3, NotTheEnd, AdvanceWithin
    <2>2. Good(p, NodeOrEmpty(Advance(q), {"KEY", "VALUE", "BLOCK-END"},
                              "BLOCK-MAPPING-KEY", TRUE, TRUE))
      BY <1>1, <1>2, <2>1, NodeOrEmptyIsGood
    <2> QED BY <1>3, <2>2 DEF ParseBlockMappingValue, q
  <1>4. CASE ~Sees(q, {"VALUE"})
    <2>1. Good(p, Goto(q, "BLOCK-MAPPING-KEY", EmptyScalar))
      BY <1>1, <1>2, NodeOrEmptyIsGood
    <2> QED BY <1>4, <2>1 DEF ParseBlockMappingValue, q
  <1> QED BY <1>3, <1>4

(* The separator between entries is skipped, or missed.                     *)
LEMMA AfterCommaWithin ==
  ASSUME NEW p, NEW q, Within(p, q, 1), NEW first \in BOOLEAN
  PROVE  LET r == AfterComma(q, first)
         IN Goes(p, r) /\ (r.error # "none" \/ Within(p, r, 1))
  <1>1. CASE first
    BY <1>1 DEF AfterComma, Within
  <1>2. CASE ~first /\ Sees(q, {"FLOW-ENTRY"})
    <2>1. Within(p, Advance(q), 1)
      BY <1>2, NotTheEnd, AdvanceWithin
    <2> QED BY <1>2, <2>1 DEF AfterComma, Within
  <1>3. CASE ~first /\ ~Sees(q, {"FLOW-ENTRY"})
    <2>1. IsParser(CloseMark(q)) /\ CloseMark(q).size = q.size /\ Goes(p, q)
      BY MarkSteps DEF Within, Goes
    <2>2. Goes(p, Fail(CloseMark(q))) /\ Fail(CloseMark(q)).error # "none"
      BY <2>1, FailFails DEF Goes
    <2> QED BY <1>3, <2>2 DEF AfterComma
  <1> QED BY <1>1, <1>2, <1>3

(* A flow sequence.                                                         *)
LEMMA FlowSequenceIsGood ==
  ASSUME NEW p, Inside(p), NEW first \in BOOLEAN,
         p.state = IF first THEN "FLOW-SEQUENCE-FIRST-ENTRY" ELSE "FLOW-SEQUENCE-ENTRY"
  PROVE  Good(p, ParseFlowSequenceEntry(p, first))
  <1> DEFINE q == Enter(p, first)
             r == AfterComma(q, first)
  <1>1. /\ "FLOW-SEQUENCE-ENTRY" \in Marked /\ "FLOW-SEQUENCE-ENTRY" \in Continuing
        /\ "FLOW-SEQUENCE-FIRST-ENTRY" \in Beginning
    BY DEF Marked, Continuing, Beginning
  <1>2. Within(p, q, 1)
    BY <1>1, EnterWithin
  <1>3. Len(MarkAt("FLOW-SEQUENCE-ENTRY")) = 1 /\ NodeTurn(p.state, "FLOW-SEQUENCE-ENTRY")
    BY <1>1, MarkTable, NodeTurns
  <1>4. OpenAt(p.state) = <<"sequence">>
    BY OpenTable
  <1> HIDE DEF q
  <1>5. Goes(p, r) /\ (r.error # "none" \/ Within(p, r, 1))
    BY <1>2, AfterCommaWithin
  <1>6. \A s : Within(p, s, 1) /\ Sees(s, {"FLOW-SEQUENCE-END"}) => Good(p, Leave(s, SequenceEnd))
    BY <1>4, NotTheEnd, EndKinds, EndingIsGood
  <1> HIDE DEF r
  <1>7. CASE Sees(q, {"FLOW-SEQUENCE-END"})
    BY <1>2, <1>6, <1>7 DEF ParseFlowSequenceEntry, q
  <1>8. CASE ~Sees(q, {"FLOW-SEQUENCE-END"}) /\ r.error # "none"
    <2>1. Good(p, r)
      BY <1>5, <1>8, ErrorIsGood
    <2> QED BY <1>8, <2>1 DEF ParseFlowSequenceEntry, q, r
  <1>9. CASE ~Sees(q, {"FLOW-SEQUENCE-END"}) /\ r.error = "none"
    <2>1. Within(p, r, 1)
      BY <1>5, <1>9
    <2>2. CASE Sees(r, {"FLOW-SEQUENCE-END"})
      <3>1. ~Sees(r, {"KEY"})
        BY <2>2 DEF Sees
      <3> QED BY <1>6, <1>9, <2>1, <2>2, <3>1 DEF ParseFlowSequenceEntry, q, r
    <2>3. CASE Sees(r, {"KEY"})
      <3>1. ~Sees(r, {"FLOW-SEQUENCE-END"})
        BY <2>3 DEF Sees
      <3>2. Good(p, Skip(Goto(r, "FLOW-SEQUENCE-ENTRY-MAPPING-KEY",
                              MappingStart(Null, Null, TRUE, "flow"))))
        BY <2>1, <2>3, NotTheEnd, PairIsGood
      <3> QED BY <1>9, <2>3, <3>1, <3>2 DEF ParseFlowSequenceEntry, q, r
    <2>4. CASE ~Sees(r, {"FLOW-SEQUENCE-END"}) /\ ~Sees(r, {"KEY"})
      <3>1. Good(p, ParseNode(Push(r, "FLOW-SEQUENCE-ENTRY"), FALSE, FALSE))
        BY <1>1, <1>3, <2>1, PushedNodeIsGood
      <3> QED BY <1>9, <2>4, <3>1 DEF ParseFlowSequenceEntry, q, r
    <2> QED BY <2>2, <2>3, <2>4
  <1> QED BY <1>7, <1>8, <1>9

(* A pair in it.                                                            *)
LEMMA FlowPairIsGood ==
  ASSUME NEW p, Inside(p)
  PROVE  /\ p.state = "FLOW-SEQUENCE-ENTRY-MAPPING-KEY"
               => Good(p, ParseFlowSequenceEntryMappingKey(p))
         /\ p.state = "FLOW-SEQUENCE-ENTRY-MAPPING-VALUE"
               => Good(p, ParseFlowSequenceEntryMappingValue(p))
         /\ p.state = "FLOW-SEQUENCE-ENTRY-MAPPING-END"
               => Good(p, ParseFlowSequenceEntryMappingEnd(p))
  <1> DEFINE q == Peek(p)
             pair == {"FLOW-SEQUENCE-ENTRY-MAPPING-KEY", "FLOW-SEQUENCE-ENTRY-MAPPING-VALUE",
                      "FLOW-SEQUENCE-ENTRY-MAPPING-END"}
  <1>1. ASSUME p.state \in pair
        PROVE  Within(p, q, 1) /\ \A next \in pair : next \in Continuing /\ Len(MarkAt(next)) = 1
    <2>1. pair \subseteq Marked
      BY DEF Marked
    <2> HIDE DEF pair
    <2> QED BY <1>1, <2>1, MarkedWithin
  <1> HIDE DEF q
  <1>2. ASSUME p.state = "FLOW-SEQUENCE-ENTRY-MAPPING-KEY"
        PROVE  Good(p, ParseFlowSequenceEntryMappingKey(p))
    <2>1. /\ Within(p, q, 1) /\ "FLOW-SEQUENCE-ENTRY-MAPPING-VALUE" \in Continuing
          /\ Len(MarkAt("FLOW-SEQUENCE-ENTRY-MAPPING-VALUE")) = 1
          /\ NodeTurn(p.state, "FLOW-SEQUENCE-ENTRY-MAPPING-VALUE")
      BY <1>1, <1>2, NodeTurns
    <2>2. CASE Sees(q, {"VALUE", "FLOW-ENTRY", "FLOW-SEQUENCE-END"})
      <3>1. Within(p, Skip(q), 1)
        BY <2>1, <2>2, NotTheEnd, AdvanceWithin
      <3>2. Good(p, Goto(Skip(q), "FLOW-SEQUENCE-ENTRY-MAPPING-VALUE", EmptyScalar))
        BY <2>1, <3>1, NodeOrEmptyIsGood
      <3> QED BY <2>2, <3>2 DEF ParseFlowSequenceEntryMappingKey, q
    <2>3. CASE ~Sees(q, {"VALUE", "FLOW-ENTRY", "FLOW-SEQUENCE-END"})
      <3>1. Good(p, ParseNode(Push(q, "FLOW-SEQUENCE-ENTRY-MAPPING-VALUE"), FALSE, FALSE))
        BY <2>1, PushedNodeIsGood
      <3> QED BY <2>3, <3>1 DEF ParseFlowSequenceEntryMappingKey, q
    <2> QED BY <2>2, <2>3
  <1>3. ASSUME p.state = "FLOW-SEQUENCE-ENTRY-MAPPING-VALUE"
        PROVE  Good(p, ParseFlowSequenceEntryMappingValue(p))
    <2>1. /\ Within(p, q, 1) /\ "FLOW-SEQUENCE-ENTRY-MAPPING-END" \in Continuing
          /\ Len(MarkAt("FLOW-SEQUENCE-ENTRY-MAPPING-END")) = 1
          /\ NodeTurn(p.state, "FLOW-SEQUENCE-ENTRY-MAPPING-END")
      BY <1>1, <1>3, NodeTurns
    <2>2. CASE Sees(q, {"VALUE"})
      <3>1. Within(p, Advance(q), 1)
        BY <2>1, <2>2, NotTheEnd, AdvanceWithin
      <3>2. Good(p, NodeOrEmpty(Advance(q), {"FLOW-ENTRY", "FLOW-SEQUENCE-END"},
                                "FLOW-SEQUENCE-ENTRY-MAPPING-END", FALSE, FALSE))
        BY <2>1, <3>1, NodeOrEmptyIsGood
      <3> QED BY <2>2, <3>2 DEF ParseFlowSequenceEntryMappingValue, q
    <2>3. CASE ~Sees(q, {"VALUE"})
      <3>1. Good(p, Goto(q, "FLOW-SEQUENCE-ENTRY-MAPPING-END", EmptyScalar))
        BY <2>1, NodeOrEmptyIsGood
      <3> QED BY <2>3, <3>1 DEF ParseFlowSequenceEntryMappingValue, q
    <2> QED BY <2>2, <2>3
  <1>4. ASSUME p.state = "FLOW-SEQUENCE-ENTRY-MAPPING-END"
        PROVE  Good(p, ParseFlowSequenceEntryMappingEnd(p))
    <2>1. Within(p, q, 1)
      BY <1>1, <1>4
    <2> QED BY <1>4, <2>1, PairIsGood DEF ParseFlowSequenceEntryMappingEnd, q
  <1> QED BY <1>2, <1>3, <1>4

(* The key of a flow mapping.                                               *)
LEMMA FlowMappingKeyIsGood ==
  ASSUME NEW p, Inside(p), NEW first \in BOOLEAN,
         p.state = IF first THEN "FLOW-MAPPING-FIRST-KEY" ELSE "FLOW-MAPPING-KEY"
  PROVE  Good(p, ParseFlowMappingKey(p, first))
  <1> DEFINE q == Enter(p, first)
             r == AfterComma(q, first)
  <1>1. /\ "FLOW-MAPPING-KEY" \in Marked /\ "FLOW-MAPPING-FIRST-KEY" \in Beginning
        /\ \A next \in {"FLOW-MAPPING-VALUE", "FLOW-MAPPING-EMPTY-VALUE"} :
              next \in Marked /\ next \in Continuing
    BY DEF Marked, Continuing, Beginning
  <1>2. Within(p, q, 1)
    BY <1>1, EnterWithin
  <1>3. \A next \in {"FLOW-MAPPING-VALUE", "FLOW-MAPPING-EMPTY-VALUE"} :
          Len(MarkAt(next)) = 1 /\ NodeTurn(p.state, next)
    BY <1>1, MarkTable, NodeTurns
  <1>4. OpenAt(p.state) = <<"key">>
    BY OpenTable
  <1> HIDE DEF q
  <1>5. Goes(p, r) /\ (r.error # "none" \/ Within(p, r, 1))
    BY <1>2, AfterCommaWithin
  <1>6. \A s : Within(p, s, 1) /\ Sees(s, {"FLOW-MAPPING-END"}) => Good(p, Leave(s, MappingEnd))
    BY <1>4, NotTheEnd, EndKinds, EndingIsGood
  <1> HIDE DEF r
  <1>7. CASE Sees(q, {"FLOW-MAPPING-END"})
    BY <1>2, <1>6, <1>7 DEF ParseFlowMappingKey, q
  <1>8. CASE ~Sees(q, {"FLOW-MAPPING-END"}) /\ r.error # "none"
    <2>1. Good(p, r)
      BY <1>5, <1>8, ErrorIsGood
    <2> QED BY <1>8, <2>1 DEF ParseFlowMappingKey, q, r
  <1>9. CASE ~Sees(q, {"FLOW-MAPPING-END"}) /\ r.error = "none"
    <2>1. Within(p, r, 1)
      BY <1>5, <1>9
    <2>2. CASE Sees(r, {"FLOW-MAPPING-END"})
      <3>1. ~Sees(r, {"KEY"})
        BY <2>2 DEF Sees
      <3> QED BY <1>6, <1>9, <2>1, <2>2, <3>1 DEF ParseFlowMappingKey, q, r
    <2>3. CASE Sees(r, {"KEY"})
      <3>1. ~Sees(r, {"FLOW-MAPPING-END"})
        BY <2>3 DEF Sees
      <3>2. Within(p, Advance(r), 1)
        BY <2>1, <2>3, NotTheEnd, AdvanceWithin
      <3>3. Good(p, NodeOrEmpty(Advance(r), {"VALUE", "FLOW-ENTRY", "FLOW-MAPPING-END"},
                                "FLOW-MAPPING-VALUE", FALSE, FALSE))
        BY <1>1, <1>3, <3>2, NodeOrEmptyIsGood
      <3> QED BY <1>9, <2>3, <3>1, <3>3 DEF ParseFlowMappingKey, q, r
    <2>4. CASE ~Sees(r, {"FLOW-MAPPING-END"}) /\ ~Sees(r, {"KEY"})
      <3>1. Good(p, ParseNode(Push(r, "FLOW-MAPPING-EMPTY-VALUE"), FALSE, FALSE))
        BY <1>1, <1>3, <2>1, PushedNodeIsGood
      <3> QED BY <1>9, <2>4, <3>1 DEF ParseFlowMappingKey, q, r
    <2> QED BY <2>2, <2>3, <2>4
  <1> QED BY <1>7, <1>8, <1>9

(* The value of a flow mapping.                                             *)
LEMMA FlowMappingValueIsGood ==
  ASSUME NEW p, Inside(p), NEW empty \in BOOLEAN,
         p.state = IF empty THEN "FLOW-MAPPING-EMPTY-VALUE" ELSE "FLOW-MAPPING-VALUE"
  PROVE  Good(p, ParseFlowMappingValue(p, empty))
  <1> DEFINE q == Peek(p)
  <1>1. /\ Within(p, q, 1) /\ "FLOW-MAPPING-KEY" \in Continuing
        /\ Len(MarkAt("FLOW-MAPPING-KEY")) = 1
    <2>1. p.state \in Marked /\ "FLOW-MAPPING-KEY" \in Marked
      BY DEF Marked
    <2> QED BY <2>1, MarkedWithin
  <1>2. NodeTurn(p.state, "FLOW-MAPPING-KEY")
    BY NodeTurns
  <1> HIDE DEF q
  <1>3. CASE ~empty /\ Sees(q, {"VALUE"})
    <2>1. Within(p, Advance(q), 1)
      BY <1>1, <1>3, NotTheEnd, AdvanceWithin
    <2>2. Good(p, NodeOrEmpty(Advance(q), {"FLOW-ENTRY", "FLOW-MAPPING-END"},
                              "FLOW-MAPPING-KEY", FALSE, FALSE))
      BY <1>1, <1>2, <2>1, NodeOrEmptyIsGood
    <2> QED BY <1>3, <2>2 DEF ParseFlowMappingValue, q
  <1>4. CASE ~(~empty /\ Sees(q, {"VALUE"}))
    <2>1. Good(p, Goto(q, "FLOW-MAPPING-KEY", EmptyScalar))
      BY <1>1, <1>2, NodeOrEmptyIsGood
    <2> QED BY <1>4, <2>1 DEF ParseFlowMappingValue, q
  <1> QED BY <1>3, <1>4

------------------------------------------------------------------------------
(* The productions of the stream and of documents.                          *)

(* The events of documents.                                                 *)
LEMMA DocumentKinds ==
  /\ \A enc : StreamStart(enc).kind = "STREAM-START"
  /\ StreamEnd.kind = "STREAM-END"
  /\ \A version, tags, implicit : DocumentStart(version, tags, implicit).kind = "DOCUMENT-START"
  /\ \A implicit : DocumentEnd(implicit).kind = "DOCUMENT-END"
  BY DEF StreamStart, StreamEnd, DocumentStart, DocumentEnd, Event

(* The last token is skipped like the others.                               *)
LEMMA SkipIs ==
  ASSUME NEW p, IsParser(p)
  PROVE  LET r == Skip(p)
         IN /\ IsParser(r) /\ r.size = p.size /\ r.error = p.error /\ r.event = p.event
            /\ r.state = p.state /\ r.states = p.states /\ r.marks = p.marks
  BY DEF Skip, IsParser

(* The contexts around a document.                                          *)
LEMMA StreamTuples ==
  /\ <<"stream">> \o <<>> = <<"stream">>
  /\ \A x \in {"document", "document-end"} : <<"stream">> \o <<x>> = <<"stream", x>>
  <1>1. "stream" \in Parts /\ \A x \in {"document", "document-end"} : x \in Parts
    BY DEF Parts
  <1> DEFINE s == <<"stream">>
  <1>2. s \in Seq(Parts)
    BY <1>1, ShortTuples
  <1>3. \A x \in {"document", "document-end"} : Append(<<"stream">>, x) = <<"stream", x>>
    BY <1>1, <1>2, ShortAppends
  <1> HIDE DEF s
  <1>4. s \o <<>> = s /\ \A x \in {"document", "document-end"} : s \o <<x>> = Append(s, x)
    BY <1>1, <1>2, ShortAppends
  <1> QED BY <1>3, <1>4 DEF s

(* An empty stack stands for the stream alone.                              *)
LEMMA OutsideIs ==
  ASSUME NEW r, r.error = "none", r.states = <<>>
  PROVE  /\ r.state = "STREAM-START" => ContextOf(r) = <<>>
         /\ r.state \in {"IMPLICIT-DOCUMENT-START", "DOCUMENT-START"} => ContextOf(r) = <<"stream">>
         /\ r.state = "DOCUMENT-END" => ContextOf(r) = <<"stream", "document-end">>
         /\ r.state = "END" => ContextOf(r) = <<"ended">>
  <1>1. <<>> \in Seq(Waiting) /\ "DOCUMENT-END" \in Waiting
    BY DEF Waiting
  <1>2. Base(<<>>) = <<"stream">> /\ Base(<<>>) \in Seq(Parts)
    BY <1>1, BaseAppend
  <1>5. ASSUME r.state \in {"IMPLICIT-DOCUMENT-START", "DOCUMENT-START", "DOCUMENT-END"}
        PROVE  ContextOf(r) = <<"stream">> \o OpenAt(r.state)
    <2>1. Awaited(r) = <<>>
      BY <1>5 DEF Awaited
    <2> QED BY <1>2, <1>5, <2>1, ContextIs
  <1>6. r.state = "STREAM-START" => ContextOf(r) = <<>>
    BY DEF ContextOf
  <1>7. r.state = "END" => ContextOf(r) = <<"ended">>
    BY DEF ContextOf
  <1> QED BY <1>5, <1>6, <1>7, OpenTable, StreamTuples

(* A parser outside of the nodes is in order.                               *)
LEMMA OutsideFits ==
  ASSUME NEW r, r.state \in Outside, r.states = <<>>, r.marks = Len(AllMarks(<<>>)),
         r.ended => r.state = "END"
  PROVE  ParserInv(r)
  <1>1. StackFits(r)
    BY DEF StackFits
  <1>2. Len(AllMarks(<<>>)) \in Nat
    <2>1. Stacked(<<>>) /\ MayWaitOn(<<>>, "DOCUMENT-END")
      BY DEF Stacked, MayWaitOn
    <2> QED BY <2>1, StackedAppend
  <1>3. MarksFit(r)
    <2>1. Len(MarkAt(r.state)) = 0
      BY MarkTable
    <2> QED BY <1>2, <2>1 DEF MarksFit
  <1>4. r.state \notin Beginning
    BY DEF Outside, Beginning
  <1> QED BY <1>1, <1>3, <1>4 DEF ParserInv, StartAtHand

(* And so is one before the node of a document.                             *)
LEMMA DocumentFits ==
  ASSUME NEW r, r.state \in {"BLOCK-NODE", "DOCUMENT-CONTENT"}, r.states = Append(<<>>, "DOCUMENT-END"),
         r.marks = Len(AllMarks(<<>>)), ~r.ended
  PROVE  /\ ParserInv(r)
         /\ r.error = "none" => ContextOf(r) = <<"stream", "document">>
  <1>1. Stacked(<<>>) /\ MayWaitOn(<<>>, "DOCUMENT-END")
    BY DEF Stacked, MayWaitOn
  <1>2. "DOCUMENT-END" \in Waiting /\ <<>> \in Seq(Waiting)
    BY DEF Waiting
  <1>3. /\ Append(<<>>, "DOCUMENT-END") = <<"DOCUMENT-END">>
        /\ Front(Append(<<>>, "DOCUMENT-END")) = <<>>
    <2> HIDE DEF Waiting
    <2> QED BY <1>2, ShortAppends, AppendTop
  <1>4. /\ Len(AllMarks(r.states)) = Len(AllMarks(<<>>)) + 0 /\ Len(AllMarks(<<>>)) \in Nat
    <2>1. Len(MarkAt("DOCUMENT-END")) = 0
      BY MarkTable DEF Outside
    <2> QED BY <1>1, <2>1, StackedAppend
  <1>5. MarksFit(r)
    <2>1. Len(MarkAt(r.state)) = 0
      BY MarkTable
    <2> QED BY <1>4, <2>1 DEF MarksFit
  <1>6. StackFits(r)
    <2>1. Stacked(r.states)
      BY <1>1, StackedAppend
    <2> QED BY <1>3, <2>1 DEF StackFits, Stacked, Waiting
  <1>7. r.state \notin Beginning
    BY DEF Beginning
  <1>8. ParserInv(r)
    BY <1>5, <1>6, <1>7 DEF ParserInv, StartAtHand
  <1>9. ASSUME r.error = "none" PROVE ContextOf(r) = <<"stream", "document">>
    <2>1. Tail(<<"DOCUMENT-END">>) = <<>>
      OBVIOUS
    <2>2. Awaited(r) = <<>>
      BY <1>3, <2>1 DEF Awaited
    <2>3. Base(<<>>) = <<"stream">>
      BY <1>2, BaseAppend
    <2>6. ContextOf(r) = Base(<<>>) \o OpenAt(r.state)
      BY <1>9, <2>2, ContextIs
    <2> QED BY <2>3, <2>6, OpenTable, StreamTuples
  <1> QED BY <1>8, <1>9

(* A parser between the nodes, before the next event.                       *)
Apart(p) ==
  /\ Sound(p) /\ p.error = "none" /\ ~p.ended
  /\ p.state \in Outside \ {"END"}

LEMMA ApartIs ==
  ASSUME NEW p, Apart(p)
  PROVE  IsParser(p) /\ p.states = <<>> /\ p.marks = Len(AllMarks(<<>>)) /\ Len(AllMarks(<<>>)) \in Nat
  <1>1. StackFits(p) /\ MarksFit(p)
    BY DEF Apart, Sound, ParserInv
  <1>2. p.states = <<>>
    BY <1>1 DEF StackFits, Apart, Outside, Beginning, Continuing, Marked
  <1>3. Len(MarkAt(p.state)) = 0
    BY MarkTable DEF Apart
  <1>4. Len(AllMarks(<<>>)) \in Nat
    <2>1. Stacked(<<>>) /\ MayWaitOn(<<>>, "DOCUMENT-END")
      BY DEF Stacked, MayWaitOn
    <2> QED BY <2>1, StackedAppend
  <1> QED BY <1>1, <1>2, <1>3, <1>4 DEF MarksFit, Apart, Sound

(* The beginning of the stream.                                             *)
LEMMA StreamStartIsGood ==
  ASSUME NEW p, Apart(p), p.state = "STREAM-START"
  PROVE  Good(p, ParseStreamStart(p))
  <1> DEFINE q == Peek(p)
             event == StreamStart(Current(q).encoding)
             g == Goto(q, "IMPLICIT-DOCUMENT-START", event)
             r == Skip(g)
  <1>1. Keeps(p, q)
    BY ApartIs, PeekKeeps
  <1>2. Goes(p, q) /\ IsParser(q)
    BY <1>1, KeepsGoes DEF Keeps
  <1>3. event.kind = "STREAM-START"
    BY DocumentKinds
  <1> HIDE DEF q, event
  <1>4. /\ Goes(q, g) /\ SameToken(q, g) /\ g.state = "IMPLICIT-DOCUMENT-START"
        /\ g.states = q.states /\ g.marks = q.marks /\ g.event = event
    BY <1>2, GotoStep
  <1> HIDE DEF g
  <1>5. CASE ~Sees(q, {"STREAM-START"})
    <2>1. Good(p, Fail(q))
      BY <1>2, ErrorIsGood
    <2> QED BY <1>5, <2>1 DEF ParseStreamStart, q
  <1>6. CASE Sees(q, {"STREAM-START"})
    <2>1. Keeps(g, r) /\ r.event = event
      BY <1>4, <1>6, NotTheEnd, SkipKeeps DEF SameToken, Goes
    <2> HIDE DEF r
    <2>2. Goes(p, r)
      BY <1>2, <1>4, <2>1, KeepsGoes
    <2>3. /\ r.state = "IMPLICIT-DOCUMENT-START" /\ r.states = <<>> /\ r.marks = Len(AllMarks(<<>>))
      BY <1>1, <1>4, <2>1, ApartIs DEF Keeps
    <2>4. ASSUME r.error = "none"
          PROVE  ParserInv(r) /\ StreamStep(ContextOf(p), r.event.kind, ContextOf(r))
      <3>1. ParserInv(r)
        <4>1. ~r.ended /\ r.state \in Outside
          BY <2>2, <2>3, <2>4 DEF Goes, Apart, Outside
        <4> QED BY <2>3, <4>1, OutsideFits
      <3>2. ContextOf(p) = <<>> /\ ContextOf(r) = <<"stream">>
        BY <2>3, <2>4, ApartIs, OutsideIs DEF Apart
      <3> QED BY <1>3, <2>1, <3>1, <3>2 DEF StreamStep, DocumentStep
    <2>5. Good(p, r)
      BY <2>2, <2>4 DEF Good, Goes
    <2> QED BY <1>6, <2>5 DEF ParseStreamStart, q, g, r, event
  <1> QED BY <1>5, <1>6

(* The beginning of a document, or the end of the stream.                   *)
LEMMA DocumentStartIsGood ==
  ASSUME NEW p, Apart(p), NEW implicit \in BOOLEAN,
         p.state \in {"IMPLICIT-DOCUMENT-START", "DOCUMENT-START"}
  PROVE  Good(p, ParseDocumentStart(p, implicit))
  <1> DEFINE q == IF implicit THEN Peek(p) ELSE SkipDocumentEnds(Peek(p))
             read == ProcessDirectives(q)
             r == Peek(read.parser)
             last == Goto(q, "END", StreamEnd)
             begun == Goto(r, "BLOCK-NODE", DocumentStart(Null, <<>>, TRUE))
             event == DocumentStart(read.found.version, read.found.tags, FALSE)
             content == Goto(r, "DOCUMENT-CONTENT", event)
             result == ParseDocumentStart(p, implicit)
  <1>0. /\ IsParser(p) /\ p.states = <<>> /\ p.marks = Len(AllMarks(<<>>)) /\ p.size \in Nat
        /\ ~p.ended /\ ContextOf(p) = <<"stream">>
    BY ApartIs, OutsideIs DEF Apart, Sound
  <1>1. Keeps(p, q)
    <2>1. Keeps(p, Peek(p))
      BY <1>0, PeekKeeps
    <2>2. Keeps(Peek(p), SkipDocumentEnds(Peek(p)))
      BY <1>0, <2>1, SkipDocumentEndsKeeps DEF Keeps
    <2> QED BY <2>1, <2>2, KeepsTransitively
  <1> HIDE DEF q
  <1>2. Keeps(p, r)
    <2>1. Keeps(q, read.parser)
      BY <1>0, <1>1, ProcessDirectivesKeeps DEF Keeps
    <2> HIDE DEF read
    <2>2. Keeps(read.parser, r)
      BY <2>1, PeekKeeps DEF Keeps
    <2> QED BY <1>1, <2>1, <2>2, KeepsTransitively
  <1>3. result = IF Sees(q, {"STREAM-END"}) THEN Skip(last)
                 ELSE IF implicit /\ ~Sees(q, {"VERSION-DIRECTIVE", "TAG-DIRECTIVE", "DOCUMENT-START"})
                 THEN Push(begun, "DOCUMENT-END")
                 ELSE IF r.error # "none" THEN r
                 ELSE IF ~Sees(r, {"DOCUMENT-START"}) THEN Fail(r)
                 ELSE Skip(Push(content, "DOCUMENT-END"))
    BY DEF ParseDocumentStart, q
  <1>4. event.kind = "DOCUMENT-START" /\ DocumentStart(Null, <<>>, TRUE).kind = "DOCUMENT-START"
    BY DocumentKinds
  <1> HIDE DEF read, r, event, result
  <1>5. /\ Goes(q, last) /\ last.state = "END" /\ last.states = q.states /\ last.marks = q.marks
        /\ last.event = StreamEnd
    BY <1>1, GotoStep DEF Keeps
  <1> DEFINE first == DocumentStart(Null, <<>>, TRUE)
  <1>6. /\ Goes(r, begun) /\ begun.state = "BLOCK-NODE" /\ begun.states = r.states
        /\ begun.marks = r.marks /\ begun.event.kind = "DOCUMENT-START"
    <2>1. first.kind = "DOCUMENT-START"
      BY <1>4
    <2> HIDE DEF first
    <2>2. LET g == Goto(r, "BLOCK-NODE", first)
          IN /\ Goes(r, g) /\ g.state = "BLOCK-NODE" /\ g.states = r.states
             /\ g.marks = r.marks /\ g.event = first
      BY <1>2, GotoStep DEF Keeps
    <2> QED BY <2>1, <2>2 DEF first
  <1>7. /\ Goes(r, content) /\ SameToken(r, content) /\ content.state = "DOCUMENT-CONTENT"
        /\ content.states = r.states /\ content.marks = r.marks /\ content.event.kind = "DOCUMENT-START"
    BY <1>2, <1>4, GotoStep DEF Keeps
  <1> HIDE DEF last, begun, content
  <1>8. \A s : /\ Goes(p, s)
               /\ s.state \in {"BLOCK-NODE", "DOCUMENT-CONTENT"}
               /\ s.states = Append(<<>>, "DOCUMENT-END") /\ s.marks = Len(AllMarks(<<>>))
               /\ s.event.kind = "DOCUMENT-START"
               => Good(p, s)
    <2> TAKE s
    <2> SUFFICES ASSUME /\ Goes(p, s) /\ s.state \in {"BLOCK-NODE", "DOCUMENT-CONTENT"}
                        /\ s.states = Append(<<>>, "DOCUMENT-END") /\ s.marks = Len(AllMarks(<<>>))
                        /\ s.event.kind = "DOCUMENT-START",
                        s.error = "none"
                 PROVE  ParserInv(s) /\ StreamStep(ContextOf(p), s.event.kind, ContextOf(s))
      BY DEF Good, Goes
    <2>1. ~s.ended
      BY <1>0 DEF Goes
    <2>2. ParserInv(s) /\ ContextOf(s) = <<"stream", "document">>
      BY <2>1, DocumentFits
    <2> QED BY <1>0, <2>2 DEF StreamStep, DocumentStep
  <1>9. Good(p, Skip(last))
    <2> DEFINE s == Skip(last)
    <2>1. /\ IsParser(s) /\ s.size = p.size /\ s.error = last.error /\ s.event = StreamEnd
          /\ s.state = "END" /\ s.states = <<>> /\ s.marks = Len(AllMarks(<<>>))
      BY <1>0, <1>1, <1>5, SkipIs DEF Goes, Keeps
    <2> HIDE DEF s
    <2>2. ParserInv(s)
      BY <2>1, OutsideFits DEF Outside
    <2>3. s.error = "none" => ContextOf(s) = <<"ended">>
      BY <2>1, OutsideIs
    <2>4. Good(p, s)
      BY <1>0, <2>1, <2>2, <2>3, DocumentKinds DEF Good, StreamStep, DocumentStep
    <2> QED BY <2>4 DEF s
  <1>10. Good(p, Push(begun, "DOCUMENT-END"))
    <2> DEFINE s == Push(begun, "DOCUMENT-END")
    <2>1. /\ Goes(begun, s) /\ s.state = "BLOCK-NODE" /\ s.states = Append(begun.states, "DOCUMENT-END")
          /\ s.marks = begun.marks
      BY <1>6, PushStep DEF Goes
    <2>2. s.event = begun.event
      BY <1>6 DEF Push, Goes, IsParser
    <2> HIDE DEF s
    <2>3. Goes(p, s)
      BY <1>2, <1>6, <2>1, KeepsGoes
    <2>4. Good(p, s)
      BY <1>0, <1>2, <1>6, <1>8, <2>1, <2>2, <2>3 DEF Keeps
    <2> QED BY <2>4 DEF s
  <1>11. ASSUME Sees(r, {"DOCUMENT-START"}) PROVE Good(p, Skip(Push(content, "DOCUMENT-END")))
    <2> DEFINE t == Push(content, "DOCUMENT-END")
               s == Skip(t)
    <2>1. /\ Goes(content, t) /\ SameToken(content, t)
          /\ t.state = "DOCUMENT-CONTENT" /\ t.states = Append(content.states, "DOCUMENT-END")
          /\ t.marks = content.marks
      BY <1>7, PushStep DEF Goes
    <2>2. t.event = content.event
      BY <1>7 DEF Push, Goes, IsParser
    <2> HIDE DEF t
    <2>3. ~Sees(t, {"STREAM-END"}) /\ IsParser(t)
      BY <1>7, <1>11, <2>1, NotTheEnd DEF SameToken, Goes
    <2>4. Keeps(t, s) /\ s.event = t.event
      BY <2>3, SkipKeeps
    <2> HIDE DEF s
    <2>5. Goes(p, s)
      <3>1. Goes(p, content)
        BY <1>2, <1>7, KeepsGoes
      <3>2. Goes(p, t)
        BY <2>1, <3>1, KeepsGoes
      <3> QED BY <2>4, <3>2, KeepsGoes
    <2>6. /\ s.state = "DOCUMENT-CONTENT" /\ s.states = Append(<<>>, "DOCUMENT-END")
          /\ s.marks = Len(AllMarks(<<>>)) /\ s.event.kind = "DOCUMENT-START"
      BY <1>0, <1>2, <1>7, <2>1, <2>2, <2>4 DEF Keeps
    <2>7. Good(p, s)
      BY <1>8, <2>5, <2>6
    <2> QED BY <2>7 DEF s, t
  <1>12. Good(p, Fail(r)) /\ (r.error # "none" => Good(p, r))
    BY <1>2, KeepsGoes, ErrorIsGood
  <1>13. Good(p, result)
    BY <1>3, <1>9, <1>10, <1>11, <1>12
  <1> QED BY <1>13 DEF result

(* The end of a document.                                                   *)
LEMMA DocumentEndIsGood ==
  ASSUME NEW p, Apart(p), p.state = "DOCUMENT-END"
  PROVE  Good(p, ParseDocumentEnd(p))
  <1> DEFINE q == Peek(p)
             explicit == Sees(q, {"DOCUMENT-END"})
             s == IF explicit THEN Skip(q) ELSE q
             t == [s EXCEPT !.directives = <<>>]
             r == Goto(t, "DOCUMENT-START", DocumentEnd(~explicit))
  <1>0. /\ IsParser(p) /\ p.states = <<>> /\ p.marks = Len(AllMarks(<<>>))
        /\ ~p.ended /\ ContextOf(p) = <<"stream", "document-end">>
    BY ApartIs, OutsideIs DEF Apart
  <1>1. Keeps(p, q)
    BY <1>0, PeekKeeps
  <1> HIDE DEF q
  <1>2. Keeps(p, s)
    <2>1. explicit => Keeps(q, Skip(q))
      BY <1>1, NotTheEnd, SkipKeeps DEF Keeps
    <2> HIDE DEF explicit
    <2> QED BY <1>1, <2>1, KeepsTransitively
  <1> HIDE DEF s, explicit
  <1>3. Keeps(p, t)
    BY <1>2 DEF Keeps, IsParser
  <1> HIDE DEF t
  <1>4. /\ Goes(t, r) /\ r.state = "DOCUMENT-START" /\ r.states = t.states /\ r.marks = t.marks
        /\ r.event.kind = "DOCUMENT-END"
    BY <1>3, GotoStep, DocumentKinds DEF Keeps
  <1> HIDE DEF r
  <1>5. Goes(p, r) /\ r.states = <<>> /\ r.marks = Len(AllMarks(<<>>))
    BY <1>0, <1>3, <1>4, KeepsGoes DEF Keeps
  <1>6. ASSUME r.error = "none"
        PROVE  ParserInv(r) /\ StreamStep(ContextOf(p), r.event.kind, ContextOf(r))
    <2>1. ~r.ended
      BY <1>0, <1>5, <1>6 DEF Goes
    <2>2. ParserInv(r)
      BY <1>4, <1>5, <2>1, OutsideFits DEF Outside
    <2>3. ContextOf(r) = <<"stream">>
      BY <1>4, <1>5, <1>6, OutsideIs
    <2> QED BY <1>0, <1>4, <2>2, <2>3 DEF StreamStep, DocumentStep
  <1>7. Good(p, r)
    BY <1>5, <1>6 DEF Good, Goes
  <1> QED BY <1>7 DEF ParseDocumentEnd, q, explicit, s, t, r

(* A parser before the node of a document, before the next event.           *)
Before(p) ==
  /\ Sound(p) /\ p.error = "none" /\ ~p.ended
  /\ p.state \in {"BLOCK-NODE", "DOCUMENT-CONTENT"}

(* The node of a document, after which its end is expected.                 *)
LEMMA DocumentNodeIsGood ==
  ASSUME NEW p, Before(p), NEW r, Goes(p, r), r.error # "none" \/ Given(p, r) \/ Opened(p, r)
  PROVE  Good(p, r)
  <1>1. StackFits(p) /\ MarksFit(p)
    BY DEF Before, Sound, ParserInv
  <1>2. p.states = <<"DOCUMENT-END">>
    BY <1>1 DEF StackFits, Before, Outside, Beginning, Continuing, Marked
  <1>3. "DOCUMENT-END" \in Waiting /\ <<>> \in Seq(Waiting)
    BY DEF Waiting
  <1>4. /\ p.states = Append(<<>>, "DOCUMENT-END")
        /\ Last(p.states) = "DOCUMENT-END" /\ Front(p.states) = <<>>
    <2> DEFINE c == Append(<<>>, "DOCUMENT-END")
    <2>1. c = <<"DOCUMENT-END">>
      BY <1>3, ShortAppends
    <2>2. Last(c) = "DOCUMENT-END" /\ Front(c) = <<>>
      BY <1>3, AppendTop
    <2> HIDE DEF c
    <2> QED BY <1>2, <2>1, <2>2 DEF c
  <1>5. Stacked(<<>>) /\ MayWaitOn(<<>>, "DOCUMENT-END")
    BY DEF Stacked, MayWaitOn
  <1>6. Awaited(p) = <<>>
    <2>1. Tail(<<"DOCUMENT-END">>) = <<>>
      OBVIOUS
    <2> QED BY <1>2, <2>1 DEF Awaited, Before
  <1>7. p.marks = Len(AllMarks(<<>>)) + Len(MarkAt("DOCUMENT-END"))
    <2>1. Len(MarkAt("DOCUMENT-END")) = 0 /\ Len(MarkAt(p.state)) = 0
      BY MarkTable DEF Outside, Before
    <2>2. /\ Len(AllMarks(p.states)) = Len(AllMarks(<<>>)) + Len(MarkAt("DOCUMENT-END"))
          /\ Len(AllMarks(<<>>)) \in Nat
      BY <1>4, <1>5, StackedAppend
    <2> QED BY <1>1, <2>1, <2>2 DEF MarksFit
  <1>8. NodeTurn(p.state, "DOCUMENT-END")
    BY NodeTurns DEF Before
  <1>9. CASE r.error # "none"
    BY <1>9, ErrorIsGood
  <1>10. CASE r.error = "none"
    <2>1. LeafThen(<<>>, r, "DOCUMENT-END") \/ BeginsThen(<<>>, r, "DOCUMENT-END")
      BY <1>4, <1>10 DEF Given, Opened, LeafThen, BeginsThen
    <2>2. r.marks = p.marks
      BY <1>10 DEF Given, Opened
    <2>3. p.state \notin {"STREAM-START", "END"}
      BY DEF Before
    <2> QED BY <1>5, <1>6, <1>7, <1>8, <2>1, <2>2, <2>3, NodeIsGood DEF Before
  <1> QED BY <1>9, <1>10

(* It is there, or it is empty.                                             *)
LEMMA DocumentContentIsGood ==
  ASSUME NEW p, Before(p)
  PROVE  Good(p, ParseNode(p, TRUE, FALSE)) /\ Good(p, ParseDocumentContent(p))
  <1>1. Good(p, ParseNode(p, TRUE, FALSE))
    BY NodeOutcomes, DocumentNodeIsGood DEF Before, Sound
  <1> DEFINE q == Peek(p)
             r == ParseNode(q, TRUE, FALSE)
             e == Return(q, EmptyScalar)
  <1>2. Keeps(p, q)
    BY PeekKeeps DEF Before, Sound
  <1> HIDE DEF q
  <1>3. Good(p, e)
    <2>1. EmptyScalar.kind = "SCALAR"
      BY DEF EmptyScalar, Scalar
    <2>2. Given(p, e)
      BY <1>2, <2>1, LeafIsGiven
    <2> HIDE DEF e
    <2> QED BY <2>2, DocumentNodeIsGood DEF Given
  <1>4. Good(p, r)
    <2>1. Goes(q, r) /\ (r.error # "none" \/ Given(q, r) \/ Opened(q, r))
      BY <1>2, NodeOutcomes DEF Keeps
    <2> HIDE DEF r
    <2>2. Goes(p, r)
      BY <1>2, <2>1, KeepsGoes
    <2>3. r.error # "none" \/ Given(p, r) \/ Opened(p, r)
      BY <1>2, <2>1, <2>2 DEF Given, Opened, Keeps
    <2> QED BY <2>2, <2>3, DocumentNodeIsGood
  <1> QED BY <1>1, <1>3, <1>4 DEF ParseDocumentContent, q, r, e

(* Every production is good.                                                *)
LEMMA StateMachineIsGood ==
  ASSUME NEW p, Sound(p), p.error = "none", p.state # "END"
  PROVE  Good(p, StateMachine(p))
  <1>1. StackFits(p) /\ ~p.ended
    BY DEF Sound, ParserInv
  <1>2. Apart(p) \/ Before(p) \/ Inside(p)
    BY <1>1 DEF StackFits, Apart, Before, Inside
  <1>3. CASE Apart(p)
    <2>1. CASE p.state = "STREAM-START"
      BY <1>3, <2>1, StreamStartIsGood DEF StateMachine
    <2>2. CASE p.state = "IMPLICIT-DOCUMENT-START"
      BY <1>3, <2>2, DocumentStartIsGood DEF StateMachine
    <2>3. CASE p.state = "DOCUMENT-START"
      BY <1>3, <2>3, DocumentStartIsGood DEF StateMachine
    <2>4. CASE p.state = "DOCUMENT-END"
      BY <1>3, <2>4, DocumentEndIsGood DEF StateMachine
    <2> QED BY <1>3, <2>1, <2>2, <2>3, <2>4 DEF Apart, Outside
  <1>4. CASE Before(p)
    <2>1. CASE p.state = "BLOCK-NODE"
      BY <1>4, <2>1, DocumentContentIsGood DEF StateMachine
    <2>2. CASE p.state = "DOCUMENT-CONTENT"
      BY <1>4, <2>2, DocumentContentIsGood DEF StateMachine
    <2> QED BY <1>4, <2>1, <2>2 DEF Before
  <1>5. CASE Inside(p)
    <2>1. CASE p.state = "BLOCK-SEQUENCE-FIRST-ENTRY"
      BY <1>5, <2>1, BlockSequenceIsGood DEF StateMachine
    <2>2. CASE p.state = "BLOCK-SEQUENCE-ENTRY"
      BY <1>5, <2>2, BlockSequenceIsGood DEF StateMachine
    <2>3. CASE p.state = "INDENTLESS-SEQUENCE-ENTRY"
      BY <1>5, <2>3, IndentlessSequenceIsGood DEF StateMachine
    <2>4. CASE p.state = "BLOCK-MAPPING-FIRST-KEY"
      BY <1>5, <2>4, BlockMappingKeyIsGood DEF StateMachine
    <2>5. CASE p.state = "BLOCK-MAPPING-KEY"
      BY <1>5, <2>5, BlockMappingKeyIsGood DEF StateMachine
    <2>6. CASE p.state = "BLOCK-MAPPING-VALUE"
      BY <1>5, <2>6, BlockMappingValueIsGood DEF StateMachine
    <2>7. CASE p.state = "FLOW-SEQUENCE-FIRST-ENTRY"
      BY <1>5, <2>7, FlowSequenceIsGood DEF StateMachine
    <2>8. CASE p.state = "FLOW-SEQUENCE-ENTRY"
      BY <1>5, <2>8, FlowSequenceIsGood DEF StateMachine
    <2>9. CASE p.state = "FLOW-SEQUENCE-ENTRY-MAPPING-KEY"
      BY <1>5, <2>9, FlowPairIsGood DEF StateMachine
    <2>10. CASE p.state = "FLOW-SEQUENCE-ENTRY-MAPPING-VALUE"
      BY <1>5, <2>10, FlowPairIsGood DEF StateMachine
    <2>11. CASE p.state = "FLOW-SEQUENCE-ENTRY-MAPPING-END"
      BY <1>5, <2>11, FlowPairIsGood DEF StateMachine
    <2>12. CASE p.state = "FLOW-MAPPING-FIRST-KEY"
      BY <1>5, <2>12, FlowMappingKeyIsGood DEF StateMachine
    <2>13. CASE p.state = "FLOW-MAPPING-KEY"
      BY <1>5, <2>13, FlowMappingKeyIsGood DEF StateMachine
    <2>14. CASE p.state = "FLOW-MAPPING-VALUE"
      BY <1>5, <2>14, FlowMappingValueIsGood DEF StateMachine
    <2>15. CASE p.state = "FLOW-MAPPING-EMPTY-VALUE"
      BY <1>5, <2>15, FlowMappingValueIsGood DEF StateMachine
    <2> QED BY <1>5, <2>1, <2>2, <2>3, <2>4, <2>5, <2>6, <2>7, <2>8, <2>9, <2>10, <2>11, <2>12,
               <2>13, <2>14, <2>15 DEF Inside, Beginning, Continuing, Marked
  <1> QED BY <1>2, <1>3, <1>4, <1>5

(* A parser in order stays in order, and what it gives is a step of the     *)
(* stream, whatever tokens the scanner finds.                               *)
LEMMA ParseIsStep ==
  ASSUME NEW p, Sound(p)
  PROVE  LET r == Parse(p)
         IN Sound(r) /\ StreamStep(ContextOf(p), r.event.kind, ContextOf(r))
  <1> DEFINE s == StateMachine(p)
             r == Parse(p)
  <1>1. NoEvent.kind = "NO-EVENT"
    BY DEF NoEvent, Event
  <1>2. CASE p.ended \/ p.error # "none" \/ p.state = "END"
    <2>1. r = [p EXCEPT !.event = NoEvent]
      BY <1>2 DEF Parse
    <2> HIDE DEF r
    <2>2. /\ IsParser(r) /\ r.size = p.size /\ r.event = NoEvent
          /\ r.error = p.error /\ r.state = p.state /\ r.states = p.states /\ r.marks = p.marks
          /\ r.ended = p.ended /\ SameToken(p, r)
      BY <2>1 DEF Sound, IsParser, SameToken, Sees, Current
    <2>3. ParserInv(r)
      BY <2>2 DEF Sound, ParserInv, StackFits, MarksFit, StartAtHand, SameToken
    <2>4. p.error # "none" \/ p.state = "END"
      BY <1>2 DEF Sound, ParserInv
    <2>5. ContextOf(r) = <<"ended">>
      BY <2>2, <2>4 DEF ContextOf
    <2>6. Sound(r) /\ StreamStep(ContextOf(p), r.event.kind, ContextOf(r))
      BY <1>1, <2>2, <2>3, <2>5 DEF Sound, StreamStep, LastStep
    <2> QED BY <2>6 DEF r
  <1>3. CASE ~p.ended /\ p.error = "none" /\ p.state # "END"
    <2>1. Good(p, s)
      BY <1>3, StateMachineIsGood
    <2>2. r = IF s.error # "none" THEN [s EXCEPT !.event = NoEvent] ELSE s
      BY <1>3 DEF Parse, Outcome
    <2> HIDE DEF r, s
    <2>3. CASE s.error # "none"
      <3>1. /\ IsParser(r) /\ r.size = p.size /\ r.event = NoEvent /\ r.error # "none"
        BY <2>1, <2>2, <2>3 DEF Good, IsParser
      <3>2. ParserInv(r) /\ ContextOf(r) = <<"ended">>
        BY <3>1 DEF ParserInv, ContextOf
      <3>3. Sound(r) /\ StreamStep(ContextOf(p), r.event.kind, ContextOf(r))
        BY <1>1, <3>1, <3>2 DEF Sound, StreamStep, LastStep
      <3> QED BY <3>3 DEF r
    <2>4. CASE s.error = "none"
      <3>1. Sound(r) /\ StreamStep(ContextOf(p), r.event.kind, ContextOf(r))
        BY <2>1, <2>2, <2>4 DEF Good, Sound
      <3> QED BY <3>1 DEF r
    <2> QED BY <2>3, <2>4
  <1> QED BY <1>2, <1>3

(* Below all that is open is the stream, unless it is over.                 *)
LEMMA ContextBottom ==
  ASSUME NEW p, Sound(p)
  PROVE  ContextOf(p) = <<>> \/ ContextOf(p)[1] \in {"stream", "ended"}
  <1>1. CASE p.error # "none" \/ p.state \in {"STREAM-START", "END"}
    BY <1>1 DEF ContextOf
  <1>2. CASE p.error = "none" /\ p.state \notin {"STREAM-START", "END"}
    <2> DEFINE open == AllOpen(Awaited(p))
               last == OpenAt(p.state)
    <2>1. StackFits(p)
      BY <1>2 DEF Sound, ParserInv
    <2>2. Awaited(p) \in Seq(Waiting)
      <3>1. CASE p.state \in {"BLOCK-NODE", "DOCUMENT-CONTENT"}
        <4>1. p.states = <<"DOCUMENT-END">>
          BY <2>1, <3>1 DEF StackFits, Outside, Beginning, Continuing, Marked
        <4>2. Tail(<<"DOCUMENT-END">>) = <<>> /\ <<>> \in Seq(Waiting)
          OBVIOUS
        <4> QED BY <3>1, <4>1, <4>2 DEF Awaited
      <3>2. CASE p.state \notin {"BLOCK-NODE", "DOCUMENT-CONTENT"}
        BY <2>1, <3>2 DEF StackFits, Awaited, Waiting
      <3> QED BY <3>1, <3>2
    <2>3. open \in Seq(Parts)
      <3>1. "DOCUMENT-END" \in Waiting
        BY DEF Waiting
      <3> QED BY <2>2, <3>1, AllOpenAppend
    <2>4. last \in Seq(Parts)
      <3>1. p.state \in States \ {"STREAM-START", "END"}
        BY <1>2, <2>1 DEF StackFits, States
      <3> QED BY <3>1, OpenAtIs
    <2>5. ContextOf(p) = <<"stream">> \o open \o last
      BY <1>2 DEF ContextOf
    <2> HIDE DEF open, last
    <2>6. (<<"stream">> \o open \o last)[1] = "stream"
      BY <2>3, <2>4
    <2> QED BY <2>5, <2>6
  <1> QED BY <1>1, <1>2

(* The parser does not go back to the beginning of the stream.              *)
LEMMA NoReturn ==
  ASSUME NEW p, Sound(p), NEW r, r = Parse(p), r.error = "none", r.state = "STREAM-START"
  PROVE  r.event.kind = "NO-EVENT"
  <1> DEFINE c == ContextOf(p)
             d == ContextOf(r)
             kind == r.event.kind
  <1>1. Sound(r) /\ StreamStep(c, kind, d)
    BY ParseIsStep
  <1>2. r.states = <<>>
    BY <1>1 DEF Sound, ParserInv, StackFits, Beginning, Continuing, Marked
  <1>3. d = <<>>
    BY <1>2, OutsideIs
  <1>4. c = <<>> \/ c[1] \in {"stream", "ended"}
    BY ContextBottom
  <1> HIDE DEF c, d, kind
  <1>5. ~NodeStep(c, kind, d)
    <2> SUFFICES ASSUME NodeStep(c, kind, d) PROVE FALSE
      OBVIOUS
    <2>1. PICK rest \in Seq(Parts), top \in Parts, next \in Parts :
            \/ d = Append(rest, next)
            \/ d = Append(Append(rest, next), "sequence")
            \/ d = Append(Append(rest, next), "key")
      BY DEF NodeStep
    <2>2. "sequence" \in Parts /\ "key" \in Parts
      BY DEF Parts
    <2>3. Append(rest, next) \in Seq(Parts) /\ Append(rest, next) # <<>>
      BY AppendTop
    <2>4. Append(Append(rest, next), "sequence") # <<>> /\ Append(Append(rest, next), "key") # <<>>
      BY <2>2, <2>3, AppendTop
    <2> QED BY <1>3, <2>1, <2>3, <2>4
  <1>6. ~EndStep(c, kind, d)
    <2> SUFFICES ASSUME NEW top \in {"sequence", "key"}, c = Append(<<>>, top) PROVE FALSE
      BY <1>3 DEF EndStep
    <2>1. c # <<>> /\ c[1] = top
      OBVIOUS
    <2> QED BY <1>4, <2>1
  <1>7. ~DocumentStep(c, kind, d)
    BY <1>3 DEF DocumentStep
  <1>8. LastStep(c, kind, d)
    BY <1>1, <1>5, <1>6, <1>7 DEF StreamStep
  <1> QED BY <1>8 DEF LastStep, kind

------------------------------------------------------------------------------
(* The parser and its callers.                                              *)

(* The parser of an application, which sees what became of it: it is in     *)
(* order, and before the first event there was none.                        *)
Unread(p) == p.error = "none" /\ p.state = "STREAM-START" => p.event.kind = "NO-EVENT"
ParsingInv ==
  /\ caller \in {"application", "loader"}
  /\ Following => Sound(parser) /\ Unread(parser)

(* A new parser is in order, and nothing is open.                           *)
LEMMA NewParserIsSound ==
  ASSUME NEW text \in Seq(STRING), NEW enc
  PROVE  LET p == NewParser(text, enc)
         IN Sound(p) /\ Unread(p) /\ ContextOf(p) = <<>> /\ p.event.kind = "NO-EVENT"
  <1> DEFINE p == NewParser(text, enc)
  <1>1. /\ IsParser(p) /\ p.size = Len(text)
        /\ p.state = "STREAM-START" /\ p.states = <<>> /\ p.marks = 0
        /\ p.event.kind = "NO-EVENT" /\ p.error = "none" /\ ~p.ended
    BY NewParserIs
  <1>2. Len(text) \in Nat
    OBVIOUS
  <1> HIDE DEF p
  <1>3. Len(AllMarks(<<>>)) = 0
    <2>1. [i \in DOMAIN <<>> |-> MarkAt(<<>>[i])] = <<>>
      OBVIOUS
    <2>2. AllMarks(<<>>) = <<>>
      BY <2>1, FlattenEmpty DEF AllMarks
    <2> QED BY <2>2
  <1>4. ParserInv(p)
    BY <1>1, <1>3, OutsideFits DEF Outside
  <1>5. ContextOf(p) = <<>>
    BY <1>1, OutsideIs
  <1>6. Sound(p) /\ Unread(p)
    BY <1>1, <1>2, <1>4 DEF Sound, Unread
  <1> QED BY <1>1, <1>5, <1>6 DEF p

(* An event asked for.                                                      *)
LEMMA ParseEventStep ==
  ASSUME ParsingInv, ParseEvent
  PROVE  ParsingInv' /\ EventStream!Next
  <1>1. Following /\ Following' /\ Sound(parser) /\ caller' = caller
    BY DEF ParsingInv, ParseEvent, Following
  <1>2. /\ Sound(parser')
        /\ StreamStep(ContextOf(parser), parser'.event.kind, ContextOf(parser'))
    BY <1>1, ParseIsStep DEF ParseEvent
  <1>3. Unread(parser')
    BY <1>1, NoReturn DEF ParseEvent, Unread
  <1>4. ParsingInv'
    BY <1>1, <1>2, <1>3 DEF ParsingInv, Unread
  <1> QED BY <1>1, <1>2, <1>4, StreamStepIsStep

(* The loader at work, and its parser: an application hears nothing of it.  *)
LEMMA LoaderStep ==
  ASSUME ParsingInv, ~Following, UNCHANGED caller
  PROVE  ParsingInv' /\ UNCHANGED EventStream!eventVars
  BY DEF ParsingInv, Following, EventStream!eventVars

(* Another parser is opened.                                                *)
LEMMA OpenParserStep ==
  ASSUME ParsingInv, Following, NEW text \in Seq(STRING), NEW enc, OpenParser(text, enc)
  PROVE  ParsingInv' /\ (EventStream!Next \/ UNCHANGED EventStream!eventVars)
  <1>1. /\ Sound(parser') /\ Unread(parser')
        /\ ContextOf(parser') = <<>> /\ parser'.event.kind = "NO-EVENT"
        /\ caller' = caller /\ Following'
    BY NewParserIsSound DEF OpenParser, Following
  <1>2. ParsingInv'
    BY <1>1 DEF ParsingInv, Unread
  <1>3. CASE parser.error # "none" \/ parser.state = "END"
    <2>1. ContextOf(parser) = <<"ended">>
      BY <1>3 DEF ContextOf
    <2>2. EventStream!Reopen
      BY <1>1, <2>1 DEF EventStream!Reopen
    <2> QED BY <1>2, <2>2 DEF EventStream!Next
  <1>4. CASE parser.error = "none" /\ parser.state = "STREAM-START"
    <2>1. ContextOf(parser) = <<>> /\ parser.event.kind = "NO-EVENT"
      BY <1>4 DEF ContextOf, ParsingInv, Unread
    <2>2. UNCHANGED EventStream!eventVars
      BY <1>1, <2>1 DEF EventStream!eventVars
    <2> QED BY <1>2, <2>2
  <1> QED BY <1>3, <1>4 DEF OpenParser, Following

(* Every step of the parser and its callers is a step of the stream or none *)
(* of it.                                                                   *)
LEMMA ParsingStep ==
  ASSUME ParsingInv, [ParsingNext]_parsingVars
  PROVE  ParsingInv' /\ [EventStream!Next]_EventStream!eventVars
  <1>1. CASE ParseEvent
    BY <1>1, ParseEventStep
  <1>2. CASE LoadEvents
    BY <1>2, LoaderStep DEF LoadEvents, Following
  <1>3. CASE \E text \in Seq(STRING), enc \in STRING : OpenParser(text, enc)
    <2>1. PICK text \in Seq(STRING), enc \in STRING : OpenParser(text, enc)
      BY <1>3
    <2>2. CASE Following
      BY <2>1, <2>2, OpenParserStep
    <2>3. CASE ~Following
      BY <2>1, <2>3, LoaderStep DEF OpenParser
    <2> QED BY <2>2, <2>3
  <1>4. CASE UNCHANGED parsingVars
    BY <1>4 DEF ParsingInv, Following, parsingVars, EventStream!eventVars
  <1> QED BY <1>1, <1>2, <1>3, <1>4 DEF ParsingNext

(* The parser an application has just made is in order.                     *)
LEMMA ParsingBegins ==
  ASSUME ParsingInit
  PROVE  ParsingInv /\ EventStream!Init
  <1>1. <<>> \in Seq(STRING)
    OBVIOUS
  <1>2. /\ Sound(parser) /\ Unread(parser) /\ ContextOf(parser) = <<>>
        /\ parser.event.kind = "NO-EVENT"
    BY <1>1, NewParserIsSound DEF ParsingInit
  <1> QED BY <1>2 DEF ParsingInit, ParsingInv, Following, EventStream!Init

(* As long as there is no error, the stack of states and the marks of the   *)
(* parser say what is open, a production never takes a state from an empty  *)
(* stack, and the token a collection is skipped by without a look is there  *)
(* (ParserInv), whatever the text and whatever the scanner finds in it.     *)
THEOREM ParserStaysInOrder == ParsingSpec => [](Following => ParserInv(parser))
  <1>1. ParsingInit => ParsingInv
    BY ParsingBegins
  <1>2. ParsingInv /\ [ParsingNext]_parsingVars => ParsingInv'
    BY ParsingStep
  <1>3. ParsingInv => (Following => ParserInv(parser))
    BY DEF ParsingInv, Sound
  <1> QED BY <1>1, <1>2, <1>3, PTL DEF ParsingSpec

(* The events an application is given come in the order of a stream of      *)
(* documents, for every text: yaml_parser_parse implements the promise the  *)
(* loader and the emitter rely on.                                          *)
THEOREM ParserImplementsEventStream == ParsingSpec => ImplementsEventStream
  <1>1. ParsingInit => ParsingInv /\ EventStream!Init
    BY ParsingBegins
  <1>2. ParsingInv /\ [ParsingNext]_parsingVars
          => ParsingInv' /\ [EventStream!Next]_EventStream!eventVars
    BY ParsingStep
  <1> QED BY <1>1, <1>2, PTL DEF ParsingSpec, ImplementsEventStream, EventStream!Spec
===================================================================================
