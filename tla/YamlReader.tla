------------------------------- MODULE YamlReader -------------------------------
(***************************************************************************)
(* The reader of the bundled YAML library (reader.c): octets come from a   *)
(* read handler in pieces of any size, wait in the raw buffer, and become  *)
(* characters in the buffer of the scanner.  A call of                     *)
(* yaml_parser_update_buffer reads and decodes until the buffer holds as   *)
(* many characters as the scanner wants; a step of this module is one call *)
(* of the handler or one character.                                        *)
(*                                                                         *)
(* The buffers are the sequences of what is unread in them: moving it to   *)
(* the front, as the code does before it reads on, changes no sequence.    *)
(***************************************************************************)
EXTENDS Utf8, SequencesExt

CONSTANTS RawSize,     \* INPUT_RAW_BUFFER_SIZE, in octets
          BufferSize   \* INPUT_BUFFER_SIZE, in octets

ASSUME ReaderAssumption ==
    /\ RawSize \in Nat /\ RawSize >= 4
    /\ BufferSize = 3 * RawSize

VARIABLES source,      \* the octets the handler has not delivered yet
          wholly,      \* whether the handler delivers all that fits
          raw,         \* the raw buffer
          eof,
          encoding,
          buffer,      \* the code points the scanner has not used yet
          delivered,   \* all code points that were put into the buffer
          wanted,      \* the length the scanner asked for
          at,          \* where the call is: idle, encoding, fill or decode
          broken       \* the reader error

readerVars == <<source, wholly, raw, eof, encoding, buffer, delivered, wanted, at, broken>>

-------------------------------------------------------------------------------
(* Decoding.                                                                *)

\* The code points that may stand in a document.
IsPermitted(code) ==
    \/ code \in {9, 10, 13, 133}
    \/ Between(code, 32, 126)
    \/ Between(code, 160, 55295)
    \/ Between(code, 57344, 65533)
    \/ Between(code, 65536, 1114111)

\* What stands at the head of the raw buffer: the number of octets the
\* character takes, 0 when some of them are missing, -1 when there is none.
Found(width, code) == [width |-> width, code |-> code]
Missing == Found(0, 0)
Malformed == Found(-1, 0)

Utf8HeadAtOnce(octets) ==
    LET width == Width(octets[1])
        whole == /\ width \in 1..Len(octets)
                 /\ \A k \in 2..width : IsTrailing(octets[k])
                 /\ Shortest(Decode(octets, 1, width), width)
    IN IF whole THEN Found(width, Decode(octets, 1, width)) ELSE Malformed
Utf8Head(octets) ==
    LET width == Width(octets[1])
        code == Decode(octets, 1, width)
    IN CASE width = 0 -> Malformed
         [] width > Len(octets) -> Missing
         [] width \in 1..Len(octets) ->
              IF /\ \A k \in 2..width : IsTrailing(octets[k])
                 /\ Shortest(code, width)
                 /\ ValidCode(code)
              THEN Found(width, code) ELSE Malformed

\* The 16 bits at "k"; the encoding says which octet comes first.
Unit(octets, k, order) ==
    IF order = "utf-16le" THEN octets[k] + (256 * octets[k + 1])
    ELSE (256 * octets[k]) + octets[k + 1]

IsHighSurrogate(unit) == Between(unit, 55296, 56319)
IsLowSurrogate(unit) == Between(unit, 56320, 57343)
Pair(high, low) == 65536 + (1024 * (high % 1024)) + (low % 1024)

Utf16Head(octets, order) ==
    LET first == Unit(octets, 1, order)
        second == Unit(octets, 3, order)
    IN IF Len(octets) < 2 THEN Missing
       ELSE IF IsLowSurrogate(first) THEN Malformed
       ELSE IF ~IsHighSurrogate(first) THEN Found(2, first)
       ELSE IF Len(octets) < 4 THEN Missing
       ELSE IF IsLowSurrogate(second) THEN Found(4, Pair(first, second))
       ELSE Malformed

HeadOf(octets, order) ==
    IF order = "utf-8" THEN Utf8Head(octets) ELSE Utf16Head(octets, order)

\* The byte order marks, and the encoding that a text begins with.
Marks == [order \in {"utf-8", "utf-16le", "utf-16be"} |->
            CASE order = "utf-8" -> <<239, 187, 191>>
              [] order = "utf-16le" -> <<255, 254>>
              [] order = "utf-16be" -> <<254, 255>>]
Begins(octets, mark) ==
    Len(octets) >= Len(mark) /\ SubSeq(octets, 1, Len(mark)) = mark
Drop(sequence, n) == SubSeq(sequence, n + 1, Len(sequence))

-------------------------------------------------------------------------------
(* Calls of the reader.                                                     *)

ReaderIdle == at = "idle" /\ broken = "none"

\* The reader of a new parser, before a source.
ReaderAt(octets, handlerIsWhole) ==
    /\ source = octets /\ wholly = handlerIsWhole
    /\ raw = <<>> /\ eof = FALSE /\ encoding = "any"
    /\ buffer = <<>> /\ delivered = <<>> /\ wanted = 0
    /\ at = "idle" /\ broken = "none"

\* The scanner has used all but the last "left" characters and wants
\* "length".  At the end of the source, or with enough at hand, the call
\* returns at once.
Ask(length, left) ==
    /\ ReaderIdle
    /\ ~(eof /\ raw = <<>>)
    /\ left < length /\ left <= Len(buffer)
    /\ buffer' = Drop(buffer, Len(buffer) - left)
    /\ wanted' = length
    /\ at' = IF encoding = "any" THEN "encoding" ELSE IF raw = <<>> THEN "fill" ELSE "decode"
    /\ UNCHANGED <<source, wholly, raw, eof, encoding, delivered, broken>>

\* update_raw_buffer: the handler fills as much of the room as it likes, and
\* nothing at the end of the source only.
Deliver(n) ==
    /\ ~eof /\ Len(raw) < RawSize
    /\ n <= RawSize - Len(raw)
    /\ raw' = raw \o SubSeq(source, 1, n)
    /\ source' = Drop(source, n)
    /\ eof' = (n = 0)
Delivery == IF source = <<>> THEN {0}
            ELSE IF wholly THEN {IF Len(source) < RawSize - Len(raw) THEN Len(source)
                                 ELSE RawSize - Len(raw)}
            ELSE 1..Len(source)
FillRaw == \/ \E n \in Delivery : Deliver(n)
           \/ (eof \/ Len(raw) = RawSize) /\ UNCHANGED <<source, raw, eof>>

ReadFails ==
    /\ at \in {"encoding", "fill"} /\ broken = "none"
    /\ ~wholly /\ ~eof /\ Len(raw) < RawSize
    /\ at = "encoding" => Len(raw) < 3
    /\ at' = "idle" /\ broken' = "input"
    /\ UNCHANGED <<source, wholly, raw, eof, encoding, buffer, delivered, wanted>>

FillForEncoding ==
    /\ at = "encoding" /\ ~eof /\ Len(raw) < 3
    /\ FillRaw
    /\ UNCHANGED <<wholly, encoding, buffer, delivered, wanted, at, broken>>

\* UTF-8 unless a byte order mark says otherwise; the mark is no character.
DetermineEncoding ==
    /\ at = "encoding" /\ (eof \/ Len(raw) >= 3)
    /\ LET marked == {order \in DOMAIN Marks : Begins(raw, Marks[order])}
       IN IF marked = {} THEN encoding' = "utf-8" /\ raw' = raw
          ELSE \E order \in marked : encoding' = order /\ raw' = Drop(raw, Len(Marks[order]))
    /\ at' = IF raw' = <<>> THEN "fill" ELSE "decode"
    /\ UNCHANGED <<source, wholly, eof, buffer, delivered, wanted, broken>>

Fill ==
    /\ at = "fill"
    /\ FillRaw
    /\ at' = "decode"
    /\ UNCHANGED <<wholly, encoding, buffer, delivered, wanted, broken>>

Store(code) == buffer' = Append(buffer, code) /\ delivered' = Append(delivered, code)

\* A character that has not wholly arrived is an error at the end only.
DecodeCharacter ==
    /\ at = "decode" /\ raw # <<>>
    /\ LET found == HeadOf(raw, encoding)
           bad == \/ found = Malformed
                  \/ found = Missing /\ eof
                  \/ found.width > 0 /\ ~IsPermitted(found.code)
       IN \/ /\ bad
             /\ broken' = "reader" /\ at' = "idle"
             /\ UNCHANGED <<raw, buffer, delivered>>
          \/ /\ ~bad /\ found # Missing
             /\ raw' = Drop(raw, found.width)
             /\ Store(found.code)
             /\ UNCHANGED <<at, broken>>
          \/ /\ ~bad /\ found = Missing
             /\ at' = IF Len(buffer) < wanted THEN "fill" ELSE "idle"
             /\ UNCHANGED <<raw, buffer, delivered, broken>>
    /\ UNCHANGED <<source, wholly, eof, encoding, wanted>>

\* The raw buffer is used up.  A NUL ends the text.
FinishDecoding ==
    /\ at = "decode" /\ raw = <<>>
    /\ IF eof THEN Store(0) ELSE UNCHANGED <<buffer, delivered>>
    /\ at' = IF Len(buffer) < wanted /\ ~eof THEN "fill" ELSE "idle"
    /\ UNCHANGED <<source, wholly, raw, eof, encoding, wanted, broken>>

ReaderStep == \/ FillForEncoding \/ DetermineEncoding \/ Fill
              \/ DecodeCharacter \/ FinishDecoding

\* The scanner looks ahead by one of the lengths.
Look(lengths) == \E length \in lengths : \E left \in 0..(length - 1) : Ask(length, left)

ReaderNext(lengths) == Look(lengths) \/ ReaderStep \/ ReadFails

\* The scanner has the whole text, and the NUL after it.
ReadWholly == ReaderIdle /\ eof /\ raw = <<>>

-------------------------------------------------------------------------------
(* Encoding: what the writer makes of characters (writer.c).                *)

\* 16 bits, in the order of the encoding.
Octets16(unit, order) ==
    IF order = "utf-16le" THEN << unit % 256, unit \div 256 >>
    ELSE << unit \div 256, unit % 256 >>

\* The writer's own arithmetic for a character beyond 16 bits: the second unit
\* keeps eight bits of the high octet where a surrogate has two.
Recode(code, order) ==
    LET rest == code - 65536
        low == (256 * ((220 + ((rest \div 256) % 256)) % 256)) + (rest % 256)
    IN CASE order = "utf-8" -> Encode(code)
         [] order # "utf-8" /\ code < 65536 -> Octets16(code, order)
         [] order # "utf-8" /\ code >= 65536 ->
              Octets16((256 * (216 + (rest \div 262144))) + ((rest \div 1024) % 256), order)
              \o Octets16(low, order)

-------------------------------------------------------------------------------
(* What the reader promises, by the definition of the encodings (RFC 3629, *)
(* RFC 2781).                                                              *)

Encoded(code, order) ==
    IF order = "utf-8" THEN Encode(code)
    ELSE IF code < 65536 THEN Octets16(code, order)
    ELSE Octets16(55296 + ((code - 65536) \div 1024), order)
         \o Octets16(56320 + ((code - 65536) % 1024), order)
EncodedText(text, order) == FlattenSeq([i \in DOMAIN text |-> Encoded(text[i], order)])

\* A byte order mark at the beginning is never a character.
StandsFor(octets, text) ==
    \/ \E order \in DOMAIN Marks : octets = Marks[order] \o EncodedText(text, order)
    \/ /\ \A order \in DOMAIN Marks : ~Begins(octets, Marks[order])
       /\ octets = EncodedText(text, "utf-8")

\* Octets that stand for these texts are read as the only one, and the NUL
\* that ends it, or refused when there is none.
ReadsExactly(texts) ==
    /\ ReadWholly => \E text \in texts : texts = {text} /\ delivered = Append(text, 0)
    /\ broken = "reader" => texts = {}

\* Both buffers hold what is put into them.
BuffersFit ==
    /\ Len(raw) <= RawSize
    /\ Len(EncodedText(buffer, "utf-8")) <= BufferSize
===============================================================================
