------------------------------ MODULE JsonLoader ------------------------------
(***************************************************************************)
(* The recursive descent of load.c, from the tokens of a stream to a value.*)
(* It fails at a token that does not fit; the token of a failed assertion  *)
(* fits nowhere.                                                           *)
(***************************************************************************)
EXTENDS JsonLexer

JsonLoaded(value, next) == [status |-> "ok", value |-> value, next |-> next]
Fails(token) == [status |-> IF token.kind = "ABORT" THEN "aborted" ELSE "refused"]

\* The parts of an object and of an array call each other through the value:
\* "token" is the one that has been scanned last.
RECURSIVE ParseValue(_, _, _), ParseMembers(_, _, _, _), ParseItems(_, _, _, _)

\* From the key of a member on.
ParseMembers(s, token, flags, object) ==
    LET colon == LexScan(s, token.next)
        value == ParseValue(s, LexScan(s, colon.next), flags)
        extended == ObjectSet(object, token.value, value.value)
        after == LexScan(s, value.next)
    IN CASE token.kind # "STRING" -> Fails(token)
         [] token.kind = "STRING" /\ "REJECT_DUPLICATES" \in flags
              /\ ObjectHas(object, token.value) -> Fails(token)
         [] OTHER ->
              IF colon.kind # ":" THEN Fails(colon)
              ELSE IF value.status # "ok" THEN value
              ELSE IF after.kind = "," THEN ParseMembers(s, LexScan(s, after.next), flags, extended)
              ELSE IF after.kind = "}" THEN JsonLoaded(extended, after.next)
              ELSE Fails(after)

\* From the first token of an item on.
ParseItems(s, token, flags, array) ==
    LET item == ParseValue(s, token, flags)
        extended == ArrayAppend(array, item.value)
        after == LexScan(s, item.next)
    IN IF item.status # "ok" THEN item
       ELSE IF after.kind = "," THEN ParseItems(s, LexScan(s, after.next), flags, extended)
       ELSE IF after.kind = "]" THEN JsonLoaded(extended, after.next)
       ELSE Fails(after)

\* "at" is behind the bracket that opens the object or the array.
ParseObject(s, at, flags) ==
    LET first == LexScan(s, at)
    IN IF first.kind = "}" THEN JsonLoaded(NewObject, first.next)
       ELSE ParseMembers(s, first, flags, NewObject)

ParseArray(s, at, flags) ==
    LET first == LexScan(s, at)
    IN IF first.kind = "]" THEN JsonLoaded(ArrayValue(<<>>), first.next)
       ELSE ParseItems(s, first, flags, ArrayValue(<<>>))

ParseValue(s, token, flags) ==
    CASE token.kind = "STRING" -> JsonLoaded(StringValue(token.value), token.next)
      [] token.kind = "INTEGER" -> JsonLoaded(IntegerValue(token.value), token.next)
      [] token.kind = "REAL" -> JsonLoaded(RealValue(token.value), token.next)
      [] token.kind \in {"true", "false", "null"} -> JsonLoaded(Simple(token.kind), token.next)
      [] token.kind = "{" -> ParseObject(s, token.next, flags)
      [] token.kind = "[" -> ParseArray(s, token.next, flags)
      [] OTHER -> Fails(token)

\* An array or an object, and nothing after it.
JsonLoads(octets, flags) ==
    LET s == Stream(octets)
        first == LexScan(s, 1)
        result == ParseValue(s, first, flags)
        end == LexScan(s, result.next)
    IN IF first.kind \notin {"[", "{"} THEN Fails(first)
       ELSE IF result.status # "ok" \/ "DISABLE_EOF_CHECK" \in flags THEN result
       ELSE IF end.kind # "EOF" THEN Fails(end)
       ELSE result
===============================================================================
