------------------------------- MODULE JsonValue -------------------------------
(***************************************************************************)
(* JSON values (value.c of the bundled jansson library): strings and keys  *)
(* are sequences of octets, integers the numerals of their digits, reals   *)
(* what the lexer makes of them.                                           *)
(***************************************************************************)
EXTENDS JsonTable, YamlText

Simple(type) == [type |-> type]
IntegerValue(digits) == [type |-> "integer", digits |-> digits]
RealValue(real) == [type |-> "real", real |-> real]
StringValue(octets) == [type |-> "string", octets |-> octets]
ArrayValue(items) == [type |-> "array", items |-> items]

\* The serial numbers of an object's keys are never used again.
NewObject == [type |-> "object", serial |-> 0, table |-> NewTable]

ArrayAppend(array, value) == [array EXCEPT !.items = Append(array.items, value)]

ObjectSet(object, key, value) ==
    [object EXCEPT !.serial = object.serial + 1,
                   !.table = TableSet(object.table, TablePair(key, object.serial, value))]
ObjectDel(object, key) == [object EXCEPT !.table = TableDel(object.table, key)]
ObjectClear(object) == [object EXCEPT !.table = TableClear(object.table)]

ObjectHas(object, key) == FindPair(object.table, key) # 0
ObjectGet(object, key) == object.table.pairs[FindPair(object.table, key)].value

\* json_object_update, in the order the other object is iterated.
ObjectUpdate(object, other) ==
    FoldLeft(LAMBDA o, pair : ObjectSet(o, pair.key, pair.value), object, other.table.pairs)

RECURSIVE JsonEqual(_, _)
ObjectEqual(a, b) ==
    /\ Len(a.table.pairs) = Len(b.table.pairs)
    /\ \A i \in DOMAIN a.table.pairs :
           LET pair == a.table.pairs[i]
           IN ObjectHas(b, pair.key) /\ JsonEqual(pair.value, ObjectGet(b, pair.key))

ArrayEqual(a, b) ==
    /\ Len(a.items) = Len(b.items)
    /\ \A i \in DOMAIN a.items : JsonEqual(a.items[i], b.items[i])

JsonEqual(a, b) ==
    /\ a.type = b.type
    /\ CASE a.type = "object" -> ObjectEqual(a, b)
         [] a.type = "array" -> ArrayEqual(a, b)
         [] OTHER -> a = b

RECURSIVE DeepCopy(_)
ObjectDeepCopy(object) ==
    FoldLeft(LAMBDA o, pair : ObjectSet(o, pair.key, DeepCopy(pair.value)),
             NewObject, object.table.pairs)
ArrayDeepCopy(array) == ArrayValue([i \in DOMAIN array.items |-> DeepCopy(array.items[i])])

DeepCopy(value) ==
    CASE value.type = "object" -> ObjectDeepCopy(value)
      [] value.type = "array" -> ArrayDeepCopy(value)
      [] OTHER -> value
===============================================================================
