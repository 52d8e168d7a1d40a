---------------------------- MODULE YamlSerialization ---------------------------
(***************************************************************************)
(* The application's own use of the YAML library (YAMLSerialization.m):    *)
(* strings, arrays and dictionaries become a document each, node by node,  *)
(* which the emitter dumps; a document that was loaded becomes objects.    *)
(*                                                                         *)
(* A string holds a text; an array its items; a dictionary its entries, in *)
(* the order in which allKeys has them.  Numbers, which are written as     *)
(* their decimal strings, are strings here.                                *)
(***************************************************************************)
EXTENDS YamlDocument

StringObject(text) == [class |-> "string", text |-> text, contents |-> <<>>]
ArrayObject(items) == [class |-> "array", text |-> <<>>, contents |-> items]
DictionaryObject(entries) == [class |-> "dictionary", text |-> <<>>, contents |-> entries]

\* [string length]: a character beyond 16 bits counts twice.
LengthOf(text) == FoldLeft(LAMBDA n, c : n + (IF Code[c] < 65536 THEN 1 ELSE 2), 0, text)

\* __YAMLSerializationAddObject.  The number of characters of a string is
\* passed for the number of its octets.
RECURSIVE AddObject(_, _)
AddObject(b, value) ==
    LET open == IF value.class = "array" THEN DocumentAddSequence(b.document, Null, "block")
                ELSE DocumentAddMapping(b.document, Null, "block")
        Kept(before, after) == [after EXCEPT !.ok = @ /\ before.ok]
        Item(r, item) ==
            LET added == AddObject(r, item)
            IN Kept(added, DocumentAppendSequenceItem(added.document, open.index, added.index))
        Entry(r, entry) ==
            LET key == AddObject(r, entry[1])
                element == AddObject(key, entry[2])
            IN Kept(element, DocumentAppendMappingPair(element.document, open.index,
                                                       key.index, element.index))
        opened == Kept(b, open)
    IN CASE ~b.ok -> b
         [] b.ok /\ value.class = "string" ->
              Kept(b, DocumentAddScalar(b.document, Null, value.text, LengthOf(value.text),
                                        "plain"))
         [] b.ok /\ value.class = "array" ->
              [FoldLeft(Item, opened, value.contents) EXCEPT !.index = open.index]
         [] b.ok /\ value.class = "dictionary" ->
              [FoldLeft(Entry, opened, value.contents) EXCEPT !.index = open.index]

\* The document is neither given a version nor left implicit.
AddRootObject(value) == AddObject(Built(NewDocument(Null, <<>>, FALSE, FALSE), 0), value)

\* initWithUTF8String: a NUL ends the string.
UpToEnd(text) ==
    LET end == SelectInSeq(text, LAMBDA c : c = End)
    IN IF end = 0 THEN text ELSE SubSeq(text, 1, end - 1)

\* The object of a node, its items among it; a later entry of a dictionary
\* takes the place of an earlier one with the same key.  The containers are
\* filled in the order of the table, and a dictionary copies its keys: one that
\* stands later in the table is copied while it is empty.
RECURSIVE ObjectOf(_, _)
ObjectOf(document, index) ==
    LET node == document.nodes[index]
        Object(i) == ObjectOf(document, i)
        KeyObject(i) ==
            CASE document.nodes[i].type = "scalar" \/ i < index -> Object(i)
              [] document.nodes[i].type = "sequence" /\ i >= index -> ArrayObject(<<>>)
              [] document.nodes[i].type = "mapping" /\ i >= index -> DictionaryObject(<<>>)
        Set(entries, pair) ==
            LET others == SelectSeq(entries, LAMBDA entry : entry[1] # KeyObject(pair[1]))
            IN Append(others, <<KeyObject(pair[1]), Object(pair[2])>>)
    IN CASE node.type = "scalar" -> StringObject(UpToEnd(node.value))
         [] node.type = "sequence" ->
              ArrayObject([i \in DOMAIN node.items |-> Object(node.items[i])])
         [] node.type = "mapping" -> DictionaryObject(FoldLeft(Set, <<>>, node.items))
===============================================================================
