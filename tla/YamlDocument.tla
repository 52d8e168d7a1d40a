----------------------------- MODULE YamlDocument -----------------------------
(***************************************************************************)
(* Documents of the bundled YAML library: a table of nodes that refer to   *)
(* each other by index, so that a node may be shared or contain itself.    *)
(* The loader (loader.c) composes a document from events, the document     *)
(* functions of api.c build one by hand, and the dumper (dumper.c) turns   *)
(* one into events for the emitter, with anchors for the shared nodes.     *)
(***************************************************************************)
EXTENDS YamlParser, YamlEmitter

StrTag == Chars("tag:yaml.org,2002:str")
SeqTag == Chars("tag:yaml.org,2002:seq")
MapTag == Chars("tag:yaml.org,2002:map")

ScalarNode(tag, value, style) ==
    [type |-> "scalar", tag |-> tag, value |-> value, style |-> style, items |-> <<>>]

\* The items of a mapping are pairs <<key, value>>.
CollectionNode(type, tag, style) ==
    [type |-> type, tag |-> tag, value |-> <<>>, style |-> style, items |-> <<>>]

NewDocument(version, tags, startImplicit, endImplicit) ==
    [version |-> version, tags |-> tags, startImplicit |-> startImplicit,
     endImplicit |-> endImplicit, nodes |-> <<>>]
NoDocument == NewDocument(Null, <<>>, FALSE, FALSE)

HasRoot(document) == document.nodes # <<>>

-------------------------------------------------------------------------------
(* Building a document by hand.  The result is the document and the index   *)
(* of the new node, 0 when there is none; "ok" is false after an assertion  *)
(* that does not hold.                                                      *)

Built(document, index) == [document |-> document, index |-> index, ok |-> TRUE]

\* Whether the octets are whole characters, each in its shortest form.
RECURSIVE CheckUtf8(_)
CheckUtf8(octets) ==
    LET width == Width(octets[1])
    IN \/ octets = <<>>
       \/ /\ width > 0
          /\ width <= Len(octets)
          /\ \A i \in 2..width : IsTrailing(octets[i])
          /\ Shortest(Decode(octets, 1, width), width)
          /\ CheckUtf8(SubSeq(octets, width + 1, Len(octets)))

OctetsOf(text) == FlattenSeq([i \in DOMAIN text |-> Encode(Code[text[i]])])

\* The text the first octets of a text stand for.
TextOf(text, length) ==
    SubSeq(text, 1, CHOOSE n \in 0..Len(text) : Size(SubSeq(text, 1, n)) = length)

AddNode(document, node) ==
    Built([document EXCEPT !.nodes = Append(@, node)], Len(document.nodes) + 1)

\* "length" counts octets; a text that ends inside a character is refused.
DocumentAddScalar(document, tag, value, length, style) ==
    IF CheckUtf8(SubSeq(OctetsOf(value), 1, length))
    THEN AddNode(document, ScalarNode(IF tag = Null THEN StrTag ELSE tag,
                                      TextOf(value, length), style))
    ELSE Built(document, 0)
DocumentAddSequence(document, tag, style) ==
    AddNode(document, CollectionNode("sequence", IF tag = Null THEN SeqTag ELSE tag, style))
DocumentAddMapping(document, tag, style) ==
    AddNode(document, CollectionNode("mapping", IF tag = Null THEN MapTag ELSE tag, style))

PrependItem(document, index, item) ==
    Built([document EXCEPT !.nodes[index].items = <<item>> \o @], index)
AppendItem(document, index, item) ==
    Built([document EXCEPT !.nodes[index].items = Append(@, item)], index)
DocumentAppendSequenceItem(document, sequence, item) ==
    [AppendItem(document, sequence, item) EXCEPT
        !.ok = /\ {sequence, item} \subseteq DOMAIN document.nodes
               /\ document.nodes[sequence].type = "sequence"]
DocumentAppendMappingPair(document, mapping, key, value) ==
    [AppendItem(document, mapping, <<key, value>>) EXCEPT
        !.ok = /\ {mapping, key, value} \subseteq DOMAIN document.nodes
               /\ document.nodes[mapping].type = "mapping"]

-------------------------------------------------------------------------------
(* The loader.  "l" holds the parser, the document and the anchors seen so  *)
(* far; "index" is the node just composed, 0 after an error.                *)

ComposerError(l) == [l EXCEPT !.parser.error = "composer", !.index = 0]
NextEvent(l) == [l EXCEPT !.parser = Parse(@)]
Loaded(l) == l.parser.error = "none"

RegisterAnchor(l, anchor) ==
    CASE anchor = Null -> l
      [] anchor # Null /\ \E a \in ToSet(l.aliases) : a.anchor = anchor -> ComposerError(l)
      [] OTHER -> [l EXCEPT !.aliases = Append(@, [anchor |-> anchor, index |-> l.index])]

LoadAlias(l, event) ==
    LET known == SelectSeq(l.aliases, LAMBDA a : a.anchor = event.anchor)
    IN IF known = <<>> THEN ComposerError(l) ELSE [l EXCEPT !.index = known[1].index]

\* A node of the event, in the table before what it contains.
PushNode(l, event, node) ==
    RegisterAnchor([l EXCEPT !.document.nodes = Append(@, node),
                             !.index = Len(l.document.nodes) + 1], event.anchor)
DefaultTag(event, default) == IF event.tag \in {Null, <<"!">>} THEN default ELSE event.tag

LoadScalar(l, event) ==
    PushNode(l, event, ScalarNode(DefaultTag(event, StrTag), event.value, event.style))

\* A collection is in the table, and known by its anchor, before its items:
\* an alias among them may be the collection itself.
RECURSIVE LoadNode(_), LoadItems(_, _), LoadPairs(_, _)
LoadItems(l, index) ==
    LET item == LoadNode(l)
    IN IF ~Loaded(l) \/ l.parser.event.kind = "SEQUENCE-END" THEN [l EXCEPT !.index = index]
       ELSE IF ~Loaded(item) THEN item
       ELSE LoadItems(NextEvent([item EXCEPT !.document.nodes[index].items =
                                                Append(@, item.index)]), index)
LoadPairs(l, index) ==
    LET key == LoadNode(l)
        second == NextEvent(key)
        value == LoadNode(second)
    IN IF ~Loaded(l) \/ l.parser.event.kind = "MAPPING-END" THEN [l EXCEPT !.index = index]
       ELSE IF ~Loaded(key) THEN key
       ELSE IF ~Loaded(second) THEN second
       ELSE IF ~Loaded(value) THEN value
       ELSE LoadPairs(NextEvent([value EXCEPT !.document.nodes[index].items =
                                                 Append(@, <<key.index, value.index>>)]), index)

LoadCollection(l, event) ==
    IF event.kind = "SEQUENCE-START"
    THEN PushNode(l, event, CollectionNode("sequence", DefaultTag(event, SeqTag), event.style))
    ELSE PushNode(l, event, CollectionNode("mapping", DefaultTag(event, MapTag), event.style))

LoadNode(l) ==
    LET event == l.parser.event
        open == LoadCollection(l, event)
    IN CASE event.kind = "ALIAS" -> LoadAlias(l, event)
         [] event.kind = "SCALAR" -> LoadScalar(l, event)
         [] event.kind \in {"SEQUENCE-START", "MAPPING-START"} /\ ~Loaded(open) -> open
         [] event.kind = "SEQUENCE-START" /\ Loaded(open) -> LoadItems(NextEvent(open), open.index)
         [] event.kind = "MAPPING-START" /\ Loaded(open) -> LoadPairs(NextEvent(open), open.index)

LoadDocument(parser) ==
    LET start == parser.event
        content == NextEvent([parser |-> parser, aliases |-> <<>>, index |-> 0,
                              document |-> NewDocument(start.version, start.tags,
                                                       start.implicit, FALSE)])
        root == LoadNode(content)
        end == NextEvent(root)
    IN IF ~Loaded(content) THEN content ELSE IF ~Loaded(root) THEN root
       ELSE IF ~Loaded(end) THEN end
       ELSE [end EXCEPT !.document.endImplicit = end.parser.event.implicit]

\* The next document of a stream: the parser after it and the document, which
\* has no nodes at the end of the stream or after an error.
Load(parser) ==
    LET begun == IF parser.scan.started THEN parser ELSE Parse(parser)
        next == Parse(begun)
        l == LoadDocument(next)
        Nothing(p) == [parser |-> p, document |-> NoDocument]
    IN IF begun.error # "none" \/ begun.ended THEN Nothing(begun)
       ELSE IF next.error # "none" \/ next.event.kind = "STREAM-END" THEN Nothing(next)
       ELSE IF ~Loaded(l) THEN Nothing(l.parser)
       ELSE [parser |-> l.parser, document |-> l.document]

-------------------------------------------------------------------------------
(* The dumper.                                                              *)

OpenEmitter(e) == [Emit(e, StreamStart("any")) EXCEPT !.opened = TRUE]
CloseEmitter(e) ==
    IF e.closed THEN e ELSE [Emit(e, StreamEnd) EXCEPT !.closed = TRUE]

NewAnchors(document) ==
    [i \in DOMAIN document.nodes |-> [references |-> 0, anchor |-> 0, serialized |-> FALSE]]

\* The indexes a node refers to, in the order they are written.
Children(node) ==
    IF node.type = "mapping" THEN FlattenSeq(node.items) ELSE node.items

\* Counts the references from "index" on; "a" holds the anchors and the last
\* number given to one, at the second reference.
RECURSIVE AnchorNode(_, _, _)
AnchorNode(document, a, index) ==
    LET references == a.anchors[index].references + 1
        counted == [a EXCEPT !.anchors[index].references = references]
        Visit(b, child) == AnchorNode(document, b, child)
    IN CASE references = 1 -> FoldLeft(Visit, counted, Children(document.nodes[index]))
         [] references = 2 -> [counted EXCEPT !.last = @ + 1,
                                              !.anchors[index].anchor = a.last + 1]
         [] OTHER -> counted

\* "id" and the number, in three digits.
GenerateAnchor(number) ==
    IF number = 0 THEN Null
    ELSE <<"i", "d">> \o [i \in 1..3 |-> HexDigits[1 + ((number \div 10^(3 - i)) % 10)]]

\* The tag a reader gives the node without being told.
HasStandardTag(node) == IsPrefix(Chars("tag:yaml.org,2002:"), node.tag)
HasDefaultTag(node) ==
    node.tag = [scalar |-> StrTag, sequence |-> SeqTag, mapping |-> MapTag][node.type]

\* The events of the nodes from "index" on; "d" is the emitter and the anchors.
RECURSIVE DumpNode(_, _, _)
DumpNode(document, d, index) ==
    LET node == document.nodes[index]
        anchor == GenerateAnchor(d.anchors[index].anchor)
        Sent(f, event) == [f EXCEPT !.emitter = Emit(@, event)]
        Visit(f, child) == DumpNode(document, f, child)
        first == [d EXCEPT !.anchors[index].serialized = TRUE]
        implicit == HasDefaultTag(node)
        Dumped(Start(_, _, _, _), end) ==
            Sent(FoldLeft(Visit, Sent(first, Start(anchor, node.tag, implicit, node.style)),
                          Children(node)), end)
    IN CASE d.anchors[index].serialized -> Sent(d, Alias(anchor))
         [] ~d.anchors[index].serialized /\ node.type = "scalar" ->
              Sent(first, Scalar(anchor, node.tag, node.value, implicit, implicit, node.style))
         [] ~d.anchors[index].serialized /\ node.type = "sequence" ->
              Dumped(SequenceStart, SequenceEnd)
         [] ~d.anchors[index].serialized /\ node.type = "mapping" ->
              Dumped(MappingStart, MappingEnd)

\* A document without nodes ends the stream.
Dump(emitter, document) ==
    LET opened == IF emitter.opened THEN emitter ELSE OpenEmitter(emitter)
        counted == AnchorNode(document, [anchors |-> NewAnchors(document), last |-> 0], 1)
        start == Emit(opened, DocumentStart(document.version, document.tags,
                                            document.startImplicit))
        dumped == DumpNode(document, [emitter |-> start, anchors |-> counted.anchors], 1)
    IN IF HasRoot(document) THEN Emit(dumped.emitter, DocumentEnd(document.endImplicit))
       ELSE CloseEmitter(opened)
===============================================================================
