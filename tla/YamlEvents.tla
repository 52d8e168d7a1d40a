------------------------------ MODULE YamlEvents -------------------------------
(***************************************************************************)
(* The events the parser of the YAML library produces and its emitter      *)
(* takes (yaml_event_t); "kind" is the type of the event.                  *)
(***************************************************************************)
EXTENDS YamlText

Null == <<>>           \* an anchor, a tag or a version that is absent

Event(kind) == [kind |-> kind]
NoEvent == Event("NO-EVENT")
StreamStart(encoding) == [kind |-> "STREAM-START", encoding |-> encoding]
DocumentStart(version, tags, implicit) ==
    [kind |-> "DOCUMENT-START", version |-> version, tags |-> tags, implicit |-> implicit]
DocumentEnd(implicit) == [kind |-> "DOCUMENT-END", implicit |-> implicit]
Alias(anchor) == [kind |-> "ALIAS", anchor |-> anchor]
Scalar(anchor, tag, value, plainImplicit, quotedImplicit, style) ==
    [kind |-> "SCALAR", anchor |-> anchor, tag |-> tag, value |-> value,
     plainImplicit |-> plainImplicit, quotedImplicit |-> quotedImplicit, style |-> style]
Collection(kind, anchor, tag, implicit, style) ==
    [kind |-> kind, anchor |-> anchor, tag |-> tag, implicit |-> implicit, style |-> style]
SequenceStart(anchor, tag, implicit, style) ==
    Collection("SEQUENCE-START", anchor, tag, implicit, style)
MappingStart(anchor, tag, implicit, style) ==
    Collection("MAPPING-START", anchor, tag, implicit, style)
SequenceEnd == Event("SEQUENCE-END")
MappingEnd == Event("MAPPING-END")
StreamEnd == Event("STREAM-END")
EmptyScalar == Scalar(Null, Null, <<>>, TRUE, FALSE, "plain")

Opens == {"STREAM-START", "DOCUMENT-START", "SEQUENCE-START", "MAPPING-START"}
Closes == {"STREAM-END", "DOCUMENT-END", "SEQUENCE-END", "MAPPING-END"}

\* The tag directives every document has, unless it declares its own.
DefaultDirectives == << [handle |-> <<"!">>, prefix |-> <<"!">>],
                        [handle |-> <<"!", "!">>, prefix |-> Chars("tag:yaml.org,2002:")] >>

Handles(directives) == {directives[i].handle : i \in DOMAIN directives}

\* The default directives a document has not declared itself.
WithDefaults(directives) ==
    directives \o SelectSeq(DefaultDirectives, LAMBDA d : d.handle \notin Handles(directives))
===============================================================================
