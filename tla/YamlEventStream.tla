---------------------------- MODULE YamlEventStream -----------------------------
(***************************************************************************)
(* What the parser of the YAML library promises its callers: events come   *)
(* in the order of a stream of documents.  The loader and the emitter rely *)
(* on it: they assert, or refuse, what does not fit.                       *)
(*                                                                         *)
(* "context" holds what is open.  A document expects one node, a sequence  *)
(* any number of them, and a mapping a key or its end, then a value.       *)
(***************************************************************************)
EXTENDS Naturals, Sequences

VARIABLES context, event

eventVars == <<context, event>>

Top == context[Len(context)]
Rest == SubSeq(context, 1, Len(context) - 1)

\* What is expected after a node.
AfterNode == [document |-> "document-end", sequence |-> "sequence",
              key |-> "value", value |-> "key"]
NodeExpected == context # <<>> /\ Top \in DOMAIN AfterNode
NodeGiven == Append(Rest, AfterNode[Top])

Init == context = <<>> /\ event = "NO-EVENT"

Open(kind, opened) == event' = kind /\ context' = Append(context, opened)
Close(kind) == event' = kind /\ context' = Rest

StreamStart == context = <<>> /\ Open("STREAM-START", "stream")
StreamEnd == context = <<"stream">> /\ event' = "STREAM-END" /\ context' = <<"ended">>

DocumentStart == context = <<"stream">> /\ Open("DOCUMENT-START", "document")
DocumentEnd == context = <<"stream", "document-end">> /\ Close("DOCUMENT-END")

Leaf(kind) == NodeExpected /\ event' = kind /\ context' = NodeGiven
Collection(kind, opened) ==
    NodeExpected /\ event' = kind /\ context' = Append(NodeGiven, opened)
SequenceEnd == context # <<>> /\ Top = "sequence" /\ Close("SEQUENCE-END")
MappingEnd == context # <<>> /\ Top = "key" /\ Close("MAPPING-END")

\* The text is refused: nothing comes after that.
Refusal == context # <<"ended">> /\ event' = "NO-EVENT" /\ context' = <<"ended">>

\* Asked for more, the parser has nothing to tell.
Silence == context = <<"ended">> /\ event' = "NO-EVENT" /\ UNCHANGED context

\* A new parser, for another stream.
Reopen == context = <<"ended">> /\ context' = <<>> /\ event' = "NO-EVENT"

Next == \/ Reopen
        \/ StreamStart \/ StreamEnd
        \/ DocumentStart \/ DocumentEnd
        \/ Leaf("ALIAS") \/ Leaf("SCALAR")
        \/ Collection("SEQUENCE-START", "sequence") \/ SequenceEnd
        \/ Collection("MAPPING-START", "key") \/ MappingEnd
        \/ Refusal \/ Silence

Spec == Init /\ [][Next]_eventVars
===============================================================================
