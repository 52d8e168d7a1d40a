------------------------------ MODULE YamlRoundTrip -----------------------------
(***************************************************************************)
(* The parts of the bundled YAML library put together: octets are read,    *)
(* parsed and emitted again, and what was emitted is read and parsed in    *)
(* turn.  A task says how: event by event, as tests/run-emitter.c does; a  *)
(* document at a time, as tests/run-dumper.c does; from objects, as the    *)
(* application does (YAMLSerialization.m); or the reader alone, as         *)
(* tests/test-reader.c does.                                               *)
(***************************************************************************)
EXTENDS YamlReader, YamlScanner, YamlParsing, YamlSerialization

CONSTANTS Tasks,
          \* The library under test, as its header declares it; the modules of
          \* its parts define what these are.
          ParserLoad(_),                     \* yaml_parser_load
          EmitterEmit(_, _), EmitterDump(_, _)  \* yaml_emitter_emit, _dump

VARIABLES task,        \* what this run is to do, and with what
          stage,       \* how far it is
          emitter,
          given,       \* the events, documents or objects that were written
          returned     \* those that were read back

tripVars == <<task, stage, parser, caller, emitter, given, returned>>
vars == <<readerVars, tripVars>>

\* "lengths" are how far ahead the scanner looks, "wholly" whether the read
\* handler is one of the library's, which deliver all that fits.
\* "texts" are the texts the octets may stand for, where that is the question.
Task(mode, octets, texts, objects, settings) ==
    [mode |-> mode, octets |-> octets, texts |-> texts, objects |-> objects,
     settings |-> settings,
     lengths |-> IF mode = "reader" THEN {1, 3} ELSE {1},
     wholly |-> mode \in {"events", "documents"}]

Init ==
    \E t \in Tasks :
        /\ task = t
        /\ ReaderAt(t.octets, t.wholly)
        /\ stage = IF t.mode = "objects" THEN "writing" ELSE "reading"
        /\ ParsingInit
        /\ caller = IF t.mode = "events" THEN "application" ELSE "loader"
        /\ emitter = NewEmitter(t.settings)
        /\ given = <<>> /\ returned = <<>>

-------------------------------------------------------------------------------
(* Reading, the first or the second time.                                   *)

IsReading == stage \in {"reading", "rereading"}

Read == /\ IsReading
        /\ ReaderNext(task.lengths)
        /\ UNCHANGED tripVars

BeginParsing ==
    /\ IsReading /\ ReadWholly /\ task.mode # "reader"
    /\ OpenParser([i \in 1..(Len(delivered) - 1) |-> Coded(delivered[i])], encoding)
    /\ stage' = IF stage = "reading" THEN "parsing" ELSE "reparsing"
    /\ UNCHANGED <<readerVars, task, emitter, given, returned>>

StopReading ==
    /\ IsReading
    /\ broken # "none" \/ (ReadWholly /\ task.mode = "reader")
    /\ stage' = IF broken = "none" THEN "done"
                ELSE IF stage = "reading" \/ broken = "input" THEN "refused"
                ELSE "unreadable"
    /\ UNCHANGED <<readerVars, task, parser, caller, emitter, given, returned>>

-------------------------------------------------------------------------------
(* Writing.                                                                 *)

ParseAndEmit ==
    /\ stage = "parsing" /\ task.mode = "events"
    /\ ParseEvent
    /\ IF parser'.error # "none"
       THEN stage' = "refused" /\ UNCHANGED <<emitter, given>>
       ELSE /\ emitter' = EmitterEmit(emitter, parser'.event)
            /\ given' = Append(given, parser'.event)
            /\ stage' = IF parser'.event.kind = "STREAM-END" THEN "written" ELSE stage
    /\ UNCHANGED <<readerVars, task, returned>>

\* A document without nodes is the end of the stream, for the dumper too.
LoadAndDump ==
    /\ stage = "parsing" /\ task.mode = "documents"
    /\ LoadEvents
    /\ LET loaded == ParserLoad(parser)
       IN /\ parser' = loaded.parser
          /\ IF parser'.error # "none"
             THEN stage' = "refused" /\ UNCHANGED <<emitter, given>>
             ELSE /\ emitter' = EmitterDump(emitter, loaded.document)
                  /\ IF HasRoot(loaded.document)
                     THEN given' = Append(given, loaded.document) /\ UNCHANGED stage
                     ELSE stage' = "written" /\ UNCHANGED given
    /\ UNCHANGED <<readerVars, task, returned>>

\* An assertion of the library that does not hold ends the program.
WriteObject ==
    /\ stage = "writing" /\ Len(given) < Len(task.objects)
    /\ LET value == task.objects[Len(given) + 1]
           added == AddRootObject(value)
       IN IF added.ok
          THEN /\ emitter' = EmitterDump(emitter, added.document)
               /\ given' = Append(given, value)
               /\ stage' = IF Len(given') = Len(task.objects) THEN "written" ELSE stage
          ELSE stage' = "aborted" /\ UNCHANGED <<emitter, given>>
    /\ UNCHANGED <<readerVars, task, parser, caller, returned>>

\* What the emitter has handed to the writer.
Output == FlattenSeq([i \in DOMAIN emitter.text |->
                        Recode(Code[emitter.text[i]], emitter.settings.encoding)])

Reopen ==
    /\ stage = "written"
    /\ stage' = "rereading"
    /\ OpenParser(<<>>, "any")
    /\ source' = Output
    /\ raw' = <<>> /\ eof' = FALSE /\ encoding' = "any"
    /\ buffer' = <<>> /\ delivered' = <<>> /\ wanted' = 0
    /\ at' = "idle" /\ broken' = "none"
    /\ UNCHANGED <<wholly, task, emitter, given, returned>>

-------------------------------------------------------------------------------
(* Reading back.                                                            *)

ParseAgain ==
    /\ stage = "reparsing" /\ task.mode = "events"
    /\ ParseEvent
    /\ IF parser'.error # "none"
       THEN stage' = "unreadable" /\ UNCHANGED returned
       ELSE /\ returned' = Append(returned, parser'.event)
            /\ stage' = IF parser'.event.kind = "STREAM-END" THEN "done" ELSE stage
    /\ UNCHANGED <<readerVars, task, emitter, given>>

LoadAgain ==
    /\ stage = "reparsing" /\ task.mode \in {"documents", "objects"}
    /\ LoadEvents
    /\ LET loaded == ParserLoad(parser)
       IN /\ parser' = loaded.parser
          /\ IF parser'.error # "none" \/ ~HasRoot(loaded.document)
             THEN /\ stage' = IF parser'.error = "none" THEN "done" ELSE "unreadable"
                  /\ UNCHANGED returned
             ELSE /\ returned' = Append(returned, IF task.mode = "documents" THEN loaded.document
                                                  ELSE ObjectOf(loaded.document, 1))
                  /\ UNCHANGED stage
    /\ UNCHANGED <<readerVars, task, emitter, given>>

Next == \/ Read \/ BeginParsing \/ StopReading
        \/ ParseAndEmit \/ LoadAndDump \/ WriteObject \/ Reopen
        \/ ParseAgain \/ LoadAgain

Spec == Init /\ [][Next]_vars

-------------------------------------------------------------------------------
(* Properties.                                                              *)

\* A token that may still become a key is still in the queue, so that KEY can
\* be inserted before it; there is such a slot for every open flow collection
\* and one more; and block collections nest with growing indentation.
ScannerFits(s) ==
    Failed(s) \/ ~s.started \/
    /\ Len(s.keys) = s.flow + 1
    /\ \A i \in DOMAIN s.keys : s.keys[i].possible =>
           s.keys[i].number \in s.parsed..(s.parsed + Len(s.tokens) - 1)
    /\ \A i \in 1..(Len(s.indents) - 1) : s.indents[i] < s.indents[i + 1]
    /\ s.indents # <<>> => Last(s.indents) < s.indent

\* Nothing is left on a stack or in a queue when the stream has ended.
LeavesNothing(p, e) ==
    /\ p.states = <<>> /\ p.marks = 0 /\ p.scan.tokens = <<>> /\ p.scan.indents = <<>>
    /\ e.states = <<>> /\ e.indents = <<>> /\ e.flow = 0 /\ e.events = <<>>

\* The type invariant of the round trip, with what keeps the buffers of the
\* reader in bounds (yaml_parser_update_buffer writes without a check), the
\* queue and the stacks of the scanner sound, and those of the emitter empty
\* at the end.  What the parser accepts the emitter can write, and what the
\* emitter writes the parser can read: the stage is never "unreadable" (the
\* assertions of tests/run-emitter.c and tests/run-dumper.c).
RoundTripInv ==
    /\ stage \in {"reading", "parsing", "writing", "written", "rereading", "reparsing",
                  "done", "refused", "aborted"}
    /\ emitter.failed => task.mode = "objects"
    /\ BuffersFit
    /\ ScannerFits(parser.scan)
    /\ ParserInv(parser)
    /\ stage = "written" /\ task.mode = "events" => LeavesNothing(parser, emitter)

\* However the handler cuts the octets, the reader delivers the text they
\* stand for, and refuses octets that stand for none (reader.c,
\* tests/test-reader.c).
ReadingIsExact == task.mode = "reader" => ReadsExactly(task.texts)

\* A line that begins with a blank: see the next property.
HasIndentedLine(text) ==
    \E i \in DOMAIN text : text[i] \in Blank /\ (i = 1 \/ text[i - 1] \in Break)

SameText(a, b) == a.value = b.value \/ (a.style = "folded" /\ HasIndentedLine(a.value))

Untagged == {Null, <<"!">>}
SameTag(a, b) == a.tag = b.tag \/ {a.tag, b.tag} \subseteq Untagged

SameEvent(a, b) ==
    /\ a.kind = b.kind
    /\ a.kind = "STREAM-START" => a.encoding = b.encoding
    /\ a.kind = "DOCUMENT-START" => a.version = b.version /\ a.tags = b.tags
    /\ a.kind = "ALIAS" => a.anchor = b.anchor
    /\ a.kind = "SCALAR" =>
           /\ a.anchor = b.anchor /\ SameTag(a, b) /\ SameText(a, b)
           /\ a.plainImplicit = b.plainImplicit \/ (a.tag = <<"!">> /\ a.value = <<>>)
    /\ a.kind \in {"SEQUENCE-START", "MAPPING-START"} =>
           a.anchor = b.anchor /\ a.tag = b.tag /\ a.implicit = b.implicit

\* The events that are read back are those that were written, in the sense of
\* compare_events (tests/run-emitter.c): style and the marks of the document
\* may differ.  Two kinds of scalars are left out, which the emitter does not
\* preserve: folded ones with an indented line, and empty ones tagged "!".
EventsSurvive ==
    stage = "done" /\ task.mode = "events" =>
        /\ Len(given) = Len(returned)
        /\ \A i \in DOMAIN given : SameEvent(given[i], returned[i])

SameNode(m, n) ==
    /\ m.type = n.type /\ m.tag = n.tag /\ m.items = n.items
    /\ SameText(m, n)

SameDocuments ==
    stage = "done" /\ task.mode = "documents" =>
        /\ Len(given) = Len(returned)
        /\ \A i \in DOMAIN given :
               LET d == given[i]
                   e == returned[i]
               IN /\ d.version = e.version /\ d.tags = e.tags
                  /\ Len(d.nodes) = Len(e.nodes)
                  /\ \A k \in DOMAIN d.nodes : SameNode(d.nodes[k], e.nodes[k])

RECURSIVE IsAsciiObject(_)
IsAsciiObject(value) ==
    CASE value.class = "string" -> \A i \in DOMAIN value.text : IsAscii(value.text[i]) /\ value.text[i] # End
      [] value.class = "array" ->
           \A i \in DOMAIN value.contents : IsAsciiObject(value.contents[i])
      [] value.class = "dictionary" ->
           \A i \in DOMAIN value.contents : \A k \in 1..2 : IsAsciiObject(value.contents[i][k])

SameObjects ==
    task.mode = "objects" /\ (\A i \in DOMAIN task.objects : IsAsciiObject(task.objects[i])) =>
        /\ stage # "aborted"
        /\ stage = "done" => returned = task.objects

\* A document that is dumped and loaded again has the same nodes in the same
\* places, whichever of them are shared or contain themselves (loader.c,
\* dumper.c, tests/run-dumper.c); and objects of ASCII strings, written as
\* documents and read back, are the same objects (YAMLSerialization.m).
DocumentsSurvive == SameDocuments /\ SameObjects
===============================================================================
