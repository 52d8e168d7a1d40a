# LiveReload: a verification project

TLA+ modules that model the modern LiveReload application — the Swift package
`Packages/LiveReloadCore` and the app `ModernLiveReload` — and, of the legacy
applications the repository keeps, the launcher of the Node back end and the two
text formats with their libraries, with TLC runs on small instances and TLAPS
proofs for every instance. Paths below are relative
to the repository; `Core/` stands for
`Packages/LiveReloadCore/Sources/LiveReloadCore/` and `App/` for
`ModernLiveReload/LiveReloadApp/`, `yaml/` for `mac/YAML/yaml-0.1.4/src/`,
`jansson/` for `nodeapp/core/libs/jansson/` and `nodeapp/` for
`nodeapp/core/`.

    tlc -workers 2 -config ProjectMonitor.cfg ProjectMonitor     # a run
    tlapm ProjectMonitor_proofs.tla                              # the proofs

## 1. The system

A developer adds project folders. For each folder that is monitored the app
watches the file system, settles bursts of changes into one decision (reload
the page, or refresh the stylesheets only), and sends the decision over
WebSocket to every browser that has negotiated the LiveReload protocol with the
one local server.

    AppModel (main actor; the screen)
       |  startMonitoring / stopMonitoring / retry / manualReload / mutations
       |                                   ^ answers, and a stream of projections
    ReloadLoopRuntimeService (actor; one session per monitored project)
       |-- ProjectMonitor (actor) -- FileEventStream -- FSEvents
       |       | signals, state changes (callbacks)
       |-- ProjectPipeline (actor) -- ChangeBatcher (actor; a settling timer)
       |       | decisions, in detached tasks
    ReloadServer (actor) -- BSDListener
       |-- SocketBrowserSession (a serial queue) -- a browser
       |-- ...

Every box is an actor, a serial queue or a main-actor object, so that no two
blocks of one box run at once; but every `await` of another box, every callback
and every `Task { }` lets other work in, and messages to a box are not ordered.
That is where this code is hard, and what the modules below take apart.

The legacy applications are a native front end and a back end in Node. The front
end launches the back end, talks to it in lines of JSON, keeps the list of
projects in a file of JSON, and carries a YAML library for the rules of
compilers. Their C code is the larger part of the repository's.

    main thread  <-- closures, lines --  nodeapp_rpc_thread  -- fork, pipes -- Node
       |
    Workspace -- jansson (load.c, value.c, hashtable.c, dump.c) -- projects file
    YAMLSerialization -- loader.c -- parser.c -- scanner.c -- reader.c -- octets
                      -- dumper.c -- emitter.c -- writer.c -- octets

### Inventory

| Component | State | Operations | Interacts by | What makes it correct |
|---|---|---|---|---|
| Change batcher `Core/Pipeline/ChangeBatcher.swift` | pending paths (list and set), two generations, the held task | submit, cancel, markSettlementScheduled, settle | called by the pipeline; its settling task calls a handler | a burst is settled once, whole, after quiet, with the right mode; nothing pending without a timer |
| Project pipeline `Core/Pipeline/ProjectPipeline.swift` | monitoring state, broadcast generation, broadcast tasks, latest batch | setMonitoringState, receive, stop, manualReload, broadcast | monitor → batcher → server | no reload after a stop or a recovery, none twice, none lost while watching |
| Project monitor `Core/Monitoring/ProjectMonitor.swift` | state, generation, stream, access token, signal task | start, stop, receive, streamEnded, enterRecovery | owner's callbacks; reads the stream in a task | the stream and the folder access are held exactly while needed; a failure is noticed |
| File event stream `Core/Monitoring/FSEventsFileEventSource.swift`, `FileEventSignalBuffer.swift` | native stream, stopped flag, bounded buffer | the native callback, emit, stop, finish, read | two locks, a serial queue, an `AsyncStream` | released once; ordered; a loss is reported, last |
| Exclusion policy `Core/Monitoring/ExclusionPolicy.swift` | none | glob matching, relative paths | called by the batcher | pure |
| Browser session `Core/ReloadServer/SocketBrowserSession.swift` | state, input buffer, deadline, reports | read, handle, send, deadline, close | callbacks to the server | no reload before negotiation; a broken frame closes; onClose once |
| Reload server `Core/ReloadServer/ReloadServer.swift`, `BSDListener.swift` | phase, listener, sessions, subscribers | start, stop, accept, broadcast, publishState, stateUpdates | Tasks from queues; a task group per broadcast | the table and the published count follow the connections; one browser does not hold up another |
| Protocol and codec `Core/ReloadProtocol/` | none | encode, decode, negotiate | called by sessions | pure |
| Runtime service `App/Services/ReloadLoopRuntimeService.swift` | session table, update subscribers | startMonitoring, stopMonitoring, retry, manualReload, callbacks | between app and core | one live monitor per project; nothing leaks on a failure |
| App model `App/AppModel.swift` | projects, shown projections, two gates, activity | load, add, mutations, runtime operations, updates | main actor; awaits service and store | operations on a project exclude each other; the screen tells the truth |
| Project store `Core/Persistence/ProjectStore.swift`, `Core/Models/Project*.swift`, `ConfigurationEnvelope.swift` | envelope, write protection | load, quarantine, add, rename, setEnabled, replaceFolderAccess, setAccessState, remove | the file `projects.json`; answers to AppModel | nothing unreadable is overwritten; memory and file agree; no folder twice |
| Folder access `Core/FolderAccess/`, `App/Services/SecurityScopedBookmarkProvider.swift` | tokens | begin, resolve, refresh, repair | store and service | begun access is given back; a check judges the current record |
| Activity log `Core/Diagnostics/`, `App/Diagnostics/` | a bounded list | append | everybody | nothing depends on it |
| User interface `App/Views/`, `App/LiveReloadApp.swift` | none of its own | — | AppModel | what it enables is AppModel's guards |
| Fakes, harness, idle probe | — | — | tests and measurements | support code |
| Back-end launcher `nodeapp/src-mac/nodeapp_rpc_osdep.c`, `src-win/`, `src/nodeapp_rpc_common.m` | pid, pipe ends, shut-down and developer flags, the receive buffer | launch, read, wait, restart, shut down | a thread, closures queued for the main thread, pipes, signals | one back end at a time; whole lines, in order; a death is noticed |
| YAML library `yaml/` | parser: buffers, token queue, simple keys, indents, state stack; emitter: event queue, states, column | parse, load, emit, dump | each layer pulls from, or pushes to, the next | exact decoding; events in the order of the grammar; what is written reads back the same |
| YAML serialization `mac/YAML/YAMLSerialization.m` | none | read, write | the loader and the dumper | objects survive |
| JSON library `jansson/` | hash tables of objects | loads, set, del, clear, copy, update, dumps | called by `mac/Classes/Model/Workspace.m`, `nodeapp/src/nodeapp.c` | takes JSON and nothing else; a table finds its members; values survive |
| Shared C utilities `Shared/` | lists, an event bus, a console | — | the last two only from code that is commented out | not modelled |
| Other legacy trees `mac/`, `LiveReload/`, `LR*Kit/`, `PackageManagerKit/`, `EditorKit/`, `Uniflow/`, `node_modules/`, `windows/`, `Pods/`, `vendor/`, `Research/` | — | — | not built by the modern target | kept by the repository for reference, not modelled |

The hard behaviours are interleavings of suspended calls (batcher, pipeline,
monitor, service), unordered Tasks (server), cancellation that comes late or
half-way through a write (session, broadcast), a bounded buffer that overflows
under its reader (stream), answers and updates that race for one place on the
screen (service), and the failure of one step among several (service, monitor);
in the legacy code processes that die at any moment, input that is cut anywhere,
and data structures whose parts must agree after any sequence of operations.
`PROJECT.json` lists each as a hazard at its line, with the properties that
cover it.

## 2. Modules

| Module | Models | Composition |
|---|---|---|
| `ChangeBatcher` | the batcher and its settling tasks | |
| `ProjectPipeline` | the pipeline, on top of the batcher | EXTENDS `ChangeBatcher`; implements `ReloadDecisions` |
| `ReloadDecisions` | abstract: what a reload pipeline promises | |
| `ProjectMonitor` | the monitor and its signal task, for any number of starts and stops | sees the stream as a queue |
| `FileEventStream` | the stream, its buffer and its stops | implements `SignalStream` |
| `SignalStream` | abstract: an ordered stream that reports its loss | |
| `SocketBrowserSession` | one browser's session | implements `BrowserConnection` |
| `BrowserConnection` | abstract: gets ready or closes, says so, takes reloads only while ready | |
| `ReloadServer` | the server's table, its phase and its publications | sees a session as a connection state |
| `ReloadBroadcast` | one broadcast's task group | sees a session as ready or not |
| `RuntimeService` | one project between user, service, monitor, pipeline and screen | sees monitor and pipeline as their states |
| `ProjectStore` | the store, its file, the access check at launch, AppModel's list | sees bookmarks as answers |
| `NodeBackend` | the launcher thread, its back ends, pipes and closures, on both systems | |
| `Utf8` | lengths, codes and octets of characters | |
| `YamlText`, `YamlReader`, `YamlScanner` | character classes; octets to characters; to tokens | |
| `YamlEvents`, `YamlParser`, `YamlEmitter` | events; tokens to events; events to octets | the scanner is a parameter of the parser |
| `YamlParsing` | a parser and who calls it: an application or the loader | implements `YamlEventStream` |
| `YamlDocument`, `YamlSerialization` | documents from and to events; objects from and to documents | on parser and emitter |
| `YamlEventStream` | abstract: the order of the events of a stream | |
| `YamlRoundTrip` | texts, events, documents and objects, there and back | composes the above; its steps include those of `YamlReader` and `YamlParsing` |
| `JsonTable`, `JsonValue`, `JsonLexer`, `JsonLoader`, `JsonDump` | the hash table of objects; values; octets to tokens; to values; values to octets | each EXTENDS the one before |
| `JsonRoundTrip` | a text loaded, its object changed, dumped and loaded again | |
| `Formats` | composition of the two round trips, one of which is at work | |
| `RuntimeService_proofs`, `ProjectStore_proofs` | theorems | each EXTENDS its module |
| `ProjectMonitor_proofs` | theorems on monitor and file event stream | EXTENDS `ProjectMonitor` and `FileEventStream` |
| `ProjectPipeline_proofs` | theorems on batcher and pipeline | EXTENDS `ProjectPipeline` |
| `ReloadServer_proofs` | theorems on server, broadcast and browser session | EXTENDS `ReloadServer`, `ReloadBroadcast` and `SocketBrowserSession` |
| `NodeApp_proofs` | theorems on the launcher and the hash table | EXTENDS `NodeBackend`, `JsonTable` and `SequenceLemmas` |
| `Yaml_proofs` | theorems on the YAML reader and parser | EXTENDS `YamlReader`, `YamlParsing` and `SequenceLemmas` |
| `SequenceLemmas` | induction over the naturals, concatenation, sequences with an element more or less | used by the two above |
| `MCProjectPipeline`, `MCYamlRoundTrip`, `MCFormats` | sets for the runs | |

### How state and actions correspond to the code

*One action is one block between two suspensions.* A Swift function with an
`await` of another actor is cut there; what it knows across the cut is in a
variable (`step`, `op`, `tasks`, `broadcasts`, `calls`, ...). An `await` of the
same actor does not suspend and is not a cut. Actions have the name of the
function, or of the point where it resumes.

* `ChangeBatcher`. `Submit`, `SubmitExcluded`, `Cancel` are calls; the settling
  task is a record in `tasks` whose `step` is the hop it has before it:
  `MarkSettlementScheduled`, the sleep (`SleepElapses`, or `SleepThrows` when
  cancelled), `Settle`. The clock is external; a sleep ends in any order.
  `burst` is history: what was submitted since the last clear.
* `ProjectPipeline`. `Receive` and `SubmitArrives` are the two halves of
  `receive()`; `SetMonitoringState` and `Stop` send a `batcher.cancel()` that
  arrives later (`CancelArrives`). A broadcast task is created, begins, is
  delivered or skipped by the server, and ends; each can be cancelled. The
  server is external here: its delivery is one step at its last cancellation
  check (its detail is in `ReloadBroadcast` and `SocketBrowserSession`).
  `delivered` is history. The owner is a monitor that is started once, as
  `ReloadLoopRuntimeService` does, and awaits the calls of its start. The pipeline
  compares its state with `.watching` only, so the states that follow a watch or a
  failed start are one here (`"over"`): a recovery's report that a stop's overtakes,
  and the other way round, is the same.
* `ProjectMonitor`. The calls of `start()` and `stop()` are constants, each made
  once; `step[c]` says where one is suspended. A stream, a token and a signal
  task carry the name of the start they belong to. `deinit` is not modelled:
  the service holds the monitor until it is stopped.
* `FileEventStream`. A callback passes its guard, then emits signal by signal;
  an overflow is noticed and reported under the buffer's lock while the reader
  may read on; `Take`, `Release`, `Finish` are the parts of
  `stopSynchronously()`. `AsyncStream` (drop the oldest, drain after finish,
  discard on cancellation) and FSEvents are external.
* `SocketBrowserSession`. Input is a sequence of whole requests and frames by
  kind. `ReadAvailableBytes` takes what has arrived into `input`, and one round
  of `processInput()`, with its `handle()`, is one action (`ProcessInput`); the
  session's queue is not free for another block before `input` is empty
  (`QueueFree`). A `send()` holds the queue while it writes, perhaps a part of
  its frame first. The limits on buffered bytes are one way in
  which `ReadFails`.
* `ReloadServer`. A connection is `accepting`, then connected, ready, closed;
  `onReady` and `onClose` become Tasks that run in any order. `Publish` is
  `publishState()` up to its first suspension, `Ask` a session's snapshot,
  `Yield` the end. One reader of `stateUpdates()` is followed.
* `ReloadBroadcast`. `delivery[c]` follows a child task through its two
  cancellation checks, the snapshot, the send and the close; `Collect` is
  `group.next()` and the child that replaces it.
* `RuntimeService`. `op` holds the operation behind each of AppModel's two gates
  and where it is; `session` is the service's table for the project; `calls` are
  `monitoringStateChanged` callbacks, `batches` are `batchSettled` callbacks,
  `updates` the projections on their way, `shown` the screen. A projection is
  reduced to its monitoring state. A monitor and its pipeline are fresh for
  every session. The `project` argument of `startMonitoring` is the current one
  (mutations are kept out by the gates), and the store's write succeeds or
  leaves everything as it was.

* `ProjectStore`. `file` is what lies at the store's URL; `Relaunch` is a quit or
  crash between any two steps, after which the file may have been damaged,
  hidden or written by a newer version. `startup` follows `AppModel.load()` and
  the coordinator's `refreshAccess()` of each project (in any order), cut where
  it asks the store or the bookmark provider; the record it read stays in
  `startup.seen`. A record in `calls` is an operation behind its gate, with
  whatever AppModel awaits before the store (`stopMonitoring`) in the time it
  takes to be served; `Serve` is any of the store's mutations, with its checks
  and `persist()`, succeeding or failing as a whole (the write is atomic).
  `answers` is the way back, in order. `MayMutate` includes what the views and
  the menu command say: nothing is offered while loading. A folder reference is
  its folder, as the provider resolves a reference to itself. A file that exists
  but cannot be seen to exist (`fileExists` answers false for an unreadable
  directory) is not modelled.

* `NodeBackend`. `launcher` is where `nodeapp_rpc_thread` is, a step per call
  that another thread or process can see; the main thread's functions and the
  closures queued for it are actions of their own. Which launcher is compiled
  is chosen in `Init`; it decides, e.g., who closes what, in which order. An
  octet of the output is text, a newline or NUL, and `ReadChunk` does what
  `strncat()` does: it copies what was read up to a NUL (`Copies`) into a buffer of
  fixed size without a look at the room that is left. A copy past the end of the
  buffer is undefined behaviour: `app` becomes `"undefined"` and the model ends
  there, so nothing is claimed of what follows. `ReadSize` and `BufferSize` stand for the
  10,240 octets of a read and the 1,048,575 of the buffer. Each round of the loop
  of `nodeapp_rpc_received_raw()` is a step (`QueueNextLine`), between which the
  main thread may handle a line. `handled` and `written` are history. What Node
  does with its input is not modelled, but that it may die, hang or ask for a
  restart (exit status 49) at any moment is.
* YAML. A text is a sequence of characters, an input a sequence of octets that
  the read handler cuts as it likes; `RawSize` and `BufferSize` stand for the
  two buffers. The reader has variables, and a step is a call
  of the read handler or one character, so that it can be proved about; the scanner,
  parser and emitter are records, and a
  function of the library is an operator from a record to a record. The loops of
  scanner, loader and emitter are recursive operators, so no theorem is
  stated about those modules; the parser's two (directives, and the ends of
  documents) are recursive functions over the number of rounds, which the number
  of characters bounds, as every token a round skips has some. What fetches
  tokens is a constant of the parser, `FetchTokens`: nothing that is proved
  of the parser depends on the scanner. `YamlRoundTrip` has one action per call an
  application makes: a read, `yaml_parser_parse` (`ParseEvent`) or `_load`
  (`LoadEvents`), `yaml_emitter_emit` or `_dump`. What it does with the result is what
  `tests/run-emitter.c`, `tests/run-dumper.c` and `YAMLSerialization.m` do.
  The emitter's styles, widths and indentations are chosen with the task.
* JSON. The list and the buckets of `hashtable.c` are kept as they are: a
  bucket is the first and last of a run of pairs on the common list, and a
  pair, as in the code, goes in front of its bucket's run. `JsonTable` has all 29
  numbers of buckets and no recursive operator, so that it can be proved about;
  the values, which nest, are in `JsonValue`. `HashOf` is a constant. A real number is a sign, digits and the place of the point: `strtod`
  and `printf("%.17g")` are external, exact up to seventeen digits. The actions
  of `JsonRoundTrip` load the text, change the root's members (`SetMember`,
  `ExtractMember`, `ClearMembers`, `ReplaceByCopy`, `UpdateByCopy`), dump and
  load again; `members` follows what the changes mean.
* `Formats` gives each initial state one task, of YAML or of JSON.
  The functions of the libraries that the round trips call are their operator constants
  (`FetchTokens`, `ParserLoad`, `json_loads`, ...), given the modules' operators in the cfg.

`PROJECT.json` maps every definition to the lines it stands for.

### Variants

Some definitions are preceded by a variant of themselves: the same operator with
a guard missing, a cleanup forgotten or an order swapped (`CancelBatcherOnly`
before `CancelEverything`, `StreamDropped` before `StreamDiscarded`). No
behaviour uses them. Each says what a plausible mistake in that code would be,
and with it in place TLC finds a property violated: that is how we know that the
property depends on the code.

## 3. What is checked

All runs but the two marked *divergence* pass. Deadlock is not checked: in
every model the users, files, browsers and back ends may simply stop, and a
round trip ends.

| Run | Instance | States | Shows |
|---|---|---|---|
| pipeline (`MCProjectPipeline.cfg`) | 3 included paths and an excluded one, room for 2, 4 generations, 2 outstanding cancels | 765,744 | `BatcherInv` (`PathsMatchOrder`, `PendingHasTimer`), `PipelineInv` (`OnlyCurrentBroadcastsLive`, `SentAtMostOnce`), `BurstSettledWhole`, `SettlesAfterQuiet`, `PendingEventuallyCleared`, `BatchEventuallyDone`, `ImplementsReloadDecisions` |
| monitor (`ProjectMonitor.cfg`) | 2 starts, 2 stops, 1 unread signal | 333,728 | `MonitorSafety` (`StreamOwned`, `WatchingHasSource`, `HoldsNothingAtRest`), `ForwardsCurrentStream`, `FailureIsNoticed`, `StopCompletes` |
| event_stream (`FileEventStream.cfg`) | buffer of 2, 4 events, 2 stops and the overflow's | 105,765 | `StreamInv` (`ReleasedOnce`, `LossIsReportedLast`), `OverflowReleases`, `StopEndsReading`, `ImplementsSignalStream` |
| browser_session (`SocketBrowserSession.cfg`) | 3 requests or frames, 2 sends | 140,687 | `SessionInv` (`DeadlineWhileNegotiating`, `HelloBeforeReload`, `TornConnectionCloses`), `ImplementsBrowserConnection` |
| server (`ReloadServer.cfg`) | 2 connections, room for 1, 2 starts, 1 stop | 228,902 | `ServerInv` (`CountWithinLimit`, `EveryConnectionOwned`), `NewestPublicationIsRight`, `ClosedIsForgotten` |
| server_stale, *divergence* | 2 connections, no stop | | `SettledCountIsRight` is violated |
| broadcast (`ReloadBroadcast.cfg`) | 4 sessions, 2 at a time, 1 slow | 640,278 | `BroadcastInv` (`EverySessionHadItsTurn`), `CancelStopsBroadcast`, `SlowSessionsDelayNobody` |
| service (`RuntimeService.cfg`) | 2 operations, 2 sessions, 1 batch | 775,322 | `ServiceInv` (`AccessNotLeaked`, `LiveMonitorsOwned`, `StoppedPipelineNotRevived`), `NotMonitoredWhenDisabled`, `OperationsEnd`, `RecoveryIsShown` |
| service_watching, *divergence* | 1 operation | | `WatchingShownIsTrue` is violated |
| store (`ProjectStore.cfg`) | 2 projects, 2 folders, 3 operations, 2 launches | 393,378 | `StoreInv` (`FoldersAreUnique`, `RelaunchLosesNothing`), `VerdictIsCurrent`, `ScreenMatchesStore`, `SourceNotOverwritten` |
| legacy (`NodeBackend.cfg`) | 2 back ends, 3 octets, reads of 2, a buffer of 2, either system | 836,196 | `BackendInv` (`OneBackendAtATime`, `AlertIsLast`), `LinesAreFramed` (`KeptInOrder`, `LossIsBounded`, `LinesAreWhole`, `BufferSuffices`), `DeathIsNoticed` |
| formats (`MCFormats.cfg`) | 14,602 texts, event lists, documents, objects and values | 306,160 | `RoundTripInv` (`ScannerFits`, `ParserInv`, `LeavesNothing`), `ReadingIsExact`, `EventsSurvive`, `DocumentsSurvive`, `JsonSurvives` (`Sound`, `KeepsMembers`, `TellsJson`, `RestoresValue`), `ImplementsEventStream` |

Each state machine has a type invariant, the first conjunct of its `...Inv` or
`...Safety`. The properties in parentheses are parts of the invariant before
them, named for what they say.

### Bounds

* Two of everything that races (starts, stops, sends, connections, operations)
  is what the code's guards distinguish: an action's own call and another one.
  The monitor needs two stops to meet inside one another and two starts to be
  overtaken; the batcher needs two tasks, one overtaken, and more paths than
  it has room for to overflow; the broadcast needs more sessions than its window
  and a slow one inside it.
* `MaxGeneration` (changes and cancellations), `MaxCancels`, `MaxEvents`,
  `MaxInput`, `MaxQueue`, `MaxStarts`, `MaxOperations`, `MaxSessions`,
  `MaxBatches` bound counters in the guards of the actions that count. The
  batcher's bound of 4 admits a burst that fills the limit, overflows, is
  cancelled or settled, and a second burst. The monitor was also run with
  `MaxQueue = 2`, with the same result, and the store with three
  projects.
* `MaxLaunches` and `MaxOctets`: two back ends are one that dies and one that
  replaces it, or is launched against a shutdown; three octets of any kind make up
  to three lines, a NUL between others, and every cut between reads and between
  processes; a buffer of two is filled, and written past, by octets without a newline.
  As a read is as large as the buffer there, `BufferSuffices` says little in this
  instance (some octet of text was written); the theorem says it for every size.
* YAML: every sequence of up to four octets from an alphabet with the heads and
  tails of each width, and texts in UTF-16 whole or short of an octet, through
  buffers of 6 and 18 octets, so that every cut falls at a buffer's end; every
  text of up to four characters over the indicators of block collections, and
  of up to three over those of flow collections and over those of scalars,
  tags, anchors and comments; longer texts chosen for each rule, in three
  settings of the emitter (narrow, as `YAMLSerialization.m` has it, canonical);
  documents with shared and self-containing nodes; objects of nine ASCII strings
  and five others, one of them with a NUL, alone and nested. Every text is written in the styles it was
  read in, so that short texts bring each style to the emitter.
* JSON: every sequence of up to four tokens, every sentence of the grammar of up
  to seven and each of these with one token removed; every word of up to four
  characters for numbers and strings; octets up to four; and four changes to
  objects whose keys collide in tables of 5 and 13 buckets, before and after
  the table grows. The hash is the library's, modulo 5·13·23, exact for the
  lengths used. Four changes are an insertion that grows the table, a deletion
  at an end of a bucket, and two more.
* Beyond the runs, the operators were compared with the compiled libraries on
  random inputs (some eleven thousand YAML texts, 400 sequences of operations
  on JSON objects), without a difference that is not explained below.
* The real limits (1,024 paths, 32 clients, the stream's capacity, 128 buffered
  updates) are constants of the models with small values; the update stream's
  128 is never reached with two operations and is not modelled.

### Fairness

Swift runs every enqueued job, a timer fires, and a `stop()` of a stream or a
`makeStream()` returns; nobody owes the app a file change, a click or a
browser. So weak fairness is put on the steps of tasks and calls that have
begun, and on nothing else: on the settling tasks in the batcher; on messages
under way and on each decision's broadcast in the pipeline (a write makes
progress or fails after 100 ms); on every call, and on the signal task, of the
monitor; on callbacks, begun stops and the reader of the stream; on every
delivery except that of a slow browser. `ReloadServer` and `RuntimeService` ask
for less, one `WF_vars(Due)` over all that is under way: their liveness
properties hold because that work is finite. Of the session
a block that runs comes to its end (each write makes progress or fails after
100 ms), and the negotiation deadline comes. Of the legacy launcher its thread, the
main queue and the death of a back end that was sent a signal are fair, as long as
the application runs; a back end need not write or die. The round trips need no fairness. Where `Spec` has no fairness and
`FairSpec` has it, the divergence runs, which check safety, use `Spec`.

### Refinements

* `ProjectPipeline` implements `ReloadDecisions`. The mapping takes pending
  paths, decided batches and live broadcasts away the moment the monitor stops
  watching, although the code clears them later and elsewhere: it holds because
  every late message is refused.
* `FileEventStream` implements `SignalStream`, with the abstract debt (`owed`)
  mapped to the time between the drop and its report.
* `SocketBrowserSession` implements `BrowserConnection`: what the server is told
  (ready at most once, closed once and last), and that reloads are taken between
  the two; and its liveness, a session that negotiates gets ready or closes,
  because of the deadline.

* `YamlParsing` implements `YamlEventStream`: the parser's stack of states,
  mapped to what is open in the grammar (`ContextOf`), allows just the event that
  comes next. The run checks it of `YamlRoundTrip`, both when the text is read first
  and when it is read back; it is proved of the parser alone (§4).

### Divergences

1. *service_watching.* The screen may say Watching for good after the monitor
   has gone into recovery. `startMonitoring`'s answer is a projection read over
   several awaits (`App/Services/ReloadLoopRuntimeService.swift:216`); the
   recovery's own projection travels on the update stream; `AppModel` applies
   the one that comes last. `specs/003-reload-loop/contracts/ui-states.md:16`
   says the UI never claims Watching after a failure.
2. *server_stale.* `publishState()` awaits a snapshot of every session, so that
   two publications overlap and the older one may be shown last
   (`Core/ReloadServer/ReloadServer.swift:177`); the client count then stays
   wrong until something else changes.
   `NewestPublicationIsRight`, which passes, says that this is all: when the
   newest publication is shown last, it is right.

Observed and not run as divergences:

* A connection whose Task runs while `stop()` of the server closes the sessions
  it found is added to a server that is then stopped
  (`Core/ReloadServer/ReloadServer.swift:47`, `:153`). It is still in the table
  (`EveryConnectionOwned`). The app never stops the server; the harness does.
* When the broadcasts of two batches overlap, `lastSettledBatch()`
  (`Core/Pipeline/ProjectPipeline.swift:78`) may answer the older one; nothing in
  the app reads it.
* An unreadable configuration is left in place and writing is refused;
  `specs/002-modern-foundation/contracts/project-store.md` speaks of a diagnostic
  filename for corrupt and unreadable files alike.
* The access check is safe from a concurrent repair (`VerdictIsCurrent`) only
  because nothing is offered while the app loads: the store would take its write.
* A monitor that is stopped and started again while its own recovery is
  suspended can forget the new stream (`ProjectMonitor.swift:101` uses whatever
  stream the actor holds by then). The app never restarts a monitor, and
  `StreamOwned` is stated for one that was started once.
* Of a burst beyond 1,024 paths only the first 1,024 decide between page and
  stylesheet.
* The monitor goes from starting to stopped, and a session to closed from any
  state, which the diagrams of `specs/003-reload-loop/data-model.md` do not draw.

Of the legacy code:

* `write_folded_scalar` (`yaml/emitter.c:2274`) folds lines that begin with a
  blank, so that the text is not read back as it was; and an empty scalar tagged
  `!` comes back as implicit. The assertion of `tests/run-emitter.c:311` does
  not hold for these two; `SameText` and `SameEvent` name them and leave them
  out.
* `parse_flow_sequence_entry_mapping_key` (`yaml/parser.c:1013`) skips a token
  when the key is absent, and `: a` at the top is refused; the grammar at
  `parser.c:32` allows both. A multi-line quoted scalar before a colon can meet
  the assertion in `save_simple_key` (`yaml/scanner.c:1097`); the model calls
  that `aborted`.
* `YAMLSerialization.m:255` passes a length in UTF-16 units for one in octets:
  strings that are not ASCII are cut or refused, and `initWithUTF8String` (`:83`)
  ends a string at a NUL (`SameObjects` is stated for ASCII without NUL). A dictionary's container key is copied before it is filled (`:112`).
* `l_isxdigit` (`jansson/load.c:39`) is always true, though the comment at
  `load.c:267` counts on it: what follows `\u` may be anything, and some of it
  meets `assert(0)`. `TellsJson` leaves such texts open.
* `json_array_remove` (`jansson/value.c:570`) moves one entry too many, and
  `Workspace.m:128` converts the result of a failed load without looking. Both
  are outside the models.
* The comment at `nodeapp/src-mac/nodeapp_rpc_osdep.c:160` speaks of three
  seconds; the condition is `true ||`. `nodeapp_shutdown` has no caller. `init`
  is queued before the pipe is connected and may reach the wrong back end, two
  times or none. A half line of a dead back end begins the next one's first.
* `nodeapp_rpc_received_raw` (`nodeapp/src/nodeapp_rpc_common.m:25`) appends a read to
  a static buffer of 1 MiB and looks neither for room nor for a NUL: a line that is
  too long is written past the end, and the rest of a read behind a NUL, newlines
  included, is lost.

## 4. What is proved

TLAPS checks the eight proof modules for every value of the constants, from the
assumptions each module states of them: `BatcherConstants` (excluded paths and
stylesheets are paths, the maximum is positive), `MonitorConstants` (starts and
stops are different names), `StreamConstants` (the capacity is positive),
`ServerConstants`, `BroadcastConstants` (the limits are positive, the sessions of
one broadcast finitely many), `ServiceConstants` and `StoreConstants` (the bounds
are numbers), `ReaderAssumption` (the raw buffer holds four octets or more, the
other one three times as many). TLC evaluates them in the runs. `BoundsAssumption` says of the back end's
launcher that there is at least one back end and that a read fits into the buffer. Every invariant and action property
that a run checks of the Swift modules and of the launcher is stated by one of
these theorems. The hash table of the JSON library and the reader of the YAML library
are proved correct, too, and of its parser the order of the events and the stacks;
what is left to TLC is liveness and the rest of the text formats.

**Batcher** (`ProjectPipeline_proofs`).

* `BatcherTypeCorrect`, `PathsAlwaysMatchOrder`: inductive as they stand, the
  second with the type invariant; the lemma `AppendNew` says what appending a
  new element does to the set and the injectivity of a sequence.
* `PendingAlwaysHasTimer`: inductive with `PathsAlwaysMatchOrder`; the case that
  matters is the overflow branch, which leaves the timer alone and must not be
  the first change of a burst.
* `BurstAlwaysSettledWhole`: from the invariant
  `BurstPending` (the pending paths are in the burst, and are all of it unless
  the maximum is reached). At exactly the maximum one needs that as many paths
  as the burst has, taken from the burst, are the burst (`LengthIsCardinality`).
* `SettlingAlwaysWaits`: from the invariant `TasksNotNewer`.

**Pipeline** (`ProjectPipeline_proofs`), for any paths and any bounds.

* `PipelineStepsBatcher`: every step of the pipeline is a step of its batcher or
  leaves it alone. So `PipelineRunsBatcher`, and what is proved of the batcher
  holds within the pipeline (`PipelineKeepsBatcher`, `PipelineSettlesWhole`,
  `PipelineSettlesAfterQuiet`) without another induction.
* `OnlyCurrentBroadcastsAlwaysLive` is inductive with the types: each state
  change and each stop cancels in the step in which it leaves the watch.
* `PipelineInvariant`: that no decision is delivered twice rests on
  `DecisionInv`. A batch has the batcher's generation, which no later batch has
  again (`DecisionsPast`), and a generation is that of one settled batch, of one
  broadcast, or of what was delivered, and not of two of them (`DecisionsApart`).
* `PipelineImplementsDecisions`: with these and `WatchInv` (nothing of an earlier
  watch is under way when the watch begins, and no `cancel()` while it lasts),
  every step is one of `ReloadDecisions` or a stutter. `AbstractSteps` says which
  changes of the mapped state are which abstract step, so that each action needs
  only say what it does to that state.

**Monitor** (`ProjectMonitor_proofs`), for any number of starts, stops and
signals.

* `MonitorTypeCorrect`; `UnstartedAlwaysIdle`: a start that found the monitor
  busy never does anything.
* `MonitorKeepsItsResources`: `StartedOnce => MonitorInv` always. `MonitorInv`
  says which calls can be suspended where in each state, and what the monitor
  then holds: without it `StreamOwned` does not survive, e.g., the step in which
  a stream arrives, as one has to know that no other stream is live while a
  start awaits its own. `StartedOnce`, once false, stays false, so the induction
  may assume it in both states (`StartedStaysStarted`).
* `StreamIsNeverForgotten`, `WatchingAlwaysHasSource` and `MonitorIsSafe`
  (`StartedOnce => MonitorSafety`) follow. In the run, with its two starts, TLC finds
  `HoldsNothingAtRest` true of a restarted monitor, too; the theorem claims it for
  one started once.
* `OnlyCurrentStreamForwarded`: the check in `receive()` is of the generation and
  the state, not of the stream; that these imply the stream is `MonitorInv`.

**File event stream** (`ProjectMonitor_proofs`), for any capacity, events and
callers of `stop()`.

* `StreamReleasedOnce`: one stop at a time, and only the one that took the native
  stream, is between taking and releasing it.
* `StreamInvariant`: where the report of a loss may be (`LossInv`): nowhere, last
  in the buffer, or last of what was read, and from the overflow on there is one.
  The step that matters is the report under the lock, which the reader may have
  overtaken since the drop.
* `StreamImplementsSignals`: with `OrderInv` (what the callback has still to emit
  is not older than anything emitted, and an overflow under way is the newest)
  every step is one of `SignalStream` or a stutter.

**Server** (`ReloadServer_proofs`), for any browsers, starts and stops.

* `ServerInvariant` rests on `TableInv` (the table is within its limit, and an open
  connection is in it or a `stop()` has yet to close it) and `PublicationInv` (what was counted and what is
  still to be asked together stay within the limit).
* `NewestPublicationTrue` rests on `NewestInv`: there is a set of sessions the
  newest publication has counted such that, up to pending Tasks, these and the
  ready ones it has still to ask are the ready sessions of the table. A step that
  would make this false publishes anew, and then another publication is the
  newest, or leaves a Task or a closing `stop()` that will.

**Broadcast** (`ReloadServer_proofs`), for any sessions and any window.

* `BroadcastInvariant`: the children that run or have not been collected
  (`InGroup`) never exceed the window, and while a session waits and nothing was
  cancelled the group is not empty (`GroupInv`); so when it is empty, and the
  broadcast returns, nobody waits.
* `CancelledTurnsToNobody` needs only the types: it is the checks before a child
  is added, and in the child before it writes, that do it.

**Service** (`RuntimeService_proofs`), for any number of sessions, operations and
batches.

* `ServiceTypeCorrect` and the rest of `ControlInv`: one operation of the project
  is past its gate at a time (`SingleOperation`), and what it relies on across
  its awaits is still so (`OperationInv`): that nobody has put a session into the
  table since it looked, and that the project is still enabled.
* `ServiceInvariant` rests on `OwnerInv`, too: a pipeline is told that its monitor
  watches only while the start that led there still waits for the answer
  (`CallInv`). Without it `StoppedPipelineNotRevived` does not survive a late
  callback.
* `DisabledNotMonitored` follows from `ControlInv` and `OwnerInv`.

**Store** (`ProjectStore_proofs`), for any projects, folders, launches and
operations.

* `StoreTypeCorrect`, with lemmas on partial functions (`ChangedIsConfiguration`
  and others): a candidate of any operation is a configuration.
* `StoreInvariant` and `SourceIsNeverOverwritten` rest on `StoreIInv` (only a
  valid file has projects, memory and file agree once the store is loaded and
  not protected) and on `StoreSteps`, which says that a step loads, persists
  when loaded and unprotected, launches, or leaves the store alone.
* `VerdictIsAlwaysCurrent` rests on `StartupIInv`: nobody has a call under way
  until the start is over, so nothing moves beneath the coordinator.
* `ScreenAlwaysMatchesStore` rests on `ScreenIInv`: every answer under way has
  its call, a failure repeats the list before it, and the newest list, under way
  or shown, is the store's. `ServeKeepsScreen` and `ApplyKeepsScreen` are the two
  steps that matter.

**Session** (`ReloadServer_proofs`), for any senders and any input.

* `SessionSteps`: what a step does to what was written and to the state is one of
  four things (nothing, the hello, a frame, a close), and the lemmas on the
  parts of the invariant are stated of these.
* `SessionInvariant` rests on `SessionIInv`: a send that writes holds the queue and
  finds the session ready (`WriterHoldsQueue`: nothing that runs on the queue can
  close it in between), and a session that got ready has sent its hello
  (`ReadyAfterHello`). A torn frame is closed by the send that tore it, or by the
  server's delivery, which is what the failed `send()` still has before it.
* `SessionStepsConnection`: `SessionSpec => Abstract!Safety`, every step is one of
  `BrowserConnection` or a stutter. The abstract count of reloads is the
  cardinality of a set of positions, and `CountAppend` says what a frame does to
  it.

**Back-end launcher** (`NodeApp_proofs`), for any number of back ends and
octets, any size of a read and of the buffer, and for both launchers.

* `BackendInvariant` rests on `ControlInv`, where the launcher can be on each system
  (`PlaceInv`) and where no back end is left (`AliveInv`): on the Mac because
  `waitpid()` returned, on Windows because the process was terminated, by the
  launcher or, if it saw the shutdown, by the main thread, after which it launches
  no other. `MayAlert` is where an alert may be waiting; no step that queues
  starts there.
* `LinesAlwaysFramed` rests on `OutputInv` (when the launcher makes new pipes, the
  output of the back end before was read to its end, and nothing was written to it
  since) and on `LinesInv`: what is kept, that is the lines handled, the lines queued,
  the buffer and the pipe, one behind the other, is a part of what was written, in
  its order; all of it without a NUL, and otherwise all but octets that a NUL
  precedes by less than a read (`Flows`); and the pipe is the end of what was written (`IsLast`),
  so that an octet that is lost was not long behind the NUL it is lost for
  (`PartIsLost`). `BufferSuffices` is inductive with these: when a read starts the
  buffer has no newline, so one that a read of `ReadSize` octets overflows holds more than
  `BufferSize - ReadSize` octets of one line (`ReadMayOverflow`).
* Both need to know what the concatenation of the queued lines becomes when a
  closure is added or taken: `FlattenAppend` and `FlattenConcat`. The library
  defines `FlattenSeq` by a recursive function it chooses, and its induction
  theorems cannot be cited here, as they take operators. `Induct`, for sets of
  numbers, follows from the well-foundedness of the naturals (`LeastNatural`), and
  the lemmas from it.

**Hash table** (`NodeApp_proofs`), for any keys, any values and any hash that gives
natural numbers. The table is a finite map whatever the hash does, also if it
sends every key to one bucket.

* `EmptyTable`: a new and a cleared table hold nothing. `TableFinds`: a key is found
  where its pair is, and not found if there is none. `TableSets`: afterwards
  the table holds the pairs it held and the new one, or the new value at the
  old key, which keeps its serial number. `TableDeletes`: the key's pair is gone and
  no other. Each says that the table is sound afterwards (`SoundTable`, which
  `JsonSurvives` checks in the run), so they hold of any sequence of operations.
* They rest on `InRuns`: the pairs of a bucket are those from one place of the
  list to another, and the bucket names the pairs at the two. `SoundIsInRuns` says
  that this is `SoundTable`. An insertion in front of a run moves every run behind it
  by one (`InsertKeepsRuns`), a removal moves them back and, at an end of a run of
  two or more, takes the next pair for the bucket's end (`DropKeepsRuns`);
  `RunsAreApart` is why no other run is cut. `RehashKeepsRuns` is an induction
  over the pairs moved, the new table holding those moved so far.
* `TableSets` assumes `HasRoom`: there is a next number of buckets when the table
  is full. `primes[]` (`hashtable.c:59`) has 29, so this excludes only an object
  with 1,610,612,741 members or more, for which the code has no next either.

**YAML reader** (`Yaml_proofs`), for any octets, any pieces the read
handler cuts them into, any lengths the scanner asks for, and any sizes of the
buffers that `ReaderAssumption` allows.

* `ReaderIsExact` (`ReadsExactly`, which the run checks as a part of
  `ReadingIsExact`): a reader that is through has delivered the one text that
  its octets stand for, followed by NUL, and one that refuses them with a reader
  error was given octets that stand for no text. `StandsFor` says what this
  means without the reader: the octets are a text of permitted characters,
  encoded in UTF-8, or a byte order mark and such a text in the encoding that it
  names.
* The characters first. `HeadOfCode`: octets that begin with an encoded
  character have it at their head, so decoding is the inverse of encoding.
  `HeadCases` is the other direction: what is found was encoded, so an overlong
  form, a lone surrogate or a code beyond Unicode is not. `StaysMalformed`:
  octets that arrive later do not mend a malformed head. So no octets stand for
  two texts (`EveryTextGoesOn`, by induction over the text, and `OneMark` for
  the marks), and when the head is bad they stand for none (`BadMeansNoText`).
* The calls rest on `ReadInv`: the octets of the source are the mark, the
  encoded text that was delivered, the raw buffer and what the handler still
  has, one behind the other. A character cut by the end of the raw buffer waits
  there for its rest (`Waits`), unless the source is at its end.
* `ReaderBuffersFit`: neither buffer overflows, though a character is written
  without a look at the end of the buffer (`reader.c:428`). `BufferInv` bounds
  the octets in both at each point of a call: a character takes at most one and
  a half times as many octets in UTF-8 as it did in the raw buffer
  (`EncodedParts`: two octets of UTF-16 become three), and the buffer is filled
  only while it lacks characters (`RoomForSome`). It assumes `LooksNotTooFar`:
  eight times the length asked for is at most three times the raw size and six.
  The scanner asks for eight characters at most (`scanner.c`, the digits of an
  escape) and the raw buffer has 16,384 octets; the run has 6 and 3, where the
  bound is met exactly.

**YAML parser** (`Yaml_proofs`), for any text, and whatever tokens and errors the
scanner (`FetchTokens`, of which nothing is assumed) comes up with.

* `ParserStaysInOrder` (`ParserInv`, which the run checks as a part of
  `RoundTripInv`): as long as there is no error, the state DOCUMENT-END is at the bottom
  of the stack and nowhere else, so that no production pops an empty stack
  (`POP` does not look); there is a mark for every open collection but
  those without an end token; and when the first production of a collection uses and
  skips the start token without asking whether there is one (`parser.c:732-735`), the
  token has been at hand since the call before, and it is not the last one. At the end of the stream both stacks are empty.
* `ParserImplementsEventStream` (`ImplementsEventStream`): the events an
  application gets come in the order of a stream of documents, and after an error or the
  end there are none. The loader and the emitter rely on it: what does not fit, they assert
  against.
* The argument. The context of the stream is "stream", then what each state on
  the stack stands for (`OpenAt`: nothing, one thing, or, in a pair of a flow
  sequence, a sequence and a mapping), then what the current state stands for.
  Pushing a state adds to it at the end (`AllOpenAppend`, from `FlattenAppend`). A
  node is refused, or it is a leaf that pops the state below, or it opens a collection
  and leaves the stack (`NodeOutcomes`): `NodeIsGood` says that either is a step of
  the stream if what is on top before and the state that goes on after it fit
  (`NodeTurn`, the four pairs of `AfterNode`), and `EndIsGood` the same
  of an end. With these each production has a lemma of its own
  (put together in `StateMachineIsGood`), and `Good` is what all of them keep.
* The loops are inductions over the rounds (`SkipDocumentEndsKeeps`,
  `ProcessDirectivesKeeps`, with `Induct`): a recursive function has its values as far
  as the rounds go, and each round keeps the control (`Keeps`).
* The invariant is needed twice: a production without it could pop what is not there,
  of which nothing is known; and a step after the end stutters only because the
  parser does not go back to the beginning (`NoReturn`).

Only model-checked: all liveness (`~>`, `<>`), which TLAPS's backends here do
not reach, and with it the fairness part of `ImplementsBrowserConnection`; and
the modules of the text formats but for `JsonTable`, `YamlReader` and `YamlParser`:
they use recursive operators, about which nothing can be proved here. So
`RoundTripInv` is proved in its parts on reader and parser only, `ReadingIsExact` in
what it says of the reader (`ReadsExactly`), and of `JsonSurvives` what concerns the
table; `EventsSurvive` and `DocumentsSurvive` compare whole texts after scanner and
emitter, which would be inductions over data. Of the four refinements those of
`ReloadDecisions`, `SignalStream` and `YamlEventStream` are proved, and that of
`BrowserConnection` but for its liveness.

## 5. What is not modelled, and the plan

Done: batcher, pipeline, monitor, stream, session, server, broadcast, the
monitoring part of service and app model, the store with loading, the access
check and the list of projects; of the legacy code the launcher of the back end,
YAML and JSON.

Open, in this order:

1. The service's server operations, which forward the server's states, and
   AppModel's server button.
2. Pure algorithms, each against a reference definition over bounded inputs: the
   exclusion globs, relative paths, the WebSocket frame codec, negotiation.
3. Proofs: with 2., that the frame codec reads back what it writes, and that a
   relative path is what its definition says.

Not planned: views, activity log, fakes and tools (no behaviour depends on
them); FSEvents, sockets, bookmarks and `AsyncStream` (external, by what they
do); `deinit` paths; in the YAML library allocation failures, error messages and
the copying constructors of `api.c`; in the JSON library pack and unpack, loading
from buffers and files, changes to arrays, reference counts and the mark against
cycles, allocation failures, error messages and the decimal point of the locale;
`NSNumber`, `NSDate` and `NSError` in `YAMLSerialization.m`; the generated
proxies and routers of the back end, `Shared/` (helpers, and a console and an
event bus that nothing uses), and the other legacy trees, which the modern target
does not build.
