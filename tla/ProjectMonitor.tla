--------------------------- MODULE ProjectMonitor ---------------------------
(***************************************************************************)
(* The actor ProjectMonitor (Monitoring/ProjectMonitor.swift): it owns a   *)
(* project's event stream and its folder-access token.  The actor is       *)
(* reentrant: at every await another call, or the task that reads the      *)
(* stream, may run.  Every call is made at most once; "step" says where it *)
(* is suspended.  The stream a start creates and the token it is given     *)
(* carry the name of the start.  The stream itself is FileEventStream.     *)
(***************************************************************************)
EXTENDS SequencesExt

CONSTANTS Starts,     \* calls of start()
          Stops,      \* calls of stop()
          MaxQueue    \* bound: signals a stream holds unread

None == "none"

ASSUME MonitorConstants ==
    /\ None \notin Starts \union Stops
    /\ Starts \intersect Stops = {}
    /\ MaxQueue \in Nat

VARIABLES
    state, generation, stream, accessToken, signalTask,   \* the actor's own
    step,             \* where each call is suspended
    startGeneration,  \* activeGeneration of each start
    target,           \* the stream each stop() or recovery awaits the end of
    reader,           \* where each signal task is suspended
    cancelled,        \* signal tasks that were cancelled
    live,             \* streams made and neither stopped nor ended
    queue             \* unread signals of each stream

ownVars == <<state, generation, stream, accessToken, signalTask>>
callVars == <<step, startGeneration, target>>
readerVars == <<reader, cancelled>>
streamVars == <<live, queue>>
vars == <<ownVars, callVars, readerVars, streamVars>>

States == {"stopped", "starting", "watching", "stopping", "recovering", "failed"}
StartSteps == {"idle", "reportStarting", "makeStream", "discard", "reportWatching",
               "reportFailed", "done"}
StopSteps == {"idle", "reportStopping", "stopStream", "reportStopped", "done"}
ReaderSteps == {"none", "reading", "change", "recovery", "forwarding", "ended",
                "reportRecovering", "stopStream", "done"}

Init ==
    /\ state = "stopped" /\ generation = 0
    /\ stream = None /\ accessToken = None /\ signalTask = None
    /\ step = [c \in Starts \union Stops |-> "idle"]
    /\ startGeneration = [s \in Starts |-> 0]
    /\ target = [c \in Starts \union Stops |-> None]
    /\ reader = [s \in Starts |-> "none"]
    /\ cancelled = {}
    /\ live = {}
    /\ queue = [s \in Starts |-> <<>>]

Goto(c, next) == step' = [step EXCEPT ![c] = next]
ReaderGoto(s, next) == reader' = [reader EXCEPT ![s] = next]
------------------------------------------------------------------------------
(* start(projectID:rootURL:accessToken:)                                   *)
StartCalled(s) ==
    /\ step[s] = "idle"
    /\ \/ /\ state # "stopped"
          /\ Goto(s, "done")
          /\ UNCHANGED <<ownVars, startGeneration>>
       \/ /\ state = "stopped"
          /\ generation' = generation + 1
          /\ startGeneration' = [startGeneration EXCEPT ![s] = generation + 1]
          /\ accessToken' = s
          /\ state' = "starting"
          /\ Goto(s, "reportStarting")
          /\ UNCHANGED <<stream, signalTask>>
    /\ UNCHANGED <<target, readerVars, streamVars>>

(* onStateChange(.starting) returns.                                       *)
StartingReported(s) ==
    /\ step[s] = "reportStarting"
    /\ Goto(s, "makeStream")
    /\ UNCHANGED <<ownVars, startGeneration, target, readerVars, streamVars>>

StartInAnyState(s) == startGeneration[s] # 0

StillStarting(s) == startGeneration[s] = generation /\ state = "starting"

StreamMade(s) ==
    /\ step[s] = "makeStream"
    /\ live' = live \union {s}
    /\ \/ /\ StillStarting(s)
          /\ stream' = s
          /\ state' = "watching"
          /\ Goto(s, "reportWatching")
          /\ UNCHANGED <<generation, accessToken, signalTask>>
       \/ /\ ~StillStarting(s)
          /\ Goto(s, "discard")
          /\ UNCHANGED ownVars
    /\ UNCHANGED <<startGeneration, target, readerVars, queue>>

(* makeStream throws.                                                      *)
StreamFailed(s) ==
    /\ step[s] = "makeStream"
    /\ \/ /\ StillStarting(s)
          /\ accessToken' = None
          /\ state' = "failed"
          /\ Goto(s, "reportFailed")
          /\ UNCHANGED <<generation, stream, signalTask>>
       \/ /\ ~StillStarting(s)
          /\ Goto(s, "done")
          /\ UNCHANGED ownVars
    /\ UNCHANGED <<startGeneration, target, readerVars, streamVars>>

(* The stream of an overtaken start is stopped at once.                    *)
StreamDropped(s) ==
    /\ step[s] = "discard"
    /\ Goto(s, "done")
    /\ UNCHANGED <<ownVars, startGeneration, target, readerVars, streamVars>>

StreamDiscarded(s) ==
    /\ step[s] = "discard"
    /\ live' = live \ {s}
    /\ Goto(s, "done")
    /\ UNCHANGED <<ownVars, startGeneration, target, readerVars, queue>>

(* onStateChange(.watching) and stream.signals() return, and the signal    *)
(* task is created, whatever happened in the meantime.                     *)
SignalTaskCreated(s) ==
    /\ step[s] = "reportWatching"
    /\ signalTask' = s
    /\ ReaderGoto(s, "reading")
    /\ Goto(s, "done")
    /\ UNCHANGED <<state, generation, stream, accessToken, startGeneration, target,
                   cancelled, streamVars>>

FailureReported(s) ==
    /\ step[s] = "reportFailed"
    /\ Goto(s, "done")
    /\ UNCHANGED <<ownVars, startGeneration, target, readerVars, streamVars>>
------------------------------------------------------------------------------
(* stop(), the part without awaits after the stream has stopped.           *)
StoppedSilently(x) ==
    stream' = None /\ accessToken' = None /\ Goto(x, "reportStopped") /\ UNCHANGED state

Stopped(x) ==
    /\ stream' = None
    /\ accessToken' = None
    /\ state' = "stopped"
    /\ Goto(x, "reportStopped")

(* signalTask?.cancel()                                                    *)
CancelAnySignalTask == cancelled' = cancelled \union {signalTask}
CancelSignalTask == cancelled' = cancelled \union ({signalTask} \ {None})

(* The part of stop() that follows its switch over the state.              *)
Halt(x) ==
    /\ generation' = generation + 1
    /\ CancelSignalTask
    /\ signalTask' = None
    /\ \/ /\ stream # None
          /\ target' = [target EXCEPT ![x] = stream]
          /\ Goto(x, "stopStream")
          /\ UNCHANGED <<stream, accessToken, state>>
       \/ stream = None /\ Stopped(x) /\ UNCHANGED target
    /\ UNCHANGED <<startGeneration, reader, streamVars>>

StopCalled(x) ==
    /\ step[x] = "idle"
    /\ \/ /\ state \in {"stopped", "stopping"}
          /\ Goto(x, "done")
          /\ UNCHANGED <<ownVars, startGeneration, target, readerVars, streamVars>>
       \/ /\ state = "watching"
          /\ state' = "stopping"
          /\ Goto(x, "reportStopping")
          /\ UNCHANGED <<generation, stream, accessToken, signalTask, startGeneration,
                         target, readerVars, streamVars>>
       \/ state \in {"starting", "recovering", "failed"} /\ Halt(x)

StoppingReported(x) == step[x] = "reportStopping" /\ Halt(x)

StreamStopped(x) ==
    /\ step[x] = "stopStream"
    /\ live' = live \ {target[x]}
    /\ Stopped(x)
    /\ UNCHANGED <<generation, signalTask, startGeneration, target, readerVars, queue>>

StoppedReported(x) ==
    /\ step[x] = "reportStopped"
    /\ Goto(x, "done")
    /\ UNCHANGED <<ownVars, startGeneration, target, readerVars, streamVars>>
------------------------------------------------------------------------------
(* The signal task: its for-await loop.                                    *)
ReadSignal(s) ==
    /\ reader[s] = "reading" /\ queue[s] # <<>>
    /\ queue' = [queue EXCEPT ![s] = Tail(@)]
    /\ ReaderGoto(s, IF s \in cancelled THEN "ended" ELSE Head(queue[s]))
    /\ UNCHANGED <<ownVars, callVars, cancelled, live>>

(* The loop ends with the stream, or because the task was cancelled.       *)
ReadEnd(s) ==
    /\ reader[s] = "reading"
    /\ s \in cancelled \/ (queue[s] = <<>> /\ s \notin live)
    /\ ReaderGoto(s, "ended")
    /\ UNCHANGED <<ownVars, callVars, cancelled, streamVars>>

(* receive() and streamEnded() ignore a task of an earlier generation.     *)
CurrentInAnyState(s) == startGeneration[s] = generation
CurrentAfterNext(s) == startGeneration[s] = generation + 1 /\ state = "watching"

Current(s) == startGeneration[s] = generation /\ state = "watching"

ReceiveChange(s) ==
    /\ reader[s] = "change"
    /\ ReaderGoto(s, IF Current(s) THEN "forwarding" ELSE "reading")
    /\ UNCHANGED <<ownVars, callVars, cancelled, streamVars>>

SignalForwarded(s) ==
    /\ reader[s] = "forwarding"
    /\ ReaderGoto(s, "reading")
    /\ UNCHANGED <<ownVars, callVars, cancelled, streamVars>>

(* receive() of a recovery signal, or streamEnded(), calls enterRecovery().*)
EnterRecovery(s) ==
    /\ reader[s] \in {"recovery", "ended"}
    /\ \/ /\ Current(s)
          /\ state' = "recovering"
          /\ ReaderGoto(s, "reportRecovering")
       \/ /\ ~Current(s)
          /\ ReaderGoto(s, IF reader[s] = "ended" THEN "done" ELSE "reading")
          /\ UNCHANGED state
    /\ UNCHANGED <<generation, stream, accessToken, signalTask, callVars, cancelled, streamVars>>

(* enterRecovery() stops whatever stream the actor holds by then.  Back in *)
(* its loop the task finds that stream finished, and its streamEnded() is  *)
(* refused.                                                                *)
RecoveringReported(s) ==
    /\ reader[s] = "reportRecovering"
    /\ \/ /\ stream # None
          /\ target' = [target EXCEPT ![s] = stream]
          /\ ReaderGoto(s, "stopStream")
          /\ UNCHANGED <<stream, accessToken>>
       \/ /\ stream = None
          /\ accessToken' = None
          /\ ReaderGoto(s, "reading")
          /\ UNCHANGED <<stream, target>>
    /\ UNCHANGED <<state, generation, signalTask, step, startGeneration, cancelled, streamVars>>

RecoveryKeptAccess(s) ==
    /\ reader[s] = "stopStream"
    /\ live' = live \ {target[s]}
    /\ stream' = None
    /\ ReaderGoto(s, "reading")
    /\ UNCHANGED <<state, generation, accessToken, signalTask, callVars, cancelled, queue>>

RecoveryStoppedStream(s) ==
    /\ reader[s] = "stopStream"
    /\ live' = live \ {target[s]}
    /\ stream' = None
    /\ accessToken' = None
    /\ ReaderGoto(s, "reading")
    /\ UNCHANGED <<state, generation, signalTask, callVars, cancelled, queue>>
------------------------------------------------------------------------------
(* The stream: external here, see FileEventStream.                         *)
Emit(s, kind) ==
    /\ s \in live /\ Len(queue[s]) < MaxQueue
    /\ queue' = [queue EXCEPT ![s] = Append(@, kind)]
    /\ UNCHANGED <<ownVars, callVars, readerVars, live>>

(* A stream ends by itself after an overflow, behind a recovery signal.    *)
Overflow(s) ==
    /\ s \in live /\ Len(queue[s]) < MaxQueue
    /\ queue' = [queue EXCEPT ![s] = Append(@, "recovery")]
    /\ live' = live \ {s}
    /\ UNCHANGED <<ownVars, callVars, readerVars>>

StartStep(s) ==
    \/ StartingReported(s) \/ StreamMade(s) \/ StreamFailed(s) \/ StreamDiscarded(s)
    \/ SignalTaskCreated(s) \/ FailureReported(s)

StopStep(x) == StoppingReported(x) \/ StreamStopped(x) \/ StoppedReported(x)

ReaderStep(s) ==
    \/ ReadSignal(s) \/ ReadEnd(s) \/ ReceiveChange(s) \/ SignalForwarded(s)
    \/ EnterRecovery(s) \/ RecoveringReported(s) \/ RecoveryStoppedStream(s)

Next ==
    \/ \E s \in Starts : StartCalled(s) \/ StartStep(s) \/ ReaderStep(s) \/ Overflow(s)
    \/ \E x \in Stops : StopCalled(x) \/ StopStep(x)
    \/ \E s \in Starts, kind \in {"change", "recovery"} : Emit(s, kind)

(* Every await returns: callbacks, makeStream and stream.stop() terminate. *)
(* Nobody has to call start() or stop(), and files need not change.        *)
Fairness ==
    /\ \A s \in Starts : WF_vars(StartStep(s)) /\ WF_vars(ReaderStep(s))
    /\ \A x \in Stops : WF_vars(StopStep(x))

Spec == Init /\ [][Next]_vars /\ Fairness
------------------------------------------------------------------------------
TypeOK ==
    /\ state \in States
    /\ generation \in Nat
    /\ stream \in Starts \union {None}
    /\ accessToken \in Starts \union {None}
    /\ signalTask \in Starts \union {None}
    /\ step \in [Starts \union Stops -> StartSteps \union StopSteps]
    /\ startGeneration \in [Starts -> Nat]
    /\ target \in [Starts \union Stops -> Starts \union {None}]
    /\ reader \in [Starts -> ReaderSteps]
    /\ cancelled \subseteq Starts
    /\ live \subseteq Starts
    /\ queue \in [Starts -> Seq({"change", "recovery"})]

(* The calls of start() that found the monitor stopped are one at most, as *)
(* with ReloadLoopRuntimeService, which makes a monitor for every session. *)
StartedOnce ==
    \A s, t \in Starts : startGeneration[s] # 0 /\ startGeneration[t] # 0 => s = t

(* SC-005: a stream that still runs is held by the monitor, or a call is   *)
(* on its way to stop it; none is forgotten.  A monitor that is stopped    *)
(* and started again while a recovery is suspended may forget one.         *)
StreamOwned ==
    StartedOnce => \A s \in live :
        \/ stream = s
        \/ step[s] = "discard"
        \/ \E x \in Stops : step[x] = "stopStream" /\ target[x] = s
        \/ reader[s] = "stopStream" /\ target[s] = s

(* Whoever is told that the monitor watches has a stream, and the folder   *)
(* access that stream needs.                                               *)
WatchingHasSource ==
    StartedOnce /\ state = "watching" => stream # None /\ accessToken = stream

(* A monitor at rest holds neither a stream nor folder access.             *)
RestReleasesEverything ==
    state \in {"stopped", "failed"} => stream = None /\ accessToken = None

(* A recovery that has finished its work holds nothing either, although a  *)
(* stop() may have run inside it.                                          *)
RecoveryReleasesEverything ==
    state = "recovering" /\ (\A s \in Starts : reader[s] \notin {"reportRecovering", "stopStream"})
        => stream = None /\ accessToken = None

(* SC-005: what a watch needed is given back, whichever way it ended.      *)
HoldsNothingAtRest == RestReleasesEverything /\ RecoveryReleasesEverything

(* The types, and the three together.                                      *)
MonitorSafety == TypeOK /\ StreamOwned /\ WatchingHasSource /\ HoldsNothingAtRest

(* A change is forwarded only from the stream the monitor holds.           *)
ForwardsCurrentStream ==
    [][StartedOnce => \A s \in Starts :
          reader[s] # "forwarding" /\ reader'[s] = "forwarding" => stream = s]_vars

(* FR-015: once a stream has failed the monitor stops claiming to watch.   *)
FailureIsNoticed ==
    (state = "watching" /\ stream \notin live) ~> (state # "watching" \/ ~StartedOnce)

(* A stop() that was called comes to an end with the monitor stopped,      *)
(* unless it found another one at work.                                    *)
StopCompletes ==
    \A x \in Stops : (step[x] \in {"reportStopping", "stopStream"}) ~> (state = "stopped")
------------------------------------------------------------------------------
(* The inductive invariant behind the invariants above: which calls   *)
(* can be suspended where in each state, and what the monitor then holds.  *)
Started(s) == startGeneration[s] # 0

UnstartedInv(s) ==
    ~Started(s) => step[s] \in {"idle", "done"} /\ reader[s] = "none" /\ s \notin live

Recovering(s) == reader[s] \in {"reportRecovering", "stopStream"}

StartedInv(s) ==
    /\ step[s] # "idle"
    /\ step[s] \in {"reportStarting", "makeStream"} =>
          state \in {"starting", "stopped"} /\ live = {} /\ reader[s] = "none"
    /\ step[s] \in {"discard", "reportWatching", "reportFailed"} => reader[s] = "none"
    /\ state = "starting" =>
          /\ step[s] \in {"reportStarting", "makeStream"} /\ startGeneration[s] = generation
          /\ accessToken = s /\ stream = None
    /\ Recovering(s) => state \in {"recovering", "stopped"}
    /\ reader[s] = "stopStream" => target[s] = s

StopInv(x) ==
    /\ step[x] = "reportStopping" => state \in {"stopping", "stopped"}
    /\ step[x] = "stopStream" =>
          /\ state \in {"stopping", "recovering", "stopped"}
          /\ target[x] # None /\ Started(target[x])

NothingStarted == \A s \in Starts : ~Started(s)

MonitorInv ==
    /\ NothingStarted => state = "stopped" /\ \A x \in Stops : step[x] \in {"idle", "done"}
    /\ \A s \in Starts : Started(s) => StartedInv(s)
    /\ \A x \in Stops : StopInv(x)
    /\ stream # None => Started(stream)
    /\ state \in {"watching", "stopping"} => stream # None /\ accessToken = stream
    /\ RestReleasesEverything
    /\ RecoveryReleasesEverything
    /\ StreamOwned
==============================================================================
