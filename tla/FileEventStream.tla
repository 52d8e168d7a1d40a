--------------------------- MODULE FileEventStream ---------------------------
(***************************************************************************)
(* FSEventsFileEventStream and its FileEventSignalBuffer: a callback on    *)
(* the stream's serial queue copies events into a bounded AsyncStream; any *)
(* thread may stop the stream; the reader is the monitor's signal task.    *)
(* Two locks and a queue order these threads, and no more than is said     *)
(* here.  FSEvents itself and AsyncStream are external.                    *)
(***************************************************************************)
EXTENDS SequencesExt

CONSTANTS Capacity,   \* FileEventSignalBuffer.maximumCapacity, at least 1
          MaxEvents,  \* bound: events the native stream reports
          Callers     \* calls of stop()

OverflowStop == "overflow"   \* the stop that emit() puts on the serial queue

ASSUME StreamConstants ==
    /\ Capacity \in Nat \ {0}
    /\ MaxEvents \in Nat
    /\ OverflowStop \notin Callers

VARIABLES
    nativeStream,  \* "held", "taken" by a stop, or "released"
    releases,      \* history: how often it was released
    stopped,
    stopStep,      \* where each stop is
    callback,      \* signals a running callback has yet to emit
    yielding,      \* the overflow it is reporting under the buffer's lock
    event,         \* identifier of the last event
    buffer,        \* signals in the AsyncStream
    isFinished,
    terminated,    \* the reader's task was cancelled
    read           \* history: the signals read

nativeVars == <<nativeStream, releases, stopped, stopStep>>
callbackVars == <<callback, yielding, event>>
bufferVars == <<buffer, isFinished, terminated, read>>
eventStreamVars == <<nativeVars, callbackVars, bufferVars>>

Kinds == {"change", "recovery", "eventsDropped"}
Signals == [kind : Kinds, sequence : 1 .. MaxEvents]
Sig(kind, n) == [kind |-> kind, sequence |-> n]
NoOverflow == 0

(* The signals of one event: none for a path outside the root, one per     *)
(* recovery, one per kind of change.                                       *)
EventSignals(n) == {<<>>, <<Sig("recovery", n)>>, <<Sig("change", n)>>,
                    <<Sig("change", n), Sig("change", n)>>}

StreamInit ==
    /\ nativeStream = "held" /\ releases = 0 /\ stopped = FALSE
    /\ stopStep = [c \in Callers \union {OverflowStop} |-> "idle"]
    /\ callback = <<>> /\ yielding = NoOverflow /\ event = 0
    /\ buffer = <<>> /\ isFinished = FALSE /\ terminated = FALSE /\ read = <<>>

QueueIdle ==
    callback = <<>> /\ yielding = NoOverflow
    /\ stopStep[OverflowStop] \notin {"release", "finish"}
------------------------------------------------------------------------------
(* receive(): a callback of one or two events passes the guard.            *)
Receive ==
    /\ QueueIdle /\ nativeStream # "released"
    /\ ~stopped
    /\ \/ /\ event < MaxEvents /\ event' = event + 1
          /\ callback' \in EventSignals(event + 1)
       \/ /\ event + 1 < MaxEvents /\ event' = event + 2
          /\ \E a \in EventSignals(event + 1), b \in EventSignals(event + 2) : callback' = a \o b
    /\ UNCHANGED <<nativeVars, yielding, bufferVars>>

(* emit(): the buffer takes a signal.                                      *)
AcceptedAnyway ==
    /\ callback # <<>> /\ yielding = NoOverflow
    /\ ~terminated /\ Len(buffer) < Capacity
    /\ buffer' = Append(buffer, Head(callback))
    /\ callback' = Tail(callback)
    /\ UNCHANGED <<nativeVars, yielding, event, isFinished, terminated, read>>

Accepted ==
    /\ callback # <<>> /\ yielding = NoOverflow
    /\ ~isFinished /\ ~terminated /\ Len(buffer) < Capacity
    /\ buffer' = Append(buffer, Head(callback))
    /\ callback' = Tail(callback)
    /\ UNCHANGED <<nativeVars, yielding, event, isFinished, terminated, read>>

(* yield() when the buffer is full: AsyncStream drops the oldest signal to *)
(* take the new one, and yield() notices.                                  *)
Dropped ==
    /\ callback # <<>> /\ yielding = NoOverflow
    /\ ~isFinished /\ ~terminated /\ Len(buffer) = Capacity
    /\ buffer' = Append(Tail(buffer), Head(callback))
    /\ yielding' = Head(callback).sequence
    /\ UNCHANGED <<nativeVars, callback, event, isFinished, terminated, read>>

(* Still under the lock, yield() adds the recovery signal, dropping again  *)
(* if the reader took nothing in between, and finishes the stream; emit()  *)
(* then queues a stop, and the callback returns.                           *)
LastSignals(n) ==
    LET room == IF Len(buffer) = Capacity THEN Tail(buffer) ELSE buffer
    IN  Append(room, Sig("eventsDropped", n))

OverflowWithoutStop ==
    /\ yielding # NoOverflow
    /\ buffer' = IF terminated THEN buffer ELSE LastSignals(yielding)
    /\ isFinished' = TRUE
    /\ yielding' = NoOverflow /\ callback' = <<>>
    /\ UNCHANGED <<nativeVars, event, terminated, read>>

Overflowed ==
    /\ yielding # NoOverflow
    /\ buffer' = IF terminated THEN buffer ELSE LastSignals(yielding)
    /\ isFinished' = TRUE
    /\ yielding' = NoOverflow /\ callback' = <<>>
    /\ stopStep' = [stopStep EXCEPT ![OverflowStop] = "queued"]
    /\ UNCHANGED <<nativeStream, releases, stopped, event, terminated, read>>

(* yield() on a finished or abandoned stream ends the callback.            *)
Refused ==
    /\ callback # <<>> /\ yielding = NoOverflow
    /\ isFinished \/ terminated
    /\ isFinished' = TRUE
    /\ callback' = <<>>
    /\ UNCHANGED <<nativeVars, yielding, event, buffer, terminated, read>>

CallbackStep == Accepted \/ Dropped \/ Overflowed \/ Refused
------------------------------------------------------------------------------
(* stopSynchronously(): the first to come takes the native stream.         *)
MayStop(c) ==
    IF c = OverflowStop THEN stopStep[c] = "queued" /\ callback = <<>> ELSE stopStep[c] = "idle"

TakeAnyway(c) ==
    /\ MayStop(c)
    /\ stopped' = TRUE
    /\ nativeStream' = IF nativeStream = "held" THEN "taken" ELSE nativeStream
    /\ stopStep' = [stopStep EXCEPT ![c] = "release"]
    /\ UNCHANGED <<releases, callbackVars, bufferVars>>

Take(c) ==
    /\ MayStop(c)
    /\ stopped' = TRUE
    /\ \/ /\ ~stopped
          /\ nativeStream' = "taken"
          /\ stopStep' = [stopStep EXCEPT ![c] = "release"]
       \/ /\ stopped
          /\ stopStep' = [stopStep EXCEPT ![c] = "done"]
          /\ UNCHANGED nativeStream
    /\ UNCHANGED <<releases, callbackVars, bufferVars>>

(* FSEventStreamStop, Invalidate, Release.                                 *)
Release(c) ==
    /\ stopStep[c] = "release"
    /\ nativeStream' = "released"
    /\ releases' = releases + 1
    /\ stopStep' = [stopStep EXCEPT ![c] = "finish"]
    /\ UNCHANGED <<stopped, callbackVars, bufferVars>>

(* finish(), which waits for the buffer's lock.                            *)
FinishUnheard(c) ==
    /\ stopStep[c] = "finish" /\ yielding = NoOverflow
    /\ stopStep' = [stopStep EXCEPT ![c] = "done"]
    /\ UNCHANGED <<nativeStream, releases, stopped, callbackVars, bufferVars>>

Finish(c) ==
    /\ stopStep[c] = "finish" /\ yielding = NoOverflow
    /\ isFinished' = TRUE
    /\ stopStep' = [stopStep EXCEPT ![c] = "done"]
    /\ UNCHANGED <<nativeStream, releases, stopped, callbackVars, buffer, terminated, read>>

StopperStep(c) == Release(c) \/ Finish(c) \/ (c = OverflowStop /\ Take(c))
------------------------------------------------------------------------------
(* The reader: the monitor's signal task.                                  *)
Read ==
    /\ buffer # <<>>
    /\ read' = Append(read, Head(buffer))
    /\ buffer' = Tail(buffer)
    /\ UNCHANGED <<nativeVars, callbackVars, isFinished, terminated>>

(* Its task is cancelled: the stream ends and what it holds is gone.       *)
ReaderCancelled ==
    /\ ~terminated /\ terminated' = TRUE
    /\ buffer' = <<>>
    /\ UNCHANGED <<nativeVars, callbackVars, isFinished, read>>

StreamNext ==
    \/ Receive \/ CallbackStep
    \/ \E c \in Callers \union {OverflowStop} : Take(c) \/ Release(c) \/ Finish(c)
    \/ Read \/ ReaderCancelled

(* A running callback, a begun or queued stop and the reader go on; nobody *)
(* has to save a file, to stop the stream or to cancel the reader.         *)
StreamFairness ==
    /\ WF_eventStreamVars(CallbackStep)
    /\ \A c \in Callers \union {OverflowStop} : WF_eventStreamVars(StopperStep(c))
    /\ WF_eventStreamVars(Read)

StreamSpec == StreamInit /\ [][StreamNext]_eventStreamVars /\ StreamFairness
------------------------------------------------------------------------------
StreamTypeOK ==
    /\ nativeStream \in {"held", "taken", "released"}
    /\ releases \in Nat
    /\ stopped \in BOOLEAN /\ isFinished \in BOOLEAN /\ terminated \in BOOLEAN
    /\ stopStep \in [Callers \union {OverflowStop} ->
                        {"idle", "queued", "release", "finish", "done"}]
    /\ callback \in Seq(Signals) /\ buffer \in Seq(Signals) /\ read \in Seq(Signals)
    /\ Len(buffer) <= Capacity
    /\ yielding \in 0 .. MaxEvents
    /\ event \in 0 .. MaxEvents

(* The native stream is released by one stop only, and after it was taken: *)
(* a stop by the monitor, one by a recovery and the one an overflow queues *)
(* may all run at once.                                                    *)
ReleasedOnce ==
    /\ releases <= 1
    /\ nativeStream = "released" <=> releases = 1

(* An overflow, and only an overflow, is reported, as the last signal, and *)
(* to a reader that stays: the monitor must never take a stream that lost  *)
(* events for one that went quiet.                                         *)
LossIsReportedLast ==
    LET signals == read \o buffer
    IN  /\ stopStep[OverflowStop] # "idle" /\ ~terminated =>
              signals # <<>> /\ Last(signals).kind = "eventsDropped"
        /\ \A i \in 1 .. Len(signals) - 1 : signals[i].kind # "eventsDropped"

(* The variables keep their types, the native stream is released once, and *)
(* a loss is reported last.                                                *)
StreamInv == StreamTypeOK /\ ReleasedOnce /\ LossIsReportedLast

(* An overflow gives the native stream back, whether or not anybody stops  *)
(* the stream.                                                             *)
OverflowReleases == (yielding # NoOverflow) ~> (nativeStream = "released")

(* Once a stop has begun the reader's loop comes to its end.               *)
StopEndsReading == stopped ~> (isFinished /\ buffer = <<>>)

Abstract == INSTANCE SignalStream WITH
    Signal <- [kind : {"change", "recovery"}, sequence : 1 .. MaxEvents],
    Lost <- LAMBDA n : Sig("eventsDropped", n),
    open <- ~isFinished /\ ~terminated,
    owed <- yielding # NoOverflow /\ ~terminated,
    unread <- buffer,
    taken <- read

(* Loss, order and end of the stream are those of SignalStream.            *)
ImplementsSignalStream == Abstract!Spec
==============================================================================
