------------------------ MODULE ProjectMonitor_proofs ------------------------
(***************************************************************************)
(* Proofs about ProjectMonitor, for any number of start() and stop() calls *)
(* and any queue bound.  The lifecycle theorems hold as long as one start  *)
(* at most has found the monitor stopped: that is how the application uses *)
(* it, and TLC refutes StreamOwned for a monitor that is started again.    *)
(* And about FileEventStream, the stream the monitor reads, for any        *)
(* capacity of its buffer and any stops.                                   *)
(***************************************************************************)
EXTENDS ProjectMonitor, FileEventStream, TLAPS

USE DEF ownVars, callVars, readerVars, streamVars, Goto, ReaderGoto, CancelSignalTask

(* Every variable of the monitor keeps its type.                           *)
THEOREM MonitorTypeCorrect == Spec => []TypeOK
  <1>1. Init => TypeOK
    BY MonitorConstants DEF Init, TypeOK, States, StartSteps, StopSteps, ReaderSteps
  <1>2. TypeOK /\ [Next]_vars => TypeOK'
    <2> SUFFICES ASSUME TypeOK, [Next]_vars PROVE TypeOK'
      OBVIOUS
    <2> USE MonitorConstants DEF TypeOK, States, StartSteps, StopSteps, ReaderSteps
    <2>1. ASSUME NEW s \in Starts, StartCalled(s) PROVE TypeOK'
      <3>1. CASE state # "stopped"
        BY <2>1, <3>1 DEF StartCalled
      <3>2. CASE state = "stopped"
        <4>1. generation + 1 \in Nat
          OBVIOUS
        <4>2. startGeneration' = [startGeneration EXCEPT ![s] = generation + 1]
          BY <2>1, <3>2 DEF StartCalled
        <4>3. startGeneration' \in [Starts -> Nat]
          BY <4>1, <4>2
        <4>4. step' \in [Starts \union Stops -> StartSteps \union StopSteps]
          BY <2>1, <3>2 DEF StartCalled
        <4> QED BY <2>1, <3>2, <4>1, <4>3, <4>4 DEF StartCalled
      <3> QED BY <3>1, <3>2
    <2>2. ASSUME NEW s \in Starts, StartStep(s) PROVE TypeOK'
      <3>1. CASE StartingReported(s) \/ StreamDiscarded(s) \/ FailureReported(s)
        BY <3>1 DEF StartingReported, StreamDiscarded, FailureReported
      <3>2. CASE StreamMade(s)
        BY <3>2 DEF StreamMade
      <3>3. CASE StreamFailed(s)
        BY <3>3 DEF StreamFailed
      <3>4. CASE SignalTaskCreated(s)
        BY <3>4 DEF SignalTaskCreated
      <3> QED BY <2>2, <3>1, <3>2, <3>3, <3>4 DEF StartStep
    <2>3. ASSUME NEW s \in Starts, ReaderStep(s) PROVE TypeOK'
      <3>1. CASE ReadSignal(s)
        <4>1. Head(queue[s]) \in {"change", "recovery"} /\ Tail(queue[s]) \in Seq({"change", "recovery"})
          BY <3>1 DEF ReadSignal
        <4> QED BY <3>1, <4>1 DEF ReadSignal
      <3>2. CASE ReadEnd(s) \/ ReceiveChange(s) \/ SignalForwarded(s)
        BY <3>2 DEF ReadEnd, ReceiveChange, SignalForwarded
      <3>3. CASE EnterRecovery(s)
        BY <3>3 DEF EnterRecovery
      <3>4. CASE RecoveringReported(s)
        <4>1. CASE stream = None
          BY <3>4, <4>1 DEF RecoveringReported
        <4>2. CASE stream # None
          <5>1. target' \in [Starts \union Stops -> Starts \union {None}]
            BY <3>4, <4>2, SMTT(30) DEF RecoveringReported
          <5>2. reader' \in [Starts -> ReaderSteps]
            BY <3>4, <4>2 DEF RecoveringReported
          <5> QED BY <3>4, <4>2, <5>1, <5>2 DEF RecoveringReported
        <4> QED BY <4>1, <4>2
      <3>5. CASE RecoveryStoppedStream(s)
        BY <3>5 DEF RecoveryStoppedStream
      <3> QED BY <2>3, <3>1, <3>2, <3>3, <3>4, <3>5 DEF ReaderStep
    <2>4. ASSUME NEW s \in Starts, NEW kind \in {"change", "recovery"},
                 Emit(s, kind) \/ Overflow(s)
          PROVE  TypeOK'
      <3>1. Append(queue[s], kind) \in Seq({"change", "recovery"})
        OBVIOUS
      <3>2. Append(queue[s], "recovery") \in Seq({"change", "recovery"})
        OBVIOUS
      <3>3. CASE Emit(s, kind)
        BY <3>1, <3>3 DEF Emit
      <3>4. CASE Overflow(s)
        BY <3>2, <3>4 DEF Overflow
      <3> QED BY <2>4, <3>3, <3>4
    <2>5. ASSUME NEW x \in Stops, StopCalled(x) \/ StopStep(x) PROVE TypeOK'
      <3>1. CASE Halt(x)
        <4>1. generation' \in Nat /\ cancelled' \subseteq Starts
          BY <3>1 DEF Halt
        <4>2. step' \in [Starts \union Stops -> StartSteps \union StopSteps]
          BY <3>1 DEF Halt, Stopped
        <4>3. target' \in [Starts \union Stops -> Starts \union {None}]
          <5>1. target' = target \/ target' = [target EXCEPT ![x] = stream]
            BY <3>1 DEF Halt
          <5> QED BY <5>1
        <4>4. /\ state' \in States
              /\ stream' \in Starts \union {None}
              /\ accessToken' \in Starts \union {None}
          BY <3>1 DEF Halt, Stopped
        <4> QED BY <3>1, <4>1, <4>2, <4>3, <4>4 DEF Halt
      <3>2. CASE StreamStopped(x)
        BY <3>2 DEF StreamStopped, Stopped
      <3>3. CASE StoppedReported(x)
        BY <3>3 DEF StoppedReported
      <3>4. CASE StopCalled(x) /\ ~Halt(x)
        BY <3>4 DEF StopCalled
      <3>5. Halt(x) \/ StreamStopped(x) \/ StoppedReported(x) \/ (StopCalled(x) /\ ~Halt(x))
        BY <2>5 DEF StopStep, StoppingReported
      <3> HIDE DEF TypeOK
      <3> QED BY <3>1, <3>2, <3>3, <3>4, <3>5
    <2>6. CASE UNCHANGED vars
      BY <2>6 DEF vars
    <2> HIDE DEF TypeOK
    <2> QED BY <2>1, <2>2, <2>3, <2>4, <2>5, <2>6 DEF Next
  <1> QED BY <1>1, <1>2, PTL DEF Spec

(* A call of start() that found the monitor busy, or was not made yet, has *)
(* nothing under way.                                                      *)
THEOREM UnstartedAlwaysIdle == Spec => [](\A s \in Starts : UnstartedInv(s))
  <1> USE MonitorConstants DEF UnstartedInv, Started
  <1>1. Init => \A s \in Starts : UnstartedInv(s)
    BY DEF Init
  <1>2. TypeOK /\ (\A s \in Starts : UnstartedInv(s)) /\ [Next]_vars
        => (\A s \in Starts : UnstartedInv(s))'
    <2> SUFFICES ASSUME TypeOK, \A t \in Starts : UnstartedInv(t), [Next]_vars,
                        NEW s \in Starts
                 PROVE  UnstartedInv(s)'
      OBVIOUS
    <2> USE DEF TypeOK
    <2>1. ASSUME NEW t \in Starts, StartCalled(t) PROVE UnstartedInv(s)'
      <3>1. CASE state # "stopped"
        BY <2>1, <3>1 DEF StartCalled
      <3>2. CASE state = "stopped" /\ s # t
        BY <2>1, <3>2 DEF StartCalled
      <3>3. CASE state = "stopped" /\ s = t
        <4>1. startGeneration'[s] = generation + 1
          BY <2>1, <3>3 DEF StartCalled
        <4>2. generation + 1 # 0
          OBVIOUS
        <4> QED BY <4>1, <4>2
      <3> QED BY <3>1, <3>2, <3>3
    <2>2. ASSUME NEW t \in Starts, StartStep(t) PROVE UnstartedInv(s)'
      BY <2>2 DEF StartStep, StartingReported, StreamMade, StreamFailed, StreamDiscarded,
                 SignalTaskCreated, FailureReported
    <2>3. ASSUME NEW t \in Starts, ReaderStep(t) PROVE UnstartedInv(s)'
      BY <2>3 DEF ReaderStep, ReadSignal, ReadEnd, ReceiveChange, SignalForwarded,
                 EnterRecovery, RecoveringReported, RecoveryStoppedStream
    <2>4. ASSUME NEW t \in Starts, NEW kind, Emit(t, kind) \/ Overflow(t)
          PROVE  UnstartedInv(s)'
      BY <2>4 DEF Emit, Overflow
    <2>5. ASSUME NEW x \in Stops, StopCalled(x) \/ StopStep(x) PROVE UnstartedInv(s)'
      <3>1. s # x
        BY <2>5
      <3> QED BY <2>5, <3>1 DEF StopCalled, StopStep, StoppingReported, StreamStopped,
                 StoppedReported, Halt, Stopped
    <2>6. CASE UNCHANGED vars
      BY <2>6 DEF vars
    <2> QED BY <2>1, <2>2, <2>3, <2>4, <2>5, <2>6 DEF Next
  <1> QED BY <1>1, <1>2, MonitorTypeCorrect, PTL DEF Spec

(* What was started stays so: generations are never taken back.            *)
LEMMA StartedStaysStarted ==
    ASSUME TypeOK, [Next]_vars, NEW s \in Starts, Started(s)
    PROVE  Started(s)'
  BY DEF TypeOK, Started, Next, vars, StartCalled, StartStep, StartingReported, StreamMade,
         StreamFailed, StreamDiscarded, SignalTaskCreated, FailureReported, ReaderStep,
         ReadSignal, ReadEnd, ReceiveChange, SignalForwarded, EnterRecovery,
         RecoveringReported, RecoveryStoppedStream, Emit, Overflow, StopCalled, StopStep,
         StoppingReported, StreamStopped, StoppedReported, Halt

(* As long as it was started once a monitor keeps MonitorInv: no event     *)
(* stream is ever forgotten, a monitor that claims to watch has its stream *)
(* and its folder access, and one at rest or recovered has released both,  *)
(* however many stop() calls, recoveries and signals interleave.           *)
THEOREM MonitorKeepsItsResources == Spec => [](StartedOnce => MonitorInv)
  <1> USE MonitorConstants DEF StartedOnce, Started, NothingStarted
  <1>1. Init => MonitorInv
    BY DEF Init, MonitorInv, StartedInv, StopInv, Recovering, StreamOwned,
           RestReleasesEverything, RecoveryReleasesEverything
  <1>2. /\ TypeOK /\ (\A s \in Starts : UnstartedInv(s)) /\ (StartedOnce => MonitorInv)
        /\ [Next]_vars
        => (StartedOnce => MonitorInv)'
    <2> SUFFICES ASSUME TypeOK, \A s \in Starts : UnstartedInv(s), StartedOnce => MonitorInv,
                        [Next]_vars, StartedOnce'
                 PROVE  MonitorInv'
      OBVIOUS
    <2>a. \A s \in Starts : Started(s) => Started(s)'
      BY StartedStaysStarted
    <2>b. StartedOnce /\ MonitorInv
      BY <2>a
    <2> USE <2>a, <2>b DEF UnstartedInv
    <2> USE DEF TypeOK, MonitorInv, StartedInv, StopInv, Recovering, StreamOwned,
                RestReleasesEverything, RecoveryReleasesEverything
    <2>1. ASSUME NEW s \in Starts, StartCalled(s) PROVE MonitorInv'
      <3>1. CASE state # "stopped"
        BY <2>1, <3>1 DEF StartCalled
      <3>2. CASE state = "stopped"
        <4>1. /\ startGeneration' = [startGeneration EXCEPT ![s] = generation + 1]
              /\ step' = [step EXCEPT ![s] = "reportStarting"]
              /\ generation' = generation + 1 /\ accessToken' = s /\ state' = "starting"
              /\ UNCHANGED <<stream, signalTask, target, reader, cancelled, live, queue>>
          BY <2>1, <3>2 DEF StartCalled
        <4>2. generation + 1 # 0 /\ Started(s)'
          BY <4>1
        <4>3. NothingStarted
          BY <2>1, <4>1, <4>2 DEF StartCalled
        <4>4. stream = None /\ live = {} /\ \A t \in Starts : reader[t] = "none"
          BY <3>2, <4>3
        <4>5. \A x \in Stops : step'[x] \in {"idle", "done"}
          BY <4>1, <4>3
        <4>6. \A t \in Starts : Started(t)' => t = s
          BY <4>2
        <4> QED BY <4>1, <4>2, <4>4, <4>5, <4>6
      <3> QED BY <3>1, <3>2
    <2>2. ASSUME NEW s \in Starts, StartingReported(s) PROVE MonitorInv'
      BY <2>2 DEF StartingReported
    <2>3. ASSUME NEW s \in Starts, StreamMade(s) PROVE MonitorInv'
      <3>1. CASE StillStarting(s)
        BY <2>3, <3>1 DEF StreamMade, StillStarting
      <3>2. CASE ~StillStarting(s)
        BY <2>3, <3>2 DEF StreamMade, StillStarting
      <3> QED BY <3>1, <3>2
    <2>4. ASSUME NEW s \in Starts, StreamFailed(s) PROVE MonitorInv'
      <3>1. CASE StillStarting(s)
        BY <2>4, <3>1 DEF StreamFailed, StillStarting
      <3>2. CASE ~StillStarting(s)
        BY <2>4, <3>2 DEF StreamFailed, StillStarting
      <3> QED BY <3>1, <3>2
    <2>5. ASSUME NEW s \in Starts, StreamDiscarded(s) PROVE MonitorInv'
      BY <2>5 DEF StreamDiscarded
    <2>6. ASSUME NEW s \in Starts, SignalTaskCreated(s) PROVE MonitorInv'
      BY <2>6 DEF SignalTaskCreated
    <2>7. ASSUME NEW s \in Starts, FailureReported(s) PROVE MonitorInv'
      BY <2>7 DEF FailureReported
    <2>8. ASSUME NEW s \in Starts, ReadSignal(s) PROVE MonitorInv'
      <3>1. Head(queue[s]) \in {"change", "recovery"}
        BY <2>8 DEF ReadSignal
      <3>2. /\ reader' = [reader EXCEPT ![s] = IF s \in cancelled THEN "ended"
                                                                  ELSE Head(queue[s])]
            /\ reader[s] = "reading"
            /\ UNCHANGED <<ownVars, callVars, cancelled, live>>
        BY <2>8 DEF ReadSignal
      <3>3. reader'[s] \in {"ended", "change", "recovery"}
            /\ \A t \in Starts \ {s} : reader'[t] = reader[t]
        BY <3>1, <3>2
      <3> QED BY <3>2, <3>3
    <2>9. ASSUME NEW s \in Starts, ReadEnd(s) PROVE MonitorInv'
      BY <2>9 DEF ReadEnd
    <2>10. ASSUME NEW s \in Starts, ReceiveChange(s) PROVE MonitorInv'
      BY <2>10 DEF ReceiveChange, Current
    <2>11. ASSUME NEW s \in Starts, SignalForwarded(s) PROVE MonitorInv'
      BY <2>11 DEF SignalForwarded
    <2>12. ASSUME NEW s \in Starts, EnterRecovery(s) PROVE MonitorInv'
      BY <2>12 DEF EnterRecovery, Current
    <2>13. ASSUME NEW s \in Starts, RecoveringReported(s) PROVE MonitorInv'
      <3>1. CASE stream # None
        BY <2>13, <3>1 DEF RecoveringReported
      <3>2. CASE stream = None
        BY <2>13, <3>2 DEF RecoveringReported
      <3> QED BY <3>1, <3>2
    <2>14. ASSUME NEW s \in Starts, RecoveryStoppedStream(s) PROVE MonitorInv'
      BY <2>14 DEF RecoveryStoppedStream
    <2>15. ASSUME NEW s \in Starts, Overflow(s) PROVE MonitorInv'
      BY <2>15 DEF Overflow
    <2>16. ASSUME NEW x \in Stops, StopCalled(x) PROVE MonitorInv'
      <3>1. CASE Halt(x) /\ stream # None
        BY <2>16, <3>1 DEF Halt, StopCalled
      <3>2. CASE Halt(x) /\ stream = None
        BY <2>16, <3>2 DEF Halt, Stopped, StopCalled
      <3>3. CASE /\ state \in {"stopped", "stopping"}
                 /\ step' = [step EXCEPT ![x] = "done"]
                 /\ UNCHANGED <<ownVars, startGeneration, target, readerVars, streamVars>>
        <4>1. step[x] = "idle" /\ \A c \in (Starts \union Stops) \ {x} : step'[c] = step[c]
          BY <2>16, <3>3 DEF StopCalled
        <4>2. x \notin Starts /\ step'[x] = "done"
          BY <3>3
        <4> QED BY <3>3, <4>1, <4>2
      <3>4. CASE /\ state = "watching" /\ state' = "stopping"
                 /\ step' = [step EXCEPT ![x] = "reportStopping"]
                 /\ UNCHANGED <<generation, stream, accessToken, signalTask, startGeneration,
                               target, readerVars, streamVars>>
        <4>1. step[x] = "idle" /\ \A c \in (Starts \union Stops) \ {x} : step'[c] = step[c]
          BY <2>16, <3>4 DEF StopCalled
        <4>2. x \notin Starts /\ step'[x] = "reportStopping"
          BY <3>4
        <4> QED BY <3>4, <4>1, <4>2
      <3> QED BY <2>16, <3>1, <3>2, <3>3, <3>4 DEF StopCalled
    <2>17. ASSUME NEW x \in Stops, StoppingReported(x) PROVE MonitorInv'
      <3>1. CASE Halt(x) /\ stream # None
        BY <2>17, <3>1 DEF Halt, StoppingReported
      <3>2. CASE Halt(x) /\ stream = None
        BY <2>17, <3>2 DEF Halt, Stopped, StoppingReported
      <3> QED BY <2>17, <3>1, <3>2 DEF StoppingReported
    <2>18. ASSUME NEW x \in Stops, StreamStopped(x) PROVE MonitorInv'
      BY <2>18 DEF StreamStopped, Halt, Stopped
    <2>19. ASSUME NEW x \in Stops, StoppedReported(x) PROVE MonitorInv'
      BY <2>19 DEF StoppedReported, Halt, Stopped
    <2>20. ASSUME NEW s \in Starts, NEW kind \in {"change", "recovery"}, Emit(s, kind)
          PROVE  MonitorInv'
      BY <2>20 DEF Emit
    <2>21. CASE UNCHANGED vars
      BY <2>21 DEF vars
    <2> HIDE DEF MonitorInv, TypeOK
    <2> QED BY <2>1, <2>2, <2>3, <2>4, <2>5, <2>6, <2>7, <2>8, <2>9, <2>10, <2>11, <2>12, <2>13, <2>14, <2>15, <2>16, <2>17, <2>18, <2>19, <2>20, <2>21
            DEF Next, StartStep, StopStep, ReaderStep
  <1> QED BY <1>1, <1>2, MonitorTypeCorrect, UnstartedAlwaysIdle, PTL DEF Spec

(* The parts of it that a run checks, each on its own.                      *)
THEOREM StreamIsNeverForgotten == Spec => []StreamOwned
  <1>1. (StartedOnce => MonitorInv) => StreamOwned
    BY DEF MonitorInv, StreamOwned
  <1> QED BY <1>1, MonitorKeepsItsResources, PTL

(* A monitor that claims to watch holds its stream and its folder access.  *)
THEOREM WatchingAlwaysHasSource == Spec => []WatchingHasSource
  <1>1. (StartedOnce => MonitorInv) => WatchingHasSource
    BY DEF MonitorInv, WatchingHasSource
  <1> QED BY <1>1, MonitorKeepsItsResources, PTL

(* A step that begins to forward a change is the signal task's of a start  *)
(* that is still current, so that the change is of the stream the monitor  *)
(* holds, however stops and recoveries interleave with the task.           *)
THEOREM OnlyCurrentStreamForwarded == Spec => ForwardsCurrentStream
  <1>1. ASSUME TypeOK, StartedOnce => MonitorInv, [Next]_vars, StartedOnce,
               NEW s \in Starts, UnstartedInv(s), reader[s] # "forwarding", reader'[s] = "forwarding"
        PROVE  stream = s
    <2> USE DEF TypeOK
    <2>1. ReceiveChange(s)
      <3>1. reader' # reader
        BY <1>1
      <3>2. ~UNCHANGED vars
        BY <3>1 DEF vars
      <3>3. PICK t \in Starts : ReaderStep(t) \/ StartStep(t)
        BY <1>1, <3>1, <3>2 DEF Next, StartCalled, Overflow, Emit, StopCalled, StopStep,
              StoppingReported, StreamStopped, StoppedReported, Halt
      <3>4. ~StartStep(t)
        BY <1>1 DEF StartStep, StartingReported, StreamMade, StreamFailed, StreamDiscarded,
              SignalTaskCreated, FailureReported, ReaderSteps
      <3>5. ~ReadSignal(t)
        <4> SUFFICES ASSUME ReadSignal(t) PROVE FALSE
          OBVIOUS
        <4>1. queue[t] \in Seq({"change", "recovery"}) /\ queue[t] # <<>>
          BY <1>1 DEF ReadSignal
        <4>2. Head(queue[t]) # "forwarding"
          BY <4>1
        <4>3. PICK kind : kind # "forwarding" /\ reader' = [reader EXCEPT ![t] = kind]
          BY <4>2 DEF ReadSignal
        <4>4. reader \in [Starts -> ReaderSteps]
          BY <1>1
        <4> HIDE DEF TypeOK
        <4> QED BY <1>1, <4>3, <4>4
      <3>6. ~(\/ ReadEnd(t) \/ SignalForwarded(t) \/ EnterRecovery(t) \/ RecoveringReported(t)
              \/ RecoveryStoppedStream(t))
        BY <1>1 DEF ReadEnd, SignalForwarded, EnterRecovery, RecoveringReported,
              RecoveryStoppedStream
      <3>7. ReceiveChange(t)
        BY <3>3, <3>4, <3>5, <3>6 DEF ReaderStep
      <3>8. s = t
        BY <1>1, <3>7 DEF ReceiveChange
      <3> QED BY <3>7, <3>8
    <2>2. Current(s)
      BY <1>1, <2>1 DEF ReceiveChange
    <2>3. stream # None /\ Started(stream)
      BY <1>1, <2>2 DEF Current, MonitorInv
    <2>4. Started(s)
      BY <1>1, <2>1 DEF ReceiveChange, UnstartedInv
    <2> QED BY <1>1, <2>3, <2>4 DEF StartedOnce, Started
  <1>2. /\ TypeOK /\ (StartedOnce => MonitorInv) /\ (\A s \in Starts : UnstartedInv(s))
        /\ [Next]_vars
        => [StartedOnce => \A s \in Starts :
              reader[s] # "forwarding" /\ reader'[s] = "forwarding" => stream = s]_vars
    BY <1>1
  <1> QED BY <1>2, MonitorTypeCorrect, MonitorKeepsItsResources, UnstartedAlwaysIdle, PTL
      DEF Spec, ForwardsCurrentStream

(* All a run checks of its resources: a monitor that was started once      *)
(* keeps its types, forgets no stream, watches only with its stream and    *)
(* its folder access, and holds neither when it has stopped or failed or   *)
(* when its recovery is over.                                              *)
THEOREM MonitorIsSafe == Spec => [](StartedOnce => MonitorSafety)
  <1>1. MonitorInv => HoldsNothingAtRest
    BY DEF MonitorInv, HoldsNothingAtRest
  <1>2. TypeOK /\ StreamOwned /\ WatchingHasSource /\ HoldsNothingAtRest => MonitorSafety
    BY DEF MonitorSafety
  <1> QED BY <1>1, <1>2, MonitorKeepsItsResources, MonitorTypeCorrect, StreamIsNeverForgotten,
             WatchingAlwaysHasSource, PTL
------------------------------------------------------------------------------
(* The file event stream: its native stream is released once, a loss is    *)
(* the last thing reported, and it implements SignalStream.                *)
HIDE DEF ownVars, callVars, readerVars, streamVars, Goto, ReaderGoto, CancelSignalTask
USE StreamConstants

AllCallers == Callers \union {OverflowStop}

(* What a callback has still to emit is never a report of a loss.          *)
CallbackSignals == [kind : {"change", "recovery"}, sequence : 1 .. MaxEvents]

Types == StreamTypeOK /\ callback \in Seq(CallbackSignals)

(* The length and the type of a buffer after an append and after a         *)
(* removal.                                                                *)
LEMMA BufferSteps ==
    ASSUME NEW s \in Seq(Signals), NEW x \in Signals
    PROVE  /\ Append(s, x) \in Seq(Signals) /\ Len(Append(s, x)) = Len(s) + 1
           /\ s # <<>> => /\ Tail(s) \in Seq(Signals) /\ Len(Tail(s)) = Len(s) - 1
                          /\ Head(s) \in Signals
  OBVIOUS

(* The signals of one callback are of its events.                          *)
LEMMA EventSignalsTyped ==
    ASSUME NEW n \in 1 .. MaxEvents, NEW s \in EventSignals(n)
    PROVE  s \in Seq(CallbackSignals) /\ \A i \in DOMAIN s : s[i].sequence = n
  <1> DEFINE r == Sig("recovery", n)
             c == Sig("change", n)
  <1>1. r \in CallbackSignals /\ c \in CallbackSignals /\ r.sequence = n /\ c.sequence = n
    BY DEF Sig, CallbackSignals
  <1>2. s = <<>> \/ s = <<r>> \/ s = <<c>> \/ s = <<c, c>>
    BY DEF EventSignals
  <1> HIDE DEF r, c
  <1>3. CASE s = <<>>
    BY <1>3
  <1>4. CASE s = <<r>>
    BY <1>1, <1>4
  <1>5. CASE s = <<c>>
    BY <1>1, <1>5
  <1>6. CASE s = <<c, c>>
    BY <1>1, <1>6
  <1> QED BY <1>2, <1>3, <1>4, <1>5, <1>6

(* A callback's signals are signals the buffer may hold.                   *)
LEMMA CallbackSignalsAreSignals == \A s \in Seq(CallbackSignals) : s \in Seq(Signals)
  <1>1. CallbackSignals \subseteq Signals
    BY DEF CallbackSignals, Signals, Kinds
  <1> QED BY <1>1

(* What a step keeps: the types and, of the buffer, the capacity.          *)
LEMMA StreamKeepsTypes == ASSUME Types, [StreamNext]_eventStreamVars PROVE Types'
  <1> USE DEF Types, StreamTypeOK, nativeVars, callbackVars, bufferVars
  <1>1. CASE Receive
    <2>1. CASE event < MaxEvents /\ event' = event + 1 /\ callback' \in EventSignals(event + 1)
      <3>1. event + 1 \in 1 .. MaxEvents
        BY <2>1
      <3>2. callback' \in Seq(CallbackSignals)
        BY <2>1, <3>1, EventSignalsTyped
      <3>3. callback' \in Seq(Signals)
        BY <3>2, CallbackSignalsAreSignals
      <3> QED BY <1>1, <3>1, <3>2, <3>3 DEF Receive
    <2>2. CASE /\ event + 1 < MaxEvents /\ event' = event + 2
               /\ \E a \in EventSignals(event + 1), b \in EventSignals(event + 2) : callback' = a \o b
      <3>1. PICK a \in EventSignals(event + 1), b \in EventSignals(event + 2) : callback' = a \o b
        BY <2>2
      <3>2. event + 1 \in 1 .. MaxEvents /\ event + 2 \in 1 .. MaxEvents
        BY <2>2
      <3>3. a \in Seq(CallbackSignals) /\ b \in Seq(CallbackSignals)
        BY <3>2, EventSignalsTyped
      <3>4. callback' \in Seq(CallbackSignals)
        BY <3>1, <3>3
      <3>5. callback' \in Seq(Signals)
        BY <3>4, CallbackSignalsAreSignals
      <3> QED BY <1>1, <2>2, <3>2, <3>4, <3>5 DEF Receive
    <2> QED BY <1>1, <2>1, <2>2 DEF Receive
  <1>2. CASE Accepted
    <2>1. Head(callback) \in CallbackSignals /\ Tail(callback) \in Seq(CallbackSignals)
      BY <1>2 DEF Accepted
    <2>2. Head(callback) \in Signals /\ Tail(callback) \in Seq(Signals)
      BY <1>2 DEF Accepted
    <2> QED BY <1>2, <2>1, <2>2, BufferSteps DEF Accepted
  <1>3. CASE Dropped
    <2>1. Head(callback) \in Signals /\ buffer # <<>>
      BY <1>3 DEF Dropped
    <2>2. Head(callback).sequence \in 1 .. MaxEvents
      BY <2>1 DEF Signals
    <2> QED BY <1>3, <2>1, <2>2, BufferSteps DEF Dropped
  <1>4. CASE Overflowed
    <2>1. Sig("eventsDropped", yielding) \in Signals
      BY <1>4 DEF Overflowed, Sig, Signals, Kinds, NoOverflow
    <2>2. LastSignals(yielding) \in Seq(Signals) /\ Len(LastSignals(yielding)) <= Capacity
      <3>1. CASE Len(buffer) = Capacity
        <4>1. LastSignals(yielding) = Append(Tail(buffer), Sig("eventsDropped", yielding))
          BY <3>1 DEF LastSignals
        <4>2. buffer # <<>>
          BY <3>1
        <4> QED BY <2>1, <3>1, <4>1, <4>2, BufferSteps
      <3>2. CASE Len(buffer) # Capacity
        <4>1. LastSignals(yielding) = Append(buffer, Sig("eventsDropped", yielding))
          BY <3>2 DEF LastSignals
        <4> QED BY <2>1, <3>2, <4>1, BufferSteps
      <3> QED BY <3>1, <3>2
    <2>3. buffer' \in Seq(Signals) /\ Len(buffer') <= Capacity
      BY <1>4, <2>2 DEF Overflowed
    <2>4. /\ stopStep' = [stopStep EXCEPT ![OverflowStop] = "queued"]
          /\ isFinished' = TRUE /\ yielding' = 0 /\ callback' = <<>>
          /\ UNCHANGED <<nativeStream, releases, stopped, event, terminated, read>>
      BY <1>4 DEF Overflowed, NoOverflow
    <2> QED BY <2>3, <2>4
  <1>5. CASE Refused
    BY <1>5 DEF Refused
  <1>6. ASSUME NEW c \in Callers \union {OverflowStop}, Take(c) \/ Release(c) \/ Finish(c)
        PROVE  Types'
    <2>1. CASE Take(c)
      BY <2>1 DEF Take
    <2>2. CASE Release(c)
      BY <2>2 DEF Release
    <2>3. CASE Finish(c)
      BY <2>3 DEF Finish
    <2> QED BY <1>6, <2>1, <2>2, <2>3
  <1>7. CASE Read
    <2>1. Head(buffer) \in Signals
      BY <1>7 DEF Read
    <2> QED BY <1>7, <2>1, BufferSteps DEF Read
  <1>8. CASE ReaderCancelled
    BY <1>8 DEF ReaderCancelled
  <1>9. CASE UNCHANGED eventStreamVars
    BY <1>9 DEF eventStreamVars
  <1> QED BY <1>1, <1>2, <1>3, <1>4, <1>5, <1>6, <1>7, <1>8, <1>9 DEF StreamNext, CallbackStep

(* Every variable keeps its type; the buffer stays within its capacity.    *)
LEMMA StreamTypes == StreamSpec => []Types
  <1>1. StreamInit => Types
    <2>1. <<>> \in Seq(Signals) /\ <<>> \in Seq(CallbackSignals) /\ Len(<<>>) = 0
      OBVIOUS
    <2> SUFFICES ASSUME StreamInit PROVE Types
      OBVIOUS
    <2>2. /\ callback = <<>> /\ buffer = <<>> /\ read = <<>>
          /\ yielding = 0 /\ event = 0 /\ releases = 0
          /\ stopped = FALSE /\ isFinished = FALSE /\ terminated = FALSE /\ nativeStream = "held"
      BY DEF StreamInit, NoOverflow
    <2>3. stopStep \in [Callers \union {OverflowStop} ->
                            {"idle", "queued", "release", "finish", "done"}]
      BY DEF StreamInit
    <2>4. Len(buffer) <= Capacity
      BY <2>1, <2>2
    <2>5. yielding \in 0 .. MaxEvents /\ event \in 0 .. MaxEvents /\ releases \in Nat
      BY <2>2
    <2>6. callback \in Seq(Signals) /\ buffer \in Seq(Signals) /\ read \in Seq(Signals)
          /\ callback \in Seq(CallbackSignals)
      BY <2>1, <2>2
    <2> QED BY <2>2, <2>3, <2>4, <2>5, <2>6 DEF Types, StreamTypeOK
  <1>2. Types /\ [StreamNext]_eventStreamVars => Types'
    BY StreamKeepsTypes
  <1> QED BY <1>1, <1>2, PTL DEF StreamSpec

(* Every variable of the stream keeps its type, for every capacity and     *)
(* every number of events.                                                 *)
THEOREM StreamTypeCorrect == StreamSpec => []StreamTypeOK
  BY StreamTypes, PTL DEF Types
-------------------------------------------------------------------------------
(* The native stream is in the hands of the one stop that took it.         *)
OneStopReleases ==
    /\ stopped <=> nativeStream # "held"
    /\ \A c, d \in AllCallers : stopStep[c] = "release" /\ stopStep[d] = "release" => c = d
    /\ \A c \in AllCallers : stopStep[c] = "release" => nativeStream = "taken"
    /\ releases = IF nativeStream = "released" THEN 1 ELSE 0

(* However many stops run at once, by the monitor, by a recovery and after *)
(* an overflow, one of them releases the native stream, once.              *)
THEOREM StreamReleasedOnce == StreamSpec => []ReleasedOnce
  <1>1. StreamInit => OneStopReleases
    BY DEF StreamInit, OneStopReleases, AllCallers
  <1>2. StreamTypeOK /\ OneStopReleases /\ [StreamNext]_eventStreamVars => OneStopReleases'
    <2> SUFFICES ASSUME StreamTypeOK, OneStopReleases, [StreamNext]_eventStreamVars PROVE OneStopReleases'
      OBVIOUS
    <2> USE DEF OneStopReleases, AllCallers
    <2>0. stopStep \in [AllCallers -> {"idle", "queued", "release", "finish", "done"}]
      BY DEF StreamTypeOK
    <2>1. ASSUME NEW c \in AllCallers, Take(c) PROVE OneStopReleases'
      <3>1. CASE stopped
        BY <2>0, <2>1, <3>1 DEF Take
      <3>2. CASE ~stopped
        <4>1. /\ stopStep' = [stopStep EXCEPT ![c] = "release"]
              /\ nativeStream' = "taken" /\ stopped' = TRUE /\ releases' = releases
          BY <2>1, <3>2 DEF Take
        <4>2. nativeStream = "held" /\ \A d \in AllCallers : stopStep[d] # "release"
          BY <3>2
        <4> QED BY <2>0, <4>1, <4>2
      <3> QED BY <3>1, <3>2
    <2>2. ASSUME NEW c \in AllCallers, Release(c) PROVE OneStopReleases'
      BY <2>0, <2>2 DEF Release
    <2>3. ASSUME NEW c \in AllCallers, Finish(c) PROVE OneStopReleases'
      BY <2>0, <2>3 DEF Finish
    <2>4. CASE Overflowed
      BY <2>0, <2>4 DEF Overflowed
    <2>5. CASE Receive \/ Accepted \/ Dropped \/ Refused \/ Read \/ ReaderCancelled \/ UNCHANGED eventStreamVars
      BY <2>5 DEF Receive, Accepted, Dropped, Refused, Read, ReaderCancelled, eventStreamVars, nativeVars
    <2> QED BY <2>1, <2>2, <2>3, <2>4, <2>5 DEF StreamNext, CallbackStep
  <1>3. StreamTypeOK /\ OneStopReleases => ReleasedOnce
    BY DEF StreamTypeOK, OneStopReleases, ReleasedOnce
  <1> QED BY <1>1, <1>2, <1>3, StreamTypeCorrect, PTL DEF StreamSpec
-------------------------------------------------------------------------------
(* How buffers change, element by element.                                 *)
LEMMA BufferElements ==
    ASSUME NEW s \in Seq(Signals), NEW x \in Signals
    PROVE  /\ \A i \in DOMAIN Append(s, x) : Append(s, x)[i] = IF i = Len(s) + 1 THEN x ELSE s[i]
           /\ DOMAIN Append(s, x) = 1 .. Len(s) + 1
           /\ DOMAIN s = 1 .. Len(s) /\ Len(s) \in Nat
           /\ s # <<>> => /\ DOMAIN Tail(s) = 1 .. Len(s) - 1
                          /\ \A i \in DOMAIN Tail(s) : Tail(s)[i] = s[i + 1]
                          /\ Head(s) = s[1] /\ 1 \in DOMAIN s
  OBVIOUS

(* The empty buffer is the one of length zero.                             *)
LEMMA EmptyHasNoLength == \A s \in Seq(Signals) : s = <<>> <=> Len(s) = 0
  OBVIOUS

NoLoss(s) == \A i \in DOMAIN s : s[i].kind # "eventsDropped"

LossLast(s) ==
    /\ s # <<>> /\ s[Len(s)].kind = "eventsDropped"
    /\ \A i \in 1 .. Len(s) - 1 : s[i].kind # "eventsDropped"

(* Where the report of a loss may be: nowhere, or last in the buffer, or   *)
(* last of what was read.  There is one from the overflow on, when the     *)
(* stream is finished for good.                                            *)
LossInv ==
    /\ terminated => buffer = <<>>
    /\ yielding # NoOverflow => ~isFinished
    /\ ~isFinished => stopStep[OverflowStop] = "idle"
    /\ stopStep[OverflowStop] = "idle" => NoLoss(read) /\ NoLoss(buffer)
    /\ stopStep[OverflowStop] # "idle" /\ ~terminated =>
           \/ NoLoss(read) /\ LossLast(buffer)
           \/ buffer = <<>> /\ LossLast(read)
    /\ terminated => NoLoss(read) \/ LossLast(read)

(* What an append and a removal do to where a loss is reported.            *)
LEMMA LossSteps ==
    ASSUME NEW s \in Seq(Signals), NEW x \in Signals
    PROVE  /\ NoLoss(s) /\ x.kind # "eventsDropped" => NoLoss(Append(s, x))
           /\ NoLoss(s) /\ x.kind = "eventsDropped" => LossLast(Append(s, x))
           /\ s # <<>> /\ NoLoss(s) => NoLoss(Tail(s)) /\ Head(s).kind # "eventsDropped"
           /\ s # <<>> /\ LossLast(s) =>
                  \/ Tail(s) = <<>> /\ Head(s).kind = "eventsDropped"
                  \/ LossLast(Tail(s)) /\ Head(s).kind # "eventsDropped"
  <1> USE DEF NoLoss, LossLast
  <1>1. /\ NoLoss(s) /\ x.kind # "eventsDropped" => NoLoss(Append(s, x))
        /\ NoLoss(s) /\ x.kind = "eventsDropped" => LossLast(Append(s, x))
    BY BufferElements, BufferSteps
  <1>2. s # <<>> /\ NoLoss(s) => NoLoss(Tail(s)) /\ Head(s).kind # "eventsDropped"
    BY BufferElements
  <1>3. ASSUME s # <<>>, LossLast(s), Len(s) = 1
        PROVE  Tail(s) = <<>> /\ Head(s).kind = "eventsDropped"
    <2>1. Tail(s) \in Seq(Signals) /\ Len(Tail(s)) = 0
      BY <1>3, BufferSteps
    <2>2. Head(s) = s[Len(s)]
      BY <1>3, BufferElements
    <2> QED BY <1>3, <2>1, <2>2, EmptyHasNoLength
  <1>4. ASSUME s # <<>>, LossLast(s), Len(s) # 1
        PROVE  LossLast(Tail(s)) /\ Head(s).kind # "eventsDropped"
    <2>1. Tail(s) \in Seq(Signals) /\ Len(Tail(s)) = Len(s) - 1
      BY <1>4, BufferSteps
    <2>2. Len(s) \in Nat /\ Len(s) > 1
      <3>1. Len(s) \in Nat /\ Len(s) # 0
        BY <1>4, EmptyHasNoLength
      <3>2. \A n \in Nat : n # 0 /\ n # 1 => n > 1
        OBVIOUS
      <3>3. Len(s) # 1
        BY <1>4
      <3> QED BY <3>1, <3>2, <3>3
    <2>3. /\ \A i \in 1 .. Len(s) - 1 : Tail(s)[i] = s[i + 1]
          /\ Head(s) = s[1]
      BY <1>4, BufferElements
    <2>5. Len(Tail(s)) > 0 /\ Len(Tail(s)) \in 1 .. Len(s) - 1
      <3>1. \A n \in Nat : n > 1 => n - 1 > 0 /\ n - 1 \in 1 .. n - 1
        OBVIOUS
      <3> QED BY <2>1, <2>2, <3>1
    <2>6. Tail(s) # <<>>
      <3> DEFINE rest == Tail(s)
      <3>1. rest \in Seq(Signals) /\ Len(rest) # 0
        BY <2>1, <2>5
      <3> HIDE DEF rest
      <3>2. rest # <<>>
        BY <3>1, EmptyHasNoLength
      <3> QED BY <3>2 DEF rest
    <2>7. Tail(s)[Len(Tail(s))] = s[Len(s)]
      <3>1. Tail(s)[Len(Tail(s))] = s[Len(Tail(s)) + 1]
        BY <2>1, <2>3, <2>5
      <3>2. Len(Tail(s)) + 1 = Len(s)
        BY <2>1, <2>2
      <3> QED BY <3>1, <3>2
    <2>4. \A i \in 1 .. Len(Tail(s)) - 1 : Tail(s)[i].kind # "eventsDropped"
      BY <1>4, <2>1, <2>2, <2>3
    <2> QED BY <1>4, <2>1, <2>2, <2>3, <2>4, <2>6, <2>7
  <1> QED BY <1>1, <1>2, <1>3, <1>4

(* What a callback emits next is a change or a recovery with a number.     *)
LEMMA HeadOfCallback ==
    ASSUME Types, callback # <<>>
    PROVE  /\ Head(callback) \in Signals /\ Head(callback).kind \in {"change", "recovery"}
           /\ Head(callback).sequence \in 1 .. MaxEvents
  <1>1. callback \in Seq(CallbackSignals)
    BY DEF Types
  <1>2. Head(callback) \in CallbackSignals
    BY <1>1
  <1> QED BY <1>2 DEF CallbackSignals, Signals, Kinds

(* The signals an overflow leaves end with the report of the loss.         *)
LEMMA LossStepsTwice ==
    ASSUME Types, yielding # NoOverflow, NoLoss(buffer)
    PROVE  LossLast(LastSignals(yielding))
  <1>1. Sig("eventsDropped", yielding) \in Signals /\ Sig("eventsDropped", yielding).kind = "eventsDropped"
    BY DEF Types, StreamTypeOK, Sig, Signals, Kinds, NoOverflow
  <1>2. buffer \in Seq(Signals) /\ Capacity # 0
    BY DEF Types, StreamTypeOK
  <1>3. CASE Len(buffer) = Capacity
    <2>1. buffer # <<>>
      BY <1>2, <1>3
    <2>2. NoLoss(Tail(buffer)) /\ Tail(buffer) \in Seq(Signals)
      BY <1>1, <1>2, <2>1, LossSteps, BufferSteps
    <2>3. LastSignals(yielding) = Append(Tail(buffer), Sig("eventsDropped", yielding))
      BY <1>3 DEF LastSignals
    <2> QED BY <1>1, <2>2, <2>3, LossSteps
  <1>4. CASE Len(buffer) # Capacity
    <2>1. LastSignals(yielding) = Append(buffer, Sig("eventsDropped", yielding))
      BY <1>4 DEF LastSignals
    <2> QED BY <1>1, <1>2, <2>1, LossSteps
  <1> QED BY <1>3, <1>4

(* A loss is reported nowhere, last in the buffer, or last of what was     *)
(* read.                                                                   *)
LEMMA LossIsLast == StreamSpec => []LossInv
  <1>1. StreamInit => LossInv
    BY DEF StreamInit, LossInv, NoLoss
  <1>2. Types /\ LossInv /\ [StreamNext]_eventStreamVars => LossInv'
    <2> SUFFICES ASSUME Types, LossInv, [StreamNext]_eventStreamVars PROVE LossInv'
      OBVIOUS
    <2> USE DEF LossInv
    <2>0. /\ stopStep \in [AllCallers -> {"idle", "queued", "release", "finish", "done"}]
          /\ OverflowStop \in AllCallers /\ buffer \in Seq(Signals) /\ read \in Seq(Signals)
      BY DEF Types, StreamTypeOK, AllCallers
    <2>1. CASE Accepted
      <3>1. Head(callback) \in Signals /\ Head(callback).kind # "eventsDropped"
        BY <2>1, HeadOfCallback DEF Accepted
      <3>2. NoLoss(buffer) => NoLoss(Append(buffer, Head(callback)))
        BY <2>0, <3>1, LossSteps
      <3> QED BY <2>1, <3>2 DEF Accepted, nativeVars
    <2>2. CASE Dropped
      <3>1. Head(callback) \in Signals /\ Head(callback).kind # "eventsDropped"
        BY <2>2, HeadOfCallback DEF Dropped
      <3>2. buffer # <<>> /\ Tail(buffer) \in Seq(Signals)
        BY <2>0, <2>2, BufferSteps, <3>1 DEF Dropped
      <3>3. NoLoss(buffer) => NoLoss(Append(Tail(buffer), Head(callback)))
        BY <2>0, <3>1, <3>2, LossSteps
      <3> QED BY <2>2, <3>3 DEF Dropped, nativeVars
    <2>3. CASE Overflowed
      <3>1. stopStep' = [stopStep EXCEPT ![OverflowStop] = "queued"] /\ isFinished' /\ yielding' = NoOverflow
        BY <2>3 DEF Overflowed
      <3>2. UNCHANGED <<terminated, read>>
        BY <2>3 DEF Overflowed
      <3>3. NoLoss(read) /\ NoLoss(buffer)
        BY <2>3 DEF Overflowed
      <3>4. CASE terminated
        BY <2>0, <2>3, <3>1, <3>2, <3>3, <3>4 DEF Overflowed
      <3>5. CASE ~terminated
        <4>1. LossLast(buffer')
          BY <2>3, <3>3, <3>5, LossStepsTwice DEF Overflowed
        <4> QED BY <2>0, <3>1, <3>2, <3>3, <3>5, <4>1
      <3> QED BY <3>4, <3>5
    <2>4. CASE Refused
      BY <2>4 DEF Refused, nativeVars
    <2>5. ASSUME NEW c \in AllCallers, Take(c) \/ Release(c) \/ Finish(c) PROVE LossInv'
      <3>1. stopStep'[OverflowStop] = "idle" <=> stopStep[OverflowStop] = "idle"
        <4>1. CASE c = OverflowStop
          BY <2>0, <2>5, <4>1 DEF Take, Release, Finish, MayStop
        <4>2. CASE c # OverflowStop
          BY <2>0, <2>5, <4>2 DEF Take, Release, Finish
        <4> QED BY <4>1, <4>2
      <3>2. UNCHANGED <<buffer, read, terminated, yielding>>
        BY <2>5 DEF Take, Release, Finish, callbackVars, bufferVars
      <3>3. isFinished' = isFinished \/ (isFinished' = TRUE /\ yielding = NoOverflow)
        BY <2>5 DEF Take, Release, Finish, bufferVars
      <3> QED BY <3>1, <3>2, <3>3
    <2>6. CASE Read
      <3>1. /\ buffer # <<>> /\ read' = Append(read, Head(buffer)) /\ buffer' = Tail(buffer)
            /\ UNCHANGED <<stopStep, yielding, isFinished, terminated>>
        BY <2>6 DEF Read, nativeVars, callbackVars
      <3>2. Head(buffer) \in Signals
        BY <2>0, <3>1, BufferSteps
      <3>3. /\ NoLoss(read) /\ NoLoss(buffer) => NoLoss(read') /\ NoLoss(buffer')
            /\ NoLoss(read) /\ LossLast(buffer) =>
                   \/ NoLoss(read') /\ LossLast(buffer')
                   \/ buffer' = <<>> /\ LossLast(read')
        BY <2>0, <3>1, <3>2, LossSteps
      <3> QED BY <3>1, <3>3
    <2>7. CASE ReaderCancelled
      <3>1. /\ ~terminated /\ terminated' = TRUE /\ buffer' = <<>>
            /\ UNCHANGED <<stopStep, yielding, isFinished, read>>
        BY <2>7 DEF ReaderCancelled, nativeVars, callbackVars
      <3>2. NoLoss(<<>>)
        BY DEF NoLoss
      <3> QED BY <3>1, <3>2
    <2>8. CASE Receive \/ UNCHANGED eventStreamVars
      BY <2>8 DEF Receive, eventStreamVars, nativeVars, callbackVars, bufferVars
    <2> QED BY <2>1, <2>2, <2>3, <2>4, <2>5, <2>6, <2>7, <2>8 DEF StreamNext, CallbackStep, AllCallers
  <1> QED BY <1>1, <1>2, StreamTypes, PTL DEF StreamSpec

(* A loss is reported, as the last signal, to a reader that stays; and     *)
(* nothing but a loss is.                                                  *)
LEMMA LossReported ==
    ASSUME Types, LossInv
    PROVE  LossIsReportedLast
  <1> DEFINE signals == read \o buffer
  <1>1. buffer \in Seq(Signals) /\ read \in Seq(Signals)
    BY DEF Types, StreamTypeOK
  <1>2. /\ signals \in Seq(Signals) /\ Len(signals) = Len(read) + Len(buffer)
        /\ \A i \in 1 .. Len(signals) :
               signals[i] = IF i <= Len(read) THEN read[i] ELSE buffer[i - Len(read)]
    BY <1>1
  <1>3. Last(signals) = signals[Len(signals)]
    BY DEF Last
  <1>4. ASSUME NoLoss(read), NoLoss(buffer)
        PROVE  \A i \in 1 .. Len(signals) - 1 : signals[i].kind # "eventsDropped"
    BY <1>1, <1>2, <1>4 DEF NoLoss
  <1>5. ASSUME NoLoss(read), LossLast(buffer)
        PROVE  /\ signals # <<>> /\ signals[Len(signals)].kind = "eventsDropped"
               /\ \A i \in 1 .. Len(signals) - 1 : signals[i].kind # "eventsDropped"
    <2>1. Len(buffer) > 0
      BY <1>1, <1>5 DEF LossLast
    <2>2. signals[Len(signals)] = buffer[Len(buffer)]
      BY <1>1, <1>2, <2>1
    <2> QED BY <1>1, <1>2, <1>5, <2>1, <2>2 DEF NoLoss, LossLast
  <1>6. ASSUME LossLast(read), buffer = <<>>
        PROVE  /\ signals # <<>> /\ signals[Len(signals)].kind = "eventsDropped"
               /\ \A i \in 1 .. Len(signals) - 1 : signals[i].kind # "eventsDropped"
    <2>1. signals = read
      BY <1>1, <1>6
    <2> QED BY <1>6, <2>1 DEF LossLast
  <1> HIDE DEF signals
  <1>7. /\ stopStep[OverflowStop] # "idle" /\ ~terminated =>
              signals # <<>> /\ Last(signals).kind = "eventsDropped"
        /\ \A i \in 1 .. Len(signals) - 1 : signals[i].kind # "eventsDropped"
    <2>1. CASE stopStep[OverflowStop] = "idle"
      BY <1>4, <2>1 DEF LossInv
    <2>2. CASE ~terminated /\ stopStep[OverflowStop] # "idle"
      BY <1>3, <1>5, <1>6, <2>2 DEF LossInv
    <2>3. CASE terminated
      <3>1. buffer = <<>> /\ NoLoss(buffer)
        BY <2>3 DEF LossInv, NoLoss
      <3> QED BY <1>4, <1>6, <2>3, <3>1 DEF LossInv
    <2> QED BY <2>1, <2>2, <2>3
  <1> QED BY <1>7 DEF LossIsReportedLast, signals

(* The types, the release and the report of a loss, for every capacity,    *)
(* every number of events and every set of callers.                        *)
THEOREM StreamInvariant == StreamSpec => []StreamInv
  <1>1. Types /\ LossInv /\ ReleasedOnce => StreamInv
    BY LossReported DEF Types, StreamInv
  <1> QED BY <1>1, StreamTypes, LossIsLast, StreamReleasedOnce, PTL
-------------------------------------------------------------------------------
(* The order of the signals.  What the reader took or finds in the buffer  *)
(* is no newer than what the callback has still to emit.                   *)
Given(x) ==
    \/ \E i \in DOMAIN read : x = read[i]
    \/ \E i \in DOMAIN buffer : x = buffer[i]

OrderInv ==
    /\ \A i, j \in DOMAIN callback : i <= j => callback[i].sequence <= callback[j].sequence
    /\ \A i \in DOMAIN callback : callback[i].sequence <= event
    /\ \A x : Given(x) => x.sequence <= event
    /\ \A x : Given(x) => \A i \in DOMAIN callback : x.sequence <= callback[i].sequence
    /\ \A x : Given(x) /\ yielding # NoOverflow => x.sequence <= yielding
    /\ yielding <= event

(* The number of a signal can be compared.                                 *)
LEMMA SequencesAreNumbers == \A x \in Signals : x.sequence \in Nat
  BY DEF Signals

(* An element of a buffer is a signal.                                     *)
LEMMA ElementsAreSignals == \A s \in Seq(Signals) : \A i \in DOMAIN s : s[i] \in Signals
  OBVIOUS

(* Whatever was given to the buffer is a signal.                           *)
LEMMA GivenSignals == ASSUME Types PROVE \A x : Given(x) => x \in Signals
  BY DEF Types, StreamTypeOK, Given

(* The concatenation of two sequences holds what either of them holds.     *)
LEMMA ConcatElements ==
    ASSUME NEW S, NEW a \in Seq(S), NEW b \in Seq(S)
    PROVE  /\ DOMAIN (a \o b) = 1 .. Len(a) + Len(b)
           /\ \A i \in DOMAIN (a \o b) :
                  \/ i \in DOMAIN a /\ (a \o b)[i] = a[i]
                  \/ i > Len(a) /\ i - Len(a) \in DOMAIN b /\ (a \o b)[i] = b[i - Len(a)]
  OBVIOUS

(* The signals of a callback: of one event, or of two that follow.         *)
LEMMA CallbackInOrder ==
    ASSUME Types, Receive
    PROVE  /\ event' \in Nat /\ event < event'
           /\ \A i \in DOMAIN callback' : event < callback'[i].sequence /\ callback'[i].sequence <= event'
           /\ \A i, j \in DOMAIN callback' : i <= j => callback'[i].sequence <= callback'[j].sequence
  <1>0. event \in 0 .. MaxEvents
    BY DEF Types, StreamTypeOK
  <1>1. CASE event < MaxEvents /\ event' = event + 1 /\ callback' \in EventSignals(event + 1)
    <2>1. event + 1 \in 1 .. MaxEvents
      BY <1>0, <1>1
    <2>2. \A i \in DOMAIN callback' : callback'[i].sequence = event + 1
      BY <1>1, <2>1, EventSignalsTyped
    <2> QED BY <1>0, <1>1, <2>2
  <1>2. CASE /\ event + 1 < MaxEvents /\ event' = event + 2
             /\ \E a \in EventSignals(event + 1), b \in EventSignals(event + 2) : callback' = a \o b
    <2>1. PICK a \in EventSignals(event + 1), b \in EventSignals(event + 2) : callback' = a \o b
      BY <1>2
    <2>2. event + 1 \in 1 .. MaxEvents /\ event + 2 \in 1 .. MaxEvents
      BY <1>0, <1>2
    <2>3. /\ a \in Seq(CallbackSignals) /\ \A i \in DOMAIN a : a[i].sequence = event + 1
          /\ b \in Seq(CallbackSignals) /\ \A i \in DOMAIN b : b[i].sequence = event + 2
      BY <2>2, EventSignalsTyped
    <2>4. \A i \in DOMAIN callback' :
              \/ i \in 1 .. Len(a) /\ callback'[i].sequence = event + 1
              \/ i > Len(a) /\ callback'[i].sequence = event + 2
      BY <2>1, <2>3, ConcatElements
    <2>5. Len(a) \in Nat /\ DOMAIN callback' \subseteq Nat
      BY <2>1, <2>3, ConcatElements
    <2>6. event \in Nat /\ event' = event + 2
      BY <1>0, <1>2
    <2>7. \A i \in DOMAIN callback' :
              event < callback'[i].sequence /\ callback'[i].sequence <= event'
      BY <2>4, <2>6
    <2>8. \A i, j \in DOMAIN callback' : i <= j => callback'[i].sequence <= callback'[j].sequence
      BY <2>4, <2>5, <2>6
    <2> QED BY <2>6, <2>7, <2>8
  <1> QED BY <1>1, <1>2 DEF Receive

(* Nothing that is to be emitted is older than what was, in every state.   *)
LEMMA SignalsInOrder == StreamSpec => []OrderInv
  <1>1. StreamInit => OrderInv
    BY DEF StreamInit, OrderInv, Given, NoOverflow
  <1>2. Types /\ OrderInv /\ [StreamNext]_eventStreamVars => OrderInv'
    <2> SUFFICES ASSUME Types, OrderInv, [StreamNext]_eventStreamVars PROVE OrderInv'
      OBVIOUS
    <2>0. /\ callback \in Seq(Signals) /\ buffer \in Seq(Signals) /\ read \in Seq(Signals)
          /\ event \in Nat /\ yielding \in Nat /\ Capacity # 0
      BY DEF Types, StreamTypeOK
    <2>00. /\ \A x : Given(x) => x.sequence \in Nat
           /\ \A i \in DOMAIN callback : callback[i].sequence \in Nat
      BY <2>0, GivenSignals, SequencesAreNumbers, ElementsAreSignals
    <2>1. CASE Receive
      <3>1. UNCHANGED <<read, buffer, yielding>> /\ yielding = NoOverflow
        BY <2>1 DEF Receive, QueueIdle, bufferVars
      <3>2. \A x : Given(x)' <=> Given(x)
        BY <3>1 DEF Given
      <3>3. /\ event' \in Nat /\ event < event'
            /\ \A i \in DOMAIN callback' :
                   event < callback'[i].sequence /\ callback'[i].sequence <= event'
            /\ \A i, j \in DOMAIN callback' : i <= j => callback'[i].sequence <= callback'[j].sequence
        BY <2>1, CallbackInOrder
      <3>4. \A i \in DOMAIN callback' : callback'[i].sequence \in Nat
        <4>1. callback' \in Seq(Signals)
          BY StreamKeepsTypes DEF Types, StreamTypeOK
        <4> QED BY <4>1, SequencesAreNumbers, ElementsAreSignals
      <3> QED BY <2>0, <2>00, <3>1, <3>2, <3>3, <3>4 DEF OrderInv, NoOverflow
    <2>2. CASE Accepted \/ Dropped
      <3>1. /\ callback # <<>> /\ yielding = NoOverflow
            /\ event' = event /\ read' = read
        BY <2>2 DEF Accepted, Dropped
      <3>2. Head(callback) = callback[1] /\ 1 \in DOMAIN callback /\ Head(callback) \in Signals
        BY <2>0, <3>1
      <3>3. \A x : Given(x)' => Given(x) \/ x = Head(callback)
        <4>1. CASE Accepted
          <5>1. buffer' = Append(buffer, Head(callback))
            BY <4>1 DEF Accepted
          <5>2. \A i \in DOMAIN buffer' : \/ i \in DOMAIN buffer /\ buffer'[i] = buffer[i]
                                          \/ buffer'[i] = Head(callback)
            BY <2>0, <3>2, <5>1, BufferElements
          <5> QED BY <3>1, <5>2 DEF Given
        <4>2. CASE Dropped
          <5>1. buffer' = Append(Tail(buffer), Head(callback)) /\ buffer # <<>>
            BY <2>0, <4>2 DEF Dropped
          <5>2. Tail(buffer) \in Seq(Signals)
            BY <2>0, <5>1
          <5>3. \A i \in DOMAIN buffer' : \/ i \in DOMAIN Tail(buffer) /\ buffer'[i] = Tail(buffer)[i]
                                          \/ buffer'[i] = Head(callback)
            BY <3>2, <5>1, <5>2, BufferElements
          <5>4. \A i \in DOMAIN Tail(buffer) : i + 1 \in DOMAIN buffer /\ Tail(buffer)[i] = buffer[i + 1]
            BY <2>0, <5>1
          <5> QED BY <3>1, <5>3, <5>4 DEF Given
        <4> QED BY <2>2, <4>1, <4>2
      <3>4. \/ callback' = callback /\ yielding' = callback[1].sequence
            \/ callback' = Tail(callback) /\ yielding' = yielding
        BY <2>2, <3>2 DEF Accepted, Dropped
      <3>5. \A i \in DOMAIN callback' :
                \E j \in DOMAIN callback : callback'[i] = callback[j] /\ i <= j
        BY <2>0, <3>1, <3>4
      <3>6. \A x : Given(x)' => \A i \in DOMAIN callback' : x.sequence <= callback'[i].sequence
        <4> SUFFICES ASSUME NEW x, Given(x)', NEW i \in DOMAIN callback'
                     PROVE  x.sequence <= callback'[i].sequence
          OBVIOUS
        <4>1. PICK j \in DOMAIN callback : callback'[i] = callback[j]
          BY <3>5
        <4>2. 1 <= j
          BY <2>0
        <4> QED BY <3>2, <3>3, <4>1, <4>2 DEF OrderInv
      <3>7. \A i, j \in DOMAIN callback' : i <= j => callback'[i].sequence <= callback'[j].sequence
        <4>1. CASE callback' = callback
          BY <4>1 DEF OrderInv
        <4>2. CASE callback' = Tail(callback)
          <5>1. \A i \in DOMAIN callback' : i + 1 \in DOMAIN callback /\ callback'[i] = callback[i + 1]
                                            /\ i \in Nat
            BY <2>0, <3>1, <4>2
          <5> QED BY <5>1 DEF OrderInv
        <4> QED BY <3>4, <4>1, <4>2
      <3>8. \A i \in DOMAIN callback' : callback'[i].sequence <= event
        BY <3>5 DEF OrderInv
      <3>9. \A x : Given(x)' => x.sequence <= event
        BY <3>2, <3>3 DEF OrderInv
      <3>10. \A x : Given(x)' /\ yielding' # NoOverflow => x.sequence <= yielding'
        <4>1. CASE yielding' = yielding
          BY <3>1, <4>1
        <4>2. CASE yielding' = callback[1].sequence
          BY <2>00, <3>2, <3>3, <4>2 DEF OrderInv
        <4> QED BY <3>4, <4>1, <4>2
      <3>11. yielding' <= event
        BY <3>2, <3>4 DEF OrderInv
      <3> QED BY <3>1, <3>6, <3>7, <3>8, <3>9, <3>10, <3>11 DEF OrderInv
    <2>3. CASE Overflowed
      <3> DEFINE loss == Sig("eventsDropped", yielding)
      <3>1. /\ yielding # NoOverflow /\ callback' = <<>> /\ yielding' = NoOverflow
            /\ event' = event /\ read' = read
            /\ buffer' = IF terminated THEN buffer ELSE LastSignals(yielding)
        BY <2>3 DEF Overflowed
      <3>2. loss \in Signals /\ loss.sequence = yielding
        BY <3>1 DEF Sig, Signals, Kinds, Types, StreamTypeOK, NoOverflow
      <3> HIDE DEF loss
      <3>3. \A x : Given(x)' => Given(x) \/ x = loss
        <4>1. CASE terminated
          BY <3>1, <4>1 DEF Given
        <4>2. CASE ~terminated /\ Len(buffer) = Capacity
          <5>1. buffer' = Append(Tail(buffer), loss) /\ buffer # <<>>
            BY <2>0, <3>1, <4>2 DEF LastSignals, loss
          <5>2. Tail(buffer) \in Seq(Signals)
            BY <2>0, <5>1
          <5>3. \A i \in DOMAIN buffer' : \/ i \in DOMAIN Tail(buffer) /\ buffer'[i] = Tail(buffer)[i]
                                          \/ buffer'[i] = loss
            BY <3>2, <5>1, <5>2, BufferElements
          <5>4. \A i \in DOMAIN Tail(buffer) : i + 1 \in DOMAIN buffer /\ Tail(buffer)[i] = buffer[i + 1]
            BY <2>0, <5>1
          <5> QED BY <3>1, <5>3, <5>4 DEF Given
        <4>3. CASE ~terminated /\ Len(buffer) # Capacity
          <5>1. buffer' = Append(buffer, loss)
            BY <3>1, <4>3 DEF LastSignals, loss
          <5>2. \A i \in DOMAIN buffer' : \/ i \in DOMAIN buffer /\ buffer'[i] = buffer[i]
                                          \/ buffer'[i] = loss
            BY <2>0, <3>2, <5>1, BufferElements
          <5> QED BY <3>1, <5>2 DEF Given
        <4> QED BY <4>1, <4>2, <4>3
      <3>4. \A x : Given(x)' => x.sequence <= event
        BY <3>2, <3>3 DEF OrderInv
      <3>5. DOMAIN callback' = {}
        BY <3>1
      <3>6. 0 <= event
        BY <2>0
      <3> QED BY <3>1, <3>4, <3>5, <3>6 DEF OrderInv, NoOverflow
    <2>4. CASE Refused
      <3>1. callback' = <<>> /\ UNCHANGED <<buffer, read, yielding, event>>
        BY <2>4 DEF Refused
      <3>2. \A x : Given(x)' <=> Given(x)
        BY <3>1 DEF Given
      <3>3. DOMAIN callback' = {}
        BY <3>1
      <3> QED BY <3>1, <3>2, <3>3 DEF OrderInv
    <2>5. CASE Read
      <3>1. /\ buffer # <<>> /\ read' = Append(read, Head(buffer)) /\ buffer' = Tail(buffer)
            /\ UNCHANGED <<callback, yielding, event>>
        BY <2>5 DEF Read, callbackVars
      <3>2. Head(buffer) = buffer[1] /\ 1 \in DOMAIN buffer /\ Head(buffer) \in Signals
        BY <2>0, <3>1
      <3>3. \A i \in DOMAIN buffer' : i + 1 \in DOMAIN buffer /\ buffer'[i] = buffer[i + 1]
        BY <2>0, <3>1
      <3>4. \A i \in DOMAIN read' : \/ i \in DOMAIN read /\ read'[i] = read[i]
                                    \/ read'[i] = buffer[1]
        BY <2>0, <3>1, <3>2, BufferElements
      <3>5. \A x : Given(x)' => Given(x)
        BY <3>2, <3>3, <3>4 DEF Given
      <3> QED BY <3>1, <3>5 DEF OrderInv
    <2>6. CASE ReaderCancelled
      <3>1. buffer' = <<>> /\ UNCHANGED <<read, callback, yielding, event>>
        BY <2>6 DEF ReaderCancelled, callbackVars
      <3>2. \A x : Given(x)' => Given(x)
        BY <3>1 DEF Given
      <3> QED BY <3>1, <3>2 DEF OrderInv
    <2>7. ASSUME UNCHANGED <<read, buffer, callback, yielding, event>> PROVE OrderInv'
      <3>1. \A x : Given(x)' <=> Given(x)
        BY <2>7 DEF Given
      <3> QED BY <2>7, <3>1 DEF OrderInv
    <2>8. ASSUME NEW c \in AllCallers, Take(c) \/ Release(c) \/ Finish(c) PROVE OrderInv'
      BY <2>7, <2>8 DEF Take, Release, Finish, callbackVars, bufferVars
    <2>9. CASE UNCHANGED eventStreamVars
      BY <2>7, <2>9 DEF eventStreamVars, callbackVars, bufferVars
    <2> QED BY <2>1, <2>2, <2>3, <2>4, <2>5, <2>6, <2>8, <2>9 DEF StreamNext, CallbackStep, AllCallers
  <1> QED BY <1>1, <1>2, StreamTypes, PTL DEF StreamSpec
-------------------------------------------------------------------------------
(* The refinement mapping, by name, and its steps.                         *)
IsOpen == ~isFinished /\ ~terminated

IsOwed == yielding # NoOverflow /\ ~terminated

NoNewer(s) == \A x : Given(x) => x.sequence <= s.sequence

(* A signal that is not older than any given before it is in the order     *)
(* that SignalStream asks for.                                             *)
LEMMA InOrderOfGiven ==
    ASSUME Types, NEW s, NoNewer(s)
    PROVE  Abstract!InOrder(s)
  <1> SUFFICES ASSUME NEW earlier \in Abstract!ToSet(read \o buffer) PROVE Given(earlier)
    BY DEF NoNewer, Abstract!InOrder
  <1>1. read \in Seq(Signals) /\ buffer \in Seq(Signals)
    BY DEF Types, StreamTypeOK
  <1>2. PICK i \in DOMAIN (read \o buffer) : earlier = (read \o buffer)[i]
    BY DEF Abstract!ToSet
  <1> QED BY <1>1, <1>2, ConcatElements DEF Given

(* The changes of the buffer that are steps of SignalStream.               *)
LEMMA AbstractSteps ==
    ASSUME Types
    PROVE  /\ UNCHANGED <<IsOpen, IsOwed, buffer, read>> => UNCHANGED Abstract!vars
           /\ \A s \in CallbackSignals :
                  IsOpen /\ ~IsOwed /\ NoNewer(s) /\ buffer' = Append(buffer, s)
                    /\ UNCHANGED <<IsOpen, IsOwed, read>>
                      => Abstract!Add
           /\ \A s \in CallbackSignals :
                  IsOpen /\ ~IsOwed /\ IsOwed' /\ NoNewer(s) /\ buffer' = Append(Tail(buffer), s)
                    /\ UNCHANGED <<IsOpen, read>>
                      => Abstract!Lose
           /\ \A s \in CallbackSignals, first \in {1, 2} :
                  IsOwed /\ ~IsOwed' /\ ~IsOpen' /\ NoNewer(s)
                    /\ buffer' = Append(SubSeq(buffer, first, Len(buffer)),
                                        Sig("eventsDropped", s.sequence))
                    /\ UNCHANGED read
                      => Abstract!Report
           /\ buffer # <<>> /\ read' = Append(read, Head(buffer)) /\ buffer' = Tail(buffer)
                /\ UNCHANGED <<IsOpen, IsOwed>>
                  => Abstract!Read
           /\ IsOpen /\ ~IsOwed /\ ~IsOpen' /\ UNCHANGED <<IsOwed, buffer, read>> => Abstract!Close
           /\ ~IsOpen' /\ ~IsOwed' /\ buffer' = <<>> /\ UNCHANGED read => Abstract!Abandon
  <1> USE DEF IsOpen, IsOwed
  <1>1. UNCHANGED <<IsOpen, IsOwed, buffer, read>> => UNCHANGED Abstract!vars
    BY DEF Abstract!vars
  <1>2. ASSUME NEW s \in CallbackSignals, IsOpen, ~IsOwed, NoNewer(s), buffer' = Append(buffer, s),
               UNCHANGED <<IsOpen, IsOwed, read>>
        PROVE  Abstract!Add
    BY <1>2, InOrderOfGiven DEF Abstract!Add, CallbackSignals
  <1>3. ASSUME NEW s \in CallbackSignals, IsOpen, ~IsOwed, IsOwed', NoNewer(s),
               buffer' = Append(Tail(buffer), s), UNCHANGED <<IsOpen, read>>
        PROVE  Abstract!Lose
    BY <1>3, InOrderOfGiven DEF Abstract!Lose, CallbackSignals
  <1>4. ASSUME NEW s \in CallbackSignals, NEW first \in {1, 2}, IsOwed, ~IsOwed', ~IsOpen', NoNewer(s),
               buffer' = Append(SubSeq(buffer, first, Len(buffer)), Sig("eventsDropped", s.sequence)),
               UNCHANGED read
        PROVE  Abstract!Report
    BY <1>4, InOrderOfGiven DEF Abstract!Report, CallbackSignals
  <1>5. buffer # <<>> /\ read' = Append(read, Head(buffer)) /\ buffer' = Tail(buffer)
          /\ UNCHANGED <<IsOpen, IsOwed>>
            => Abstract!Read
    BY DEF Abstract!Read
  <1>6. IsOpen /\ ~IsOwed /\ ~IsOpen' /\ UNCHANGED <<IsOwed, buffer, read>> => Abstract!Close
    BY DEF Abstract!Close
  <1>7. ~IsOpen' /\ ~IsOwed' /\ buffer' = <<>> /\ UNCHANGED read => Abstract!Abandon
    BY DEF Abstract!Abandon
  <1> QED BY <1>1, <1>2, <1>3, <1>4, <1>5, <1>6, <1>7

(* Each step of the stream is a step of SignalStream, or invisible.        *)
LEMMA StreamStepImplements ==
    ASSUME Types, OrderInv, LossInv, [StreamNext]_eventStreamVars
    PROVE  [Abstract!Next]_(Abstract!vars)
  <1>0. /\ callback \in Seq(CallbackSignals) /\ buffer \in Seq(Signals)
        /\ isFinished \in BOOLEAN /\ terminated \in BOOLEAN
      BY DEF Types, StreamTypeOK
  <1>1. ASSUME UNCHANGED <<IsOpen, IsOwed, buffer, read>> PROVE [Abstract!Next]_(Abstract!vars)
    BY <1>1, AbstractSteps
  <1>2. ASSUME UNCHANGED <<isFinished, terminated, yielding, buffer, read>>
        PROVE  [Abstract!Next]_(Abstract!vars)
    BY <1>1, <1>2 DEF IsOpen, IsOwed
  <1>3. ASSUME callback # <<>>
        PROVE  /\ Head(callback) \in CallbackSignals
               /\ NoNewer(Head(callback))
               /\ Head(callback).sequence \in 1 .. MaxEvents
    <2>1. Head(callback) \in CallbackSignals /\ 1 \in DOMAIN callback /\ Head(callback) = callback[1]
      BY <1>0, <1>3
    <2>2. NoNewer(Head(callback))
      BY <2>1 DEF OrderInv, NoNewer
    <2> QED BY <2>1, <2>2 DEF CallbackSignals
  <1>4. CASE Accepted
    <2>1. /\ IsOpen /\ ~IsOwed /\ UNCHANGED <<IsOpen, IsOwed, read>>
          /\ buffer' = Append(buffer, Head(callback))
      BY <1>4 DEF Accepted, IsOpen, IsOwed
    <2>2. callback # <<>>
      BY <1>4 DEF Accepted
    <2>3. Abstract!Add
      BY <1>3, <2>1, <2>2, AbstractSteps
    <2> QED BY <2>3 DEF Abstract!Next
  <1>5. CASE Dropped
    <2>1. callback # <<>>
      BY <1>5 DEF Dropped
    <2>2. yielding' \in 1 .. MaxEvents
      BY <1>3, <1>5, <2>1 DEF Dropped
    <2>3. /\ IsOpen /\ ~IsOwed /\ IsOwed' /\ UNCHANGED <<IsOpen, read>>
          /\ buffer' = Append(Tail(buffer), Head(callback))
      BY <1>5, <2>2 DEF Dropped, IsOpen, IsOwed, NoOverflow
    <2>4. Abstract!Lose
      BY <1>3, <2>1, <2>3, AbstractSteps
    <2> QED BY <2>4 DEF Abstract!Next
  <1>6. CASE Overflowed
    <2>1. /\ yielding # NoOverflow /\ yielding' = NoOverflow /\ isFinished'
          /\ UNCHANGED <<terminated, read>>
          /\ buffer' = IF terminated THEN buffer ELSE LastSignals(yielding)
      BY <1>6 DEF Overflowed
    <2>2. CASE terminated
      BY <1>1, <2>1, <2>2 DEF IsOpen, IsOwed
    <2>3. CASE ~terminated
      <3> DEFINE s == Sig("change", yielding)
      <3>1. yielding \in 1 .. MaxEvents
        BY <2>1 DEF Types, StreamTypeOK, NoOverflow
      <3>2. s \in CallbackSignals /\ s.sequence = yielding
        BY <3>1 DEF Sig, CallbackSignals
      <3>3. NoNewer(s)
        BY <2>1, <3>2 DEF OrderInv, NoNewer
      <3> HIDE DEF s
      <3>4. \E first \in {1, 2} :
                buffer' = Append(SubSeq(buffer, first, Len(buffer)), Sig("eventsDropped", s.sequence))
        <4>1. CASE Len(buffer) = Capacity
          <5>1. buffer' = Append(Tail(buffer), Sig("eventsDropped", s.sequence))
            BY <2>1, <2>3, <3>2, <4>1 DEF LastSignals
          <5>2. Tail(buffer) = SubSeq(buffer, 2, Len(buffer))
            BY <1>0
          <5> QED BY <5>1, <5>2
        <4>2. CASE Len(buffer) # Capacity
          <5>1. buffer' = Append(buffer, Sig("eventsDropped", s.sequence))
            BY <2>1, <2>3, <3>2, <4>2 DEF LastSignals
          <5>2. buffer = SubSeq(buffer, 1, Len(buffer))
            BY <1>0
          <5> QED BY <5>1, <5>2
        <4> QED BY <4>1, <4>2
      <3>5. IsOwed /\ ~IsOwed' /\ ~IsOpen'
        BY <2>1, <2>3 DEF IsOpen, IsOwed
      <3>6. Abstract!Report
        BY <2>1, <3>2, <3>3, <3>4, <3>5, AbstractSteps
      <3> QED BY <3>6 DEF Abstract!Next
    <2> QED BY <2>2, <2>3
  <1>7. ASSUME isFinished' = TRUE, yielding = NoOverflow,
               UNCHANGED <<terminated, yielding, buffer, read>>
        PROVE  [Abstract!Next]_(Abstract!vars)
    <2>1. CASE isFinished \/ terminated
      BY <1>0, <1>1, <1>7, <2>1 DEF IsOpen, IsOwed
    <2>2. CASE ~isFinished /\ ~terminated
      <3>1. IsOpen /\ ~IsOwed /\ ~IsOpen' /\ UNCHANGED <<IsOwed, buffer, read>>
        BY <1>7, <2>2 DEF IsOpen, IsOwed
      <3>2. Abstract!Close
        BY <3>1, AbstractSteps
      <3> QED BY <3>2 DEF Abstract!Next
    <2> QED BY <2>1, <2>2
  <1>8. CASE Refused
    BY <1>7, <1>8 DEF Refused
  <1>9. ASSUME NEW c \in AllCallers, Take(c) \/ Release(c) \/ Finish(c)
        PROVE  [Abstract!Next]_(Abstract!vars)
    <2>1. CASE Finish(c)
      BY <1>7, <2>1 DEF Finish, callbackVars
    <2>2. CASE Take(c) \/ Release(c)
      BY <1>2, <2>2 DEF Take, Release, callbackVars, bufferVars
    <2> QED BY <1>9, <2>1, <2>2
  <1>10. CASE Read
    <2>1. /\ buffer # <<>> /\ read' = Append(read, Head(buffer)) /\ buffer' = Tail(buffer)
          /\ UNCHANGED <<IsOpen, IsOwed>>
      BY <1>10 DEF Read, IsOpen, IsOwed, callbackVars
    <2>2. Abstract!Read
      BY <2>1, AbstractSteps
    <2> QED BY <2>2 DEF Abstract!Next
  <1>11. CASE ReaderCancelled
    <2>1. ~IsOpen' /\ ~IsOwed' /\ buffer' = <<>> /\ UNCHANGED read
      BY <1>11 DEF ReaderCancelled, IsOpen, IsOwed
    <2>2. Abstract!Abandon
      BY <2>1, AbstractSteps
    <2> QED BY <2>2 DEF Abstract!Next
  <1>12. CASE Receive \/ UNCHANGED eventStreamVars
    BY <1>2, <1>12 DEF Receive, eventStreamVars, callbackVars, bufferVars
  <1> QED BY <1>4, <1>5, <1>6, <1>8, <1>9, <1>10, <1>11, <1>12 DEF StreamNext, CallbackStep, AllCallers

(* The stream implements SignalStream: whatever the interleaving of the    *)
(* callback, the stops, the reader and its cancellation, signals come in   *)
(* order, and a loss is followed by its report and by nothing else.        *)
THEOREM StreamImplementsSignals == StreamSpec => ImplementsSignalStream
  <1>1. StreamInit => Abstract!Init
    BY DEF StreamInit, Abstract!Init, NoOverflow
  <1>2. Types /\ OrderInv /\ LossInv /\ [StreamNext]_eventStreamVars => [Abstract!Next]_(Abstract!vars)
    BY StreamStepImplements
  <1> QED BY <1>1, <1>2, StreamTypes, SignalsInOrder, LossIsLast, PTL
          DEF StreamSpec, ImplementsSignalStream, Abstract!Spec
==============================================================================
