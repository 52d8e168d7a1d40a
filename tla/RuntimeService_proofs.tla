------------------------ MODULE RuntimeService_proofs ------------------------
(***************************************************************************)
(* Proofs about RuntimeService: every live monitor, every folder access    *)
(* and every pipeline that watches is in somebody's hands, and nothing of  *)
(* a disabled or removed project is monitored.                             *)
(***************************************************************************)
EXTENDS RuntimeService, TLAPS

USE ServiceConstants

Kinds == {"none"} \union RuntimeKinds \union MutationKinds

Operations == [kind : Kinds, step : Steps, id : Ids \union {NoSession}, answer : MonitoringStates]

OperationTypes ==
    /\ op \in [Slots -> Operations] /\ gates \subseteq Slots
    /\ \A s \in Slots : s \in gates <=> op[s] # Idle

Calls == [id : Ids, to : MonitoringStates, step : {"set", "read", "publish"},
          seen : MonitoringStates]

Batches == [number : 1 .. MaxBatches, id : Ids, seen : MonitoringStates,
            step : {"settled", "read", "publish"}]

DataTypes ==
    /\ project \in {"enabled", "disabled", "removed"}
    /\ asked \in 0 .. MaxOperations /\ settled \in 0 .. MaxBatches
    /\ session \in Ids \union {NoSession}
    /\ token \in [Ids -> {"none", "operation", "monitor", "released"}]
    /\ monitor \in [Ids -> MonitoringStates] /\ pipeline \in [Ids -> MonitoringStates]
    /\ recovery \in [Ids -> {"no", "called", "done"}]
    /\ calls \subseteq Calls /\ batches \subseteq Batches
    /\ updates \in Seq(MonitoringStates) /\ shown \in MonitoringStates

(* One operation at a time, whatever gate it is in.                        *)
SingleOperation == \A s, t \in Slots : op[s] # Idle /\ op[t] # Idle => s = t

StartSteps == {"startMonitoring", "resolve", "beginAccess", "resolveURL", "starting",
               "makeStream", "watching", "failing", "project"}

StopSteps == {"stopping", "stopStream", "stopped", "stopPipeline", "publishStop"}

(* What an operation relies on, from one await to the next: the session it *)
(* made or took out of the table, and that the project stays enabled.      *)
OperationInv(s) ==
    /\ op[s].kind \in {"none"} \union (IF s = "runtime" THEN RuntimeKinds ELSE MutationKinds)
    /\ op[s].step = "write" => s = "mutation"
    /\ op[s].step \in StartSteps => op[s].kind \in {"start", "retry"}
    /\ op[s].step \in StopSteps \union {"stopMonitoring"} => op[s].kind \in Stopping
    /\ op[s].kind \in {"start", "retry"} \/ op[s].step \in StopSteps => project = "enabled"
    /\ op[s].step \in {"resolve", "beginAccess", "resolveURL"} => session = NoSession
    /\ op[s].step = "resolveURL" => op[s].id \in Ids
    /\ op[s].step \in {"starting", "makeStream", "watching", "failing", "project"} =>
           op[s].id = session /\ session \in Ids
    /\ op[s].step \in StopSteps => session = NoSession /\ op[s].id \in Ids
    /\ op[s].step \in {"stopped", "stopPipeline", "publishStop"} =>
           monitor[op[s].id] = "stopped" /\ token[op[s].id] = "released"
    /\ op[s].step \in {"answered", "write"} /\ op[s].kind \in {"disable", "repair", "remove"} =>
           session = NoSession

SessionInv ==
    session # NoSession =>
        project = "enabled" /\ monitor[session] \in {"starting", "watching", "failed", "recovering"}

ControlInv ==
    /\ OperationTypes /\ DataTypes /\ SingleOperation
    /\ \A s \in Slots : OperationInv(s)
    /\ SessionInv

(* No session is none, and nobody operates in the beginning.               *)
LEMMA Constants ==
    /\ NoSession \notin Ids
    /\ Idle \in Operations /\ Idle.step = "idle" /\ Idle.kind = "none" /\ Idle.id = NoSession
  BY DEF Ids, NoSession, Idle, Operations, Kinds, Steps, MonitoringStates

(* The operation of a slot changes; the other slot's does not.             *)
Set(s, kind, step, id, answer) ==
    /\ op' \in [Slots -> Operations]
    /\ op'[s] = [kind |-> kind, step |-> step, id |-> id, answer |-> answer]
    /\ \A t \in Slots : t # s => op'[t] = op[t]

(* The ways in which the actions change an operation.                      *)
LEMMA OperationSteps ==
    ASSUME op \in [Slots -> Operations], NEW s \in Slots
    PROVE  /\ \A step \in Steps :
                  Go(s, step) => Set(s, op[s].kind, step, op[s].id, op[s].answer)
           /\ \A state \in MonitoringStates :
                  Answer(s, state) => Set(s, op[s].kind, "answered", op[s].id, state)
           /\ \A step \in Steps, i \in Ids \union {NoSession} :
                  /\ op' = [op EXCEPT ![s].step = step, ![s].id = i]
                         => Set(s, op[s].kind, step, i, op[s].answer)
                  /\ op' = [op EXCEPT ![s].id = i, ![s].step = step]
                         => Set(s, op[s].kind, step, i, op[s].answer)
           /\ op' = [op EXCEPT ![s] = Idle] => Set(s, "none", "idle", NoSession, "stopped")
           /\ \A kind \in Kinds, step \in Steps :
                  op' = [op EXCEPT ![s] = [Idle EXCEPT !.kind = kind, !.step = step]]
                      => Set(s, kind, step, NoSession, "stopped")
  <1> USE DEF Operations, Set
  <1>1. \A step \in Steps :
            Go(s, step) => Set(s, op[s].kind, step, op[s].id, op[s].answer)
    BY DEF Go
  <1>2. \A state \in MonitoringStates :
            Answer(s, state) => Set(s, op[s].kind, "answered", op[s].id, state)
    <2> SUFFICES ASSUME NEW state \in MonitoringStates, Answer(s, state)
                 PROVE  Set(s, op[s].kind, "answered", op[s].id, state)
      OBVIOUS
    <2>1. "answered" \in Steps
      BY DEF Steps
    <2>2. op' = [op EXCEPT ![s].step = "answered", ![s].answer = state]
      BY DEF Answer
    <2> QED BY <2>1, <2>2
  <1>3. \A step \in Steps, i \in Ids \union {NoSession} :
            op' = [op EXCEPT ![s].step = step, ![s].id = i]
                => Set(s, op[s].kind, step, i, op[s].answer)
    <2> SUFFICES ASSUME NEW step \in Steps, NEW i \in Ids \union {NoSession},
                        op' = [op EXCEPT ![s].step = step, ![s].id = i]
                 PROVE  Set(s, op[s].kind, step, i, op[s].answer)
      OBVIOUS
    <2> DEFINE first == [op EXCEPT ![s].step = step]
    <2>1. op[s] = [kind |-> op[s].kind, step |-> op[s].step, id |-> op[s].id, answer |-> op[s].answer]
      OBVIOUS
    <2>2. /\ op[s].kind \in Kinds /\ op[s].step \in Steps /\ op[s].id \in Ids \union {NoSession}
          /\ op[s].answer \in MonitoringStates
      OBVIOUS
    <2>3. first = [op EXCEPT ![s] = [kind |-> op[s].kind, step |-> step, id |-> op[s].id, answer |-> op[s].answer]]
      <3>1. first = [op EXCEPT ![s] = [op[s] EXCEPT !.step = step]]
        OBVIOUS
      <3>2. [op[s] EXCEPT !.step = step] = [kind |-> op[s].kind, step |-> step, id |-> op[s].id, answer |-> op[s].answer]
        BY <2>1
      <3> QED BY <3>1, <3>2
    <2>4. first \in [Slots -> Operations]
      BY <2>2, <2>3
    <2>5. op' = [first EXCEPT ![s].id = i]
      OBVIOUS
    <2>6. first[s] = [kind |-> op[s].kind, step |-> step, id |-> op[s].id, answer |-> op[s].answer]
      BY <2>3
    <2>7. \A t \in Slots : t # s => first[t] = op[t]
      BY <2>3
    <2> HIDE DEF first
    <2>8. op' = [first EXCEPT ![s] = [kind |-> op[s].kind, step |-> step, id |-> i, answer |-> op[s].answer]]
      <3>1. op' = [first EXCEPT ![s] = [first[s] EXCEPT !.id = i]]
        BY <2>5
      <3>2. [first[s] EXCEPT !.id = i] =
                [kind |-> op[s].kind, step |-> step, id |-> i, answer |-> op[s].answer]
        BY <2>6
      <3> QED BY <3>1, <3>2
    <2>9. op' \in [Slots -> Operations]
      <3>1. [kind |-> op[s].kind, step |-> step, id |-> i, answer |-> op[s].answer] \in Operations
        BY <2>2
      <3> HIDE DEF Operations, Set
      <3> QED BY <2>4, <2>8, <3>1
    <2> QED BY <2>4, <2>7, <2>8, <2>9
  <1>4. \A step \in Steps, i \in Ids \union {NoSession} :
            op' = [op EXCEPT ![s].id = i, ![s].step = step]
                => Set(s, op[s].kind, step, i, op[s].answer)
    <2> SUFFICES ASSUME NEW step \in Steps, NEW i \in Ids \union {NoSession},
                        op' = [op EXCEPT ![s].id = i, ![s].step = step]
                 PROVE  Set(s, op[s].kind, step, i, op[s].answer)
      OBVIOUS
    <2> DEFINE first == [op EXCEPT ![s].id = i]
    <2>1. op[s] = [kind |-> op[s].kind, step |-> op[s].step, id |-> op[s].id, answer |-> op[s].answer]
      OBVIOUS
    <2>2. /\ op[s].kind \in Kinds /\ op[s].step \in Steps /\ op[s].id \in Ids \union {NoSession}
          /\ op[s].answer \in MonitoringStates
      OBVIOUS
    <2>3. first = [op EXCEPT ![s] = [kind |-> op[s].kind, step |-> op[s].step, id |-> i, answer |-> op[s].answer]]
      <3>1. first = [op EXCEPT ![s] = [op[s] EXCEPT !.id = i]]
        OBVIOUS
      <3>2. [op[s] EXCEPT !.id = i] = [kind |-> op[s].kind, step |-> op[s].step, id |-> i, answer |-> op[s].answer]
        BY <2>1
      <3> QED BY <3>1, <3>2
    <2>4. first \in [Slots -> Operations]
      BY <2>2, <2>3
    <2>5. op' = [first EXCEPT ![s].step = step]
      OBVIOUS
    <2>6. first[s] = [kind |-> op[s].kind, step |-> op[s].step, id |-> i, answer |-> op[s].answer]
      BY <2>3
    <2>7. \A t \in Slots : t # s => first[t] = op[t]
      BY <2>3
    <2> HIDE DEF first
    <2>8. op' = [first EXCEPT ![s] = [kind |-> op[s].kind, step |-> step, id |-> i, answer |-> op[s].answer]]
      <3>1. op' = [first EXCEPT ![s] = [first[s] EXCEPT !.step = step]]
        BY <2>5
      <3>2. [first[s] EXCEPT !.step = step] =
                [kind |-> op[s].kind, step |-> step, id |-> i, answer |-> op[s].answer]
        BY <2>6
      <3> QED BY <3>1, <3>2
    <2>9. op' \in [Slots -> Operations]
      <3>1. [kind |-> op[s].kind, step |-> step, id |-> i, answer |-> op[s].answer] \in Operations
        BY <2>2
      <3> HIDE DEF Operations, Set
      <3> QED BY <2>4, <2>8, <3>1
    <2> QED BY <2>4, <2>7, <2>8, <2>9
  <1>5. op' = [op EXCEPT ![s] = Idle] => Set(s, "none", "idle", NoSession, "stopped")
    BY Constants DEF Idle
  <1>6. \A kind \in Kinds, step \in Steps :
            op' = [op EXCEPT ![s] = [Idle EXCEPT !.kind = kind, !.step = step]]
                => Set(s, kind, step, NoSession, "stopped")
    BY DEF Idle, MonitoringStates
  <1> QED BY <1>1, <1>2, <1>3, <1>4, <1>5, <1>6

(* The steps of the operations in flight.                                  *)
LEMMA InFlight ==
    ASSUME op \in [Slots -> Operations], NEW s \in Slots
    PROVE  /\ op[s] \in Operations /\ op[s].kind \in Kinds /\ op[s].step \in Steps
           /\ op[s].id \in Ids \union {NoSession} /\ op[s].answer \in MonitoringStates
           /\ op[s].step # "idle" => op[s] # Idle
  <1>1. op[s] \in Operations
    OBVIOUS
  <1> QED BY <1>1, Constants DEF Operations

(* A step of the operation in flight leaves the other slot idle.           *)
LEMMA OtherSlotIdle ==
    ASSUME OperationTypes, SingleOperation, NEW s \in Slots, op[s].step # "idle" \/ gates = {},
           NEW kind \in Kinds, NEW step \in Steps, NEW i \in Ids \union {NoSession},
           NEW answer \in MonitoringStates, Set(s, kind, step, i, answer)
    PROVE  /\ SingleOperation'
           /\ \A t \in Slots : t # s => op[t] = Idle /\ op'[t] = Idle /\ OperationInv(t)'
           /\ op'[s].kind = kind /\ op'[s].step = step /\ op'[s].id = i /\ op'[s].answer = answer
  <1>1. \A t \in Slots : t # s => op[t] = Idle
    BY InFlight DEF OperationTypes, SingleOperation
  <1>2. \A t \in Slots : t # s => op'[t] = Idle
    BY <1>1 DEF Set
  <1>3. SingleOperation'
    BY <1>2 DEF SingleOperation
  <1>4. \A t \in Slots : op'[t] = Idle => OperationInv(t)'
    BY Constants DEF OperationInv, StartSteps, StopSteps, Stopping
  <1> QED BY <1>1, <1>2, <1>3, <1>4 DEF Set

(* A step that keeps the operation in its gate, and one that ends it.      *)
LEMMA OperationGoesOn ==
    ASSUME OperationTypes, NEW s \in Slots, op[s].step # "idle",
           NEW kind \in Kinds, NEW step \in Steps, step # "idle", NEW i \in Ids \union {NoSession},
           NEW answer \in MonitoringStates, Set(s, kind, step, i, answer), UNCHANGED gates
    PROVE  OperationTypes'
  BY InFlight, Constants DEF OperationTypes, Set

(* An operation ends and leaves its gate.                                  *)
LEMMA OperationEnds ==
    ASSUME OperationTypes, NEW s \in Slots, op' = [op EXCEPT ![s] = Idle], gates' = gates \ {s}
    PROVE  OperationTypes'
  BY Constants DEF OperationTypes

(* What a monitor's change of state does to it and to its callbacks.       *)
LEMMA TransitionTypes ==
    ASSUME DataTypes, NEW i \in Ids, NEW state \in MonitoringStates, Transition(i, state)
    PROVE  /\ monitor' \in [Ids -> MonitoringStates] /\ calls' \subseteq Calls
           /\ monitor'[i] = state /\ \A j \in Ids : j # i => monitor'[j] = monitor[j]
           /\ calls' = calls \union {[id |-> i, to |-> state, step |-> "set", seen |-> state]}
  BY DEF DataTypes, Transition, Calls

(* A projection under way has its type.                                    *)
LEMMA PublishTypes ==
    ASSUME DataTypes, NEW state \in MonitoringStates, PublishProject(state)
    PROVE  updates' \in Seq(MonitoringStates)
  BY DEF DataTypes, PublishProject
-------------------------------------------------------------------------------
(* In the beginning nobody operates and there is no session.               *)
LEMMA ControlInitially == Init => ControlInv
  <1> SUFFICES ASSUME Init PROVE ControlInv
    OBVIOUS
  <1>1. op \in [Slots -> Operations] /\ \A s \in Slots : op[s] = Idle
    BY Constants DEF Init
  <1>2. OperationTypes /\ SingleOperation
    BY <1>1 DEF Init, OperationTypes, SingleOperation
  <1>3. \A s \in Slots : OperationInv(s)
    BY <1>1, Constants DEF OperationInv, StartSteps, StopSteps, Stopping
  <1>4. SessionInv
    BY DEF Init, SessionInv
  <1>5. DataTypes
    BY DEF Init, DataTypes, MonitoringStates
  <1> QED BY <1>2, <1>3, <1>4, <1>5 DEF ControlInv

(* The types the run checks follow.                                        *)
LEMMA TypesFromControl == ControlInv => TypeOK
  <1> SUFFICES ASSUME ControlInv PROVE TypeOK
    OBVIOUS
  <1>1. \A s \in Slots :
            /\ op[s].kind \in {"none"} \union RuntimeKinds \union MutationKinds
            /\ op[s].step \in Steps /\ op[s].id \in Ids \union {NoSession}
            /\ op[s].answer \in MonitoringStates
            /\ s \in gates <=> op[s] # Idle
    BY InFlight DEF ControlInv, OperationTypes, Kinds
  <1> QED BY <1>1 DEF ControlInv, OperationTypes, DataTypes, TypeOK, Calls, Batches

(* What is left to show of a step that keeps, or ends, an operation.       *)
LEMMA ControlGoesOn ==
    ASSUME ControlInv, NEW s \in Slots, op[s].step # "idle",
           NEW kind \in Kinds, NEW step \in Steps, step # "idle", NEW i \in Ids \union {NoSession},
           NEW answer \in MonitoringStates, Set(s, kind, step, i, answer), UNCHANGED gates,
           DataTypes', SessionInv', OperationInv(s)'
    PROVE  ControlInv'
  <1>1. OperationTypes' /\ SingleOperation' /\ \A t \in Slots : t # s => OperationInv(t)'
    BY OperationGoesOn, OtherSlotIdle DEF ControlInv
  <1> QED BY <1>1 DEF ControlInv

(* An operation that ends leaves the other's invariant alone.              *)
LEMMA ControlEnds ==
    ASSUME ControlInv, NEW s \in Slots, op[s].step # "idle",
           op' = [op EXCEPT ![s] = Idle], gates' = gates \ {s}, DataTypes', SessionInv'
    PROVE  ControlInv'
  <1>1. Set(s, "none", "idle", NoSession, "stopped")
    BY OperationSteps DEF ControlInv, OperationTypes
  <1>2. "none" \in Kinds /\ "idle" \in Steps /\ "stopped" \in MonitoringStates
    BY DEF Kinds, Steps, MonitoringStates
  <1>3. OperationTypes' /\ SingleOperation' /\ \A t \in Slots : t # s => OperationInv(t)'
    BY <1>1, <1>2, OperationEnds, OtherSlotIdle DEF ControlInv
  <1>4. op'[s].step = "idle" /\ op'[s].kind = "none"
    BY <1>1 DEF Set
  <1>5. OperationInv(s)'
    BY <1>4 DEF OperationInv, StartSteps, StopSteps, Stopping
  <1> QED BY <1>3, <1>5 DEF ControlInv

(* An operation that only moves on.                                        *)
LEMMA ControlMovesOn ==
    ASSUME ControlInv, NEW s \in Slots, op[s].step # "idle",
           NEW kind \in Kinds, NEW step \in Steps, step # "idle", NEW i \in Ids \union {NoSession},
           NEW answer \in MonitoringStates, Set(s, kind, step, i, answer),
           UNCHANGED <<appVars, session, monitorVars, pipeline, callbackVars>>,
           updates' = updates \/ \E state \in MonitoringStates : PublishProject(state),
           shown' \in MonitoringStates, OperationInv(s)'
    PROVE  ControlInv'
  <1>1. updates' \in Seq(MonitoringStates)
    BY PublishTypes DEF ControlInv, DataTypes
  <1>2. DataTypes' /\ SessionInv' /\ UNCHANGED gates
    BY <1>1 DEF ControlInv, DataTypes, SessionInv, appVars, monitorVars, callbackVars
  <1> QED BY <1>2, ControlGoesOn

(* startMonitoring() finds across each await what it relies on.            *)
LEMMA StartKeepsControl ==
    ASSUME ControlInv, NEW s \in Slots,
           \/ StartMonitoring(s) \/ Resolve(s) \/ BeginAccess(s) \/ ResolveURL(s)
           \/ StartingReturns(s) \/ MakeStream(s) \/ StartReturns(s) \/ Project(s)
    PROVE  ControlInv'
  <1> USE DEF At
  <1>0. /\ op \in [Slots -> Operations]
        /\ OperationInv(s) /\ op[s] \in Operations /\ op[s].kind \in Kinds
        /\ op[s].id \in Ids \union {NoSession} /\ op[s].answer \in MonitoringStates
        /\ DataTypes /\ SessionInv
    BY InFlight DEF ControlInv, OperationTypes
  <1>1. \A step \in {"resolve", "beginAccess", "resolveURL", "starting", "makeStream", "watching",
                     "failing", "project", "answered"} : step \in Steps /\ step # "idle"
    BY DEF Steps
  <1>2. {"stopped", "starting", "watching", "failed"} \subseteq MonitoringStates
    BY DEF MonitoringStates
  <1>3. ASSUME FailMonitoring(s), op[s].step \in StartSteps,
               UNCHANGED <<appVars, session, monitor, recovery, pipeline, callbackVars, shown>>,
               token' \in [Ids -> {"none", "operation", "monitor", "released"}]
        PROVE  ControlInv'
    <2>1. Set(s, op[s].kind, "answered", op[s].id, "failed")
      BY <1>0, <1>2, <1>3, OperationSteps DEF FailMonitoring
    <2>2. updates' \in Seq(MonitoringStates)
      BY <1>0, <1>2, <1>3, PublishTypes DEF FailMonitoring
    <2>3. DataTypes' /\ SessionInv' /\ UNCHANGED gates
      BY <1>0, <1>3, <2>2 DEF DataTypes, SessionInv, appVars, callbackVars
    <2>4. op'[s].step = "answered" /\ op'[s].kind = op[s].kind /\ op[s].kind \in {"start", "retry"}
      BY <1>0, <1>3, <2>1 DEF Set, OperationInv
    <2>5. OperationInv(s)'
      BY <1>0, <1>3, <2>4 DEF OperationInv, StartSteps, StopSteps, appVars
    <2>6. op[s].step # "idle"
      BY <1>3 DEF StartSteps
    <2> QED BY <1>0, <1>1, <1>2, <2>1, <2>3, <2>5, <2>6, ControlGoesOn
  <1>4. CASE StartMonitoring(s)
    <2>1. CASE session # NoSession /\ op' = [op EXCEPT ![s].step = "project", ![s].id = session]
                 /\ UNCHANGED updates
      <3>1. Set(s, op[s].kind, "project", session, op[s].answer) /\ session \in Ids
        BY <1>0, <1>1, <2>1, OperationSteps DEF DataTypes
      <3>2. /\ op'[s].step = "project" /\ op'[s].kind = op[s].kind /\ op'[s].id = session
            /\ op[s].step = "startMonitoring" /\ UNCHANGED <<project, session>>
        BY <1>4, <3>1 DEF Set, StartMonitoring, appVars
      <3>3. OperationInv(s)'
        BY <1>0, <3>1, <3>2 DEF OperationInv, StartSteps, StopSteps
      <3>4. shown' \in MonitoringStates /\ UNCHANGED <<appVars, session, monitorVars, pipeline, callbackVars>>
        BY <1>0, <1>4 DEF StartMonitoring, DataTypes
      <3> QED BY <1>0, <1>1, <2>1, <3>1, <3>2, <3>3, <3>4, ControlMovesOn
    <2>2. CASE session = NoSession /\ Go(s, "resolve") /\ PublishProject("starting")
      <3>1. Set(s, op[s].kind, "resolve", op[s].id, op[s].answer)
        BY <1>0, <1>1, <2>2, OperationSteps
      <3>2. /\ op'[s].step = "resolve" /\ op'[s].kind = op[s].kind
            /\ op[s].step = "startMonitoring" /\ UNCHANGED <<project, session>>
        BY <1>4, <3>1 DEF Set, StartMonitoring, appVars
      <3>3. OperationInv(s)'
        BY <1>0, <2>2, <3>2 DEF OperationInv, StartSteps, StopSteps
      <3>4. shown' \in MonitoringStates /\ UNCHANGED <<appVars, session, monitorVars, pipeline, callbackVars>>
        BY <1>0, <1>4 DEF StartMonitoring, DataTypes
      <3> QED BY <1>0, <1>1, <1>2, <2>2, <3>1, <3>2, <3>3, <3>4, ControlMovesOn
    <2> QED BY <1>4, <2>1, <2>2 DEF StartMonitoring
  <1>5. CASE Resolve(s)
    <2>1. CASE Go(s, "beginAccess") /\ UNCHANGED updates
      <3>1. Set(s, op[s].kind, "beginAccess", op[s].id, op[s].answer)
        BY <1>0, <1>1, <2>1, OperationSteps
      <3>2. /\ op'[s].step = "beginAccess" /\ op'[s].kind = op[s].kind
            /\ op[s].step = "resolve" /\ UNCHANGED <<project, session>>
        BY <1>5, <3>1 DEF Set, Resolve, appVars
      <3>3. OperationInv(s)'
        BY <1>0, <3>2 DEF OperationInv, StartSteps, StopSteps
      <3>4. shown' \in MonitoringStates /\ UNCHANGED <<appVars, session, monitorVars, pipeline, callbackVars>>
        BY <1>0, <1>5 DEF Resolve, DataTypes
      <3> QED BY <1>0, <1>1, <2>1, <3>1, <3>2, <3>3, <3>4, ControlMovesOn
    <2>2. CASE FailMonitoring(s)
      <3>1. /\ UNCHANGED <<appVars, session, monitor, recovery, pipeline, callbackVars, shown, token>>
            /\ op[s].step \in StartSteps
        BY <1>5 DEF Resolve, monitorVars, StartSteps
      <3> QED BY <1>0, <1>3, <2>2, <3>1 DEF DataTypes
    <2> QED BY <1>5, <2>1, <2>2 DEF Resolve
  <1>6. CASE BeginAccess(s)
    <2>1. ASSUME NEW i \in Ids, token' = [token EXCEPT ![i] = "operation"],
                 op' = [op EXCEPT ![s].step = "resolveURL", ![s].id = i], UNCHANGED updates
          PROVE  ControlInv'
      <3>1. Set(s, op[s].kind, "resolveURL", i, op[s].answer)
        BY <1>0, <1>1, <2>1, OperationSteps
      <3>2. /\ op'[s].step = "resolveURL" /\ op'[s].kind = op[s].kind /\ op'[s].id = i
            /\ op[s].step = "beginAccess" /\ UNCHANGED <<appVars, session, monitor>>
        BY <1>6, <3>1 DEF Set, BeginAccess
      <3>3. OperationInv(s)'
        BY <1>0, <2>1, <3>2 DEF OperationInv, StartSteps, StopSteps, appVars
      <3>4. DataTypes'
        BY <1>0, <1>6, <2>1 DEF BeginAccess, DataTypes, appVars, callbackVars
      <3>5. SessionInv' /\ UNCHANGED gates
        BY <1>0, <3>2 DEF SessionInv, appVars
      <3> QED BY <1>0, <1>1, <3>1, <3>2, <3>3, <3>4, <3>5, ControlGoesOn
    <2>2. CASE FailMonitoring(s) /\ UNCHANGED token
      <3>1. /\ UNCHANGED <<appVars, session, monitor, recovery, pipeline, callbackVars, shown>>
            /\ op[s].step \in StartSteps
        BY <1>6 DEF BeginAccess, StartSteps
      <3> QED BY <1>0, <1>3, <2>2, <3>1 DEF DataTypes
    <2> QED BY <1>6, <2>1, <2>2 DEF BeginAccess
  <1>7. CASE ResolveURL(s)
    <2>0. op[s].step = "resolveURL" /\ op[s].id \in Ids /\ session = NoSession
      BY <1>0, <1>7 DEF ResolveURL, OperationInv
    <2>1. CASE /\ session' = op[s].id /\ token' = [token EXCEPT ![op[s].id] = "monitor"]
               /\ Transition(op[s].id, "starting") /\ Go(s, "starting") /\ UNCHANGED updates
      <3>1. Set(s, op[s].kind, "starting", op[s].id, op[s].answer)
        BY <1>0, <1>1, <2>1, OperationSteps
      <3>2. /\ op'[s].step = "starting" /\ op'[s].kind = op[s].kind /\ op'[s].id = op[s].id
            /\ UNCHANGED appVars
        BY <1>7, <3>1 DEF Set, ResolveURL
      <3>3. /\ monitor' \in [Ids -> MonitoringStates] /\ calls' \subseteq Calls
            /\ monitor'[op[s].id] = "starting"
        BY <1>0, <1>2, <2>0, <2>1, TransitionTypes
      <3>4. OperationInv(s)'
        BY <1>0, <2>0, <2>1, <3>2 DEF OperationInv, StartSteps, StopSteps, appVars
      <3>5. DataTypes'
        BY <1>0, <1>7, <2>0, <2>1, <3>3 DEF ResolveURL, DataTypes, appVars
      <3>6. SessionInv' /\ UNCHANGED gates
        BY <1>0, <2>0, <2>1, <3>2, <3>3 DEF SessionInv, appVars, OperationInv, StartSteps
      <3> QED BY <1>0, <1>1, <2>0, <3>1, <3>4, <3>5, <3>6, ControlGoesOn
    <2>2. CASE /\ token' = [token EXCEPT ![op[s].id] = "released"]
               /\ FailMonitoring(s) /\ UNCHANGED <<session, monitor, calls>>
      <3>1. /\ UNCHANGED <<appVars, session, monitor, recovery, pipeline, callbackVars, shown>>
            /\ op[s].step \in StartSteps
        BY <1>7, <2>2 DEF ResolveURL, StartSteps, callbackVars
      <3>2. token' \in [Ids -> {"none", "operation", "monitor", "released"}]
        BY <1>0, <2>2 DEF DataTypes
      <3> QED BY <1>3, <2>2, <3>1, <3>2
    <2> QED BY <1>7, <2>1, <2>2 DEF ResolveURL
  <1>8. CASE StartingReturns(s)
    <2>1. Set(s, op[s].kind, "makeStream", op[s].id, op[s].answer)
      BY <1>0, <1>1, <1>8, OperationSteps DEF StartingReturns
    <2>2. /\ op'[s].step = "makeStream" /\ op'[s].kind = op[s].kind /\ op'[s].id = op[s].id
          /\ op[s].step = "starting"
          /\ UNCHANGED <<appVars, session, monitorVars, pipeline, callbackVars, screenVars>>
      BY <1>8, <2>1 DEF Set, StartingReturns
    <2>3. OperationInv(s)'
      BY <1>0, <2>2 DEF OperationInv, StartSteps, StopSteps, appVars
    <2>4. shown' \in MonitoringStates /\ UNCHANGED updates
      BY <1>0, <2>2 DEF DataTypes, screenVars
    <2> QED BY <1>0, <1>1, <2>1, <2>2, <2>3, <2>4, ControlMovesOn
  <1>9. CASE MakeStream(s)
    <2>0. /\ op[s].step = "makeStream" /\ op[s].id = session /\ session \in Ids
          /\ UNCHANGED <<appVars, session, recovery, pipeline, batches, settled, screenVars>>
      BY <1>0, <1>9 DEF MakeStream, OperationInv
    <2>1. ASSUME NEW step \in {"watching", "failing"}, NEW state \in {"watching", "failed"},
                 Transition(op[s].id, state), Go(s, step),
                 token' \in [Ids -> {"none", "operation", "monitor", "released"}]
          PROVE  ControlInv'
      <3>1. Set(s, op[s].kind, step, op[s].id, op[s].answer)
        BY <1>0, <1>1, <2>1, OperationSteps
      <3>2. op'[s].step = step /\ op'[s].kind = op[s].kind /\ op'[s].id = op[s].id
        BY <3>1 DEF Set
      <3>3. /\ monitor' \in [Ids -> MonitoringStates] /\ calls' \subseteq Calls
            /\ monitor'[op[s].id] = state
        BY <1>0, <1>2, <2>0, <2>1, TransitionTypes
      <3>4. OperationInv(s)'
        BY <1>0, <2>0, <3>2 DEF OperationInv, StartSteps, StopSteps, appVars
      <3>5. DataTypes'
        BY <1>0, <2>0, <2>1, <3>3 DEF DataTypes, appVars, screenVars
      <3>6. SessionInv' /\ UNCHANGED gates
        BY <1>0, <2>0, <3>3 DEF SessionInv, appVars
      <3> QED BY <1>0, <1>1, <2>0, <3>1, <3>4, <3>5, <3>6, ControlGoesOn
    <2>2. CASE Go(s, "project") /\ UNCHANGED <<token, monitor, calls>>
      <3>1. Set(s, op[s].kind, "project", op[s].id, op[s].answer)
        BY <1>0, <1>1, <2>2, OperationSteps
      <3>2. op'[s].step = "project" /\ op'[s].kind = op[s].kind /\ op'[s].id = op[s].id
        BY <3>1 DEF Set
      <3>3. OperationInv(s)'
        BY <1>0, <2>0, <3>2 DEF OperationInv, StartSteps, StopSteps, appVars
      <3>4. /\ shown' \in MonitoringStates /\ UNCHANGED updates
            /\ UNCHANGED <<appVars, session, monitorVars, pipeline, callbackVars>>
        BY <1>0, <2>0, <2>2 DEF DataTypes, screenVars, monitorVars, callbackVars
      <3> QED BY <1>0, <1>1, <2>0, <3>1, <3>3, <3>4, ControlMovesOn
    <2>3. CASE Transition(op[s].id, "watching") /\ Go(s, "watching") /\ UNCHANGED token
      BY <1>0, <2>1, <2>3 DEF DataTypes
    <2>4. CASE /\ Transition(op[s].id, "failed") /\ Go(s, "failing")
               /\ token' = [token EXCEPT ![op[s].id] = "released"]
      <3>1. token' \in [Ids -> {"none", "operation", "monitor", "released"}]
        BY <1>0, <2>4 DEF DataTypes
      <3> QED BY <2>1, <2>4, <3>1
    <2> QED BY <1>9, <2>2, <2>3, <2>4 DEF MakeStream
  <1>10. CASE StartReturns(s)
    <2>1. Set(s, op[s].kind, "project", op[s].id, op[s].answer)
      BY <1>0, <1>1, <1>10, OperationSteps DEF StartReturns
    <2>2. /\ op'[s].step = "project" /\ op'[s].kind = op[s].kind /\ op'[s].id = op[s].id
          /\ op[s].step \in {"watching", "failing"}
          /\ UNCHANGED <<appVars, session, monitorVars, pipeline, callbackVars, screenVars>>
      BY <1>10, <2>1 DEF Set, StartReturns
    <2>3. OperationInv(s)'
      BY <1>0, <2>2 DEF OperationInv, StartSteps, StopSteps, appVars
    <2>4. shown' \in MonitoringStates /\ UNCHANGED updates
      BY <1>0, <2>2 DEF DataTypes, screenVars
    <2> QED BY <1>0, <1>1, <2>1, <2>2, <2>3, <2>4, ControlMovesOn
  <1>11. CASE Project(s)
    <2>0. op[s].step = "project" /\ op[s].id \in Ids
      BY <1>0, <1>11 DEF Project, OperationInv
    <2>1. pipeline[op[s].id] \in MonitoringStates
      BY <1>0, <2>0 DEF DataTypes
    <2>2. Set(s, op[s].kind, "answered", op[s].id, pipeline[op[s].id])
      BY <1>0, <1>11, <2>1, OperationSteps DEF Project
    <2>3. /\ op'[s].step = "answered" /\ op'[s].kind = op[s].kind
          /\ UNCHANGED <<appVars, session, monitorVars, pipeline, callbackVars, screenVars>>
      BY <1>11, <2>2 DEF Set, Project
    <2>4. OperationInv(s)'
      BY <1>0, <2>0, <2>3 DEF OperationInv, StartSteps, StopSteps, appVars
    <2>5. shown' \in MonitoringStates /\ UNCHANGED updates
      BY <1>0, <2>3 DEF DataTypes, screenVars
    <2> QED BY <1>0, <1>1, <2>0, <2>1, <2>2, <2>3, <2>4, <2>5, ControlMovesOn
  <1> QED BY <1>4, <1>5, <1>6, <1>7, <1>8, <1>9, <1>10, <1>11

(* What follows a stop, with the session out of the table.                 *)
LEMMA AfterStopKeepsControl ==
    ASSUME ControlInv, NEW s \in Slots, op[s].step \in {"stopMonitoring", "publishStop"},
           AfterStop(s), PublishProject("stopped"), session' = NoSession,
           UNCHANGED <<appVars, monitorVars, pipeline, callbackVars, shown>>
    PROVE  ControlInv'
  <1>0. /\ op \in [Slots -> Operations]
        /\ OperationInv(s) /\ op[s] \in Operations /\ op[s].kind \in Kinds
        /\ op[s].id \in Ids \union {NoSession} /\ op[s].answer \in MonitoringStates
        /\ DataTypes /\ SessionInv
    BY InFlight DEF ControlInv, OperationTypes
  <1>1. /\ "startMonitoring" \in Steps /\ "answered" \in Steps
        /\ "stopped" \in MonitoringStates /\ op[s].step # "idle"
    BY DEF Steps, MonitoringStates
  <1>2. updates' \in Seq(MonitoringStates)
    BY <1>0, <1>1, PublishTypes
  <1>3. DataTypes' /\ SessionInv' /\ UNCHANGED gates
    BY <1>0, <1>2 DEF DataTypes, SessionInv, appVars, monitorVars, callbackVars
  <1>4. op[s].kind \in Stopping
    BY <1>0 DEF OperationInv, StopSteps
  <1>5. CASE op[s].kind = "retry" /\ Go(s, "startMonitoring")
    <2>1. Set(s, op[s].kind, "startMonitoring", op[s].id, op[s].answer)
      BY <1>0, <1>1, <1>5, OperationSteps
    <2>2. op'[s].step = "startMonitoring" /\ op'[s].kind = op[s].kind
      BY <2>1 DEF Set
    <2>3. OperationInv(s)'
      BY <1>0, <1>5, <2>2 DEF OperationInv, StartSteps, StopSteps, appVars
    <2> QED BY <1>0, <1>1, <1>3, <2>1, <2>3, ControlGoesOn
  <1>6. CASE op[s].kind # "retry" /\ Answer(s, "stopped")
    <2>1. Set(s, op[s].kind, "answered", op[s].id, "stopped")
      BY <1>0, <1>1, <1>6, OperationSteps
    <2>2. op'[s].step = "answered" /\ op'[s].kind = op[s].kind
      BY <2>1 DEF Set
    <2>3. OperationInv(s)'
      BY <1>0, <1>4, <1>6, <2>2 DEF OperationInv, StartSteps, StopSteps, Stopping
    <2> QED BY <1>0, <1>1, <1>3, <2>1, <2>3, ControlGoesOn
  <1> QED BY <1>5, <1>6 DEF AfterStop

(* A stop that moves on: its monitor, once it is behind, stays stopped.    *)
LEMMA StopMovesOn ==
    ASSUME ControlInv, NEW s \in Slots, op[s].step \in {"stopMonitoring"} \union StopSteps,
           NEW i \in Ids, NEW step \in StopSteps, Set(s, op[s].kind, step, i, op[s].answer),
           session' = NoSession, project = "enabled", UNCHANGED <<appVars, batches, screenVars>>,
           step \notin {"stopping", "stopStream"} =>
               monitor'[i] = "stopped" /\ token'[i] = "released",
           DataTypes'
    PROVE  ControlInv'
  <1>0. /\ OperationInv(s) /\ op[s].kind \in Kinds /\ op[s].answer \in MonitoringStates
    BY InFlight DEF ControlInv, OperationTypes
  <1>1. op[s].step # "idle" /\ step \in Steps /\ step # "idle"
    BY DEF StopSteps, Steps
  <1>2. op'[s].step = step /\ op'[s].kind = op[s].kind /\ op'[s].id = i
    BY DEF Set
  <1>3. op[s].kind \in Stopping
    BY <1>0 DEF OperationInv
  <1>4. OperationInv(s)'
    BY <1>0, <1>2, <1>3 DEF OperationInv, StartSteps, StopSteps, appVars
  <1>5. SessionInv' /\ UNCHANGED gates
    BY DEF SessionInv, appVars
  <1> QED BY <1>0, <1>1, <1>4, <1>5, ControlGoesOn

(* stopMonitoring() finds across each await what it relies on.             *)
LEMMA StopKeepsControl ==
    ASSUME ControlInv, NEW s \in Slots,
           \/ StopMonitoring(s) \/ StoppingReturns(s) \/ StreamStopped(s) \/ StopReturns(s)
           \/ StopPipeline(s) \/ PublishStop(s)
    PROVE  ControlInv'
  <1> USE DEF At
  <1>0. /\ op \in [Slots -> Operations]
        /\ OperationInv(s) /\ op[s] \in Operations
        /\ DataTypes /\ SessionInv
    BY InFlight DEF ControlInv, OperationTypes
  <1>1. StopSteps \subseteq Steps
    BY DEF Steps, StopSteps
  <1>2. {"stopped", "stopping"} \subseteq MonitoringStates
    BY DEF MonitoringStates
  <1>3. ASSUME NEW i \in Ids, MonitorStopped(i)
        PROVE  /\ monitor' \in [Ids -> MonitoringStates] /\ calls' \subseteq Calls
               /\ monitor'[i] = "stopped" /\ token'[i] = "released"
               /\ token' \in [Ids -> {"none", "operation", "monitor", "released"}]
    <2>1. /\ monitor' \in [Ids -> MonitoringStates] /\ calls' \subseteq Calls
          /\ monitor'[i] = "stopped"
      BY <1>0, <1>2, <1>3, TransitionTypes DEF MonitorStopped
    <2> QED BY <1>0, <1>3, <2>1 DEF MonitorStopped, DataTypes
  <1>4. CASE StopMonitoring(s)
    <2>0. /\ op[s].step = "stopMonitoring" /\ session' = NoSession
          /\ UNCHANGED <<appVars, recovery, pipeline, batches, settled, shown>>
      BY <1>4 DEF StopMonitoring
    <2>1. CASE /\ session = NoSession /\ AfterStop(s) /\ PublishProject("stopped")
               /\ UNCHANGED <<token, monitor, calls>>
      BY <2>0, <2>1, AfterStopKeepsControl DEF monitorVars, callbackVars
    <2>2. ASSUME session # NoSession, UNCHANGED updates, NEW step \in StopSteps,
                 op' = [op EXCEPT ![s].id = session, ![s].step = step],
                 step \notin {"stopping", "stopStream"} =>
                     monitor'[session] = "stopped" /\ token'[session] = "released",
                 monitor' \in [Ids -> MonitoringStates], calls' \subseteq Calls,
                 token' \in [Ids -> {"none", "operation", "monitor", "released"}]
          PROVE  ControlInv'
      <3>1. session \in Ids /\ project = "enabled"
        BY <1>0, <2>2 DEF DataTypes, SessionInv
      <3>2. Set(s, op[s].kind, step, session, op[s].answer)
        BY <1>0, <1>1, <2>2, <3>1, OperationSteps
      <3>3. DataTypes'
        BY <1>0, <2>0, <2>2 DEF DataTypes, appVars, NoSession
      <3> QED BY <2>0, <2>2, <3>1, <3>2, <3>3, StopMovesOn DEF screenVars
    <2>3. CASE /\ session # NoSession /\ UNCHANGED updates
               /\ monitor[session] = "watching" /\ Transition(session, "stopping")
               /\ op' = [op EXCEPT ![s].id = session, ![s].step = "stopping"]
               /\ UNCHANGED token
      <3>1. session \in Ids
        BY <1>0, <2>3 DEF DataTypes
      <3>2. monitor' \in [Ids -> MonitoringStates] /\ calls' \subseteq Calls
        BY <1>0, <1>2, <2>3, <3>1, TransitionTypes
      <3> QED BY <1>0, <2>2, <2>3, <3>2 DEF DataTypes, StopSteps
    <2>4. CASE /\ session # NoSession /\ UNCHANGED updates
               /\ op' = [op EXCEPT ![s].id = session, ![s].step = "stopStream"]
               /\ UNCHANGED <<token, monitor, calls>>
      BY <1>0, <2>2, <2>4 DEF DataTypes, StopSteps
    <2>5. CASE /\ session # NoSession /\ UNCHANGED updates /\ MonitorStopped(session)
               /\ op' = [op EXCEPT ![s].id = session, ![s].step = "stopped"]
      <3>1. session \in Ids
        BY <1>0, <2>5 DEF DataTypes
      <3> QED BY <1>3, <2>2, <2>5, <3>1 DEF StopSteps
    <2>6. ~(session # NoSession /\ monitor[session] \in {"stopped", "stopping"})
      BY <1>0 DEF SessionInv
    <2> QED BY <1>4, <2>1, <2>3, <2>4, <2>5, <2>6 DEF StopMonitoring
  <1>5. ASSUME op[s].step \in StopSteps
        PROVE  session = NoSession /\ op[s].id \in Ids /\ project = "enabled"
    BY <1>0, <1>5 DEF OperationInv
  <1>6. CASE StoppingReturns(s)
    <2>1. /\ op[s].step = "stopping" /\ Go(s, "stopStream") /\ op[s].step \in StopSteps
          /\ UNCHANGED <<appVars, session, monitorVars, pipeline, callbackVars, screenVars>>
      BY <1>6 DEF StoppingReturns, StopSteps
    <2>2. Set(s, op[s].kind, "stopStream", op[s].id, op[s].answer) /\ "stopStream" \in StopSteps
      BY <1>0, <1>1, <2>1, OperationSteps DEF StopSteps
    <2>3. DataTypes'
      BY <1>0, <2>1 DEF DataTypes, appVars, monitorVars, callbackVars, screenVars
    <2> QED BY <1>5, <2>1, <2>2, <2>3, StopMovesOn DEF callbackVars
  <1>7. CASE StreamStopped(s)
    <2>1. /\ op[s].step = "stopStream" /\ Go(s, "stopped") /\ op[s].step \in StopSteps
          /\ MonitorStopped(op[s].id)
          /\ UNCHANGED <<appVars, session, recovery, pipeline, batches, settled, screenVars>>
      BY <1>7 DEF StreamStopped, StopSteps
    <2>2. Set(s, op[s].kind, "stopped", op[s].id, op[s].answer) /\ "stopped" \in StopSteps
      BY <1>0, <1>1, <2>1, OperationSteps DEF StopSteps
    <2>3. /\ monitor' \in [Ids -> MonitoringStates] /\ calls' \subseteq Calls
          /\ monitor'[op[s].id] = "stopped" /\ token'[op[s].id] = "released"
          /\ token' \in [Ids -> {"none", "operation", "monitor", "released"}]
      BY <1>3, <1>5, <2>1
    <2>4. DataTypes'
      BY <1>0, <2>1, <2>3 DEF DataTypes, appVars, screenVars
    <2> QED BY <1>5, <2>1, <2>2, <2>3, <2>4, StopMovesOn
  <1>8. CASE StopReturns(s)
    <2>1. /\ op[s].step = "stopped" /\ Go(s, "stopPipeline") /\ op[s].step \in StopSteps
          /\ UNCHANGED <<appVars, session, monitorVars, pipeline, callbackVars, screenVars>>
      BY <1>8 DEF StopReturns, StopSteps
    <2>2. Set(s, op[s].kind, "stopPipeline", op[s].id, op[s].answer) /\ "stopPipeline" \in StopSteps
      BY <1>0, <1>1, <2>1, OperationSteps DEF StopSteps
    <2>3. DataTypes'
      BY <1>0, <2>1 DEF DataTypes, appVars, monitorVars, callbackVars, screenVars
    <2>4. monitor'[op[s].id] = "stopped" /\ token'[op[s].id] = "released"
      BY <1>0, <2>1 DEF OperationInv, monitorVars
    <2> QED BY <1>5, <2>1, <2>2, <2>3, <2>4, StopMovesOn DEF callbackVars
  <1>9. CASE StopPipeline(s)
    <2>1. /\ op[s].step = "stopPipeline" /\ Go(s, "publishStop") /\ op[s].step \in StopSteps
          /\ pipeline' = [pipeline EXCEPT ![op[s].id] = "stopped"]
          /\ UNCHANGED <<appVars, session, monitorVars, callbackVars, screenVars>>
      BY <1>9 DEF StopPipeline, StopSteps
    <2>2. Set(s, op[s].kind, "publishStop", op[s].id, op[s].answer) /\ "publishStop" \in StopSteps
      BY <1>0, <1>1, <2>1, OperationSteps DEF StopSteps
    <2>3. DataTypes'
      BY <1>0, <1>2, <2>1 DEF DataTypes, appVars, monitorVars, callbackVars, screenVars
    <2>4. monitor'[op[s].id] = "stopped" /\ token'[op[s].id] = "released"
      BY <1>0, <2>1 DEF OperationInv, monitorVars
    <2> QED BY <1>5, <2>1, <2>2, <2>3, <2>4, StopMovesOn DEF callbackVars
  <1>10. CASE PublishStop(s)
    <2>1. /\ op[s].step = "publishStop" /\ op[s].step \in StopSteps
          /\ AfterStop(s) /\ PublishProject("stopped")
          /\ UNCHANGED <<appVars, session, monitorVars, pipeline, callbackVars, shown>>
      BY <1>10 DEF PublishStop, StopSteps
    <2> QED BY <1>5, <2>1, AfterStopKeepsControl
  <1> QED BY <1>4, <1>6, <1>7, <1>8, <1>9, <1>10

(* A mutation and a reload find across each await what they rely on.       *)
LEMMA MutationsKeepControl ==
    ASSUME ControlInv, NEW s \in Slots, Apply(s) \/ EndReload(s) \/ Write(s)
    PROVE  ControlInv'
  <1> USE DEF At
  <1>0. /\ op \in [Slots -> Operations]
        /\ OperationInv(s) /\ op[s] \in Operations /\ op[s].kind \in Kinds
        /\ op[s].id \in Ids \union {NoSession} /\ op[s].answer \in MonitoringStates
        /\ DataTypes /\ SessionInv
    BY InFlight DEF ControlInv, OperationTypes
  <1>1. CASE Apply(s)
    <2>0. /\ op[s].step = "answered" /\ shown' \in MonitoringStates
          /\ UNCHANGED <<project, asked, session, monitorVars, pipeline, callbackVars, updates>>
      BY <1>0, <1>1 DEF Apply
    <2>1. CASE s = "mutation" /\ Go(s, "write") /\ UNCHANGED gates
      <3>1. "write" \in Steps
        BY DEF Steps
      <3>2. Set(s, op[s].kind, "write", op[s].id, op[s].answer)
        BY <1>0, <2>1, <3>1, OperationSteps
      <3>3. op'[s].step = "write" /\ op'[s].kind = op[s].kind
        BY <3>2 DEF Set
      <3>4. OperationInv(s)'
        BY <1>0, <2>0, <2>1, <3>3 DEF OperationInv, StartSteps, StopSteps
      <3> QED BY <1>0, <2>0, <2>1, <3>1, <3>2, <3>4, ControlMovesOn DEF appVars
    <2>2. CASE op' = [op EXCEPT ![s] = Idle] /\ gates' = gates \ {s}
      <3>1. DataTypes' /\ SessionInv'
        BY <1>0, <2>0 DEF DataTypes, SessionInv, monitorVars, callbackVars
      <3> QED BY <2>0, <2>2, <3>1, ControlEnds
    <2> QED BY <1>1, <2>1, <2>2 DEF Apply
  <1>2. CASE EndReload(s)
    <2>1. /\ op[s].step = "reload" /\ op' = [op EXCEPT ![s] = Idle] /\ gates' = gates \ {s}
          /\ UNCHANGED <<project, asked, session, monitorVars, pipeline, callbackVars, screenVars>>
      BY <1>2 DEF EndReload, appVars
    <2>2. DataTypes' /\ SessionInv'
      BY <1>0, <2>1 DEF DataTypes, SessionInv, monitorVars, callbackVars, screenVars
    <2> QED BY <2>1, <2>2, ControlEnds
  <1>3. CASE Write(s)
    <2>1. /\ op[s].step = "write" /\ op' = [op EXCEPT ![s] = Idle] /\ gates' = gates \ {s}
          /\ project' = Written(op[s].kind) \/ UNCHANGED project
          /\ shown' = "stopped" \/ UNCHANGED shown
          /\ UNCHANGED <<asked, session, monitorVars, pipeline, callbackVars, updates>>
      BY <1>3 DEF Write
    <2>2. /\ project' \in {"enabled", "disabled", "removed"}
          /\ project' \in {project, "enabled"} \/ op[s].kind \in {"disable", "remove"}
      BY <1>0, <2>1 DEF Written, DataTypes
    <2>3. DataTypes'
      BY <1>0, <2>1, <2>2 DEF DataTypes, monitorVars, callbackVars, MonitoringStates
    <2>4. SessionInv'
      BY <1>0, <2>1, <2>2 DEF SessionInv, OperationInv, monitorVars
    <2> QED BY <2>1, <2>3, <2>4, ControlEnds
  <1> QED BY <1>1, <1>2, <1>3

(* A begun operation.                                                      *)
LEMMA BeginKeepsControl ==
    ASSUME ControlInv, NEW s \in Slots, NEW kind \in Kinds \ {"none"}, NEW step \in Steps,
           Begin(s, kind, step), shown' \in MonitoringStates,
           kind \in IF s = "runtime" THEN RuntimeKinds ELSE MutationKinds,
           step \in {"startMonitoring", "stopMonitoring", "reload", "write"},
           step = "startMonitoring" => kind = "start",
           step = "stopMonitoring" => kind \in Stopping,
           step = "write" => s = "mutation" /\ kind \in {"rename", "enable"},
           kind \in {"start", "retry"} => project = "enabled"
    PROVE  ControlInv'
  <1>0. op \in [Slots -> Operations] /\ DataTypes /\ SessionInv
    BY DEF ControlInv, OperationTypes
  <1>1. /\ gates = {} /\ gates' = {s} /\ asked' = asked + 1 /\ asked < MaxOperations
        /\ op' = [op EXCEPT ![s] = [Idle EXCEPT !.kind = kind, !.step = step]]
        /\ UNCHANGED <<project, session, monitorVars, pipeline, callbackVars, updates>>
    BY DEF Begin, MayBegin
  <1>2. Set(s, kind, step, NoSession, "stopped") /\ "stopped" \in MonitoringStates
    BY <1>0, <1>1, OperationSteps DEF MonitoringStates
  <1>3. /\ SingleOperation'
        /\ \A t \in Slots : t # s => op'[t] = Idle /\ OperationInv(t)'
        /\ op'[s].kind = kind /\ op'[s].step = step
    BY <1>1, <1>2, OtherSlotIdle DEF ControlInv
  <1>4. OperationInv(s)'
    BY <1>1, <1>3 DEF OperationInv, StartSteps, StopSteps
  <1>5. DataTypes' /\ SessionInv'
    BY <1>0, <1>1 DEF DataTypes, SessionInv, monitorVars, callbackVars
  <1>6. op'[s] # Idle
    BY <1>3, Constants
  <1>7. OperationTypes'
    BY <1>1, <1>2, <1>3, <1>6 DEF OperationTypes, Set
  <1> QED BY <1>3, <1>4, <1>5, <1>7 DEF ControlInv

(* The gates let in one operation of the project at a time.                *)
LEMMA UserKeepsControl ==
    ASSUME ControlInv,
           \/ BeginStart \/ BeginStop \/ BeginRetry \/ BeginReload
           \/ \E k \in MutationKinds : BeginMutation(k)
    PROVE  ControlInv'
  <1>0. /\ "runtime" \in Slots /\ "mutation" \in Slots
        /\ {"startMonitoring", "stopMonitoring", "reload", "write"} \subseteq Steps
        /\ {"starting", "stopping"} \subseteq MonitoringStates /\ shown \in MonitoringStates
        /\ (RuntimeKinds \union MutationKinds) \subseteq (Kinds \ {"none"})
    BY DEF Slots, Steps, MonitoringStates, Kinds, RuntimeKinds, MutationKinds, ControlInv, DataTypes
  <1>1. CASE BeginStart
    BY <1>0, <1>1, BeginKeepsControl DEF BeginStart, RuntimeKinds
  <1>2. CASE BeginStop
    BY <1>0, <1>2, BeginKeepsControl DEF BeginStop, RuntimeKinds, Stopping
  <1>3. CASE BeginRetry
    BY <1>0, <1>3, BeginKeepsControl DEF BeginRetry, RuntimeKinds, Stopping
  <1>4. CASE BeginReload
    BY <1>0, <1>4, BeginKeepsControl DEF BeginReload, RuntimeKinds
  <1>5. ASSUME NEW k \in MutationKinds, BeginMutation(k)
        PROVE  ControlInv'
    <2>1. CASE k \in Stopping
      <3>1. Begin("mutation", k, "stopMonitoring") /\ shown' \in MonitoringStates
        BY <1>0, <1>5, <2>1 DEF BeginMutation
      <3>2. k \notin {"start", "retry"} /\ k \in Kinds \ {"none"}
        BY <1>0 DEF MutationKinds
      <3> QED BY <1>0, <2>1, <3>1, <3>2, BeginKeepsControl
    <2>2. CASE k \notin Stopping
      <3>1. Begin("mutation", k, "write") /\ shown' \in MonitoringStates
        BY <1>0, <1>5, <2>2 DEF BeginMutation
      <3>2. k \in {"rename", "enable"} /\ k \in Kinds \ {"none"}
        BY <1>0, <2>2 DEF MutationKinds, Stopping
      <3> QED BY <1>0, <3>1, <3>2, BeginKeepsControl
    <2> QED BY <2>1, <2>2
  <1> QED BY <1>1, <1>2, <1>3, <1>4, <1>5

(* The callbacks leave operations and the table alone.                     *)
LEMMA CallbacksKeepControl ==
    ASSUME ControlInv,
           UNCHANGED <<appVars, op, session>>, DataTypes',
           \/ UNCHANGED <<token, monitor>>
           \/ \E i \in Ids : EnterRecovery(i) \/ FinishRecovery(i)
    PROVE  ControlInv'
  <1>1. OperationTypes' /\ SingleOperation'
    BY DEF ControlInv, OperationTypes, SingleOperation, appVars
  <1>2. /\ \A j \in Ids : monitor[j] = "stopped" => monitor'[j] = "stopped"
        /\ \A j \in Ids : token[j] = "released" => token'[j] = "released"
        /\ \A j \in Ids : monitor[j] \in {"starting", "watching", "failed", "recovering"} =>
               monitor'[j] \in {"starting", "watching", "failed", "recovering"}
    <2>1. ASSUME NEW i \in Ids, EnterRecovery(i)
          PROVE  <1>2!1 /\ <1>2!2 /\ <1>2!3
      BY <2>1 DEF EnterRecovery, ReadsStream, Transition, ControlInv, DataTypes
    <2>2. ASSUME NEW i \in Ids, FinishRecovery(i)
          PROVE  <1>2!1 /\ <1>2!2 /\ <1>2!3
      BY <2>2 DEF FinishRecovery, ControlInv, DataTypes
    <2> QED BY <2>1, <2>2
  <1>3. ASSUME NEW s \in Slots PROVE OperationInv(s)'
    <2>1. OperationInv(s) /\ UNCHANGED <<project, op, session>>
      BY DEF ControlInv, appVars
    <2> QED BY <1>2, <2>1 DEF OperationInv, StartSteps, StopSteps
  <1>4. SessionInv'
    BY <1>2 DEF ControlInv, SessionInv, DataTypes, appVars
  <1> QED BY <1>1, <1>3, <1>4 DEF ControlInv

(* Callbacks keep the types of what they touch.                            *)
LEMMA CallbackTypes ==
    ASSUME DataTypes,
           \/ \E i \in Ids : EnterRecovery(i) \/ FinishRecovery(i) \/ BatchBroadcast(i)
           \/ \E c \in calls : CallStep(c)
           \/ \E b \in batches : BatchStep(b)
           \/ ApplyUpdate
    PROVE  DataTypes'
  <1> USE DEF appVars, monitorVars, callbackVars, screenVars
  <1>1. {"watching", "recovering"} \subseteq MonitoringStates
    BY DEF MonitoringStates
  <1>2. ASSUME NEW i \in Ids, EnterRecovery(i)
        PROVE  DataTypes'
    <2>1. monitor' \in [Ids -> MonitoringStates] /\ calls' \subseteq Calls
      BY <1>1, <1>2, TransitionTypes DEF EnterRecovery
    <2> QED BY <1>2, <2>1 DEF EnterRecovery, DataTypes
  <1>3. ASSUME NEW i \in Ids, FinishRecovery(i)
        PROVE  DataTypes'
    BY <1>3 DEF FinishRecovery, DataTypes
  <1>4. ASSUME NEW i \in Ids, BatchBroadcast(i)
        PROVE  DataTypes'
    <2>1. settled' \in 0 .. MaxBatches /\ settled' \in 1 .. MaxBatches
      BY <1>4 DEF BatchBroadcast, DataTypes
    <2>2. batches' \subseteq Batches
      BY <1>1, <1>4, <2>1 DEF BatchBroadcast, DataTypes, Batches
    <2> QED BY <1>4, <2>1, <2>2 DEF BatchBroadcast, DataTypes
  <1>5. ASSUME NEW c \in calls, CallStep(c)
        PROVE  DataTypes'
    <2>0. /\ c \in Calls /\ c.id \in Ids /\ c.to \in MonitoringStates /\ c.seen \in MonitoringStates
          /\ pipeline[c.id] \in MonitoringStates
      BY DEF DataTypes, Calls
    <2>1. CASE SetMonitoringState(c)
      <3>1. [c EXCEPT !.step = "read"] \in Calls
        BY <2>0 DEF Calls
      <3> QED BY <2>0, <2>1, <3>1 DEF SetMonitoringState, DataTypes
    <2>2. CASE ReadState(c)
      <3>1. [c EXCEPT !.step = "publish", !.seen = pipeline[c.id]] \in Calls
        BY <2>0 DEF Calls
      <3> QED BY <2>0, <2>2, <3>1 DEF ReadState, DataTypes
    <2>3. CASE PublishState(c)
      <3>1. updates' \in Seq(MonitoringStates)
        BY <2>0, <2>3, PublishTypes DEF PublishState
      <3> QED BY <2>3, <3>1 DEF PublishState, DataTypes
    <2> QED BY <1>5, <2>1, <2>2, <2>3 DEF CallStep
  <1>6. ASSUME NEW b \in batches, BatchStep(b)
        PROVE  DataTypes'
    <2>0. /\ b \in Batches /\ b.id \in Ids /\ b.seen \in MonitoringStates
          /\ pipeline[b.id] \in MonitoringStates
      BY DEF DataTypes, Batches
    <2>1. CASE BatchSettled(b)
      <3>1. session # NoSession => [b EXCEPT !.step = "read", !.id = session] \in Batches
        BY <2>0 DEF Batches, DataTypes
      <3>2. batches' \subseteq Batches
        BY <2>1, <3>1 DEF BatchSettled, DataTypes
      <3> QED BY <2>1, <3>2 DEF BatchSettled, DataTypes
    <2>2. CASE ReadForBatch(b)
      <3>1. [b EXCEPT !.step = "publish", !.seen = pipeline[b.id]] \in Batches
        BY <2>0 DEF Batches
      <3> QED BY <2>0, <2>2, <3>1 DEF ReadForBatch, DataTypes
    <2>3. CASE PublishBatch(b)
      <3>1. updates' \in Seq(MonitoringStates)
        BY <2>0, <2>3, PublishTypes DEF PublishBatch
      <3> QED BY <2>3, <3>1 DEF PublishBatch, DataTypes
    <2> QED BY <1>6, <2>1, <2>2, <2>3 DEF BatchStep
  <1>7. CASE ApplyUpdate
    <2>1. /\ updates \in Seq(MonitoringStates) /\ updates # <<>>
          /\ shown' = Head(updates) /\ updates' = Tail(updates)
      BY <1>7 DEF ApplyUpdate, DataTypes
    <2>2. shown' \in MonitoringStates /\ updates' \in Seq(MonitoringStates)
      BY <2>1
    <2> QED BY <1>7, <2>2 DEF ApplyUpdate, DataTypes
  <1> QED BY <1>2, <1>3, <1>4, <1>5, <1>6, <1>7

(* No step takes from an operation what it relies on.                      *)
LEMMA StepKeepsControl == ControlInv /\ [Next]_vars => ControlInv'
  <1> SUFFICES ASSUME ControlInv, [Next]_vars PROVE ControlInv'
    OBVIOUS
  <1>1. ASSUME NEW s \in Slots, OperationStep(s) PROVE ControlInv'
    BY <1>1, MutationsKeepControl, StartKeepsControl, StopKeepsControl DEF OperationStep
  <1>2. CASE \/ BeginStart \/ BeginStop \/ BeginRetry \/ BeginReload
             \/ \E k \in MutationKinds : BeginMutation(k)
    BY <1>2, UserKeepsControl
  <1>3. CASE \E i \in Ids : EnterRecovery(i) \/ FinishRecovery(i)
    <2>1. UNCHANGED <<appVars, op, session>>
      BY <1>3 DEF EnterRecovery, FinishRecovery
    <2>2. DataTypes'
      BY <1>3, CallbackTypes DEF ControlInv
    <2> QED BY <1>3, <2>1, <2>2, CallbacksKeepControl
  <1>4. CASE \/ \E i \in Ids : BatchBroadcast(i)
             \/ \E c \in calls : CallStep(c)
             \/ \E b \in batches : BatchStep(b)
             \/ ApplyUpdate
    <2>1. UNCHANGED <<appVars, op, session>> /\ UNCHANGED <<token, monitor>>
      BY <1>4 DEF BatchBroadcast, CallStep, SetMonitoringState, ReadState, PublishState,
                  BatchStep, BatchSettled, ReadForBatch, PublishBatch, ApplyUpdate, monitorVars
    <2>2. DataTypes'
      BY <1>4, CallbackTypes DEF ControlInv
    <2> QED BY <2>1, <2>2, CallbacksKeepControl
  <1>5. CASE UNCHANGED vars
    <2>1. DataTypes' /\ UNCHANGED <<appVars, op, session>> /\ UNCHANGED <<token, monitor>>
      BY <1>5 DEF ControlInv, DataTypes, vars, appVars, monitorVars, callbackVars, screenVars
    <2> QED BY <2>1, CallbacksKeepControl
  <1> QED BY <1>1, <1>2, <1>3, <1>4, <1>5 DEF Next, Due

(* Type correctness, for any number of sessions, operations and batches.   *)
THEOREM ServiceTypeCorrect == Spec => []TypeOK
  <1>1. Spec => []ControlInv
    BY ControlInitially, StepKeepsControl, PTL DEF Spec
  <1> QED BY <1>1, TypesFromControl, PTL
-------------------------------------------------------------------------------
(* A pipeline is told of watching while the start that led there waits.    *)
CallInv == \A c \in calls : c.to = "watching" => \E s \in Slots : op[s].id = c.id /\ At(s, "watching")

OwnerInv == CallInv /\ LiveMonitorsOwned /\ AccessNotLeaked /\ StoppedPipelineNotRevived

(* In the beginning there is nothing to own.                               *)
LEMMA OwnersInitially == Init => OwnerInv
  BY DEF Init, OwnerInv, CallInv, LiveMonitorsOwned, AccessNotLeaked, StoppedPipelineNotRevived, Live

OnlySlot(s) == \A t \in Slots : t # s => op'[t] = op[t]

(* The step of an operation that owns nothing changes no owner.            *)
LEMMA OwnersKept ==
    ASSUME OwnerInv, NEW s \in Slots, OnlySlot(s),
           op[s].step \notin {"resolveURL", "watching", "stopping", "stopStream", "stopped",
                             "stopPipeline"},
           UNCHANGED <<session, token, monitor, pipeline, calls>>
    PROVE  OwnerInv'
  <1>1. CallInv'
    BY DEF OwnerInv, CallInv, At, OnlySlot
  <1>2. LiveMonitorsOwned'
    BY DEF OwnerInv, LiveMonitorsOwned, Live, StoppedBy, OnlySlot
  <1>3. AccessNotLeaked'
    BY DEF OwnerInv, AccessNotLeaked, At, OnlySlot
  <1>4. StoppedPipelineNotRevived'
    BY DEF OwnerInv, StoppedPipelineNotRevived, StoppedBy, OnlySlot
  <1> QED BY <1>1, <1>2, <1>3, <1>4 DEF OwnerInv

(* A step of one operation leaves the other as it is.                      *)
LEMMA OneSlotAtATime ==
    ASSUME ControlInv, NEW s \in Slots, OperationStep(s)
    PROVE  OnlySlot(s)
  <1>0. op \in [Slots -> Operations]
    BY DEF ControlInv, OperationTypes
  <1>1. ASSUME NEW step, Go(s, step) PROVE OnlySlot(s)
    BY <1>0, <1>1 DEF Go, OnlySlot
  <1>2. ASSUME NEW state, Answer(s, state) PROVE OnlySlot(s)
    BY <1>0, <1>2 DEF Answer, OnlySlot
  <1>3. ASSUME NEW operation, op' = [op EXCEPT ![s] = operation] PROVE OnlySlot(s)
    BY <1>0, <1>3 DEF OnlySlot
  <1>4. ASSUME NEW step, NEW i,
               \/ op' = [op EXCEPT ![s].step = step, ![s].id = i]
               \/ op' = [op EXCEPT ![s].id = i, ![s].step = step]
        PROVE  OnlySlot(s)
    BY <1>0, <1>4 DEF OnlySlot
  <1>5. CASE Apply(s) \/ EndReload(s) \/ Write(s)
    BY <1>1, <1>3, <1>5 DEF Apply, EndReload, Write
  <1>6. CASE StartMonitoring(s) \/ Resolve(s) \/ BeginAccess(s)
    BY <1>1, <1>2, <1>4, <1>6 DEF StartMonitoring, Resolve, BeginAccess, FailMonitoring
  <1>7. CASE ResolveURL(s) \/ StartingReturns(s) \/ MakeStream(s) \/ StartReturns(s) \/ Project(s)
    BY <1>1, <1>2, <1>7 DEF ResolveURL, StartingReturns, MakeStream, StartReturns, Project,
                            FailMonitoring
  <1>8. CASE StopMonitoring(s) \/ PublishStop(s)
    BY <1>1, <1>2, <1>4, <1>8 DEF StopMonitoring, PublishStop, AfterStop
  <1>9. CASE StoppingReturns(s) \/ StreamStopped(s) \/ StopReturns(s) \/ StopPipeline(s)
    BY <1>1, <1>9 DEF StoppingReturns, StreamStopped, StopReturns, StopPipeline
  <1> QED BY <1>5, <1>6, <1>7, <1>8, <1>9 DEF OperationStep

(* What the operation in flight says of everybody's owner.                 *)
LEMMA Owned ==
    ASSUME ControlInv, OwnerInv, NEW s \in Slots, op[s].step # "idle"
    PROVE  /\ \A t \in Slots : t # s => op[t].step = "idle"
           /\ op[s].step # "resolveURL" => \A i \in Ids : token[i] # "operation"
           /\ op[s].step # "watching" => \A c \in calls : c.to # "watching"
           /\ op[s].step \notin {"stopping", "stopStream", "stopped", "stopPipeline"} =>
                  \A i \in Ids : Live(i) \/ pipeline[i] = "watching" => i = session
           /\ op[s].step \in StopSteps =>
                  /\ session = NoSession /\ op[s].id \in Ids
                  /\ \A i \in Ids : Live(i) \/ pipeline[i] = "watching" => i = op[s].id
  <1>1. \A t \in Slots : t # s => op[t].step = "idle"
    BY InFlight, Constants DEF ControlInv, OperationTypes, SingleOperation
  <1>2. op[s].step # "resolveURL" => \A i \in Ids : token[i] # "operation"
    BY <1>1 DEF OwnerInv, AccessNotLeaked, At
  <1>3. op[s].step # "watching" => \A c \in calls : c.to # "watching"
    BY <1>1 DEF OwnerInv, CallInv, At
  <1>4. op[s].step \notin {"stopping", "stopStream", "stopped", "stopPipeline"} =>
            \A i \in Ids : Live(i) \/ pipeline[i] = "watching" => i = session
    BY <1>1 DEF OwnerInv, LiveMonitorsOwned, StoppedPipelineNotRevived, StoppedBy
  <1>5. op[s].step \in StopSteps => session = NoSession /\ op[s].id \in Ids
    BY DEF ControlInv, OperationInv
  <1>6. op[s].step \in StopSteps =>
            \A i \in Ids : Live(i) \/ pipeline[i] = "watching" => i = op[s].id
    BY <1>1, <1>5, Constants
       DEF OwnerInv, LiveMonitorsOwned, StoppedPipelineNotRevived, StoppedBy, StopSteps
  <1> QED BY <1>1, <1>2, <1>3, <1>4, <1>5, <1>6

(* startMonitoring() hands what it begins to the table, or gives it back.  *)
LEMMA StartKeepsOwners ==
    ASSUME ControlInv, OwnerInv, NEW s \in Slots, OnlySlot(s),
           \/ StartMonitoring(s) \/ Resolve(s) \/ BeginAccess(s) \/ ResolveURL(s)
           \/ StartingReturns(s) \/ MakeStream(s) \/ StartReturns(s) \/ Project(s)
    PROVE  OwnerInv'
  <1> USE DEF At
  <1>0. /\ op \in [Slots -> Operations] /\ op[s] \in Operations
        /\ token \in [Ids -> {"none", "operation", "monitor", "released"}]
        /\ monitor \in [Ids -> MonitoringStates]
    BY InFlight DEF ControlInv, OperationTypes, DataTypes
  <1>1. CASE StartMonitoring(s) \/ Resolve(s) \/ StartingReturns(s) \/ Project(s)
    <2>1. /\ op[s].step \in {"startMonitoring", "resolve", "starting", "project"}
          /\ UNCHANGED <<session, token, monitor, pipeline, calls>>
      BY <1>1 DEF StartMonitoring, Resolve, StartingReturns, Project, monitorVars, callbackVars
    <2> QED BY <2>1, OwnersKept
  <1>2. CASE BeginAccess(s)
    <2>0. op[s].step = "beginAccess" /\ UNCHANGED <<session, monitor, pipeline, calls>>
      BY <1>2 DEF BeginAccess, callbackVars
    <2>1. ASSUME NEW i \in Ids, token' = [token EXCEPT ![i] = "operation"],
                 op' = [op EXCEPT ![s].step = "resolveURL", ![s].id = i]
          PROVE  OwnerInv'
      <3>1. op'[s].step = "resolveURL" /\ op'[s].id = i
        BY <1>0, <2>1 DEF Operations
      <3>2. /\ \A j \in Ids : token[j] # "operation"
            /\ \A c \in calls : c.to # "watching"
            /\ \A j \in Ids : Live(j) \/ pipeline[j] = "watching" => j = session
        BY <2>0, Owned
      <3>3. \A j \in Ids : Live(j)' => Live(j)
        BY <1>0, <2>0, <2>1 DEF Live
      <3>4. LiveMonitorsOwned' /\ StoppedPipelineNotRevived' /\ CallInv'
        BY <2>0, <3>2, <3>3 DEF LiveMonitorsOwned, StoppedPipelineNotRevived, CallInv
      <3>5. AccessNotLeaked'
        BY <1>0, <2>1, <3>1, <3>2 DEF AccessNotLeaked
      <3> QED BY <3>4, <3>5 DEF OwnerInv
    <2>2. CASE UNCHANGED token
      BY <2>0, <2>2, OwnersKept
    <2> QED BY <1>2, <2>1, <2>2 DEF BeginAccess
  <1>3. CASE ResolveURL(s)
    <2>0. /\ op[s].step = "resolveURL" /\ op[s].id \in Ids /\ session = NoSession
          /\ UNCHANGED pipeline
      BY <1>3 DEF ResolveURL, ControlInv, OperationInv
    <2>1. /\ \A t \in Slots : t # s => op[t].step = "idle"
          /\ \A c \in calls : c.to # "watching"
          /\ \A j \in Ids : Live(j) \/ pipeline[j] = "watching" => j = session
      BY <2>0, Owned
    <2>2. \A j \in Ids : ~Live(j) /\ pipeline[j] # "watching"
      BY <2>0, <2>1, Constants
    <2>3. \A j \in Ids : token[j] = "operation" => j = op[s].id
      BY <2>0, <2>1 DEF OwnerInv, AccessNotLeaked
    <2>4. CASE /\ session' = op[s].id /\ token' = [token EXCEPT ![op[s].id] = "monitor"]
               /\ Transition(op[s].id, "starting")
      <3>1. \A j \in Ids : Live(j)' => j = session'
        BY <1>0, <2>0, <2>2, <2>4 DEF Live, Transition
      <3>2. LiveMonitorsOwned' /\ StoppedPipelineNotRevived'
        BY <2>0, <2>2, <3>1 DEF LiveMonitorsOwned, StoppedPipelineNotRevived
      <3>3. AccessNotLeaked'
        BY <1>0, <2>0, <2>3, <2>4 DEF AccessNotLeaked
      <3>4. CallInv'
        BY <2>1, <2>4 DEF CallInv, Transition
      <3> QED BY <3>2, <3>3, <3>4 DEF OwnerInv
    <2>5. CASE /\ token' = [token EXCEPT ![op[s].id] = "released"]
               /\ UNCHANGED <<session, monitor, calls>>
      <3>1. \A j \in Ids : ~Live(j)'
        BY <1>0, <2>0, <2>2, <2>5 DEF Live
      <3>2. LiveMonitorsOwned' /\ StoppedPipelineNotRevived' /\ CallInv'
        BY <2>0, <2>1, <2>2, <2>5, <3>1 DEF LiveMonitorsOwned, StoppedPipelineNotRevived, CallInv
      <3>3. AccessNotLeaked'
        BY <1>0, <2>0, <2>3, <2>5 DEF AccessNotLeaked
      <3> QED BY <3>2, <3>3 DEF OwnerInv
    <2> QED BY <1>3, <2>4, <2>5 DEF ResolveURL
  <1>4. CASE MakeStream(s)
    <2>0. /\ op[s].step = "makeStream" /\ op[s].id = session /\ session \in Ids
          /\ UNCHANGED <<session, pipeline>>
      BY <1>4 DEF MakeStream, ControlInv, OperationInv
    <2>1. /\ \A j \in Ids : token[j] # "operation"
          /\ \A c \in calls : c.to # "watching"
          /\ \A j \in Ids : Live(j) \/ pipeline[j] = "watching" => j = session
      BY <2>0, Owned
    <2>2. ASSUME NEW state, Transition(op[s].id, state),
                 UNCHANGED token \/ token' = [token EXCEPT ![op[s].id] = "released"],
                 state = "watching" => op'[s].id = op[s].id /\ op'[s].step = "watching"
          PROVE  OwnerInv'
      <3>1. \A j \in Ids : Live(j)' => j = session
        BY <1>0, <2>0, <2>1, <2>2 DEF Live, Transition
      <3>2. LiveMonitorsOwned' /\ StoppedPipelineNotRevived'
        BY <2>0, <2>1, <3>1 DEF LiveMonitorsOwned, StoppedPipelineNotRevived
      <3>3. AccessNotLeaked'
        BY <1>0, <2>0, <2>1, <2>2 DEF AccessNotLeaked
      <3>4. CallInv'
        BY <2>1, <2>2 DEF CallInv, Transition
      <3> QED BY <3>2, <3>3, <3>4 DEF OwnerInv
    <2>3. CASE Transition(op[s].id, "watching") /\ Go(s, "watching") /\ UNCHANGED token
      <3>1. op'[s].id = op[s].id /\ op'[s].step = "watching"
        BY <1>0, <2>3 DEF Go, Operations
      <3> QED BY <2>2, <2>3, <3>1
    <2>4. CASE /\ Transition(op[s].id, "failed")
               /\ token' = [token EXCEPT ![op[s].id] = "released"]
      BY <2>2, <2>4
    <2>5. CASE UNCHANGED <<token, monitor, calls>>
      BY <2>0, <2>5, OwnersKept
    <2> QED BY <1>4, <2>3, <2>4, <2>5 DEF MakeStream
  <1>5. CASE StartReturns(s)
    <2>0. /\ UNCHANGED <<session, token, monitor, pipeline, calls>>
          /\ \/ op[s].step = "watching" /\ Returned(op[s].id, "watching")
             \/ op[s].step = "failing"
      BY <1>5 DEF StartReturns, monitorVars, callbackVars
    <2>1. CASE op[s].step = "watching" /\ Returned(op[s].id, "watching")
      <3>1. /\ \A t \in Slots : t # s => op[t].step = "idle"
            /\ \A j \in Ids : token[j] # "operation"
            /\ \A j \in Ids : Live(j) \/ pipeline[j] = "watching" => j = session
        BY <2>1, Owned
      <3>2. \A c \in calls : c.to # "watching"
        BY <2>1, <3>1 DEF OwnerInv, CallInv, Returned
      <3> QED BY <2>0, <3>1, <3>2
              DEF OwnerInv, CallInv, LiveMonitorsOwned, AccessNotLeaked,
                  StoppedPipelineNotRevived, Live
    <2>2. CASE op[s].step = "failing"
      BY <2>0, <2>2, OwnersKept
    <2> QED BY <2>0, <2>1, <2>2
  <1> QED BY <1>1, <1>2, <1>3, <1>4, <1>5

(* stopMonitoring() forgets only what has been released.                   *)
LEMMA StopKeepsOwners ==
    ASSUME ControlInv, OwnerInv, NEW s \in Slots, OnlySlot(s),
           \/ StopMonitoring(s) \/ StoppingReturns(s) \/ StreamStopped(s) \/ StopReturns(s)
           \/ StopPipeline(s) \/ PublishStop(s)
    PROVE  OwnerInv'
  <1> USE DEF At
  <1>0. /\ op \in [Slots -> Operations] /\ op[s] \in Operations
        /\ token \in [Ids -> {"none", "operation", "monitor", "released"}]
        /\ monitor \in [Ids -> MonitoringStates] /\ pipeline \in [Ids -> MonitoringStates]
        /\ session \in Ids \union {NoSession} /\ OperationInv(s) /\ SessionInv
    BY InFlight DEF ControlInv, OperationTypes, DataTypes
  <1>1. /\ op[s].step \in StopSteps \union {"stopMonitoring"} /\ op[s].step # "idle"
        /\ op[s].step \notin {"resolveURL", "watching"}
    BY DEF StopMonitoring, StoppingReturns, StreamStopped, StopReturns, StopPipeline, PublishStop,
           StopSteps
  <1>2. /\ \A j \in Ids : token[j] # "operation"
        /\ \A c \in calls : c.to # "watching"
    BY <1>1, Owned
  (* One monitor changes, if any, and whoever is live is being stopped.    *)
  <1>3. ASSUME NEW i \in Ids, op'[s].id = i,
               op'[s].step \in {"stopping", "stopStream", "stopped", "stopPipeline"},
               \A j \in Ids : Live(j) \/ pipeline[j] = "watching" => j = i,
               UNCHANGED pipeline,
               \/ UNCHANGED <<token, monitor, calls>>
               \/ Transition(i, "stopping") /\ UNCHANGED token
               \/ MonitorStopped(i)
        PROVE  OwnerInv'
    <2>1. \A j \in Ids : Live(j)' => j = i
      BY <1>0, <1>3 DEF Live, Transition, MonitorStopped
    <2>2. LiveMonitorsOwned' /\ StoppedPipelineNotRevived'
      BY <1>3, <2>1 DEF LiveMonitorsOwned, StoppedPipelineNotRevived, StoppedBy
    <2>3. AccessNotLeaked'
      BY <1>0, <1>2, <1>3 DEF AccessNotLeaked, MonitorStopped
    <2>4. CallInv'
      BY <1>2, <1>3 DEF CallInv, Transition, MonitorStopped
    <2> QED BY <2>2, <2>3, <2>4 DEF OwnerInv
  <1>4. CASE StopMonitoring(s)
    <2>0. op[s].step = "stopMonitoring" /\ UNCHANGED pipeline
      BY <1>4 DEF StopMonitoring
    <2>1. CASE session = NoSession /\ session' = NoSession /\ UNCHANGED <<token, monitor, calls>>
      BY <2>0, <2>1, OwnersKept
    <2>2. CASE session # NoSession
      <3>1. session \in Ids /\ \A j \in Ids : Live(j) \/ pipeline[j] = "watching" => j = session
        BY <1>0, <2>0, <2>2, Owned
      <3>2. ASSUME NEW step, op' = [op EXCEPT ![s].id = session, ![s].step = step]
            PROVE  op'[s].id = session /\ op'[s].step = step
        BY <1>0, <3>2 DEF Operations
      <3>3. /\ op'[s].id = session
            /\ op'[s].step \in {"stopping", "stopStream", "stopped", "stopPipeline"}
        BY <1>4, <2>2, <3>2 DEF StopMonitoring
      <3>4. \/ UNCHANGED <<token, monitor, calls>>
            \/ Transition(session, "stopping") /\ UNCHANGED token
            \/ MonitorStopped(session)
        BY <1>4, <2>2 DEF StopMonitoring
      <3> QED BY <1>3, <2>0, <3>1, <3>3, <3>4
    <2> QED BY <1>4, <2>1, <2>2 DEF StopMonitoring
  <1>5. ASSUME op[s].step \in StopSteps
        PROVE  op[s].id \in Ids /\ \A j \in Ids : Live(j) \/ pipeline[j] = "watching" => j = op[s].id
    BY <1>1, <1>5, Owned
  <1>6. ASSUME NEW step, Go(s, step)
        PROVE  op'[s].id = op[s].id /\ op'[s].step = step
    BY <1>0, <1>6 DEF Go, Operations
  <1>7. CASE StoppingReturns(s) \/ StopReturns(s)
    <2>1. /\ op[s].step \in StopSteps /\ UNCHANGED <<token, monitor, calls, pipeline>>
          /\ op'[s].id = op[s].id /\ op'[s].step \in {"stopStream", "stopPipeline"}
      BY <1>6, <1>7 DEF StoppingReturns, StopReturns, StopSteps, monitorVars, callbackVars
    <2> QED BY <1>3, <1>5, <2>1
  <1>8. CASE StreamStopped(s)
    <2>1. /\ op[s].step \in StopSteps /\ MonitorStopped(op[s].id) /\ UNCHANGED pipeline
          /\ op'[s].id = op[s].id /\ op'[s].step = "stopped"
      BY <1>6, <1>8 DEF StreamStopped, StopSteps
    <2> QED BY <1>3, <1>5, <2>1
  <1>9. CASE StopPipeline(s)
    <2>1. /\ op[s].step = "stopPipeline" /\ op[s].step \in StopSteps
          /\ UNCHANGED <<token, monitor, calls, session>>
          /\ pipeline' = [pipeline EXCEPT ![op[s].id] = "stopped"]
      BY <1>9 DEF StopPipeline, StopSteps, monitorVars, callbackVars
    <2>2. monitor[op[s].id] = "stopped" /\ token[op[s].id] = "released"
      BY <1>0, <2>1 DEF OperationInv
    <2>3. \A j \in Ids : ~Live(j) /\ pipeline'[j] # "watching"
      BY <1>0, <1>5, <2>1, <2>2 DEF Live
    <2>4. LiveMonitorsOwned' /\ StoppedPipelineNotRevived'
      BY <2>1, <2>3 DEF LiveMonitorsOwned, StoppedPipelineNotRevived, Live
    <2>5. AccessNotLeaked' /\ CallInv'
      BY <1>2, <2>1 DEF AccessNotLeaked, CallInv
    <2> QED BY <2>4, <2>5 DEF OwnerInv
  <1>10. CASE PublishStop(s)
    <2>1. /\ op[s].step = "publishStop"
          /\ UNCHANGED <<session, token, monitor, pipeline, calls>>
      BY <1>10 DEF PublishStop, monitorVars, callbackVars
    <2> QED BY <2>1, OwnersKept
  <1> QED BY <1>4, <1>7, <1>8, <1>9, <1>10

(* A callback under way goes on, or comes to its end.                      *)
LEMMA CallbacksKeepOwners ==
    ASSUME ControlInv, OwnerInv, UNCHANGED <<op, session>>,
           \/ \E i \in Ids : EnterRecovery(i) \/ FinishRecovery(i)
           \/ \E c \in calls : CallStep(c)
           \/ UNCHANGED <<token, monitor, pipeline, calls>>
    PROVE  OwnerInv'
  <1> USE DEF At
  <1>0. /\ token \in [Ids -> {"none", "operation", "monitor", "released"}]
        /\ monitor \in [Ids -> MonitoringStates] /\ pipeline \in [Ids -> MonitoringStates]
        /\ calls \subseteq Calls
    BY DEF ControlInv, DataTypes
  <1>1. CallInv /\ LiveMonitorsOwned /\ AccessNotLeaked /\ StoppedPipelineNotRevived
    BY DEF OwnerInv
  <1>2. ASSUME NEW i \in Ids, EnterRecovery(i)
        PROVE  OwnerInv'
    <2>1. Transition(i, "recovering") /\ UNCHANGED <<token, pipeline>>
      BY <1>2 DEF EnterRecovery
    <2>2. \A j \in Ids : Live(j)' => Live(j)
      BY <1>0, <2>1 DEF Live, Transition
    <2>3. LiveMonitorsOwned' /\ AccessNotLeaked' /\ StoppedPipelineNotRevived'
      BY <1>1, <2>1, <2>2
         DEF LiveMonitorsOwned, AccessNotLeaked, StoppedPipelineNotRevived, StoppedBy
    <2>4. CallInv'
      BY <1>1, <2>1 DEF CallInv, Transition
    <2> QED BY <2>3, <2>4 DEF OwnerInv
  <1>3. ASSUME NEW i \in Ids, FinishRecovery(i)
        PROVE  OwnerInv'
    <2>1. token' = [token EXCEPT ![i] = "released"] /\ UNCHANGED <<monitor, pipeline, calls>>
      BY <1>3 DEF FinishRecovery, callbackVars
    <2>2. \A j \in Ids : Live(j)' => Live(j)
      BY <1>0, <2>1 DEF Live
    <2>3. \A j \in Ids : token'[j] = "operation" => token[j] = "operation"
      BY <1>0, <2>1
    <2>4. LiveMonitorsOwned' /\ AccessNotLeaked' /\ StoppedPipelineNotRevived' /\ CallInv'
      BY <1>1, <2>1, <2>2, <2>3
         DEF LiveMonitorsOwned, AccessNotLeaked, StoppedPipelineNotRevived, StoppedBy, CallInv
    <2> QED BY <2>4 DEF OwnerInv
  <1>4. ASSUME NEW c \in calls, CallStep(c)
        PROVE  OwnerInv'
    <2>0. c \in Calls /\ c.id \in Ids
      BY <1>0 DEF Calls
    <2>1. UNCHANGED <<token, monitor>>
      BY <1>4 DEF CallStep, SetMonitoringState, ReadState, PublishState, monitorVars
    <2>2. \A d \in calls' : \E e \in calls : d.id = e.id /\ d.to = e.to
      <3>1. CASE SetMonitoringState(c)
        <4>1. /\ [c EXCEPT !.step = "read"].id = c.id
              /\ [c EXCEPT !.step = "read"].to = c.to
          BY <2>0 DEF Calls
        <4> QED BY <3>1, <4>1 DEF SetMonitoringState
      <3>2. CASE ReadState(c)
        <4>1. /\ [c EXCEPT !.step = "publish", !.seen = pipeline[c.id]].id = c.id
              /\ [c EXCEPT !.step = "publish", !.seen = pipeline[c.id]].to = c.to
          BY <2>0 DEF Calls
        <4> QED BY <3>2, <4>1 DEF ReadState
      <3>3. CASE PublishState(c)
        BY <3>3 DEF PublishState
      <3> QED BY <1>4, <3>1, <3>2, <3>3 DEF CallStep
    <2>3. CallInv'
      BY <1>1, <2>2 DEF CallInv
    <2>4. c.to = "watching" => c.id = session
      BY <1>1 DEF CallInv, ControlInv, OperationInv
    <2>5. \A j \in Ids : pipeline'[j] = "watching" => pipeline[j] = "watching" \/ j = session
      <3>1. UNCHANGED pipeline \/ pipeline' = [pipeline EXCEPT ![c.id] = c.to]
        BY <1>4 DEF CallStep, SetMonitoringState, ReadState, PublishState
      <3> QED BY <1>0, <2>0, <2>4, <3>1
    <2>6. LiveMonitorsOwned' /\ AccessNotLeaked' /\ StoppedPipelineNotRevived'
      BY <1>1, <2>1, <2>5
         DEF LiveMonitorsOwned, AccessNotLeaked, StoppedPipelineNotRevived, StoppedBy, Live
    <2> QED BY <2>3, <2>6 DEF OwnerInv
  <1>5. CASE UNCHANGED <<token, monitor, pipeline, calls>>
    BY <1>1, <1>5
       DEF OwnerInv, LiveMonitorsOwned, AccessNotLeaked, StoppedPipelineNotRevived, StoppedBy,
           Live, CallInv
  <1> QED BY <1>2, <1>3, <1>4, <1>5

(* No step leaves a live monitor, an access or a watching pipeline         *)
(* unowned.                                                                *)
LEMMA StepKeepsOwners == ControlInv /\ OwnerInv /\ [Next]_vars => OwnerInv'
  <1> SUFFICES ASSUME ControlInv, OwnerInv, [Next]_vars PROVE OwnerInv'
    OBVIOUS
  <1>0. op \in [Slots -> Operations]
    BY DEF ControlInv, OperationTypes
  <1>1. ASSUME NEW s \in Slots, OperationStep(s) PROVE OwnerInv'
    <2>1. OnlySlot(s)
      BY <1>1, OneSlotAtATime
    <2>2. CASE Apply(s) \/ EndReload(s) \/ Write(s)
      <3>1. /\ op[s].step \in {"answered", "reload", "write"}
            /\ UNCHANGED <<session, token, monitor, pipeline, calls>>
        BY <2>2 DEF Apply, EndReload, Write, At, monitorVars, callbackVars
      <3> QED BY <2>1, <3>1, OwnersKept
    <2> QED BY <1>1, <2>1, <2>2, StartKeepsOwners, StopKeepsOwners DEF OperationStep
  <1>2. ASSUME NEW s \in Slots, NEW kind, NEW step, Begin(s, kind, step)
        PROVE  OwnerInv'
    <2>1. op[s] = Idle /\ OnlySlot(s) /\ UNCHANGED <<session, token, monitor, pipeline, calls>>
      BY <1>0, <1>2 DEF Begin, MayBegin, OnlySlot, monitorVars, callbackVars,
                        ControlInv, OperationTypes
    <2> QED BY <2>1, OwnersKept, Constants
  <1>3. "runtime" \in Slots /\ "mutation" \in Slots
    BY DEF Slots
  <1>4. CASE BeginStart \/ BeginStop \/ BeginRetry \/ BeginReload
    BY <1>2, <1>3, <1>4 DEF BeginStart, BeginStop, BeginRetry, BeginReload
  <1>5. CASE \E k \in MutationKinds : BeginMutation(k)
    BY <1>2, <1>3, <1>5 DEF BeginMutation
  <1>6. CASE \/ \E i \in Ids : EnterRecovery(i) \/ FinishRecovery(i)
             \/ \E c \in calls : CallStep(c)
    <2>1. UNCHANGED <<op, session>>
      BY <1>6 DEF EnterRecovery, FinishRecovery, CallStep, SetMonitoringState, ReadState, PublishState
    <2> QED BY <1>6, <2>1, CallbacksKeepOwners
  <1>7. CASE \/ \E i \in Ids : BatchBroadcast(i)
             \/ \E b \in batches : BatchStep(b)
             \/ ApplyUpdate
             \/ UNCHANGED vars
    <2>1. UNCHANGED <<op, session, token, monitor, pipeline, calls>>
      BY <1>7 DEF BatchBroadcast, BatchStep, BatchSettled, ReadForBatch, PublishBatch, ApplyUpdate,
                  vars, monitorVars, callbackVars
    <2> QED BY <2>1, CallbacksKeepOwners
  <1> QED BY <1>1, <1>4, <1>5, <1>6, <1>7 DEF Next, Due

(* The invariant the run checks: types, and an owner for every live        *)
(* monitor, every access begun and every pipeline that watches, however    *)
(* the service's awaits interleave with callbacks.                         *)
THEOREM ServiceInvariant == Spec => []ServiceInv
  <1>1. Spec => [](ControlInv /\ OwnerInv)
    BY ControlInitially, OwnersInitially, StepKeepsControl, StepKeepsOwners, PTL DEF Spec
  <1>2. ControlInv /\ OwnerInv => ServiceInv
    BY TypesFromControl DEF OwnerInv, ServiceInv
  <1> QED BY <1>1, <1>2, PTL

(* Nothing of a project that is disabled or removed, or whose removal is   *)
(* being written to the store, is monitored.                               *)
THEOREM DisabledNotMonitored == Spec => []NotMonitoredWhenDisabled
  <1>1. Spec => [](ControlInv /\ OwnerInv)
    BY ControlInitially, OwnersInitially, StepKeepsControl, StepKeepsOwners, PTL DEF Spec
  <1>2. ControlInv /\ OwnerInv => NotMonitoredWhenDisabled
    <2> SUFFICES ASSUME ControlInv, OwnerInv PROVE NotMonitoredWhenDisabled
      OBVIOUS
    <2>1. ASSUME project # "enabled"
          PROVE  session = NoSession /\ \A i \in Ids : ~Live(i)
      <3>1. session = NoSession
        BY <2>1 DEF ControlInv, SessionInv
      <3>2. \A s \in Slots, i \in Ids : ~StoppedBy(s, i)
        BY <2>1 DEF ControlInv, OperationInv, StoppedBy, StopSteps
      <3> QED BY <3>1, <3>2, Constants DEF OwnerInv, LiveMonitorsOwned
    <2>2. ASSUME NEW s \in Slots, At(s, "write"), op[s].kind \in Stopping
          PROVE  session = NoSession /\ \A i \in Ids : ~Live(i)
      <3>1. s = "mutation" /\ op[s].kind \in {"disable", "repair", "remove"}
        BY <2>2 DEF ControlInv, OperationInv, At, Stopping, MutationKinds
      <3>2. session = NoSession
        BY <2>2, <3>1 DEF ControlInv, OperationInv, At
      <3>3. op[s].step = "write"
        BY <2>2 DEF At
      <3> QED BY <3>2, <3>3, Owned, Constants
    <2> QED BY <2>1, <2>2 DEF NotMonitoredWhenDisabled
  <1> QED BY <1>1, <1>2, PTL
===============================================================================
