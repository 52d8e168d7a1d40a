--------------------------- MODULE ProjectPipeline ---------------------------
(***************************************************************************)
(* The actor ProjectPipeline (Pipeline/ProjectPipeline.swift) on top of    *)
(* its ChangeBatcher.  The two are different actors: a call of the batcher *)
(* is a message that runs later and in no particular order, so between a   *)
(* guard of the pipeline and its effect on the batcher the monitoring      *)
(* state may change.  A broadcast runs in a detached task that the         *)
(* pipeline can only cancel.  The server is external here.                 *)
(***************************************************************************)
EXTENDS ChangeBatcher

CONSTANT MaxCancels   \* bound: state changes whose batcher.cancel() is outstanding

VARIABLES
    monitoringState,
    broadcastGeneration,
    broadcasts,    \* tasks in broadcastTasks, with the call that awaits each
    latestBatch,   \* generation of the batch last reported, or none
    submitting,    \* receive() calls on their way into batcher.submit()
    cancelsDue,    \* batcher.cancel() calls on their way
    delivered      \* history: decisions sent to the browsers, in order

pipelineVars == <<monitoringState, broadcastGeneration, broadcasts, latestBatch,
                  submitting, cancelsDue, delivered>>
vars == <<batcherVars, pipelineVars>>

(* MonitoringRuntimeState, as far as the pipeline tells its values apart:  *)
(* it compares them with .watching only.  "over" is .stopping, .stopped,   *)
(* .recovering or .failed, once the monitor was started.                   *)
States == {"stopped", "starting", "watching", "over"}

(* What the owner reports: a ProjectMonitor that is started once.  The     *)
(* report of its stop and that of a recovery may come in either order.     *)
Successors(s) ==
    CASE s = "stopped"  -> {"starting"}
      [] s = "starting" -> {"watching", "over"}
      [] OTHER          -> {"over"}

(* A decision is known by the generation of its batch; a manual one by 0.  *)
Manual == 0

Broadcast(d) == [decision |-> d, step |-> "created",
                 generation |-> broadcastGeneration, cancelled |-> FALSE]

BroadcastRecords == [decision : Nat, step : {"created", "sending", "returned"},
                     generation : Nat, cancelled : BOOLEAN]

At(x, step) == (broadcasts \ {x}) \union {[x EXCEPT !.step = step]}

Init ==
    /\ BatcherInit
    /\ monitoringState = "stopped"
    /\ broadcastGeneration = 0
    /\ broadcasts = {}
    /\ latestBatch = NoGeneration
    /\ submitting = {}
    /\ cancelsDue = 0
    /\ delivered = <<>>
------------------------------------------------------------------------------
(* cancelBroadcasts() and the call of batcher.cancel() that follows it.    *)
CancelBatcherOnly ==
    /\ cancelsDue < MaxCancels
    /\ cancelsDue' = cancelsDue + 1
    /\ UNCHANGED <<broadcastGeneration, broadcasts>>

CancelEverything ==
    /\ cancelsDue < MaxCancels
    /\ broadcastGeneration' = broadcastGeneration + 1
    /\ broadcasts' = {[x EXCEPT !.cancelled = TRUE] : x \in broadcasts}
    /\ cancelsDue' = cancelsDue + 1

(* setMonitoringState(): the monitor's start() awaits its earlier call,    *)
(* batcher.cancel() included, before it makes the next.                    *)
SetMonitoringState(s) ==
    /\ s \in Successors(monitoringState)
    /\ s = "watching" => cancelsDue = 0
    /\ monitoringState' = s
    /\ \/ s = "watching" /\ UNCHANGED <<broadcastGeneration, broadcasts, cancelsDue>>
       \/ s # "watching" /\ CancelEverything
    /\ UNCHANGED <<batcherVars, latestBatch, submitting, delivered>>

Stop ==
    /\ monitoringState = "over"   \* the monitor stopped before
    /\ monitoringState' = "over"
    /\ CancelEverything
    /\ UNCHANGED <<batcherVars, latestBatch, submitting, delivered>>

(* receive(): its caller, the monitor's signal task, awaits each call.     *)
Receive(p) ==
    /\ monitoringState = "watching" /\ submitting = {}
    /\ submitting' = {p}
    /\ UNCHANGED <<batcherVars, monitoringState, broadcastGeneration, broadcasts,
                   latestBatch, cancelsDue, delivered>>

SubmitArrives(p) ==
    /\ p \in submitting /\ submitting' = {}
    /\ Submit(p) \/ SubmitExcluded(p)
    /\ UNCHANGED <<monitoringState, broadcastGeneration, broadcasts, latestBatch,
                   cancelsDue, delivered>>

CancelArrives ==
    /\ cancelsDue > 0 /\ cancelsDue' = cancelsDue - 1
    /\ Cancel
    /\ UNCHANGED <<monitoringState, broadcastGeneration, broadcasts, latestBatch,
                   submitting, delivered>>

BatcherStep == TaskStep /\ UNCHANGED pipelineVars

(* The batcher's handler: broadcast(_:) up to the await of the task.       *)
BroadcastAnyBatch(b) ==
    /\ Handle(b)
    /\ broadcasts' = broadcasts \union {Broadcast(b.generation)}
    /\ UNCHANGED <<monitoringState, broadcastGeneration, latestBatch, submitting,
                   cancelsDue, delivered>>

BroadcastBatch(b) ==
    /\ Handle(b)
    /\ broadcasts' = IF monitoringState = "watching"
                     THEN broadcasts \union {Broadcast(b.generation)} ELSE broadcasts
    /\ UNCHANGED <<monitoringState, broadcastGeneration, latestBatch, submitting,
                   cancelsDue, delivered>>

(* manualReload(): the app runs one at a time per project.  Bound: one     *)
(* delivered manual reload per behaviour.                                  *)
ManualReload ==
    /\ monitoringState = "watching"
    /\ Manual \notin {x.decision : x \in broadcasts} \union ToSet(delivered)
    /\ broadcasts' = broadcasts \union {Broadcast(Manual)}
    /\ UNCHANGED <<batcherVars, monitoringState, broadcastGeneration, latestBatch,
                   submitting, cancelsDue, delivered>>

(* The body of the broadcast task: its own cancellation check, then the    *)
(* server, which checks the cancellation again before a frame is written.  *)
BeginUncancelledBroadcast(x) ==
    /\ x \in broadcasts /\ x.step = "created" /\ ~x.cancelled
    /\ broadcasts' = At(x, "sending")
    /\ UNCHANGED <<batcherVars, monitoringState, broadcastGeneration, latestBatch,
                   submitting, cancelsDue, delivered>>

BeginBroadcast(x) ==
    /\ x \in broadcasts /\ x.step = "created"
    /\ broadcasts' = At(x, IF x.cancelled THEN "returned" ELSE "sending")
    /\ UNCHANGED <<batcherVars, monitoringState, broadcastGeneration, latestBatch,
                   submitting, cancelsDue, delivered>>

ServerDelivers(x) ==
    /\ x \in broadcasts /\ x.step = "sending" /\ ~x.cancelled
    /\ delivered' = Append(delivered, x.decision)
    /\ broadcasts' = At(x, "returned")
    /\ UNCHANGED <<batcherVars, monitoringState, broadcastGeneration, latestBatch,
                   submitting, cancelsDue>>

ServerSkips(x) ==
    /\ x \in broadcasts /\ x.step = "sending"
    /\ broadcasts' = At(x, "returned")
    /\ UNCHANGED <<batcherVars, monitoringState, broadcastGeneration, latestBatch,
                   submitting, cancelsDue, delivered>>

(* performBroadcast() resumes with the task's value.                       *)
FinishBroadcast(x) ==
    /\ x \in broadcasts /\ x.step = "returned"
    /\ broadcasts' = broadcasts \ {x}
    /\ latestBatch' =
          IF /\ x.generation = broadcastGeneration
             /\ monitoringState = "watching" /\ ~x.cancelled
             /\ x.decision # Manual
          THEN x.decision ELSE latestBatch
    /\ UNCHANGED <<batcherVars, monitoringState, broadcastGeneration, submitting,
                   cancelsDue, delivered>>

BroadcastStep(d) ==
    \E x \in {y \in broadcasts : y.decision = d} :
        \/ BeginBroadcast(x)
        \/ ServerDelivers(x)
        \/ ServerSkips(x)
        \/ FinishBroadcast(x)

Decisions == 0 .. MaxGeneration

Next ==
    \/ \E s \in States : SetMonitoringState(s)
    \/ Stop
    \/ \E p \in Paths : Receive(p)
    \/ ManualReload
    \/ \E p \in submitting : SubmitArrives(p)
    \/ CancelArrives
    \/ BatcherStep
    \/ \E b \in settled : BroadcastBatch(b)
    \/ \E d \in Decisions : BroadcastStep(d)

(* The runtime runs every message, every settling task and every broadcast *)
(* task; a write to a browser either makes progress or fails after 100 ms. *)
(* Files, users and state changes owe nothing.                             *)
Fairness ==
    /\ WF_vars(\E p \in submitting : SubmitArrives(p))
    /\ WF_vars(CancelArrives)
    /\ WF_vars(BatcherStep)
    /\ WF_vars(\E b \in settled : BroadcastBatch(b))
    /\ WF_vars(BroadcastStep(Manual))
    /\ WF_vars(\E d \in Decisions \ {Manual} : BroadcastStep(d))

Spec == Init /\ [][Next]_vars /\ Fairness
------------------------------------------------------------------------------
TypeOK ==
    /\ BatcherTypeOK
    /\ monitoringState \in States
    /\ broadcastGeneration \in Nat
    /\ broadcasts \subseteq BroadcastRecords
    /\ latestBatch \in Nat
    /\ submitting \subseteq Paths
    /\ cancelsDue \in Nat
    /\ delivered \in Seq(Nat)

(* A task that is not cancelled was created in the current watching        *)
(* period: a change of state leaves no broadcast behind that could still   *)
(* send or report.                                                         *)
OnlyCurrentBroadcastsLive ==
    \A x \in broadcasts : ~x.cancelled =>
        monitoringState = "watching" /\ x.generation = broadcastGeneration

(* The types; every live broadcast belongs to the current watch; and a     *)
(* settled batch produces no more than one reload (SC-003).                *)
PipelineInv == TypeOK /\ OnlyCurrentBroadcastsLive /\ IsInjective(delivered)

(* Every settled batch is eventually broadcast, refused or cancelled: as   *)
(* batches are finitely many here, at some moment none is left.            *)
Undone(d) == d \in {b.generation : b \in settled} \union {x.decision : x \in broadcasts}

BatchEventuallyDone == []<>(\A d \in Decisions \ {Manual} : ~Undone(d))

(* The pipeline implements ReloadDecisions: timers, generations, late      *)
(* messages and cancelled tasks are invisible in it.                       *)
Watching == monitoringState = "watching"

Abstract == INSTANCE ReloadDecisions WITH
    Change <- Paths \ Excluded,
    Decision <- 1 .. MaxGeneration,
    watched <- Watching,
    pending <- IF Watching THEN ToSet(orderedPaths) ELSE {},
    decided <- IF Watching
               THEN {b.generation : b \in settled} \union
                    {x.decision : x \in {y \in broadcasts :
                        y.step # "returned" /\ y.decision # Manual}}
               ELSE {},
    sent <- ToSet(delivered) \ {Manual}

ImplementsReloadDecisions == Abstract!Spec
==============================================================================
