--------------------------- MODULE RuntimeService ---------------------------
(***************************************************************************)
(* One project between the user and its monitor: AppModel's operations and *)
(* gates, the service's session table and projections, and the two ways a  *)
(* projection reaches the screen, an operation's answer and the update     *)
(* stream.  Every hop between actors is a step.  ProjectMonitor and        *)
(* ProjectPipeline are seen from here: the monitor's state and callbacks,  *)
(* the state the pipeline holds.  A projection is its monitoring state.    *)
(***************************************************************************)
EXTENDS SequencesExt, Naturals

CONSTANTS MaxSessions,    \* bound: folder accesses begun
          MaxOperations,  \* bound: operations the user asks for
          MaxBatches      \* bound: batches settled

ASSUME ServiceConstants == /\ MaxSessions \in Nat /\ MaxOperations \in Nat
                           /\ MaxBatches \in Nat

Ids == 1 .. MaxSessions
NoSession == 0
Slots == {"runtime", "mutation"}
RuntimeKinds == {"start", "stop", "retry", "reload"}
MutationKinds == {"rename", "enable", "disable", "repair", "remove"}
Stopping == {"stop", "retry", "disable", "repair", "remove"}
Steps == {"idle", "startMonitoring", "resolve", "beginAccess", "resolveURL", "starting",
          "makeStream", "watching", "failing", "project", "answered", "reload",
          "stopMonitoring", "stopping", "stopStream", "stopped", "stopPipeline", "publishStop",
          "write"}
MonitoringStates == {"stopped", "starting", "watching", "stopping", "recovering", "failed"}

VARIABLES
    project,    \* what the store holds of it
    gates,      \* the gates it is in: runtime operation, mutation
    op,         \* the operation in each gate and where it is
    session,    \* the service's session for the project, or none
    token,      \* the owner of each folder access
    monitor,    \* each monitor's state
    recovery,   \* enterRecovery(): "no", "called" or "done"
    pipeline,   \* the monitoring state each pipeline holds
    calls,      \* state callbacks under way
    batches,    \* batchSettled() callbacks under way
    updates,    \* the update stream
    shown,      \* the projection on the screen
    asked,      \* operations asked for, for the bound
    settled     \* batches settled, for the bound

appVars == <<project, gates, asked>>
monitorVars == <<token, monitor, recovery>>
callbackVars == <<calls, batches, settled>>
screenVars == <<updates, shown>>
vars == <<appVars, op, session, monitorVars, pipeline, callbackVars, screenVars>>

Idle == [kind |-> "none", step |-> "idle", id |-> NoSession, answer |-> "stopped"]

Init ==
    /\ project = "enabled" /\ gates = {} /\ asked = 0
    /\ op = [s \in Slots |-> Idle]
    /\ session = NoSession
    /\ token = [i \in Ids |-> "none"]
    /\ monitor = [i \in Ids |-> "stopped"]
    /\ recovery = [i \in Ids |-> "no"]
    /\ pipeline = [i \in Ids |-> "stopped"]
    /\ calls = {} /\ batches = {} /\ settled = 0
    /\ updates = <<>> /\ shown = "stopped"
------------------------------------------------------------------------------
At(s, step) == op[s].step = step
Go(s, step) == op' = [op EXCEPT ![s].step = step]
Answer(s, state) == op' = [op EXCEPT ![s].step = "answered", ![s].answer = state]
PublishProject(state) == updates' = Append(updates, state)

(* ProjectMonitor.transition(): the state changes, the callback sets off.  *)
Transition(i, state) ==
    /\ monitor' = [monitor EXCEPT ![i] = state]
    /\ calls' = calls \cup {[id |-> i, to |-> state, step |-> "set", seen |-> state]}

Returned(i, state) == \A c \in calls : c.id # i \/ c.to # state

(* beginRuntimeOperation() and beginMutation(): each looks at both gates.  *)
MayBeginInOwnGate(s) == s \notin gates

MayBegin(s) == gates = {}
------------------------------------------------------------------------------
(* The user asks, and the main actor runs up to the first await.           *)
Begin(s, kind, step) ==
    /\ asked < MaxOperations /\ asked' = asked + 1
    /\ project # "removed" /\ MayBegin(s)
    /\ gates' = gates \cup {s}
    /\ op' = [op EXCEPT ![s] = [Idle EXCEPT !.kind = kind, !.step = step]]
    /\ UNCHANGED <<project, session, monitorVars, pipeline, callbackVars, updates>>

BeginStart ==
    /\ project = "enabled" /\ shown' = "starting"
    /\ Begin("runtime", "start", "startMonitoring")

BeginStop == shown' = "stopping" /\ Begin("runtime", "stop", "stopMonitoring")

BeginRetry ==
    /\ project = "enabled" /\ shown' = "starting"
    /\ Begin("runtime", "retry", "stopMonitoring")

BeginReload == shown = "watching" /\ UNCHANGED shown /\ Begin("runtime", "reload", "reload")

BeginMutation(kind) ==
    /\ UNCHANGED shown
    /\ Begin("mutation", kind, IF kind \in Stopping THEN "stopMonitoring" ELSE "write")

(* Apply, when a failed start leaves its gate shut.                        *)
ApplyKeepingGate(s) ==
    /\ At(s, "answered")
    /\ shown' = op[s].answer
    /\ IF s = "mutation" THEN Go(s, "write") /\ UNCHANGED gates
                         ELSE /\ op' = [op EXCEPT ![s] = Idle]
                              /\ gates' = IF op[s].answer = "failed" THEN gates ELSE gates \ {s}
    /\ UNCHANGED <<project, asked, session, monitorVars, pipeline, callbackVars, updates>>

(* The answer is back on the main actor: it is shown, and a mutation goes  *)
(* on to the store.                                                        *)
Apply(s) ==
    /\ At(s, "answered")
    /\ shown' = op[s].answer
    /\ IF s = "mutation" THEN Go(s, "write") /\ UNCHANGED gates
                         ELSE op' = [op EXCEPT ![s] = Idle] /\ gates' = gates \ {s}
    /\ UNCHANGED <<project, asked, session, monitorVars, pipeline, callbackVars, updates>>

EndReload(s) ==
    /\ At(s, "reload")
    /\ op' = [op EXCEPT ![s] = Idle] /\ gates' = gates \ {s}
    /\ UNCHANGED <<project, asked, session, monitorVars, pipeline, callbackVars, screenVars>>

Written(kind) == CASE kind = "enable" -> "enabled"
                   [] kind = "disable" -> "disabled"
                   [] kind = "remove" -> "removed"
                   [] OTHER -> project

(* The store writes, or fails and changes nothing.                         *)
Write(s) ==
    /\ At(s, "write")
    /\ \/ project' = Written(op[s].kind)
       \/ UNCHANGED project
    /\ shown' = IF project' = "removed" THEN "stopped" ELSE shown
    /\ op' = [op EXCEPT ![s] = Idle] /\ gates' = gates \ {s}
    /\ UNCHANGED <<asked, session, monitorVars, pipeline, callbackVars, updates>>
------------------------------------------------------------------------------
(* startMonitoring(): the table is looked at here and written to in        *)
(* ResolveURL, with awaits in between.                                     *)
StartMonitoring(s) ==
    /\ At(s, "startMonitoring")
    /\ \/ session # NoSession
          /\ op' = [op EXCEPT ![s].step = "project", ![s].id = session]
          /\ UNCHANGED updates
       \/ session = NoSession
          /\ Go(s, "resolve") /\ PublishProject("starting")
    /\ UNCHANGED <<appVars, session, monitorVars, pipeline, callbackVars, shown>>

FailMonitoring(s) == Answer(s, "failed") /\ PublishProject("failed")

Resolve(s) ==
    /\ At(s, "resolve")
    /\ \/ Go(s, "beginAccess") /\ UNCHANGED updates
       \/ FailMonitoring(s)
    /\ UNCHANGED <<appVars, session, monitorVars, pipeline, callbackVars, shown>>

BeginAccess(s) ==
    /\ At(s, "beginAccess")
    /\ \/ \E i \in Ids : /\ \A j \in Ids : token[j] = "none" <=> j >= i
                         /\ token' = [token EXCEPT ![i] = "operation"]
                         /\ op' = [op EXCEPT ![s].step = "resolveURL", ![s].id = i]
                         /\ UNCHANGED updates
       \/ FailMonitoring(s) /\ UNCHANGED token
    /\ UNCHANGED <<appVars, session, monitor, recovery, pipeline, callbackVars, shown>>

(* ResolveURL, when a failure keeps the access.                            *)
ResolveURLKeepingAccess(s) ==
    /\ At(s, "resolveURL")
    /\ LET i == op[s].id IN
       \/ /\ session' = i /\ token' = [token EXCEPT ![i] = "monitor"]
          /\ Transition(i, "starting") /\ Go(s, "starting") /\ UNCHANGED updates
       \/ FailMonitoring(s) /\ UNCHANGED <<session, token, monitor, calls>>
    /\ UNCHANGED <<appVars, recovery, pipeline, batches, settled, shown>>

(* The URL, the pipeline and the monitor; or a failure.                    *)
ResolveURL(s) ==
    /\ At(s, "resolveURL")
    /\ LET i == op[s].id IN
       \/ /\ session' = i /\ token' = [token EXCEPT ![i] = "monitor"]
          /\ Transition(i, "starting") /\ Go(s, "starting") /\ UNCHANGED updates
       \/ /\ token' = [token EXCEPT ![i] = "released"]
          /\ FailMonitoring(s) /\ UNCHANGED <<session, monitor, calls>>
    /\ UNCHANGED <<appVars, recovery, pipeline, batches, settled, shown>>

StartingReturns(s) ==
    /\ At(s, "starting") /\ Returned(op[s].id, "starting")
    /\ Go(s, "makeStream")
    /\ UNCHANGED <<appVars, session, monitorVars, pipeline, callbackVars, screenVars>>

(* makeStream() answers; a monitor stopped meanwhile lets the stream go.   *)
MakeStream(s) ==
    /\ At(s, "makeStream")
    /\ LET i == op[s].id IN
       \/ monitor[i] = "starting" /\ Transition(i, "watching") /\ Go(s, "watching")
          /\ UNCHANGED token
       \/ monitor[i] = "starting" /\ Transition(i, "failed") /\ Go(s, "failing")
          /\ token' = [token EXCEPT ![i] = "released"]
       \/ monitor[i] # "starting" /\ Go(s, "project") /\ UNCHANGED <<token, monitor, calls>>
    /\ UNCHANGED <<appVars, session, recovery, pipeline, batches, settled, screenVars>>

StartReturns(s) ==
    /\ \/ At(s, "watching") /\ Returned(op[s].id, "watching")
       \/ At(s, "failing") /\ Returned(op[s].id, "failed")
    /\ Go(s, "project")
    /\ UNCHANGED <<appVars, session, monitorVars, pipeline, callbackVars, screenVars>>

(* projection(): the answer is what the pipeline holds at this moment.     *)
Project(s) ==
    /\ At(s, "project")
    /\ Answer(s, pipeline[op[s].id])
    /\ UNCHANGED <<appVars, session, monitorVars, pipeline, callbackVars, screenVars>>
------------------------------------------------------------------------------
AfterStop(s) == IF op[s].kind = "retry"
                THEN Go(s, "startMonitoring")
                ELSE Answer(s, "stopped")

HasStream(i) == monitor[i] \in {"stopping", "recovering"} /\ recovery[i] # "done"

(* The rest of ProjectMonitor.stop(), from the stream's stop on.           *)
MonitorStopped(i) ==
    /\ token' = [token EXCEPT ![i] = "released"]
    /\ Transition(i, "stopped")

(* stopMonitoring(), when only the pipeline is stopped.                     *)
StopMonitoringPipelineOnly(s) ==
    /\ At(s, "stopMonitoring")
    /\ session' = NoSession
    /\ IF session = NoSession
       THEN AfterStop(s) /\ PublishProject("stopped")
       ELSE /\ op' = [op EXCEPT ![s].id = session, ![s].step = "stopPipeline"]
            /\ UNCHANGED updates
    /\ UNCHANGED <<appVars, monitorVars, pipeline, callbackVars, shown>>

(* stopMonitoring() and the first block of ProjectMonitor.stop().          *)
StopMonitoring(s) ==
    /\ At(s, "stopMonitoring")
    /\ session' = NoSession
    /\ LET i == session
           To(step) == op' = [op EXCEPT ![s].id = i, ![s].step = step]
       IN \/ /\ i = NoSession
             /\ AfterStop(s) /\ PublishProject("stopped")
             /\ UNCHANGED <<token, monitor, calls>>
          \/ /\ i # NoSession /\ UNCHANGED updates
             /\ \/ /\ monitor[i] \in {"stopped", "stopping"} /\ To("stopPipeline")
                   /\ UNCHANGED <<token, monitor, calls>>
                \/ /\ monitor[i] = "watching" /\ To("stopping")
                   /\ Transition(i, "stopping") /\ UNCHANGED token
                \/ /\ HasStream(i) /\ monitor[i] # "stopping" /\ To("stopStream")
                   /\ UNCHANGED <<token, monitor, calls>>
                \/ /\ monitor[i] \in {"starting", "recovering", "failed"} /\ ~HasStream(i)
                   /\ To("stopped") /\ MonitorStopped(i)
    /\ UNCHANGED <<appVars, recovery, pipeline, batches, settled, shown>>

StoppingReturns(s) ==
    /\ At(s, "stopping") /\ Returned(op[s].id, "stopping")
    /\ Go(s, "stopStream")
    /\ UNCHANGED <<appVars, session, monitorVars, pipeline, callbackVars, screenVars>>

StreamStopped(s) ==
    /\ At(s, "stopStream")
    /\ MonitorStopped(op[s].id) /\ Go(s, "stopped")
    /\ UNCHANGED <<appVars, session, recovery, pipeline, batches, settled, screenVars>>

StopReturns(s) ==
    /\ At(s, "stopped") /\ Returned(op[s].id, "stopped")
    /\ Go(s, "stopPipeline")
    /\ UNCHANGED <<appVars, session, monitorVars, pipeline, callbackVars, screenVars>>

StopPipeline(s) ==
    /\ At(s, "stopPipeline")
    /\ pipeline' = [pipeline EXCEPT ![op[s].id] = "stopped"]
    /\ Go(s, "publishStop")
    /\ UNCHANGED <<appVars, session, monitorVars, callbackVars, screenVars>>

PublishStop(s) ==
    /\ At(s, "publishStop")
    /\ AfterStop(s) /\ PublishProject("stopped")
    /\ UNCHANGED <<appVars, session, monitorVars, pipeline, callbackVars, shown>>
------------------------------------------------------------------------------
(* enterRecovery(), once the monitor reads its stream; and its end.        *)
ReadsStream(i) ==
    /\ monitor[i] = "watching"
    /\ \A s \in Slots : ~(op[s].id = i /\ At(s, "watching"))

EnterRecovery(i) ==
    /\ ReadsStream(i)
    /\ Transition(i, "recovering")
    /\ recovery' = [recovery EXCEPT ![i] = "called"]
    /\ UNCHANGED <<appVars, op, session, token, pipeline, batches, settled, screenVars>>

FinishRecovery(i) ==
    /\ recovery[i] = "called" /\ Returned(i, "recovering")
    /\ recovery' = [recovery EXCEPT ![i] = "done"]
    /\ token' = [token EXCEPT ![i] = "released"]
    /\ UNCHANGED <<appVars, op, session, monitor, pipeline, callbackVars, screenVars>>

(* monitoringStateChanged(): the pipeline is told, asked for its state,    *)
(* and what it answered is published.                                      *)
SetMonitoringState(c) ==
    /\ c.step = "set"
    /\ pipeline' = [pipeline EXCEPT ![c.id] = c.to]
    /\ calls' = (calls \ {c}) \cup {[c EXCEPT !.step = "read"]}
    /\ UNCHANGED <<appVars, op, session, monitorVars, batches, settled, screenVars>>

ReadState(c) ==
    /\ c.step = "read"
    /\ calls' = (calls \ {c}) \cup {[c EXCEPT !.step = "publish", !.seen = pipeline[c.id]]}
    /\ UNCHANGED <<appVars, op, session, monitorVars, pipeline, batches, settled, screenVars>>

(* PublishState, when nothing is published but the way into watching.      *)
PublishOnlyWatching(c) ==
    /\ c.step = "publish"
    /\ calls' = calls \ {c}
    /\ updates' = IF c.seen = "watching" THEN Append(updates, c.seen) ELSE updates
    /\ UNCHANGED <<appVars, op, session, monitorVars, pipeline, batches, settled, shown>>

PublishState(c) ==
    /\ c.step = "publish"
    /\ calls' = calls \ {c}
    /\ PublishProject(c.seen)
    /\ UNCHANGED <<appVars, op, session, monitorVars, pipeline, batches, settled, shown>>

(* A batch was broadcast by a pipeline that was watching then.             *)
BatchBroadcast(i) ==
    /\ settled < MaxBatches /\ settled' = settled + 1
    /\ pipeline[i] = "watching"
    /\ batches' = batches \cup {[number |-> settled', step |-> "settled", id |-> i,
                                 seen |-> "watching"]}
    /\ UNCHANGED <<appVars, op, session, monitorVars, pipeline, calls, screenVars>>

(* batchSettled(): the table is looked at, then the pipeline is asked.     *)
BatchSettled(b) ==
    /\ b.step = "settled"
    /\ batches' = (batches \ {b}) \cup
          (IF session = NoSession THEN {} ELSE {[b EXCEPT !.step = "read", !.id = session]})
    /\ UNCHANGED <<appVars, op, session, monitorVars, pipeline, calls, settled, screenVars>>

ReadForBatch(b) ==
    /\ b.step = "read"
    /\ batches' = (batches \ {b}) \cup {[b EXCEPT !.step = "publish", !.seen = pipeline[b.id]]}
    /\ UNCHANGED <<appVars, op, session, monitorVars, pipeline, calls, settled, screenVars>>

PublishBatch(b) ==
    /\ b.step = "publish"
    /\ batches' = batches \ {b}
    /\ PublishProject(b.seen)
    /\ UNCHANGED <<appVars, op, session, monitorVars, pipeline, calls, settled, shown>>

(* AppModel's task reads the update stream.                                *)
ApplyUpdate ==
    /\ updates # <<>>
    /\ shown' = Head(updates) /\ updates' = Tail(updates)
    /\ UNCHANGED <<appVars, op, session, monitorVars, pipeline, callbackVars>>
------------------------------------------------------------------------------
OperationStep(s) ==
    \/ Apply(s) \/ EndReload(s) \/ Write(s)
    \/ StartMonitoring(s) \/ Resolve(s) \/ BeginAccess(s) \/ ResolveURL(s)
    \/ StartingReturns(s) \/ MakeStream(s) \/ StartReturns(s) \/ Project(s)
    \/ StopMonitoring(s) \/ StoppingReturns(s) \/ StreamStopped(s) \/ StopReturns(s)
    \/ StopPipeline(s) \/ PublishStop(s)

CallStep(c) == SetMonitoringState(c) \/ ReadState(c) \/ PublishState(c)

BatchStep(b) == BatchSettled(b) \/ ReadForBatch(b) \/ PublishBatch(b)

(* What runs by itself once it is due.                                     *)
Due ==
    \/ \E s \in Slots : OperationStep(s)
    \/ \E i \in Ids : FinishRecovery(i)
    \/ \E c \in calls : CallStep(c)
    \/ \E b \in batches : BatchStep(b)
    \/ ApplyUpdate

Next ==
    \/ Due
    \/ BeginStart \/ BeginStop \/ BeginRetry \/ BeginReload
    \/ \E k \in MutationKinds : BeginMutation(k)
    \/ \E i \in Ids : EnterRecovery(i) \/ BatchBroadcast(i)

Spec == Init /\ [][Next]_vars

(* Tasks and calls that were made run on, in whatever order; the user, the *)
(* folder and the batches owe nothing.                                     *)
FairSpec == Spec /\ WF_vars(Due)
------------------------------------------------------------------------------
TypeOK ==
    /\ project \in {"enabled", "disabled", "removed"}
    /\ gates \subseteq Slots /\ asked \in 0 .. MaxOperations /\ settled \in 0 .. MaxBatches
    /\ \A s \in Slots :
        /\ op[s].kind \in {"none"} \cup RuntimeKinds \cup MutationKinds /\ op[s].step \in Steps
        /\ op[s].id \in Ids \cup {NoSession} /\ op[s].answer \in MonitoringStates
        /\ s \in gates <=> op[s] # Idle
    /\ session \in Ids \cup {NoSession}
    /\ token \in [Ids -> {"none", "operation", "monitor", "released"}]
    /\ monitor \in [Ids -> MonitoringStates] /\ pipeline \in [Ids -> MonitoringStates]
    /\ recovery \in [Ids -> {"no", "called", "done"}]
    /\ calls \subseteq [id : Ids, to : MonitoringStates, step : {"set", "read", "publish"},
                        seen : MonitoringStates]
    /\ batches \subseteq [number : 1 .. MaxBatches, id : Ids, seen : MonitoringStates,
                          step : {"settled", "read", "publish"}]
    /\ updates \in Seq(MonitoringStates) /\ shown \in MonitoringStates

(* Has the monitor something running, or folder access?                    *)
Live(i) == monitor[i] \in {"starting", "watching", "stopping"} \/ token[i] = "monitor"

StoppedBy(s, i) ==
    op[s].id = i /\ op[s].step \in {"stopping", "stopStream", "stopped", "stopPipeline"}

(* A live monitor is the session's, or an operation is stopping it: none   *)
(* is forgotten by the service's check of its table, which other awaits    *)
(* separate from the write ("Exactly one active source belongs to a        *)
(* project session").                                                      *)
LiveMonitorsOwned ==
    \A i \in Ids : Live(i) => i = session \/ \E s \in Slots : StoppedBy(s, i)

(* Folder access an operation has begun is in that operation's hands, and  *)
(* given to a monitor or back before it answers.                           *)
AccessNotLeaked ==
    \A i \in Ids : token[i] = "operation" => \E s \in Slots : op[s].id = i /\ At(s, "resolveURL")

(* While the store is written, and for as long as the project is disabled  *)
(* or removed, nothing of it is monitored.                                 *)
NotMonitoredWhenDisabled ==
    project # "enabled" \/ (\E s \in Slots : At(s, "write") /\ op[s].kind \in Stopping)
        => session = NoSession /\ \A i \in Ids : ~Live(i)

(* A session's pipeline that was stopped does not watch again: no late     *)
(* callback revives it, and with it its broadcasts.                        *)
StoppedPipelineNotRevived ==
    \A i \in Ids : pipeline[i] = "watching" =>
        i = session \/ \E s \in Slots : StoppedBy(s, i)

(* The types; every monitor, every pipeline that watches and every folder  *)
(* access that was begun is in somebody's hands.                           *)
ServiceInv == TypeOK /\ LiveMonitorsOwned /\ AccessNotLeaked /\ StoppedPipelineNotRevived

Quiet ==
    /\ gates = {} /\ calls = {} /\ batches = {} /\ updates = <<>>
    /\ \A i \in Ids : recovery[i] # "called"

(* When all is quiet the screen does not say Watching unless a monitor     *)
(* watches ("The UI never claims `Watching` after folder, stream, or       *)
(* recovery failure").  It may: an answer or a batch's projection read     *)
(* before the failure is shown after it.                                   *)
WatchingShownIsTrue ==
    Quiet /\ shown = "watching" => session # NoSession /\ monitor[session] = "watching"

(* Every operation comes to its end and opens its gate.                    *)
OperationsEnd == gates # {} ~> gates = {}

(* A recovery reaches the screen, if only until an older projection hides  *)
(* it, unless the monitor is stopped before ("Root changes, dropped        *)
(* FSEvents, and stream failures ... expose a retry action").              *)
RecoveryIsShown ==
    (\E c \in calls : c.to = "recovering" /\ monitor[c.id] = "recovering")
        ~> shown = "recovering" \/ \A i \in Ids : monitor[i] # "recovering"
==============================================================================
