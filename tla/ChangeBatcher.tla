---------------------------- MODULE ChangeBatcher ----------------------------
(***************************************************************************)
(* The actor ChangeBatcher (Pipeline/ChangeBatcher.swift): it collects the *)
(* included paths of a burst of file changes, restarts a settling timer at *)
(* every change and hands the whole burst to a handler once the timer      *)
(* elapses.  A timer is a Swift task; each of its three hops onto the      *)
(* actor is an interleaving point of its own, so a task that was overtaken *)
(* by a newer change, a cancellation or another settlement may still run.  *)
(***************************************************************************)
EXTENDS SequencesExt

CONSTANTS Paths,             \* normalized project-relative paths
          Excluded,          \* the paths the exclusion policy rejects
          Stylesheets,       \* the paths with a stylesheet extension
          MaximumPathCount,  \* ChangeBatch.maximumPathCount
          MaxGeneration      \* bound: submissions and cancellations per behaviour

ASSUME BatcherConstants ==
    /\ Excluded \subseteq Paths
    /\ Stylesheets \subseteq Paths
    /\ MaximumPathCount \in Nat \ {0}
    /\ MaxGeneration \in Nat

NoGeneration == 0   \* nil: the first generation a task can have is 1

VARIABLES
    orderedPaths,         \* the pending paths in arrival order
    paths,                \* the same paths as a set, for de-duplication
    generation,           \* bumped by every change and every cancellation
    scheduledGeneration,  \* the generation whose timer is known to run
    settleTask,           \* generation of the task the actor holds, or none
    tasks,                \* the settling tasks alive, held or not
    settled,              \* batches handed to the handler, not yet handled
    burst                 \* history: included paths since the last clear

burstVars == <<orderedPaths, paths, burst>>
timerVars == <<generation, scheduledGeneration, settleTask>>
batcherVars == <<burstVars, timerVars, tasks, settled>>

Task(g, step) == [generation |-> g, step |-> step, cancelled |-> FALSE]

TaskRecords == [generation : Nat, step : {"mark", "sleep", "settle"}, cancelled : BOOLEAN]

ClassificationByAny(pathSet) ==
    IF pathSet \intersect Stylesheets # {} THEN "stylesheetOnly" ELSE "fullPage"

Classification(pathSet) ==
    IF pathSet \subseteq Stylesheets THEN "stylesheetOnly" ELSE "fullPage"

Batch == [generation : Nat, paths : Seq(Paths),
          classification : {"stylesheetOnly", "fullPage"}]

(* The exclusion policy's verdict.                                         *)
Included == Paths \ Excluded

(* Task.cancel() on the held task: only a task still asleep observes it.   *)
CancelHeldTask ==
    {IF t.generation = settleTask THEN [t EXCEPT !.cancelled = TRUE] ELSE t : t \in tasks}

BatcherInit ==
    /\ orderedPaths = <<>>
    /\ paths = {}
    /\ generation = 0
    /\ scheduledGeneration = NoGeneration
    /\ settleTask = NoGeneration
    /\ tasks = {}
    /\ settled = {}
    /\ burst = {}
------------------------------------------------------------------------------
ClearPathSet == paths' = {} /\ burst' = {} /\ UNCHANGED orderedPaths
ClearBurst == paths' = {} /\ burst' = {} /\ orderedPaths' = <<>>

(* cancel(): forget the burst and disown its timer.                        *)
Cancel ==
    /\ generation < MaxGeneration
    /\ generation' = generation + 1
    /\ tasks' = CancelHeldTask
    /\ settleTask' = NoGeneration
    /\ scheduledGeneration' = NoGeneration
    /\ ClearBurst
    /\ UNCHANGED settled

(* The tail of submit: a new task replaces the held one.                   *)
RestartTimerOfOldGeneration ==
    /\ generation < MaxGeneration
    /\ generation' = generation + 1
    /\ scheduledGeneration' = NoGeneration
    /\ tasks' = CancelHeldTask \union {Task(generation, "mark")}
    /\ settleTask' = generation + 1

RestartTimer ==
    /\ generation < MaxGeneration
    /\ generation' = generation + 1
    /\ scheduledGeneration' = NoGeneration
    /\ tasks' = CancelHeldTask \union {Task(generation + 1, "mark")}
    /\ settleTask' = generation + 1

(* submit() of an included path.  A new path beyond the maximum is taken   *)
(* out of the set again and the burst's timer is left alone.               *)
Submit(p) ==
    /\ p \in Included
    /\ burst' = burst \union {p}
    /\ \/ /\ p \in paths
          /\ RestartTimer
          /\ UNCHANGED <<orderedPaths, paths>>
       \/ /\ p \notin paths
          /\ Len(orderedPaths) < MaximumPathCount
          /\ orderedPaths' = Append(orderedPaths, p)
          /\ paths' = paths \union {p}
          /\ RestartTimer
       \/ /\ p \notin paths
          /\ Len(orderedPaths) >= MaximumPathCount
          /\ UNCHANGED <<orderedPaths, paths, timerVars, tasks>>
    /\ UNCHANGED settled

(* submit() of an excluded path returns early.                             *)
SubmitExcluded(p) == p \notin Included /\ UNCHANGED batcherVars

(* markSettlementScheduled(generation:), run by the task before it sleeps. *)
MarkSettlementScheduled(t) ==
    /\ t \in tasks /\ t.step = "mark"
    /\ scheduledGeneration' =
          IF t.generation = generation THEN t.generation ELSE scheduledGeneration
    /\ tasks' = (tasks \ {t}) \union {[t EXCEPT !.step = "sleep"]}
    /\ UNCHANGED <<burstVars, generation, settleTask, settled>>

(* clock.sleep(for:) returns.  A cancellation after this point comes too   *)
(* late to stop the task.                                                  *)
SleepElapses(t) ==
    /\ t \in tasks /\ t.step = "sleep" /\ ~t.cancelled
    /\ tasks' = (tasks \ {t}) \union {[t EXCEPT !.step = "settle"]}
    /\ UNCHANGED <<burstVars, timerVars, settled>>

(* clock.sleep(for:) throws, and the task ends in its empty catch.         *)
SleepThrows(t) ==
    /\ t \in tasks /\ t.step = "sleep" /\ t.cancelled
    /\ tasks' = tasks \ {t}
    /\ UNCHANGED <<burstVars, timerVars, settled>>

(* settle(generation:onSettled:) refuses a task that has been overtaken.   *)
MaySettleOvertaken(t) == orderedPaths # <<>>
MaySettle(t) == t.generation = generation /\ orderedPaths # <<>>

Settle(t) ==
    /\ t \in tasks /\ t.step = "settle"
    /\ tasks' = tasks \ {t}
    /\ \/ /\ MaySettle(t)
          /\ settled' = settled \union
                {[generation |-> t.generation, paths |-> orderedPaths,
                  classification |-> Classification(ToSet(orderedPaths))]}
          /\ ClearBurst
          /\ settleTask' = NoGeneration
          /\ scheduledGeneration' = NoGeneration
          /\ UNCHANGED generation
       \/ /\ ~MaySettle(t)
          /\ UNCHANGED <<burstVars, timerVars, settled>>

TaskStep ==
    \E t \in tasks : \/ MarkSettlementScheduled(t)
                     \/ SleepElapses(t)
                     \/ SleepThrows(t)
                     \/ Settle(t)

(* The handler, here any caller's, takes a batch.                          *)
HandleAgain(b) ==
    /\ b \in settled
    /\ UNCHANGED <<settled, burstVars, timerVars, tasks>>

Handle(b) ==
    /\ b \in settled
    /\ settled' = settled \ {b}
    /\ UNCHANGED <<burstVars, timerVars, tasks>>

BatcherNext ==
    \/ \E p \in Paths : Submit(p)
    \/ \E p \in Paths : SubmitExcluded(p)
    \/ Cancel
    \/ TaskStep
    \/ \E b \in settled : Handle(b)

BatcherSpec == BatcherInit /\ [][BatcherNext]_batcherVars
------------------------------------------------------------------------------
BatcherTypeOK ==
    /\ orderedPaths \in Seq(Paths \ Excluded)
    /\ paths \subseteq Paths \ Excluded
    /\ generation \in Nat
    /\ scheduledGeneration \in Nat
    /\ settleTask \in Nat
    /\ tasks \subseteq TaskRecords
    /\ settled \subseteq Batch
    /\ burst \subseteq Paths \ Excluded

(* The de-duplication set and the ordered list always hold the same paths, *)
(* each once and at most MaximumPathCount of them: the overflow branch of  *)
(* submit has to undo its insertion, or the path could never be retried.   *)
PathsMatchOrder ==
    /\ paths = ToSet(orderedPaths)
    /\ IsInjective(orderedPaths)
    /\ Len(orderedPaths) <= MaximumPathCount

(* A pending burst always has a live timer that will be let through: the   *)
(* task the actor holds has the current generation and is not cancelled.   *)
(* Otherwise the saved files would wait for the next unrelated save.       *)
PendingHasTimer ==
    orderedPaths # <<>> =>
        \E t \in tasks : t.generation = generation /\ ~t.cancelled

(* The types; the pending paths are in order and have a timer.             *)
BatcherInv == BatcherTypeOK /\ PathsMatchOrder /\ PendingHasTimer

WithinLimit == Cardinality(burst) <= MaximumPathCount

(* A batch is exactly the burst: every included path submitted since the   *)
(* last clear, none lost to an overtaken timer or a duplicate; and it is a *)
(* stylesheet batch if and only if the burst had nothing but stylesheets   *)
(* (FR-013, reload-protocol.md).  Of a burst beyond the maximum the code   *)
(* keeps the paths that came first and does not look at the others.        *)
BurstSettledWhole ==
    [][WithinLimit => \A b \in settled' \ settled :
          /\ ToSet(b.paths) = burst
          /\ b.classification = "stylesheetOnly" <=> burst \subseteq Stylesheets]_batcherVars

(* Settling waits for the timer of the latest change: an overtaken task    *)
(* that has already slept must not cut the quiet period short.             *)
SettlesAfterQuiet ==
    [][\A b \in settled' \ settled, t \in tasks : t.generation <= b.generation]_batcherVars

(* A pending burst eventually settles or is cancelled, once the user stops *)
(* saving (here: once the submission bound is reached).                    *)
PendingEventuallyCleared == (orderedPaths # <<>>) ~> (orderedPaths = <<>>)
==============================================================================
