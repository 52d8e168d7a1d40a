--------------------------- MODULE ReloadBroadcast ---------------------------
(***************************************************************************)
(* One broadcast of ReloadServer: deliver() hands the decision to every    *)
(* session it was given, a few at a time, in a task group.  The sessions   *)
(* are given in no order.  A child task is cancelled with its parent.      *)
(***************************************************************************)
EXTENDS FiniteSetsExt, Naturals

CONSTANTS Sessions,                    \* the candidates, prefixed to maximumClients
          Slow,                        \* the ones whose browser may stop reading
          MaximumConcurrentDeliveries

ASSUME BroadcastConstants == /\ IsFiniteSet(Sessions) /\ Slow \subseteq Sessions
                             /\ MaximumConcurrentDeliveries \in Nat \ {0}

VARIABLES
    sessionState, \* of each session: is it "ready", "negotiating" or "closed"?
    delivery,     \* where each session's delivery is, or its outcome
    collected,    \* the outcomes the group has taken
    cancelled,    \* was the broadcast's task cancelled?
    result        \* what it returned, if it did

broadcastVars == <<sessionState, delivery, collected, cancelled, result>>

Outcomes == {"sent", "failed", "skipped", "cancelled"}
Running == {"started", "asking", "told", "sending", "writing", "closing"}
NoResult == [sent |-> 0, failed |-> 0, returned |-> FALSE]

BroadcastInit ==
    /\ sessionState \in [Sessions -> {"ready", "negotiating"}]
    /\ \E first \in SUBSET Sessions :
        /\ Cardinality(first) = Min({MaximumConcurrentDeliveries, Cardinality(Sessions)})
        /\ delivery = [c \in Sessions |-> IF c \in first THEN "started" ELSE "waiting"]
    /\ collected = {} /\ cancelled = FALSE /\ result = NoResult

With(outcome) == {c \in Sessions : delivery[c] = outcome}
Waiting == With("waiting")
Active == {c \in Sessions : delivery[c] \in Running}
Become(c, step) == delivery' = [delivery EXCEPT ![c] = step]
------------------------------------------------------------------------------
(* deliver(): the two tests of cancellation around the snapshot.           *)
CheckCancellation(c) ==
    /\ delivery[c] \in {"started", "told"}
    /\ Become(c, IF cancelled THEN "cancelled"
                 ELSE IF delivery[c] = "started" THEN "asking" ELSE "sending")
    /\ UNCHANGED <<sessionState, collected, cancelled, result>>

Snapshot(c) ==
    /\ delivery[c] = "asking"
    /\ Become(c, IF sessionState[c] = "ready" THEN "told" ELSE "skipped")
    /\ UNCHANGED <<sessionState, collected, cancelled, result>>

(* send() up to the write, when it does not look at the cancellation.      *)
BeginSendUncancelled(c) ==
    /\ delivery[c] = "sending"
    /\ Become(c, IF sessionState[c] = "ready" THEN "writing" ELSE "closing")
    /\ UNCHANGED <<sessionState, collected, cancelled, result>>

(* send() up to the write.                                                 *)
BeginSend(c) ==
    /\ delivery[c] = "sending"
    /\ Become(c, IF cancelled THEN "cancelled"
                 ELSE IF sessionState[c] = "ready" THEN "writing" ELSE "closing")
    /\ UNCHANGED <<sessionState, collected, cancelled, result>>

(* The write ends, or fails; or is cancelled, and the session closed if a  *)
(* part of the frame was out already.                                      *)
Write(c) ==
    /\ delivery[c] = "writing"
    /\ \/ sessionState[c] = "ready" /\ Become(c, "sent") /\ UNCHANGED sessionState
       \/ Become(c, "closing") /\ UNCHANGED sessionState
       \/ /\ cancelled /\ Become(c, "cancelled")
          /\ \/ UNCHANGED sessionState
             \/ sessionState[c] = "ready" /\ sessionState' = [sessionState EXCEPT ![c] = "closed"]
    /\ UNCHANGED <<collected, cancelled, result>>

(* A failed delivery closes its session.                                   *)
CloseFailure(c) ==
    /\ delivery[c] = "closing"
    /\ sessionState' = [sessionState EXCEPT ![c] = "closed"]
    /\ Become(c, "failed")
    /\ UNCHANGED <<collected, cancelled, result>>

(* Collect, when the next deliveries wait for the whole window to end.     *)
CollectInWaves(c) ==
    /\ delivery[c] \in Outcomes /\ c \notin collected
    /\ collected' = collected \cup {c}
    /\ \/ (Waiting = {} \/ cancelled \/ Active # {}) /\ UNCHANGED delivery
       \/ ~cancelled /\ Active = {} /\ \E w \in Waiting : Become(w, "started")
    /\ UNCHANGED <<sessionState, cancelled, result>>

(* Collect, when a failure does not make room for the next session.        *)
CollectWithoutRefill(c) ==
    /\ delivery[c] \in Outcomes /\ c \notin collected
    /\ collected' = collected \cup {c}
    /\ \/ (Waiting = {} \/ cancelled \/ delivery[c] = "failed") /\ UNCHANGED delivery
       \/ ~cancelled /\ delivery[c] # "failed" /\ \E w \in Waiting : Become(w, "started")
    /\ UNCHANGED <<sessionState, cancelled, result>>

(* The group takes an outcome and, unless cancelled, starts one more.      *)
Collect(c) ==
    /\ delivery[c] \in Outcomes /\ c \notin collected
    /\ collected' = collected \cup {c}
    /\ \/ (Waiting = {} \/ cancelled) /\ UNCHANGED delivery
       \/ ~cancelled /\ \E w \in Waiting : Become(w, "started")
    /\ UNCHANGED <<sessionState, cancelled, result>>

(* The group is empty.                                                     *)
Return ==
    /\ ~result.returned /\ Active = {}
    /\ \A c \in Sessions : delivery[c] = "waiting" \/ c \in collected
    /\ result' = [sent |-> Cardinality(With("sent")), failed |-> Cardinality(With("failed")),
                  returned |-> TRUE]
    /\ UNCHANGED <<sessionState, delivery, collected, cancelled>>
------------------------------------------------------------------------------
(* Meanwhile the browsers come and go, and the pipeline may cancel.        *)
SessionChanges(c) ==
    /\ \/ sessionState[c] = "negotiating" /\ sessionState' = [sessionState EXCEPT ![c] = "ready"]
       \/ sessionState[c] # "closed" /\ sessionState' = [sessionState EXCEPT ![c] = "closed"]
    /\ UNCHANGED <<delivery, collected, cancelled, result>>

Cancel ==
    /\ ~cancelled /\ cancelled' = TRUE
    /\ UNCHANGED <<sessionState, delivery, collected, result>>

DeliveryStep(c) == CheckCancellation(c) \/ Snapshot(c) \/ BeginSend(c) \/ Write(c)
                   \/ CloseFailure(c)

BroadcastNext ==
    \/ \E c \in Sessions : DeliveryStep(c) \/ Collect(c) \/ SessionChanges(c)
    \/ Return
    \/ Cancel

BroadcastSpec == BroadcastInit /\ [][BroadcastNext]_broadcastVars

(* Tasks run; only the write to a browser that stops reading may hang (the *)
(* code gives it 100 ms for every part of the frame it takes).             *)
Fairness ==
    /\ \A c \in Sessions \ Slow : WF_broadcastVars(DeliveryStep(c))
    /\ \A c \in Sessions : WF_broadcastVars(Collect(c))
    /\ WF_broadcastVars(Return)

FairBroadcastSpec == BroadcastSpec /\ Fairness
------------------------------------------------------------------------------
BroadcastTypeOK ==
    /\ sessionState \in [Sessions -> {"ready", "negotiating", "closed"}]
    /\ delivery \in [Sessions -> {"waiting"} \cup Running \cup Outcomes]
    /\ Cardinality(Active) <= MaximumConcurrentDeliveries
    /\ collected \subseteq {c \in Sessions : delivery[c] \in Outcomes}
    /\ cancelled \in BOOLEAN
    /\ result.sent + result.failed <= Cardinality(Sessions)

(* A broadcast that was not cancelled returns only when every session has  *)
(* had its turn, however many of the others failed ("One client failure    *)
(* does not affect other ready clients").                                  *)
EverySessionHadItsTurn ==
    result.returned /\ ~cancelled => \A c \in Sessions : delivery[c] \in Outcomes

(* The types, no more deliveries at once than the window allows, and every *)
(* session's turn.                                                         *)
BroadcastInv == BroadcastTypeOK /\ EverySessionHadItsTurn

(* Once cancelled, a broadcast turns to no further session, and no session *)
(* is written to that was not being written to.                            *)
CancelStopsBroadcast ==
    [][cancelled => /\ Waiting' = Waiting
                    /\ With("writing")' \subseteq With("writing")
                    /\ With("sent")' \subseteq With("sent") \cup With("writing")]_broadcastVars

(* A session whose browser reads is dealt with, whatever the slow ones do, *)
(* as long as they do not fill the window.                                 *)
SlowSessionsDelayNobody ==
    Cardinality(Slow) < MaximumConcurrentDeliveries =>
        \A c \in Sessions \ Slow : <>(delivery[c] \in Outcomes \/ cancelled)
==============================================================================
