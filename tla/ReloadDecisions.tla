--------------------------- MODULE ReloadDecisions ---------------------------
(***************************************************************************)
(* What the reload pipeline of one project promises, without timers,       *)
(* generations, tasks or actor hops: an accepted change is pending until   *)
(* it is decided, a decision is made of pending changes, is sent at most   *)
(* once and only while the project is watched, and everything undecided or *)
(* unsent is discarded when the watch ends.                                *)
(***************************************************************************)
CONSTANTS Change,    \* what may be accepted
          Decision   \* identities of reload decisions

VARIABLES watched,   \* is the project being watched?
          pending,   \* accepted changes that no decision covers yet
          decided,   \* decisions that may still be sent
          sent       \* decisions that reached the browsers

vars == <<watched, pending, decided, sent>>

Init ==
    /\ watched = FALSE
    /\ pending = {} /\ decided = {} /\ sent = {}

BeginWatch ==
    /\ ~watched /\ watched' = TRUE
    /\ UNCHANGED <<pending, decided, sent>>

EndWatch ==
    /\ watched /\ watched' = FALSE
    /\ pending' = {} /\ decided' = {}
    /\ UNCHANGED sent

Accept ==
    /\ watched
    /\ \E c \in Change : pending' = pending \union {c}
    /\ UNCHANGED <<watched, decided, sent>>

(* Changes settle into a fresh decision; the others stay pending.          *)
Decide ==
    /\ watched
    /\ \E d \in Decision \ (decided \union sent) : decided' = decided \union {d}
    /\ pending' \subseteq pending /\ pending' # pending
    /\ UNCHANGED <<watched, sent>>

Send(d) ==
    /\ watched /\ d \in decided
    /\ decided' = decided \ {d}
    /\ sent' = sent \union {d}
    /\ UNCHANGED <<watched, pending>>

(* No browser was ready.                                                   *)
Drop(d) ==
    /\ d \in decided
    /\ decided' = decided \ {d}
    /\ UNCHANGED <<watched, pending, sent>>

Next ==
    \/ BeginWatch \/ EndWatch \/ Accept \/ Decide
    \/ \E d \in decided : Send(d) \/ Drop(d)

Spec == Init /\ [][Next]_vars
==============================================================================
