-------------------------- MODULE BrowserConnection --------------------------
(***************************************************************************)
(* What the reload server may rely on from a browser session: it gets      *)
(* ready or closes, and says so; it takes reloads only while ready; once   *)
(* closed it stays closed.                                                 *)
(***************************************************************************)
EXTENDS Naturals, Sequences

VARIABLES phase,     \* "negotiating", "ready" or "closed"
          reports,   \* the calls of onReady and onClose, in order
          reloads    \* reload messages the browser has received

vars == <<phase, reports, reloads>>

Init == phase = "negotiating" /\ reports = <<>> /\ reloads = 0

BecomeReady ==
    /\ phase = "negotiating" /\ phase' = "ready"
    /\ reports' = Append(reports, "ready")
    /\ UNCHANGED reloads

Reload == phase = "ready" /\ reloads' = reloads + 1 /\ UNCHANGED <<phase, reports>>

Close ==
    /\ phase # "closed" /\ phase' = "closed"
    /\ reports' = Append(reports, "closed")
    /\ UNCHANGED reloads

Next == BecomeReady \/ Reload \/ Close

Safety == Init /\ [][Next]_vars

(* The negotiation deadline.                                               *)
Spec == Safety /\ WF_vars(phase = "negotiating" /\ Next)
==============================================================================
