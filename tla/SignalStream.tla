---------------------------- MODULE SignalStream ----------------------------
(***************************************************************************)
(* What a project monitor may rely on from a file-event stream: signals    *)
(* come in the order of their sequence numbers; when some had to be        *)
(* dropped, nothing follows but one last signal that says so.              *)
(***************************************************************************)
EXTENDS SequencesExt

CONSTANTS Signal,    \* what the source may report
          Lost(_)    \* Lost(n): the signal that reports a loss at n

VARIABLES open,      \* can signals still be added?
          owed,      \* was a signal lost, and not reported yet?
          unread,    \* signals the reader has not taken
          taken      \* signals it has

vars == <<open, owed, unread, taken>>

Init == open = TRUE /\ owed = FALSE /\ unread = <<>> /\ taken = <<>>

InOrder(s) == \A earlier \in ToSet(taken \o unread) : earlier.sequence <= s.sequence

Add ==
    /\ open /\ ~owed
    /\ \E s \in Signal : InOrder(s) /\ unread' = Append(unread, s)
    /\ UNCHANGED <<open, owed, taken>>

Lose ==
    /\ open /\ ~owed /\ owed' = TRUE
    /\ \E s \in Signal : InOrder(s) /\ unread' = Append(Tail(unread), s)
    /\ UNCHANGED <<open, taken>>

(* More may have to go, to make room for the report.                       *)
Report ==
    /\ owed /\ owed' = FALSE /\ open' = FALSE
    /\ \E s \in Signal, first \in {1, 2} :
          /\ InOrder(s)
          /\ unread' = Append(SubSeq(unread, first, Len(unread)), Lost(s.sequence))
    /\ UNCHANGED taken

Read ==
    /\ unread # <<>>
    /\ taken' = Append(taken, Head(unread)) /\ unread' = Tail(unread)
    /\ UNCHANGED <<open, owed>>

Close == open /\ ~owed /\ open' = FALSE /\ UNCHANGED <<owed, unread, taken>>

(* The reader goes away.                                                   *)
Abandon == open' = FALSE /\ owed' = FALSE /\ unread' = <<>> /\ UNCHANGED taken

Next == Add \/ Lose \/ Report \/ Read \/ Close \/ Abandon

Spec == Init /\ [][Next]_vars
=============================================================================
