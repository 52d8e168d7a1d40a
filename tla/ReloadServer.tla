---------------------------- MODULE ReloadServer ----------------------------
(***************************************************************************)
(* The ReloadServer actor: its listener, its browser sessions and the      *)
(* state it publishes.  Whatever a connection's queue reports reaches the  *)
(* actor in a Task of its own, in no order.  publishState() suspends once  *)
(* for every session it asks, so that publications overlap; it does not    *)
(* suspend when it has nobody to ask.  A connection is followed only as    *)
(* far as the server sees it; SocketBrowserSession has the rest.           *)
(***************************************************************************)
EXTENDS FiniteSetsExt, Naturals

CONSTANTS Clients,         \* the connections browsers open
          MaximumClients,  \* ProtocolLimits.maximumClients
          Stops,           \* calls of stop()
          MaxStarts        \* bound: calls of start()

ASSUME ServerConstants == MaximumClients \in Nat \ {0} /\ MaxStarts \in Nat

VARIABLES
    phase,
    listener,      \* is there a listener?
    sessions,
    conn,          \* how far each connection is
    readyTasks,    \* sessions whose onReady Task has not run
    closedTasks,   \* sessions whose onClose Task has not run
    stopStep,      \* where each stop() is
    toClose,       \* the sessions it has still to close
    starts,        \* how often start() was called, for the bound
    publications,  \* the calls of publishState() that are suspended
    published,     \* how many there were
    subscribed,    \* does somebody read stateUpdates()?
    update         \* the last state its reader was given

connVars == <<conn, readyTasks, closedTasks>>
stopVars == <<stopStep, toClose>>
publishVars == <<publications, published, subscribed, update>>
vars == <<phase, listener, sessions, connVars, stopVars, starts, publishVars>>

Phases == {"stopped", "starting", "listening", "portConflict", "failed"}
ConnStates == {"none", "accepting", "refused", "connected", "ready", "closed"}
Updates == [phase : Phases, count : Nat, number : Nat]

Init ==
    /\ phase = "stopped" /\ listener = FALSE /\ sessions = {}
    /\ conn = [c \in Clients |-> "none"]
    /\ readyTasks = {} /\ closedTasks = {}
    /\ stopStep = [x \in Stops |-> "idle"]
    /\ toClose = [x \in Stops |-> {}]
    /\ starts = 0
    /\ publications = {} /\ published = 0 /\ subscribed = FALSE
    /\ update = [phase |-> "stopped", count |-> 0, number |-> 0]
------------------------------------------------------------------------------
Shown(p, n, number) ==
    IF subscribed' THEN [phase |-> p, count |-> n, number |-> number] ELSE update

(* publishState() up to where it first suspends, or to its end; "before"   *)
(* is what the same handler has shown already.                             *)
Publish(before) ==
    /\ published' = published + 1
    /\ \/ /\ phase' = "listening" /\ sessions' # {}
          /\ publications' = publications
                \cup {[number |-> published + 1, left |-> sessions', count |-> 0]}
          /\ update' = before
       \/ /\ phase' # "listening" \/ sessions' = {}
          /\ update' = Shown(phase', 0, published + 1)
          /\ UNCHANGED publications

PublishNothing == UNCHANGED <<publications, published, update>>

(* A session's snapshot is taken on its own queue.                         *)
Ask(p, c) ==
    /\ c \in p.left
    /\ publications' = (publications \ {p}) \cup
          {[p EXCEPT !.left = @ \ {c}, !.count = @ + IF conn[c] = "ready" THEN 1 ELSE 0]}
    /\ UNCHANGED <<phase, listener, sessions, connVars, stopVars, starts,
                   published, subscribed, update>>

Yield(p) ==
    /\ p.left = {}
    /\ publications' = publications \ {p}
    /\ UNCHANGED <<phase, listener, sessions, connVars, stopVars, starts,
                   published, subscribed>>
    /\ update' = Shown("listening", p.count, p.number)

(* stateUpdates(): the reader is registered, then given a first state.     *)
StateUpdates ==
    /\ ~subscribed /\ subscribed' = TRUE
    /\ UNCHANGED <<phase, listener, sessions, connVars, stopVars, starts>>
    /\ Publish(update)
------------------------------------------------------------------------------
(* start(): "starting" is shown and left in one block.                     *)
Start(outcome) ==
    /\ starts < MaxStarts /\ starts' = starts + 1
    /\ ~listener
    /\ phase' = outcome /\ listener' = (outcome = "listening")
    /\ UNCHANGED <<sessions, connVars, stopVars, subscribed>>
    /\ Publish(Shown("starting", 0, published))

(* stop() suspends when it has sessions to close ...                       *)
Stop(x) ==
    /\ stopStep[x] = "idle" /\ sessions # {}
    /\ listener' = FALSE
    /\ sessions' = {}
    /\ stopStep' = [stopStep EXCEPT ![x] = "closing"]
    /\ toClose' = [toClose EXCEPT ![x] = sessions]
    /\ UNCHANGED <<phase, connVars, starts, publishVars>>

(* ... and not when it has none.                                           *)
StopWithoutSessions(x) ==
    /\ stopStep[x] = "idle" /\ sessions = {}
    /\ listener' = FALSE
    /\ stopStep' = [stopStep EXCEPT ![x] = "done"]
    /\ phase' = "stopped"
    /\ UNCHANGED <<sessions, connVars, toClose, starts, subscribed>>
    /\ Publish(update)

(* The end of stop(), when the sessions are forgotten there once more.     *)
FinishStopForgettingAll(x) ==
    /\ stopStep[x] = "closing" /\ toClose[x] = {}
    /\ stopStep' = [stopStep EXCEPT ![x] = "done"]
    /\ phase' = "stopped" /\ sessions' = {}
    /\ UNCHANGED <<listener, connVars, toClose, starts, subscribed>>
    /\ Publish(update)

FinishStop(x) ==
    /\ stopStep[x] = "closing" /\ toClose[x] = {}
    /\ stopStep' = [stopStep EXCEPT ![x] = "done"]
    /\ phase' = "stopped"
    /\ UNCHANGED <<listener, sessions, connVars, toClose, starts, subscribed>>
    /\ Publish(update)

(* A session closes, if only one that was ready would report its end.      *)
ClosedReportedIfReady(c) ==
    /\ conn' = [conn EXCEPT ![c] = IF @ \in {"connected", "ready"} THEN "closed" ELSE @]
    /\ closedTasks' = IF conn[c] = "ready" THEN closedTasks \cup {c} ELSE closedTasks
    /\ UNCHANGED readyTasks

(* A session closes: onClose is called, once.                              *)
Closed(c) ==
    /\ conn' = [conn EXCEPT ![c] = IF @ \in {"connected", "ready"} THEN "closed" ELSE @]
    /\ closedTasks' = IF conn[c] \in {"connected", "ready"} THEN closedTasks \cup {c}
                                                            ELSE closedTasks
    /\ UNCHANGED readyTasks

StopCloses(x, c) ==
    /\ stopStep[x] = "closing" /\ c \in toClose[x]
    /\ toClose' = [toClose EXCEPT ![x] = @ \ {c}]
    /\ Closed(c)
    /\ UNCHANGED <<phase, listener, sessions, stopStep, starts, publishVars>>
------------------------------------------------------------------------------
(* acceptAvailableConnections(), on the listener's queue.                  *)
AcceptConnection(c) ==
    /\ listener /\ conn[c] = "none"
    /\ conn' = [conn EXCEPT ![c] = "accepting"]
    /\ UNCHANGED <<phase, listener, sessions, readyTasks, closedTasks, stopVars, starts,
                   publishVars>>

MayAcceptAny(c) == phase = "listening"

MayAccept(c) == phase = "listening" /\ Cardinality(sessions) < MaximumClients

Accept(c) ==
    /\ conn[c] = "accepting"
    /\ IF MayAccept(c)
       THEN /\ sessions' = sessions \cup {c}
            /\ conn' = [conn EXCEPT ![c] = "connected"]
       ELSE /\ conn' = [conn EXCEPT ![c] = "refused"]
            /\ UNCHANGED sessions
    /\ UNCHANGED <<phase, listener, readyTasks, closedTasks, stopVars, starts, publishVars>>

SessionBecomesReady(c) ==
    /\ conn[c] = "connected"
    /\ conn' = [conn EXCEPT ![c] = "ready"]
    /\ readyTasks' = readyTasks \cup {c}
    /\ UNCHANGED <<phase, listener, sessions, closedTasks, stopVars, starts, publishVars>>

(* By the browser, a bad message, the deadline or a failed delivery.       *)
SessionCloses(c) ==
    /\ conn[c] \in {"connected", "ready"}
    /\ Closed(c)
    /\ UNCHANGED <<phase, listener, sessions, stopVars, starts, publishVars>>

SessionBecameReady(c) ==
    /\ c \in readyTasks /\ readyTasks' = readyTasks \ {c}
    /\ UNCHANGED <<phase, listener, sessions, conn, closedTasks, stopVars, starts, subscribed>>
    /\ IF c \in sessions THEN Publish(update) ELSE PublishNothing

(* removeSession(), when it forgets to publish.                            *)
RemoveSessionQuietly(c) ==
    /\ c \in closedTasks /\ closedTasks' = closedTasks \ {c}
    /\ sessions' = sessions \ {c}
    /\ PublishNothing
    /\ UNCHANGED <<phase, listener, conn, readyTasks, stopVars, starts, subscribed>>

RemoveSession(c) ==
    /\ c \in closedTasks /\ closedTasks' = closedTasks \ {c}
    /\ sessions' = sessions \ {c}
    /\ UNCHANGED <<phase, listener, conn, readyTasks, stopVars, starts, subscribed>>
    /\ IF c \in sessions THEN Publish(update) ELSE PublishNothing
------------------------------------------------------------------------------
(* What runs by itself once it is due.                                     *)
Due ==
    \/ \E p \in publications : Yield(p) \/ \E c \in p.left : Ask(p, c)
    \/ \E x \in Stops : FinishStop(x) \/ \E c \in Clients : StopCloses(x, c)
    \/ \E c \in Clients : Accept(c) \/ SessionBecameReady(c) \/ RemoveSession(c)

Next ==
    \/ Due
    \/ StateUpdates
    \/ \E o \in {"listening", "portConflict", "failed"} : Start(o)
    \/ \E x \in Stops : Stop(x) \/ StopWithoutSessions(x)
    \/ \E c \in Clients : AcceptConnection(c) \/ SessionBecomesReady(c) \/ SessionCloses(c)

Spec == Init /\ [][Next]_vars

(* Tasks and queue blocks run; nothing else need happen.                   *)
FairSpec == Spec /\ WF_vars(Due)
------------------------------------------------------------------------------
TypeOK ==
    /\ phase \in Phases \ {"starting"} /\ listener \in BOOLEAN
    /\ sessions \subseteq {c \in Clients : conn[c] \in {"connected", "ready", "closed"}}
    /\ conn \in [Clients -> ConnStates]
    /\ readyTasks \subseteq {c \in Clients : conn[c] \in {"ready", "closed"}}
    /\ closedTasks \subseteq {c \in Clients : conn[c] = "closed"}
    /\ stopStep \in [Stops -> {"idle", "closing", "done"}]
    /\ toClose \in [Stops -> SUBSET Clients]
    /\ starts \in 0 .. MaxStarts /\ published \in Nat /\ subscribed \in BOOLEAN
    /\ \A p \in publications : /\ p.number \in 1 .. published /\ p.left \subseteq Clients
                               /\ p.count + Cardinality(p.left) <= MaximumClients
    /\ update \in Updates

(* The reader is never told of more clients than the server admits, as     *)
(* many publications as may overlap: currentState() never comes to its     *)
(* .failed fallback while the server listens.                              *)
CountWithinLimit == update.count <= MaximumClients

(* Every open connection has somebody who will close it: it is in the      *)
(* server's table or one of stop()'s calls has still to close it.          *)
EveryConnectionOwned ==
    \A c \in Clients :
        conn[c] \in {"connected", "ready"} => c \in sessions \/ \E x \in Stops : c \in toClose[x]

(* The types, the count that is shown within its limit, and nobody served  *)
(* whom no stop would ever close.                                          *)
ServerInv == TypeOK /\ CountWithinLimit /\ EveryConnectionOwned

Settled ==
    /\ publications = {} /\ readyTasks = {} /\ closedTasks = {}
    /\ \A x \in Stops : stopStep[x] # "closing"

ReadyClients == {c \in sessions : conn[c] = "ready"}

UpdateIsRight ==
    /\ update.phase = phase
    /\ update.count = IF phase = "listening" THEN Cardinality(ReadyClients) ELSE 0

(* Once all is quiet, and if the publication that started last was also    *)
(* the last to be shown, what the reader sees is the server's state.       *)
NewestPublicationIsRight ==
    Settled /\ subscribed /\ update.number = published => UpdateIsRight

(* The reader's state is right once all is quiet, whichever publication    *)
(* was shown last ("Remove closed sessions from the client count           *)
(* immediately").  It is not: an overtaken publication may be shown last.  *)
SettledCountIsRight == Settled /\ subscribed => UpdateIsRight

(* A closed session leaves the server's table.                             *)
ClosedIsForgotten == \A c \in Clients : conn[c] = "closed" ~> c \notin sessions
==============================================================================
