-------------------------- MODULE ReloadServer_proofs --------------------------
(***************************************************************************)
(* Proofs about ReloadServer: its table and its publications stay within   *)
(* their limits, every open connection has somebody who will close it, and *)
(* the publication that started last tells the truth; about its broadcasts *)
(* (ReloadBroadcast): the window holds, every session has its turn, and a  *)
(* cancelled broadcast turns to nobody else; and about the sessions        *)
(* (SocketBrowserSession): the negotiation deadline, what goes out and in  *)
(* which order, and that a session's steps are those of a                  *)
(* BrowserConnection.                                                      *)
(***************************************************************************)
EXTENDS ReloadServer, ReloadBroadcast, SocketBrowserSession, FiniteSetTheorems, TLAPS

USE ServerConstants

(* The server's table, the connections and the calls of stop().            *)
TableTypes ==
    /\ phase \in Phases \ {"starting"} /\ listener \in BOOLEAN
    /\ conn \in [Clients -> ConnStates]
    /\ sessions \subseteq {c \in Clients : conn[c] \in {"connected", "ready", "closed"}}
    /\ readyTasks \subseteq {c \in Clients : conn[c] \in {"ready", "closed"}}
    /\ closedTasks \subseteq {c \in Clients : conn[c] = "closed"}
    /\ stopStep \in [Stops -> {"idle", "closing", "done"}]
    /\ toClose \in [Stops -> SUBSET Clients]
    /\ \A x \in Stops : stopStep[x] # "closing" => toClose[x] = {}
    /\ starts \in 0 .. MaxStarts /\ subscribed \in BOOLEAN

WithinLimit == IsFiniteSet(sessions) /\ Cardinality(sessions) <= MaximumClients

TableInv == TableTypes /\ WithinLimit /\ EveryConnectionOwned

(* The publications: what has been counted and who is still to be asked    *)
(* never exceed the limit.                                                 *)
PublicationOK(p, n) ==
    /\ p \in [number : 1 .. n, left : SUBSET Clients, count : Nat]
    /\ IsFiniteSet(p.left) /\ p.count + Cardinality(p.left) <= MaximumClients

UpdateOK(u, n) == u \in Updates /\ u.count <= MaximumClients /\ u.number <= n

PublicationInv ==
    /\ published \in Nat /\ UpdateOK(update, published)
    /\ \A p \in publications : PublicationOK(p, published)

(* The table begins empty.                                                 *)
LEMMA TableInitially == Init => TableInv
  <1> SUFFICES ASSUME Init PROVE TableInv
    OBVIOUS
  <1>1. TableTypes
    <2>1. /\ conn \in [Clients -> ConnStates] /\ toClose \in [Stops -> SUBSET Clients]
          /\ stopStep \in [Stops -> {"idle", "closing", "done"}]
          /\ \A x \in Stops : toClose[x] = {}
      BY DEF Init, ConnStates
    <2>2. starts \in 0 .. MaxStarts /\ phase \in Phases \ {"starting"}
      BY DEF Init, Phases
    <2> QED BY <2>1, <2>2 DEF Init, TableTypes
  <1>2. WithinLimit
    BY FS_EmptySet DEF Init, WithinLimit
  <1>3. EveryConnectionOwned
    BY DEF Init, EveryConnectionOwned
  <1> QED BY <1>1, <1>2, <1>3 DEF TableInv

(* A connection that closes has nobody left to find it.                    *)
LEMMA ClosedKeepsTable ==
    ASSUME TableInv, NEW c \in Clients, Closed(c), UNCHANGED <<phase, listener, sessions, stopStep,
           starts, subscribed>>,
           \/ UNCHANGED toClose
           \/ \E x \in Stops : stopStep[x] = "closing" /\ toClose' = [toClose EXCEPT ![x] = @ \ {c}]
    PROVE  TableInv'
  <1>1. /\ conn' \in [Clients -> ConnStates]
        /\ \A d \in Clients : d # c => conn'[d] = conn[d]
        /\ conn'[c] = (IF conn[c] \in {"connected", "ready"} THEN "closed" ELSE conn[c])
        /\ closedTasks' = (IF conn[c] \in {"connected", "ready"} THEN closedTasks \union {c}
                                                                ELSE closedTasks)
        /\ UNCHANGED readyTasks
    BY DEF Closed, TableInv, TableTypes, ConnStates
  <1>2. /\ toClose' \in [Stops -> SUBSET Clients]
        /\ \A x \in Stops : stopStep[x] # "closing" => toClose'[x] = {}
        /\ \A x \in Stops, d \in Clients : d # c /\ d \in toClose[x] => d \in toClose'[x]
    BY DEF TableInv, TableTypes
  <1>3. TableTypes'
    BY <1>1, <1>2 DEF TableInv, TableTypes
  <1>4. EveryConnectionOwned'
    BY <1>1, <1>2 DEF TableInv, EveryConnectionOwned
  <1>5. WithinLimit'
    BY DEF TableInv, WithinLimit
  <1> QED BY <1>3, <1>4, <1>5 DEF TableInv

(* A connection is admitted within the limit, or closed.                   *)
LEMMA AcceptKeepsTable ==
    ASSUME TableInv, NEW c \in Clients, Accept(c)
    PROVE  TableInv'
  <1>0. /\ conn[c] = "accepting" /\ UNCHANGED <<phase, listener, readyTasks, closedTasks, stopStep,
                                                toClose, starts, subscribed>>
    BY DEF Accept, stopVars, publishVars
  <1>1. CASE /\ MayAccept(c) /\ sessions' = sessions \union {c}
             /\ conn' = [conn EXCEPT ![c] = "connected"]
    <2>1. TableTypes'
      BY <1>0, <1>1 DEF TableInv, TableTypes, ConnStates
    <2>2. EveryConnectionOwned'
      BY <1>0, <1>1 DEF TableInv, TableTypes, EveryConnectionOwned
    <2>3. IsFiniteSet(sessions) /\ Cardinality(sessions) < MaximumClients /\ Cardinality(sessions) \in Nat
      BY <1>1, FS_CardinalityType DEF TableInv, WithinLimit, MayAccept
    <2>4. IsFiniteSet(sessions') /\ Cardinality(sessions') <= MaximumClients
      <3>1. /\ IsFiniteSet(sessions \union {c})
            /\ \/ Cardinality(sessions \union {c}) = Cardinality(sessions)
               \/ Cardinality(sessions \union {c}) = Cardinality(sessions) + 1
        BY <2>3, FS_AddElement
      <3> HIDE DEF TableInv, Accept
      <3> QED BY <1>1, <2>3, <3>1
    <2>5. WithinLimit'
      BY <2>4 DEF WithinLimit
    <2> QED BY <2>1, <2>2, <2>5 DEF TableInv
  <1>2. CASE conn' = [conn EXCEPT ![c] = "refused"] /\ UNCHANGED sessions
    <2>1. TableTypes'
      BY <1>0, <1>2 DEF TableInv, TableTypes, ConnStates
    <2>2. EveryConnectionOwned'
      BY <1>0, <1>2 DEF TableInv, TableTypes, EveryConnectionOwned
    <2> QED BY <1>2, <2>1, <2>2 DEF TableInv, WithinLimit
  <1> QED BY <1>1, <1>2 DEF Accept

(* A session leaves the table: by then it is closed.                       *)
LEMMA RemoveKeepsTable ==
    ASSUME TableInv, NEW c \in Clients, RemoveSession(c)
    PROVE  TableInv'
  <1>0. /\ c \in closedTasks /\ closedTasks' = closedTasks \ {c} /\ sessions' = sessions \ {c}
        /\ UNCHANGED <<phase, listener, conn, readyTasks, stopStep, toClose, starts, subscribed>>
    BY DEF RemoveSession, stopVars
  <1>1. TableTypes'
    BY <1>0 DEF TableInv, TableTypes
  <1>2. EveryConnectionOwned'
    BY <1>0 DEF TableInv, TableTypes, EveryConnectionOwned
  <1>3. /\ IsFiniteSet(sessions) /\ Cardinality(sessions) \in Nat
        /\ Cardinality(sessions) <= MaximumClients
    BY FS_CardinalityType DEF TableInv, WithinLimit
  <1>4. IsFiniteSet(sessions') /\ Cardinality(sessions') <= MaximumClients
    BY <1>0, <1>3, FS_RemoveElement
  <1>5. WithinLimit'
    BY <1>4 DEF WithinLimit
  <1> QED BY <1>1, <1>2, <1>5 DEF TableInv

(* stop() takes the sessions out of the table, to close them.              *)
LEMMA StopKeepsTable ==
    ASSUME TableInv, NEW x \in Stops, Stop(x) \/ StopWithoutSessions(x) \/ FinishStop(x)
    PROVE  TableInv'
  <1>1. CASE Stop(x)
    <2>0. /\ stopStep[x] = "idle" /\ listener' = FALSE /\ sessions' = {}
          /\ stopStep' = [stopStep EXCEPT ![x] = "closing"]
          /\ toClose' = [toClose EXCEPT ![x] = sessions]
          /\ UNCHANGED <<phase, conn, readyTasks, closedTasks, starts, subscribed>>
      BY <1>1 DEF Stop, connVars, publishVars
    <2>1. TableTypes'
      BY <2>0 DEF TableInv, TableTypes
    <2>2. EveryConnectionOwned'
      <3>1. toClose'[x] = sessions /\ \A y \in Stops : y # x => toClose'[y] = toClose[y]
        BY <2>0 DEF TableInv, TableTypes
      <3>2. toClose[x] = {}
        BY <2>0 DEF TableInv, TableTypes
      <3> QED BY <2>0, <3>1, <3>2 DEF TableInv, EveryConnectionOwned
    <2>3. WithinLimit'
      BY <2>0, FS_EmptySet DEF WithinLimit
    <2> QED BY <2>1, <2>2, <2>3 DEF TableInv
  <1>2. CASE StopWithoutSessions(x) \/ FinishStop(x)
    <2>0. /\ listener' \in {FALSE, listener} /\ phase' = "stopped"
          /\ stopStep' = [stopStep EXCEPT ![x] = "done"] /\ toClose[x] = {}
          /\ UNCHANGED <<sessions, conn, readyTasks, closedTasks, toClose, starts, subscribed>>
      BY <1>2 DEF StopWithoutSessions, FinishStop, connVars, TableInv, TableTypes
    <2>1. TableTypes'
      BY <2>0 DEF TableInv, TableTypes, Phases
    <2>2. EveryConnectionOwned' /\ WithinLimit'
      BY <2>0 DEF TableInv, EveryConnectionOwned, WithinLimit
    <2> QED BY <2>1, <2>2 DEF TableInv
  <1> QED BY <1>1, <1>2

(* No step leaves an open connection unowned.                              *)
LEMMA StepKeepsTable == TableInv /\ [Next]_vars => TableInv'
  <1> SUFFICES ASSUME TableInv, [Next]_vars PROVE TableInv'
    OBVIOUS
  <1> USE DEF connVars, stopVars, publishVars
  (* The steps that leave the table and the calls of stop() alone.         *)
  <1>1. ASSUME UNCHANGED <<sessions, stopStep, toClose>>,
               phase' \in Phases \ {"starting"}, listener' \in BOOLEAN, starts' \in 0 .. MaxStarts,
               subscribed' \in BOOLEAN, closedTasks' = closedTasks,
               \/ UNCHANGED <<conn, readyTasks>>
               \/ \E c \in Clients : /\ UNCHANGED conn /\ readyTasks' = readyTasks \ {c}
               \/ \E c \in Clients : /\ conn[c] = "none" /\ conn' = [conn EXCEPT ![c] = "accepting"]
                                     /\ UNCHANGED readyTasks
               \/ \E c \in Clients : /\ conn[c] = "connected" /\ conn' = [conn EXCEPT ![c] = "ready"]
                                     /\ readyTasks' = readyTasks \union {c}
        PROVE  TableInv'
    <2>1. TableTypes'
      BY <1>1 DEF TableInv, TableTypes, ConnStates
    <2>2. EveryConnectionOwned'
      BY <1>1 DEF TableInv, TableTypes, EveryConnectionOwned
    <2> QED BY <1>1, <2>1, <2>2 DEF TableInv, WithinLimit
  <1>2. /\ phase \in Phases \ {"starting"} /\ listener \in BOOLEAN /\ starts \in 0 .. MaxStarts
        /\ subscribed \in BOOLEAN
    BY DEF TableInv, TableTypes
  <1>3. ASSUME NEW p \in publications, Yield(p) \/ \E c \in p.left : Ask(p, c)
        PROVE  TableInv'
    BY <1>1, <1>2, <1>3 DEF Yield, Ask
  <1>4. ASSUME NEW x \in Stops, FinishStop(x) \/ Stop(x) \/ StopWithoutSessions(x)
        PROVE  TableInv'
    BY <1>4, StopKeepsTable
  <1>5. ASSUME NEW x \in Stops, NEW c \in Clients, StopCloses(x, c)
        PROVE  TableInv'
    BY <1>5, ClosedKeepsTable DEF StopCloses
  <1>6. ASSUME NEW c \in Clients, Accept(c) \/ RemoveSession(c)
        PROVE  TableInv'
    BY <1>6, AcceptKeepsTable, RemoveKeepsTable
  <1>7. ASSUME NEW c \in Clients, SessionBecameReady(c) \/ AcceptConnection(c) \/ SessionBecomesReady(c)
        PROVE  TableInv'
    BY <1>1, <1>2, <1>7 DEF SessionBecameReady, AcceptConnection, SessionBecomesReady
  <1>8. ASSUME NEW c \in Clients, SessionCloses(c)
        PROVE  TableInv'
    BY <1>8, ClosedKeepsTable DEF SessionCloses
  <1>9. CASE StateUpdates
    BY <1>1, <1>2, <1>9 DEF StateUpdates
  <1>10. ASSUME NEW o \in {"listening", "portConflict", "failed"}, Start(o)
         PROVE  TableInv'
    <2>1. starts' \in 0 .. MaxStarts /\ phase' \in Phases \ {"starting"} /\ listener' \in BOOLEAN
      BY <1>2, <1>10 DEF Start, Phases
    <2> QED BY <1>1, <1>2, <1>10, <2>1 DEF Start
  <1>11. CASE UNCHANGED vars
    BY <1>1, <1>2, <1>11 DEF vars
  <1> QED BY <1>3, <1>4, <1>5, <1>6, <1>7, <1>8, <1>9, <1>10, <1>11 DEF Next, Due
-------------------------------------------------------------------------------
(* Nothing is being published in the beginning.                            *)
LEMMA PublicationsInitially == Init => PublicationInv
  BY DEF Init, PublicationInv, UpdateOK, Updates, Phases

(* publishState(): a publication begins with the table, which is within    *)
(* its limit, or ends at once.                                             *)
LEMMA PublishKeepsPublications ==
    ASSUME TableInv', PublicationInv, NEW before, UpdateOK(before, published), Publish(before)
    PROVE  PublicationInv'
  <1>0. /\ published \in Nat /\ published' = published + 1
        /\ \A p \in publications : PublicationOK(p, published)
        /\ UpdateOK(update, published)
    BY DEF PublicationInv, Publish
  <1>1. \A p : PublicationOK(p, published) => PublicationOK(p, published + 1)
    BY <1>0 DEF PublicationOK
  <1>2. \A u : UpdateOK(u, published) => UpdateOK(u, published + 1)
    BY <1>0 DEF UpdateOK, Updates
  <1>3. CASE /\ publications' = publications
                   \union {[number |-> published + 1, left |-> sessions', count |-> 0]}
             /\ update' = before
    <2>1. /\ sessions' \in SUBSET Clients /\ IsFiniteSet(sessions')
          /\ Cardinality(sessions') \in Nat /\ Cardinality(sessions') <= MaximumClients
      BY FS_CardinalityType DEF TableInv, TableTypes, WithinLimit
    <2> DEFINE p == [number |-> published + 1, left |-> sessions', count |-> 0]
    <2>2. /\ p \in [number : 1 .. published + 1, left : SUBSET Clients, count : Nat]
          /\ p.left = sessions' /\ p.count = 0
      BY <1>0, <2>1
    <2>3. p.count + Cardinality(p.left) <= MaximumClients
      BY <2>1, <2>2
    <2>4. PublicationOK(p, published + 1)
      BY <2>1, <2>2, <2>3 DEF PublicationOK
    <2>5. \A q \in publications' : PublicationOK(q, published + 1)
      BY <1>0, <1>1, <1>3, <2>4
    <2>6. UpdateOK(update', published + 1)
      BY <1>2, <1>3
    <2> QED BY <1>0, <2>5, <2>6 DEF PublicationInv
  <1>4. CASE update' = Shown(phase', 0, published + 1) /\ UNCHANGED publications
    <2>1. phase' \in Phases
      BY DEF TableInv, TableTypes
    <2>2. [phase |-> phase', count |-> 0, number |-> published + 1] \in Updates
      BY <1>0, <2>1 DEF Updates
    <2>3. UpdateOK([phase |-> phase', count |-> 0, number |-> published + 1], published + 1)
      BY <1>0, <2>2 DEF UpdateOK
    <2>4. UpdateOK(update', published + 1)
      BY <1>0, <1>2, <1>4, <2>3 DEF Shown
    <2>5. \A q \in publications' : PublicationOK(q, published + 1)
      BY <1>0, <1>1, <1>4
    <2> QED BY <1>0, <2>4, <2>5 DEF PublicationInv
  <1> QED BY <1>3, <1>4 DEF Publish

(* A publication that counts a session has one less to ask.                *)
LEMMA AskKeepsPublications ==
    ASSUME PublicationInv, NEW p \in publications, NEW c \in p.left, Ask(p, c)
    PROVE  PublicationInv'
  <1> DEFINE one == IF conn[c] = "ready" THEN 1 ELSE 0
             q == [p EXCEPT !.left = @ \ {c}, !.count = @ + one]
  <1>1. /\ publications' = (publications \ {p}) \union {q}
        /\ UNCHANGED <<published, update>>
    BY DEF Ask
  <1>2. PublicationOK(p, published)
    BY DEF PublicationInv
  <1>3. /\ q \in [number : 1 .. published, left : SUBSET Clients, count : Nat]
        /\ q.left = p.left \ {c} /\ q.count \in {p.count, p.count + 1}
        /\ p.count \in Nat
    <2>1. one \in {0, 1}
      OBVIOUS
    <2>2. /\ p \in [number : 1 .. published, left : SUBSET Clients, count : Nat]
          /\ p.count \in Nat /\ p.left \in SUBSET Clients /\ p.number \in 1 .. published
      BY <1>2 DEF PublicationOK
    <2> HIDE DEF one
    <2>3. q.left = p.left \ {c} /\ q.count = p.count + one /\ q.number = p.number
      BY <2>2
    <2>4. p.count + one \in Nat
      BY <2>1, <2>2
    <2>5. q \in [number : 1 .. published, left : SUBSET Clients, count : Nat]
      BY <2>2, <2>4
    <2>6. p.count + one \in {p.count, p.count + 1}
      BY <2>1, <2>2
    <2> QED BY <2>2, <2>3, <2>5, <2>6
  <1>4. IsFiniteSet(p.left \ {c}) /\ Cardinality(p.left \ {c}) = Cardinality(p.left) - 1
        /\ Cardinality(p.left) \in Nat
    BY <1>2, FS_RemoveElement, FS_CardinalityType DEF PublicationOK
  <1>5. p.count + Cardinality(p.left) <= MaximumClients
    BY <1>2 DEF PublicationOK
  <1>6. q.count + Cardinality(q.left) <= MaximumClients
    <2>1. Cardinality(q.left) = Cardinality(p.left) - 1
      BY <1>3, <1>4
    <2> HIDE DEF q
    <2> QED BY <1>3, <1>4, <1>5, <2>1
  <1>7. PublicationOK(q, published)
    BY <1>3, <1>4, <1>6 DEF PublicationOK
  <1> HIDE DEF q
  <1>8. \A r \in publications' : PublicationOK(r, published)
    BY <1>1, <1>7 DEF PublicationInv
  <1> QED BY <1>1, <1>8 DEF PublicationInv, PublicationOK, UpdateOK

(* What a publication shows is within the limit.                           *)
LEMMA YieldKeepsPublications ==
    ASSUME PublicationInv, NEW p \in publications, Yield(p)
    PROVE  PublicationInv'
  <1>1. /\ publications' = publications \ {p} /\ published' = published
        /\ update' = Shown("listening", p.count, p.number) /\ p.left = {}
    BY DEF Yield
  <1>2. PublicationOK(p, published) /\ published \in Nat
    BY DEF PublicationInv
  <1>3. /\ p.count \in Nat /\ p.number \in 1 .. published
        /\ p.count + Cardinality(p.left) <= MaximumClients
    BY <1>2 DEF PublicationOK
  <1>4. p.count <= MaximumClients
    BY <1>1, <1>3, FS_EmptySet
  <1>5. UpdateOK([phase |-> "listening", count |-> p.count, number |-> p.number], published)
    BY <1>2, <1>3, <1>4 DEF UpdateOK, Updates, Phases
  <1>6. UpdateOK(update', published)
    BY <1>1, <1>5 DEF Shown, PublicationInv
  <1> QED BY <1>1, <1>6 DEF PublicationInv, PublicationOK, UpdateOK

(* Every step publishes, asks, yields, or leaves the publications alone.   *)
PublishSteps ==
    \/ StateUpdates
    \/ \E o \in {"listening", "portConflict", "failed"} : Start(o)
    \/ \E x \in Stops : StopWithoutSessions(x) \/ FinishStop(x)
    \/ \E c \in sessions : SessionBecameReady(c) \/ RemoveSession(c)

QuietSteps ==
    \/ \E x \in Stops : Stop(x) \/ \E c \in Clients : StopCloses(x, c)
    \/ \E c \in Clients : Accept(c) \/ AcceptConnection(c) \/ SessionBecomesReady(c)
                           \/ SessionCloses(c)
    \/ \E c \in Clients \ sessions : SessionBecameReady(c) \/ RemoveSession(c)

(* A step starts a publication, goes on with one, or leaves them alone.    *)
LEMMA KindsOfStep ==
    ASSUME TableInv, Next
    PROVE  \/ PublishSteps \/ QuietSteps
           \/ \E p \in publications : Yield(p) \/ \E c \in p.left : Ask(p, c)
  BY DEF Next, Due, PublishSteps, QuietSteps

(* A step of the first kind is publishState() up to its first suspension.  *)
LEMMA PublishStepsPublish ==
    ASSUME PublicationInv, TableInv, PublishSteps
    PROVE  \E before : UpdateOK(before, published) /\ Publish(before)
  <1>1. UpdateOK(update, published) /\ published \in Nat
    BY DEF PublicationInv
  <1>2. ASSUME NEW o \in {"listening", "portConflict", "failed"}, Start(o)
        PROVE  \E before : UpdateOK(before, published) /\ Publish(before)
    <2>1. UpdateOK([phase |-> "starting", count |-> 0, number |-> published], published)
      BY <1>1 DEF UpdateOK, Updates, Phases
    <2>2. UpdateOK(Shown("starting", 0, published), published)
      BY <1>1, <2>1 DEF Shown
    <2> QED BY <1>2, <2>2 DEF Start
  <1>3. CASE StateUpdates \/ \E x \in Stops : StopWithoutSessions(x) \/ FinishStop(x)
    BY <1>1, <1>3 DEF StateUpdates, StopWithoutSessions, FinishStop
  <1>4. ASSUME NEW c \in sessions, SessionBecameReady(c) \/ RemoveSession(c)
        PROVE  \E before : UpdateOK(before, published) /\ Publish(before)
    BY <1>1, <1>4 DEF SessionBecameReady, RemoveSession
  <1> QED BY <1>2, <1>3, <1>4 DEF PublishSteps

(* A step of the last kind leaves publications and phase alone.            *)
LEMMA QuietStepsPublishNothing == QuietSteps => UNCHANGED <<phase, publishVars>>
  BY DEF QuietSteps, Stop, StopCloses, Accept, AcceptConnection, SessionBecomesReady,
         SessionCloses, SessionBecameReady, RemoveSession, PublishNothing, publishVars

(* No step takes a count out of its limit.                                 *)
LEMMA StepKeepsPublications == TableInv /\ PublicationInv /\ [Next]_vars => PublicationInv'
  <1> SUFFICES ASSUME TableInv, PublicationInv, [Next]_vars PROVE PublicationInv'
    OBVIOUS
  <1>1. CASE PublishSteps /\ Next
    BY <1>1, PublishStepsPublish, PublishKeepsPublications, StepKeepsTable
  <1>2. CASE QuietSteps \/ UNCHANGED vars
    <2>1. UNCHANGED <<publications, published, update>>
      BY <1>2, QuietStepsPublishNothing DEF publishVars, vars
    <2> QED BY <2>1 DEF PublicationInv, PublicationOK, UpdateOK
  <1>3. CASE \E p \in publications : Yield(p) \/ \E c \in p.left : Ask(p, c)
    BY <1>3, AskKeepsPublications, YieldKeepsPublications
  <1> QED BY <1>1, <1>2, <1>3, KindsOfStep

(* What the run checks follows from the two invariants.                    *)
LEMMA TypesOfServer == TableInv /\ PublicationInv => ServerInv
  <1> SUFFICES ASSUME TableInv, PublicationInv PROVE ServerInv
    OBVIOUS
  <1>1. \A p \in publications : /\ p.number \in 1 .. published /\ p.left \subseteq Clients
                                /\ p.count + Cardinality(p.left) <= MaximumClients
    BY DEF PublicationInv, PublicationOK
  <1>2. TypeOK
    BY <1>1 DEF TableInv, TableTypes, PublicationInv, UpdateOK, TypeOK
  <1> QED BY <1>2 DEF TableInv, PublicationInv, UpdateOK, CountWithinLimit, ServerInv

(* The two invariants hold in every state.                                 *)
LEMMA TypesHold == Spec => [](TableInv /\ PublicationInv)
  BY TableInitially, PublicationsInitially, StepKeepsTable, StepKeepsPublications, PTL DEF Spec

(* For any number of browsers, of calls of start() and of stop(): the      *)
(* count that is shown is within the limit, and every open connection is   *)
(* in the table or about to be closed by a stop().                         *)
THEOREM ServerInvariant == Spec => []ServerInv
  BY TypesHold, TypesOfServer, PTL
-------------------------------------------------------------------------------
Closing == \E x \in Stops : stopStep[x] = "closing"

(* The sessions K were counted ready, L are still to be asked: up to what  *)
(* pending tasks will tell, the count will be that of the ready sessions.  *)
Counts(K, L, n) ==
    /\ IsFiniteSet(K) /\ Cardinality(K) = n /\ K \cap L = {}
    /\ (K \union L) \subseteq sessions
    /\ \A c \in Clients \ (readyTasks \union closedTasks) :
          c \in sessions /\ conn[c] = "ready" <=> c \in K \/ (c \in L /\ conn[c] = "ready")

Counted(L, n) == \E K \in SUBSET Clients : Counts(K, L, n)

NewestUnderWay ==
    \A p \in publications : p.number = published =>
        /\ update.number < published
        /\ ~Closing => phase = "listening" /\ Counted(p.left, p.count)

NewestShown ==
    subscribed /\ update.number = published /\ ~Closing =>
        /\ update.phase = phase
        /\ phase = "listening" => Counted({}, update.count)
        /\ phase # "listening" => update.count = 0

NumbersDiffer == \A p, q \in publications : p.number = q.number => p = q

NewestInv == NewestUnderWay /\ NewestShown /\ NumbersDiffer

(* In the beginning what is shown is right.                                *)
LEMMA NewestInitially == Init => NewestInv
  BY DEF Init, NewestInv, NewestUnderWay, NewestShown, NumbersDiffer

(* A new publication starts from the table as it is.                       *)
LEMMA PublishMakesNewest ==
    ASSUME TableInv', PublicationInv, NewestInv, NEW before, UpdateOK(before, published),
           Publish(before)
    PROVE  NewestInv'
  <1>0. /\ published \in Nat /\ published' = published + 1
        /\ \A p \in publications : p.number \in 1 .. published
        /\ update.number \in Nat /\ update.number <= published
        /\ before.number \in Nat /\ before.number <= published
    BY DEF PublicationInv, PublicationOK, UpdateOK, Updates, Publish
  <1>1. CASE /\ phase' = "listening"
             /\ publications' = publications
                   \union {[number |-> published + 1, left |-> sessions', count |-> 0]}
             /\ update' = before
    <2> DEFINE p == [number |-> published + 1, left |-> sessions', count |-> 0]
    <2>1. p.number = published + 1 /\ p.left = sessions' /\ p.count = 0
      OBVIOUS
    <2>2. Counted(sessions, 0)'
      <3>1. Counts({}, sessions, 0)'
        BY FS_EmptySet DEF Counts
      <3> QED BY <3>1 DEF Counted
    <2> HIDE DEF p
    <2>3. update'.number < published + 1
      BY <1>0, <1>1
    <2>4. ASSUME NEW q \in publications', q.number = published'
          PROVE  update'.number < published' /\ phase' = "listening" /\ Counted(q.left, q.count)'
      <3>1. q = p
        BY <1>0, <1>1, <2>4 DEF p
      <3>2. Counted(q.left, q.count)' <=> Counted(sessions, 0)'
        BY <2>1, <3>1 DEF Counted, Counts
      <3> QED BY <1>0, <1>1, <2>2, <2>3, <3>2
    <2>5. NewestUnderWay'
      BY <2>4 DEF NewestUnderWay
    <2>6. NewestShown'
      BY <1>0, <2>3 DEF NewestShown
    <2>7. NumbersDiffer'
      BY <1>0, <1>1, <2>1 DEF NewestInv, NumbersDiffer, p
    <2> QED BY <2>5, <2>6, <2>7 DEF NewestInv
  <1>2. CASE /\ phase' # "listening" \/ sessions' = {}
             /\ update' = Shown(phase', 0, published + 1) /\ UNCHANGED publications
    <2>1. NewestUnderWay' /\ NumbersDiffer'
      BY <1>0, <1>2 DEF NewestUnderWay, NumbersDiffer, NewestInv
    <2>2. CASE subscribed'
      <3>1. /\ update'.phase = phase' /\ update'.count = 0
        BY <1>2, <2>2 DEF Shown
      <3>2. sessions' = {} => Counted({}, 0)'
        <4>1. sessions' = {} => Counts({}, {}, 0)'
          BY FS_EmptySet DEF Counts
        <4> QED BY <4>1 DEF Counted
      <3>3. NewestShown'
        BY <1>2, <3>1, <3>2 DEF NewestShown
      <3> QED BY <2>1, <3>3 DEF NewestInv
    <2>3. CASE ~subscribed'
      BY <2>1, <2>3 DEF NewestInv, NewestShown
    <2> QED BY <2>2, <2>3
  <1> QED BY <1>1, <1>2 DEF Publish

(* A step that publishes nothing changes nothing that was counted and      *)
(* leaves what it does change to a pending task or a stop that closes.     *)
LEMMA QuietKeepsCounts ==
    ASSUME TableInv, QuietSteps, ~Closing',
           NEW K \in SUBSET Clients, NEW L, NEW n, Counts(K, L, n)
    PROVE  ~Closing /\ Counts(K, L, n)'
  <1> USE DEF connVars, stopVars, publishVars
  <1>0. /\ conn \in [Clients -> ConnStates] /\ stopStep \in [Stops -> {"idle", "closing", "done"}]
        /\ sessions \subseteq {c \in Clients : conn[c] \in {"connected", "ready", "closed"}}
        /\ closedTasks \subseteq {c \in Clients : conn[c] = "closed"}
    BY DEF TableInv, TableTypes
  <1>1. ASSUME NEW x \in Stops, Stop(x) \/ \E c \in Clients : StopCloses(x, c)
        PROVE  FALSE
    BY <1>0, <1>1 DEF Stop, StopCloses, Closing
  <1>2. ASSUME NEW c \in Clients, Accept(c) \/ AcceptConnection(c)
        PROVE  ~Closing /\ Counts(K, L, n)'
    <2>1. /\ conn[c] \in {"accepting", "none"} /\ c \notin sessions
          /\ \A d \in Clients : d # c => conn'[d] = conn[d]
          /\ conn'[c] # "ready" /\ sessions' \in {sessions, sessions \union {c}}
          /\ UNCHANGED <<readyTasks, closedTasks, stopStep>>
      BY <1>0, <1>2 DEF Accept, AcceptConnection
    <2> QED BY <2>1 DEF Counts, Closing
  <1>3. ASSUME NEW c \in Clients, SessionBecomesReady(c)
        PROVE  ~Closing /\ Counts(K, L, n)'
    <2>1. /\ \A d \in Clients : d # c => conn'[d] = conn[d]
          /\ readyTasks' = readyTasks \union {c}
          /\ UNCHANGED <<sessions, closedTasks, stopStep>>
      BY <1>0, <1>3 DEF SessionBecomesReady
    <2> QED BY <2>1 DEF Counts, Closing
  <1>4. ASSUME NEW c \in Clients, SessionCloses(c)
        PROVE  ~Closing /\ Counts(K, L, n)'
    <2>1. /\ \A d \in Clients : d # c => conn'[d] = conn[d]
          /\ closedTasks' = closedTasks \union {c}
          /\ UNCHANGED <<sessions, readyTasks, stopStep>>
      BY <1>0, <1>4 DEF SessionCloses, Closed
    <2> QED BY <2>1 DEF Counts, Closing
  <1>5. ASSUME NEW c \in Clients, c \notin sessions, SessionBecameReady(c) \/ RemoveSession(c)
        PROVE  ~Closing /\ Counts(K, L, n)'
    <2>1. /\ readyTasks' \in {readyTasks, readyTasks \ {c}}
          /\ closedTasks' \in {closedTasks, closedTasks \ {c}}
          /\ sessions' = sessions /\ UNCHANGED <<conn, stopStep>>
      BY <1>5 DEF SessionBecameReady, RemoveSession
    <2> QED BY <1>5, <2>1 DEF Counts, Closing
  <1> QED BY <1>1, <1>2, <1>3, <1>4, <1>5 DEF QuietSteps

(* A stop() ends its closing only in a step that publishes.                *)
LEMMA ClosingMayEndOnlyPublishing ==
    ASSUME TableInv, QuietSteps, ~Closing'
    PROVE  ~Closing
  <1>1. stopStep \in [Stops -> {"idle", "closing", "done"}]
    BY DEF TableInv, TableTypes
  <1> QED BY <1>1 DEF QuietSteps, Stop, StopCloses, Accept, AcceptConnection, SessionBecomesReady,
                      SessionCloses, SessionBecameReady, RemoveSession, Closing, stopVars

(* A step that publishes nothing leaves a Task, or a stop(), that will.    *)
LEMMA QuietKeepsNewest ==
    ASSUME TableInv, NewestInv, QuietSteps
    PROVE  NewestInv'
  <1>1. UNCHANGED <<phase, publications, published, subscribed, update>>
    BY QuietStepsPublishNothing DEF publishVars
  <1>2. ASSUME NEW L, NEW n, ~Closing', ~Closing => Counted(L, n)
        PROVE  \E K \in SUBSET Clients : Counts(K, L, n)'
    <2>1. ~Closing
      BY <1>2, ClosingMayEndOnlyPublishing
    <2>2. PICK K \in SUBSET Clients : Counts(K, L, n)
      BY <1>2, <2>1 DEF Counted
    <2> QED BY <1>2, <2>2, QuietKeepsCounts
  <1>3. ASSUME NEW p \in publications', p.number = published'
        PROVE  /\ update'.number < published'
               /\ ~Closing' => phase' = "listening" /\ \E K \in SUBSET Clients : Counts(K, p.left, p.count)'
    <2>1. p \in publications /\ p.number = published
      BY <1>1, <1>3
    <2>2. update.number < published /\ (~Closing => phase = "listening" /\ Counted(p.left, p.count))
      BY <2>1 DEF NewestInv, NewestUnderWay
    <2>3. ~Closing' => ~Closing
      BY ClosingMayEndOnlyPublishing
    <2> QED BY <1>1, <1>2, <2>2, <2>3
  <1>4. NewestUnderWay'
    BY <1>3 DEF NewestUnderWay, Counted
  <1>5. ASSUME subscribed', update'.number = published', ~Closing'
        PROVE  /\ update'.phase = phase'
               /\ phase' = "listening" => \E K \in SUBSET Clients : Counts(K, {}, update.count)'
               /\ phase' # "listening" => update'.count = 0
    <2>1. ~Closing
      BY <1>5, ClosingMayEndOnlyPublishing
    <2>2. /\ update.phase = phase
          /\ phase = "listening" => Counted({}, update.count)
          /\ phase # "listening" => update.count = 0
      BY <1>1, <1>5, <2>1 DEF NewestInv, NewestShown
    <2>3. phase = "listening" => \E K \in SUBSET Clients : Counts(K, {}, update.count)'
      <3>1. CASE phase = "listening"
        <4>1. PICK n : n = update.count
          OBVIOUS
        <4>2. ~Closing => Counted({}, n)
          BY <2>2, <3>1, <4>1
        <4>3. PICK K \in SUBSET Clients : Counts(K, {}, n)'
          BY <1>2, <1>5, <4>2
        <4>4. n = update'.count
          BY <1>1, <4>1
        <4>5. Counts(K, {}, update.count)'
          BY <4>3, <4>4 DEF Counts
        <4> QED BY <4>5
      <3> QED BY <3>1
    <2> QED BY <1>1, <2>2, <2>3
  <1>6. NewestShown'
    BY <1>5 DEF NewestShown, Counted
  <1>7. NumbersDiffer'
    BY <1>1 DEF NewestInv, NumbersDiffer
  <1> QED BY <1>4, <1>6, <1>7 DEF NewestInv

(* The session asked goes from those left to those counted, if it is ready.*)
LEMMA CountOne ==
    ASSUME NEW L \in SUBSET Clients, NEW n \in Nat, NEW c \in L, Counted(L, n)
    PROVE  Counted(L \ {c}, n + IF conn[c] = "ready" THEN 1 ELSE 0)
  <1>1. PICK K \in SUBSET Clients : Counts(K, L, n)
    BY DEF Counted
  <1>2. CASE conn[c] = "ready"
    <2>1. IsFiniteSet(K \union {c}) /\ Cardinality(K \union {c}) = n + 1
      BY <1>1, FS_AddElement DEF Counts
    <2>2. Counts(K \union {c}, L \ {c}, n + 1)
      BY <1>1, <1>2, <2>1 DEF Counts
    <2>3. Counted(L \ {c}, n + 1)
      BY <2>2 DEF Counted
    <2> QED BY <1>2, <2>3
  <1>3. CASE conn[c] # "ready"
    <2>1. Counts(K, L \ {c}, n)
      BY <1>1, <1>3 DEF Counts
    <2>2. Counted(L \ {c}, n)
      BY <2>1 DEF Counted
    <2> QED BY <1>3, <2>2
  <1> QED BY <1>2, <1>3

(* A session the newest publication asks is counted exactly if it is       *)
(* ready.                                                                  *)
LEMMA AskKeepsNewest ==
    ASSUME PublicationInv, NewestInv, NEW p \in publications, NEW c \in p.left, Ask(p, c)
    PROVE  NewestInv'
  <1> DEFINE one == IF conn[c] = "ready" THEN 1 ELSE 0
             q == [p EXCEPT !.left = @ \ {c}, !.count = @ + one]
  <1>1. /\ publications' = (publications \ {p}) \union {q}
        /\ UNCHANGED <<phase, sessions, conn, readyTasks, closedTasks, stopStep, published,
                       subscribed, update>>
    BY DEF Ask, connVars, stopVars
  <1>2. PublicationOK(p, published)
    BY DEF PublicationInv
  <1>3. /\ q.left = p.left \ {c} /\ q.count = p.count + one /\ q.number = p.number
        /\ p.left \in SUBSET Clients /\ p.count \in Nat
    <2> HIDE DEF one
    <2> QED BY <1>2 DEF PublicationOK
  <1>4. Counted(p.left, p.count) => Counted(q.left, q.count)
    BY <1>3, CountOne
  <1> HIDE DEF q
  <1>5. ASSUME NEW r \in publications', r.number = published
        PROVE  /\ update.number < published
               /\ ~Closing => phase = "listening" /\ Counted(r.left, r.count)
    <2>1. CASE r = q
      BY <1>3, <1>4, <1>5, <2>1 DEF NewestInv, NewestUnderWay
    <2>2. CASE r # q
      BY <1>1, <1>5, <2>2 DEF NewestInv, NewestUnderWay
    <2> QED BY <2>1, <2>2
  <1>6. (Closing' <=> Closing) /\ \A L, n : Counted(L, n) => Counted(L, n)'
    BY <1>1 DEF Closing, Counted, Counts
  <1>7. NewestUnderWay'
    <2>1. ASSUME NEW r \in publications', r.number = published'
          PROVE  /\ update'.number < published'
                 /\ ~Closing' => phase' = "listening" /\ Counted(r.left, r.count)'
      BY <1>1, <1>5, <1>6, <2>1
    <2> QED BY <2>1 DEF NewestUnderWay
  <1>8. NewestShown'
    <2>1. (Counted({}, update.count))' <=> Counted({}, update.count)
      BY <1>1 DEF Counted, Counts
    <2> QED BY <1>1, <1>6, <2>1 DEF NewestInv, NewestShown
  <1>9. NumbersDiffer'
    BY <1>1, <1>3 DEF NewestInv, NumbersDiffer
  <1> QED BY <1>7, <1>8, <1>9 DEF NewestInv

(* When the newest publication is shown, so is its count.                  *)
LEMMA YieldKeepsNewest ==
    ASSUME PublicationInv, NewestInv, NEW p \in publications, Yield(p)
    PROVE  NewestInv'
  <1>1. /\ publications' = publications \ {p} /\ update' = Shown("listening", p.count, p.number)
        /\ p.left = {}
        /\ UNCHANGED <<phase, sessions, conn, readyTasks, closedTasks, stopStep, published,
                       subscribed>>
    BY DEF Yield, connVars, stopVars
  <1>2. /\ published \in Nat /\ p.number \in 1 .. published
        /\ update.number \in Nat
    BY DEF PublicationInv, PublicationOK, UpdateOK, Updates
  <1>3. (Closing' <=> Closing) /\ \A L, n : Counted(L, n) <=> Counted(L, n)'
    BY <1>1 DEF Closing, Counted, Counts
  <1>4. NumbersDiffer'
    BY <1>1 DEF NewestInv, NumbersDiffer
  <1>5. update' = (IF subscribed THEN [phase |-> "listening", count |-> p.count, number |-> p.number]
                                 ELSE update)
    BY <1>1 DEF Shown
  <1>6. NewestUnderWay'
    <2>1. ASSUME NEW r \in publications', r.number = published
          PROVE  /\ update'.number < published
                 /\ ~Closing => phase = "listening" /\ Counted(r.left, r.count)
      <3>1. /\ r \in publications /\ r # p /\ update.number < published
            /\ ~Closing => phase = "listening" /\ Counted(r.left, r.count)
        BY <1>1, <2>1 DEF NewestInv, NewestUnderWay
      <3>2. p.number # published
        BY <2>1, <3>1 DEF NewestInv, NumbersDiffer
      <3>3. p.number < published
        BY <1>2, <3>2
      <3>4. update'.number < published
        BY <1>5, <3>1, <3>3
      <3> QED BY <3>1, <3>4
    <2>2. ASSUME NEW r \in publications', r.number = published'
          PROVE  /\ update'.number < published'
                 /\ ~Closing' => phase' = "listening" /\ Counted(r.left, r.count)'
      BY <1>1, <1>3, <2>1, <2>2
    <2> QED BY <2>2 DEF NewestUnderWay
  <1>7. NewestShown'
    <2>1. CASE subscribed /\ p.number = published /\ ~Closing
      <3>1. phase = "listening" /\ Counted({}, p.count)
        BY <1>1, <2>1 DEF NewestInv, NewestUnderWay
      <3>2. update'.count = p.count /\ update'.phase = "listening"
        BY <1>5, <2>1
      <3>3. Counted({}, p.count)'
        BY <1>3, <3>1
      <3>4. Counted({}, update.count)'
        BY <3>2, <3>3 DEF Counted, Counts
      <3> QED BY <1>1, <3>1, <3>2, <3>4 DEF NewestShown
    <2>2. CASE subscribed /\ p.number # published
      BY <1>1, <1>5, <2>2 DEF NewestShown
    <2>3. CASE ~subscribed \/ Closing
      BY <1>1, <1>3, <2>3 DEF NewestShown
    <2> QED BY <2>1, <2>2, <2>3
  <1> QED BY <1>4, <1>6, <1>7 DEF NewestInv

(* The newest publication accounts for every ready session, but for those  *)
(* of pending Tasks.                                                       *)
LEMMA StepKeepsNewest == TableInv /\ PublicationInv /\ NewestInv /\ [Next]_vars => NewestInv'
  <1> SUFFICES ASSUME TableInv, PublicationInv, NewestInv, [Next]_vars PROVE NewestInv'
    OBVIOUS
  <1>1. CASE PublishSteps /\ Next
    BY <1>1, PublishStepsPublish, PublishMakesNewest, StepKeepsTable
  <1>2. CASE QuietSteps
    BY <1>2, QuietKeepsNewest
  <1>3. CASE \E p \in publications : Yield(p) \/ \E c \in p.left : Ask(p, c)
    BY <1>3, AskKeepsNewest, YieldKeepsNewest
  <1>4. CASE UNCHANGED vars
    BY <1>4 DEF vars, connVars, stopVars, publishVars, NewestInv, NewestUnderWay, NewestShown,
                NumbersDiffer, Closing, Counted, Counts
  <1> QED BY <1>1, <1>2, <1>3, <1>4, KindsOfStep

(* If the publication that started last is the last that was shown, then   *)
(* once all is quiet what the reader sees is the server's state, however   *)
(* many publications overlapped on the way there.                          *)
THEOREM NewestPublicationTrue == Spec => []NewestPublicationIsRight
  <1>1. Spec => []NewestInv
    BY TypesHold, NewestInitially, StepKeepsNewest, PTL DEF Spec
  <1>2. TableInv /\ NewestInv => NewestPublicationIsRight
    <2> SUFFICES ASSUME TableInv, NewestInv, Settled, subscribed, update.number = published
                 PROVE  UpdateIsRight
      BY DEF NewestPublicationIsRight
    <2>1. ~Closing /\ readyTasks = {} /\ closedTasks = {}
      BY DEF Settled, Closing
    <2>2. /\ update.phase = phase
          /\ phase = "listening" => Counted({}, update.count)
          /\ phase # "listening" => update.count = 0
      BY <2>1 DEF NewestInv, NewestShown
    <2>3. CASE phase = "listening"
      <3>1. PICK K \in SUBSET Clients : Counts(K, {}, update.count)
        BY <2>2, <2>3 DEF Counted
      <3>2. K = ReadyClients
        BY <2>1, <3>1 DEF Counts, ReadyClients, TableInv, TableTypes
      <3> QED BY <2>2, <2>3, <3>1, <3>2 DEF Counts, UpdateIsRight
    <2>4. CASE phase # "listening"
      BY <2>2, <2>4 DEF UpdateIsRight
    <2> QED BY <2>3, <2>4
  <1> QED BY <1>1, <1>2, TypesHold, PTL
------------------------------------------------------------------------------
(* A broadcast of the server, for any sessions and any window.             *)
HIDE ServerConstants
USE BroadcastConstants

Deliveries == [Sessions -> {"waiting"} \union Running \union Outcomes]

(* The children the task group still has to give up: running, or ended and *)
(* not yet taken.                                                          *)
InGroup == {c \in Sessions : delivery[c] # "waiting" /\ c \notin collected}

StateTypes ==
    /\ sessionState \in [Sessions -> {"ready", "negotiating", "closed"}]
    /\ delivery \in Deliveries /\ cancelled \in BOOLEAN
    /\ collected \subseteq {c \in Sessions : delivery[c] \in Outcomes}

(* The group never holds more than the window, and while somebody waits    *)
(* and nothing was cancelled it is not empty.                              *)
GroupInv ==
    /\ Cardinality(InGroup) <= MaximumConcurrentDeliveries
    /\ ~cancelled /\ Waiting # {} => InGroup # {}

ResultInv ==
    /\ result.sent + result.failed <= Cardinality(Sessions)
    /\ result.returned \in BOOLEAN
    /\ result.returned => Active = {} /\ (cancelled \/ Waiting = {})

GroupedInv == StateTypes /\ GroupInv /\ ResultInv

(* Any sessions are finitely many, and more of them are not fewer.         *)
LEMMA Finite ==
    /\ Cardinality(Sessions) \in Nat
    /\ \A S \in SUBSET Sessions : IsFiniteSet(S) /\ Cardinality(S) \in Nat
                                  /\ Cardinality(S) <= Cardinality(Sessions)
    /\ \A S, T \in SUBSET Sessions : S \subseteq T => Cardinality(S) <= Cardinality(T)
  <1>1. Cardinality(Sessions) \in Nat
    BY FS_CardinalityType
  <1>2. \A S \in SUBSET Sessions : IsFiniteSet(S) /\ Cardinality(S) <= Cardinality(Sessions)
    BY FS_Subset
  <1>3. \A S \in SUBSET Sessions : Cardinality(S) \in Nat
    BY <1>2, FS_CardinalityType
  <1>4. \A S, T \in SUBSET Sessions : S \subseteq T => Cardinality(S) <= Cardinality(T)
    BY <1>2, FS_Subset
  <1> QED BY <1>1, <1>2, <1>3, <1>4

(* A child waits, runs or has ended.                                       *)
LEMMA Vocabulary ==
    /\ "waiting" \notin Running /\ "waiting" \notin Outcomes /\ Running \cap Outcomes = {}
  BY DEF Running, Outcomes

(* The lesser of two numbers.                                              *)
LEMMA MinOfTwo ==
    ASSUME NEW m \in Nat, NEW n \in Nat
    PROVE  Min({m, n}) = IF m <= n THEN m ELSE n
  <1>1. \E x \in {m, n} : \A y \in {m, n} : x <= y
    OBVIOUS
  <1>2. Min({m, n}) \in {m, n} /\ \A y \in {m, n} : Min({m, n}) <= y
    BY <1>1 DEF Min
  <1> QED BY <1>2

(* The group of children begins within its window.                         *)
LEMMA GroupInitially == BroadcastInit => GroupedInv
  <1> SUFFICES ASSUME BroadcastInit PROVE GroupedInv
    OBVIOUS
  <1>1. PICK first \in SUBSET Sessions :
            /\ Cardinality(first) = Min({MaximumConcurrentDeliveries, Cardinality(Sessions)})
            /\ delivery = [c \in Sessions |-> IF c \in first THEN "started" ELSE "waiting"]
    BY DEF BroadcastInit
  <1>2. StateTypes
    BY <1>1 DEF BroadcastInit, StateTypes, Deliveries, Running
  <1>3. InGroup = first
    BY <1>1 DEF BroadcastInit, InGroup
  <1>4. /\ Cardinality(first) <= MaximumConcurrentDeliveries
        /\ Cardinality(Sessions) # 0 => Cardinality(first) # 0
    BY <1>1, Finite, MinOfTwo
  <1>5. Waiting # {} => first # {}
    BY <1>4, Finite, FS_EmptySet DEF Waiting, With
  <1>6. ResultInv
    BY Finite DEF BroadcastInit, ResultInv, NoResult
  <1> QED BY <1>2, <1>3, <1>4, <1>5, <1>6 DEF GroupedInv, GroupInv

(* A delivery that goes on stays in the group.                             *)
LEMMA DeliveryGoesOn ==
    ASSUME GroupedInv, NEW c \in Sessions, delivery[c] \in Running,
           NEW step \in Running \union Outcomes, Become(c, step),
           sessionState' \in [Sessions -> {"ready", "negotiating", "closed"}],
           UNCHANGED <<collected, cancelled, result>>
    PROVE  GroupedInv'
  <1>1. delivery \in Deliveries /\ delivery' = [delivery EXCEPT ![c] = step]
    BY DEF GroupedInv, StateTypes, Become
  <1>2. c \notin collected
    BY Vocabulary DEF GroupedInv, StateTypes
  <1>3. StateTypes'
    BY <1>1, <1>2 DEF GroupedInv, StateTypes, Deliveries
  <1>4. InGroup' = InGroup
    BY <1>1, Vocabulary DEF InGroup, Deliveries
  <1>5. Waiting' = Waiting
    BY <1>1, Vocabulary DEF Waiting, With, Deliveries
  <1>6. ~result.returned
    BY DEF GroupedInv, ResultInv, Active
  <1> QED BY <1>3, <1>4, <1>5, <1>6 DEF GroupedInv, GroupInv, ResultInv

(* A child that goes on, or ends, stays in the group until it is           *)
(* collected.                                                              *)
LEMMA DeliveryKeepsGroup ==
    ASSUME GroupedInv, NEW c \in Sessions, DeliveryStep(c)
    PROVE  GroupedInv'
  <1>0. sessionState \in [Sessions -> {"ready", "negotiating", "closed"}]
    BY DEF GroupedInv, StateTypes
  <1>1. CASE CheckCancellation(c)
    BY <1>0, <1>1, DeliveryGoesOn DEF CheckCancellation, Running, Outcomes
  <1>2. CASE Snapshot(c)
    BY <1>0, <1>2, DeliveryGoesOn DEF Snapshot, Running, Outcomes
  <1>3. CASE BeginSend(c)
    BY <1>0, <1>3, DeliveryGoesOn DEF BeginSend, Running, Outcomes
  <1>4. CASE Write(c)
    BY <1>0, <1>4, DeliveryGoesOn DEF Write, Running, Outcomes
  <1>5. CASE CloseFailure(c)
    BY <1>0, <1>5, DeliveryGoesOn DEF CloseFailure, Running, Outcomes
  <1> QED BY <1>1, <1>2, <1>3, <1>4, <1>5 DEF DeliveryStep

(* An outcome is taken: its child leaves the group, and one may join.      *)
LEMMA CollectKeepsGroup ==
    ASSUME GroupedInv, NEW c \in Sessions, Collect(c)
    PROVE  GroupedInv'
  <1>0. /\ delivery \in Deliveries /\ collected \subseteq Sessions
        /\ \A d \in collected : delivery[d] \in Outcomes
    BY DEF GroupedInv, StateTypes
  <1>1. /\ delivery[c] \in Outcomes /\ c \notin collected
        /\ collected' = collected \union {c}
        /\ UNCHANGED <<sessionState, cancelled, result>>
    BY DEF Collect
  <1>2. c \in InGroup /\ InGroup \in SUBSET Sessions
    BY <1>1, Vocabulary DEF InGroup
  <1>3. /\ IsFiniteSet(InGroup \ {c})
        /\ Cardinality(InGroup \ {c}) = Cardinality(InGroup) - 1
        /\ Cardinality(InGroup) \in Nat
    BY <1>2, Finite, FS_RemoveElement
  <1>4. Cardinality(InGroup) <= MaximumConcurrentDeliveries
    BY DEF GroupedInv, GroupInv
  <1>5. CASE (Waiting = {} \/ cancelled) /\ UNCHANGED delivery
    <2>1. StateTypes'
      BY <1>1, <1>5 DEF GroupedInv, StateTypes
    <2>2. InGroup' = InGroup \ {c} /\ Waiting' = Waiting /\ Active' = Active
      BY <1>1, <1>5 DEF InGroup, Waiting, With, Active
    <2>3. GroupInv'
      BY <1>1, <1>3, <1>4, <1>5, <2>2 DEF GroupInv
    <2>4. ResultInv'
      BY <1>1, <2>2 DEF GroupedInv, ResultInv
    <2> QED BY <2>1, <2>3, <2>4 DEF GroupedInv
  <1>6. ASSUME ~cancelled, NEW w \in Waiting, Become(w, "started")
        PROVE  GroupedInv'
    <2>1. /\ w \in Sessions /\ delivery[w] = "waiting"
          /\ delivery' = [delivery EXCEPT ![w] = "started"]
      BY <1>6 DEF Waiting, With, Become
    <2>2. w \notin InGroup /\ w \notin collected /\ w # c
      BY <1>0, <1>1, <2>1, Vocabulary DEF InGroup
    <2>3. StateTypes'
      BY <1>0, <1>1, <2>1, <2>2 DEF GroupedInv, StateTypes, Deliveries, Running
    <2>4. InGroup' = (InGroup \ {c}) \union {w}
      BY <1>0, <1>1, <2>1, <2>2 DEF InGroup, Deliveries
    <2>5. Cardinality((InGroup \ {c}) \union {w}) = Cardinality(InGroup)
      <3>1. w \notin InGroup \ {c}
        BY <2>2
      <3>2. Cardinality((InGroup \ {c}) \union {w}) = Cardinality(InGroup \ {c}) + 1
        BY <1>3, <3>1, FS_AddElement
      <3> QED BY <1>3, <3>2
    <2>6. GroupInv'
      <3>1. Cardinality(InGroup') <= MaximumConcurrentDeliveries
        BY <1>4, <2>4, <2>5
      <3>2. InGroup' # {}
        BY <2>4
      <3>3. Cardinality(InGroup)' = Cardinality(InGroup')
        OBVIOUS
      <3> QED BY <3>1, <3>2, <3>3 DEF GroupInv
    <2>7. ~result.returned
      BY <1>6 DEF GroupedInv, ResultInv
    <2>8. ResultInv'
      BY <1>1, <2>7 DEF GroupedInv, ResultInv
    <2> QED BY <2>3, <2>6, <2>8 DEF GroupedInv
  <1> QED BY <1>5, <1>6 DEF Collect

(* When the group is empty nobody waits, unless the broadcast is cancelled.*)
LEMMA ReturnKeepsGroup == GroupedInv /\ Return => GroupedInv'
  <1> SUFFICES ASSUME GroupedInv, Return PROVE GroupedInv'
    OBVIOUS
  <1>1. /\ Active = {} /\ UNCHANGED <<sessionState, delivery, collected, cancelled>>
        /\ \A c \in Sessions : delivery[c] = "waiting" \/ c \in collected
        /\ result' = [sent |-> Cardinality(With("sent")), failed |-> Cardinality(With("failed")),
                      returned |-> TRUE]
    BY DEF Return
  <1>2. cancelled \/ Waiting = {}
    BY <1>1 DEF GroupedInv, GroupInv, InGroup
  <1>3. StateTypes' /\ GroupInv' /\ Active' = Active /\ Waiting' = Waiting
    BY <1>1 DEF GroupedInv, StateTypes, GroupInv, InGroup, Waiting, With, Active
  <1>4. Cardinality(With("sent")) + Cardinality(With("failed")) <= Cardinality(Sessions)
    <2>1. /\ With("sent") \in SUBSET Sessions /\ With("failed") \in SUBSET Sessions
          /\ With("sent") \cap With("failed") = {}
          /\ (With("sent") \union With("failed")) \in SUBSET Sessions
      BY DEF With
    <2>2. /\ IsFiniteSet(With("sent")) /\ IsFiniteSet(With("failed"))
          /\ Cardinality(With("sent")) \in Nat /\ Cardinality(With("failed")) \in Nat
          /\ Cardinality(With("sent") \union With("failed")) <= Cardinality(Sessions)
      BY <2>1, Finite
    <2>3. Cardinality(With("sent") \union With("failed"))
              = Cardinality(With("sent")) + Cardinality(With("failed")) - Cardinality({})
      BY <2>1, <2>2, FS_Union
    <2> QED BY <2>2, <2>3, FS_EmptySet
  <1>5. ResultInv'
    BY <1>1, <1>2, <1>3, <1>4 DEF ResultInv
  <1> QED BY <1>3, <1>5 DEF GroupedInv

(* No step exceeds the window or leaves a waiting session without a child  *)
(* before it.                                                              *)
LEMMA StepKeepsGroup == GroupedInv /\ [BroadcastNext]_broadcastVars => GroupedInv'
  <1> SUFFICES ASSUME GroupedInv, [BroadcastNext]_broadcastVars PROVE GroupedInv'
    OBVIOUS
  <1> USE DEF GroupedInv, StateTypes, GroupInv, ResultInv, InGroup, Waiting, With, Active
  <1>1. ASSUME NEW c \in Sessions, SessionChanges(c) PROVE GroupedInv'
    BY <1>1 DEF SessionChanges
  <1>2. CASE Cancel
    BY <1>2 DEF Cancel
  <1>3. CASE UNCHANGED broadcastVars
    BY <1>3 DEF broadcastVars
  <1> HIDE DEF GroupedInv
  <1> QED BY <1>1, <1>2, <1>3, DeliveryKeepsGroup, CollectKeepsGroup, ReturnKeepsGroup DEF BroadcastNext

(* When the group is empty and nothing was cancelled nobody waits.         *)
LEMMA InvariantOfGroup == GroupedInv => BroadcastInv
  <1> SUFFICES ASSUME GroupedInv PROVE BroadcastInv
    OBVIOUS
  <1>1. Active \subseteq InGroup
    BY Vocabulary DEF GroupedInv, StateTypes, Active, InGroup
  <1>2. /\ Active \in SUBSET Sessions /\ InGroup \in SUBSET Sessions
    BY DEF Active, InGroup
  <1>3. Cardinality(Active) <= MaximumConcurrentDeliveries
    BY <1>1, <1>2, Finite DEF GroupedInv, GroupInv
  <1>4. BroadcastTypeOK
    BY <1>3 DEF GroupedInv, StateTypes, Deliveries, ResultInv, BroadcastTypeOK
  <1>5. EverySessionHadItsTurn
    BY DEF GroupedInv, StateTypes, ResultInv, Deliveries, EverySessionHadItsTurn, Waiting, With,
           Active
  <1> QED BY <1>4, <1>5 DEF BroadcastInv

(* The window is never exceeded, and a broadcast that was not cancelled    *)
(* returns when every session has had its turn, for any set of sessions    *)
(* and any window.                                                         *)
THEOREM BroadcastInvariant == BroadcastSpec => []BroadcastInv
  BY GroupInitially, StepKeepsGroup, InvariantOfGroup, PTL DEF BroadcastSpec

(* A cancelled broadcast turns to no further session, and writes to none   *)
(* it was not writing to.                                                  *)
THEOREM CancelledTurnsToNobody == BroadcastSpec => CancelStopsBroadcast
  <1> DEFINE NobodyElse == /\ Waiting' = Waiting
                           /\ With("writing")' \subseteq With("writing")
                           /\ With("sent")' \subseteq With("sent") \union With("writing")
  <1>1. ASSUME GroupedInv, [BroadcastNext]_broadcastVars, cancelled
        PROVE  NobodyElse
    <2>0. delivery \in Deliveries
      BY <1>1 DEF GroupedInv, StateTypes
    <2>1. CASE UNCHANGED delivery
      BY <2>1 DEF Waiting, With
    <2>2. ASSUME NEW c \in Sessions, NEW step, Become(c, step), delivery[c] # "waiting",
                 step \notin {"waiting", "writing"}, step = "sent" => delivery[c] = "writing"
          PROVE  NobodyElse
      BY <2>0, <2>2 DEF Become, Waiting, With, Deliveries
    <2>3. ASSUME NEW c \in Sessions, DeliveryStep(c)
          PROVE  NobodyElse
      BY <1>1, <2>2, <2>3 DEF DeliveryStep, CheckCancellation, Snapshot, BeginSend, Write,
                              CloseFailure
    <2>4. ASSUME NEW c \in Sessions, Collect(c) \/ SessionChanges(c)
          PROVE  UNCHANGED delivery
      BY <1>1, <2>4 DEF Collect, SessionChanges
    <2>5. CASE Return \/ Cancel \/ UNCHANGED broadcastVars
      BY <2>1, <2>5 DEF Return, Cancel, broadcastVars
    <2> QED BY <1>1, <2>1, <2>3, <2>4, <2>5 DEF BroadcastNext
  <1>2. BroadcastSpec => []GroupedInv
    BY GroupInitially, StepKeepsGroup, PTL DEF BroadcastSpec
  <1>3. GroupedInv /\ [BroadcastNext]_broadcastVars =>
            [cancelled => NobodyElse]_broadcastVars
    BY <1>1
  <1> QED BY <1>2, <1>3, PTL DEF BroadcastSpec, CancelStopsBroadcast
------------------------------------------------------------------------------
(* A session of the server, for any number of sends and any input.         *)
HIDE BroadcastConstants
USE SessionConstants DEF None, sessionVars, socketVars, sendVars, QueueFree,
                         Handled, Lost, SendGoto, Leave, Torn, MayWrite

Frames == {"hello", "pong", "reload", "torn"}

(* While a block writes, nothing else runs on the queue: the session stays *)
(* ready.  A closed one handles nothing more.                              *)
WriterHoldsQueue ==
    /\ writer # None => state = "ready" /\ input = <<>>
    /\ state = "closed" => input = <<>>

(* A session is ready only after its hello went out.                       *)
ReadyAfterHello == state = "ready" => \E j \in DOMAIN outgoing : outgoing[j] = "hello"

(* The inductive invariant.                                                *)
SessionIInv == SessionInv /\ WriterHoldsQueue /\ ReadyAfterHello

(* What appending a frame to what went out does.                           *)
LEMMA AppendFrame ==
    ASSUME NEW s \in Seq(Frames), NEW f \in Frames
    PROVE  /\ Append(s, f) \in Seq(Frames)
           /\ DOMAIN s = 1 .. Len(s) /\ Len(s) \in Nat
           /\ DOMAIN Append(s, f) = 1 .. Len(s) + 1
           /\ \A i \in DOMAIN s : Append(s, f)[i] = s[i]
           /\ Append(s, f)[Len(s) + 1] = f
           /\ ToSet(Append(s, f)) = ToSet(s) \union {f}
  <1>1. /\ Append(s, f) \in Seq(Frames)
        /\ DOMAIN s = 1 .. Len(s) /\ Len(s) \in Nat
        /\ DOMAIN Append(s, f) = 1 .. Len(s) + 1
        /\ \A i \in DOMAIN s : Append(s, f)[i] = s[i]
        /\ Append(s, f)[Len(s) + 1] = f
    OBVIOUS
  <1>2. \A i \in 1 .. Len(s) + 1 : i \in DOMAIN s \/ i = Len(s) + 1
    BY <1>1
  <1>3. ToSet(Append(s, f)) = ToSet(s) \union {f}
    BY <1>1, <1>2 DEF ToSet
  <1> QED BY <1>1, <1>3

------------------------------------------------------------------------------
(* What a step is to the server and the browser.                           *)
Quiet ==
    /\ outgoing' = outgoing /\ reports' = reports
    /\ \/ state' = state
       \/ state = "connected" /\ state' = "negotiating"

Greets ==
    /\ state = "negotiating" /\ state' = "ready"
    /\ reports' = Append(reports, "ready") /\ outgoing' = Append(outgoing, "hello")

Writes(f) ==
    /\ state' = state /\ reports' = reports /\ outgoing' = Append(outgoing, f)
    /\ f = "reload" => state = "ready"

Closes ==
    /\ state' = "closed"
    /\ reports' = IF state = "closed" THEN reports ELSE Append(reports, "closed")
    /\ outgoing' = outgoing \/ outgoing' = Append(outgoing, "torn")

(* Every step is one of these.  A reload is only written while the block   *)
(* that found the session ready holds the queue.                           *)
LEMMA SessionSteps ==
    ASSUME SessionIInv, [SessionNext]_browserSessionVars
    PROVE  Quiet \/ Greets \/ Closes \/ \E f \in {"pong", "reload", "torn"} : Writes(f)
  <1> USE DEF Quiet, Greets, Closes, Writes, CloseOwned
  <1>1. CASE ReadAvailableBytes
    BY <1>1 DEF ReadAvailableBytes
  <1>2. CASE ProcessInput
    <2>1. CASE HandleRequest
      BY <2>1 DEF HandleRequest
    <2>2. CASE HandleHello
      BY <2>2 DEF HandleHello
    <2>3. CASE HandleControl
      BY <2>3 DEF HandleControl
    <2>4. CASE HandleBadFrame
      BY <2>4 DEF HandleBadFrame
    <2> QED BY <1>2, <2>1, <2>2, <2>3, <2>4 DEF ProcessInput
  <1>3. CASE ReadFails
    BY <1>3 DEF ReadFails
  <1>4. CASE NegotiationDeadlineReached
    BY <1>4 DEF NegotiationDeadlineReached
  <1>5. ASSUME NEW t \in Tokens, Arrives(t) PROVE Quiet
    BY <1>5 DEF Arrives
  <1>6. ASSUME NEW x \in Senders, Send(x) PROVE Quiet
    BY <1>6 DEF Send
  <1>7. ASSUME NEW x \in Senders, TaskCancelled(x) PROVE Quiet
    BY <1>7 DEF TaskCancelled
  <1>8. ASSUME NEW x \in Senders, SendBegins(x) PROVE Quiet
    BY <1>8 DEF SendBegins
  <1>9. ASSUME NEW x \in Senders, WritesPart(x) PROVE Quiet
    BY <1>9 DEF WritesPart
  <1>10. ASSUME NEW x \in Senders, WritesRest(x) PROVE Writes("reload")
    BY <1>10 DEF WritesRest, SessionIInv, WriterHoldsQueue
  <1>11. ASSUME NEW x \in Senders, WriteFails(x) PROVE Quiet \/ Writes("torn")
    BY <1>11 DEF WriteFails
  <1>12. ASSUME NEW x \in Senders, WriteCancelled(x) PROVE Quiet \/ Closes
    BY <1>12 DEF WriteCancelled
  <1>13. ASSUME NEW x \in Senders, Close(x) PROVE Closes
    BY <1>13 DEF Close
  <1>14. CASE UNCHANGED browserSessionVars
    BY <1>14 DEF browserSessionVars
  <1> QED BY <1>1, <1>2, <1>3, <1>4, <1>5, <1>6, <1>7, <1>8, <1>9, <1>10, <1>11, <1>12,
             <1>13, <1>14 DEF SessionNext, SendStep

(* Every variable keeps its type, the deadline its relation to the state,  *)
(* and the writer the queue.                                               *)
SessionControl == SessionTypeOK /\ DeadlineWhileNegotiating /\ WriterHoldsQueue

(* No step disturbs these.                                                 *)
LEMMA StepKeepsControl ==
    ASSUME SessionControl, [SessionNext]_browserSessionVars
    PROVE  SessionControl'
  <1> USE DEF SessionControl, SessionTypeOK, DeadlineWhileNegotiating, WriterHoldsQueue, States,
              CloseOwned
  <1>0. /\ \A r \in {"ready", "closed"} : Append(reports, r) \in Seq({"ready", "closed"})
        /\ \A f \in Frames : Append(outgoing, f) \in Seq({"hello", "pong", "reload", "torn"})
    BY DEF Frames
  <1> USE DEF Frames
  <1>1. CASE ReadAvailableBytes
    BY <1>1 DEF ReadAvailableBytes
  <1>2. CASE ProcessInput
    <2>1. input \in Seq(Tokens) /\ input # <<>> => Tail(input) \in Seq(Tokens)
      OBVIOUS
    <2>2. CASE HandleRequest
      <3>1. writer = None /\ UNCHANGED <<arrived, inputs, outgoing>> /\ UNCHANGED sendVars
        BY <1>2, <2>2 DEF HandleRequest, ProcessInput
      <3>2. CASE Lost
        <4>1. reports' \in Seq({"ready", "closed"})
          BY <1>0, <3>2
        <4> QED BY <3>1, <3>2, <4>1
      <3>3. CASE ~Lost
        <4>1. /\ input' \in Seq(Tokens) /\ UNCHANGED <<negotiationDeadline, reports>>
              /\ state = "connected" /\ state' \in {"connected", "negotiating"}
              /\ junk' \in BOOLEAN
          BY <1>2, <2>1, <2>2, <3>3 DEF HandleRequest, ProcessInput
        <4> QED BY <3>1, <4>1
      <3> QED BY <3>2, <3>3
    <2>3. CASE HandleHello
      <3>1. input' \in Seq(Tokens) /\ writer = None
        BY <1>2, <2>1, <2>3 DEF HandleHello, ProcessInput
      <3>2. /\ outgoing' \in Seq({"hello", "pong", "reload", "torn"})
            /\ reports' \in Seq({"ready", "closed"})
        BY <1>0, <2>3 DEF HandleHello
      <3>3. UNCHANGED <<junk, arrived, inputs>> /\ UNCHANGED sendVars
        BY <1>2, <2>3 DEF HandleHello, ProcessInput
      <3>4. state' = "ready" /\ negotiationDeadline' = "cancelled"
        BY <2>3 DEF HandleHello
      <3> QED BY <3>1, <3>2, <3>3, <3>4
    <2>4. CASE HandleControl
      <3>1. input' \in Seq(Tokens) /\ state # "closed" /\ writer = None
        BY <1>2, <2>1, <2>4 DEF HandleControl, ProcessInput
      <3>2. outgoing' \in Seq({"hello", "pong", "reload", "torn"})
        BY <1>0, <2>4 DEF HandleControl
      <3>3. /\ UNCHANGED <<state, negotiationDeadline, junk, reports, arrived, inputs>>
            /\ UNCHANGED sendVars
        BY <1>2, <2>4 DEF HandleControl, ProcessInput
      <3> QED BY <3>1, <3>2, <3>3
    <2>5. CASE HandleBadFrame
      <3>1. writer = None /\ UNCHANGED <<arrived, inputs, outgoing, junk>> /\ UNCHANGED sendVars
        BY <1>2, <2>5 DEF HandleBadFrame, ProcessInput
      <3>2. state' = "closed" /\ negotiationDeadline' = "cancelled" /\ input' = <<>>
        BY <2>5 DEF HandleBadFrame
      <3>3. reports' \in Seq({"ready", "closed"})
        BY <1>0, <2>5 DEF HandleBadFrame
      <3> QED BY <3>1, <3>2, <3>3
    <2> QED BY <1>2, <2>2, <2>3, <2>4, <2>5 DEF ProcessInput
  <1>3. CASE ReadFails
    BY <1>0, <1>3 DEF ReadFails
  <1>4. CASE NegotiationDeadlineReached
    BY <1>0, <1>4 DEF NegotiationDeadlineReached
  <1>5. ASSUME NEW t \in Tokens, Arrives(t) PROVE SessionControl'
    BY <1>5 DEF Arrives
  <1>6. ASSUME NEW x \in Senders, Send(x) PROVE SessionControl'
    BY <1>6 DEF Send
  <1>7. ASSUME NEW x \in Senders, TaskCancelled(x) PROVE SessionControl'
    BY <1>7 DEF TaskCancelled
  <1>8. ASSUME NEW x \in Senders, SendBegins(x) PROVE SessionControl'
    BY <1>8 DEF SendBegins
  <1>9. ASSUME NEW x \in Senders, WritesPart(x) PROVE SessionControl'
    BY <1>9 DEF WritesPart
  <1>10. ASSUME NEW x \in Senders, WritesRest(x) PROVE SessionControl'
    BY <1>0, <1>10 DEF WritesRest
  <1>11. ASSUME NEW x \in Senders, WriteFails(x) PROVE SessionControl'
    BY <1>0, <1>11 DEF WriteFails
  <1>12. ASSUME NEW x \in Senders, WriteCancelled(x) PROVE SessionControl'
    BY <1>0, <1>12 DEF WriteCancelled
  <1>13. ASSUME NEW x \in Senders, Close(x) PROVE SessionControl'
    BY <1>0, <1>13 DEF Close
  <1>14. CASE UNCHANGED browserSessionVars
    BY <1>14 DEF browserSessionVars
  <1> QED BY <1>1, <1>2, <1>3, <1>4, <1>5, <1>6, <1>7, <1>8, <1>9, <1>10, <1>11, <1>12,
             <1>13, <1>14 DEF SessionNext, SendStep

(* What went out: a reload only after the hello, which a session has sent  *)
(* once it is ready.                                                       *)
LEMMA StepKeepsOrder ==
    ASSUME SessionIInv, [SessionNext]_browserSessionVars
    PROVE  HelloBeforeReload' /\ ReadyAfterHello'
  <1> DEFINE Greeted(s) == \E j \in DOMAIN s : s[j] = "hello"
             Ordered(s) == \A i \in DOMAIN s :
                              s[i] = "reload" => \E j \in 1 .. i - 1 : s[j] = "hello"
  <1>1. outgoing \in Seq(Frames) /\ Ordered(outgoing)
    BY DEF SessionIInv, SessionInv, SessionTypeOK, Frames, HelloBeforeReload
  <1>2. state = "ready" => Greeted(outgoing)
    BY DEF SessionIInv, ReadyAfterHello
  <1>3. ASSUME NEW f \in Frames, f = "reload" => Greeted(outgoing)
        PROVE  /\ Ordered(Append(outgoing, f))
               /\ f = "hello" \/ Greeted(outgoing) => Greeted(Append(outgoing, f))
    <2> DEFINE s == Append(outgoing, f)
    <2>1. /\ DOMAIN outgoing = 1 .. Len(outgoing) /\ Len(outgoing) \in Nat
          /\ DOMAIN s = 1 .. Len(outgoing) + 1
          /\ \A i \in DOMAIN outgoing : s[i] = outgoing[i]
          /\ s[Len(outgoing) + 1] = f
      BY <1>1, AppendFrame
    <2> HIDE DEF s
    <2>2. ASSUME NEW i \in DOMAIN s, s[i] = "reload"
          PROVE  \E j \in 1 .. i - 1 : s[j] = "hello"
      <3>1. CASE i \in DOMAIN outgoing
        <4>1. PICK j \in 1 .. i - 1 : outgoing[j] = "hello"
          BY <1>1, <2>1, <2>2, <3>1
        <4>2. j \in DOMAIN outgoing
          BY <2>1, <3>1
        <4> QED BY <2>1, <4>1, <4>2
      <3>2. CASE i = Len(outgoing) + 1
        <4>1. PICK j \in DOMAIN outgoing : outgoing[j] = "hello"
          BY <1>3, <2>1, <2>2, <3>2
        <4> QED BY <2>1, <3>2, <4>1
      <3> QED BY <2>1, <3>1, <3>2
    <2>3. ASSUME f = "hello" \/ Greeted(outgoing) PROVE Greeted(s)
      BY <2>1, <2>3
    <2> QED BY <2>2, <2>3 DEF s
  <1>4. Ordered(outgoing') /\ (state' = "ready" => Greeted(outgoing'))
    <2>1. CASE Quiet
      BY <1>1, <1>2, <2>1 DEF Quiet
    <2>2. CASE Greets
      BY <1>3, <2>2 DEF Greets, Frames
    <2>3. CASE Closes
      BY <1>1, <1>3, <2>3 DEF Closes, Frames
    <2>4. ASSUME NEW f \in {"pong", "reload", "torn"}, Writes(f)
          PROVE  Ordered(outgoing') /\ (state' = "ready" => Greeted(outgoing'))
      BY <1>2, <1>3, <2>4 DEF Writes, Frames
    <2> QED BY <2>1, <2>2, <2>3, <2>4, SessionSteps
  <1> QED BY <1>4 DEF HelloBeforeReload, ReadyAfterHello

(* A torn frame leaves the session closed, or its send() about to close    *)
(* it, which nothing but closing it ends.                                  *)
LEMMA StepKeepsTorn ==
    ASSUME SessionIInv, [SessionNext]_browserSessionVars
    PROVE  TornConnectionCloses'
  <1> DEFINE Steps == {"idle", "queued", "writing", "close", "done"}
             WillClose == state = "closed" \/ \E x \in Senders : sendStep[x] = "close"
             IsTorn == "torn" \in ToSet(outgoing)
  <1> USE DEF CloseOwned
  <1>1. outgoing \in Seq(Frames) /\ sendStep \in [Senders -> Steps]
    BY DEF SessionIInv, SessionInv, SessionTypeOK, Frames
  <1>2. \A x \in Senders : writer = x => sendStep[x] # "close"
    BY DEF SessionIInv, SessionInv, SessionTypeOK
  <1>3. \A f \in Frames : ToSet(Append(outgoing, f)) = ToSet(outgoing) \union {f}
    BY <1>1, AppendFrame
  <1>4. IsTorn => WillClose
    BY DEF SessionIInv, SessionInv, TornConnectionCloses
  <1>5. SUFFICES IsTorn' => WillClose'
    BY DEF TornConnectionCloses
  <1>6. CASE ReadAvailableBytes
    BY <1>4, <1>6 DEF ReadAvailableBytes
  <1>7. CASE ProcessInput
    <2>1. CASE HandleRequest
      BY <1>4, <1>7, <2>1 DEF HandleRequest, ProcessInput
    <2>2. CASE HandleHello
      <3>1. "torn" \in ToSet(outgoing) => \E x \in Senders : sendStep[x] = "close"
        BY <1>4, <2>2 DEF HandleHello
      <3>2. ToSet(outgoing') = ToSet(outgoing) \union {"hello"}
        BY <1>3, <2>2 DEF HandleHello, Frames
      <3> QED BY <1>7, <3>1, <3>2 DEF ProcessInput
    <2>3. CASE HandleControl
      <3>1. ToSet(outgoing') \in {ToSet(outgoing), ToSet(outgoing) \union {"pong"}}
        BY <1>3, <2>3 DEF HandleControl, Frames
      <3>2. UNCHANGED <<state, sendStep>>
        BY <1>7, <2>3 DEF HandleControl, ProcessInput
      <3> QED BY <1>4, <3>1, <3>2
    <2>4. CASE HandleBadFrame
      BY <2>4 DEF HandleBadFrame
    <2> QED BY <1>7, <2>1, <2>2, <2>3, <2>4 DEF ProcessInput
  <1>8. CASE ReadFails
    BY <1>8 DEF ReadFails
  <1>9. CASE NegotiationDeadlineReached
    BY <1>4, <1>9 DEF NegotiationDeadlineReached
  <1>10. ASSUME NEW t \in Tokens, Arrives(t) PROVE IsTorn' => WillClose'
    BY <1>4, <1>10 DEF Arrives
  <1>11. ASSUME NEW x \in Senders, Send(x) PROVE IsTorn' => WillClose'
    BY <1>1, <1>4, <1>11 DEF Send
  <1>12. ASSUME NEW x \in Senders, TaskCancelled(x) PROVE IsTorn' => WillClose'
    BY <1>4, <1>12 DEF TaskCancelled
  <1>13. ASSUME NEW x \in Senders, SendBegins(x) PROVE IsTorn' => WillClose'
    BY <1>1, <1>4, <1>13 DEF SendBegins
  <1>14. ASSUME NEW x \in Senders, WritesPart(x) PROVE IsTorn' => WillClose'
    BY <1>4, <1>14 DEF WritesPart
  <1>15. ASSUME NEW x \in Senders, WritesRest(x) PROVE IsTorn' => WillClose'
    <2>1. ToSet(outgoing') = ToSet(outgoing) \union {"reload"}
      BY <1>3, <1>15 DEF WritesRest, Frames
    <2>2. state' = state /\ \A y \in Senders : sendStep[y] = "close" => sendStep'[y] = "close"
      BY <1>1, <1>2, <1>15 DEF WritesRest
    <2> QED BY <1>4, <2>1, <2>2
  <1>16. ASSUME NEW x \in Senders, WriteFails(x) PROVE WillClose'
    BY <1>1, <1>16 DEF WriteFails
  <1>17. ASSUME NEW x \in Senders, WriteCancelled(x) PROVE IsTorn' => WillClose'
    <2>1. \A y \in Senders : sendStep[y] = "close" => sendStep'[y] = "close"
      BY <1>1, <1>2, <1>17 DEF WriteCancelled
    <2>2. state' = "closed" \/ UNCHANGED <<state, outgoing>>
      BY <1>17 DEF WriteCancelled
    <2> QED BY <1>4, <2>1, <2>2
  <1>18. ASSUME NEW x \in Senders, Close(x) PROVE WillClose'
    BY <1>18 DEF Close
  <1>19. CASE UNCHANGED browserSessionVars
    BY <1>4, <1>19 DEF browserSessionVars
  <1> QED BY <1>6, <1>7, <1>8, <1>9, <1>10, <1>11, <1>12, <1>13, <1>14, <1>15, <1>16, <1>17,
             <1>18, <1>19 DEF SessionNext, SendStep

(* No step disturbs the invariant.                                         *)
LEMMA StepKeepsSession == SessionIInv /\ [SessionNext]_browserSessionVars => SessionIInv'
  BY StepKeepsControl, StepKeepsOrder, StepKeepsTorn DEF SessionIInv, SessionInv, SessionControl

(* Nothing was written to a new connection, and its deadline is armed.     *)
LEMMA SessionInitially == SessionInit => SessionIInv
  <1> SUFFICES ASSUME SessionInit PROVE SessionIInv
    OBVIOUS
  <1>1. SessionTypeOK
    <2>1. /\ <<>> \in Seq(Tokens) /\ <<>> \in Seq({"ready", "closed"})
          /\ <<>> \in Seq({"hello", "pong", "reload", "torn"})
      OBVIOUS
    <2>2. \A x \in Senders : x # None
      OBVIOUS
    <2>3. state \in States /\ negotiationDeadline \in {"armed", "cancelled"} /\ inputs \in 0 .. MaxInput
      BY DEF SessionInit, States
    <2>4. /\ writer = None /\ partial = FALSE /\ sendCancelled = {} /\ junk = FALSE
          /\ sendStep = [x \in Senders |-> "idle"]
      BY DEF SessionInit
    <2>5. arrived = <<>> /\ input = <<>> /\ outgoing = <<>> /\ reports = <<>>
      BY DEF SessionInit
    <2>6. /\ \A x \in Senders : sendStep[x] = "writing" <=> writer = x
          /\ sendStep \in [Senders -> {"idle", "queued", "writing", "close", "done"}]
      BY <2>2, <2>4
    <2>7. /\ arrived \in Seq(Tokens) /\ input \in Seq(Tokens) /\ reports \in Seq({"ready", "closed"})
          /\ outgoing \in Seq({"hello", "pong", "reload", "torn"})
      BY <2>1, <2>5
    <2> QED BY <2>3, <2>4, <2>6, <2>7 DEF SessionTypeOK
  <1>3. DeadlineWhileNegotiating /\ WriterHoldsQueue /\ ReadyAfterHello
    BY DEF SessionInit, DeadlineWhileNegotiating, WriterHoldsQueue, ReadyAfterHello
  <1>2. outgoing = <<>> /\ ToSet(<<>>) = {}
    BY DEF SessionInit, ToSet
  <1> QED BY <1>1, <1>2, <1>3 DEF SessionIInv, SessionInv, HelloBeforeReload, TornConnectionCloses

(* The inductive invariant holds throughout.                               *)
LEMMA SessionIInvariant == SessionSpec => []SessionIInv
  BY SessionInitially, StepKeepsSession, PTL DEF SessionSpec

(* The deadline is armed exactly while the browser negotiates; no reload   *)
(* goes out before the hello; and a connection on which a frame was broken *)
(* off closes.                                                             *)
THEOREM SessionInvariant == SessionSpec => []SessionInv
  <1>1. SessionIInv => SessionInv
    BY DEF SessionIInv
  <1> QED BY <1>1, SessionIInvariant, PTL
------------------------------------------------------------------------------
(* The reloads a browser has received.                                     *)
ReloadsIn(s) == {i \in DOMAIN s : s[i] = "reload"}

(* Appending a frame adds a reload if it is one.                           *)
LEMMA CountAppend ==
    ASSUME NEW s \in Seq(Frames), NEW f \in Frames
    PROVE  /\ Cardinality(ReloadsIn(s)) \in Nat
           /\ Cardinality(ReloadsIn(Append(s, f)))
                = IF f = "reload" THEN Cardinality(ReloadsIn(s)) + 1 ELSE Cardinality(ReloadsIn(s))
  <1> DEFINE t == Append(s, f)
             n == Len(s) + 1
  <1>1. /\ DOMAIN s = 1 .. Len(s) /\ Len(s) \in Nat /\ DOMAIN t = 1 .. n
        /\ \A i \in DOMAIN s : t[i] = s[i]
        /\ t[n] = f
    BY AppendFrame
  <1> HIDE DEF t
  <1>2. ReloadsIn(t) = IF f = "reload" THEN ReloadsIn(s) \union {n} ELSE ReloadsIn(s)
    <2>1. \A i : i \in DOMAIN t <=> i \in DOMAIN s \/ i = n
      BY <1>1
    <2>2. n \notin DOMAIN s
      BY <1>1
    <2> HIDE DEF n
    <2> QED BY <1>1, <2>1, <2>2 DEF ReloadsIn
  <1>3. IsFiniteSet(ReloadsIn(s)) /\ n \notin ReloadsIn(s)
    <2>1. \A k \in Nat : IsFiniteSet(1 .. k)
      <3>1. \A k \in Nat : 1 \in Int /\ k \in Int
        OBVIOUS
      <3> QED BY <3>1, FS_Interval
    <2>2. ReloadsIn(s) \subseteq 1 .. Len(s)
      BY <1>1 DEF ReloadsIn
    <2> QED BY <1>1, <2>1, <2>2, FS_Subset
  <1>4. Cardinality(ReloadsIn(s)) \in Nat
    BY <1>3, FS_CardinalityType
  <1>5. Cardinality(ReloadsIn(s) \union {n}) = Cardinality(ReloadsIn(s)) + 1
    BY <1>3, FS_AddElement
  <1> QED BY <1>2, <1>4, <1>5 DEF t

(* To the server a session is a BrowserConnection: each of its steps is a  *)
(* step of the connection or nothing.  (That a silent browser's connection *)
(* ends is liveness.)                                                      *)
THEOREM SessionStepsConnection == SessionSpec => Abstract!Safety
  <1> DEFINE Phase == IF state \in {"connected", "negotiating"} THEN "negotiating" ELSE state
             Count == Cardinality(ReloadsIn(outgoing))
  <1>1. SessionInit => Abstract!Init
    <2> SUFFICES ASSUME SessionInit PROVE Abstract!Init
      OBVIOUS
    <2>1. {i \in DOMAIN outgoing : outgoing[i] = "reload"} = {}
      BY DEF SessionInit
    <2> QED BY <2>1, FS_EmptySet DEF SessionInit, Abstract!Init
  <1>2. SessionIInv /\ [SessionNext]_browserSessionVars => [Abstract!Next]_Abstract!vars
    <2> SUFFICES ASSUME SessionIInv, [SessionNext]_browserSessionVars PROVE [Abstract!Next]_Abstract!vars
      OBVIOUS
    <2>1. state \in States /\ outgoing \in Seq(Frames)
      BY DEF SessionIInv, SessionInv, SessionTypeOK, Frames
    <2>2. \A f \in Frames : Cardinality(ReloadsIn(Append(outgoing, f)))
                              = IF f = "reload" THEN Count + 1 ELSE Count
      BY <2>1, CountAppend
    <2>3. CASE Quiet
      <3>1. Phase' = Phase /\ reports' = reports /\ Count' = Count
        BY <2>3 DEF Quiet
      <3> QED BY <3>1 DEF Abstract!vars, ReloadsIn
    <2>4. CASE Greets
      <3>1. Count' = Count
        BY <2>2, <2>4 DEF Greets, Frames
      <3> QED BY <2>4, <3>1 DEF Greets, Abstract!Next, Abstract!BecomeReady, ReloadsIn
    <2>5. CASE Closes
      <3>1. Count' = Count
        BY <2>2, <2>5 DEF Closes, Frames
      <3> QED BY <2>1, <2>5, <3>1 DEF Closes, States, Abstract!Next, Abstract!Close,
                                      Abstract!vars, ReloadsIn
    <2>6. ASSUME NEW f \in {"pong", "reload", "torn"}, Writes(f)
          PROVE  [Abstract!Next]_Abstract!vars
      <3>1. Count' = IF f = "reload" THEN Count + 1 ELSE Count
        BY <2>2, <2>6 DEF Writes, Frames
      <3>2. Phase' = Phase /\ reports' = reports /\ (f = "reload" => Phase = "ready")
        BY <2>6 DEF Writes
      <3> QED BY <3>1, <3>2 DEF Abstract!Next, Abstract!Reload, Abstract!vars, ReloadsIn
    <2> QED BY <2>3, <2>4, <2>5, <2>6, SessionSteps
  <1> QED BY <1>1, <1>2, SessionIInvariant, PTL DEF SessionSpec, Abstract!Safety
==============================================================================
