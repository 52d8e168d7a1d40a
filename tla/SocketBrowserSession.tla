------------------------ MODULE SocketBrowserSession ------------------------
(***************************************************************************)
(* One browser's session (ReloadServer/SocketBrowserSession.swift).  All   *)
(* its state belongs to a serial queue: reading, the negotiation deadline, *)
(* close() and the body of send() each run there as one block.  A write in *)
(* send() may block and find its task cancelled half-way; what was read is *)
(* handled one by one, each answer a write that may fail.  Input is a      *)
(* sequence of whole requests and frames: an incomplete one is left in the *)
(* buffer by the code, here on the socket.                                 *)
(***************************************************************************)
EXTENDS SequencesExt

CONSTANTS Senders,   \* calls of send(), each of a delivery task
          MaxInput   \* bound: requests and frames a browser sends

None == "none"
ASSUME SessionConstants == None \notin Senders /\ MaxInput \in Nat

VARIABLES
    state,
    negotiationDeadline,  \* "armed" or "cancelled"
    arrived,              \* what is on the socket
    input,                \* what was read and is still to be handled
    junk,                 \* is there input before the upgrade request?
    inputs,               \* how much the browser has sent, for the bound
    writer,               \* the send() whose block runs, or none
    partial,              \* has it written a part of its frame?
    sendStep,             \* where each send() is
    sendCancelled,        \* the sends whose task was cancelled
    outgoing,             \* history: what was written to an upgraded socket
    reports               \* history: the calls of onReady and onClose

sessionVars == <<state, negotiationDeadline, junk, reports>>
socketVars == <<arrived, input, inputs, outgoing>>
sendVars == <<writer, partial, sendStep, sendCancelled>>
browserSessionVars == <<sessionVars, socketVars, sendVars>>

Tokens == {"upgrade", "badRequest", "hello", "otherText", "ping", "pong", "close", "malformed"}
States == {"connected", "negotiating", "ready", "closed"}

SessionInit ==
    /\ state = "connected" /\ negotiationDeadline = "armed"
    /\ junk = FALSE /\ reports = <<>>
    /\ arrived = <<>> /\ input = <<>> /\ inputs = 0 /\ outgoing = <<>>
    /\ writer = None /\ partial = FALSE
    /\ sendStep = [x \in Senders |-> "idle"]
    /\ sendCancelled = {}

(* No block of the queue is under way.                                    *)
QueueFree == writer = None /\ input = <<>>

(* closeOwned() without its test of didClose.                              *)
CloseOwnedAgain ==
    /\ state' = "closed"
    /\ negotiationDeadline' = "cancelled"
    /\ reports' = Append(reports, "closed")
    /\ UNCHANGED junk

(* closeOwned(): "closing" is left again in the same block.                *)
CloseOwned ==
    /\ state' = "closed"
    /\ negotiationDeadline' = "cancelled"
    /\ reports' = IF state = "closed" THEN reports ELSE Append(reports, "closed")
    /\ UNCHANGED junk
------------------------------------------------------------------------------
(* readAvailableBytes() reads until the socket is empty, then handles.     *)
ReadAvailableBytes ==
    /\ QueueFree /\ state # "closed" /\ arrived # <<>>
    /\ input' = arrived /\ arrived' = <<>>
    /\ UNCHANGED <<sessionVars, inputs, outgoing, sendVars>>

(* The next request or frame is handled; the rest is left to the loop, or  *)
(* is lost if the session closes.  Any write may fail.                     *)
Handled == input' = Tail(input) /\ UNCHANGED <<arrived, inputs>>
Lost == CloseOwned /\ input' = <<>> /\ UNCHANGED <<arrived, inputs, outgoing>>

HandleRequest ==
    /\ state = "connected"
    /\ \/ /\ Head(input) = "upgrade" /\ ~junk
          /\ state' = "negotiating" /\ Handled
          /\ UNCHANGED <<negotiationDeadline, junk, reports, outgoing>>
       \/ Head(input) \in {"upgrade", "badRequest"} /\ Lost
       \/ /\ Head(input) \notin {"upgrade", "badRequest"}
          /\ junk' = TRUE /\ Handled
          /\ UNCHANGED <<state, negotiationDeadline, reports, outgoing>>

HandleHello ==
    /\ state = "negotiating" /\ Head(input) = "hello"
    /\ state' = "ready" /\ negotiationDeadline' = "cancelled"
    /\ reports' = Append(reports, "ready") /\ outgoing' = Append(outgoing, "hello")
    /\ Handled /\ UNCHANGED junk

HandleControl ==
    /\ state # "connected"
    /\ \/ Head(input) = "ping" /\ outgoing' = Append(outgoing, "pong")
       \/ Head(input) = "pong" /\ UNCHANGED outgoing
    /\ Handled /\ UNCHANGED sessionVars

(* A frame that is not expected, a close, or an answer that fails.         *)
HandleBadFrame ==
    /\ state # "connected" /\ Head(input) # "pong"
    /\ Lost

(* One round of processInput().                                            *)
ProcessInput ==
    /\ input # <<>>
    /\ HandleRequest \/ HandleHello \/ HandleControl \/ HandleBadFrame
    /\ UNCHANGED sendVars

(* The peer is gone, or its input exceeds the buffer's limit.              *)
ReadFails ==
    /\ QueueFree /\ state # "closed"
    /\ CloseOwned
    /\ UNCHANGED <<socketVars, sendVars>>

NegotiationDeadlineReached ==
    /\ QueueFree /\ negotiationDeadline = "armed"
    /\ \/ state = "ready" /\ negotiationDeadline' = "cancelled"
          /\ UNCHANGED <<state, junk, reports>>
       \/ state # "ready" /\ CloseOwned
    /\ UNCHANGED <<socketVars, sendVars>>

Arrives(token) ==
    /\ inputs < MaxInput /\ inputs' = inputs + 1
    /\ arrived' = Append(arrived, token)
    /\ UNCHANGED <<sessionVars, input, outgoing, sendVars>>
------------------------------------------------------------------------------
SendGoto(x, next) == sendStep' = [sendStep EXCEPT ![x] = next]

(* send(): the block is put on the queue.                                  *)
Send(x) ==
    /\ sendStep[x] = "idle"
    /\ SendGoto(x, IF x \in sendCancelled THEN "done" ELSE "queued")
    /\ UNCHANGED <<sessionVars, socketVars, writer, partial, sendCancelled>>

TaskCancelled(x) ==
    /\ x \notin sendCancelled /\ sendStep[x] \notin {"close", "done"}
    /\ sendCancelled' = sendCancelled \union {x}
    /\ UNCHANGED <<sessionVars, socketVars, writer, partial, sendStep>>

(* The guards of the block.  The server closes a session that failed it.   *)
MayWriteToAny == state # "closed"
MayWrite == state = "ready"

SendBegins(x) ==
    /\ QueueFree /\ sendStep[x] = "queued"
    /\ \/ x \in sendCancelled /\ SendGoto(x, "done") /\ UNCHANGED writer
       \/ x \notin sendCancelled /\ ~MayWrite /\ SendGoto(x, "close") /\ UNCHANGED writer
       \/ x \notin sendCancelled /\ MayWrite /\ SendGoto(x, "writing") /\ writer' = x
    /\ UNCHANGED <<sessionVars, socketVars, partial, sendCancelled>>

Leave(x, next) == writer' = None /\ partial' = FALSE /\ SendGoto(x, next)

(* write(): send(2) takes some bytes; poll(2) then waits for the rest.     *)
WritesPart(x) ==
    /\ writer = x /\ ~partial /\ x \notin sendCancelled
    /\ partial' = TRUE
    /\ UNCHANGED <<sessionVars, socketVars, writer, sendStep, sendCancelled>>

WritesRest(x) ==
    /\ writer = x /\ x \notin sendCancelled
    /\ outgoing' = Append(outgoing, "reload")
    /\ Leave(x, "done")
    /\ UNCHANGED <<sessionVars, arrived, input, inputs, sendCancelled>>

Torn == IF partial THEN Append(outgoing, "torn") ELSE outgoing

(* An error, or poll(2) expires after 100 ms.                              *)
WriteFailsUnnoticed(x) ==
    /\ writer = x
    /\ outgoing' = Torn
    /\ Leave(x, "done")
    /\ UNCHANGED <<sessionVars, arrived, input, inputs, sendCancelled>>

WriteFails(x) ==
    /\ writer = x
    /\ outgoing' = Torn
    /\ Leave(x, "close")
    /\ UNCHANGED <<sessionVars, arrived, input, inputs, sendCancelled>>

(* A cancelled write closes the session if the frame is broken off.        *)
WriteCancelled(x) ==
    /\ writer = x /\ x \in sendCancelled
    /\ outgoing' = Torn
    /\ \/ partial /\ CloseOwned
       \/ ~partial /\ UNCHANGED sessionVars
    /\ Leave(x, "done")
    /\ UNCHANGED <<arrived, input, inputs, sendCancelled>>

(* close(), called by the server's delivery after a failed send.           *)
Close(x) ==
    /\ QueueFree /\ sendStep[x] = "close"
    /\ CloseOwned
    /\ SendGoto(x, "done")
    /\ UNCHANGED <<socketVars, writer, partial, sendCancelled>>

SendStep(x) ==
    SendBegins(x) \/ WritesPart(x) \/ WritesRest(x) \/ WriteFails(x) \/ WriteCancelled(x) \/ Close(x)

SessionNext ==
    \/ ReadAvailableBytes \/ ProcessInput \/ ReadFails \/ NegotiationDeadlineReached
    \/ \E t \in Tokens : Arrives(t)
    \/ \E x \in Senders : Send(x) \/ TaskCancelled(x) \/ SendStep(x)

(* A block that runs comes to its end, and the timer fires.  Browsers owe  *)
(* nothing.                                                                *)
SessionFairness == WF_browserSessionVars(ProcessInput) /\ WF_browserSessionVars(NegotiationDeadlineReached)

SessionSpec == SessionInit /\ [][SessionNext]_browserSessionVars /\ SessionFairness
------------------------------------------------------------------------------
SessionTypeOK ==
    /\ state \in States
    /\ negotiationDeadline \in {"armed", "cancelled"}
    /\ arrived \in Seq(Tokens) /\ input \in Seq(Tokens) /\ junk \in BOOLEAN /\ inputs \in 0 .. MaxInput
    /\ writer \in Senders \union {None} /\ partial \in BOOLEAN
    /\ partial => writer # None
    /\ \A x \in Senders : sendStep[x] = "writing" <=> writer = x
    /\ sendStep \in [Senders -> {"idle", "queued", "writing", "close", "done"}]
    /\ sendCancelled \subseteq Senders
    /\ outgoing \in Seq({"hello", "pong", "reload", "torn"})
    /\ reports \in Seq({"ready", "closed"})

(* reload-protocol.md: the deadline is cancelled when the session becomes  *)
(* ready or closes, and not before.                                        *)
DeadlineWhileNegotiating ==
    negotiationDeadline = "armed" <=> state \in {"connected", "negotiating"}

(* data-model.md: no reload before a compatible negotiation completes.     *)
HelloBeforeReload ==
    \A i \in DOMAIN outgoing : outgoing[i] = "reload" => \E j \in 1 .. i - 1 : outgoing[j] = "hello"

(* A frame that was broken off ruins the connection.  Until it is closed   *)
(* the send() that failed is on its way to close it; a cancelled one has.  *)
TornConnectionCloses ==
    "torn" \in ToSet(outgoing) => state = "closed" \/ \E x \in Senders : sendStep[x] = "close"

(* The types; the deadline is armed while the browser negotiates; no       *)
(* reload goes out before the hello; and a torn frame closes.              *)
SessionInv ==
    SessionTypeOK /\ DeadlineWhileNegotiating /\ HelloBeforeReload /\ TornConnectionCloses

(* The server sees a BrowserConnection.                                    *)
Abstract == INSTANCE BrowserConnection WITH
    phase <- IF state \in {"connected", "negotiating"} THEN "negotiating" ELSE state,
    reloads <- Cardinality({i \in DOMAIN outgoing : outgoing[i] = "reload"})

ImplementsBrowserConnection == Abstract!Spec
==============================================================================
