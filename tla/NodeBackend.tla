----------------------------- MODULE NodeBackend -----------------------------
(***************************************************************************)
(* The native side of the legacy application's Node back end: the thread   *)
(* that launches it, reads its output and launches it again, the functions *)
(* the main thread calls, and the closures the one queues for the other.   *)
(* There are two launchers, one per system (src-mac and src-win); which of *)
(* them is compiled is fixed in the initial state.                         *)
(*                                                                         *)
(* The output is a stream of octets: text, the newline that ends a line,   *)
(* and NUL, which ends what strncat() copies of a read.  They are put in a *)
(* buffer of fixed size, without a look at how much room it has; a write   *)
(* behind its end has no defined outcome, and the model ends there.  What  *)
(* Node does with its input is not modelled.                               *)
(***************************************************************************)
EXTENDS Naturals, FiniteSets, Sequences, SequencesExt

CONSTANTS
  MaxLaunches,  \* bound: back ends launched
  MaxOctets,    \* bound: octets the back ends write
  ReadSize,     \* octets a read gets at most: sizeof(buf)
  BufferSize    \* octets the receive buffer has room for, less the NUL

ASSUME BoundsAssumption ==
  /\ MaxLaunches \in Nat \ {0} /\ MaxOctets \in Nat
  /\ ReadSize \in Nat \ {0} /\ BufferSize \in Nat /\ ReadSize <= BufferSize

VARIABLES
  platform,   \* the launcher that is compiled
  app,        \* the application runs, is gone, or what it does is undefined
  launcher,   \* where nodeapp_rpc_thread is
  shutDown,   \* nodeapp_is_shut_down
  developer,  \* developer_mode
  pid,        \* the back end nodeapp_pid, or nodeapp_process, is; 0 if none
  stdin,      \* the back end nodeapp_stdin_fd writes to; 0 is not a back end
  inputs,     \* the back ends whose input the application has open
  output,     \* [open, held: BOOLEAN, unread: octets]: the pipe of the newest
              \* back end, held if the application has its writing end too
  buffer,     \* nodeapp_rpc_receive_buf
  queue,      \* the closures queued on the main thread
  closing,    \* where nodeapp_rpc_shutdown is
  backend,    \* the back ends launched so far: running, silent or dead
  status,     \* the exit status of each
  killed,     \* the back ends that were sent a signal
  inits,      \* how often each was sent its init message
  written,    \* the octets the back ends have written, in order (history)
  handled     \* the lines handled on the main thread, in order (history)

vars == <<platform, app, launcher, shutDown, developer, pid, stdin, inputs,
          output, buffer, queue, closing, backend, status, killed, inits,
          written, handled>>

files  == <<pid, stdin, inputs>>
nodes  == <<backend, status, killed, inits, written>>

Steps == {"top", "piped", "forked", "named", "queued", "connected", "reading",
          "splitting", "ended", "cleaning", "reaped", "judging", "sleeping", "done"}

Launched == Len(backend)
Alive    == {n \in DOMAIN backend : backend[n] # "dead"}

Init ==
  /\ platform \in {"mac", "win"}
  /\ app = "running" /\ launcher = "top"
  /\ shutDown = FALSE /\ developer = FALSE
  /\ pid = 0 /\ stdin = 0 /\ inputs = {}
  /\ output = [open |-> FALSE, held |-> FALSE, unread |-> <<>>]
  /\ buffer = <<>> /\ queue = <<>> /\ closing = "not called"
  /\ backend = <<>> /\ status = <<>> /\ killed = {} /\ inits = <<>>
  /\ written = <<>> /\ handled = <<>>

-----------------------------------------------------------------------------
(* The launcher: a step of nodeapp_rpc_thread from one place to the next.  *)

Goto(from, to) == launcher = from /\ launcher' = to

Enqueue(closure) == queue' = Append(queue, closure)

\* The bundled runtime or back end is missing: the application must go.
Missing ==
  /\ platform = "mac"
  /\ Goto("top", "done") /\ Enqueue([kind |-> "alert"])
  /\ UNCHANGED <<platform, app, shutDown, developer, files, output, buffer,
                 closing, nodes, handled>>

StopLoop ==
  /\ platform = "win" /\ shutDown
  /\ Goto("top", "done")
  /\ UNCHANGED <<platform, app, shutDown, developer, files, output, buffer,
                 queue, closing, nodes, handled>>

MakePipes ==
  /\ Launched < MaxLaunches
  /\ platform = "win" => ~shutDown
  /\ Goto("top", "piped")
  /\ output' = [open |-> TRUE, held |-> TRUE, unread |-> <<>>]
  /\ inputs' = inputs \union {Launched + 1}
  /\ stdin' = IF platform = "win" THEN Launched + 1 ELSE stdin
  /\ UNCHANGED <<platform, app, shutDown, developer, pid, buffer, queue,
                 closing, nodes, handled>>

Fork ==
  /\ Goto("piped", "forked")
  /\ backend' = Append(backend, "running")
  /\ status' = Append(status, "none") /\ inits' = Append(inits, 0)
  /\ UNCHANGED <<platform, app, shutDown, developer, files, output, buffer,
                 queue, closing, killed, written, handled>>

NameProcess ==
  /\ Goto("forked", "named")
  /\ pid' = Launched
  /\ UNCHANGED <<platform, app, shutDown, developer, stdin, inputs, output,
                 buffer, queue, closing, nodes, handled>>

QueueInit ==
  /\ IF platform = "mac" THEN Goto("named", "queued")
                         ELSE Goto("connected", "reading")
  /\ Enqueue([kind |-> "init"])
  /\ UNCHANGED <<platform, app, shutDown, developer, files, output, buffer,
                 closing, nodes, handled>>

ConnectInput ==
  /\ platform = "mac" /\ Goto("queued", "connected")
  /\ stdin' = Launched
  /\ UNCHANGED <<platform, app, shutDown, developer, pid, inputs, output,
                 buffer, queue, closing, nodes, handled>>

KeepWritingEnd == output' = output
CloseWritingEnd == output' = [output EXCEPT !.held = FALSE]

ConnectOutput ==
  /\ IF platform = "mac" THEN Goto("connected", "reading")
                         ELSE Goto("named", "connected")
  /\ CloseWritingEnd
  /\ UNCHANGED <<platform, app, shutDown, developer, files, buffer, queue,
                 closing, nodes, handled>>

\* strncat(): of the octets read, the first n are copied, up to a NUL.
Copies(text, read, n) ==
  /\ n <= read
  /\ \A i \in 1 .. n : text[i].is # "nul"
  /\ n < read => text[n + 1].is = "nul"

\* Nobody looks whether there is room.  What is behind the buffer depends on the
\* build: the application may fail, go on as if nothing were wrong, or do
\* anything else, so nothing is said of what comes after.
Overflows(text) == Len(text) > BufferSize

\* nodeapp_rpc_received_raw() adds what was read to the buffer.
ReadChunk ==
  /\ Goto("reading", "splitting") /\ output.open
  /\ \E read \in DOMAIN output.unread, copied \in 0 .. Len(output.unread) :
       /\ read <= ReadSize /\ Copies(output.unread, read, copied)
       /\ buffer' = buffer \o SubSeq(output.unread, 1, copied)
       /\ output' = [output EXCEPT !.unread =
                                     SubSeq(@, read + 1, Len(output.unread))]
  /\ app' = IF Overflows(buffer') THEN "undefined" ELSE app
  /\ UNCHANGED <<platform, shutDown, developer, files, queue, closing, nodes,
                 handled>>

Ends(octet) == octet.is = "newline"
HasLine == \E i \in DOMAIN buffer : Ends(buffer[i])
LineEnd == CHOOSE i \in DOMAIN buffer :
             Ends(buffer[i]) /\ \A j \in 1 .. i - 1 : ~Ends(buffer[j])

QueueLine ==
  /\ HasLine
  /\ Enqueue([kind |-> "line", line |-> SubSeq(buffer, 1, LineEnd)])
  /\ buffer' = SubSeq(buffer, LineEnd + 1, Len(buffer))
  /\ UNCHANGED <<platform, app, shutDown, developer, files, output, closing,
                 nodes, handled>>

\* It queues the lines that are complete one by one, while the main thread
\* may handle the first of them, and keeps what is left of the next one.
QueueOneLine == Goto("splitting", "reading") /\ QueueLine
QueueNextLine == Goto("splitting", "splitting") /\ QueueLine

LinesAreQueued ==
  /\ Goto("splitting", "reading") /\ ~HasLine
  /\ UNCHANGED <<platform, app, shutDown, developer, files, output, buffer,
                 queue, closing, nodes, handled>>

\* The end of the file comes when nobody has the writing end any more; on
\* Windows the main thread may also have closed the reading end.
ReadEnds ==
  /\ Goto("reading", "ended")
  /\ \/ /\ output.open /\ output.unread = <<>> /\ ~output.held
        /\ backend[Launched] \in {"silent", "dead"}
     \/ ~output.open
  /\ UNCHANGED <<platform, app, shutDown, developer, files, output, buffer,
                 queue, closing, nodes, handled>>

\* waitpid(): the end of its output is not the end of the process.
WaitAnyway == TRUE
WaitReturns == backend[Launched] = "dead"

Reap ==
  /\ platform = "mac" /\ Goto("ended", "reaped")
  /\ WaitReturns
  /\ UNCHANGED <<platform, app, shutDown, developer, files, output, buffer,
                 queue, closing, nodes, handled>>

CloseFiles ==
  /\ platform = "mac" /\ Goto("reaped", "judging")
  /\ inputs' = inputs \ {stdin}
  /\ output' = [output EXCEPT !.open = FALSE]
  /\ UNCHANGED <<platform, app, shutDown, developer, pid, stdin, buffer,
                 queue, closing, nodes, handled>>

\* Windows: unless the main thread is about to do the same.
LookBeforeCleaning ==
  /\ platform = "win"
  /\ Goto("ended", IF shutDown THEN "judging" ELSE "cleaning")
  /\ UNCHANGED <<platform, app, shutDown, developer, files, output, buffer,
                 queue, closing, nodes, handled>>

\* A wait of two seconds, after which the process is terminated.
Terminated(n) ==
  IF n \in Alive
  THEN /\ backend' = [backend EXCEPT ![n] = "dead"]
       /\ status' = [status EXCEPT ![n] = "failed"]
  ELSE UNCHANGED <<backend, status>>

CleanUp ==
  /\ Goto("cleaning", "judging")
  /\ inputs' = inputs \ {stdin}
  /\ output' = [output EXCEPT !.open = FALSE]
  /\ Terminated(pid)
  /\ UNCHANGED <<platform, app, shutDown, developer, pid, stdin, buffer,
                 queue, closing, killed, inits, written, handled>>

\* Status 49 asks for a restart, and once asked the launcher never gives up.
JudgeRestart ==
  /\ platform = "mac" /\ launcher = "judging"
  /\ developer' = (developer \/ status[Launched] = "restart")
  /\ developer'
  /\ launcher' = IF status[Launched] = "restart" /\ ~shutDown
                 THEN "top" ELSE "sleeping"
  /\ UNCHANGED <<platform, app, shutDown, files, output, buffer, queue,
                 closing, nodes, handled>>

SleepEnds ==
  /\ Goto("sleeping", "top")
  /\ UNCHANGED <<platform, app, shutDown, developer, files, output, buffer,
                 queue, closing, nodes, handled>>

MarkShutDown == shutDown' = TRUE

\* Anything else is a crash; on Windows only within three seconds.
JudgeCrash ==
  /\ launcher = "judging"
  /\ platform = "mac" => ~developer /\ status[Launched] # "restart"
  /\ MarkShutDown
  /\ Enqueue([kind |-> "alert"])
  /\ launcher' = IF platform = "mac" /\ shutDown' THEN "done" ELSE "top"
  /\ UNCHANGED <<platform, app, developer, files, output, buffer, closing,
                 nodes, handled>>

JudgeNormal ==
  /\ platform = "win" /\ Goto("judging", "top")
  /\ UNCHANGED <<platform, app, shutDown, developer, files, output, buffer,
                 queue, closing, nodes, handled>>

LauncherStep ==
  \/ Missing \/ StopLoop \/ MakePipes \/ Fork \/ NameProcess \/ QueueInit
  \/ ConnectInput \/ ConnectOutput \/ ReadChunk \/ QueueNextLine
  \/ LinesAreQueued \/ ReadEnds \/ Reap \/ CloseFiles \/ LookBeforeCleaning \/ CleanUp \/ JudgeRestart \/ SleepEnds
  \/ JudgeCrash \/ JudgeNormal

-----------------------------------------------------------------------------
(* The main thread: it runs the queued closures one by one, and may be     *)
(* inside nodeapp_rpc_shutdown() instead.                                  *)

Idle == queue # <<>> /\ closing \in {"not called", "returned"}

Dequeue(kind) ==
  /\ Idle /\ Head(queue).kind = kind
  /\ queue' = Tail(queue)

HandleLine ==
  /\ Dequeue("line")
  /\ handled' = Append(handled, Head(queue).line)
  /\ UNCHANGED <<platform, app, launcher, shutDown, developer, files, output,
                 buffer, closing, nodes>>

\* nodeapp_rpc_send_raw(): what is written to a pipe that nobody has open is
\* lost; a pipe nobody reads any more ends the process with SIGPIPE on a Mac.
SendInit ==
  /\ Dequeue("init")
  /\ IF stdin \in inputs /\ stdin \in Alive
     THEN inits' = [inits EXCEPT ![stdin] = @ + 1]
     ELSE inits' = inits
  /\ app' = IF /\ platform = "mac" /\ stdin \in inputs
               /\ stdin \in DOMAIN backend \ Alive
            THEN "gone" ELSE app
  /\ UNCHANGED <<platform, launcher, shutDown, developer, files, output,
                 buffer, closing, backend, status, killed, written, handled>>

\* nodeapp_emergency_shutdown_backend_crashed() ends with [NSApp terminate:].
ShowAlert ==
  /\ Dequeue("alert")
  /\ app' = "gone"
  /\ UNCHANGED <<platform, launcher, shutDown, developer, files, output,
                 buffer, closing, nodes, handled>>

Shutdown ==
  /\ closing = "not called" /\ closing' = "flagged"
  /\ shutDown' = TRUE
  /\ UNCHANGED <<platform, app, launcher, developer, files, output, buffer,
                 queue, nodes, handled>>

Kill ==
  /\ platform = "mac" /\ closing = "flagged" /\ closing' = "returned"
  /\ killed' = killed \union ({pid} \intersect Alive)
  /\ UNCHANGED <<platform, app, launcher, shutDown, developer, files, output,
                 buffer, queue, backend, status, inits, written, handled>>

CloseHandles ==
  /\ platform = "win" /\ closing = "flagged" /\ closing' = "closed"
  /\ inputs' = inputs \ {stdin}
  /\ output' = [output EXCEPT !.open = FALSE]
  /\ UNCHANGED <<platform, app, launcher, shutDown, developer, pid, stdin,
                 buffer, queue, nodes, handled>>

TerminateProcess ==
  /\ closing = "closed" /\ closing' = "returned"
  /\ Terminated(pid)
  /\ UNCHANGED <<platform, app, launcher, shutDown, developer, files, output,
                 buffer, queue, killed, inits, written, handled>>

MainStep ==
  \/ HandleLine \/ SendInit \/ ShowAlert
  \/ Kill \/ CloseHandles \/ TerminateProcess

-----------------------------------------------------------------------------
(* The back end (external): only the newest one can be alive.              *)

WriteOctet(n) ==
  /\ backend[n] = "running" /\ Len(written) < MaxOctets
  /\ \E is \in {"text", "newline", "nul"} :
       LET octet == [at |-> Len(written) + 1, is |-> is]
       IN  /\ written' = Append(written, octet)
           /\ output' = [output EXCEPT !.unread = Append(@, octet)]
  /\ UNCHANGED <<platform, app, launcher, shutDown, developer, files, buffer,
                 queue, closing, backend, status, killed, inits, handled>>

CloseOutput(n) ==
  /\ backend[n] = "running"
  /\ backend' = [backend EXCEPT ![n] = "silent"]
  /\ UNCHANGED <<platform, app, launcher, shutDown, developer, files, output,
                 buffer, queue, closing, status, killed, inits, written,
                 handled>>

Exit(n, code) ==
  /\ n \in Alive
  /\ backend' = [backend EXCEPT ![n] = "dead"]
  /\ status' = [status EXCEPT ![n] = code]
  /\ UNCHANGED <<platform, app, launcher, shutDown, developer, files, output,
                 buffer, queue, closing, killed, inits, written, handled>>

BackendStep ==
  \E n \in Alive :
    WriteOctet(n) \/ CloseOutput(n) \/ Exit(n, "restart") \/ Exit(n, "failed")

Next == app = "running" /\ (LauncherStep \/ MainStep \/ Shutdown \/ BackendStep)

Spec == Init /\ [][Next]_vars

\* Both threads go on as long as the application runs, and a back end that
\* was sent a signal ends; none has to end otherwise.
Running(step) == app = "running" /\ step
Fairness ==
  /\ WF_vars(Running(LauncherStep)) /\ WF_vars(Running(MainStep))
  /\ WF_vars(Running(\E n \in killed : Exit(n, "failed")))

FairSpec == Spec /\ Fairness

-----------------------------------------------------------------------------
(* Properties.                                                             *)

\* What is delivered to the main thread, line by line: what it has handled, and
\* the lines among the closures that wait.
Text(closure) == IF closure.kind = "line" THEN closure.line ELSE <<>>
Texts == handled \o [i \in DOMAIN queue |-> Text(queue[i])]
Delivered == FlattenSeq(Texts) \o buffer

\* What was not lost of what was written.
Kept == Delivered \o output.unread

TypeOK ==
  /\ app \in {"running", "gone", "undefined"} /\ launcher \in Steps
  /\ {shutDown, developer, output.open, output.held} \subseteq BOOLEAN
  /\ {pid, stdin} \subseteq 0 .. Launched + 1
  /\ Launched <= MaxLaunches
  /\ Range(backend) \subseteq {"running", "silent", "dead"}
  /\ \A n \in DOMAIN backend : (backend[n] = "dead") = (status[n] # "none")
  /\ killed \subseteq DOMAIN backend

\* What is kept was written, and is in the order written, without repetition;
\* as long as there was no NUL it is everything.
KeptInOrder ==
  /\ \A i \in DOMAIN Kept : Kept[i].at \in DOMAIN written /\ written[Kept[i].at] = Kept[i]
  /\ \A i, j \in DOMAIN Kept : i < j => Kept[i].at < Kept[j].at
  /\ (\A p \in DOMAIN written : written[p].is # "nul") => Kept = written

\* A NUL costs no more than what was read together with it.
LossIsBounded ==
  \A p \in DOMAIN written :
    \/ \E i \in DOMAIN Kept : Kept[i].at = p
    \/ \E q \in DOMAIN written : q <= p /\ p < q + ReadSize /\ written[q].is = "nul"

\* Every line ends where its text has the first newline, and nothing that was
\* read is held back but the beginning of the next line.
LinesAreWhole ==
  /\ \A k \in DOMAIN Texts :
       \A i \in DOMAIN Texts[k] : Ends(Texts[k][i]) = (i = Len(Texts[k]))
  /\ launcher # "splitting" => ~HasLine

\* A run of more than n octets that has no newline.
LongLine(text, n) ==
  \E first \in DOMAIN text :
    /\ first + n <= Len(text)
    /\ \A i \in first .. first + n : ~Ends(text[i])

\* The buffer need not have room for a line and a read together, but for the
\* beginning of a line and a read: it is too small only for a line that is
\* longer, or for lines that became one when a NUL cost the newline between.
BufferSuffices ==
  /\ app # "undefined" => Len(buffer) <= BufferSize
  /\ app = "undefined" => LongLine(Kept, BufferSize - ReadSize)

\* However the reads cut the output, the main thread gets every line once, in
\* the order written and ending where it ended, unless there is a NUL, which
\* costs a part of one read, or a line the buffer has no room for.  (What is in
\* the pipe is kept, but nobody reads it after a shutdown on Windows.  A process
\* that dies within a line leaves its beginning to be joined to the first line of
\* the next process.)
LinesAreFramed == KeptInOrder /\ LossIsBounded /\ LinesAreWhole /\ BufferSuffices

\* No two back ends run at a time, although the end of the output that makes
\* the launcher look for another is not the end of the process; on a Mac none
\* is left when the launcher has finished.
OneBackendAtATime ==
  /\ Alive \subseteq {Launched}
  /\ platform = "mac" /\ launcher = "done" => Alive = {}

\* The alert that ends the application is the last thing ever queued: nothing
\* of a back end is handled behind it, and none is launched while it waits.
AlertIsLast ==
  \A i \in DOMAIN queue :
    queue[i].kind = "alert" =>
      /\ i = Len(queue)
      /\ \/ launcher = "done"
         \/ launcher = "top" /\ platform = "win" /\ shutDown

\* The types; one back end at a time; and nothing behind the alert.
BackendInv == TypeOK /\ OneBackendAtATime /\ AlertIsLast

\* A back end that has ended, or was told to by nodeapp_rpc_shutdown(), is
\* noticed: the launcher goes on to the next one or finishes, and never waits
\* for ever for the rest of an output that cannot come.  (The application may
\* also be gone before, or its buffer too small.)
DeathIsNoticed ==
  \A n \in 1 .. MaxLaunches :
    (n \in DOMAIN backend /\ (backend[n] = "dead" \/ n \in killed))
      ~> (app # "running" \/ Launched > n \/ launcher \in {"top", "done"})
=============================================================================
