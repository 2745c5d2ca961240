---------------------------- MODULE ServiceLogger ----------------------------
(***************************************************************************)
(* The logger threads of cinit (service_logger in src/cinit/cinit.c,       *)
(* log_prefixer in log.c, read_lines in utils.c) beside its main thread.   *)
(*                                                                         *)
(* A service writes to a pseudo-terminal whose master side cinit keeps in  *)
(* the service's entry; the logger thread reads it and logs line by line.  *)
(* When main has reaped the service it tells the thread to exit, joins it  *)
(* and closes the master; the fd number is free for the next service.      *)
(*                                                                         *)
(* Output is a stream of chunks numbered modulo M, so that a service may   *)
(* write for ever; a chunk is what a read returns entirely or not at all.  *)
(***************************************************************************)
EXTENDS Integers, Sequences, FiniteSets, Functions

CONSTANTS
  Services,    \* the services that log
  Fds,         \* file descriptor numbers (finite: they are reused)
  NoFd,        \* the fd -1 of an entry
  Nobody,      \* nobody holds the mutex; no service
  BufSize,     \* what the buffer of read_lines holds, in chunks
  PtySize,     \* what the pseudo-terminal holds, in chunks
  M,           \* chunks are numbered modulo M
  MaxWriters,  \* bound: processes that keep the terminal of a service open
  MaxSignals,  \* bound: SIGTERM/SIGINT sent to cinit
  MayFail      \* pthread_create may fail

ASSUME ConstAssumption ==
  /\ NoFd \notin Fds /\ Nobody \notin Services \cup {"main"}
  /\ "main" \notin Services
  /\ BufSize \in Nat \ {0} /\ PtySize \in Nat \ {0}
  /\ M \in Nat /\ M > BufSize + PtySize
  /\ MaxWriters \in Nat \ {0} /\ MaxSignals \in Nat
  /\ MayFail \in BOOLEAN

VARIABLES
  pc,             \* where main is
  srv,            \* the service main works on
  output_fd,      \* SRV(s).output_fd
  logger_started, \* SRV(s).logger_started
  logger_exit,    \* SRV(s).logger_exit
  proc,           \* the process of s: "none", "alive" or "zombie"
  writers,        \* processes that hold the terminal of s open
  pty,            \* what was written to the terminal of s and not read
  open,           \* the fds of cinit that are open, and whose output they carry
  thread,         \* where the logger thread of s is
  fd,             \* the fd the logger thread of s got when it began
  buf,            \* its buffer
  eof,            \* it has seen the end of the output
  mutex,          \* who holds g_stdout_mutex
  signals,        \* signals sent so far
  written,        \* history: number of the next chunk s writes
  logged,         \* history: number of the next chunk of s to be logged
  line            \* history: the line of s logged last

entry   == <<output_fd, logger_started, logger_exit>>
output  == <<proc, writers, pty, open>>
logger  == <<thread, fd, buf, eof>>
history == <<written, logged, line>>
vars    == <<pc, srv, entry, output, logger, mutex, signals, history>>

Chunk == [n : 0 .. M - 1, eol : BOOLEAN]
Plus(n, k) == (n + k) % M

Init ==
  /\ pc = "loop" /\ srv = Nobody
  /\ output_fd = [s \in Services |-> NoFd]
  /\ logger_started = [s \in Services |-> FALSE]
  /\ logger_exit = [s \in Services |-> FALSE]
  /\ proc = [s \in Services |-> "none"]
  /\ writers = [s \in Services |-> 0]
  /\ pty = [s \in Services |-> << >>]
  /\ open = [f \in Fds |-> Nobody]
  /\ thread = [s \in Services |-> "none"]
  /\ fd = [s \in Services |-> NoFd]
  /\ buf = [s \in Services |-> << >>]
  /\ eof = [s \in Services |-> FALSE]
  /\ mutex = Nobody /\ signals = 0
  /\ written = [s \in Services |-> 0]
  /\ logged = [s \in Services |-> 0]
  /\ line = [s \in Services |-> << >>]

-----------------------------------------------------------------------------
(* The main thread. *)

Goto(label, s) == pc' = label /\ srv' = s

\* fork_and_exec: a pseudo-terminal on a free fd, and a process that writes to
\* it.  A terminal that descendants of the previous process still hold is
\* another one, which is not read any more.  Then the logger thread.
\* (Mutant: the flag of the previous thread is not reset.)
ResetExitNot(s) == logger_exit
ResetExit(s) == [logger_exit EXCEPT ![s] = FALSE]

Start(s) ==
  /\ pc = "loop" /\ proc[s] = "none"
  /\ \E f \in {g \in Fds : open[g] = Nobody} :
       /\ output_fd' = [output_fd EXCEPT ![s] = f]
       /\ open' = [open EXCEPT ![f] = s]
  /\ proc' = [proc EXCEPT ![s] = "alive"]
  /\ writers' = [writers EXCEPT ![s] = 1]
  /\ pty' = [pty EXCEPT ![s] = << >>]
  /\ written' = [written EXCEPT ![s] = 0]
  /\ logged' = [logged EXCEPT ![s] = 0]
  /\ line' = [line EXCEPT ![s] = << >>]
  /\ logger_exit' = ResetExit(s)
  /\ \E ok \in BOOLEAN :
       /\ ok \/ MayFail
       /\ logger_started' = [logger_started EXCEPT ![s] = ok]
       /\ thread' = [thread EXCEPT ![s] = IF ok THEN "new" ELSE "none"]
  /\ UNCHANGED <<pc, srv, fd, buf, eof, mutex, signals>>

\* waitpid returns the process of s; "service exited" is about to be logged.
Reap(s) ==
  /\ pc = "loop" /\ proc[s] = "zombie"
  /\ proc' = [proc EXCEPT ![s] = "none"]
  /\ Goto("log", s)
  /\ UNCHANGED <<entry, writers, pty, open, logger, mutex, signals, history>>

\* log_stdout: the mutex is taken, the text written, the mutex released.
Lock ==
  /\ pc = "log" /\ mutex = Nobody
  /\ mutex' = "main" /\ Goto("write", srv)
  /\ UNCHANGED <<entry, output, logger, signals, history>>

Unlock ==
  /\ pc = "write" /\ mutex' = Nobody
  /\ Goto("exit", srv)
  /\ UNCHANGED <<entry, output, logger, signals, history>>

\* (Mutant: main goes on as soon as the thread has been told.)
AfterRequestAtOnce == "close"
AfterRequest == "join"

\* The thread, if there is one, is told to exit ...
RequestExit ==
  /\ pc = "exit"
  /\ IF logger_started[srv]
     THEN /\ logger_exit' = [logger_exit EXCEPT ![srv] = TRUE]
          /\ Goto(AfterRequest, srv)
     ELSE Goto("close", srv) /\ UNCHANGED logger_exit
  /\ UNCHANGED <<output_fd, logger_started, output, logger, mutex, signals, history>>

\* ... and joined.
Join ==
  /\ pc = "join" /\ thread[srv] = "ended"
  /\ thread' = [thread EXCEPT ![srv] = "none"]
  /\ buf' = [buf EXCEPT ![srv] = << >>]
  /\ eof' = [eof EXCEPT ![srv] = FALSE]
  /\ fd' = [fd EXCEPT ![srv] = NoFd]
  /\ logger_started' = [logger_started EXCEPT ![srv] = FALSE]
  /\ Goto("close", srv)
  /\ UNCHANGED <<output_fd, logger_exit, output, mutex, signals, history>>

\* (Mutant: the master of the terminal is left open.)
ClosedNot == open
Closed == [open EXCEPT ![output_fd[srv]] = Nobody]

Close ==
  /\ pc = "close"
  /\ open' = Closed
  /\ output_fd' = [output_fd EXCEPT ![srv] = NoFd]
  /\ Goto("loop", Nobody)
  /\ UNCHANGED <<logger_started, logger_exit, proc, writers, pty, logger, mutex,
                 signals, history>>

\* SIGTERM or SIGINT: the handler runs on top of the main thread and logs, so
\* it waits for the mutex; if main holds it itself, it waits for ever.
Signal ==
  /\ pc # "stuck" /\ signals < MaxSignals /\ signals' = signals + 1
  /\ IF mutex = "main" THEN Goto("stuck", srv) ELSE UNCHANGED <<pc, srv>>
  /\ UNCHANGED <<entry, output, logger, mutex, history>>

-----------------------------------------------------------------------------
(* The logger thread of s. *)

At(s, label) == thread[s] = label
Move(s, label) == thread' = [thread EXCEPT ![s] = label]

Begin(s) ==
  /\ At(s, "new") /\ Move(s, "poll")
  /\ fd' = [fd EXCEPT ![s] = output_fd[s]]
  /\ UNCHANGED <<pc, srv, entry, output, buf, eof, mutex, signals, history>>

\* What the thread finds behind its fd.
Source(s) == open[fd[s]]
Available(s) == Source(s) # Nobody /\ pty[Source(s)] # << >>
HungUp(s) == Source(s) = Nobody \/ (pty[Source(s)] = << >> /\ writers[Source(s)] = 0)

\* (Mutant: what is left in the buffer is dropped.)
AfterHangUpCheck(s) == "check"
AfterHangUp(s) == IF buf[s] # << >> THEN "flush" ELSE "check"

\* poll: there is text, or everyone has closed the terminal and what is left
\* in the buffer is a line, or a second passes and the flag is looked at.
Poll(s) ==
  /\ At(s, "poll")
  /\ \/ Available(s) /\ Move(s, "read") /\ UNCHANGED eof
     \/ HungUp(s) /\ eof' = [eof EXCEPT ![s] = TRUE]
        /\ Move(s, AfterHangUp(s))
     \/ ~Available(s) /\ ~HungUp(s) /\ logger_exit[s] /\ Move(s, "ended") /\ UNCHANGED eof
  /\ UNCHANGED <<pc, srv, entry, output, fd, buf, mutex, signals, history>>

\* read, as much as there is room for; without room the buffer is a line.
Room(s) == BufSize - Len(buf[s])

Read(s) ==
  /\ At(s, "read")
  /\ IF Room(s) = 0
     THEN Move(s, "flush") /\ UNCHANGED <<buf, pty>>
     ELSE \E k \in 1 .. Room(s) :
            /\ Source(s) # Nobody /\ k <= Len(pty[Source(s)])
            /\ buf' = [buf EXCEPT ![s] = @ \o SubSeq(pty[Source(s)], 1, k)]
            /\ pty' = [pty EXCEPT ![Source(s)] = SubSeq(@, k + 1, Len(@))]
            /\ Move(s, "lines")
  /\ UNCHANGED <<pc, srv, entry, proc, writers, open, fd, eof, mutex, signals, history>>

Ends(text) == {k \in DOMAIN text : text[k].eol}
\* (Mutant: the last end of a line in the buffer is taken for the first.)
LastEnd(text) == CHOOSE k \in Ends(text) : \A j \in Ends(text) : k >= j
FirstEnd(text) == CHOOSE k \in Ends(text) : \A j \in Ends(text) : k <= j

\* log_prefixer_callback: logs the first k chunks of the buffer.
LogLine(s, k) ==
  /\ mutex = Nobody
  /\ line' = [line EXCEPT ![s] = SubSeq(buf[s], 1, k)]
  /\ logged' = [logged EXCEPT ![s] = Plus(@, k)]
  /\ buf' = [buf EXCEPT ![s] = SubSeq(@, k + 1, Len(@))]
  /\ UNCHANGED <<pc, srv, entry, output, fd, eof, mutex, signals, written>>

AfterLine(s, k) == IF k = Len(buf[s]) THEN "check" ELSE "lines"

\* The complete lines in the buffer, one at a time.
Lines(s) ==
  /\ At(s, "lines")
  /\ IF Ends(buf[s]) = {}
     THEN /\ Move(s, "check")
          /\ UNCHANGED <<pc, srv, entry, output, fd, buf, eof, mutex, signals, history>>
     ELSE LET k == FirstEnd(buf[s]) IN LogLine(s, k) /\ Move(s, AfterLine(s, k))

\* All of the buffer, at the end of the output or when it is full.
Flush(s) == At(s, "flush") /\ LogLine(s, Len(buf[s])) /\ Move(s, "check")

\* (Mutant: the flag is looked at only when a second passes without output.)
DoneAtEof(s) == eof[s]
Done(s) == eof[s] \/ logger_exit[s]

\* The end of an iteration of read_lines.
Check(s) ==
  /\ At(s, "check") /\ Move(s, IF Done(s) THEN "ended" ELSE "poll")
  /\ UNCHANGED <<pc, srv, entry, output, fd, buf, eof, mutex, signals, history>>

-----------------------------------------------------------------------------
(* The service and the processes it leaves behind. *)

Write(s) ==
  /\ writers[s] > 0 /\ Len(pty[s]) < PtySize
  /\ \E f \in Fds : open[f] = s
  /\ \E eol \in BOOLEAN :
       pty' = [pty EXCEPT ![s] = Append(@, [n |-> written[s], eol |-> eol])]
  /\ written' = [written EXCEPT ![s] = Plus(@, 1)]
  /\ UNCHANGED <<pc, srv, entry, proc, writers, open, logger, mutex, signals, logged, line>>

\* A process of the service starts another one.
Spawn(s) ==
  /\ writers[s] \in 1 .. MaxWriters - 1
  /\ writers' = [writers EXCEPT ![s] = @ + 1]
  /\ UNCHANGED <<pc, srv, entry, proc, pty, open, logger, mutex, signals, history>>

\* The process of the service ends, or closes its output, or another one does.
Die(s) ==
  /\ proc[s] = "alive" /\ proc' = [proc EXCEPT ![s] = "zombie"]
  /\ writers' = [writers EXCEPT ![s] = IF @ > 0 THEN @ - 1 ELSE 0]
  /\ UNCHANGED <<pc, srv, entry, pty, open, logger, mutex, signals, history>>

LetGo(s) ==
  /\ writers[s] > 0
  /\ writers' = [writers EXCEPT ![s] = @ - 1]
  /\ UNCHANGED <<pc, srv, entry, proc, pty, open, logger, mutex, signals, history>>

-----------------------------------------------------------------------------
Main == (\E s \in Services : Start(s) \/ Reap(s)) \/ Lock \/ Unlock
        \/ RequestExit \/ Join \/ Close
Logger(s) == Begin(s) \/ Poll(s) \/ Read(s) \/ Lines(s) \/ Flush(s) \/ Check(s)
Processes(s) == Write(s) \/ Spawn(s) \/ Die(s) \/ LetGo(s)

Next == Main \/ Signal \/ \E s \in Services : Logger(s) \/ Processes(s)

\* Both threads are scheduled; a mutex that is free again and again is got.
Spec == Init /\ [][Next]_vars
FairSpec == /\ Spec
            /\ SF_vars(Lock) /\ WF_vars(Unlock \/ RequestExit \/ Join \/ Close)
            /\ \A s \in Services : SF_vars(Lines(s)) /\ SF_vars(Flush(s)) /\ WF_vars(Logger(s))

-----------------------------------------------------------------------------
(* Properties. *)

TypeOK ==
  /\ pc \in {"loop", "log", "write", "exit", "join", "close", "stuck"}
  /\ srv \in Services \cup {Nobody}
  /\ pc # "loop" => srv \in Services /\ output_fd[srv] # NoFd
  /\ output_fd \in [Services -> Fds \cup {NoFd}]
  /\ logger_started \in [Services -> BOOLEAN]
  /\ logger_exit \in [Services -> BOOLEAN]
  /\ proc \in [Services -> {"none", "alive", "zombie"}]
  /\ writers \in [Services -> 0 .. MaxWriters]
  /\ pty \in [Services -> Seq(Chunk)]
  /\ open \in [Fds -> Services \cup {Nobody}]
  /\ thread \in [Services -> {"none", "new", "poll", "read", "lines", "flush", "check", "ended"}]
  /\ fd \in [Services -> Fds \cup {NoFd}]
  /\ buf \in [Services -> Seq(Chunk)] /\ \A s \in Services : Len(buf[s]) <= BufSize
  /\ eof \in [Services -> BOOLEAN]
  /\ mutex \in {Nobody, "main"}
  /\ signals \in 0 .. MaxSignals
  /\ written \in [Services -> 0 .. M - 1] /\ logged \in [Services -> 0 .. M - 1]
  /\ line \in [Services -> Seq(Chunk)]

Active(s) == thread[s] \in {"poll", "read", "lines", "flush", "check"}

\* A logger thread uses the fd of its own service only, and while it does,
\* main neither closes it nor gives its number to another service.
OwnOutput ==
  \A s \in Services : Active(s) => fd[s] = output_fd[s] /\ fd[s] # NoFd /\ Source(s) = s

\* The thread, the entry and the process agree: no thread is left when its
\* service is started again, and no fd stays open without an entry.
OneLogger ==
  /\ \A s \in Services : thread[s] # "none" <=> logger_started[s]
  /\ \A f \in Fds : open[f] # Nobody => output_fd[open[f]] = f
  /\ \A s \in Services :
       logger_started[s] \/ output_fd[s] # NoFd =>
         proc[s] # "none" \/ (pc # "loop" /\ srv = s)

\* What was written and not logged is in the buffer or in the terminal, in
\* order: output is neither lost nor logged twice as long as the thread runs,
\* and all of it has been logged when the thread has seen its end.
Unlogged(s) == buf[s] \o pty[s]
NothingLost ==
  \A s \in Services :
    Active(s) \/ (thread[s] = "ended" /\ eof[s]) =>
      /\ Plus(logged[s], Len(Unlogged(s))) = written[s]
      /\ \A i \in DOMAIN Unlogged(s) : Unlogged(s)[i].n = Plus(logged[s], i - 1)
      /\ thread[s] = "ended" /\ writers[s] = 0 => Unlogged(s) = << >>

\* What is logged as a line is one: it ends where the service ended it, unless
\* the buffer was full or the output was over.
LinesAreWhole ==
  \A s \in Services :
    line[s] # << >> =>
      \/ Ends(line[s]) = {Len(line[s])}
      \/ Ends(line[s]) = {} /\ (Len(line[s]) = BufSize \/ eof[s] \/ thread[s] = "none")

\* The thread that is to exit does so, whoever keeps the terminal open and
\* however much is written to it: main is not held up.
JoinEnds == pc = "join" ~> pc = "close"

\* Output of a service that runs is read as long as its thread is there.
OutputRead ==
  \A s \in Services : \A n \in 0 .. M - 1 :
    LET waiting == pty[s] # << >> /\ pty[s][1].n = n /\ thread[s] # "none"
    IN  waiting ~> ~waiting \/ pc = "stuck"

\* README.md:234: on SIGTERM the shutdown sequence takes place, so the handler,
\* which logs before it requests the shutdown, comes to its end.
HandlersReturn == pc # "stuck"
=============================================================================
