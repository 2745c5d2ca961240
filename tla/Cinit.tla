------------------------------- MODULE Cinit -------------------------------
(***************************************************************************)
(* The process supervisor `cinit' (src/cinit/cinit.c), process 1 of the    *)
(* container, from the end of the load phase to the exit script.           *)
(*                                                                         *)
(* One thread of code is modelled, the main thread of cinit.  Its position *)
(* is `pc'; every label is a point where the kernel, a signal or a client  *)
(* of the command FIFO may act before it goes on.  Around it stand the     *)
(* process table of the kernel, the SIGTERM/SIGINT handler, the writers of *)
(* the FIFO and the clock.                                                 *)
(*                                                                         *)
(* Time is not counted: a deadline is a flag that the clock raises         *)
(* (`timer' for the wait in progress, `due[s]' for the time elapsed since  *)
(* the start of s), so any order of deadlines and events is explored.      *)
(***************************************************************************)
EXTENDS Integers, Sequences, FiniteSets

CONSTANTS
  NSRV,        \* number of services in g_ctx.services; ids are 1..NSRV
  Pids,        \* process ids the kernel hands out (finite: pids are reused)
  NoPid,       \* the pid 0 of a service that has no process
  Codes,       \* exit codes; 128+n stands for "killed by signal n"
  Configs,     \* the tables of services the load phase may have produced
  Faults,      \* the calls that may fail: "chdir", "fork", "thread"
  Commands,    \* lines written to the FIFO: a service, Unknown or EmptyName
  MaxSignals,  \* bound: SIGTERM/SIGINT sent to cinit
  MaxStrays,   \* bound: live processes that are not the process of a service
  MaxPending   \* bound: commands waiting in the FIFO

Sids == 1 .. NSRV
Unknown == 0      \* any command line that names no service of the table
EmptyName == -1   \* the line "restart:", with nothing after the colon
KillCode == 137   \* 128 + SIGKILL

\* What the rest of a service's entry is made of.  `has_uptime' says that
\* min_running_time is not 0, `has_probe' that there is an is_ready program.
Entry == [group : BOOLEAN, disabled : BOOLEAN, respawn : BOOLEAN,
          sync : BOOLEAN, interval : BOOLEAN, ignore_failure : BOOLEAN,
          shutdown_on_terminate : BOOLEAN, has_uptime : BOOLEAN,
          has_probe : BOOLEAN]

\* The combinations load_service accepts: a group or a disabled service has
\* no other setting, and respawn excludes sync and interval.
ValidEntry(e) ==
  /\ e.group \/ e.disabled =>
       ~(e.respawn \/ e.sync \/ e.interval \/ e.ignore_failure
         \/ e.shutdown_on_terminate)
  /\ e.respawn => ~e.sync /\ ~e.interval

ASSUME ConstAssumption ==
  /\ NSRV \in Nat
  /\ NoPid \notin Pids
  /\ Codes \subseteq Nat /\ {0, KillCode} \subseteq Codes
  /\ Configs \subseteq [Sids -> {e \in Entry : ValidEntry(e)}]
  /\ Commands \subseteq Sids \cup {Unknown, EmptyName}
  /\ MaxSignals \in Nat /\ MaxStrays \in Nat /\ MaxPending \in Nat

VARIABLES
  cfg,                \* the loaded table of services (never changes)
  order,              \* g_ctx.start_order (never changes)
  pc,                 \* where the main thread is
  cur,                \* loop index: position in `order', or service id
  mode,               \* which call of child_handler is running
  ret,                \* where handle_killed returns
  killed,             \* the service and the code handle_killed works on
  timer,              \* the deadline of the wait in progress has passed
  pid,                \* SRV(s).pid
  logger_started,     \* SRV(s).logger_started
  restart_requested,  \* SRV(s).restart_requested
  due,                \* enough time has passed since SRV(s).start_time
  do_shutdown,        \* the flag of the signal handlers
  exit_code,          \* g_ctx.exit_code
  exit_status,        \* main's exit_status
  proc,               \* kernel: state of each pid
  status,             \* kernel: exit code kept for a zombie
  owner,              \* kernel: the service a process was forked for, or 0
  fifo,               \* bytes waiting in the command FIFO
  signals,            \* SIGTERM/SIGINT sent so far
  verdict,            \* history: outcome of each service's start-up
  cause               \* history: what requested the shutdown first

config == <<cfg, order>>
frame  == <<mode, ret, killed>>
table  == <<pid, logger_started, due>>
flags  == <<do_shutdown, cause, exit_code, exit_status>>
kernel == <<proc, status, owner>>
vars   == <<config, pc, cur, frame, timer, table, restart_requested, flags,
            kernel, fifo, signals, verdict>>

NoKill  == [sid |-> 0, code |-> 0]
NoCause == [why |-> "none", code |-> 0]

StartupPCs  == {"up", "start", "sync", "sync_blocked", "uptime", "ready", "up_done",
                "up_skip", "catch"}
MainPCs     == {"loop", "loop_some", "loop_all", "intervals", "restarts", "fifo"}
ShutdownPCs == {"stop", "term_all", "kill_all", "exited"}
PCs   == StartupPCs \cup MainPCs \cup ShutdownPCs \cup {"reap", "killed", "aborted"}
Modes == {"main", "stop", "probe", "grace", "forever"}

\* The main thread has left its loop: it only stops and reaps from now on.
InShutdown == \/ pc \in ShutdownPCs
              \/ pc \in {"reap", "killed"} /\ mode # "main"

Free     == {p \in Pids : proc[p] = "free"}
Children == Pids \ Free
Zombies  == {p \in Pids : proc[p] = "zombie"}
Running  == {p \in Pids : proc[p] \in {"alive", "termed"}}
Strays   == {p \in Children : \A s \in Sids : pid[s] # p}

\* The order the load phase builds: every service that is not disabled, once.
StartOrders(c) ==
  LET enabled == {s \in Sids : ~c[s].disabled}
  IN  {o \in [1 .. Cardinality(enabled) -> enabled] :
         \A s \in enabled : \E i \in DOMAIN o : o[i] = s}

Init ==
  /\ cfg \in Configs
  /\ order \in StartOrders(cfg)
  /\ pc = "up" /\ cur = 1 /\ mode = "main" /\ ret = "up" /\ killed = NoKill
  /\ timer = FALSE
  /\ pid = [s \in Sids |-> NoPid]
  /\ logger_started = [s \in Sids |-> FALSE]
  /\ restart_requested = [s \in Sids |-> FALSE]
  /\ due = [s \in Sids |-> TRUE]
  /\ do_shutdown = FALSE /\ cause = NoCause /\ exit_code = 0 /\ exit_status = 0
  /\ proc = [p \in Pids |-> "free"]
  /\ status = [p \in Pids |-> 0]
  /\ owner = [p \in Pids |-> 0]
  /\ fifo = << >> /\ signals = 0
  /\ verdict = [s \in Sids |-> "none"]

-----------------------------------------------------------------------------
(* Helpers of the main thread. *)

Goto(label) == pc' = label

\* REQUEST_SHUTDOWN; the history keeps the first cause.
RequestShutdown(why, code) ==
  /\ do_shutdown' = TRUE
  /\ cause' = IF do_shutdown THEN cause ELSE [why |-> why, code |-> code]

\* exec_cmd runs a program of the service (finish, kill, is_ready) and waits
\* for it; `next' is the process table it leaves.  A SIGTERM that arrives
\* meanwhile makes waitpid fail with EINTR: exec_cmd returns -1 and the
\* program, still running, is left behind.
RunHelper(interrupted, next) ==
  \/ /\ ~interrupted
     /\ proc' = next /\ UNCHANGED signals
  \/ /\ interrupted
     /\ signals < MaxSignals /\ signals' = signals + 1
     /\ Cardinality(Strays) < MaxStrays
     /\ \E q \in Free : proc' = [next EXCEPT ![q] = "alive"]

\* start_service: `ok' says that it returned and did not throw.  The process
\* exists before the logger thread does, so a failure of pthread_create
\* leaves a running service without a logger.
start_service(s, ok) ==
  \/ /\ pid[s] # NoPid /\ ok
     /\ UNCHANGED <<table, proc, owner>>
  \/ /\ pid[s] = NoPid /\ ~ok
     /\ Faults \cap {"chdir", "fork"} # {} \/ Free = {}
     /\ UNCHANGED <<table, proc, owner>>
  \/ /\ pid[s] = NoPid
     /\ ok \/ "thread" \in Faults
     /\ \E p \in Free :
          /\ proc' = [proc EXCEPT ![p] = "alive"]
          /\ owner' = [owner EXCEPT ![p] = s]
          /\ pid' = [pid EXCEPT ![s] = p]
     /\ due' = [due EXCEPT ![s] = FALSE]
     /\ logger_started' = [logger_started EXCEPT ![s] = ok]

\* kill(p, SIGTERM); a zombie does not notice.
Term(f, ps) == [p \in Pids |-> IF p \in ps /\ f[p] = "alive" THEN "termed" ELSE f[p]]

\* stop_service: the kill program, then SIGTERM.  `ok' as above.
stop_service(s, ok) ==
  \/ /\ pid[s] = NoPid /\ ok
     /\ UNCHANGED <<proc, signals, do_shutdown, cause>>
  \/ /\ pid[s] # NoPid /\ ~ok /\ "chdir" \in Faults
     /\ UNCHANGED <<proc, signals, do_shutdown, cause>>
  \/ /\ pid[s] # NoPid /\ ok
     /\ \E interrupted \in BOOLEAN :
          /\ RunHelper(interrupted, Term(proc, {pid[s]}))
          /\ IF interrupted THEN RequestShutdown("signal", 0)
                            ELSE UNCHANGED <<do_shutdown, cause>>

\* What handle_killed makes of the entry of an ended service.  (Mutants: the
\* entry is left alone; the code is reported as 128 more; the logger is not
\* marked as joined.)
ClearedPidNever(s)    == pid
JoinedLoggerNever(s)  == logger_started
CodeOfSignalled(p)    == status[p] + 128

CodeOf(p)       == status[p]
ClearedPid(s)   == [pid EXCEPT ![s] = NoPid]
JoinedLogger(s) == [logger_started EXCEPT ![s] = FALSE]

\* waitpid has returned p.  If p is the process of a service, the first part
\* of handle_killed follows: the entry is cleared and the logger joined.
Reap(p, back) ==
  /\ proc' = [proc EXCEPT ![p] = "free"]
  /\ status' = [status EXCEPT ![p] = 0]
  /\ owner' = [owner EXCEPT ![p] = 0]
  /\ \/ /\ p \in Strays
        /\ Goto("reap") /\ UNCHANGED <<pid, logger_started, killed, ret>>
     \/ \E s \in Sids :
          /\ pid[s] = p /\ \A t \in 1 .. s - 1 : pid[t] # p
          /\ pid' = ClearedPid(s)
          /\ logger_started' = JoinedLogger(s)
          /\ killed' = [sid |-> s, code |-> CodeOf(p)]
          /\ ret' = back
          /\ Goto("killed")

\* The end of s is to end the container.  (Mutant: asked again when a shutdown
\* has been requested already.)
EndsContainerAnyway(s) == ~restart_requested[s] /\ cfg[s].shutdown_on_terminate
EndsContainer(s) ==
  ~do_shutdown /\ ~restart_requested[s] /\ cfg[s].shutdown_on_terminate

\* The rest of handle_killed: the finish script, then whether the end of this
\* service ends the container.  The test and what follows it are one step: a
\* signal between the two leaves the flag set and the service's code in
\* exit_code, as a signal right after them does.
FinishKilled ==
  /\ pc = "killed"
  /\ \E interrupted \in BOOLEAN :
       /\ RunHelper(interrupted, proc)
       /\ IF interrupted
          THEN RequestShutdown("signal", 0) /\ UNCHANGED exit_code
          ELSE IF EndsContainer(killed.sid)
          THEN RequestShutdown("service", killed.code) /\ exit_code' = killed.code
          ELSE UNCHANGED <<do_shutdown, cause, exit_code>>
  /\ Goto(ret) /\ ret' = "up" /\ killed' = NoKill
  /\ UNCHANGED <<config, cur, mode, timer, table, restart_requested,
                 exit_status, status, owner, fifo, verdict>>

\* What waitpid(-1, WNOHANG) may return, and when it fails with ECHILD.
\* (Mutants: only services are waited for; 0 is taken for "all terminated".)
ReapableServices  == Zombies \ Strays
NoneRunning == Running = {}

Reapable    == Zombies
NoChildLeft == Children = {}

\* child_handler: reap what can be reaped.  The code sleeps and tries again
\* as long as it neither has a zombie to reap nor a reason to return.
ReapZombie(p) ==
  /\ pc = "reap" /\ p \in Reapable
  /\ Reap(p, "reap")
  /\ UNCHANGED <<config, cur, mode, timer, due, restart_requested, flags,
                 fifo, signals, verdict>>

\* child_handler returns TRUE: waitpid says that no child is left.
AllTerminated ==
  /\ pc = "reap" /\ NoChildLeft
  /\ Goto(IF mode = "main" THEN "loop_all" ELSE "exited")
  /\ UNCHANGED <<config, cur, frame, timer, table, restart_requested, flags,
                 kernel, fifo, signals, verdict>>

\* child_handler returns FALSE: children are left, none is a zombie, and the
\* period is over (it is 0 for "main" and "probe").
PeriodOver ==
  /\ pc = "reap" /\ ~NoChildLeft /\ Reapable = {}
  /\ \/ mode = "main" /\ Goto("loop_some") /\ UNCHANGED cur
     \/ mode = "stop" /\ timer /\ Goto("stop") /\ cur' = cur - 1
     \/ mode = "probe" /\ Goto("term_all") /\ UNCHANGED cur
     \/ mode = "grace" /\ timer /\ Goto("kill_all") /\ UNCHANGED cur
  /\ UNCHANGED <<config, frame, timer, table, restart_requested, flags,
                 kernel, fifo, signals, verdict>>

\* Calls child_handler.
CallReap(m) == Goto("reap") /\ mode' = m /\ timer' = FALSE

-----------------------------------------------------------------------------
(* Bring-up: start_services, inside the Try of main. *)

\* The loop over start_order is left at its end or on a shutdown request.
\* (Mutant: the request is not looked at.)
EndOfOrder == cur > Len(order)
EndOfBringUp == cur > Len(order) \/ (~cfg[order[cur]].group /\ do_shutdown)

\* Head of the loop over start_order: a group is skipped, and a shutdown
\* request is looked for, last of all, before the service is started.
NextService ==
  /\ pc = "up"
  /\ IF EndOfBringUp THEN Goto("loop") /\ cur' = 1
     ELSE IF cfg[order[cur]].group THEN cur' = cur + 1 /\ UNCHANGED pc
     ELSE Goto("start") /\ UNCHANGED cur
  /\ UNCHANGED <<config, frame, timer, table, restart_requested, flags, kernel,
                 fifo, signals, verdict>>

\* start_service, whatever was requested after that test: it logs, changes
\* the directory and tries up to four times to fork, half a second apart.
StartNext ==
  /\ pc = "start"
  /\ LET s == order[cur] IN
       \E ok \in BOOLEAN :
         /\ start_service(s, ok)
         /\ Goto(IF ~ok THEN "catch"
                 ELSE IF cfg[s].sync THEN "sync"
                 ELSE IF cfg[s].interval THEN "up_done" ELSE "uptime")
  /\ timer' = FALSE
  /\ UNCHANGED <<config, cur, frame, restart_requested, flags, status, fifo,
                 signals, verdict>>

\* Synchronous service: main goes to sleep in waitpid ...
SyncBlock ==
  /\ pc = "sync" /\ proc[pid[order[cur]]] # "zombie"
  /\ Goto("sync_blocked")
  /\ UNCHANGED <<config, cur, frame, timer, table, restart_requested, flags,
                 kernel, fifo, signals, verdict>>

\* ... until the service ends.
SyncEnds ==
  /\ pc \in {"sync", "sync_blocked"}
  /\ LET p == pid[order[cur]] IN
       /\ proc[p] = "zombie"
       /\ Reap(p, IF status[p] = 0 THEN "up_done" ELSE "catch")
  /\ UNCHANGED <<config, cur, mode, timer, due, restart_requested, flags,
                 fifo, signals, verdict>>

\* The minimum uptime: given up on a shutdown request, met when the time is
\* over, missed when the service ends before.
UptimeMet == timer \/ ~cfg[order[cur]].has_uptime

Uptime ==
  /\ pc = "uptime"
  /\ \/ /\ do_shutdown
        /\ Goto("up_skip") /\ UNCHANGED <<ret, killed, timer, table, kernel>>
     \/ /\ ~do_shutdown /\ UptimeMet
        /\ timer' = FALSE
        /\ \/ Goto(IF cfg[order[cur]].has_probe THEN "ready" ELSE "up_done")
           \/ "chdir" \in Faults /\ Goto("catch")
        /\ UNCHANGED <<ret, killed, table, kernel>>
     \/ /\ ~do_shutdown /\ ~UptimeMet
        /\ proc[pid[order[cur]]] = "zombie"
        /\ Reap(pid[order[cur]], "catch")
        /\ UNCHANGED <<timer, due>>
  /\ UNCHANGED <<config, cur, mode, restart_requested, flags, fifo, signals, verdict>>

\* Readiness: one round of the loop around is_ready.  kill(pid, 0) succeeds
\* on a zombie too, and nothing is reaped here: "service died" is out of reach
\* as long as the pid is a child's.
ProbeReady ==
  /\ pc = "ready" /\ ~timer
  /\ IF proc[pid[order[cur]]] = "free"
     THEN Goto("catch") /\ UNCHANGED <<proc, signals, do_shutdown, cause>>
     ELSE \E interrupted, ready \in BOOLEAN :
            /\ RunHelper(interrupted, proc)
            /\ IF interrupted
               THEN RequestShutdown("signal", 0) /\ ~ready
               ELSE UNCHANGED <<do_shutdown, cause>>
            /\ Goto(IF ready THEN "up_done" ELSE IF do_shutdown' THEN "up_skip" ELSE "ready")
  /\ UNCHANGED <<config, cur, frame, timer, table, restart_requested, exit_code,
                 exit_status, status, owner, fifo, verdict>>

ReadyTimeout ==
  /\ pc = "ready" /\ timer
  /\ Goto("catch")
  /\ UNCHANGED <<config, cur, frame, timer, table, restart_requested, flags,
                 kernel, fifo, signals, verdict>>

\* The end of the Try block, normal or through ExitTry; `verdict' records
\* whether the service was found up or the wait was given up.
Advance ==
  /\ pc \in {"up_done", "up_skip"}
  /\ verdict' = IF pc = "up_done" THEN [verdict EXCEPT ![order[cur]] = "up"] ELSE verdict
  /\ Goto("up") /\ cur' = cur + 1
  /\ UNCHANGED <<config, frame, timer, table, restart_requested, flags, kernel,
                 fifo, signals>>

\* The Catch block of start_services and, unless the failure is ignored, the
\* one of main.
StartFailed ==
  /\ pc = "catch"
  /\ verdict' = [verdict EXCEPT ![order[cur]] = "failed"]
  /\ IF cfg[order[cur]].ignore_failure
     THEN Goto("up") /\ cur' = cur + 1 /\ UNCHANGED flags
     ELSE /\ Goto("loop") /\ cur' = 1
          /\ exit_status' = 1 /\ RequestShutdown("failure", 0) /\ UNCHANGED exit_code
  /\ UNCHANGED <<config, frame, timer, table, restart_requested, kernel, fifo, signals>>

-----------------------------------------------------------------------------
(* The main loop. *)

\* The status handed to the exit script, and where the shutdown begins.
\* (Mutants: only the code of a service counts; off by one.)
FinalStatusOfService == exit_code
LastServiceButOne    == Len(order) - 1
FinalStatus == IF exit_status = 0 THEN exit_code ELSE exit_status
LastService == Len(order)

\* Leaving the loop: the exit status is settled and the FIFO destroyed.
LeaveLoop ==
  /\ Goto("stop") /\ cur' = LastService /\ mode' = "stop"
  /\ exit_status' = FinalStatus
  /\ fifo' = << >>

LoopHead ==
  /\ pc = "loop"
  /\ \/ /\ do_shutdown /\ LeaveLoop /\ UNCHANGED timer
     \/ /\ ~do_shutdown /\ CallReap("main") /\ UNCHANGED <<cur, exit_status, fifo>>
  /\ UNCHANGED <<config, ret, killed, table, restart_requested, do_shutdown,
                 cause, exit_code, kernel, signals, verdict>>

\* (Mutants: one of the two reasons is forgotten.)
RestartableIfAsked(s)   == restart_requested[s] /\ pid[s] = NoPid
RestartableIfRespawn(s) == cfg[s].respawn /\ pid[s] = NoPid
Restartable(s) == (cfg[s].respawn \/ restart_requested[s]) /\ pid[s] = NoPid

\* After the reaping.  Without any process left and any service to restart,
\* the supervisor shuts down by itself.
AfterReap ==
  /\ pc \in {"loop_some", "loop_all"}
  /\ LET idle == pc = "loop_all" /\ \A s \in Sids : ~Restartable(s) IN
     IF do_shutdown \/ idle
     THEN /\ LeaveLoop
          /\ IF do_shutdown THEN UNCHANGED <<do_shutdown, cause>>
                            ELSE RequestShutdown("idle", 0)
     ELSE /\ Goto("intervals") /\ cur' = 1
          /\ UNCHANGED <<mode, exit_status, fifo, do_shutdown, cause>>
  /\ UNCHANGED <<config, ret, killed, timer, table, restart_requested, exit_code,
                 kernel, signals, verdict>>

\* One service of the loop over the services that run at an interval.
Intervals ==
  /\ pc = "intervals"
  /\ IF cur > NSRV
     THEN Goto("restarts") /\ cur' = 1 /\ UNCHANGED <<table, proc, owner>>
     ELSE /\ cur' = cur + 1 /\ UNCHANGED pc
          /\ IF ~(cfg[cur].interval /\ due[cur])
             THEN UNCHANGED <<table, proc, owner>>
             ELSE IF pid[cur] # NoPid
             THEN due' = [due EXCEPT ![cur] = FALSE]
                  /\ UNCHANGED <<pid, logger_started, proc, owner>>
             ELSE \E ok \in BOOLEAN : start_service(cur, ok)
  /\ UNCHANGED <<config, frame, timer, restart_requested, flags, status, fifo,
                 signals, verdict>>

\* One service of the loop over the services to restart.  The delay between
\* restarts is shorter than any interval, so it may be over before `due'.
Restarts ==
  /\ pc = "restarts"
  /\ IF cur > NSRV
     THEN Goto("fifo") /\ cur' = 1 /\ UNCHANGED <<table, proc, owner, restart_requested>>
     ELSE /\ cur' = cur + 1 /\ UNCHANGED pc
          /\ \/ /\ ~(Restartable(cur) /\ due[cur])
                /\ UNCHANGED <<table, proc, owner, restart_requested>>
             \/ /\ Restartable(cur) /\ (due[cur] \/ cfg[cur].interval)
                /\ \E ok \in BOOLEAN :
                     /\ start_service(cur, ok)
                     /\ restart_requested' =
                          IF ok THEN [restart_requested EXCEPT ![cur] = FALSE]
                                ELSE restart_requested
  /\ UNCHANGED <<config, frame, timer, flags, status, fifo, signals, verdict>>

\* The command FIFO.  One read takes everything that was written, and only
\* its first line is looked at.
Command ==
  /\ pc = "fifo"
  /\ fifo' = << >>
  /\ \/ /\ fifo # << >> => Head(fifo) = Unknown
        /\ Goto("loop")
        /\ UNCHANGED <<restart_requested, proc, signals, do_shutdown, cause>>
     \/ /\ fifo # << >> /\ Head(fifo) = EmptyName
        /\ Goto("aborted")
        /\ UNCHANGED <<restart_requested, proc, signals, do_shutdown, cause>>
     \/ /\ fifo # << >> /\ Head(fifo) \in Sids
        /\ \E ok \in BOOLEAN :
             /\ stop_service(Head(fifo), ok)
             /\ restart_requested' =
                  IF ok THEN [restart_requested EXCEPT ![Head(fifo)] = TRUE]
                        ELSE restart_requested
        /\ Goto("loop")
  /\ UNCHANGED <<config, cur, frame, timer, pid, logger_started, due, exit_code,
                 exit_status, status, owner, verdict>>

-----------------------------------------------------------------------------
(* Shutdown: cinit_shutdown, then the exit script. *)

\* Services are stopped from the last of the start order to the first, each
\* followed by up to 250 ms of reaping; after the first, one more round.
StopServices ==
  /\ pc = "stop"
  /\ IF cur = 0
     THEN CallReap("probe") /\ UNCHANGED <<cur, proc, signals, do_shutdown, cause>>
     ELSE IF cfg[order[cur]].group \/ pid[order[cur]] = NoPid
     THEN cur' = cur - 1 /\ UNCHANGED <<pc, mode, timer, proc, signals, do_shutdown, cause>>
     ELSE /\ \E ok \in BOOLEAN : stop_service(order[cur], ok)
          /\ CallReap("stop") /\ UNCHANGED cur
  /\ UNCHANGED <<config, ret, killed, table, restart_requested, exit_code,
                 exit_status, status, owner, fifo, verdict>>

\* The processes kill(-1, ...) reaches: every one but process 1.  (Mutant:
\* kill(0, ...), which spares the services, as each has its process group.)
OwnGroup == Running \cap Strays
Everyone == Running

\* kill(-1, SIGTERM), then the grace time.
TermAll ==
  /\ pc = "term_all"
  /\ proc' = Term(proc, Everyone)
  /\ CallReap("grace")
  /\ UNCHANGED <<config, cur, ret, killed, table, restart_requested, flags,
                 status, owner, fifo, signals, verdict>>

\* kill(-1, SIGKILL), then reap for as long as it takes.
KillAll ==
  /\ pc = "kill_all"
  /\ proc' = [p \in Pids |-> IF p \in Everyone THEN "zombie" ELSE proc[p]]
  /\ status' = [p \in Pids |-> IF p \in Everyone THEN KillCode ELSE status[p]]
  /\ CallReap("forever")
  /\ UNCHANGED <<config, cur, ret, killed, table, restart_requested, flags,
                 owner, fifo, signals, verdict>>

-----------------------------------------------------------------------------
(* The surroundings. *)

Halted == pc \in {"exited", "aborted"}

\* A process ends, by itself or because of a signal.
Die(p) ==
  /\ p \in Running
  /\ \E c \in Codes :
       /\ proc' = [proc EXCEPT ![p] = "zombie"]
       /\ status' = [status EXCEPT ![p] = c]
  /\ UNCHANGED <<config, pc, cur, frame, timer, table, restart_requested, flags,
                 owner, fifo, signals, verdict>>

\* A process leaves an orphan behind, which becomes a child of process 1.
Orphan ==
  /\ ~Halted /\ Running # {} /\ Cardinality(Strays) < MaxStrays
  /\ \E q \in Free : proc' = [proc EXCEPT ![q] = "alive"]
  /\ UNCHANGED <<config, pc, cur, frame, timer, table, restart_requested, flags,
                 status, owner, fifo, signals, verdict>>

\* SIGTERM or SIGINT is delivered between two steps of main.  It interrupts
\* the waitpid of a synchronous service, whose loop then gives up the wait; it
\* does not stop main from entering that waitpid.
Signal ==
  /\ ~Halted
  /\ signals < MaxSignals /\ signals' = signals + 1
  /\ RequestShutdown("signal", 0)
  /\ pc' = IF pc = "sync_blocked" /\ proc[pid[order[cur]]] # "zombie" THEN "up_skip" ELSE pc
  /\ UNCHANGED <<config, cur, frame, timer, table, restart_requested, exit_code,
                 exit_status, kernel, fifo, verdict>>

\* A client writes a line to the FIFO.
Write ==
  /\ ~Halted /\ ~InShutdown /\ Len(fifo) < MaxPending
  /\ \E c \in Commands : fifo' = Append(fifo, c)
  /\ UNCHANGED <<config, pc, cur, frame, timer, table, restart_requested, flags,
                 kernel, signals, verdict>>

\* The clock passes the deadline of the wait in progress ...
Timeout ==
  /\ ~timer
  /\ pc \in {"uptime", "ready"} \/ (pc = "reap" /\ mode \in {"stop", "grace"})
  /\ timer' = TRUE
  /\ UNCHANGED <<config, pc, cur, frame, table, restart_requested, flags, kernel,
                 fifo, signals, verdict>>

\* ... or the next start of a service.
Due(s) ==
  /\ ~due[s] /\ ~Halted
  /\ due' = [due EXCEPT ![s] = TRUE]
  /\ UNCHANGED <<config, pc, cur, frame, timer, pid, logger_started, restart_requested, flags, kernel, fifo, signals, verdict>>

-----------------------------------------------------------------------------
start_services == NextService \/ StartNext \/ SyncBlock \/ SyncEnds \/ Uptime \/ ProbeReady
                  \/ ReadyTimeout \/ Advance \/ StartFailed
child_handler  == (\E p \in Pids : ReapZombie(p)) \/ FinishKilled \/ AllTerminated \/ PeriodOver
main_loop      == LoopHead \/ AfterReap \/ Intervals \/ Restarts \/ Command
cinit_shutdown == StopServices \/ TermAll \/ KillAll

Main == start_services \/ child_handler \/ main_loop \/ cinit_shutdown
Environment == \/ \E p \in Pids : Die(p)
               \/ \E s \in Sids : Due(s)
               \/ Orphan \/ Signal \/ Write \/ Timeout

Next == Main \/ Environment

\* The main thread is scheduled and time passes.  The inner loop of
\* child_handler returns to its deadline only when it finds no zombie: it is
\* assumed that processes do not die for ever as fast as they are reaped.
\* waitpid(-1) takes the children in turn, so no zombie is overtaken for ever.
\* All that can live after kill(-1, SIGKILL) is a finish script whose wait was
\* interrupted; it ends, as it does when it is waited for.
Fairness == /\ WF_vars(Main)
            /\ SF_vars(PeriodOver)
            /\ \A p \in Pids : SF_vars(ReapZombie(p))
            /\ WF_vars(Timeout)
            /\ \A s \in Sids : WF_vars(Due(s))
            /\ \A p \in Pids : WF_vars(mode = "forever" /\ p \in Strays /\ Die(p))

\* A process that got SIGTERM ends (assumed only by the property that needs it).
Cooperative == \A p \in Pids : WF_vars(proc[p] = "termed" /\ Die(p))

Spec == Init /\ [][Next]_vars
FairSpec == Spec /\ Fairness

-----------------------------------------------------------------------------
(* Properties. *)

\* Type invariant: every variable of the supervisor keeps its type.
TypeOK ==
  /\ cfg \in Configs
  /\ order \in StartOrders(cfg)
  /\ pc \in PCs /\ cur \in Nat /\ mode \in Modes
  /\ ret \in {"up", "up_done", "catch", "reap"}
  /\ killed \in [sid : Sids \cup {0}, code : Codes]
  /\ timer \in BOOLEAN
  /\ pid \in [Sids -> Pids \cup {NoPid}]
  /\ logger_started \in [Sids -> BOOLEAN]
  /\ restart_requested \in [Sids -> BOOLEAN]
  /\ due \in [Sids -> BOOLEAN]
  /\ do_shutdown \in BOOLEAN
  /\ exit_code \in Codes /\ exit_status \in Codes \cup {1}
  /\ proc \in [Pids -> {"free", "alive", "termed", "zombie"}]
  /\ status \in [Pids -> Codes]
  /\ owner \in [Pids -> Sids \cup {0}]
  /\ fifo \in Seq(Commands)
  /\ signals \in 0 .. MaxSignals
  /\ verdict \in [Sids -> {"none", "up", "failed"}]
  /\ cause \in [why : {"none", "signal", "failure", "service", "idle"}, code : Codes]

\* The bring-up of one service, and the return to it from handle_killed.
AtService == StartupPCs \ {"up"}
InBringUp == \/ pc \in StartupPCs
             \/ pc = "killed" /\ ret \in {"up_done", "catch"}

\* Where the main thread is agrees with what it works on: the index is in the
\* start order whenever it is used, child_handler knows which call it serves,
\* and a service that is waited for still has its process.
Control ==
  /\ pc \in {"up", "intervals", "restarts"} => cur >= 1
  /\ pc \in AtService => cur \in DOMAIN order
  /\ pc = "killed" /\ ret # "reap" => cur \in DOMAIN order
  /\ pc = "stop" => cur <= Len(order)
  /\ pc \in {"reap", "killed"} /\ mode = "stop" => cur \in DOMAIN order
  /\ InBringUp \/ pc \in MainPCs => mode = "main"
  /\ pc \in {"term_all", "kill_all"} => mode # "main"
  /\ pc = "killed" => killed.sid \in Sids /\ ret \in {"up_done", "catch", "reap"}
  /\ pc \in {"sync", "sync_blocked", "uptime", "ready"} => pid[order[cur]] # NoPid

\* The pid of a service's entry names a child that has not been reaped, forked
\* for that very service, and every such child is named by its entry: no
\* signal or waitpid ever reaches a process that got the pid afterwards, no
\* process of a service is lost track of, and no service runs twice.
PidOwned ==
  /\ \A s \in Sids : pid[s] # NoPid => pid[s] \in Children /\ owner[pid[s]] = s
  /\ \A p \in Children : owner[p] # 0 => pid[owner[p]] = p

\* A logger thread exists only beside the process it reads from, so the
\* assertion of start_service ("Logger thread already started") cannot fail
\* and no logger is joined twice or left running.
LoggerBesideProcess == \A s \in Sids : logger_started[s] => pid[s] # NoPid

\* What a service must have reached before the next of the order may start.
Settled(s) == \/ cfg[s].group
              \/ verdict[s] = "up"
              \/ verdict[s] = "failed" /\ cfg[s].ignore_failure

\* Bring-up: a service of the start order has a process only if every service
\* before it is settled - ended (sync), up for its minimum time and ready, or
\* failed with ignore_failure - whatever signals came in between.
StartOrderRespected ==
  \A i, j \in DOMAIN order :
    i < j /\ pid[order[j]] # NoPid => Settled(order[i])

\* The supervisor exits only when it has reaped every process and the table
\* says so.
ExitLeavesNothing ==
  pc = "exited" => /\ Children = {}
                   /\ \A s \in Sids : pid[s] = NoPid /\ ~logger_started[s]

\* The exit status is 1 if bring-up failed; else the code of the service
\* whose end requested the shutdown, if one did; else 0.  In particular an
\* application that dies after SIGTERM or after another service has asked
\* for the shutdown does not change it.
BringUpFailed == \E s \in Sids : verdict[s] = "failed" /\ ~cfg[s].ignore_failure
ExitStatus ==
  pc = "exited" =>
    exit_status = IF BringUpFailed THEN 1
                  ELSE IF cause.why = "service" THEN cause.code ELSE 0

\* Services are stopped in reverse order: once the shutdown has passed a
\* position of the start order, the service there has no process or has got
\* SIGTERM (or is on its way out).  A group is passed over: the process that a
\* restart request gives it gets SIGTERM with everyone else, at last.
StoppedInReverse ==
  pc = "stop" =>
    \A i \in DOMAIN order :
      LET s == order[i] IN
      i > cur /\ ~cfg[s].group /\ pid[s] # NoPid => proc[pid[s]] \in {"termed", "zombie"}

\* A service is killed only after it got SIGTERM and the grace time is over,
\* also when stop_service failed for it.
TermBeforeKill ==
  pc = "kill_all" =>
    timer /\ \A s \in Sids : pid[s] # NoPid => proc[pid[s]] \in {"termed", "zombie"}

\* The supervisor decides by itself that there is nothing left to supervise
\* only if no service of the table is to be respawned or restarted.
IdleIsFinal ==
  cause.why = "idle" => \A s \in Sids : ~cfg[s].respawn /\ ~restart_requested[s]

\* The phase of the supervisor, as Supervisor.tla sees it.
Phase == IF pc = "exited" THEN "exited"
         ELSE IF InShutdown THEN "stopping"
         ELSE IF InBringUp THEN "starting" ELSE "running"

\* The service that bring-up has decided to start, as Supervisor.tla sees it.
Chosen == IF pc = "start" THEN order[cur] ELSE 0

\* Every step of the supervisor is a step, or no step, of the abstract one:
\* during bring-up no service is chosen once the stop was requested, so at
\* most the one chosen before still starts; nothing starts once the supervisor
\* has begun to stop; it begins to stop only for a reason; it exits last.
Abstract == INSTANCE Supervisor
  WITH Services <- Sids, Nobody <- 0, phase <- Phase, chosen <- Chosen,
       up <- {s \in Sids : pid[s] # NoPid}, stop_asked <- do_shutdown
ImplementsSupervisor == Abstract!Spec

\* ------- liveness

\* A requested shutdown ends with the exit script, whatever the services do.
ShutdownCompletes == do_shutdown ~> pc = "exited"

\* A service to respawn that has ended is started again, unless the container
\* is shutting down.
Respawned ==
  \A s \in Sids : cfg[s].respawn /\ pid[s] = NoPid ~> pid[s] # NoPid \/ do_shutdown

\* A restart that was accepted ends with a new start of the service, if the
\* processes that get SIGTERM end.
RestartServed ==
  Cooperative =>
    \A s \in Sids : restart_requested[s] ~> ~restart_requested[s] \/ do_shutdown

\* Process 1 reaps every zombie, its own children's and the orphans'.
ZombiesReaped == \A p \in Pids : proc[p] = "zombie" ~> proc[p] = "free"
=============================================================================
