# A TLA+ verification project for docker-baseimage

This directory holds TLA+ specifications of the programs that run inside a
container built on this base image, the TLC runs that check them and the proofs
that TLAPS checks. Paths are relative to the root of the repository; `cinit.c`
stands for `src/cinit/cinit.c`.

## The system

A container starts with `rootfs/init`, a shell script that collects the
environment, runs `/etc/cont-init.d/*` (one of them sets up users and groups)
and replaces itself with **cinit**, the process supervisor. cinit is process 1
until the end: it loads the table of services from `/etc/services.d`, starts
them, watches them and finally executes `/etc/services.d/exit`. Two services come
with the image, the log monitor and logrotate; the application is a third one.

| Component | Source | State it keeps | Operations | What is hard about it |
|---|---|---|---|---|
| Supervisor | `src/cinit/cinit.c`, `exec.c` | table of services, start order, `do_shutdown`, exit status; the process table of the kernel | bring-up, reaping, restart and interval loops, FIFO commands, shutdown | signals, deaths and orphans at any moment; pids that are reused; calls that fail half-way; shutdown that must end |
| Service loader | `cinit.c` | table, start order, working directory | load a service with its dependencies | recursion, circles, table limits, values read relative to a moving directory |
| Service logger | `cinit.c`, `log.c`, `utils.c` | one thread per service, exit flag, line buffers, two mutexes | read, prefix, exit, join | end of a service against the end of its output; mutexes taken in signal handlers |
| Configuration values | `utils.c`, `cinit.c` | the settings of an entry; the identity of the child | text to boolean, integers, intervals, ids; the child's steps up to `execve` | a value that is set, empty or missing; programs as values; a step of the child that fails |
| Log monitor | `src/logmonitor/logmonitor.c` | open files with positions, pending text, time of the last notification per target | load the configuration, read new text, follow rotation, filter, notify with debouncing, reload status files | rotation and truncation between reads, lines read in pieces, clocks, mistakes in the configuration |
| Init script and environment | `rootfs/init`, `rootfs/etc/cont-env.d` | environment, stage, the list of files of the stage | collect variables, run init scripts | precedence of sources, failure of one script, a list that is the standard input of its programs |
| Users and groups | `rootfs/etc/cont-init.d/10-init-users.sh` | passwd, group, shadow tables | add users, groups and members | ids and names that collide, in any order of the directories |
| gpasswd | `src/shadow-rs/gpasswd` | `/etc/group`, `/etc/gshadow` and their locks | add, remove, replace members and administrators | two files, one lock each, several invocations, kills |
| Exit script | `rootfs/etc/services.d/exit` | none | run `/etc/cont-finish.d/*` | failures that must not change the status |
| Packages | `helpers/add-pkg`, `del-pkg`, `cmn-pkg` | virtual packages | install, remove | external package managers |
| take-ownership, build, tests | `helpers`, `dev`, `tests` | none | | |

How they interact: `/init` hands its environment over to cinit, whose defaults
for the ids of services come from it; the tables of users and groups that an
init script wrote are read when services are loaded. The loader runs inside
cinit before the supervisor does and
hands over the table and the start order, in memory. Services are child
processes; cinit learns of their end through `waitpid`, tells them to end with
signals and with their optional `kill` program, and runs their `finish` and
`is_ready` programs synchronously. A logger thread per service reads the
pseudo-terminals of the service and is joined when the service is reaped.
Clients ask for restarts through a FIFO. SIGTERM and SIGINT only set a flag.
The log monitor is a service like any other; it reads files that services write
and starts target programs. gpasswd is a tool that is run on demand.

### What makes each component correct

* Supervisor: the pid of an entry always names a live or unreaped child of that
  service; services start in order, and only when what precedes them is settled;
  after the request to stop, bring-up chooses no further service, so that at most
  the one chosen before it still starts; shutdown goes in reverse order, SIGTERM
  before SIGKILL, and ends; every zombie is reaped; the exit status is
  that of the service that ended the container.
* Loader: every service once, dependencies first, loading ends on circles.
* Logger: what a service wrote is logged, the join ends, no mutex is taken twice
  by a thread.
* Values: a program runs with the identity and the environment that the files
  ask for, whatever fails on the way.
* Log monitor: every complete line is handled once, across rotation; a target
  is not notified more often than its debouncing says; a mistake is noticed
  before anything is monitored.
* Init: sources of lower precedence never override; services start after all
  init scripts have succeeded; users and groups are what the directories say.
* gpasswd: no update is lost, the two files agree, no lock stays behind.

## The modules

| Module | What it is |
|---|---|
| `Supervisor` | Abstract specification: the phase of the supervisor, the service that bring-up has chosen to start, the set of services that are up, whether a stop was requested. |
| `Cinit` | The supervisor, one action per step of the main thread between two points where something else can happen. |
| `MCCinit` | Tables of services and sets of commands for TLC. |
| `Cinit_proofs` | Types and control, the table of services against the process table, and that Cinit implements Supervisor, proved. |
| `CinitOrder_proofs` | Exit status, shutdown when idle, SIGTERM before SIGKILL, reverse order, start order, proved. Extends `Cinit_proofs`. |
| `ServiceLoader` | The load phase, an explicit stack for the recursion. |
| `MCServiceLoader` | Trees of services for TLC. |
| `ServiceLoader_proofs` | Table, start order and stack of the loader, and that dependencies start first, proved. |
| `ServiceLogger` | The logger threads of the services beside the part of main that starts, reaps and joins. |
| `ServiceLogger_proofs` | A logger thread uses its own service's output, none is left over, nothing is lost, lines are whole, proved. |
| `LogMonitor` | The log monitor and a file that changes under it. |
| `LogMonitor_proofs` | Lines are handled in order and once, and are those of the file, proved. |
| `MonitorConfig` | What the configuration of the log monitor amounts to, and the mistakes it may have. |
| `Notifier` | What the monitor does with a line: filters, text programs, targets, debouncing, reaping. Extends `MonitorConfig`. |
| `MCNotifier` | Configurations of the log monitor for TLC. |
| `Notifier_proofs` | Every line is shown to a filter once, every match is answered, and debouncing holds back what it should, proved. |
| `InitUsers` | The tables of users and groups that `10-init-users.sh` writes. |
| `ContainerInit` | `/init` and the exit script, one step per file of a stage. Extends `InitUsers`. |
| `ServiceLaunch` | Loading the settings of a service and the steps of its child up to `execve`. Extends `ContainerInit`. |
| `ContainerStart` | The composition of the three: a container from its creation to its end. |
| `MCContainerStart` | Containers for TLC. |
| `ContainerStart_proofs` | Status, order of the scripts, environment and identity of programs, and the accounts, proved. |
| `GroupDatabase` | Abstract specification of gpasswd: requests take effect at once, one after the other. |
| `Gpasswd` | Concurrent invocations of gpasswd with locks, failures and kills. Extends `GroupDatabase`. |
| `MCGpasswd` | Requests for TLC. |
| `Gpasswd_proofs` | Gpasswd implements GroupDatabase, leaves no locks, and its files agree at rest, proved. |

### How Cinit corresponds to the code

Only the main thread of cinit changes its tables, so its position is one
variable, `pc`. A label is a place where time passes or the surroundings can act:

| `pc` | Place in `cinit.c` |
|---|---|
| `up` | head of the loop of `start_services`, with the test of `do_shutdown` (`cinit.c:1419`) |
| `start` | `start_service`, entered whatever is requested after that test |
| `sync`, `sync_blocked` | before, and asleep in, `waitpid` on a synchronous service |
| `uptime`, `ready` | the two waiting loops |
| `up_done`, `up_skip` | end of the Try block, the service found up or the wait given up |
| `catch` | Catch block of `start_services` (and of `main`) |
| `loop`, `loop_some`, `loop_all` | head of the main loop; after the reaping, children left or none |
| `intervals`, `restarts`, `fifo` | the three parts of a round |
| `reap` | loop of `child_handler`; `mode` says which call it is |
| `killed` | `handle_killed` after the join, before the finish script; `ret` says who called it |
| `stop`, `term_all`, `kill_all` | `cinit_shutdown` |
| `exited`, `aborted` | exit script started; assertion failed |

`pid`, `logger_started`, `restart_requested`, `do_shutdown`, `exit_code` and
`exit_status` are the fields and variables of the same names. `proc`, `status`
and `owner` are the process table of the kernel: a pid is free, alive, termed
(alive, and SIGTERM was delivered) or a zombie with a status. Pids come from a
finite set, so they are reused as soon as they are reaped, which is the worst
case. `verdict` and `cause` are history variables; no guard reads them.

Some stretches of the main thread are one step. `start_service` is one (a label
of its own, `start`, lies between it and the test before it): a signal that
arrives while it logs, changes the directory or waits to fork again only sets the
flag, as it does right before. `FinishKilled` tests `do_shutdown` and sets it in
one step: a signal between the two (`cinit.c:1610`, `1613`) leaves the same state
as one right after them.

Abstractions. Time is not counted: `timer` says that the deadline of the wait
in progress has passed, `due[s]` that the interval or the restart delay of `s`
has. The restart delay (500 ms) is shorter than any interval (at least 1 s),
hence the disjunction in `Restarts`. A helper program (`finish`, `kill`,
`is_ready`) is assumed to end; a SIGTERM during it makes `exec_cmd` give up and
leaves it behind. Joining a logger thread is taken to be immediate (`JoinEnds` of `ServiceLogger` says that it ends). Exit codes
are a small set with 0, another code and 137. Logging is left out. A pid found
in the table by `find_service_by_pid` is the first match, as in the code.

### How the start of a container corresponds to the code

`ContainerInit`: a stage of `/init` is a loop over the sorted output of `find`, and
the list it goes through is the standard input of the loop and of the programs it
runs. `todo` is that list; a program that `reads` takes any part of what is left.
The first error ends the script with its status
(`Exit`), except for status 100 of a program in `/etc/cont-env.d`. `environ` is
the environment of pid 1; a variable whose file is not executable is its first
line. The exit script is the stage `finish`, entered by `cinit_exit`. `/init` replaces
the `PATH` it is given before anything else (`OwnPath`, `rootfs/init:12`): the one the
user has set never counts, that of `/etc/cont-env.d` is set too late, a secret wins.
`ValidNames` has none of the names that the script and its shell use for variables of
their own.

`InitUsers`: a directory of `/etc/cont-users.d` or `/etc/cont-groups.d` is a
record [dir, files]. The script is an operator that maps the directories, in an
order `find` chooses, and the environment to tables and a status `rc`, 0 or that
of the first failed command (`set -e`). Ids stay words (`7` and `07` are
different ids to the script), and `getpwnam` and `getgrnam`, which cinit uses,
turn them into numbers. Only `sort -nub` compares supplementary ids as numbers: it
passes on one word of each number, and which one depends on the build of `sort`, so
the operator has a set of outcomes. A word that is no number ends the script when its
turn comes. The elements of a list consist of digits or have none (`7x` is left out).
Passwords and the shadow files go along with the lines of
the other two and are left out.

`ServiceLaunch`: `load_service` reads one setting after the other, in the order of
`Settings`. A line is a word; the constants `Numerals` and `Octals` and the tables
of users say what words mean (`Meaning`), so that conversion, refusal and range
are those of `string_to_*`. The status of a program is tested before its output is
looked at (`Unreadable`), whatever the setting. Of what it prints, `read_lines` passes on
the lines that are not empty (`Received`); a text file is taken as it is, and lists drop
empty lines themselves (`Entries`). A program that prints no such line (`Silent`) leaves
the buffer of its caller as it was, which is any member of `Leftovers`; a list has no
buffer and is then not set (`Unset`). Lines of blanks only are left out. `GiveControl`
takes what `/init` passes to cinit and `parse_args` may refuse: the grace time and
the two ids. The child of
`fork_and_exec` is a record whose field `step` says what it does next; each step
takes on a part of the identity of the service or ends the child. What the kernel
allows a process that is not root is external.

`ContainerStart` joins the three with one service. What happens to services once
they run is the subject of `Cinit`, reduced here to the step `End`.

### How the other modules correspond to the code

`ServiceLogger` has two kinds of threads. Main starts a service on a free fd,
reaps it, logs (`log`, `write`: before and inside the section of
`g_stdout_mutex`), sets the exit flag, joins and closes, as `handle_killed` does.
A logger thread goes through `read_lines`: `poll`, `read`, `lines` (one callback
at a time), `flush` (the buffer is full, or the output over), `check` (end of an
iteration). `pty` is what the terminal holds; chunks are numbered modulo `M`, so
that a service can write for ever in a finite state space. Only the end of the
output and the exit flag end a thread in the model; errors of `poll` and `read`
do not occur. The build keeps one stream per service
(`SINGLE_CHILD_STDOUT_STDERR_STREAM` in `src/cinit/Makefile`). A callback is one
step that needs the mutex to be free.

`LogMonitor` follows the loop of `main` for one file: `stat`, `open` (is the open
file still the one of that name), `changed` (status files), `fit` (`fstat` and
`lseek`), `read`, `lines` (one level of the recursion of `handle_read`). Files
are inodes; an inode number is reused as soon as it has neither a name nor an
open fd. `handled` records the lines `handle_line` gets; what it does with them
is the subject of `Notifier`. The 5 seconds between two looks at a status file are a wait
of any length. Empty lines, which the code drops, are not represented.

`MonitorConfig` says what the directories of targets and notifications contain,
file by file as far as the code tells contents apart, and which of them the code
accepts (`Valid`: `alloc_target`, `alloc_notification`, `create_context` and the
checks of `main`). `Notifier` builds the table of monitored files (`Setup`) or
fails, and then takes lines, which it only counts, file
by file. `notify`, `filter`, `text`, `program`, `target` and `stamp` are the
stations of `handle_line`; `filter` and `program` wait in `invoke_exec` for the
process `helper`, whose end is a step of its own. The programs that send are not
waited for and reaped at the end of a round. The clock advances between any two
steps and is read in whole seconds, once to decide and once more to remember.
Its first reading is not 0: a time of 0 in `last_notif_sent` means never. What
the text programs print is left out.

In `ServiceLoader` a table limit is part of the tree (`limit`). A value that cannot be read as a boolean is not among the
contents of a `.dep` file, and a service that cannot be loaded for whatever
reason is `broken`; `ServiceLaunch` says what the reasons are.

`Gpasswd` follows `run` of `gpasswd.rs`: lock, read, write and unlock
`/etc/group`, then the same for `/etc/gshadow` if there is one. An invocation
works on a copy (`entries`). `Fail` is an error on the way, where the lock is
dropped with the guard that holds it; `Kill` is SIGKILL, the one signal that the
code cannot block. The lock files, including that a lock whose holder is dead may
be taken over, and the replacement of a file in one step belong to
`shadow-core`, which is not in the repository. `seen`, `groupLog` and
`gshadowLog` are histories; `GroupDatabase` is stated in terms of them.

## The runs

| Run | Shows | Bounds |
|---|---|---|
| `operation` | tables, exit status, reverse order, idle shutdown, refinement | 3 tables of 2 services (restarted, respawned, at an interval, a group), 3 pids, 3 codes, 1 signal, 1 orphan or left-over helper, 1 waiting command |
| `bringup` | start order, exit status, SIGTERM before SIGKILL when chdir, fork or pthread_create fail | 2 services in 17 configurations, 2 pids, 2 codes, 1 signal, 1 command without a name |
| `live` | a shutdown ends, respawn happens, restarts are served, zombies reaped | 1 service (an application or a respawned one), 2 pids, 1 orphan, 1 signal |
| `loader_graphs` | order, dependencies, termination, table limit | 4 names, up to 4 `.dep` files, one of them false, one service disabled or broken, a table that is large enough or one too small |
| `logger_threads` | output is neither lost nor mixed, the join ends | 1 service started for ever, 2 fds, 2 processes on its terminal, terminal and buffer of 2 chunks, numbers modulo 5, 1 signal |
| `monitor_files` | lines whole, once, in order, and handled at last, except in a status file that is rewritten to the same size within the second of its last change | a log or a status file, 2 inodes, 3 chunks, 1 truncation or replacement, a removal, 2 seconds |
| `notifier_lines` | each filter sees each line once, a match is sent or held back for a reason, senders are reaped | 4 valid configurations with 2 notifications and 2 targets, 19 with one mistake each, 2 files, 2 lines, 3 seconds of 2 ticks |
| `startup` | a program has the environment and the identity its files ask for; users and groups are as defined; init scripts come first; the status is kept | 3983 containers in six families, each of which varies one aspect of a plain container |
| `gpasswd_members` | no update is lost, the files agree, locks are released, refinement | 3 invocations, each with any of 6 requests, 3 users of whom one is unknown, any failure or kill |
| `loader_v_declared`, `logger_v_mutex`, `startup_v_scripts` | what the code does differently | see below |

Two services are enough for each relation the properties of Cinit speak of: they
are about one service, or about the order of two. Two pids let a pid be reused at
once, the third lets an orphan live beside both services. One signal is enough:
the handler is idempotent, and each further one can only interrupt another
helper program. Runs that use `SYMMETRY` permute pids or invocations, which no
definition tells apart; none of them checks liveness. `CHECK_DEADLOCK FALSE`
appears because the program ends (`exited`, `aborted`, `loaded`, `failed`, an
invocation of gpasswd, a container) or because
the monitor and a thread wait in `poll` without a step of their own.

`live` has one service because with two services and two pids an orphan may hold
the only free pid for ever, and no restart can be served; with three pids the
state space is too large for liveness. The order of two services during shutdown
is a safety property and checked by `operation`. One service is enough for
`logger_threads`: loggers share nothing but the mutex and the fd numbers, and a
service that is started again gets the number of its predecessor. The terminal
and the buffer of two chunks are the smallest in which a line can be complete,
cut, or as long as the buffer. In `monitor_files` a single change suffices for
reuse of an inode number, after a removal. Two seconds let a change fall into
the second of the one before or into the next; what the code does depends on nothing
else. A file that looks, after a change, as it did when it was read last
is recorded in `overlooked`, a history no guard reads, until it is read again:
`StandingHandled` excepts exactly this case, and fails without the exception. Two lines suffice for `notifier_lines`
because debouncing compares a match with the one before; two ticks in a second
make an interval end within one.

The families of `startup`: where variables come from (user, `/etc/cont-env.d`,
secrets, the two settings of a service), init and exit scripts, every setting
with every kind of file and of word (programs that fail with and without output,
that print only empty lines or begin with one, lists longer than the limit), the identity for a cinit that is root or
not, users and groups with and without contradictions (among them supplementary ids
that are two words for one number, `7,07`), and containers without the
script for users. The aspects do not interact in the code except through
`environ` and the tables of accounts, and the last families vary those together with
what reads them. Three invocations of gpasswd are the least for which a third one
can run between the two files of another, with a second one waiting for the lock.

`TypeOK` of `Cinit` is part of `operation`. Those of `ServiceLoader` and
`Gpasswd` are conjuncts of the invariants that are proved, and the shape of
`ServiceLogger`'s state is as well; that of `LogMonitor` is a theorem; those of the other
modules document the types and are in no run.

### Fairness

* `WF_vars(Main)`: the kernel runs the main thread.
* `WF_vars(Timeout)`, `WF_vars(Due(s))`: time passes.
* `SF_vars(PeriodOver)`: the inner loop of `child_handler` does not look at its
  deadline while there are zombies; it is assumed that processes do not die for
  ever as fast as they are reaped.
* `SF_vars(ReapZombie(p))`: `waitpid(-1)` does not overlook one zombie for ever.
* `WF_vars(mode = "forever" /\ p \in Strays /\ Die(p))`: what is alive after
  `kill(-1, SIGKILL)` can only be a finish script whose wait a signal
  interrupted; such scripts end, as the ones that are waited for do.
* `Cooperative` (premise of `RestartServed` alone): a service that got SIGTERM
  ends. `ShutdownCompletes` is checked without it: services that ignore SIGTERM
  are killed.
* `ServiceLogger`: both threads are scheduled, and a thread that waits for a
  mutex that is free again and again gets it (strong fairness of `Lock`, `Lines`
  and `Flush`).
* `LogMonitor`: `WF_vars(Monitor)`, the monitor is scheduled and its sleep ends.
* `Notifier`: the same, and `WF_vars(HelperEnds)`: filters and text programs end
  (the code waits for them without a limit).
* `ServiceLoader`: loading goes on until it ends (`Terminates`).

### Where the code differs from what is said of it

| Run | Statement | What the code does |
|---|---|---|
| `loader_v_declared` | "`srvB.dep` means `srvB` must start first" (`README.md:473`) | `.dep` files are read relative to the directory of the last loaded service. |
| `logger_v_mutex` | The shutdown sequence (`README.md:234`) | A SIGTERM while main is inside `log_stdout`: its handler logs as well and waits for the mutex that main holds. |
| `startup_v_scripts` | The scripts of `/etc/cont-init.d` are "executed before starting services" (`README.md:420`) | A script that reads its standard input takes the names of those after it, which are skipped without a message. |

The models show some more, for which there is no run of their own.

Supervisor. `kill(pid, 0)` succeeds on a zombie, so the branch "Service died, stop
waiting" (`cinit.c:1502`) is not reached: a dead service is waited for until the
timeout, or taken for ready. A SIGTERM between the test of `do_shutdown`
(`cinit.c:1430`) and `waitpid` on a synchronous service is noticed only when that
service ends. A service with `shutdown_on_terminate` that fails during bring-up
ends the container with 1 and not with its code (`cinit.c:1615`, `2044`). A
restart command starts a disabled service (`README.md:472`), whose child fails, and
a group, which `cinit_shutdown` passes over. The command `restart:` without a
name fails the assertion of `find_service` (`cinit.c:132`, `573`). A restart
request outlives a start by the interval loop and starts the service once more
(`cinit.c:2114`). `interval * 1000` has 32 bits (`cinit.c:2083`): an interval above
4294967 s wraps, and a `yearly` service runs about every 17 days.

Values. A program that succeeds and prints nothing, or only empty lines, which
`read_lines` drops (`utils.c:375`), leaves the buffer on the stack as it was
(`utils.c:59`, `678`), where `README.md` says that an empty file indicates a true
value: a service whose `disabled` is such a program may run. The usage text of `-s` (`cinit.c:1899`) says that the
default groups apply when a service has none of its own, and `load_service` adds
those of the service to them (`cinit.c:923`; `/init` passes no default groups). A
failure of `parse_args`, such as a `SERVICES_GRACETIME` that is no number, ends
the container without the exit script.
`environment_extra` cannot override a variable that is inherited: both are passed
to `execve`, and the first is found.

Init. A file of `/etc/cont-env.d` named like a variable of the script itself is
taken to be set already. The message about a secret with a bad name uses the
variable of the previous stage, an error of its own under `set -u`. In
`10-init-users.sh`, the pattern of `user_name_valid` looks at the first two
characters only: names of one letter are refused, and the empty one is not. A
defined group called `app` gets members without a comma between them (`bobapp`),
and `getgrnam` finds it before the group of the application. `USER_ID` and
`GROUP_ID` are not validated there, ids are compared as text, and
`SUP_GROUP_IDS_INTERNAL_*` (`README.md:298`) is read by
`rootfs/defaults/service/sgid` but not by this script.

Log monitor. Text without a final newline is kept across a rotation, a truncation
or a refresh and joined to what comes then (`logmonitor.c:677`). A log that is
truncated and grows beyond the old offset between two looks loses its first text;
a status file rewritten with the same size in the same second is not noticed
(`logmonitor.c:1528`, the exception in `StandingHandled`). The
"minimum interval (in seconds)" of `README.md:765` may be short by up to a second,
because times are cut to seconds before they are subtracted (`logmonitor.c:638`;
`Debounced` states what holds), a send that could not be forked counts as sent,
and a target that is listed twice and has no debouncing is notified twice.

## The proofs

The theorems hold for every value of the constants that satisfies the assumptions
of the module: any number of services, pids, fds, names, invocations, codes,
signals and commands, any set of tables the loader accepts, any set of failing
calls (with one exception, named below).

1. `TypeCorrect`, `ControlCorrect` (`Cinit_proofs`). `TypeOK` is not inductive:
   the shutdown indexes the start order with a counter it decrements, and
   `handle_killed` returns to where `ret` says. `Typing == TypeOK /\ Control`
   is. One lemma per action.
2. `PidOwnedCorrect`, `LoggerCorrect`, `ExitCorrect` (`Cinit_proofs`). The
   invariant `Inv` adds that no free pid is remembered as some service's, which
   makes `PidOwned` inductive when pids are reused, and that once `waitpid` has
   failed with ECHILD there is no child until main forks again. Actions are
   grouped by what they do to the process table.
3. `Refinement` (`Cinit_proofs`): `Spec => Abstract!Spec`. Initial
   states map to initial states, and under `Inv` every step maps to a step of
   `Supervisor` or to a stutter. The mapping says which service is chosen:
   the one at hand while main is at `start`. A request that arrives there asks
   for the stop and leaves the choice, so the abstract supervisor may still start this
   service, and only this one. `Inv` is needed twice: the exit needs every
   entry empty, and so does the shutdown of an idle supervisor.
4. `ExitStatusCorrect`, `IdleCorrect`, `TermBeforeKillCorrect`,
   `StoppedInReverseCorrect` (`CinitOrder_proofs`). `Ends` says that
   `exit_code` is that of `cause`, that the status is settled when main leaves the
   loop, and that an idle supervisor stops; idleness rests on `PidOwned` and on
   ECHILD. For the order, `AllTold` says which services have been told to end and
   `StoppedSoFar` relates them to the counter of `cinit_shutdown`: a service that
   was told stays told, since its pid remains its own and nothing is started
   during a shutdown. `StoppedInReverseCorrect` assumes `"chdir" \notin Faults`:
   a service whose directory is gone is not told before everybody is.
5. `StartOrderCorrect` (`CinitOrder_proofs`). The property says nothing about
   requests to stop, which are the matter of 3. `Progress` and `Completed` say what
   the services before the one at hand have done. They are about positions; the
   property is about services, so it needs that the start order lists each
   service once, which follows from its length by counting.
6. `OrderOfTableCorrect`, `StackIsSuffixCorrect`, `FollowedFirstCorrect`
   (`ServiceLoader_proofs`). The invariant joins the types, the first two properties
   and `Calling` (the frames of the stack are services under way, each called by the
   one below). Lemmas say what inserting a service into the start order keeps. For
   the dependencies, `FollowedSoFar` says that each one followed is before its
   dependent, unless it leads back to it or its call is about to be made. A service
   that is found on the stack does lead back: by `StackIsChain` every frame was
   called along a dependency that was followed, the stack holds no service twice and
   so at most `Cardinality(Names)` of them (`StackFits`), and where a chain of that
   many dependencies leads lies in `Closure` (`ClosureIsClosed`). `Names` is finite
   (`LoaderAssumption`), as a directory is.
7. `OwnOutputCorrect`, `OneLoggerCorrect` (`ServiceLogger_proofs`). A thread
   keeps the fd it got when it began, so the argument is about what main does to
   `open` meanwhile. The invariant adds that every entry with an fd owns it
   (hence no two services share one), that main works only on a service it has
   reaped, and that it closes only when there is no thread: `Close` and `Start`
   then leave the fd of every running thread alone.
8. `NothingLostCorrect`, `LinesAreWholeCorrect` (`ServiceLogger_proofs`). `Piece`
   says for each position of a thread what its buffer and the terminal hold: a
   `Stream` of chunks from the next to be logged to the next to be written, no end
   of a line left behind after `lines`, nothing left once the end has been seen.
   That a thread reads its own service's terminal comes from 7. The lemmas about
   `Stream` do the arithmetic modulo `M`, which needs that `M` exceeds what the
   buffer and the terminal hold together.
9. `GpTyped`, `GpLocksReleased`, `GpImplementsDatabase`, `GpAgreeAtRest`
   (`Gpasswd_proofs`). Between
   reading and writing a file an invocation holds its lock, no other one is there,
   and its copy is what its request makes of the file as it is: the file written
   is then the one a request at that moment would give. A kill leaves the lock to
   an invocation that is never again between the two. Agreement is about histories:
   of each user, `GroupHistory` says that membership is what the last request that
   decides about the user asked for, or what it was at the beginning, and
   `GshadowHistory` says the same of the other file. When all have succeeded both
   logs hold every invocation once; two that decide differently about a user are in
   conflict, so they are in the same order in both, and the last that decides is of
   one mind in both. There is at least one invocation (`ProcAssumption`); without any,
   the files are those the container came with, which need not agree.
10. `StatusKeptCorrect`, `InitializedFirstCorrect`, `EnvironmentDeliveredCorrect`,
   `IdentityAsAskedCorrect`, `OnlyEnabledRunCorrect` (`ContainerStart_proofs`). The
   properties speak of the end of a long sequence of steps, so each needs to know
   how far it has come. `Loops` says that `todo` is the rest of the list of a stage,
   `Phases` which positions of `/init` and of the service go together. On these
   rest `ScriptsSoFar` (the scripts that ran are the executable ones among the files
   dealt with), `EnvironSoFar` (a variable has the value that the files dealt with
   give it, by precedence), `EntrySoFar` (the settings read could be read and mean what
   their files say, the others are still the defaults), `ContextSoFar` and `ChildSoFar` (the child
   has taken on what lies before its step, and is cinit's copy in the rest). Two
   assumptions: a directory is finite and lists its files in order, those of
   `/etc/cont-env.d` and of the secrets under different names
   (`ConfigurationsAssumption`), and numerals mean integers (`NumeralsAssumption`). The properties have premises, because the code
   does not keep them otherwise: a program of `/etc/cont-env.d` that reads its standard
   input takes the names of the next files (`ListUntouched`), and a setting whose
   program prints no line but empty ones gets what lies on the stack (`Printed`).
   `OnlyEnabledRun` also says that no program runs with a setting that could not be
   read, so that "not given" in the other two is never an error that went unnoticed.
11. `AccountsAsDefinedCorrect` (`ContainerStart_proofs`). The property describes the
   tables as sets; the script makes them line by line, in an order that `find`
   chooses. Each of its four loops has an invariant about the set of elements gone
   through, whatever their order: `GroupsSoFar`, `ListedSoFar` (the groups of one
   user), `UsersSoFar`, `IdsSoFar` (the supplementary groups of app). An invariant
   has two halves: the script has not failed exactly if what it has gone through is
   sound, and then the lines are those asked for. So an error is never missed, nor
   raised for an order rather than for a contradiction. A loop is a fold; `EachRound`
   and `FoldRounds` give its rounds, an order of a set has each element once
   (`OrderIs`), and `SortNubIs` says that what `sort -nub` passes on is one of
   `OnePerNumber`. A line of a group is found by its name or by its id: that names stay
   unique is part of `Tables`, and an id that app shares with another group leads to the
   first line only, which is why the primary group of app must not be among its
   supplementary ones. `AccountsSoFar` carries the outcome from the script to the end.
   Assumptions: the lists a container may be given have elements, finitely many
   (`ListVariablesAssumption`, `ListsAssumption`), and the names `grp7`, `grp8`, ... of
   new groups differ from each other and from `app` (`GroupNamesAssumption`, a fact about
   strings that the provers do not know and TLC evaluates). Premise: no directory
   defines a user or a group called `app`.
12. `InOrderOnceCorrect`, `LinesOfFileCorrect`, `TypeCorrect` (`LogMonitor_proofs`).
   Order is about the future: what can still be read must be newer than what has
   been. `NewerAhead` says so of the open file behind its offset (of all of it, once
   it has shrunk) and of the file that has got its name; it is inductive only
   because that file is also newer than all of the open one. `LinesInOrder` and
   `Newest` say the same of the lines handled and of the chunks to be written. For a
   file that is only appended to, `Faithful` adds that the chunks taken are exactly those
   between `start` and the offset. Lemmas say what `handle_read` does to a text: the
   first end of a line, the line and the rest, and that line and rest are the text.
   There is a first end by the least-number principle, proved from
   `WellFoundedInduction` for finite sets ordered by inclusion.
13. `MatchAnsweredCorrect`, `DebouncedCorrect`, `OncePerLineCorrect`
   (`Notifier_proofs`). `Progress` says
   that the notifications before the one in hand are done with, and so are its
   targets; `Answers` that an answer names a time that was less than the interval
   ago; `Times` that what the code remembers in whole seconds is the time of the
   last notification cut to the second, and 0 only before the first one. The
   property allows `(interval - 1)` seconds, which is what two cut times tell apart.
   `Counted` says of each monitored file and each notification that lists it that what
   has appeared is what the filter was asked about and what it has still to be asked
   about, the line in hand included. This needs that the table has every listed file,
   and has it once: `MonitoredIs`. The table is a fold over a concatenation, recursive
   functions both; that they exist, and what they contain, is shown by taking the first
   position where it would fail (`LeastNat`).

Only model-checked: all liveness properties. They need fairness, which is out of the
prover's reach. Every safety property of a passing run is the subject of a theorem.

## Plan

Done so far: the supervisor with its abstract specification, the loader, the
logger, the log monitor, the start of a container, gpasswd, and the proofs listed
above. What is left, in this order:

1. Composition of supervisor and logger over one service's life, in place of the
   immediate join.
2. Time in `Cinit`, in the widths of the code, instead of events.

## Not modelled

* Package helpers (`add-pkg`, `del-pkg`): they run the package managers of three
  distributions, whose effect is outside of the repository.
* `take-ownership`, image build, Dockerfiles, tests: no state that lasts, nothing
  concurrent.
* How text is cut into words and words into numbers (`utils.c`, `log.c`), the
  exception mechanism of `CException.c`, resource limits, the format of log lines
  and the tables of shadow passwords. They are sequential, touch no state that the
  programs above share, and are better tested.
