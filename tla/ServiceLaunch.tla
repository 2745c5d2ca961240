---------------------------- MODULE ServiceLaunch ----------------------------
(***************************************************************************)
(* From the directory of a service to its process (src/cinit/cinit.c,      *)
(* src/cinit/utils.c): parse_args takes the defaults from the environment  *)
(* of the container, load_service reads the settings one after the other,  *)
(* and the child that start_service forks takes on the identity of the     *)
(* service step by step before it executes its program.                    *)
(*                                                                         *)
(* A file is a sequence of lines, and a line of most settings is a word    *)
(* whose meaning the constants give.  What the kernel allows is external.  *)
(***************************************************************************)
EXTENDS ContainerInit, Integers

CONSTANTS
  Octals,      \* what words mean as octal numbers
  Leftovers,   \* lines that a buffer on the stack may hold
  MaxItems,    \* of a list: parameters, variables, groups
  MayFail      \* fork, chdir and execve may fail

VARIABLES
  dir,         \* the files of the service (never changes)
  privileged,  \* cinit runs as root (never changes)
  context,     \* g_ctx: the defaults of cinit
  pc,          \* where loading and launching the service are
  next,        \* the setting to load next
  entry,       \* the service in the table of cinit
  proc         \* the child, and what it has taken on so far

launchVars == <<dir, privileged, context, pc, next, entry, proc>>

PC == {"none", "load disabled", "check run", "load", "validate", "unloaded", "nothing to run",
       "loaded", "child", "running", "failed", "not started", "gone"}

NoProc == [step |-> "none"]

LaunchInit(d, root) ==
  /\ dir = d /\ privileged = root
  /\ context = [uid |-> 1000, gid |-> 1000, ready_timeout |-> 10000]
  /\ pc = "none" /\ next = 1
  /\ entry = << >> /\ proc = NoProc

-----------------------------------------------------------------------------
(* Values (utils.c). *)

BoolWords == [w \in {"", "yes", "no"} |-> w # "no"]
IntervalWords == [w \in {"yearly", "daily"} |-> IF w = "yearly" THEN 31536000 ELSE 86400]

Union(f, g) == [w \in DOMAIN f \cup DOMAIN g |-> IF w \in DOMAIN f THEN f[w] ELSE g[w]]
AtLeast0(f) == [w \in {v \in DOMAIN f : f[v] >= 0} |-> f[w]]

\* string_to_bool, _int, _uint, _interval, _uid, _gid and _mode: what each word
\* means.  A word they refuse is not in the domain.
Meaning(type) ==
  CASE type = "bool" -> BoolWords
    [] type = "int" -> Numerals
    [] type = "uint" -> AtLeast0(Numerals)
    [] type = "interval" -> Union(IntervalWords, AtLeast0(Numerals))
    [] type = "uid" -> Union(AtLeast0(Numerals), UserNumbers(accounts))
    [] type = "gid" -> Union(AtLeast0(Numerals), GroupNumbers(accounts))
    [] type = "mode" -> [w \in {v \in DOMAIN Octals : Octals[v] \in 0..511} |-> Octals[w]]

\* The settings, in the order in which load_service reads them.
Settings == <<"disabled", "params", "environment", "environment_extra", "uid", "gid", "sgid",
              "umask", "priority", "workdir", "respawn", "sync", "ignore_failure",
              "shutdown_on_terminate", "min_running_time", "ready_timeout", "interval">>

Type(s) ==
  CASE s \in {"disabled", "respawn", "sync", "ignore_failure", "shutdown_on_terminate"} -> "bool"
    [] s \in {"min_running_time", "ready_timeout"} -> "uint"
    [] s \in {"uid", "gid"} -> s
    [] s = "umask" -> "mode"
    [] s = "priority" -> "int"
    [] s = "interval" -> "interval"
    [] s = "workdir" -> "text"
    [] OTHER -> "list"

\* The lines that are not empty.  (Variables are records: none of them is empty.)
Entries(s, lines) ==
  IF s \in {"environment", "environment_extra"}
  THEN lines ELSE SelectSeq(lines, LAMBDA line : line # "")

\* load_value_as_string: a file as it is, and of a program the lines that read_lines
\* passes on.  It has the status of the program tested before it looks at these.
Received(s) == IF dir[s].exec THEN Entries(s, dir[s].lines) ELSE dir[s].lines
Silent(s) == dir[s].exec /\ Received(s) = << >>
Unreadable(s) == dir[s].big \/ (dir[s].exec /\ dir[s].rc # 0)

\* A program that prints no such line leaves the buffer of its caller as it is: a list
\* has none and is then not set, that of "workdir" is empty, the others hold leftovers.
Unset(s) == s \in DOMAIN dir => ~Unreadable(s) /\ Silent(s) /\ Type(s) = "list"
LinesOf(s, leftover) == IF Silent(s) /\ Type(s) \notin {"list", "text"} THEN leftover ELSE Received(s)

FirstLine(lines) == IF lines = << >> THEN "" ELSE lines[1]

-----------------------------------------------------------------------------
(* load_service. *)

Groups(words) == [i \in DOMAIN words |-> Meaning("gid")[words[i]]]

GoodLine(s, line) ==
  CASE s \in {"environment", "environment_extra"} -> line.var \in ValidNames
    [] s = "sgid" -> line \in DOMAIN Meaning("gid")
    [] OTHER -> TRUE

\* split and trim drop the empty lines of a list before it is counted.
Convertible(s, lines) ==
  CASE Type(s) = "list" ->
         /\ Len(Entries(s, lines)) <= MaxItems
         /\ \A i \in DOMAIN Entries(s, lines) : GoodLine(s, Entries(s, lines)[i])
    [] Type(s) = "text" -> TRUE
    [] OTHER -> FirstLine(lines) \in DOMAIN Meaning(Type(s))

Converted(s, lines) ==
  CASE s = "params" -> Entries(s, lines)
    [] s = "environment" -> [given |-> TRUE, vars |-> lines]
    [] s = "environment_extra" -> lines
    [] s = "sgid" -> Groups(Entries(s, lines))
    [] Type(s) = "text" -> FirstLine(lines)
    [] OTHER -> Meaning(Type(s))[FirstLine(lines)]

NewEntry ==
  [s \in {Settings[i] : i \in DOMAIN Settings} |->
     CASE s \in {"uid", "gid", "ready_timeout"} -> context[s]
       [] s = "umask" -> 18
       [] s = "min_running_time" -> 500
       [] s = "environment" -> [given |-> FALSE, vars |-> << >>]
       [] s = "workdir" -> ""
       [] Type(s) = "bool" -> FALSE
       [] Type(s) = "list" /\ s # "environment" -> << >>
       [] OTHER -> 0]

\* The table entry is released (unload_service).
Unload == pc' = "unloaded" /\ entry' = << >> /\ UNCHANGED <<next, proc>>

\* A group has no program, and neither has a service that is disabled as far as
\* cinit is concerned.  (Mutant: disabled services have one.)
NothingToRunGroup(e) == "run" \notin DOMAIN dir
NothingToRun(e) == "run" \in DOMAIN dir => e.disabled

AfterSetting ==
  IF next = 1 THEN "check run" ELSE IF next = Len(Settings) THEN "validate" ELSE "load"

LoadSetting ==
  /\ pc \in {"load disabled", "load"}
  /\ LET s == Settings[next] IN
     \/ /\ Unset(s)
        /\ pc' = AfterSetting /\ next' = next + 1
        /\ UNCHANGED <<entry, proc>>
     \/ /\ ~Unset(s)
        /\ \E leftover \in Leftovers :
             LET lines == LinesOf(s, leftover) IN
             \/ /\ ~Unreadable(s) /\ Convertible(s, lines)
                /\ entry' = [entry EXCEPT ![s] = Converted(s, lines)]
                /\ pc' = AfterSetting /\ next' = next + 1
                /\ UNCHANGED proc
             \/ /\ Unreadable(s) \/ ~Convertible(s, lines)
                /\ Unload
  /\ UNCHANGED <<dir, privileged, context>>

CheckRun ==
  /\ pc = "check run"
  /\ \/ /\ NothingToRun(entry)
        /\ pc' = "nothing to run"
        /\ UNCHANGED <<next, entry, proc>>
     \/ /\ ~NothingToRun(entry) /\ dir.run.exec
        /\ pc' = "load"
        /\ UNCHANGED <<next, entry, proc>>
     \/ /\ ~NothingToRun(entry) /\ ~dir.run.exec
        /\ Unload
  /\ UNCHANGED <<dir, privileged, context>>

Validate ==
  /\ pc = "validate"
  /\ \/ /\ entry.respawn /\ (entry.sync \/ entry.interval > 0)
        /\ Unload
     \/ /\ ~(entry.respawn /\ (entry.sync \/ entry.interval > 0))
        /\ entry' = [entry EXCEPT !.ready_timeout = IF @ >= context.ready_timeout
                                                    THEN @ ELSE context.ready_timeout]
        /\ pc' = "loaded"
        /\ UNCHANGED <<next, proc>>
  /\ UNCHANGED <<dir, privileged, context>>

-----------------------------------------------------------------------------
(* start_service and fork_and_exec. *)

\* The child starts as a copy of cinit.
CopyOfCinit == [step |-> "arguments", uid |-> IF privileged THEN 0 ELSE 1000,
                gid |-> IF privileged THEN 0 ELSE 1000, groups |-> <<0>>, priority |-> 0,
                umask |-> 18, workdir |-> "", params |-> << >>,
                env |-> [inherited |-> environ, listed |-> << >>]]

Fork ==
  /\ pc = "loaded"
  /\ \/ pc' = "child" /\ proc' = CopyOfCinit
     \/ MayFail /\ pc' = "not started" /\ UNCHANGED proc
  /\ UNCHANGED <<dir, privileged, context, next, entry>>

\* A restart command also finds groups and disabled services, and starts them.
RestartCommand ==
  /\ pc = "nothing to run"
  /\ pc' = "child" /\ proc' = CopyOfCinit
  /\ UNCHANGED <<dir, privileged, context, next, entry>>

At(step) == pc = "child" /\ proc.step = step

\* A step of the child succeeds, or ends it with 50 or 126.
Done(to, with) == proc' = [with EXCEPT !.step = to] /\ UNCHANGED pc
ChildFails == pc' = "failed" /\ UNCHANGED proc

ChildStep == UNCHANGED <<dir, privileged, context, next, entry>>

\* What execve is given: only what "environment" lists, also when it is empty, or
\* what cinit has, followed by what "environment_extra" lists.
Environment ==
  IF entry.environment.given THEN [inherited |-> << >>, listed |-> entry.environment.vars]
                             ELSE [inherited |-> environ, listed |-> entry.environment_extra]

\* There is no program to run for groups and disabled services.
SetArguments ==
  /\ At("arguments")
  /\ \/ NothingToRun(entry) /\ ChildFails
     \/ /\ ~NothingToRun(entry)
        /\ Done("priority", [proc EXCEPT !.params = entry.params, !.env = Environment])
  /\ ChildStep

SetPriority ==
  /\ At("priority")
  /\ IF entry.priority < 0 /\ proc.uid # 0
     THEN ChildFails
     ELSE Done("umask", IF entry.priority # 0 THEN [proc EXCEPT !.priority = entry.priority] ELSE proc)
  /\ ChildStep

SetUmask ==
  /\ At("umask")
  /\ Done("groups", [proc EXCEPT !.umask = entry.umask])
  /\ ChildStep

\* (Mutant: the groups of cinit are kept.)
ServiceGroupsKept(p) == p
ServiceGroups(p) == [p EXCEPT !.groups = entry.sgid]

SetGroups ==
  /\ At("groups")
  /\ IF proc.uid = 0 THEN Done("gid", ServiceGroups(proc)) ELSE ChildFails
  /\ ChildStep

\* Ids are unsigned: 0 leaves the id as it is.
SetGid ==
  /\ At("gid")
  /\ IF proc.uid # 0 /\ entry.gid \notin {0, proc.gid}
     THEN ChildFails
     ELSE Done("uid", IF entry.gid # 0 THEN [proc EXCEPT !.gid = entry.gid] ELSE proc)
  /\ ChildStep

SetUid ==
  /\ At("uid")
  /\ IF proc.uid # 0 /\ entry.uid \notin {0, proc.uid}
     THEN ChildFails
     ELSE Done("workdir", IF entry.uid # 0 THEN [proc EXCEPT !.uid = entry.uid] ELSE proc)
  /\ ChildStep

\* The child is in the directory of the service.
ChangeDirectory ==
  /\ At("workdir")
  /\ \/ Done("exec", IF entry.workdir # "" THEN [proc EXCEPT !.workdir = entry.workdir] ELSE proc)
     \/ MayFail /\ entry.workdir # "" /\ ChildFails
  /\ ChildStep

Execute ==
  /\ At("exec")
  /\ \/ pc' = "running" /\ UNCHANGED proc
     \/ MayFail /\ ChildFails
  /\ ChildStep

LaunchStep ==
  \/ LoadSetting \/ CheckRun \/ Validate \/ Fork \/ RestartCommand
  \/ SetArguments \/ SetPriority \/ SetUmask \/ SetGroups \/ SetGid \/ SetUid
  \/ ChangeDirectory \/ Execute

-----------------------------------------------------------------------------
(* main of cinit, until it loads the first service. *)

AreIds == environ["USER_ID"] \in DOMAIN Meaning("uid") /\ environ["GROUP_ID"] \in DOMAIN Meaning("gid")
IsGracetime ==
  "SERVICES_GRACETIME" \in DOMAIN environ =>
    environ["SERVICES_GRACETIME"] \in DOMAIN Meaning("uint") \cup {""}

\* /init passes on the grace time, if it is not empty, and the ids of the user,
\* parse_args converts them.
GiveControl ==
  /\ stage = "init"
  /\ \/ /\ ~({"USER_ID", "GROUP_ID"} \subseteq DOMAIN environ)
        /\ Exit(2)
        /\ UNCHANGED <<context, pc, entry>>
     \/ /\ {"USER_ID", "GROUP_ID"} \subseteq DOMAIN environ
        /\ ~(IsGracetime /\ AreIds)
        /\ Exit(1)
        /\ UNCHANGED <<context, pc, entry>>
     \/ /\ {"USER_ID", "GROUP_ID"} \subseteq DOMAIN environ
        /\ IsGracetime /\ AreIds
        /\ context' = [context EXCEPT !.uid = Meaning("uid")[environ["USER_ID"]],
                                       !.gid = Meaning("gid")[environ["GROUP_ID"]]]
        /\ stage' = "supervisor"
        /\ pc' = "load disabled"
        /\ entry' = NewEntry'
        /\ UNCHANGED <<todo, environ, status>>
  /\ UNCHANGED <<image, accounts, ran, finished, dir, privileged, next, proc>>

LaunchTypeOK ==
  /\ pc \in PC /\ next \in 1..(Len(Settings) + 1)
  /\ pc = "child" => proc.step \in {"arguments", "priority", "umask", "groups", "gid", "uid",
                                     "workdir", "exec"}
=============================================================================
