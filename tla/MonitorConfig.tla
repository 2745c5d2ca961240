---------------------------- MODULE MonitorConfig ----------------------------
(***************************************************************************)
(* The configuration of the log monitor: what alloc_target,                *)
(* alloc_notification and create_context (src/logmonitor/logmonitor.c)     *)
(* make of the directories targets.d and notifications.d.  One mistake     *)
(* anywhere, and the monitor does not start.                               *)
(***************************************************************************)
EXTENDS Integers, Sequences, SequencesExt, FiniteSets, FiniteSetsExt

CONSTANTS
  Paths,      \* absolute paths
  Configs,    \* the configurations considered
  INT_MAX, MAX_NUM_TARGETS, MAX_NUM_NOTIFICATIONS, MAX_NUM_MONITORED_FILES_PER_NOTIFICATION

\* A file that should be a program; a file that may be one, or else is read up
\* to the end of its first line.
Executable == {"missing", "not executable", "program"}
Levels == {"ERROR", "WARNING", "INFO"}
TextFile == {"missing", "unreadable", "empty", "program", "text"} \cup Levels

\* The first line of `debouncing', if there is one: a number or not.
DebouncingFile == {<< >>, <<"text">>} \cup ({"number"} \X Int)

TargetDir == [name : STRING, send : Executable, debouncing : DebouncingFile]

\* The lines of `source' and `target', the empty ones left out; a missing file
\* has none.  A path that is not in Paths is not absolute; a list of targets
\* that cannot be read is as wrong as an unknown name.
NotificationDir(paths, names) ==
  [filter : Executable, title : TextFile, desc : TextFile, level : TextFile,
   source : Seq([path : paths, status : BOOLEAN]), target : Seq(names)]

\* Both directories, in the order they are read.
ASSUME ConfigAssumption ==
  /\ {INT_MAX, MAX_NUM_TARGETS, MAX_NUM_NOTIFICATIONS,
      MAX_NUM_MONITORED_FILES_PER_NOTIFICATION} \subseteq Nat \ {0}
  /\ \A c \in Configs :
       /\ c.targets \in Seq(TargetDir) /\ c.notifications \in Seq(NotificationDir(STRING, STRING))
       /\ \A i, j \in DOMAIN c.targets : c.targets[i].name = c.targets[j].name => i = j

-----------------------------------------------------------------------------
\* In seconds; 0: send only once; -1: none.
Debouncing(t) == IF t.debouncing = << >> THEN -1 ELSE t.debouncing[2]

\* alloc_target
TargetLoads(t) ==
  /\ t.send = "program"
  /\ t.debouncing # << >> => t.debouncing[1] = "number" /\ t.debouncing[2] \in 0 .. INT_MAX

\* alloc_notification
HasText(file) == file \notin {"missing", "unreadable", "empty"}

NotificationLoads(n, names) ==
  /\ n.filter = "program"
  /\ HasText(n.title) /\ HasText(n.desc) /\ n.level \in Levels \cup {"program"}
  /\ Len(n.source) \in 1 .. MAX_NUM_MONITORED_FILES_PER_NOTIFICATION
  /\ \A f \in ToSet(n.source) : f.path \in Paths
  /\ ToSet(n.target) \subseteq names /\ Len(n.target) <= MAX_NUM_TARGETS

\* How many programs make up the text.
Programs(n) == Cardinality({field \in {"title", "desc", "level"} : n[field] = "program"})

\* Of a notification that lists no target: all targets.
TargetNames(c) == [i \in DOMAIN c.targets |-> c.targets[i].name]
TargetsListed(c, n) == IF n.target = << >> THEN TargetNames(c) ELSE n.target

-----------------------------------------------------------------------------
Sources(c) == FlattenSeq([i \in DOMAIN c.notifications |-> c.notifications[i].source])

\* A path is monitored once, whoever lists it.  (Mutant: once for each.)
AddAlways(list, f) == Append(list, f)
Add(list, f) == IF \E i \in DOMAIN list : list[i].path = f.path THEN list ELSE Append(list, f)

Monitored(c) == FoldLeft(Add, << >>, Sources(c))

\* create_context, and the checks of main that follow it.
Valid(c) ==
  /\ Len(c.targets) \in 1 .. MAX_NUM_TARGETS
  /\ Len(c.notifications) \in 1 .. MAX_NUM_NOTIFICATIONS
  /\ \A t \in ToSet(c.targets) : TargetLoads(t)
  /\ \A n \in ToSet(c.notifications) : NotificationLoads(n, ToSet(TargetNames(c)))
  /\ \A f, g \in ToSet(Sources(c)) : f.path = g.path => f.status = g.status
=============================================================================
