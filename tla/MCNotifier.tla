----------------------------- MODULE MCNotifier -----------------------------
(* Configurations of the log monitor for TLC. *)
EXTENDS Notifier

File(path) == [path |-> path, status |-> FALSE]
StatusFile(path) == [path |-> path, status |-> TRUE]

Tgt(n, d) == [name |-> n, send |-> "program", debouncing |-> IF d < 0 THEN << >> ELSE <<"number", d>>]

\* With n programs for the text.
Notif(files, targets, n) ==
  [filter |-> "program", title |-> IF n > 0 THEN "program" ELSE "text", desc |-> "text",
   level |-> IF n > 1 THEN "program" ELSE "ERROR", source |-> files, target |-> targets]

Config(notifications, d1, d2) ==
  [notifications |-> notifications, targets |-> <<Tgt("t1", d1), Tgt("t2", d2)>>]

Plain == Notif(<<File("f")>>, <<"t1">>, 0)

\* Two notifications about the same file, sent to the same target ...
Shared == {Config(<<Plain, Plain>>, d, 0) : d \in {0, 1, 2}}

\* ... one that goes to all targets, and lists a file twice ...
Several ==
  {Config(<<Notif(<<File("f"), File("f")>>, << >>, 1), Notif(<<File("g"), File("f")>>, <<"t2">>, 0)>>,
          1, -1)}

\* ... and mistakes: in a notification that follows a good one, in a target, or
\* more of something than there is room for.
WrongNotification ==
  {Notif(files, <<"t1">>, 0) :
     files \in {<< >>, <<File("relative")>>, <<StatusFile("f")>>, <<File("f"), File("g"), File("f")>>}}
  \cup {Notif(<<File("f")>>, <<"t1", "unknown">>, 0)}
  \cup {[Plain EXCEPT !.filter = e] : e \in {"missing", "not executable"}}
  \cup {[Plain EXCEPT !.title = e] : e \in {"missing", "unreadable", "empty"}}
  \cup {[Plain EXCEPT !.level = "text"]}

Mistaken ==
  {Config(<<Plain, n>>, 1, 1) : n \in WrongNotification}
  \cup {[notifications |-> <<Plain>>, targets |-> <<Tgt("t1", 1), t>>] :
          t \in {Tgt("t2", 101), [Tgt("t2", 1) EXCEPT !.send = "not executable"],
                 [Tgt("t2", 1) EXCEPT !.debouncing = <<"text">>],
                 [Tgt("t2", 1) EXCEPT !.debouncing = <<"number", -1>>]}}
  \cup {[notifications |-> <<Plain>>, targets |-> << >>],
        [notifications |-> <<Plain>>, targets |-> <<Tgt("t1", 1), Tgt("t2", 1), Tgt("t3", 1)>>],
        [notifications |-> << >>, targets |-> <<Tgt("t1", 1)>>],
        Config(<<Plain, Plain, Plain>>, 1, 1)}

Some == Shared \cup Several \cup Mistaken
=============================================================================
