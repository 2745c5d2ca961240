------------------------------ MODULE MCCinit ------------------------------
(* Instances of Cinit for TLC: the service tables of the runs. *)
EXTENDS Cinit, TLC

\* An enabled daemon with every setting at its default.
Plain == [f \in {"group", "disabled", "respawn", "sync", "interval",
                 "ignore_failure", "shutdown_on_terminate", "has_uptime",
                 "has_probe"} |-> FALSE]
With(fields) == [f \in DOMAIN Plain |-> f \in fields]

App == With({"shutdown_on_terminate"})

\* Bring-up: the first service waits in each of the possible ways, its
\* failure may or may not be ignored; the second one is the application.
BringUp ==
  {<<With(a \cup b), App>> : a \in {{"sync"}, {"has_uptime"}, {"has_probe"},
                                    {"has_uptime", "has_probe"}},
                              b \in SUBSET {"ignore_failure", "shutdown_on_terminate"}}

\* Operation: an application beside a service that is respawned ...
Pair == {<<App, With({"respawn"})>>}

\* ... and services that run at an interval, beside a group and a daemon.
Periodic == {<<With({"interval"}), With({"group"})>>,
             <<With({"interval", "shutdown_on_terminate"}), Plain>>}

Operation == Pair \cup Periodic

Single == {<<App>>, <<With({"respawn"})>>}

\* What may fail is met during bring-up and when a service is respawned.
Failing == BringUp \cup Pair

\* A restart request with an empty name.
NoName == {EmptyName}

PidSymmetry == Permutations(Pids)
=============================================================================
