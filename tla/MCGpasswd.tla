------------------------------ MODULE MCGpasswd ------------------------------
(* Requests about one group for TLC. *)
EXTENDS Gpasswd, TLC

Ask(kind, users, admins, password) ==
  [kind |-> kind, users |-> users, admins |-> admins, password |-> password]

\* bob is known and may be a member; mallory is not known.
SomeRequests ==
  {Ask("add", {"alice"}, {}, "none"), Ask("delete", {"bob"}, {}, "none"),
   Ask("members", {"alice", "bob"}, {}, "none"), Ask("both", {"alice"}, {"bob"}, "none"),
   Ask("administrators", {}, {"mallory"}, "none"), Ask("password", {}, {}, "hash")}

Symmetry == Permutations(Procs)
=============================================================================
