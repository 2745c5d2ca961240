---------------------------- MODULE GroupDatabase ----------------------------
(***************************************************************************)
(* What gpasswd promises about the members of one group: every request     *)
(* takes effect on /etc/group at once or not at all, later on /etc/gshadow *)
(* at once or not at all, and no request undoes another one's work.        *)
(***************************************************************************)
EXTENDS Naturals, Sequences

CONSTANTS
  Procs,      \* invocations of gpasswd
  Users,      \* user names
  Known,      \* ... those /etc/passwd lists
  Requests    \* what may be asked for

Password == {"none", "locked", "hash"}

Request == [kind : {"add", "delete", "members", "administrators", "both", "password"},
            users : SUBSET Users, admins : SUBSET Users, password : Password]

ASSUME RequestsAssumption == Requests \subseteq Request /\ Known \subseteq Users

VARIABLES
  request,    \* of each invocation
  exists,     \* the group is in /etc/group
  group,      \* its members there
  gshadow,    \* its line of /etc/gshadow
  seen,       \* the members an invocation left in /etc/group
  groupLog,   \* invocations in the order in which they changed /etc/group
  gshadowLog  \* ... and /etc/gshadow

dbVars == <<request, exists, group, gshadow, seen, groupLog, gshadowLog>>

Line == [listed : BOOLEAN, members : SUBSET Users, admins : SUBSET Users, password : Password]

-----------------------------------------------------------------------------
(* What a request does. *)

\* The users it names must exist, except the one to delete.
Named(r) == (IF r.kind = "delete" THEN {} ELSE r.users) \cup r.admins

OnMembers(r, members) ==
  CASE r.kind = "add" -> members \cup r.users
    [] r.kind = "delete" -> members \ r.users
    [] r.kind \in {"members", "both"} -> r.users
    [] OTHER -> members

OnAdmins(r, admins) ==
  CASE r.kind \in {"administrators", "both"} -> r.admins
    [] r.kind = "delete" -> admins \ r.users
    [] OTHER -> admins

\* A line that is missing is made up from the members /etc/group then had.
NewLine(members) == [listed |-> TRUE, members |-> members, admins |-> {}, password |-> "locked"]

NoLine == [listed |-> FALSE, members |-> {}, admins |-> {}, password |-> "none"]

OnLine(r, line) ==
  [listed |-> TRUE, members |-> OnMembers(r, line.members), admins |-> OnAdmins(r, line.admins),
   password |-> IF r.kind = "password" THEN r.password ELSE line.password]

OnGshadow(r, line, members) == OnLine(r, IF line.listed THEN line ELSE NewLine(members))

-----------------------------------------------------------------------------
Init ==
  /\ request \in [Procs -> Requests]
  /\ exists \in BOOLEAN
  /\ group \in SUBSET Known
  /\ gshadow \in {NewLine(group), NoLine}
  /\ seen = [p \in Procs |-> {}]
  /\ groupLog = << >> /\ gshadowLog = << >>

Logged(log) == {log[i] : i \in DOMAIN log}

UpdateGroup(p) ==
  /\ exists /\ Named(request[p]) \subseteq Known
  /\ p \notin Logged(groupLog)
  /\ group' = OnMembers(request[p], group)
  /\ seen' = [seen EXCEPT ![p] = group']
  /\ groupLog' = Append(groupLog, p)
  /\ UNCHANGED <<request, exists, gshadow, gshadowLog>>

UpdateGshadow(p) ==
  /\ p \in Logged(groupLog) /\ p \notin Logged(gshadowLog)
  /\ gshadow' = OnGshadow(request[p], gshadow, seen[p])
  /\ gshadowLog' = Append(gshadowLog, p)
  /\ UNCHANGED <<request, exists, group, seen, groupLog>>

Next == \E p \in Procs : UpdateGroup(p) \/ UpdateGshadow(p)

Spec == Init /\ [][Next]_dbVars
=============================================================================
