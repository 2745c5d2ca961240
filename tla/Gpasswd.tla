------------------------------- MODULE Gpasswd -------------------------------
(***************************************************************************)
(* gpasswd (src/shadow-rs/gpasswd/src/gpasswd.rs): several invocations     *)
(* about the same group at the same time.  Each locks /etc/group, reads    *)
(* it, changes its copy, replaces the file and unlocks it, and then does   *)
(* the same with /etc/gshadow.  Any step may fail, and an invocation may   *)
(* be killed between any two: the signals that can be blocked are, but not *)
(* SIGKILL.                                                                *)
(*                                                                         *)
(* The lock files and the atomic replacement of a file belong to           *)
(* shadow-core, which is not part of the repository.                       *)
(***************************************************************************)
EXTENDS GroupDatabase

CONSTANTS
  NoProc,     \* the holder of a free lock
  MayFail     \* locking, reading and writing may fail, and invocations be killed

ASSUME ProcAssumption == Procs # {} /\ NoProc \notin Procs /\ MayFail \in BOOLEAN

VARIABLES
  shadowed,   \* /etc/gshadow exists (never changes)
  pc,         \* where each invocation is, and how it ended
  holder,     \* of the lock of each file
  entries     \* the copy each invocation is going to write

gpVars == <<dbVars, shadowed, pc, holder, entries>>

File == {"group", "gshadow"}
Ended == {"done", "unknown group", "unknown user", "cannot update", "killed"}
PC == {"lock group", "read group", "write group", "unlock group",
       "lock gshadow", "read gshadow", "write gshadow", "unlock gshadow"} \cup Ended

Copy == [members : SUBSET Users, line : Line]

GpInit ==
  /\ Init
  /\ shadowed \in BOOLEAN
  /\ pc = [p \in Procs |-> "lock group"]
  /\ holder = [f \in File |-> NoProc]
  /\ entries = [p \in Procs |-> [members |-> {}, line |-> NoLine]]

Goto(p, from, to) == pc[p] = from /\ pc' = [pc EXCEPT ![p] = to]

-----------------------------------------------------------------------------
(* Locks. *)

\* FileLock::acquire: a lock that an invocation left behind when it was killed
\* may be taken over.
Free(f) == holder[f] # NoProc => pc[holder[f]] = "killed"

\* (Mutant: whoever holds it.)
TakeAnyway(p, f) == holder' = [holder EXCEPT ![f] = p]
Take(p, f) == Free(f) /\ holder' = [holder EXCEPT ![f] = p]
Drop(p, f) == holder' = [holder EXCEPT ![f] = IF @ = p THEN NoProc ELSE @]

\* The lock is dropped on the way out, also with an error.  (Mutant: only when
\* all went well.)
DropOnErrorNot(p, f) == UNCHANGED holder
DropOnError(p, f) == Drop(p, f)

Fail(p, f, from) ==
  /\ MayFail /\ Goto(p, from, "cannot update") /\ DropOnError(p, f)
  /\ UNCHANGED <<dbVars, shadowed, entries>>

-----------------------------------------------------------------------------
(* /etc/group *)

LockGroup(p) ==
  /\ Goto(p, "lock group", "read group") /\ Take(p, "group")
  /\ UNCHANGED <<dbVars, shadowed, entries>>

\* Read, look for the group, check the users and change the copy.
ReadGroup(p) ==
  /\ pc[p] = "read group"
  /\ IF exists /\ Named(request[p]) \subseteq Known
     THEN /\ entries' = [entries EXCEPT ![p].members = OnMembers(request[p], group)]
          /\ Goto(p, "read group", "write group")
          /\ UNCHANGED holder
     ELSE /\ Goto(p, "read group", IF exists THEN "unknown user" ELSE "unknown group")
          /\ DropOnError(p, "group")
          /\ UNCHANGED entries
  /\ UNCHANGED <<dbVars, shadowed>>

WriteGroup(p) ==
  /\ Goto(p, "write group", "unlock group")
  /\ group' = entries[p].members
  /\ seen' = [seen EXCEPT ![p] = entries[p].members]
  /\ groupLog' = Append(groupLog, p)
  /\ UNCHANGED <<request, exists, gshadow, gshadowLog, shadowed, holder, entries>>

UnlockGroup(p) ==
  /\ Goto(p, "unlock group", IF shadowed THEN "lock gshadow" ELSE "done")
  /\ Drop(p, "group")
  /\ UNCHANGED <<dbVars, shadowed, entries>>

-----------------------------------------------------------------------------
(* /etc/gshadow *)

LockGshadow(p) ==
  /\ Goto(p, "lock gshadow", "read gshadow") /\ Take(p, "gshadow")
  /\ UNCHANGED <<dbVars, shadowed, entries>>

\* A missing line gets the members of the copy of /etc/group.  (Mutant: none.)
LineToChangeEmpty(p) == IF gshadow.listed THEN gshadow ELSE NewLine({})
LineToChange(p) == IF gshadow.listed THEN gshadow ELSE NewLine(entries[p].members)

ReadGshadow(p) ==
  /\ Goto(p, "read gshadow", "write gshadow")
  /\ entries' = [entries EXCEPT ![p].line = OnLine(request[p], LineToChange(p))]
  /\ UNCHANGED <<dbVars, shadowed, holder>>

WriteGshadow(p) ==
  /\ Goto(p, "write gshadow", "unlock gshadow")
  /\ gshadow' = entries[p].line
  /\ gshadowLog' = Append(gshadowLog, p)
  /\ UNCHANGED <<request, exists, group, seen, groupLog, shadowed, holder, entries>>

UnlockGshadow(p) ==
  /\ Goto(p, "unlock gshadow", "done") /\ Drop(p, "gshadow")
  /\ UNCHANGED <<dbVars, shadowed, entries>>

-----------------------------------------------------------------------------
\* Locking takes too long, or a file cannot be read or replaced.
GiveUp(p) ==
  \/ \E step \in {"lock group", "read group", "write group"} : Fail(p, "group", step)
  \/ \E step \in {"lock gshadow", "read gshadow", "write gshadow"} : Fail(p, "gshadow", step)

Kill(p) ==
  /\ MayFail /\ pc[p] \notin Ended
  /\ pc' = [pc EXCEPT ![p] = "killed"]
  /\ UNCHANGED <<dbVars, shadowed, holder, entries>>

Invocation(p) ==
  \/ LockGroup(p) \/ ReadGroup(p) \/ WriteGroup(p) \/ UnlockGroup(p)
  \/ LockGshadow(p) \/ ReadGshadow(p) \/ WriteGshadow(p) \/ UnlockGshadow(p)
  \/ GiveUp(p)

GpNext == \E p \in Procs : Invocation(p) \/ Kill(p)

GpSpec == GpInit /\ [][GpNext]_gpVars

-----------------------------------------------------------------------------
(* Properties. *)

GpTypeOK ==
  /\ request \in [Procs -> Requests] /\ exists \in BOOLEAN /\ shadowed \in BOOLEAN
  /\ group \subseteq Users /\ gshadow \in Line
  /\ seen \in [Procs -> SUBSET Users]
  /\ groupLog \in Seq(Procs) /\ gshadowLog \in Seq(Procs)
  /\ pc \in [Procs -> PC]
  /\ holder \in [File -> Procs \cup {NoProc}]
  /\ entries \in [Procs -> Copy]

\* No update is lost and nothing is written twice or by a refused request,
\* whoever else runs, fails or is killed: gpasswd implements GroupDatabase.
ImplementsDatabase == Spec

Changes(r) == r.kind \in {"add", "delete", "members", "both"}

\* The order of the requests matters for the members.
Conflict(p, q) ==
  /\ p # q /\ Changes(request[p]) /\ Changes(request[q])
  /\ {request[p].kind, request[q].kind} \cap {"members", "both"} # {}
     \/ request[p].users \cap request[q].users # {}

Before(log, p, q) == \E i, j \in DOMAIN log : i < j /\ log[i] = p /\ log[j] = q

\* The two files are locked one after the other, never together.  Once all
\* invocations have succeeded, they agree on the members nevertheless, unless two
\* requests whose order matters have overtaken each other in between.
AgreeAtRest ==
  /\ shadowed /\ \A p \in Procs : pc[p] = "done"
  /\ \A p, q \in Procs : Conflict(p, q) => (Before(groupLog, p, q) <=> Before(gshadowLog, p, q))
  => gshadow.members = group

\* No lock outlives an invocation, however it ends, unless it is killed.
LocksReleased ==
  \A f \in File : holder[f] # NoProc => pc[holder[f]] \notin Ended \ {"killed"}
=============================================================================
