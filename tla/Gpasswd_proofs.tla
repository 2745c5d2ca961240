---------------------------- MODULE Gpasswd_proofs ----------------------------
(***************************************************************************)
(* For any number of invocations, users and requests, and whatever fails   *)
(* or is killed: gpasswd implements GroupDatabase, no lock outlives an     *)
(* invocation that was not killed, and the two files agree when every      *)
(* invocation has succeeded.                                               *)
(*                                                                         *)
(* The inductive invariant says what the locks are for: an invocation that *)
(* is between reading and unlocking a file holds its lock, so the copy it  *)
(* made is still the request applied to what the file contains.  The files *)
(* agree because the last request that decides about a user is the same in *)
(* both logs.                                                              *)
(***************************************************************************)
EXTENDS Gpasswd, SequenceTheorems, TLAPS

InGroup == {"read group", "write group", "unlock group"}
InGshadow == {"read gshadow", "write gshadow", "unlock gshadow"}
BeforeGroup == {"lock group", "read group", "write group"}
AfterGroup == {"unlock group", "lock gshadow"} \cup InGshadow

\* Whoever is in a critical section holds its lock, and a holder is there or killed.
Locked ==
  \A p \in Procs :
    /\ pc[p] \in InGroup => holder["group"] = p
    /\ pc[p] \in InGshadow => holder["gshadow"] = p
    /\ holder["group"] = p => pc[p] \in InGroup \cup {"killed"}
    /\ holder["gshadow"] = p => pc[p] \in InGshadow \cup {"killed"}

\* What an invocation has written so far.
Progress ==
  \A p \in Procs :
    /\ pc[p] \in BeforeGroup => p \notin Logged(groupLog)
    /\ pc[p] \in BeforeGroup \cup (AfterGroup \ {"unlock gshadow"}) => p \notin Logged(gshadowLog)
    /\ pc[p] \in AfterGroup => p \in Logged(groupLog) /\ seen[p] = entries[p].members

\* The copies are up to date.
CopyOfGroup ==
  \A p \in Procs : pc[p] = "write group" =>
    /\ exists /\ Named(request[p]) \subseteq Known
    /\ entries[p].members = OnMembers(request[p], group)

CopyOfGshadow ==
  \A p \in Procs : pc[p] = "write gshadow" =>
    entries[p].line = OnGshadow(request[p], gshadow, seen[p])

GpInv == GpTypeOK /\ Locked /\ Progress /\ CopyOfGroup /\ CopyOfGshadow

-----------------------------------------------------------------------------
(* Lemmas about the operators. *)

\* A request leaves a set of users a set of users.
LEMMA OnMembersType ==
  ASSUME NEW r \in Request, NEW members \in SUBSET Users
  PROVE  OnMembers(r, members) \in SUBSET Users
BY DEF OnMembers, Request

\* A new line of /etc/gshadow is a line.
LEMMA NewLineType == ASSUME NEW members \in SUBSET Users PROVE NewLine(members) \in Line
BY DEF NewLine, Line, Password

\* A request leaves a line a line.
LEMMA OnLineType ==
  ASSUME NEW r \in Request, NEW line \in Line
  PROVE  OnLine(r, line) \in Line
<1>1. line.members \in SUBSET Users /\ line.admins \in SUBSET Users /\ line.password \in Password
  BY DEF Line
<1>2. OnMembers(r, line.members) \in SUBSET Users
  BY <1>1, OnMembersType
<1>3. OnAdmins(r, line.admins) \in SUBSET Users
  BY <1>1 DEF OnAdmins, Request
<1>4. (IF r.kind = "password" THEN r.password ELSE line.password) \in Password
  BY <1>1 DEF Request
<1> QED
  BY <1>2, <1>3, <1>4 DEF OnLine, Line

\* Nothing is logged in an empty log.
LEMMA LoggedEmpty == Logged(<< >>) = {}
<1>1. << >> \in Seq(Procs) /\ Len(<< >>) = 0
  BY EmptySeq
<1>2. DOMAIN << >> = 1..0
  BY <1>1, LenProperties
<1>3. \A i \in 1..0 : FALSE
  OBVIOUS
<1> QED
  BY <1>2, <1>3 DEF Logged

\* Appending to a log adds one member to what is logged.
LEMMA LoggedAppend ==
  ASSUME NEW log \in Seq(Procs), NEW p \in Procs
  PROVE  Append(log, p) \in Seq(Procs) /\ Logged(Append(log, p)) = Logged(log) \cup {p}
<1>1. Len(Append(log, p)) = Len(log) + 1 /\ Len(log) \in Nat
  OBVIOUS
<1>2. \A i \in 1..Len(log) : Append(log, p)[i] = log[i]
  OBVIOUS
<1>3. Append(log, p)[Len(log) + 1] = p
  OBVIOUS
<1>4. DOMAIN Append(log, p) = 1..(Len(log) + 1) /\ DOMAIN log = 1..Len(log)
  BY <1>1
<1> QED
  BY <1>1, <1>2, <1>3, <1>4 DEF Logged

-----------------------------------------------------------------------------
(* The invariant holds at the start. *)

\* The invariant holds before any invocation of gpasswd has begun.
LEMMA GpInitInv == GpInit => GpInv
<1> SUFFICES ASSUME GpInit PROVE GpInv
  OBVIOUS
<1> USE DEF GpInit, Init
<1>1. \A p \in Procs : pc[p] = "lock group"
  OBVIOUS
<1>2. holder["group"] = NoProc /\ holder["gshadow"] = NoProc
  BY DEF File
<1>3. group \in SUBSET Users /\ NoLine \in Line
  BY RequestsAssumption DEF NoLine, Line, Password
<1>4. GpTypeOK
  <2>1. gshadow \in Line
    BY <1>3, NewLineType
  <2>2. entries \in [Procs -> Copy]
    BY <1>3 DEF Copy
  <2>3. pc \in [Procs -> PC] /\ holder \in [File -> Procs \cup {NoProc}]
    BY DEF PC
  <2>4. groupLog \in Seq(Procs) /\ gshadowLog \in Seq(Procs)
    BY EmptySeq
  <2> QED
    BY <1>3, <2>1, <2>2, <2>3, <2>4 DEF GpTypeOK
<1>5. Locked
  BY <1>1, <1>2, ProcAssumption DEF Locked, InGroup, InGshadow
<1>6. Progress
  <2>1. Logged(groupLog) = {} /\ Logged(gshadowLog) = {}
    BY LoggedEmpty
  <2> QED
    BY <1>1, <2>1 DEF Progress, AfterGroup, InGshadow
<1> QED
  BY <1>1, <1>4, <1>5, <1>6 DEF GpInv, CopyOfGroup, CopyOfGshadow

-----------------------------------------------------------------------------
(* Every step keeps the invariant: type, locks, progress and copies in turn. *)

\* Every step of an invocation moves only its own program counter, to a known place.
LEMMA StepMoves ==
  ASSUME GpTypeOK, NEW p \in Procs, Invocation(p) \/ Kill(p)
  PROVE  /\ pc' \in [Procs -> PC]
         /\ \A q \in Procs \ {p} : pc'[q] = pc[q]
         /\ UNCHANGED <<request, exists, shadowed>>
<1> USE DEF GpTypeOK, PC, Ended, Goto, dbVars
<1>1. CASE LockGroup(p) BY <1>1 DEF LockGroup
<1>2. CASE ReadGroup(p) BY <1>2 DEF ReadGroup
<1>3. CASE WriteGroup(p) BY <1>3 DEF WriteGroup
<1>4. CASE UnlockGroup(p) BY <1>4 DEF UnlockGroup
<1>5. CASE LockGshadow(p) BY <1>5 DEF LockGshadow
<1>6. CASE ReadGshadow(p) BY <1>6 DEF ReadGshadow
<1>7. CASE WriteGshadow(p) BY <1>7 DEF WriteGshadow
<1>8. CASE UnlockGshadow(p) BY <1>8 DEF UnlockGshadow
<1>9. CASE GiveUp(p) BY <1>9 DEF GiveUp, Fail
<1>10. CASE Kill(p) BY <1>10 DEF Kill
<1> QED
  BY <1>1, <1>2, <1>3, <1>4, <1>5, <1>6, <1>7, <1>8, <1>9, <1>10 DEF Invocation

\* The types are kept.
LEMMA StepType ==
  ASSUME GpTypeOK, NEW p \in Procs, Invocation(p) \/ Kill(p)
  PROVE  GpTypeOK'
<1>1. pc' \in [Procs -> PC] /\ UNCHANGED <<request, exists, shadowed>>
  BY StepMoves
<1>2. request[p] \in Request
  BY RequestsAssumption DEF GpTypeOK
<1>3. entries[p].members \in SUBSET Users /\ entries[p].line \in Line
  BY DEF GpTypeOK, Copy
<1>4. UNCHANGED entries => entries' \in [Procs -> Copy]
  BY DEF GpTypeOK
<1>5. \A f \in File : Take(p, f) \/ Drop(p, f) \/ UNCHANGED holder
                     => holder' \in [File -> Procs \cup {NoProc}]
  BY DEF GpTypeOK, Take, Drop
<1>6. "group" \in File /\ "gshadow" \in File
  BY DEF File
<1>7. UNCHANGED dbVars => /\ group' \in SUBSET Users /\ gshadow' \in Line
                          /\ seen' \in [Procs -> SUBSET Users]
                          /\ groupLog' \in Seq(Procs) /\ gshadowLog' \in Seq(Procs)
  BY DEF GpTypeOK, dbVars
<1> DEFINE Kept == UNCHANGED <<dbVars, entries>>
                   /\ \E f \in File : Take(p, f) \/ Drop(p, f) \/ UNCHANGED holder
<1>8. CASE Kept
  BY <1>1, <1>4, <1>5, <1>7, <1>8 DEF GpTypeOK
<1>9. CASE ReadGroup(p)
  <2>1. holder' \in [File -> Procs \cup {NoProc}]
    BY <1>9, <1>5, <1>6 DEF ReadGroup, DropOnError
  <2>2. OnMembers(request[p], group) \in SUBSET Users
    BY <1>2, OnMembersType DEF GpTypeOK
  <2>3. [entries[p] EXCEPT !.members = OnMembers(request[p], group)] \in Copy
    BY <2>2 DEF GpTypeOK, Copy
  <2>4. \/ UNCHANGED entries
        \/ entries' = [entries EXCEPT ![p] = [entries[p] EXCEPT !.members = OnMembers(request[p], group)]]
    BY <1>9 DEF ReadGroup
  <2>5. entries' \in [Procs -> Copy]
    BY <2>3, <2>4 DEF GpTypeOK
  <2> QED
    BY <1>1, <1>7, <1>9, <2>1, <2>5 DEF GpTypeOK, ReadGroup
<1>10. CASE WriteGroup(p)
  <2>1. groupLog' \in Seq(Procs)
    BY <1>10, LoggedAppend DEF GpTypeOK, WriteGroup
  <2> QED
    BY <1>1, <1>3, <1>10, <2>1 DEF GpTypeOK, WriteGroup
<1>11. CASE ReadGshadow(p)
  <2>1. LineToChange(p) \in Line
    BY <1>3, NewLineType DEF LineToChange, GpTypeOK
  <2>2. OnLine(request[p], LineToChange(p)) \in Line
    BY <1>2, <2>1, OnLineType
  <2>3. [entries[p] EXCEPT !.line = OnLine(request[p], LineToChange(p))] \in Copy
    BY <2>2 DEF GpTypeOK, Copy
  <2>4. entries' = [entries EXCEPT ![p] = [entries[p] EXCEPT !.line = OnLine(request[p], LineToChange(p))]]
    BY <1>11 DEF ReadGshadow
  <2>5. entries' \in [Procs -> Copy]
    BY <2>3, <2>4 DEF GpTypeOK
  <2> QED
    BY <1>1, <1>7, <1>11, <2>5 DEF GpTypeOK, ReadGshadow
<1>12. CASE WriteGshadow(p)
  <2>1. gshadowLog' \in Seq(Procs)
    BY <1>12, LoggedAppend DEF GpTypeOK, WriteGshadow
  <2> QED
    BY <1>1, <1>3, <1>12, <2>1 DEF GpTypeOK, WriteGshadow
<1>13. CASE LockGroup(p) BY <1>6, <1>8, <1>13 DEF LockGroup
<1>14. CASE UnlockGroup(p) BY <1>6, <1>8, <1>14 DEF UnlockGroup
<1>15. CASE LockGshadow(p) BY <1>6, <1>8, <1>15 DEF LockGshadow
<1>16. CASE UnlockGshadow(p) BY <1>6, <1>8, <1>16 DEF UnlockGshadow
<1>17. CASE GiveUp(p) BY <1>6, <1>8, <1>17 DEF GiveUp, Fail, DropOnError
<1>18. CASE Kill(p) BY <1>6, <1>8, <1>18 DEF Kill
<1> QED
  BY <1>9, <1>10, <1>11, <1>12, <1>13, <1>14, <1>15, <1>16, <1>17, <1>18 DEF Invocation

\* The locks are kept: one is only taken when nobody alive holds it.
LEMMA StepLocked ==
  ASSUME GpTypeOK, Locked, NEW p \in Procs, Invocation(p) \/ Kill(p)
  PROVE  Locked'
<1> USE ProcAssumption DEF GpTypeOK, Locked, InGroup, InGshadow, Goto, Take, Drop, DropOnError, Free, File
<1>1. CASE LockGroup(p) BY <1>1 DEF LockGroup
<1>2. CASE ReadGroup(p) BY <1>2 DEF ReadGroup
<1>3. CASE WriteGroup(p) BY <1>3 DEF WriteGroup
<1>4. CASE UnlockGroup(p) BY <1>4 DEF UnlockGroup
<1>5. CASE LockGshadow(p) BY <1>5 DEF LockGshadow
<1>6. CASE ReadGshadow(p) BY <1>6 DEF ReadGshadow
<1>7. CASE WriteGshadow(p) BY <1>7 DEF WriteGshadow
<1>8. CASE UnlockGshadow(p) BY <1>8 DEF UnlockGshadow
<1>9. CASE GiveUp(p) BY <1>9 DEF GiveUp, Fail
<1>10. CASE Kill(p) BY <1>10 DEF Kill, Ended
<1> QED
  BY <1>1, <1>2, <1>3, <1>4, <1>5, <1>6, <1>7, <1>8, <1>9, <1>10 DEF Invocation

\* The logs say what each invocation has done.
LEMMA StepProgress ==
  ASSUME GpTypeOK, Progress, NEW p \in Procs, Invocation(p) \/ Kill(p)
  PROVE  Progress'
<1> USE DEF Progress, BeforeGroup, AfterGroup, InGshadow, Goto
<1>1. pc \in [Procs -> PC] /\ entries \in [Procs -> Copy] /\ seen \in [Procs -> SUBSET Users]
  BY DEF GpTypeOK
<1>2. CASE WriteGroup(p)
  <2>1. Logged(groupLog)' = Logged(groupLog) \cup {p}
    BY <1>2, LoggedAppend DEF WriteGroup, GpTypeOK
  <2>2. UNCHANGED <<gshadowLog, entries>> /\ Logged(gshadowLog)' = Logged(gshadowLog)
    BY <1>2 DEF WriteGroup, Logged
  <2>3. seen' = [seen EXCEPT ![p] = entries[p].members] /\ pc[p] = "write group"
        /\ pc' = [pc EXCEPT ![p] = "unlock group"]
    BY <1>2 DEF WriteGroup
  <2> QED
    BY <1>1, <2>1, <2>2, <2>3
<1>3. CASE WriteGshadow(p)
  <2>1. Logged(gshadowLog)' = Logged(gshadowLog) \cup {p}
    BY <1>3, LoggedAppend DEF WriteGshadow, GpTypeOK
  <2>2. UNCHANGED <<groupLog, entries, seen>> /\ Logged(groupLog)' = Logged(groupLog)
    BY <1>3 DEF WriteGshadow, Logged
  <2>3. pc[p] = "write gshadow" /\ pc' = [pc EXCEPT ![p] = "unlock gshadow"]
    BY <1>3 DEF WriteGshadow
  <2> QED
    BY <1>1, <2>1, <2>2, <2>3
<1>4. UNCHANGED dbVars => /\ UNCHANGED seen
                          /\ Logged(groupLog)' = Logged(groupLog)
                          /\ Logged(gshadowLog)' = Logged(gshadowLog)
  BY DEF dbVars, Logged
<1>5. CASE LockGroup(p) BY <1>1, <1>4, <1>5 DEF LockGroup
<1>6. CASE ReadGroup(p) BY <1>1, <1>4, <1>6 DEF ReadGroup
<1>7. CASE UnlockGroup(p) BY <1>1, <1>4, <1>7 DEF UnlockGroup
<1>8. CASE LockGshadow(p) BY <1>1, <1>4, <1>8 DEF LockGshadow
<1>9. CASE ReadGshadow(p)
  <2>1. \A q \in Procs : entries'[q].members = entries[q].members
    BY <1>1, <1>9 DEF ReadGshadow, Copy
  <2> QED
    BY <1>1, <1>4, <1>9, <2>1 DEF ReadGshadow
<1>10. CASE UnlockGshadow(p) BY <1>1, <1>4, <1>10 DEF UnlockGshadow
<1>11. CASE GiveUp(p) BY <1>1, <1>4, <1>11 DEF GiveUp, Fail
<1>12. CASE Kill(p) BY <1>1, <1>4, <1>12 DEF Kill
<1> QED
  BY <1>2, <1>3, <1>5, <1>6, <1>7, <1>8, <1>9, <1>10, <1>11, <1>12 DEF Invocation

\* The copy of /etc/group stays up to date until it is written.
LEMMA StepCopyOfGroup ==
  ASSUME GpTypeOK, Locked, CopyOfGroup, NEW p \in Procs, Invocation(p) \/ Kill(p)
  PROVE  CopyOfGroup'
<1> USE DEF CopyOfGroup, Goto
<1>1. pc \in [Procs -> PC] /\ entries \in [Procs -> Copy] /\ exists \in BOOLEAN
  BY DEF GpTypeOK
<1>2. CASE WriteGroup(p)
  <2>1. \A q \in Procs \ {p} : pc[q] # "write group"
    BY <1>2 DEF WriteGroup, Locked, InGroup
  <2>2. \A q \in Procs : pc'[q] # "write group"
    BY <1>1, <1>2, <2>1 DEF WriteGroup
  <2> QED
    BY <2>2
<1>3. UNCHANGED dbVars => UNCHANGED <<request, exists, group>>
  BY DEF dbVars
<1>4. CASE LockGroup(p) BY <1>1, <1>3, <1>4 DEF LockGroup
<1>5. CASE ReadGroup(p)
  <2>1. CASE exists /\ Named(request[p]) \subseteq Known
    <3> DEFINE new == [entries[p] EXCEPT !.members = OnMembers(request[p], group)]
    <3>0. entries' = [entries EXCEPT ![p] = new] /\ pc' = [pc EXCEPT ![p] = "write group"]
      BY <1>5, <2>1 DEF ReadGroup
    <3>1. entries'[p].members = OnMembers(request[p], group)
          /\ \A q \in Procs \ {p} : entries'[q] = entries[q] /\ pc'[q] = pc[q]
      <4>1. new.members = OnMembers(request[p], group)
        BY <1>1 DEF Copy
      <4> HIDE DEF new
      <4> QED
        BY <1>1, <3>0, <4>1
    <3>2. UNCHANGED <<request, exists, group>>
      BY <1>3, <1>5 DEF ReadGroup
    <3> HIDE DEF Goto
    <3> QED
      BY <1>1, <2>1, <3>1, <3>2
  <2>2. CASE ~(exists /\ Named(request[p]) \subseteq Known)
    BY <1>1, <1>3, <1>5, <2>2 DEF ReadGroup
  <2> QED
    BY <2>1, <2>2
<1>6. CASE UnlockGroup(p) BY <1>1, <1>3, <1>6 DEF UnlockGroup
<1>7. CASE LockGshadow(p) BY <1>1, <1>3, <1>7 DEF LockGshadow
<1>8. CASE ReadGshadow(p)
  <2>1. \A q \in Procs : entries'[q].members = entries[q].members
    BY <1>1, <1>8 DEF ReadGshadow, Copy
  <2> QED
    BY <1>1, <1>3, <1>8, <2>1 DEF ReadGshadow
<1>9. CASE WriteGshadow(p) BY <1>1, <1>9 DEF WriteGshadow
<1>10. CASE UnlockGshadow(p) BY <1>1, <1>3, <1>10 DEF UnlockGshadow
<1>11. CASE GiveUp(p) BY <1>1, <1>3, <1>11 DEF GiveUp, Fail
<1>12. CASE Kill(p) BY <1>1, <1>3, <1>12 DEF Kill
<1> QED
  BY <1>2, <1>4, <1>5, <1>6, <1>7, <1>8, <1>9, <1>10, <1>11, <1>12 DEF Invocation

\* The copy of /etc/gshadow stays up to date until it is written.
LEMMA StepCopyOfGshadow ==
  ASSUME GpTypeOK, Locked, Progress, CopyOfGshadow, NEW p \in Procs, Invocation(p) \/ Kill(p)
  PROVE  CopyOfGshadow'
<1> USE DEF CopyOfGshadow, Goto
<1>1. pc \in [Procs -> PC] /\ entries \in [Procs -> Copy] /\ seen \in [Procs -> SUBSET Users]
  BY DEF GpTypeOK
<1>2. CASE WriteGshadow(p)
  <2>1. \A q \in Procs \ {p} : pc[q] # "write gshadow"
    BY <1>2 DEF WriteGshadow, Locked, InGshadow
  <2>2. \A q \in Procs : pc'[q] # "write gshadow"
    BY <1>1, <1>2, <2>1 DEF WriteGshadow
  <2> QED
    BY <2>2
<1>3. UNCHANGED dbVars => UNCHANGED <<request, gshadow, seen>>
  BY DEF dbVars
<1>4. CASE LockGroup(p) BY <1>1, <1>3, <1>4 DEF LockGroup
<1>5. CASE ReadGroup(p)
  <2>1. \A q \in Procs \ {p} : entries'[q] = entries[q] /\ pc'[q] = pc[q]
    BY <1>1, <1>5 DEF ReadGroup
  <2>2. pc'[p] # "write gshadow"
    BY <1>1, <1>5 DEF ReadGroup
  <2> QED
    BY <1>3, <1>5, <2>1, <2>2 DEF ReadGroup
<1>6. CASE WriteGroup(p) BY <1>1, <1>6 DEF WriteGroup
<1>7. CASE UnlockGroup(p) BY <1>1, <1>3, <1>7 DEF UnlockGroup
<1>8. CASE LockGshadow(p) BY <1>1, <1>3, <1>8 DEF LockGshadow
<1>9. CASE ReadGshadow(p)
  <2>1. seen[p] = entries[p].members
    BY <1>9 DEF ReadGshadow, Progress, AfterGroup, InGshadow
  <2>2. OnLine(request[p], LineToChange(p)) = OnGshadow(request[p], gshadow, seen[p])
    BY <2>1 DEF LineToChange, OnGshadow
  <2>3. entries'[p].line = OnLine(request[p], LineToChange(p))
        /\ \A q \in Procs \ {p} : entries'[q] = entries[q] /\ pc'[q] = pc[q]
    BY <1>1, <1>9 DEF ReadGshadow, Copy
  <2> QED
    BY <1>3, <1>9, <2>2, <2>3 DEF ReadGshadow
<1>10. CASE UnlockGshadow(p) BY <1>1, <1>3, <1>10 DEF UnlockGshadow
<1>11. CASE GiveUp(p) BY <1>1, <1>3, <1>11 DEF GiveUp, Fail
<1>12. CASE Kill(p) BY <1>1, <1>3, <1>12 DEF Kill
<1> QED
  BY <1>2, <1>4, <1>5, <1>6, <1>7, <1>8, <1>9, <1>10, <1>11, <1>12 DEF Invocation

\* Every step keeps the invariant.
LEMMA GpStep == ASSUME GpInv, [GpNext]_gpVars PROVE GpInv'
<1>1. CASE UNCHANGED gpVars
  <2>1. UNCHANGED <<request, exists, group, gshadow, seen, groupLog, gshadowLog, shadowed, pc, holder, entries>>
    BY <1>1 DEF gpVars, dbVars
  <2>2. GpTypeOK' BY <2>1 DEF GpInv, GpTypeOK
  <2>3. Locked' BY <2>1 DEF GpInv, Locked
  <2>4. Progress' BY <2>1 DEF GpInv, Progress, Logged
  <2>5. CopyOfGroup' BY <2>1 DEF GpInv, CopyOfGroup
  <2>6. CopyOfGshadow' BY <2>1 DEF GpInv, CopyOfGshadow
  <2> QED
    BY <2>2, <2>3, <2>4, <2>5, <2>6 DEF GpInv
<1>2. CASE GpNext
  <2>1. PICK p \in Procs : Invocation(p) \/ Kill(p)
    BY <1>2 DEF GpNext
  <2> QED
    BY <2>1, StepType, StepLocked, StepProgress, StepCopyOfGroup, StepCopyOfGshadow DEF GpInv
<1> QED
  BY <1>1, <1>2

\* So it is an invariant of gpasswd.
THEOREM GpInvariant == GpSpec => []GpInv
BY GpInitInv, GpStep, PTL DEF GpSpec

-----------------------------------------------------------------------------
(* What follows. *)

\* The type invariant of gpasswd.
THEOREM GpTyped == GpSpec => []GpTypeOK
BY GpInvariant, PTL DEF GpInv

\* Every way out of gpasswd releases the locks, except being killed.
THEOREM GpLocksReleased == GpSpec => []LocksReleased
<1>1. GpInv => LocksReleased
  BY DEF GpInv, GpTypeOK, Locked, LocksReleased, Ended, InGroup, InGshadow, File
<1> QED
  BY <1>1, GpInvariant, PTL

\* Replacing a file is the step that GroupDatabase allows, and nothing else changes one.
LEMMA StepRefines ==
  ASSUME GpInv, [GpNext]_gpVars
  PROVE  [Next]_dbVars
<1>1. CASE UNCHANGED gpVars
  BY <1>1 DEF gpVars
<1>2. ASSUME NEW p \in Procs, WriteGroup(p) PROVE UpdateGroup(p)
  <2>1. /\ exists /\ Named(request[p]) \subseteq Known
        /\ entries[p].members = OnMembers(request[p], group)
        /\ p \notin Logged(groupLog)
    BY <1>2 DEF GpInv, CopyOfGroup, Progress, BeforeGroup, WriteGroup, Goto
  <2> QED
    BY <1>2, <2>1 DEF WriteGroup, UpdateGroup
<1>3. ASSUME NEW p \in Procs, WriteGshadow(p) PROVE UpdateGshadow(p)
  <2>1. pc[p] = "write gshadow"
    BY <1>3 DEF WriteGshadow, Goto
  <2>2. /\ p \in Logged(groupLog) /\ p \notin Logged(gshadowLog)
        /\ entries[p].line = OnGshadow(request[p], gshadow, seen[p])
    BY <2>1 DEF GpInv, CopyOfGshadow, Progress, BeforeGroup, AfterGroup, InGshadow
  <2> QED
    BY <1>3, <2>2 DEF WriteGshadow, UpdateGshadow
<1>4. ASSUME NEW p \in Procs, Invocation(p) \/ Kill(p), ~WriteGroup(p), ~WriteGshadow(p)
      PROVE  UNCHANGED dbVars
  BY <1>4 DEF Invocation, Kill, GiveUp, Fail, LockGroup, ReadGroup, UnlockGroup,
              LockGshadow, ReadGshadow, UnlockGshadow
<1> QED
  BY <1>1, <1>2, <1>3, <1>4 DEF GpNext, Next

\* gpasswd implements GroupDatabase: no request is lost, applied twice, applied to an
\* old copy of a file or applied although it was refused.
THEOREM GpImplementsDatabase == GpSpec => ImplementsDatabase
<1>1. GpInit => Init
  BY DEF GpInit
<1> QED
  BY <1>1, StepRefines, GpInvariant, PTL DEF GpSpec, Spec, ImplementsDatabase

-----------------------------------------------------------------------------
(* Why the files agree at rest.  For every user, the members of a file are what *)
(* the last request decided that concerns this user, or what they were at the   *)
(* beginning.  Two requests that concern the same user are in conflict, so the  *)
(* last one is the same for both files.                                         *)

\* Whether p has a say about user u, and what it says.
Decides(p, u) ==
  \/ request[p].kind \in {"members", "both"}
  \/ request[p].kind \in {"add", "delete"} /\ u \in request[p].users
Verdict(p, u) == request[p].kind # "delete" /\ u \in request[p].users

Undecided(log, u) == \A i \in DOMAIN log : ~Decides(log[i], u)
DecidedLast(log, i, u) ==
  i \in DOMAIN log /\ Decides(log[i], u) /\ \A j \in DOMAIN log : Decides(log[j], u) => j <= i
Decided(log, members, u) == \E i \in DOMAIN log : DecidedLast(log, i, u) /\ (u \in members <=> Verdict(log[i], u))

OneEach(log) == \A i, j \in DOMAIN log : log[i] = log[j] => i = j

\* What the database has become, from these members at the beginning.
GroupHistory(initial) ==
  \A u \in Users : \/ Decided(groupLog, group, u)
                   \/ Undecided(groupLog, u) /\ (u \in group <=> u \in initial)
SeenHistory(initial) ==
  \A p \in Logged(groupLog) : \A u \in Users : Undecided(groupLog, u) => (u \in seen[p] <=> u \in initial)
GshadowHistory(initial) ==
  IF gshadow.listed
  THEN \A u \in Users :
         \/ Decided(gshadowLog, gshadow.members, u)
         \/ Undecided(gshadowLog, u) /\ (Undecided(groupLog, u) => (u \in gshadow.members <=> u \in initial))
  ELSE gshadowLog = << >>

DbTypeOK ==
  /\ request \in [Procs -> Requests] /\ group \subseteq Users /\ gshadow \in Line
  /\ seen \in [Procs -> SUBSET Users]
  /\ groupLog \in Seq(Procs) /\ gshadowLog \in Seq(Procs)
  /\ OneEach(groupLog) /\ OneEach(gshadowLog)

DbHistory(initial) == GroupHistory(initial) /\ SeenHistory(initial) /\ GshadowHistory(initial)

\* Whoever has finished has written both files.
Finished ==
  \A p \in Procs : pc[p] = "unlock gshadow" \/ (pc[p] = "done" /\ shadowed) =>
    p \in Logged(groupLog) /\ p \in Logged(gshadowLog)

\* A request decides about the users it concerns and leaves the others alone.
LEMMA OnMembersDecides ==
  ASSUME NEW p \in Procs, request[p] \in Request, NEW members \in SUBSET Users, NEW u \in Users
  PROVE  u \in OnMembers(request[p], members) <=> IF Decides(p, u) THEN Verdict(p, u) ELSE u \in members
<1>1. request[p].kind \in {"add", "delete", "members", "administrators", "both", "password"}
  BY DEF Request
<1> QED
  BY <1>1 DEF OnMembers, Decides, Verdict

\* One more request.
LEMMA OneMore ==
  ASSUME NEW log \in Seq(Procs), NEW p \in Procs
  PROVE  /\ Append(log, p) \in Seq(Procs) /\ Len(log) \in Nat /\ DOMAIN log = 1..Len(log)
         /\ DOMAIN Append(log, p) = 1..(Len(log) + 1)
         /\ \A i \in 1..Len(log) : Append(log, p)[i] = log[i]
         /\ Append(log, p)[Len(log) + 1] = p
BY AppendProperties, LenProperties

\* It is logged once if it was not logged before.
LEMMA OneEachMore ==
  ASSUME NEW log \in Seq(Procs), NEW p \in Procs, OneEach(log), p \notin Logged(log)
  PROVE  OneEach(Append(log, p))
<1>1. \A i \in 1..Len(log) : log[i] # p
  BY OneMore DEF Logged
<1> QED
  BY <1>1, OneMore DEF OneEach

\* A request that concerns the user is the last one to do so.
LEMMA DecidedByLast ==
  ASSUME NEW log \in Seq(Procs), NEW p \in Procs, NEW u, Decides(p, u),
         NEW members, u \in members <=> Verdict(p, u)
  PROVE  Decided(Append(log, p), members, u)
<1> DEFINE n == Len(log) + 1
           more == Append(log, p)
<1>1. DOMAIN more = 1..n /\ more[n] = p /\ n \in 1..n
  BY OneMore
<1> HIDE DEF more, n
<1>2. DecidedLast(more, n, u)
  BY <1>1 DEF DecidedLast
<1> QED
  BY <1>1, <1>2 DEF Decided, more

\* A request that does not concern the user leaves the last one that does.
LEMMA DecidedBefore ==
  ASSUME NEW log \in Seq(Procs), NEW p \in Procs, NEW u, ~Decides(p, u),
         NEW old, NEW new, u \in new <=> u \in old
  PROVE  /\ Decided(log, old, u) => Decided(Append(log, p), new, u)
         /\ Undecided(log, u) <=> Undecided(Append(log, p), u)
<1> DEFINE n == Len(log)
           more == Append(log, p)
<1>1. /\ n \in Nat /\ DOMAIN log = 1..n /\ DOMAIN more = 1..(n + 1)
      /\ \A i \in 1..n : more[i] = log[i]
      /\ more[n + 1] = p
  BY OneMore
<1> HIDE DEF more, n
<1>2. \A i \in 1..(n + 1) : i \in 1..n \/ i = n + 1
  BY <1>1
<1>3. \A i \in 1..n : i \in 1..(n + 1)
  BY <1>1
<1>4. ASSUME Decided(log, old, u) PROVE Decided(more, new, u)
  <2>1. PICK i \in DOMAIN log : DecidedLast(log, i, u) /\ (u \in old <=> Verdict(log[i], u))
    BY <1>4 DEF Decided
  <2>2. i \in 1..n /\ i \in DOMAIN more /\ more[i] = log[i] /\ Decides(log[i], u)
        /\ \A j \in 1..n : Decides(log[j], u) => j <= i
    BY <1>1, <1>3, <2>1 DEF DecidedLast
  <2>3. ASSUME NEW j \in DOMAIN more, Decides(more[j], u) PROVE j <= i
    BY <1>1, <1>2, <2>2, <2>3
  <2>4. DecidedLast(more, i, u)
    BY <2>2, <2>3 DEF DecidedLast
  <2> QED
    BY <2>1, <2>2, <2>4 DEF Decided
<1>5. Undecided(log, u) <=> Undecided(more, u)
  BY <1>1, <1>2, <1>3 DEF Undecided
<1> QED
  BY <1>4, <1>5 DEF more

\* A request that has been applied is not undecided.
LEMMA UndecidedMore ==
  ASSUME NEW log \in Seq(Procs), NEW p \in Procs, NEW u, Undecided(Append(log, p), u)
  PROVE  Undecided(log, u) /\ ~Decides(p, u)
<1>1. /\ Len(log) \in Nat /\ DOMAIN log = 1..Len(log) /\ DOMAIN Append(log, p) = 1..(Len(log) + 1)
      /\ \A i \in 1..Len(log) : Append(log, p)[i] = log[i]
      /\ Append(log, p)[Len(log) + 1] = p
  BY OneMore
<1>2. Len(log) + 1 \in 1..(Len(log) + 1) /\ \A i \in 1..Len(log) : i \in 1..(Len(log) + 1)
  BY <1>1
<1> QED
  BY <1>1, <1>2 DEF Undecided

\* At first nobody has decided anything.
LEMMA HistoryInit == GpInit => DbTypeOK /\ DbHistory(group) /\ Finished
<1> SUFFICES ASSUME GpInit PROVE DbTypeOK /\ DbHistory(group) /\ Finished
  OBVIOUS
<1>1. GpTypeOK
  BY GpInitInv DEF GpInv
<1>2. groupLog = << >> /\ gshadowLog = << >> /\ gshadow \in {NewLine(group), NoLine}
  BY DEF GpInit, Init
<1>3. DOMAIN << >> = {} /\ Logged(<< >>) = {}
  BY LoggedEmpty
<1>4. DbTypeOK
  BY <1>1, <1>2, <1>3 DEF GpTypeOK, DbTypeOK, OneEach
<1>5. gshadow.listed => gshadow.members = group
  BY <1>2 DEF NewLine, NoLine
<1>6. DbHistory(group)
  BY <1>2, <1>3, <1>5 DEF DbHistory, GroupHistory, SeenHistory, GshadowHistory, Undecided
<1>7. Finished
  BY DEF GpInit, Finished
<1> QED
  BY <1>4, <1>6, <1>7

\* A request is applied to /etc/group.
LEMMA HistoryUpdateGroup ==
  ASSUME DbTypeOK, NEW initial, DbHistory(initial), NEW p \in Procs, UpdateGroup(p)
  PROVE  DbTypeOK' /\ DbHistory(initial)'
<1>1. /\ request[p] \in Request /\ group \in SUBSET Users /\ groupLog \in Seq(Procs)
      /\ seen \in [Procs -> SUBSET Users] /\ OneEach(groupLog)
  BY RequestsAssumption DEF DbTypeOK
<1>2. /\ group' = OnMembers(request[p], group) /\ seen' = [seen EXCEPT ![p] = group']
      /\ groupLog' = Append(groupLog, p) /\ UNCHANGED <<request, gshadow, gshadowLog>>
      /\ p \notin Logged(groupLog)
  BY DEF UpdateGroup
<1>3. group' \in SUBSET Users
  BY <1>1, <1>2, OnMembersType
<1>4. DbTypeOK'
  <2>1. groupLog' \in Seq(Procs) /\ OneEach(groupLog')
    BY <1>1, <1>2, OneMore, OneEachMore
  <2>2. seen' \in [Procs -> SUBSET Users]
    BY <1>1, <1>2, <1>3
  <2>3. OneEach(gshadowLog')
    BY <1>2 DEF DbTypeOK
  <2> QED
    BY <1>2, <1>3, <2>1, <2>2, <2>3 DEF DbTypeOK
<1>5. \A q, u : (Decides(q, u)' <=> Decides(q, u)) /\ (Verdict(q, u)' <=> Verdict(q, u))
  BY <1>2 DEF Decides, Verdict
<1>6. \A u \in Users : u \in group' <=> IF Decides(p, u) THEN Verdict(p, u) ELSE u \in group
  BY <1>1, <1>2, OnMembersDecides
<1> DEFINE log == groupLog'
           members == group'
<1>7. ASSUME NEW u \in Users
      PROVE  Decided(log, members, u) \/ (Undecided(log, u) /\ (u \in members <=> u \in initial))
  <2>1. CASE Decides(p, u)
    <3>1. u \in members <=> Verdict(p, u)
      BY <1>6, <2>1
    <3> HIDE DEF members
    <3>2. Decided(Append(groupLog, p), members, u)
      BY <1>1, <2>1, <3>1, DecidedByLast
    <3> QED
      BY <1>2, <3>2
  <2>2. CASE ~Decides(p, u)
    <3>1. u \in members <=> u \in group
      BY <1>6, <2>2
    <3>2. Decided(groupLog, group, u) \/ (Undecided(groupLog, u) /\ (u \in group <=> u \in initial))
      BY DEF DbHistory, GroupHistory
    <3> HIDE DEF members
    <3>3. /\ Decided(groupLog, group, u) => Decided(Append(groupLog, p), members, u)
          /\ Undecided(groupLog, u) <=> Undecided(Append(groupLog, p), u)
      BY <1>1, <2>2, <3>1, DecidedBefore
    <3> QED
      BY <1>2, <3>1, <3>2, <3>3
  <2> QED
    BY <2>1, <2>2
<1>8. \A u : Undecided(log, u) => Undecided(groupLog, u) /\ ~Decides(p, u)
  BY <1>1, <1>2, UndecidedMore
<1>9. ASSUME NEW q \in Logged(log), NEW u \in Users, Undecided(log, u)
      PROVE  u \in seen'[q] <=> u \in initial
  <2>1. CASE q = p
    <3>1. seen'[q] = members
      BY <1>1, <1>2, <2>1
    <3>2. ~Decided(log, members, u)
      BY <1>9 DEF Decided, DecidedLast, Undecided
    <3> QED
      BY <1>7, <3>1, <3>2
  <2>2. CASE q # p
    <3>1. q \in Logged(groupLog) /\ seen'[q] = seen[q]
      <4>1. Logged(log) = Logged(groupLog) \cup {p}
        BY <1>1, <1>2, LoggedAppend
      <4>2. Logged(groupLog) \subseteq Procs
        BY <1>1 DEF Logged
      <4> QED
        BY <1>1, <1>2, <1>9, <2>2, <4>1, <4>2
    <3> QED
      BY <1>8, <1>9, <3>1 DEF DbHistory, SeenHistory
  <2> QED
    BY <2>1, <2>2
<1>10. GshadowHistory(initial)'
  <2>1. ASSUME gshadow.listed, NEW u \in Users
        PROVE  \/ Decided(gshadowLog, gshadow.members, u)
               \/ Undecided(gshadowLog, u) /\ (Undecided(log, u) => (u \in gshadow.members <=> u \in initial))
    BY <1>8, <2>1 DEF DbHistory, GshadowHistory
  <2>2. ~gshadow.listed => gshadowLog = << >>
    BY DEF DbHistory, GshadowHistory
  <2> QED
    BY <1>2, <1>5, <2>1, <2>2 DEF GshadowHistory, Decided, DecidedLast, Undecided
<1>11. GroupHistory(initial)' /\ SeenHistory(initial)'
  BY <1>5, <1>7, <1>9 DEF GroupHistory, SeenHistory, Decided, DecidedLast, Undecided
<1> QED
  BY <1>4, <1>10, <1>11 DEF DbHistory

\* A request is applied to /etc/gshadow.
LEMMA HistoryUpdateGshadow ==
  ASSUME DbTypeOK, NEW initial, DbHistory(initial), NEW p \in Procs, UpdateGshadow(p)
  PROVE  DbTypeOK' /\ DbHistory(initial)'
<1> DEFINE base == IF gshadow.listed THEN gshadow ELSE NewLine(seen[p])
           before == base.members
           members == gshadow'.members
           log == gshadowLog'
<1>1. /\ request[p] \in Request /\ gshadow \in Line /\ gshadowLog \in Seq(Procs)
      /\ seen[p] \in SUBSET Users /\ OneEach(gshadowLog)
  BY RequestsAssumption DEF DbTypeOK
<1>2. /\ gshadow' = OnGshadow(request[p], gshadow, seen[p])
      /\ gshadowLog' = Append(gshadowLog, p) /\ UNCHANGED <<request, group, seen, groupLog>>
      /\ p \in Logged(groupLog) /\ p \notin Logged(gshadowLog)
  BY DEF UpdateGshadow
<1>3. base \in Line /\ before \in SUBSET Users
  <2>1. base \in Line
    BY <1>1, NewLineType
  <2> QED
    BY <2>1 DEF Line
<1>4. gshadow' \in Line /\ gshadow'.listed /\ members = OnMembers(request[p], before)
  <2>1. gshadow' = OnLine(request[p], base)
    BY <1>2 DEF OnGshadow
  <2> HIDE DEF base
  <2>2. OnLine(request[p], base) \in Line
    BY <1>1, <1>3, OnLineType
  <2> QED
    BY <2>1, <2>2 DEF OnLine
<1>5. DbTypeOK'
  <2>1. gshadowLog' \in Seq(Procs) /\ OneEach(gshadowLog')
    BY <1>1, <1>2, OneMore, OneEachMore
  <2>2. OneEach(groupLog')
    BY <1>2 DEF DbTypeOK
  <2> QED
    BY <1>2, <1>4, <2>1, <2>2 DEF DbTypeOK
<1>6. \A q, u : (Decides(q, u)' <=> Decides(q, u)) /\ (Verdict(q, u)' <=> Verdict(q, u))
  BY <1>2 DEF Decides, Verdict
<1> HIDE DEF base
<1>7. \A u \in Users : u \in members <=> IF Decides(p, u) THEN Verdict(p, u) ELSE u \in before
  <2> HIDE DEF before, members
  <2>1. \A u \in Users : u \in OnMembers(request[p], before) <=> IF Decides(p, u) THEN Verdict(p, u) ELSE u \in before
    BY <1>1, <1>3, OnMembersDecides
  <2> QED
    BY <1>4, <2>1
<1>8. ASSUME NEW u \in Users
      PROVE  \/ Decided(gshadowLog, before, u)
             \/ Undecided(gshadowLog, u) /\ (Undecided(groupLog, u) => (u \in before <=> u \in initial))
  <2>1. CASE gshadow.listed
    <3>1. before = gshadow.members
      BY <2>1 DEF base
    <3> QED
      BY <2>1, <3>1 DEF DbHistory, GshadowHistory
  <2>2. CASE ~gshadow.listed
    <3>1. gshadowLog = << >> /\ before = seen[p]
      BY <2>2 DEF base, NewLine, DbHistory, GshadowHistory
    <3>2. Undecided(gshadowLog, u)
      BY <3>1 DEF Undecided
    <3>3. Undecided(groupLog, u) => (u \in seen[p] <=> u \in initial)
      BY <1>2 DEF DbHistory, SeenHistory
    <3> QED
      BY <3>1, <3>2, <3>3
  <2> QED
    BY <2>1, <2>2
<1>9. ASSUME NEW u \in Users
      PROVE  \/ Decided(log, members, u)
             \/ Undecided(log, u) /\ (Undecided(groupLog, u) => (u \in members <=> u \in initial))
  <2>1. CASE Decides(p, u)
    <3>1. u \in members <=> Verdict(p, u)
      BY <1>7, <2>1
    <3> HIDE DEF members
    <3>2. Decided(Append(gshadowLog, p), members, u)
      BY <1>1, <2>1, <3>1, DecidedByLast
    <3> QED
      BY <1>2, <3>2
  <2>2. CASE ~Decides(p, u)
    <3>1. u \in members <=> u \in before
      BY <1>7, <2>2
    <3> HIDE DEF members, before
    <3>2. /\ Decided(gshadowLog, before, u) => Decided(Append(gshadowLog, p), members, u)
          /\ Undecided(gshadowLog, u) <=> Undecided(Append(gshadowLog, p), u)
      BY <1>1, <2>2, <3>1, DecidedBefore
    <3> QED
      BY <1>2, <1>8, <3>1, <3>2
  <2> QED
    BY <2>1, <2>2
<1>10. GshadowHistory(initial)'
  BY <1>2, <1>4, <1>6, <1>9 DEF GshadowHistory, Decided, DecidedLast, Undecided
<1>11. GroupHistory(initial)' /\ SeenHistory(initial)'
  BY <1>2, <1>6 DEF DbHistory, GroupHistory, SeenHistory, Decided, DecidedLast, Undecided, Logged
<1> QED
  BY <1>5, <1>10, <1>11 DEF DbHistory

\* Every step of the database, from whatever members it began with.
LEMMA HistoryStep ==
  ASSUME DbTypeOK, NEW initial, DbHistory(initial), [Next]_dbVars
  PROVE  DbTypeOK' /\ DbHistory(initial)'
<1>1. CASE UNCHANGED dbVars
  <2>1. UNCHANGED <<request, exists, group, gshadow, seen, groupLog, gshadowLog>>
    BY <1>1 DEF dbVars
  <2>2. \A q, u : (Decides(q, u)' <=> Decides(q, u)) /\ (Verdict(q, u)' <=> Verdict(q, u))
    BY <2>1 DEF Decides, Verdict
  <2>3. DbTypeOK'
    BY <2>1 DEF DbTypeOK, OneEach
  <2>4. GshadowHistory(initial)'
    BY <2>1, <2>2 DEF DbHistory, GshadowHistory, Decided, DecidedLast, Undecided
  <2>5. GroupHistory(initial)' /\ SeenHistory(initial)'
    BY <2>1, <2>2 DEF DbHistory, GroupHistory, SeenHistory, Decided, DecidedLast, Undecided, Logged
  <2> QED
    BY <2>3, <2>4, <2>5 DEF DbHistory
<1>2. CASE Next
  BY <1>2, HistoryUpdateGroup, HistoryUpdateGshadow DEF Next
<1> QED
  BY <1>1, <1>2

\* What is logged stays logged.
LEMMA LoggedGrows ==
  ASSUME GpTypeOK, [Next]_dbVars
  PROVE  Logged(groupLog) \subseteq Logged(groupLog)' /\ Logged(gshadowLog) \subseteq Logged(gshadowLog)'
<1>1. groupLog \in Seq(Procs) /\ gshadowLog \in Seq(Procs)
  BY DEF GpTypeOK
<1>2. CASE UNCHANGED dbVars
  BY <1>2 DEF dbVars, Logged
<1>3. ASSUME NEW p \in Procs, UpdateGroup(p)
      PROVE  Logged(groupLog) \subseteq Logged(groupLog)' /\ UNCHANGED gshadowLog
  BY <1>1, <1>3, LoggedAppend DEF UpdateGroup
<1>4. ASSUME NEW p \in Procs, UpdateGshadow(p)
      PROVE  Logged(gshadowLog) \subseteq Logged(gshadowLog)' /\ UNCHANGED groupLog
  BY <1>1, <1>4, LoggedAppend DEF UpdateGshadow
<1> QED
  BY <1>2, <1>3, <1>4 DEF Next, Logged

\* An invocation only ends well after it has written both files.
LEMMA FinishedStep ==
  ASSUME GpInv, GpInv', Finished, [GpNext]_gpVars
  PROVE  Finished'
<1>1. Logged(groupLog) \subseteq Logged(groupLog)' /\ Logged(gshadowLog) \subseteq Logged(gshadowLog)'
  BY LoggedGrows, StepRefines DEF GpInv
<1>2. ASSUME NEW q \in Procs, pc'[q] = "unlock gshadow" \/ (pc'[q] = "done" /\ shadowed')
      PROVE  q \in Logged(groupLog)' /\ q \in Logged(gshadowLog)'
  <2>1. CASE pc'[q] = pc[q] /\ shadowed' = shadowed
    BY <1>1, <1>2, <2>1 DEF Finished
  <2>2. CASE ~(pc'[q] = pc[q] /\ shadowed' = shadowed)
    <3>1. PICK p \in Procs : Invocation(p) \/ Kill(p)
      BY <2>2 DEF GpNext, gpVars
    <3>2. q = p /\ pc'[p] # pc[p] /\ UNCHANGED shadowed /\ pc \in [Procs -> PC]
      BY <2>2, <3>1, StepMoves DEF GpInv, GpTypeOK
    <3>3. CASE pc'[q] = "unlock gshadow"
      <4>1. WriteGshadow(p)
        BY <3>1, <3>2, <3>3 DEF Invocation, Kill, GiveUp, Fail, Goto, LockGroup, ReadGroup, WriteGroup,
              UnlockGroup, LockGshadow, ReadGshadow, UnlockGshadow
      <4>2. Logged(gshadowLog') = Logged(gshadowLog) \cup {p}
        BY <4>1, LoggedAppend DEF WriteGshadow, GpInv, GpTypeOK
      <4>3. p \in Logged(groupLog)'
        BY <3>2, <3>3 DEF GpInv, Progress, AfterGroup, InGshadow
      <4> QED
        BY <3>2, <4>2, <4>3
    <3>4. CASE pc'[q] = "done"
      <4>1. pc[p] = "unlock gshadow" \/ (pc[p] = "unlock group" /\ ~shadowed)
        BY <3>1, <3>2, <3>4 DEF Invocation, Kill, GiveUp, Fail, Goto, LockGroup, ReadGroup, WriteGroup,
              UnlockGroup, LockGshadow, ReadGshadow, WriteGshadow, UnlockGshadow
      <4>2. pc[p] = "unlock gshadow"
        BY <1>2, <3>2, <3>4, <4>1
      <4> QED
        BY <1>1, <3>2, <4>2 DEF Finished
    <3> QED
      BY <1>2, <3>3, <3>4
  <2> QED
    BY <2>1, <2>2
<1> QED
  BY <1>2 DEF Finished

\* If the same requests have been applied in an order that agrees where it matters,
\* the last one that concerns a user is the same.
LEMMA SameLast ==
  ASSUME DbTypeOK, NEW u \in Users, NEW i, NEW j,
         DecidedLast(groupLog, i, u), DecidedLast(gshadowLog, j, u),
         Logged(groupLog) = Procs, Logged(gshadowLog) = Procs,
         \A p, q \in Procs : Conflict(p, q) => (Before(groupLog, p, q) <=> Before(gshadowLog, p, q))
  PROVE  groupLog[i] = gshadowLog[j]
<1>1. /\ DOMAIN groupLog = 1..Len(groupLog) /\ DOMAIN gshadowLog = 1..Len(gshadowLog)
      /\ i \in DOMAIN groupLog /\ j \in DOMAIN gshadowLog
  BY LenProperties DEF DbTypeOK, DecidedLast
<1> DEFINE q == groupLog[i]
           r == gshadowLog[j]
<1>2. q \in Procs /\ r \in Procs /\ Decides(q, u) /\ Decides(r, u)
  BY <1>1 DEF DecidedLast, Logged
<1> SUFFICES ASSUME q # r PROVE FALSE
  OBVIOUS
<1>3. Conflict(r, q)
  <2> HIDE DEF q, r
  <2>1. q # r
    OBVIOUS
  <2>2. request[q].kind \in {"add", "delete", "members", "both"}
        /\ request[r].kind \in {"add", "delete", "members", "both"}
    BY <1>2 DEF Decides
  <2>3. {request[r].kind, request[q].kind} \cap {"members", "both"} # {}
        \/ request[r].users \cap request[q].users # {}
    BY <1>2 DEF Decides
  <2> QED
    BY <2>1, <2>2, <2>3 DEF Conflict, Changes
<1>4. Before(groupLog, r, q)
  <2>1. PICK k \in DOMAIN groupLog : groupLog[k] = r
    BY <1>2 DEF Logged
  <2>2. k <= i /\ k # i
    BY <1>2, <2>1 DEF DecidedLast
  <2> QED
    BY <1>1, <2>1, <2>2 DEF Before
<1>5. Before(gshadowLog, r, q)
  BY <1>2, <1>3, <1>4
<1>6. PICK k, l \in DOMAIN gshadowLog : k < l /\ gshadowLog[k] = r /\ gshadowLog[l] = q
  BY <1>5 DEF Before
<1>7. k = j
  BY <1>1, <1>6 DEF DbTypeOK, OneEach
<1>8. l <= j
  BY <1>2, <1>6 DEF DecidedLast
<1> QED
  BY <1>1, <1>6, <1>7, <1>8

\* Hence both files have the same members.
LEMMA HistoriesAgree ==
  ASSUME GpTypeOK, DbTypeOK, NEW initial, DbHistory(initial), Finished
  PROVE  AgreeAtRest
<1> SUFFICES ASSUME shadowed, \A p \in Procs : pc[p] = "done",
                    \A p, q \in Procs : Conflict(p, q) => (Before(groupLog, p, q) <=> Before(gshadowLog, p, q))
             PROVE  gshadow.members = group
  BY DEF AgreeAtRest
<1>1. Logged(groupLog) = Procs /\ Logged(gshadowLog) = Procs
  <2>1. \A p \in Procs : p \in Logged(groupLog) /\ p \in Logged(gshadowLog)
    BY DEF Finished
  <2>2. Logged(groupLog) \subseteq Procs /\ Logged(gshadowLog) \subseteq Procs
    BY DEF DbTypeOK, Logged
  <2> QED
    BY <2>1, <2>2
<1>2. gshadow.listed
  <2>1. gshadowLog # << >>
    BY <1>1, ProcAssumption, LoggedEmpty
  <2> QED
    BY <2>1 DEF DbHistory, GshadowHistory
<1>3. gshadow.members \subseteq Users /\ group \subseteq Users
  BY DEF DbTypeOK, Line
<1>4. ASSUME NEW u \in Users PROVE u \in gshadow.members <=> u \in group
  <2>1. \/ Decided(gshadowLog, gshadow.members, u)
        \/ Undecided(gshadowLog, u) /\ (Undecided(groupLog, u) => (u \in gshadow.members <=> u \in initial))
    BY <1>2 DEF DbHistory, GshadowHistory
  <2>2. \/ Decided(groupLog, group, u)
        \/ Undecided(groupLog, u) /\ (u \in group <=> u \in initial)
    BY DEF DbHistory, GroupHistory
  <2>3. Undecided(groupLog, u) <=> Undecided(gshadowLog, u)
    <3>1. Undecided(groupLog, u) <=> \A p \in Procs : ~Decides(p, u)
      BY <1>1 DEF Undecided, Logged
    <3>2. Undecided(gshadowLog, u) <=> \A p \in Procs : ~Decides(p, u)
      BY <1>1 DEF Undecided, Logged
    <3> QED
      BY <3>1, <3>2
  <2>4. CASE Undecided(groupLog, u)
    <3>1. ~Decided(groupLog, group, u) /\ ~Decided(gshadowLog, gshadow.members, u)
      BY <2>3, <2>4 DEF Decided, DecidedLast, Undecided
    <3> QED
      BY <2>1, <2>2, <2>4, <3>1
  <2>5. CASE ~Undecided(groupLog, u)
    <3>1. PICK i : DecidedLast(groupLog, i, u) /\ (u \in group <=> Verdict(groupLog[i], u))
      BY <2>2, <2>5 DEF Decided
    <3>2. PICK j : DecidedLast(gshadowLog, j, u) /\ (u \in gshadow.members <=> Verdict(gshadowLog[j], u))
      BY <2>1, <2>3, <2>5 DEF Decided
    <3>3. groupLog[i] = gshadowLog[j]
      BY <1>1, <3>1, <3>2, SameLast
    <3> QED
      BY <3>1, <3>2, <3>3
  <2> QED
    BY <2>4, <2>5
<1> QED
  BY <1>3, <1>4

\* Once all invocations have succeeded, both files list the same members, unless two
\* conflicting requests overtook each other between them.
THEOREM GpAgreeAtRest == GpSpec => []AgreeAtRest
<1> DEFINE Inv == GpInv /\ DbTypeOK /\ (\E initial : DbHistory(initial)) /\ Finished
<1>1. GpInit => Inv
  BY GpInitInv, HistoryInit
<1>2. Inv /\ [GpNext]_gpVars => Inv'
  <2> SUFFICES ASSUME Inv, [GpNext]_gpVars PROVE Inv'
    OBVIOUS
  <2>1. PICK initial : DbHistory(initial)
    OBVIOUS
  <2>2. GpInv'
    BY GpStep
  <2>3. DbTypeOK' /\ DbHistory(initial)'
    BY <2>1, HistoryStep, StepRefines
  <2>4. Finished'
    BY <2>2, FinishedStep
  <2> QED
    BY <2>2, <2>3, <2>4
<1>3. Inv => AgreeAtRest
  BY HistoriesAgree DEF GpInv
<1> QED
  BY <1>1, <1>2, <1>3, PTL DEF GpSpec
=============================================================================
