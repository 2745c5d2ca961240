------------------------------ MODULE InitUsers ------------------------------
(***************************************************************************)
(* The tables of users and groups that 10-init-users.sh writes, from the   *)
(* directories /etc/cont-groups.d and /etc/cont-users.d and from the       *)
(* environment (rootfs/etc/cont-init.d/10-init-users.sh).                  *)
(*                                                                         *)
(* A directory entry is a record [dir, files]; a file has lines, and if it *)
(* is executable an exit status.  Ids stay the words that they are in the  *)
(* files.  Passwords (/etc/shadow, /etc/gshadow) go along with the entries *)
(* of the other two tables and are left out.                               *)
(***************************************************************************)
EXTENDS Naturals, Sequences, SequencesExt, FiniteSets

CONSTANTS
  Numerals,      \* what words mean as decimal numbers
  AccountNames,  \* names that users and groups may have
  Lists          \* the elements of comma-separated lists: words of digits, or without any

ASSUME ListsAssumption == \A list \in DOMAIN Lists : IsFiniteSet(Lists[list])

Digits == {w \in DOMAIN Numerals : Numerals[w] >= 0}

NoAccounts == [passwd |-> << >>, group |-> << >>, rc |-> 0]

\* The script ends with the first error (set -e), also inside of a loop.
Stop(t, rc) == [t EXCEPT !.rc = IF @ = 0 THEN rc ELSE @]

UserNames(t) == {t.passwd[i].name : i \in DOMAIN t.passwd}
UserIds(t) == {t.passwd[i].uid : i \in DOMAIN t.passwd}
GroupNames(t) == {t.group[i].name : i \in DOMAIN t.group}
GroupIds(t) == {t.group[i].gid : i \in DOMAIN t.group}

-----------------------------------------------------------------------------
(* Lines of the tables. *)

AddGroup(t, name, gid, duplicates) ==
  IF t.rc # 0 \/ (~duplicates /\ (gid \in GroupIds(t) \/ name \in GroupNames(t)))
  THEN Stop(t, 1)
  ELSE [t EXCEPT !.group = Append(@, [name |-> name, gid |-> gid, members |-> << >>])]

AddUser(t, user, duplicates) ==
  IF \/ t.rc # 0
     \/ ~duplicates /\ (user.uid \in UserIds(t) \/ user.name \in UserNames(t))
     \/ user.gid \notin GroupIds(t)
  THEN Stop(t, 1)
  ELSE [t EXCEPT !.passwd = Append(@, user)]

\* Every line of that name gets the member, with a comma before it unless one of
\* them has no member yet.
WithMember(members, user, comma) ==
  IF members = << >> \/ comma THEN Append(members, user)
                              ELSE [members EXCEPT ![Len(members)] = @ \o user]

AddUserToGroup(t, user, name) ==
  IF t.rc # 0 \/ user \notin UserNames(t) \/ name \notin GroupNames(t)
  THEN Stop(t, 1)
  ELSE LET comma == \A i \in DOMAIN t.group : t.group[i].name = name => t.group[i].members # << >>
       IN  [t EXCEPT !.group = [i \in DOMAIN t.group |->
              IF t.group[i].name = name
              THEN [t.group[i] EXCEPT !.members = WithMember(@, user, comma)]
              ELSE t.group[i]]]

-----------------------------------------------------------------------------
(* Directories. *)

\* get_content.  All contents but that of "grps" are single lines.
Content(e, attribute) == IF attribute \in DOMAIN e.files THEN e.files[attribute].lines ELSE << >>
Attribute(e, attribute) == IF Content(e, attribute) = << >> THEN "" ELSE Content(e, attribute)[1]
Broken(e) == \E a \in DOMAIN e.files : e.files[a].exec /\ e.files[a].rc # 0

\* A file of size 0 means true; a program that prints nothing does not.
Disabled(e) ==
  /\ "disabled" \in DOMAIN e.files
  /\ IF Content(e, "disabled") = << >> THEN ~e.files["disabled"].exec ELSE Attribute(e, "disabled") = "yes"

NameOf(e) == IF Attribute(e, "name") = "" THEN e.dir ELSE Attribute(e, "name")

HomeOf(e) == IF Attribute(e, "home") = "" THEN "/dev/null" ELSE Attribute(e, "home")
UserOf(e) == [name |-> NameOf(e), uid |-> Attribute(e, "id"), gid |-> Attribute(e, "gid"), home |-> HomeOf(e)]

Acceptable(e, ids) == NameOf(e) \in AccountNames /\ \A a \in ids : Attribute(e, a) \in Digits

AddDefinedGroup(t, e) ==
  CASE Broken(e) -> Stop(t, 1)
    [] ~Broken(e) /\ Disabled(e) -> t
    [] OTHER -> IF Acceptable(e, {"id"}) THEN AddGroup(t, NameOf(e), Attribute(e, "id"), FALSE)
                                         ELSE Stop(t, 1)

\* Empty lines of "grps" are skipped.
AddToListed(t, user, group) == IF group = "" THEN t ELSE AddUserToGroup(t, user, group)

AddDefinedUser(t, e) ==
  CASE Broken(e) -> Stop(t, 1)
    [] ~Broken(e) /\ Disabled(e) -> t
    [] OTHER -> IF Acceptable(e, {"id", "gid"})
                THEN FoldLeft(LAMBDA tables, group : AddToListed(tables, NameOf(e), group),
                              AddUser(t, UserOf(e), FALSE), Content(e, "grps"))
                ELSE Stop(t, 1)

-----------------------------------------------------------------------------
(* The user `app'. *)

HomeOfApp(env) == IF "HOME" \in DOMAIN env /\ env["HOME"] # "" THEN env["HOME"] ELSE "/config"
AppOf(env) == [name |-> "app", uid |-> env["USER_ID"], gid |-> env["GROUP_ID"], home |-> HomeOfApp(env)]

\* Its ids may be those of others, and are not validated.
AddApp(t, env) ==
  IF {"USER_ID", "GROUP_ID"} \subseteq DOMAIN env
  THEN AddUserToGroup(AddUser(AddGroup(t, "app", env["GROUP_ID"], TRUE), AppOf(env), TRUE), "app", "app")
  ELSE Stop(t, 2)

Elements(env, var) == IF var \in DOMAIN env THEN Lists[env[var]] ELSE {}

\* (Mutant: the primary group may be among them.)
SupplementaryAll(env) ==
  (Elements(env, "SUP_GROUP_IDS") \cup Elements(env, "SUP_GROUP_IDS_INTERNAL")) \ {"", "0"}
Supplementary(env) ==
  (Elements(env, "SUP_GROUP_IDS") \cup Elements(env, "SUP_GROUP_IDS_INTERNAL"))
     \ {"", "0", env["GROUP_ID"]}

\* Sorted by number, one word of each number.  Which one depends on the build of
\* sort(1); a word without digits counts as 0.
SortKey(word) == IF word \in Digits THEN Numerals[word] ELSE 0
SortNub(words) ==
  {ids \in UNION {SetToSeqs(kept) : kept \in SUBSET words} :
     /\ \A i, j \in DOMAIN ids : i < j => SortKey(ids[i]) < SortKey(ids[j])
     /\ \A w \in words : \E i \in DOMAIN ids : SortKey(ids[i]) = SortKey(w)}

\* The first group with that id, or a new one.
AddSupplementary(t, gid) ==
  CASE gid \notin Digits -> Stop(t, 1)
    [] gid \in Digits /\ gid \in GroupIds(t) ->
         LET of == {i \in DOMAIN t.group : t.group[i].gid = gid}
             first == CHOOSE i \in of : \A j \in of : i <= j
         IN  AddUserToGroup(t, "app", t.group[first].name)
    [] OTHER -> AddUserToGroup(AddGroup(t, "grp" \o gid, gid, FALSE), "app", "grp" \o gid)

AddAppToGroups(t, env) ==
  IF t.rc # 0 THEN {t}
              ELSE {FoldLeft(AddSupplementary, t, ids) : ids \in SortNub(Supplementary(env))}

\* The outcomes of the script: find(1) lists directories in any order.
InitUsers(groups, users, env) ==
  UNION {AddAppToGroups(AddApp(FoldLeft(AddDefinedUser, FoldLeft(AddDefinedGroup, NoAccounts, gs), us),
                               env), env) : gs \in SetToSeqs(groups), us \in SetToSeqs(users)}

-----------------------------------------------------------------------------
(* getpwnam and getgrnam, as cinit uses them: the first line of that name  *)
(* that can be parsed.                                                     *)

FirstNumbers(entries, parsed, field) ==
  [name \in {entries[i].name : i \in parsed} |->
     LET of == {i \in parsed : entries[i].name = name}
     IN  Numerals[entries[CHOOSE i \in of : \A j \in of : i <= j][field]]]

UserNumbers(t) ==
  FirstNumbers(t.passwd, {i \in DOMAIN t.passwd : {t.passwd[i].uid, t.passwd[i].gid} \subseteq Digits}, "uid")
GroupNumbers(t) ==
  FirstNumbers(t.group, {i \in DOMAIN t.group : t.group[i].gid \in Digits}, "gid")
=============================================================================
