---------------------------- MODULE ContainerStart ----------------------------
(***************************************************************************)
(* A container from its creation to its end: the init process              *)
(* (ContainerInit) gives control to cinit, which loads and launches a      *)
(* service (ServiceLaunch), ends at some point with some status and leaves *)
(* the rest to the exit script.  How services run, end and are started     *)
(* again in between is the subject of Cinit.                               *)
(***************************************************************************)
EXTENDS ServiceLaunch

CONSTANTS
  Configurations,  \* what a container consists of: [image, dir, privileged]
  Statuses         \* that cinit may end with

\* Directories list their files in order, each name once.
Listing(files) == Len(files) \in Nat /\ DOMAIN files = 1..Len(files)
Unique(files) == \A i, j \in DOMAIN files : files[i].name = files[j].name => i = j

ASSUME ConfigurationsAssumption ==
  \A c \in Configurations :
    /\ Listing(c.image.cont_env) /\ Unique(c.image.cont_env)
    /\ Listing(c.image.secrets) /\ Unique(c.image.secrets)
    /\ Listing(c.image.cont_init) /\ Listing(c.image.cont_finish)
    /\ IsFiniteSet(c.image.groups) /\ IsFiniteSet(c.image.users)
    /\ \A e \in c.image.groups \cup c.image.users : \A a \in DOMAIN e.files : Listing(e.files[a].lines)

\* The lists that a container may be given.
ListVariables == {"SUP_GROUP_IDS", "SUP_GROUP_IDS_INTERNAL"}
ASSUME ListVariablesAssumption ==
  \A c \in Configurations :
    /\ \A var \in ListVariables \cap DOMAIN c.image.user : c.image.user[var] \in DOMAIN Lists
    /\ \A files \in {c.image.cont_env, c.image.secrets} : \A i \in DOMAIN files :
         files[i].name \in ListVariables => files[i].value \in DOMAIN Lists

\* Names made from ids differ from each other, and from the name of the user.
ASSUME GroupNamesAssumption ==
  \A a, b \in Digits : "grp" \o a # "app" /\ ("grp" \o a = "grp" \o b => a = b)

ASSUME NumeralsAssumption == \A w \in DOMAIN Numerals : Numerals[w] \in Int

vars == <<initVars, launchVars>>

Init == \E c \in Configurations : InitContainer(c.image) /\ LaunchInit(c.dir, c.privileged)

\* cinit ends when all processes are gone.
End ==
  /\ \E code \in Statuses : SupervisorEnds(code)
  /\ pc \notin {"load disabled", "check run", "load", "validate", "child"}
  /\ pc' = IF pc = "running" THEN "gone" ELSE pc
  /\ UNCHANGED <<dir, privileged, context, next, entry, proc>>

Next ==
  \/ InitStep /\ UNCHANGED launchVars
  \/ GiveControl
  \/ stage = "supervisor" /\ LaunchStep /\ UNCHANGED initVars
  \/ End

Spec == Init /\ [][Next]_vars

-----------------------------------------------------------------------------
(* What was asked for, read off the configuration. *)

Given(s) == s \in DOMAIN dir /\ ~Unset(s)
Word(s) == FirstLine(Received(s))
ItemsOf(s) == IF Given(s) THEN Entries(s, Received(s)) ELSE << >>

Named(files, var) == {i \in DOMAIN files : files[i].name = var}
Loadable(var) ==
  {i \in Named(image.cont_env, var) : image.cont_env[i].exec => image.cont_env[i].rc = 0}

\* The variables of the container: secrets, then what the user has set, except HOME
\* and PATH, then /etc/cont-env.d.  PATH is that of /init.
ContainerHas(var) ==
  LET secret == {image.secrets[i].value : i \in Named(image.secrets, var)}
      user == IF var = "PATH" THEN {OwnPath}
              ELSE IF var \in DOMAIN image.user THEN {image.user[var]} ELSE {}
      own == {image.cont_env[i].value : i \in Loadable(var)}
  IN  CASE secret # {} -> secret
        [] secret = {} /\ var = "HOME" /\ own # {} -> own
        [] secret = {} /\ ~(var = "HOME" /\ own # {}) /\ user # {} -> user
        [] OTHER -> own

Listed(s, var) ==
  LET of == {i \in DOMAIN ItemsOf(s) : ItemsOf(s)[i].var = var}
  IN  {ItemsOf(s)[i].val : i \in {i \in of : \A j \in of : i <= j}}

ServiceHas(var) ==
  IF Given("environment") THEN Listed("environment", var)
  ELSE IF ContainerHas(var) # {} THEN ContainerHas(var) ELSE Listed("environment_extra", var)

\* getenv: the first entry counts.
Getenv(env, var) ==
  LET of == {i \in DOMAIN env.listed : env.listed[i].var = var}
  IN  IF var \in DOMAIN env.inherited THEN {env.inherited[var]}
      ELSE {env.listed[i].val : i \in {i \in of : \A j \in of : i <= j}}

Default(type, var) == CHOOSE id \in {Meaning(type)[w] : w \in ContainerHas(var)} : TRUE

\* What setting s is to be, where default is its default.
Asked(s, default) == IF Given(s) THEN Meaning(Type(s))[Word(s)] ELSE default

-----------------------------------------------------------------------------
(* Properties. *)

TypeOK == InitTypeOK /\ LaunchTypeOK

\* No program of /etc/cont-env.d takes the names of the next ones for its input, and
\* every program that gives a value to a setting of the service prints a line that is
\* not empty.
ListUntouched == \A i \in DOMAIN image.cont_env : ~image.cont_env[i].reads
Printed(s) == s \in DOMAIN dir => ~Silent(s) \/ Type(s) \in {"text", "list"}

\* From the creation of the container to the program of a service: every variable
\* has the value with the highest precedence (secrets over the PATH of /init over the
\* user's variables over /etc/cont-env.d; "environment" instead of all of them; the
\* container's over "environment_extra").
EnvironmentDelivered ==
  pc = "running" /\ ListUntouched =>
    \A var \in ValidNames : Getenv(proc.env, var) = ServiceHas(var)

\* A program only ever runs with the identity its service asks for, whatever step
\* of the child fails and whoever cinit runs as.
IdentityAsAsked ==
  pc = "running" /\ ListUntouched /\ (\A i \in DOMAIN Settings : Printed(Settings[i])) =>
    /\ proc.uid = Asked("uid", Default("uid", "USER_ID"))
    /\ proc.gid = Asked("gid", Default("gid", "GROUP_ID"))
    /\ proc.groups = IF Given("sgid") THEN Groups(ItemsOf("sgid")) ELSE << >>
    /\ proc.umask = Asked("umask", 18)
    /\ proc.priority = Asked("priority", 0)
    /\ proc.workdir = IF Given("workdir") THEN Word("workdir") ELSE ""
    /\ proc.params = ItemsOf("params")

\* Nothing runs for a service that is disabled or has no program, not even when
\* somebody asks for its restart, and nothing runs with a setting that could not be
\* read: its file is too big, or its program fails, whatever it prints.
OnlyEnabledRun ==
  pc = "running" =>
    /\ "run" \in DOMAIN dir /\ dir.run.exec
    /\ Printed("disabled") => ~Asked("disabled", FALSE)
    /\ \A i \in DOMAIN Settings : Settings[i] \in DOMAIN dir => ~Unreadable(Settings[i])

Executables(files) == {i \in DOMAIN files : files[i].exec}
InOrder(s) == \A i, j \in DOMAIN s : i < j => s[i] < s[j]

\* Services only start after the initialization scripts, which ran in order, each
\* after the success of the one before: all of them, if none reads its standard
\* input.
InitializedFirst ==
  /\ InOrder(ran)
  /\ pc # "none" =>
       /\ \A i \in DOMAIN ran : image.cont_init[ran[i]].users \/ image.cont_init[ran[i]].rc = 0
       /\ accounts.rc = 0
       /\ (\A i \in Executables(image.cont_init) : ~image.cont_init[i].reads)
             => {ran[i] : i \in DOMAIN ran} = Executables(image.cont_init)

\* The documentation promises it whatever the scripts do.
AllScriptsRun == pc # "none" => {ran[i] : i \in DOMAIN ran} = Executables(image.cont_init)

\* What the directories of users and groups and the environment ask for, as sets.
Enabled(entries) == {e \in entries : ~Disabled(e)}
SupplementaryAsked ==
  (UNION {Lists[environ[var]] : var \in ListVariables \cap DOMAIN environ})
     \ ({"", "0"} \cup {environ[var] : var \in {"GROUP_ID"} \cap DOMAIN environ})
OnePerNumber(words) ==
  {kept \in SUBSET words :
     /\ \A v, w \in kept : SortKey(v) = SortKey(w) => v = w
     /\ \A w \in words : \E v \in kept : SortKey(v) = SortKey(w)}
Additional(asked) == asked \ {Attribute(g, "id") : g \in Enabled(image.groups)}

Distinct(entries) ==
  \A d, e \in Enabled(entries) :
     d # e => NameOf(d) # NameOf(e) /\ Attribute(d, "id") # Attribute(e, "id")

Elems(s) == {s[i] : i \in DOMAIN s}
GroupsOf(u) == Elems(Content(u, "grps")) \ {""}

Sound(asked) ==
  /\ \A e \in image.groups \cup image.users : ~Broken(e)
  /\ \A g \in Enabled(image.groups) : Acceptable(g, {"id"})
  /\ \A u \in Enabled(image.users) :
        /\ Acceptable(u, {"id", "gid"})
        /\ \E g \in Enabled(image.groups) : Attribute(g, "id") = Attribute(u, "gid")
        /\ \A name \in GroupsOf(u) : \E g \in Enabled(image.groups) : NameOf(g) = name
  /\ Distinct(image.groups) /\ Distinct(image.users)
  /\ {"USER_ID", "GROUP_ID"} \subseteq DOMAIN environ
  /\ asked \subseteq Digits
  /\ \A g \in Enabled(image.groups) : \A id \in Additional(asked) : NameOf(g) # "grp" \o id

MembersOf(g, asked) ==
  {NameOf(u) : u \in {u \in Enabled(image.users) : NameOf(g) \in GroupsOf(u)}}
    \cup IF Attribute(g, "id") \in asked THEN {"app"} ELSE {}

Group(name, gid, members) == [name |-> name, gid |-> gid, members |-> members]
GroupsAsked(asked) ==
  {Group(NameOf(g), Attribute(g, "id"), MembersOf(g, asked)) : g \in Enabled(image.groups)}
    \cup {Group("grp" \o id, id, {"app"}) : id \in Additional(asked)}
    \cup {Group("app", environ["GROUP_ID"], {"app"})}

UsersScriptRan == \E i \in DOMAIN ran : image.cont_init[ran[i]].users

\* In whatever order the directories are found: the script succeeds exactly if no two
\* of them contradict each other and every group they name exists; then the tables
\* hold what was asked for and nothing else, and app is a member of its own group
\* and of the supplementary ones that are not.  Of the words that mean the same
\* number, one counts.
AccountsAsDefined ==
  UsersScriptRan /\ (\A e \in image.groups \cup image.users : NameOf(e) # "app") =>
    \E asked \in OnePerNumber(SupplementaryAsked) :
      /\ accounts.rc = 0 <=> Sound(asked)
      /\ Sound(asked) =>
           /\ Elems(accounts.passwd) = {UserOf(u) : u \in Enabled(image.users)} \cup {AppOf(environ)}
           /\ {Group(g.name, g.gid, Elems(g.members)) : g \in Elems(accounts.group)} = GroupsAsked(asked)

\* What cinit ended with is what the container ends with, whatever the
\* finalization scripts do.  A container whose initialization fails ends with an
\* error and starts nothing.
StatusKept ==
  /\ [][status # NoStatus => status' = status]_vars
  /\ [](stage = "exited" /\ pc = "none" => status # 0)
=============================================================================
