--------------------------- MODULE MCContainerStart ---------------------------
(* Containers for TLC: each family varies one aspect of a plain container. *)
EXTENDS ContainerStart, TLC

Names == {"HOME", "PATH", "TZ", "USER_ID", "GROUP_ID", "SERVICES_GRACETIME"}

SomeNumerals == "-5" :> -5 @@ "0" :> 0 @@ "7" :> 7 @@ "07" :> 7 @@ "600" :> 600 @@ "20000" :> 20000
SomeOctals == "077" :> 63 @@ "1000" :> 512
SomeNames == {"app", "audio", "bob", "grp7", "staff"}
SomeLists == "" :> {""} @@ "7" :> {"7"} @@ "0,600,20000" :> {"0", "600", "20000"} @@ "7,junk" :> {"7", "junk"}
             @@ "7,07" :> {"7", "07"}

\* Files.
Text(lines) == [exec |-> FALSE, rc |-> 0, big |-> FALSE, lines |-> lines]
Program(rc, lines) == [exec |-> TRUE, rc |-> rc, big |-> FALSE, lines |-> lines]
Big == [exec |-> FALSE, rc |-> 0, big |-> TRUE, lines |-> <<"junk">>]
Value(name, value) == [name |-> name, value |-> value, exec |-> FALSE, rc |-> 0, reads |-> FALSE]
Printing(name, value, rc, reads) ==
  [name |-> name, value |-> value, exec |-> TRUE, rc |-> rc, reads |-> reads]
Script(exec, rc, reads) == [exec |-> exec, rc |-> rc, reads |-> reads, users |-> FALSE]
UsersScript == [Script(TRUE, 0, FALSE) EXCEPT !.users = TRUE]
Pair(var, val) == [var |-> var, val |-> val]

Ids == "USER_ID" :> "600" @@ "GROUP_ID" :> "600"
PlainImage == [user |-> Ids @@ "HOME" :> "/", cont_env |-> << >>, secrets |-> << >>,
               groups |-> {}, users |-> {}, cont_init |-> <<UsersScript>>, cont_finish |-> << >>, exit_script |-> TRUE]
PlainDir == "run" :> Program(0, << >>)

Container(i, d) == [image |-> i, dir |-> d, privileged |-> TRUE]

\* Where environment variables come from, and what the service makes of them.
EnvFiles ==
  {<< >>, <<Value("HOME", "/config"), Value("TZ", "env")>>,
   <<Printing("TZ", "env", 0, FALSE), Value("USER_ID", "app")>>,
   <<Printing("TZ", "env", 100, FALSE)>>,
   <<Printing("TZ", "env", 0, TRUE), Value("HOME", "/config")>>, <<Value("PATH", "/env/bin")>>,
   <<Printing("TZ", "env", 3, FALSE), Value("HOME", "/config")>>, <<Value("1BAD", "env")>>}
Secrets == {<< >>, <<Value("HOME", "/secret"), Value("TZ", "secret")>>, <<Value("1BAD", "secret")>>,
            <<Value("PATH", "/secret/bin")>>}
UserSets == {Ids @@ "HOME" :> "/", Ids @@ "HOME" :> "/" @@ "TZ" :> "user" @@ "PATH" :> "/user/bin",
             "USER_ID" :> "600" @@ "HOME" :> "/", "USER_ID" :> "junk" @@ "GROUP_ID" :> "0"}
             \cup {Ids @@ "SERVICES_GRACETIME" :> w : w \in {"", "7", "junk"}}
EnvSettings ==
  {<< >>, "environment" :> Text(<<Pair("TZ", "srv"), Pair("TZ", "later")>>), "environment" :> Text(<< >>),
   "environment" :> Text(<<Pair("1BAD", "srv")>>), "environment" :> Program(0, << >>),
   "environment" :> Program(1, << >>), "environment_extra" :> Program(0, <<Pair("TZ", "srv")>>),
   "environment_extra" :> Text(<<Pair("TZ", "srv")>>), "environment_extra" :> Program(1, <<Pair("TZ", "srv")>>)}

Environments ==
  {Container([PlainImage EXCEPT !.user = u, !.cont_env = e, !.secrets = s], PlainDir @@ d) :
     u \in UserSets, e \in EnvFiles, s \in Secrets, d \in EnvSettings}

\* Scripts that succeed, fail, or are not executable.
Scripts(reads) == {Script(TRUE, 0, reads), Script(TRUE, 3, FALSE), Script(FALSE, 0, FALSE)}
UpTo2(S) == {<< >>} \cup {<<a>> : a \in S} \cup {<<a, b>> : a, b \in S}
Reading(S) == {[f EXCEPT !.reads = TRUE] : f \in S}

Scripted ==
  {Container([PlainImage EXCEPT !.cont_init = <<UsersScript>> \o i, !.cont_finish = f, !.exit_script = x], PlainDir) :
     i \in UpTo2(Scripts(FALSE)), f \in UpTo2(Scripts(TRUE)), x \in BOOLEAN}

\* One setting at a time, with every kind of file and of value.
Words == {<< >>, <<"">>, <<"yes">>, <<"no", "yes">>, <<"-5">>, <<"7">>, <<"20000">>, <<"app">>,
          <<"077">>, <<"1000">>, <<"yearly">>, <<"7", "app">>, <<"", "7">>, <<"7", "", "0", "7">>,
          <<"7", "0", "7", "0">>}
OneSetting ==
  {s :> f : s \in {Settings[i] : i \in DOMAIN Settings} \ {"environment", "environment_extra"},
            f \in {Text(w) : w \in Words} \cup {Program(rc, w) : rc \in {0, 1}, w \in Words}
                  \cup {Big}}

Exclusive ==
  {"respawn" :> Text(<<"yes">>) @@ "sync" :> Text(<<a>>) @@ "interval" :> Text(<<b>>) :
     a \in {"yes", "no"}, b \in {"0", "7"}}

Set ==
  {Container(PlainImage, d @@ PlainDir) : d \in OneSetting \cup Exclusive}
  \cup {Container(PlainImage, d) : d \in {<< >>, "run" :> Text(<<"junk">>)}}

\* Identities, for a supervisor that is root or not.
Identities ==
  {[Container(PlainImage, "uid" :> Text(<<u>>) @@ "gid" :> Text(<<g>>) @@ "sgid" :> Text(<<"7", "app">>)
                          @@ "priority" :> Text(<<p>>) @@ "workdir" :> Text(<<w>>) @@ PlainDir)
    EXCEPT !.privileged = root] :
     u \in {"0", "7", "app"}, g \in {"0", "7", "app"}, p \in {"-5", "0", "7"}, w \in {"", "/srv"},
     root \in BOOLEAN}

\* Users and groups: two directories of each, with and without contradictions, the
\* ids of app among them or not, supplementary groups.
Dir(name, files) == [dir |-> name, files |-> files]
Id(w) == "id" :> Text(<<w>>)
Audio == Dir("audio", Id("7"))
SomeGroups ==
  {{}, {Audio}, {Audio, Dir("staff", Id("600"))}, {Audio, Dir("grp7", Id("20000"))},
   {Audio, Dir("staff", Id("7"))}, {Audio, Dir("staff", Id("600") @@ "name" :> Text(<<"audio">>))},
   {Dir("grp7", Id("20000")), Dir("staff", Id("600"))},
   {Audio, Dir("staff", Id("600") @@ "disabled" :> Text(<< >>))},
   {Audio, Dir("staff", Id("600") @@ "disabled" :> Program(0, << >>))},
   {Dir("audio", "id" :> Program(1, <<"7">>))}, {Dir("audio", Id("-5"))}, {Dir("x y", Id("7"))},
   {Dir("app", Id("7"))}}
Bob(uid, gid, grps) == Dir("bob", Id(uid) @@ "gid" :> Text(<<gid>>) @@ "grps" :> Text(grps))
SomeUsers ==
  {{}, {Bob("7", "7", << >>)}, {Bob("600", "7", <<"audio", "">>)}, {Bob("7", "7", <<"staff", "app">>)},
   {Bob("7", "600", <<"staff">>), Dir("staff", Id("0") @@ "gid" :> Text(<<"7">>) @@ "home" :> Text(<<"/srv">>)
                                              @@ "grps" :> Text(<<"audio">>))},
   {Bob("7", "7", << >>), Dir("staff", Id("7") @@ "gid" :> Text(<<"7">>))},
   {Bob("7", "7", << >>), Dir("staff", Id("0") @@ "gid" :> Text(<<"7">>) @@ "name" :> Text(<<"bob">>))},
   {Bob("junk", "7", << >>)}, {Bob("7", "7", <<"app">>)}}
SupplementarySets == {<< >>} \cup {"SUP_GROUP_IDS" :> l : l \in DOMAIN SomeLists}
                     \cup {"SUP_GROUP_IDS" :> "7" @@ "SUP_GROUP_IDS_INTERNAL" :> "0,600,20000"}

Populated ==
  {Container([PlainImage EXCEPT !.groups = g, !.users = u, !.user = @ @@ s],
             PlainDir @@ "uid" :> Text(<<"bob">>) @@ "gid" :> Text(<<"audio">>)
                      @@ "sgid" :> Text(<<"app", "20000">>)) :
     g \in SomeGroups, u \in SomeUsers, s \in SupplementarySets}

\* Containers without that script.
Bare == {Container([PlainImage EXCEPT !.cont_init = << >>, !.user = u], PlainDir) : u \in UserSets}

Containers == Environments \cup Scripted \cup Set \cup Identities \cup Populated \cup Bare

\* Initialization scripts that read their standard input.
Interactive ==
  {Container([PlainImage EXCEPT !.cont_init = <<UsersScript>> \o i], PlainDir) :
     i \in UpTo2(Scripts(TRUE))}

\* What the stack holds when a program prints nothing.
Junk == {<<"junk">>, <<"7">>, <<"no">>}
=============================================================================
