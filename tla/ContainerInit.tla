---------------------------- MODULE ContainerInit ----------------------------
(***************************************************************************)
(* The init process of the container: /init up to the point where it gives *)
(* control to cinit, and the exit script that cinit becomes at the end     *)
(* (rootfs/init, rootfs/etc/services.d/exit).                              *)
(*                                                                         *)
(* Each stage is a loop over a sorted list of files.  The list is the      *)
(* standard input of the loop, and also of the programs it runs: a program *)
(* that reads its standard input takes the next lines of the list away.    *)
(***************************************************************************)
EXTENDS InitUsers

CONSTANTS
  ValidNames,   \* file names that may be names of environment variables ...
  NoStatus      \* the container is running

VARIABLES
  image,        \* the files and the environment of the container (never changes)
  stage,        \* what pid 1 is doing
  todo,         \* positions in the list of this stage that are still to be read
  environ,      \* the environment variables of pid 1
  accounts,     \* /etc/passwd and /etc/group
  ran,          \* the initialization scripts that were executed, in order
  finished,     \* the finalization scripts that were executed, in order
  status        \* the exit status: of cinit, then of the container

initVars == <<image, stage, todo, environ, accounts, ran, finished, status>>

Stage == {"cont-env", "cont-secrets", "cont-init", "init", "supervisor", "finish", "exited"}

\* The files each stage goes through, sorted by name.
Files(s) ==
  CASE s = "cont-env" -> image.cont_env
    [] s = "cont-secrets" -> image.secrets
    [] s = "cont-init" -> image.cont_init
    [] s = "finish" -> image.cont_finish
    [] OTHER -> << >>

Positions(s) == [i \in DOMAIN Files(s) |-> i]

\* /init sets its own PATH before anything else.  The names of its other variables
\* (STAGE, MIN_LOG_PREFIX_LENGTH, flist, fpath, fname, cmd_out, val, rc, var_name, ...)
\* and of those that the shell keeps are not among the ValidNames.
OwnPath == "/usr/local/sbin:/usr/local/bin:/usr/sbin:/usr/bin:/sbin:/bin:/opt/base/sbin:/opt/base/bin"

InitContainer(i) ==
  /\ image = i
  /\ stage = "cont-env"
  /\ todo = Positions("cont-env")
  /\ environ = [v \in DOMAIN i.user \cup {"PATH"} |-> IF v = "PATH" THEN OwnPath ELSE i.user[v]]
  /\ accounts = NoAccounts
  /\ ran = << >> /\ finished = << >>
  /\ status = NoStatus

-----------------------------------------------------------------------------
(* Helpers. *)

Current == Files(stage)[Head(todo)]

\* What a program leaves of the list: all of it unless it reads its standard input.
Left(file) == IF file.reads THEN {SubSeq(todo, k, Len(todo)) : k \in 2..(Len(todo) + 1)}
                            ELSE {Tail(todo)}

Exit(code) == stage' = "exited" /\ status' = code /\ UNCHANGED <<todo, environ>>

With(var, value) == [v \in DOMAIN environ \cup {var} |-> IF v = var THEN value ELSE environ[v]]

\* load_env_var: only when unset; HOME and secrets always.  (Mutant: HOME like any
\* other variable.)
LoadEnvVarHome(var, value, force) ==
  environ' = IF force \/ var \notin DOMAIN environ THEN With(var, value) ELSE environ
LoadEnvVar(var, value, force) ==
  environ' = IF force \/ var \notin DOMAIN environ \/ var = "HOME"
             THEN With(var, value) ELSE environ

-----------------------------------------------------------------------------
(* Environment variables. *)

\* The message about a secret names a variable of the previous stage, which is
\* an error of its own if that stage had no file.
BadName ==
  /\ stage \in {"cont-env", "cont-secrets"} /\ todo # << >>
  /\ Current.name \notin ValidNames
  /\ Exit(IF stage = "cont-secrets" /\ image.cont_env = << >> THEN 2 ELSE 1)
  /\ UNCHANGED <<image, accounts, ran, finished>>

\* A file that is not executable: its first line.
LoadFile ==
  /\ stage = "cont-env" /\ todo # << >>
  /\ Current.name \in ValidNames /\ ~Current.exec
  /\ LoadEnvVar(Current.name, Current.value, FALSE)
  /\ todo' = Tail(todo)
  /\ UNCHANGED <<image, accounts, stage, ran, finished, status>>

\* A program: the first line it prints, unless it ends with 100.
LoadProgram ==
  /\ stage = "cont-env" /\ todo # << >>
  /\ Current.name \in ValidNames /\ Current.exec
  /\ \/ /\ Current.rc = 0
        /\ LoadEnvVar(Current.name, Current.value, FALSE)
        /\ todo' \in Left(Current)
        /\ UNCHANGED <<stage, status>>
     \/ /\ Current.rc = 100
        /\ todo' \in Left(Current)
        /\ UNCHANGED <<environ, stage, status>>
     \/ /\ Current.rc \notin {0, 100}
        /\ Exit(Current.rc)
  /\ UNCHANGED <<image, accounts, ran, finished>>

LoadSecret ==
  /\ stage = "cont-secrets" /\ todo # << >>
  /\ Current.name \in ValidNames
  /\ LoadEnvVar(Current.name, Current.value, TRUE)
  /\ todo' = Tail(todo)
  /\ UNCHANGED <<image, accounts, stage, ran, finished, status>>

-----------------------------------------------------------------------------
(* Initialization and finalization scripts. *)

\* A file without execute permission is ignored.
SkipScript ==
  /\ stage \in {"cont-init", "finish"} /\ todo # << >>
  /\ ~Current.exec
  /\ todo' = Tail(todo)
  /\ UNCHANGED <<image, accounts, stage, environ, ran, finished, status>>

\* A script that fails ends the container.  (Mutant: it is ignored.)
ScriptIgnored(rc) == todo' \in Left(Current) /\ UNCHANGED <<stage, environ, status>>
ScriptEnded(rc) ==
  \/ rc = 0 /\ todo' \in Left(Current) /\ UNCHANGED <<stage, environ, status>>
  \/ rc # 0 /\ Exit(rc)

RunInitScript ==
  /\ stage = "cont-init" /\ todo # << >>
  /\ Current.exec
  /\ ran' = Append(ran, Head(todo))
  /\ \/ /\ ~Current.users
        /\ ScriptEnded(Current.rc)
        /\ UNCHANGED accounts
     \/ /\ Current.users
        /\ accounts' \in InitUsers(image.groups, image.users, environ)
        /\ ScriptEnded(accounts'.rc)
  /\ UNCHANGED <<image, finished>>

\* The exit script ignores failures.  (Mutant: and ends with them.)
FinishEndedWith(rc) == todo' \in Left(Current) /\ status' = IF rc = 0 THEN status ELSE rc
FinishEnded(rc) == todo' \in Left(Current) /\ UNCHANGED status

RunFinishScript ==
  /\ stage = "finish" /\ todo # << >>
  /\ Current.exec
  /\ finished' = Append(finished, Head(todo))
  /\ FinishEnded(Current.rc)
  /\ UNCHANGED <<image, accounts, stage, environ, ran>>

-----------------------------------------------------------------------------
(* From one stage to the next. *)

After == [s \in {"cont-env", "cont-secrets", "cont-init", "finish"} |->
            CASE s = "cont-env" -> "cont-secrets" [] s = "cont-secrets" -> "cont-init"
              [] s = "cont-init" -> "init" [] s = "finish" -> "exited"]

NextStage ==
  /\ stage \in DOMAIN After /\ todo = << >>
  /\ stage' = After[stage]
  /\ todo' = Positions(stage')
  /\ UNCHANGED <<image, accounts, environ, ran, finished, status>>

\* cinit_exit: cinit becomes the exit script, or ends if there is none.
SupervisorEnds(code) ==
  /\ stage = "supervisor"
  /\ status' = code
  /\ \/ image.exit_script /\ stage' = "finish" /\ todo' = Positions("finish")
     \/ ~image.exit_script /\ stage' = "exited" /\ UNCHANGED todo
  /\ UNCHANGED <<image, accounts, environ, ran, finished>>

InitStep ==
  \/ BadName \/ LoadFile \/ LoadProgram \/ LoadSecret
  \/ SkipScript \/ RunInitScript \/ RunFinishScript \/ NextStage

-----------------------------------------------------------------------------
InitTypeOK ==
  /\ stage \in Stage
  /\ stage # "exited" => \A i \in DOMAIN todo : todo[i] \in DOMAIN Files(stage)
  /\ \A i \in DOMAIN ran : ran[i] \in DOMAIN image.cont_init
  /\ \A i \in DOMAIN finished : finished[i] \in DOMAIN image.cont_finish
=============================================================================
