------------------------- MODULE ContainerStart_proofs -------------------------
(***************************************************************************)
(* For every container: its services start after its initialization        *)
(* scripts, in the environment and with the identity that were asked for,  *)
(* and it ends with the status of cinit.  The accounts that                *)
(* 10-init-users.sh makes are those that its directories define.           *)
(***************************************************************************)
EXTENDS ContainerStart, FiniteSetTheorems, SequenceTheorems, WellFoundedInduction, TLAPS

-----------------------------------------------------------------------------
(* The loops over the lists of files. *)

\* What is left of a list of N files.
IsRest(t, N) ==
  /\ Len(t) \in 0..N
  /\ t = [j \in 1..Len(t) |-> N - Len(t) + j]

Loops ==
  /\ Listing(image.cont_env) /\ Unique(image.cont_env)
  /\ Listing(image.secrets) /\ Unique(image.secrets)
  /\ Listing(image.cont_init) /\ Listing(image.cont_finish)
  /\ stage # "exited" => IsRest(todo, Len(Files(stage)))

\* The number of files of this stage that have been dealt with.
Read == Len(Files(stage)) - Len(todo)

\* A rest is a sequence of positions.
LEMMA RestIsSeq == ASSUME NEW N \in Nat, NEW t, IsRest(t, N) PROVE t \in Seq(Nat) /\ Len(t) \in 0..N
<1> DEFINE n == Len(t)
<1>1. n \in Nat /\ n <= N /\ t = [j \in 1..n |-> N - n + j]
  BY DEF IsRest
<1> HIDE DEF n
<1>2. \A j \in 1..n : N - n + j \in Nat
  BY <1>1
<1>3. t \in [1..n -> Nat]
  BY <1>1, <1>2
<1>4. QED
  BY <1>1, <1>3 DEF n

\* The first file of the rest.
LEMMA HeadOfRest ==
  ASSUME NEW N \in Nat, NEW t, IsRest(t, N), t # << >>
  PROVE  /\ Head(t) = N - Len(t) + 1 /\ Head(t) \in 1..N
         /\ Len(t) \in 1..N
<1>1. t \in Seq(Nat)
  BY RestIsSeq
<1>2. Len(t) # 0
  BY <1>1, EmptySeq
<1>3. QED
  BY <1>1, <1>2 DEF IsRest

\* A program that reads its standard input leaves a rest of the rest.
LEMMA RestOfRest ==
  ASSUME NEW N \in Nat, NEW t, IsRest(t, N), t # << >>, NEW k \in 2..(Len(t) + 1)
  PROVE  LET u == SubSeq(t, k, Len(t)) IN IsRest(u, N) /\ Len(u) = Len(t) - k + 1
<1>1. t \in Seq(Nat) /\ Len(t) \in 1..N
  BY HeadOfRest, RestIsSeq
<1> DEFINE u == SubSeq(t, k, Len(t))
<1>2. Len(u) = Len(t) - k + 1 /\ u \in Seq(Nat)
  BY <1>1
<1>3. \A j \in 1..Len(u) : u[j] = t[k + j - 1]
  BY <1>1, <1>2
<1>4. \A j \in 1..Len(u) : u[j] = N - Len(u) + j
  BY <1>1, <1>2, <1>3 DEF IsRest
<1> HIDE DEF u
<1>5. u = [j \in 1..Len(u) |-> N - Len(u) + j]
  BY <1>2, <1>4
<1>6. Len(u) \in 0..N
  BY <1>1, <1>2
<1>7. IsRest(u, N) /\ Len(u) = Len(t) - k + 1
  BY <1>2, <1>5, <1>6 DEF IsRest
<1>8. QED
  BY <1>7 DEF u

\* The next file.
LEMMA TailOfRest ==
  ASSUME NEW N \in Nat, NEW t, IsRest(t, N), t # << >>
  PROVE  IsRest(Tail(t), N) /\ Len(Tail(t)) = Len(t) - 1
<1>1. t \in Seq(Nat) /\ Len(t) \in 1..N
  BY HeadOfRest, RestIsSeq
<1>2. Tail(t) = SubSeq(t, 2, Len(t))
  BY <1>1, TailIsSubSeq
<1>3. 2 \in 2..(Len(t) + 1)
  BY <1>1
<1> DEFINE u == SubSeq(t, 2, Len(t))
<1>4. IsRest(u, N) /\ Len(u) = Len(t) - 2 + 1
  BY <1>3, RestOfRest
<1>5. Len(t) - 2 + 1 = Len(t) - 1
  BY <1>1
<1>6. QED
  BY <1>2, <1>4, <1>5
\* Every stage has a list.
LEMMA FilesListed ==
  ASSUME Loops
  PROVE  Len(Files(stage)) \in Nat /\ DOMAIN Files(stage) = 1..Len(Files(stage))
<1>1. Len(<< >>) = 0 /\ DOMAIN << >> = 1..0
  OBVIOUS
<1>2. QED
  BY <1>1 DEF Loops, Listing, Files

\* The file that is dealt with next.
LEMMA NextFile ==
  ASSUME Loops, stage # "exited", todo # << >>
  PROVE  /\ Head(todo) = Read + 1 /\ Read \in Nat /\ Read < Len(Files(stage))
         /\ Read + 1 \in DOMAIN Files(stage) /\ Current = Files(stage)[Read + 1]
<1> DEFINE N == Len(Files(stage))
<1>1. N \in Nat /\ DOMAIN Files(stage) = 1..N /\ IsRest(todo, N)
  BY FilesListed DEF Loops
<1>2. Head(todo) = N - Len(todo) + 1 /\ Head(todo) \in 1..N /\ Len(todo) \in 1..N
  BY <1>1, HeadOfRest
<1>3. Read = N - Len(todo)
  BY DEF Read
<1> HIDE DEF N
<1>4. Head(todo) = Read + 1 /\ Read \in Nat /\ Read < N
  BY <1>1, <1>2, <1>3
<1>5. QED
  BY <1>1, <1>2, <1>4 DEF Current, N

\* The list has come to its end.
LEMMA EndOfList ==
  ASSUME Loops, stage # "exited", todo = << >>
  PROVE  Read = Len(Files(stage))
BY FilesListed DEF Read

\* Once a file is dealt with, the next one of a later position is.
LEMMA FileDealtWith ==
  ASSUME Loops, stage # "exited", todo # << >>, UNCHANGED <<image, stage>>,
         NEW file, todo' \in Left(file)
  PROVE  /\ Loops' /\ Read' \in Nat /\ Read' > Read /\ Read \in Nat
         /\ ~file.reads => Read' = Read + 1
<1> DEFINE N == Len(Files(stage))
<1>1. N \in Nat /\ IsRest(todo, N) /\ N = N'
  BY FilesListed DEF Loops, Files
<1>2. Len(todo) \in 1..N
  BY <1>1, HeadOfRest
<1>3. Read = N - Len(todo) /\ Read' = N - Len(todo')
  BY DEF Read, Files
<1> HIDE DEF N
<1>4. IsRest(todo', N) /\ Len(todo') < Len(todo)
      /\ (~file.reads => Len(todo') = Len(todo) - 1)
  <2>1. CASE ~file.reads
    <3>1. todo' = Tail(todo)
      BY <2>1 DEF Left
    <3>2. IsRest(Tail(todo), N) /\ Len(Tail(todo)) = Len(todo) - 1
      BY <1>1, TailOfRest
    <3>3. QED
      BY <1>2, <3>1, <3>2
  <2>2. CASE file.reads
    <3>1. PICK k \in 2..(Len(todo) + 1) : todo' = SubSeq(todo, k, Len(todo))
      BY <2>2 DEF Left
    <3>2. IsRest(todo', N) /\ Len(todo') = Len(todo) - k + 1
      BY <1>1, <3>1, RestOfRest
    <3>3. QED
      BY <1>2, <2>2, <3>2
  <2>3. QED
    BY <2>1, <2>2
<1>5. Len(todo') \in 0..N
  BY <1>4 DEF IsRest
<1>6. Loops'
  BY <1>1, <1>4 DEF Loops, N
<1>7. QED
  BY <1>1, <1>2, <1>3, <1>4, <1>5, <1>6

\* The next stage starts with its whole list.
LEMMA NewList ==
  ASSUME Loops, UNCHANGED image, todo' = Positions(stage')
  PROVE  Loops' /\ (stage' # "exited" => Read' = 0)
<1> DEFINE N == Len(Files(stage)')
<1>1. N \in Nat /\ DOMAIN (Files(stage)') = 1..N
  <2>1. Len(<< >>) = 0 /\ DOMAIN << >> = 1..0
    OBVIOUS
  <2>2. QED
    BY <2>1 DEF Loops, Listing, Files
<1>2. todo' = [i \in 1..N |-> i]
  BY <1>1 DEF Positions, Files
<1> HIDE DEF N
<1>3. todo' \in Seq(Nat) /\ Len(todo') = N
  BY <1>1, <1>2
<1>4. IsRest(todo', N)
  BY <1>1, <1>2, <1>3 DEF IsRest
<1>5. QED
  BY <1>1, <1>3, <1>4 DEF Loops, Read, Files, N

\* The loop of the init script starts with all its files.
LEMMA LoopsInit == Init => Loops
<1> SUFFICES ASSUME Init PROVE Loops
  OBVIOUS
<1>1. PICK c \in Configurations : image = c.image /\ stage = "cont-env" /\ todo = Positions("cont-env")
  BY DEF Init, InitContainer
<1>2. /\ Listing(image.cont_env) /\ Unique(image.cont_env)
      /\ Listing(image.secrets) /\ Unique(image.secrets)
      /\ Listing(image.cont_init) /\ Listing(image.cont_finish)
  BY <1>1, ConfigurationsAssumption
<1> DEFINE N == Len(Files(stage))
<1>3. N \in Nat /\ DOMAIN Files(stage) = 1..N
  BY <1>1, <1>2 DEF Listing, Files
<1>4. todo = [i \in 1..N |-> i]
  BY <1>1, <1>3 DEF Positions
<1> HIDE DEF N
<1>5. todo \in Seq(Nat) /\ Len(todo) = N
  BY <1>3, <1>4
<1>6. IsRest(todo, N)
  BY <1>3, <1>4, <1>5 DEF IsRest
<1>7. QED
  BY <1>2, <1>6 DEF Loops, N

-----------------------------------------------------------------------------
(* From one stage to the next. *)

Phases ==
  /\ stage \in Stage /\ pc \in PC
  /\ stage \in {"cont-env", "cont-secrets", "cont-init", "init"} => pc = "none"
  /\ stage \in {"supervisor", "finish"} => pc # "none"
  /\ pc \in {"load disabled", "check run", "load", "validate", "child", "running"} => stage = "supervisor"
  /\ stage \notin {"finish", "exited"} => status = NoStatus
  /\ stage = "exited" /\ pc = "none" => status # 0

\* The container starts with its init script.
LEMMA PhasesInit == Init => Phases
BY DEF Init, InitContainer, LaunchInit, Phases, Stage, PC

\* A step of the init process or of the exit script.
LEMMA InitStepPhases ==
  ASSUME Loops, Phases, InitStep, UNCHANGED launchVars
  PROVE  Loops' /\ Phases'
<1>1. CASE BadName
  <2>1. stage' = "exited" /\ status' # 0 /\ UNCHANGED <<image, pc>>
    BY <1>1 DEF BadName, Exit, launchVars
  <2>2. stage \in {"cont-env", "cont-secrets"}
    BY <1>1 DEF BadName
  <2>3. QED
    BY <2>1, <2>2 DEF Loops, Phases, Stage
<1>2. CASE LoadFile
  <2>1. todo' \in Left([reads |-> FALSE])
    BY <1>2 DEF LoadFile, Left
  <2>2. Loops'
    BY <1>2, <2>1, FileDealtWith DEF LoadFile
  <2>3. QED
    BY <1>2, <2>2 DEF LoadFile, Phases, launchVars
<1>3. CASE LoadProgram
  <2>1. CASE stage' = "exited"
    BY <1>3, <2>1 DEF LoadProgram, Exit, Loops, Phases, Stage, PC, launchVars
  <2>2. CASE stage' # "exited"
    <3>1. todo' \in Left(Current) /\ UNCHANGED <<image, stage, status>>
      BY <1>3, <2>2 DEF LoadProgram, Exit
    <3>2. Loops'
      BY <1>3, <3>1, FileDealtWith DEF LoadProgram
    <3>3. QED
      BY <3>1, <3>2 DEF Phases, launchVars
  <2>3. QED
    BY <2>1, <2>2
<1>4. CASE LoadSecret
  <2>1. todo' \in Left([reads |-> FALSE])
    BY <1>4 DEF LoadSecret, Left
  <2>2. Loops'
    BY <1>4, <2>1, FileDealtWith DEF LoadSecret
  <2>3. QED
    BY <1>4, <2>2 DEF LoadSecret, Phases, launchVars
<1>5. CASE SkipScript
  <2>1. todo' \in Left([reads |-> FALSE])
    BY <1>5 DEF SkipScript, Left
  <2>2. Loops'
    BY <1>5, <2>1, FileDealtWith DEF SkipScript
  <2>3. QED
    BY <1>5, <2>2 DEF SkipScript, Phases, launchVars
<1>6. CASE RunInitScript
  <2>1. PICK rc : ScriptEnded(rc)
    BY <1>6 DEF RunInitScript
  <2>2. CASE rc # 0 /\ Exit(rc)
    BY <1>6, <2>2 DEF RunInitScript, Exit, Loops, Phases, Stage, PC, launchVars
  <2>3. CASE todo' \in Left(Current) /\ UNCHANGED <<stage, environ, status>>
    <3>1. Loops'
      BY <1>6, <2>3, FileDealtWith DEF RunInitScript
    <3>2. QED
      BY <2>3, <3>1 DEF Phases, launchVars
  <2>4. QED
    BY <2>1, <2>2, <2>3 DEF ScriptEnded
<1>7. CASE RunFinishScript
  <2>1. Loops'
    BY <1>7, FileDealtWith DEF RunFinishScript, FinishEnded
  <2>2. QED
    BY <1>7, <2>1 DEF RunFinishScript, FinishEnded, Phases, launchVars
<1>8. CASE NextStage
  <2>1. Loops'
    BY <1>8, NewList DEF NextStage
  <2>2. \/ stage = "cont-env" /\ stage' = "cont-secrets"
        \/ stage = "cont-secrets" /\ stage' = "cont-init"
        \/ stage = "cont-init" /\ stage' = "init"
        \/ stage = "finish" /\ stage' = "exited"
    BY <1>8 DEF NextStage, After
  <2>3. UNCHANGED <<pc, status>>
    BY <1>8 DEF NextStage, launchVars
  <2>4. Phases'
    BY <2>2, <2>3 DEF Phases, Stage
  <2>5. QED
    BY <2>1, <2>4
<1>9. QED
  BY <1>1, <1>2, <1>3, <1>4, <1>5, <1>6, <1>7, <1>8 DEF InitStep

\* What loading and launching a service leaves as it is.
LEMMA LaunchFrame ==
  ASSUME LaunchStep
  PROVE  UNCHANGED <<dir, privileged, context>>
BY DEF LaunchStep, LoadSetting, CheckRun, Validate, Fork, RestartCommand, SetArguments,
   SetPriority, SetUmask, SetGroups, SetGid, SetUid, ChangeDirectory, Execute, ChildStep

\* Loading and launching a service goes on in its own states.
LEMMA LaunchStates ==
  ASSUME LaunchStep
  PROVE  /\ pc \notin {"none", "unloaded", "running", "failed", "not started", "gone"}
         /\ pc' = pc \/ pc' \in PC \ {"none", "gone"}
<1>1. CASE LoadSetting
  BY <1>1 DEF LoadSetting, Unload, AfterSetting, PC
<1>2. CASE CheckRun \/ Validate
  BY <1>2 DEF CheckRun, Validate, Unload, PC
<1>3. CASE Fork \/ RestartCommand
  BY <1>3 DEF Fork, RestartCommand, PC
<1>4. CASE SetArguments \/ SetPriority \/ SetUmask \/ SetGroups
  BY <1>4 DEF SetArguments, SetPriority, SetUmask, SetGroups, At, Done, ChildFails, PC
<1>5. CASE SetGid \/ SetUid \/ ChangeDirectory \/ Execute
  BY <1>5 DEF SetGid, SetUid, ChangeDirectory, Execute, At, Done, ChildFails, PC
<1>6. QED
  BY <1>1, <1>2, <1>3, <1>4, <1>5 DEF LaunchStep

\* The phases follow one another.
LEMMA PhasesNext == Loops /\ Phases /\ [Next]_vars => Loops' /\ Phases'
<1> SUFFICES ASSUME Loops, Phases, [Next]_vars PROVE Loops' /\ Phases'
  OBVIOUS
<1>1. CASE InitStep /\ UNCHANGED launchVars
  BY <1>1, InitStepPhases
<1>2. CASE GiveControl
  <2>1. UNCHANGED <<image, todo>> /\ Files("supervisor") = << >> /\ Files("init") = << >>
    BY <1>2 DEF GiveControl, Exit, Files
  <2>2. Loops'
    BY <1>2, <2>1 DEF GiveControl, Exit, Loops, Files
  <2>3. /\ stage = "init"
        /\ \/ stage' = "exited" /\ status' # 0 /\ UNCHANGED pc
           \/ stage' = "supervisor" /\ pc' = "load disabled" /\ UNCHANGED status
    <3>1. CASE Exit(1) /\ UNCHANGED pc
      BY <1>2, <3>1 DEF GiveControl, Exit
    <3>2. CASE Exit(2) /\ UNCHANGED pc
      BY <1>2, <3>2 DEF GiveControl, Exit
    <3>3. CASE stage' = "supervisor" /\ pc' = "load disabled" /\ UNCHANGED status
      BY <1>2, <3>3 DEF GiveControl
    <3>4. QED
      BY <1>2, <3>1, <3>2, <3>3 DEF GiveControl
  <2>4. Phases'
    BY <2>3 DEF Phases, Stage, PC
  <2>5. QED
    BY <2>2, <2>4
<1>3. CASE stage = "supervisor" /\ LaunchStep /\ UNCHANGED initVars
  BY <1>3, LaunchStates DEF initVars, Loops, Phases, Files
<1>4. CASE End
  <2>1. PICK code \in Statuses : SupervisorEnds(code)
    BY <1>4 DEF End
  <2>2. Loops'
    BY <2>1, NewList DEF SupervisorEnds, Loops
  <2>3. Phases'
    BY <1>4, <2>1 DEF End, SupervisorEnds, Phases, Stage, PC
  <2>4. QED
    BY <2>2, <2>3
<1>5. CASE UNCHANGED vars
  BY <1>5 DEF vars, initVars, launchVars, Loops, Phases, Files
<1>6. QED
  BY <1>1, <1>2, <1>3, <1>4, <1>5 DEF Next

\* The status changes only while there is none.
LEMMA StatusStep ==
  ASSUME Phases, [Next]_vars, status # NoStatus
  PROVE  status' = status
<1>1. stage \in {"finish", "exited"}
  BY DEF Phases
<1>2. CASE InitStep
  BY <1>1, <1>2 DEF InitStep, BadName, LoadFile, LoadProgram, LoadSecret, SkipScript,
     RunInitScript, RunFinishScript, FinishEnded, NextStage
<1>3. QED
  BY <1>1, <1>2 DEF Next, GiveControl, initVars, End, SupervisorEnds, vars

\* What cinit ended with is the status of the container, whatever the exit script
\* does, and a container that never got to cinit ends with an error.
THEOREM StatusKeptCorrect == Spec => StatusKept
<1>1. Init => Loops /\ Phases
  BY LoopsInit, PhasesInit
<1>2. Loops /\ Phases /\ [Next]_vars => [status # NoStatus => status' = status]_vars
  BY StatusStep
<1>3. Phases => (stage = "exited" /\ pc = "none" => status # 0)
  BY DEF Phases
<1>4. QED
  BY <1>1, <1>2, <1>3, PhasesNext, PTL DEF Spec, StatusKept

-----------------------------------------------------------------------------
(* The initialization scripts. *)

\* Whoever has got past them has seen them succeed.
Succeeded == stage \in {"cont-init", "init"} \/ pc # "none"

\* How far the loop has come: ran are the executable files among those dealt with.
ScriptsSoFar ==
  /\ ran \in Seq(Nat) /\ InOrder(ran)
  /\ \A i \in DOMAIN ran : ran[i] \in DOMAIN image.cont_init
  /\ stage \in {"cont-env", "cont-secrets"} => ran = << >> /\ accounts = NoAccounts
  /\ stage = "cont-init" => \A i \in DOMAIN ran : ran[i] <= Read
  /\ Succeeded =>
       /\ accounts.rc = 0
       /\ \A i \in DOMAIN ran : image.cont_init[ran[i]].users \/ image.cont_init[ran[i]].rc = 0
  /\ (\A i \in Executables(image.cont_init) : ~image.cont_init[i].reads) =>
       /\ stage = "cont-init" =>
            {ran[i] : i \in DOMAIN ran} = {i \in Executables(image.cont_init) : i <= Read}
       /\ stage = "init" \/ pc # "none" =>
            {ran[i] : i \in DOMAIN ran} = Executables(image.cont_init)

\* It begins with no script having run.
LEMMA ScriptsInit == Init => ScriptsSoFar
<1>1. << >> \in Seq(Nat) /\ DOMAIN << >> = {}
  OBVIOUS
<1>2. QED
  BY <1>1 DEF Init, InitContainer, LaunchInit, ScriptsSoFar, InOrder, Succeeded, NoAccounts

\* A later position keeps the order.
LEMMA AppendInOrder ==
  ASSUME NEW r \in Seq(Nat), InOrder(r), NEW n \in Nat, \A i \in DOMAIN r : r[i] < n
  PROVE  /\ Append(r, n) \in Seq(Nat) /\ InOrder(Append(r, n))
         /\ \A i \in DOMAIN Append(r, n) : Append(r, n)[i] = n \/ \E j \in DOMAIN r : Append(r, n)[i] = r[j]
         /\ {Append(r, n)[i] : i \in DOMAIN Append(r, n)} = {r[i] : i \in DOMAIN r} \cup {n}
<1> DEFINE s == Append(r, n)
           m == Len(r)
<1>1. /\ m \in Nat /\ DOMAIN r = 1..m /\ s \in Seq(Nat) /\ DOMAIN s = 1..(m + 1)
      /\ s[m + 1] = n /\ \A i \in 1..m : s[i] = r[i]
  OBVIOUS
<1> HIDE DEF s, m
<1>2. \A i \in DOMAIN s : i \in 1..m \/ i = m + 1
  BY <1>1
<1>3. InOrder(s)
  <2>1. ASSUME NEW i \in DOMAIN s, NEW j \in DOMAIN s, i < j PROVE s[i] < s[j]
    <3>1. i \in 1..m
      BY <1>1, <2>1
    <3>2. CASE j = m + 1
      BY <1>1, <3>1, <3>2
    <3>3. CASE j \in 1..m
      BY <1>1, <2>1, <3>1, <3>3 DEF InOrder
    <3>4. QED
      BY <1>2, <3>2, <3>3
  <2>2. QED
    BY <2>1 DEF InOrder
<1>4. \A i \in DOMAIN s : s[i] = n \/ \E j \in DOMAIN r : s[i] = r[j]
  BY <1>1, <1>2
<1>5. {s[i] : i \in DOMAIN s} = {r[i] : i \in DOMAIN r} \cup {n}
  <2>1. m + 1 \in DOMAIN s /\ \A j \in DOMAIN r : j \in DOMAIN s /\ s[j] = r[j]
    BY <1>1
  <2>2. QED
    BY <1>1, <1>4, <2>1
<1>6. QED
  BY <1>1, <1>3, <1>4, <1>5 DEF s

\* The outcome of the scripts stays what it is.
LEMMA ScriptsFrame ==
  ASSUME ScriptsSoFar, UNCHANGED <<image, ran, accounts>>,
         stage' \in {"cont-env", "cont-secrets"} => stage \in {"cont-env", "cont-secrets"},
         stage' # "cont-init", Succeeded' => Succeeded,
         stage' = "init" \/ pc' # "none" => stage = "init" \/ pc # "none"
  PROVE  ScriptsSoFar'
BY DEF ScriptsSoFar, Executables

\* A file without execute permission is dealt with.
LEMMA SkipScripts ==
  ASSUME Loops, Phases, ScriptsSoFar, SkipScript, UNCHANGED launchVars, stage = "cont-init"
  PROVE  ScriptsSoFar'
<1>1. todo' \in Left([reads |-> FALSE]) /\ stage # "exited" /\ UNCHANGED <<image, stage>>
  BY DEF SkipScript, Left
<1>2. Read' = Read + 1 /\ Read \in Nat
  BY <1>1, FileDealtWith DEF SkipScript
<1>3. Read + 1 \notin Executables(image.cont_init)
  <2>1. Current = image.cont_init[Read + 1]
    BY NextFile DEF SkipScript, Files
  <2>2. QED
    BY <2>1 DEF SkipScript, Executables
<1>4. Executables(image.cont_init) \subseteq Nat
  BY DEF Executables, Loops, Listing
<1>5. {i \in Executables(image.cont_init) : i <= Read'} = {i \in Executables(image.cont_init) : i <= Read}
  BY <1>2, <1>3, <1>4
<1>6. UNCHANGED <<ran, accounts, stage, pc, image>>
  BY DEF SkipScript, launchVars
<1>7. \A i \in DOMAIN ran : ran[i] <= Read'
  <2>1. \A i \in DOMAIN ran : ran[i] \in Nat /\ ran[i] <= Read
    BY DEF ScriptsSoFar
  <2>2. QED
    BY <1>2, <2>1
<1>8. pc = "none"
  BY DEF Phases
<1>9. QED
  BY <1>5, <1>6, <1>7, <1>8 DEF ScriptsSoFar, Succeeded

\* An initialization script runs; unless it succeeds, the container ends.
LEMMA RunScripts ==
  ASSUME Loops, Phases, ScriptsSoFar, RunInitScript, UNCHANGED launchVars
  PROVE  ScriptsSoFar'
<1> DEFINE n == Read + 1
<1>1. stage = "cont-init" /\ pc = "none" /\ pc' = "none" /\ UNCHANGED image
  BY DEF RunInitScript, Phases, launchVars
<1>2. /\ n \in Nat /\ n \in DOMAIN image.cont_init /\ Read \in Nat
      /\ Current = image.cont_init[n] /\ ran' = Append(ran, n)
  BY <1>1, NextFile DEF RunInitScript, Files
<1>3. Current.exec
  BY DEF RunInitScript
<1>4. PICK rc : ScriptEnded(rc) /\ (Current.users => rc = accounts'.rc)
                /\ (~Current.users => rc = Current.rc /\ UNCHANGED accounts)
  BY DEF RunInitScript
<1>5. \A i \in DOMAIN ran : ran[i] \in Nat /\ ran[i] <= Read
  BY <1>1 DEF ScriptsSoFar
<1>6. \A i \in DOMAIN ran : ran[i] < n
  BY <1>2, <1>5
<1> HIDE DEF n
<1>7. /\ ran' \in Seq(Nat) /\ InOrder(ran')
      /\ \A i \in DOMAIN ran' : ran'[i] = n \/ \E j \in DOMAIN ran : ran'[i] = ran[j]
      /\ {ran'[i] : i \in DOMAIN ran'} = {ran[i] : i \in DOMAIN ran} \cup {n}
  <2>1. ran \in Seq(Nat) /\ InOrder(ran)
    BY DEF ScriptsSoFar
  <2> DEFINE r == Append(ran, n)
  <2>2. /\ r \in Seq(Nat) /\ InOrder(r)
        /\ \A i \in DOMAIN r : r[i] = n \/ \E j \in DOMAIN ran : r[i] = ran[j]
        /\ {r[i] : i \in DOMAIN r} = {ran[i] : i \in DOMAIN ran} \cup {n}
    BY <1>2, <1>6, <2>1, AppendInOrder
  <2>3. ran' = r
    BY <1>2
  <2> HIDE DEF r
  <2>4. QED
    BY <2>2, <2>3
<1>8. \A i \in DOMAIN ran' : ran'[i] \in DOMAIN image.cont_init
  BY <1>2, <1>7 DEF ScriptsSoFar
<1>9. CASE rc # 0 /\ Exit(rc)
  <2>1. stage' = "exited" /\ ~Succeeded'
    BY <1>1, <1>9 DEF Succeeded, Exit
  <2>2. QED
    BY <1>1, <1>7, <1>8, <2>1 DEF ScriptsSoFar
<1>10. CASE rc = 0 /\ todo' \in Left(Current) /\ UNCHANGED <<stage, environ, status>>
  <2>1. Read' \in Nat /\ Read' > Read /\ (~Current.reads => Read' = Read + 1)
    BY <1>1, <1>10, FileDealtWith DEF RunInitScript
  <2>2. n = Read + 1
    BY DEF n
  <2>3. \A i \in DOMAIN ran' : ran'[i] <= Read'
    BY <1>2, <1>5, <1>7, <2>1, <2>2
  <2>4. accounts'.rc = 0
    BY <1>1, <1>4, <1>10 DEF ScriptsSoFar, Succeeded
  <2>5. \A i \in DOMAIN ran' : image.cont_init[ran'[i]].users \/ image.cont_init[ran'[i]].rc = 0
    BY <1>1, <1>2, <1>4, <1>7, <1>10 DEF ScriptsSoFar, Succeeded
  <2>6. ASSUME \A i \in Executables(image.cont_init) : ~image.cont_init[i].reads
        PROVE  {ran'[i] : i \in DOMAIN ran'} = {i \in Executables(image.cont_init) : i <= Read'}
    <3>1. n \in Executables(image.cont_init)
      BY <1>2, <1>3 DEF Executables
    <3>2. Read' = n
      BY <1>2, <2>1, <2>2, <2>6, <3>1
    <3>3. Executables(image.cont_init) \subseteq Nat
      BY DEF Executables, Loops, Listing
    <3>4. {i \in Executables(image.cont_init) : i <= n}
            = {i \in Executables(image.cont_init) : i <= Read} \cup {n}
      BY <1>2, <2>2, <3>1, <3>3
    <3>5. {ran[i] : i \in DOMAIN ran} = {i \in Executables(image.cont_init) : i <= Read}
      BY <1>1, <2>6 DEF ScriptsSoFar
    <3>6. QED
      BY <1>7, <3>2, <3>4, <3>5
  <2>7. stage' = "cont-init"
    BY <1>1, <1>10
  <2>8. QED
    BY <1>1, <1>7, <1>8, <2>3, <2>4, <2>5, <2>6, <2>7 DEF ScriptsSoFar
<1>11. QED
  BY <1>4, <1>9, <1>10 DEF ScriptEnded

\* The scripts begin after the secrets, and the control is given to cinit after them.
LEMMA StageScripts ==
  ASSUME Loops, Phases, ScriptsSoFar, NextStage, UNCHANGED launchVars
  PROVE  ScriptsSoFar'
<1>1. UNCHANGED <<image, ran, accounts, pc>>
  BY DEF NextStage, launchVars
<1>2. CASE stage = "cont-env" /\ stage' = "cont-secrets"
  BY <1>1, <1>2, ScriptsFrame DEF Phases, Succeeded
<1>3. CASE stage = "cont-secrets" /\ stage' = "cont-init"
  <2>1. Read' = 0
    BY <1>1, <1>3, NewList DEF NextStage
  <2>2. ran = << >> /\ accounts.rc = 0 /\ pc = "none"
    BY <1>3 DEF ScriptsSoFar, Phases, NoAccounts
  <2>3. {i \in Executables(image.cont_init) : i <= 0} = {}
    BY DEF Executables, Loops, Listing
  <2>4. {ran'[i] : i \in DOMAIN ran'} = {} /\ DOMAIN ran' = {}
    BY <1>1, <2>2
  <2>5. QED
    BY <1>1, <1>3, <2>1, <2>2, <2>3, <2>4 DEF ScriptsSoFar
<1>4. CASE stage = "cont-init" /\ stage' = "init"
  <2>1. Read = Len(image.cont_init)
    BY <1>4, EndOfList DEF NextStage, Files
  <2>2. {i \in Executables(image.cont_init) : i <= Read} = Executables(image.cont_init)
    BY <2>1 DEF Executables, Loops, Listing
  <2>3. pc = "none" /\ Succeeded
    BY <1>4 DEF Phases, Succeeded
  <2>4. QED
    BY <1>1, <1>4, <2>2, <2>3 DEF ScriptsSoFar
<1>5. CASE stage = "finish" /\ stage' = "exited"
  BY <1>1, <1>5, ScriptsFrame DEF Phases, Succeeded
<1>6. QED
  BY <1>2, <1>3, <1>4, <1>5 DEF NextStage, After

\* Every step keeps the order of the scripts.
LEMMA ScriptsNext == Loops /\ Phases /\ ScriptsSoFar /\ [Next]_vars => ScriptsSoFar'
<1> SUFFICES ASSUME Loops, Phases, ScriptsSoFar, [Next]_vars PROVE ScriptsSoFar'
  OBVIOUS
<1>1. CASE InitStep /\ UNCHANGED launchVars
  <2>1. CASE BadName \/ LoadFile \/ LoadProgram \/ LoadSecret
    <3>1. /\ stage \in {"cont-env", "cont-secrets"} /\ stage' \in {stage, "exited"}
          /\ UNCHANGED <<image, ran, accounts, pc>>
      BY <1>1, <2>1 DEF BadName, LoadFile, LoadProgram, LoadSecret, Exit, launchVars
    <3>2. QED
      BY <3>1, ScriptsFrame DEF Phases, Succeeded
  <2>2. CASE SkipScript /\ stage = "cont-init"
    BY <1>1, <2>2, SkipScripts
  <2>3. CASE (SkipScript /\ stage = "finish") \/ RunFinishScript
    <3>1. stage = "finish" /\ stage' = stage /\ UNCHANGED <<image, ran, accounts, pc>>
      BY <1>1, <2>3 DEF SkipScript, RunFinishScript, launchVars
    <3>2. QED
      BY <3>1, ScriptsFrame DEF Succeeded
  <2>4. CASE RunInitScript
    BY <1>1, <2>4, RunScripts
  <2>5. CASE NextStage
    BY <1>1, <2>5, StageScripts
  <2>6. SkipScript => stage \in {"cont-init", "finish"}
    BY DEF SkipScript
  <2>7. QED
    BY <1>1, <2>1, <2>2, <2>3, <2>4, <2>5, <2>6 DEF InitStep
<1>2. CASE GiveControl
  <2>1. /\ stage = "init" /\ UNCHANGED <<image, ran, accounts>>
        /\ stage' \in {"supervisor", "exited"} /\ (stage' = "exited" => pc' = pc)
    BY <1>2 DEF GiveControl, Exit
  <2>2. QED
    BY <2>1, ScriptsFrame DEF Succeeded
<1>3. CASE stage = "supervisor" /\ LaunchStep /\ UNCHANGED initVars
  BY <1>3, ScriptsFrame DEF initVars, Phases, Succeeded
<1>4. CASE End
  <2>1. PICK code \in Statuses : SupervisorEnds(code)
    BY <1>4 DEF End
  <2>2. stage = "supervisor" /\ stage' \in {"finish", "exited"} /\ UNCHANGED <<image, ran, accounts>>
    BY <2>1 DEF SupervisorEnds
  <2>3. QED
    BY <2>2, ScriptsFrame DEF Phases, Succeeded
<1>5. CASE UNCHANGED vars
  BY <1>5 DEF vars, initVars, launchVars, ScriptsSoFar, Succeeded, Read, Files
<1>6. QED
  BY <1>1, <1>2, <1>3, <1>4, <1>5 DEF Next

\* Services start after the initialization scripts, which ran in order and
\* succeeded: all of them, if none reads its standard input.
THEOREM InitializedFirstCorrect == Spec => []InitializedFirst
<1>1. Init => Loops /\ Phases /\ ScriptsSoFar
  BY LoopsInit, PhasesInit, ScriptsInit
<1>2. ScriptsSoFar => InitializedFirst
  BY DEF ScriptsSoFar, InitializedFirst, Succeeded
<1>3. QED
  BY <1>1, <1>2, PhasesNext, ScriptsNext, PTL DEF Spec

-----------------------------------------------------------------------------
(* The environment variables. *)

\* What the first k files say of a variable, and what the user and /init do.
Own(var, k) == {image.cont_env[i].value : i \in {i \in Loadable(var) : i <= k}}
Secret(var, k) == {image.secrets[i].value : i \in {i \in Named(image.secrets, var) : i <= k}}
User(var) == IF var = "PATH" THEN {OwnPath}
             ELSE IF var \in DOMAIN image.user THEN {image.user[var]} ELSE {}

\* The precedence, and the value at the moment.
Choice(var, secret, user, own) ==
  IF secret # {} THEN secret
  ELSE IF var = "HOME" /\ own # {} THEN own
  ELSE IF user # {} THEN user ELSE own

Environ(var) == IF var \in DOMAIN environ THEN {environ[var]} ELSE {}

\* How far the loops have come.
EnvironSoFar ==
  ListUntouched => \A var :
    /\ stage = "cont-env" => Environ(var) = Choice(var, {}, User(var), Own(var, Read))
    /\ stage = "cont-secrets" =>
         Environ(var) = Choice(var, Secret(var, Read), User(var), Own(var, Len(image.cont_env)))
    /\ stage \in {"cont-init", "init"} \/ pc # "none" => Environ(var) = ContainerHas(var)

\* Nothing comes from no file, and everything from all of them.
LEMMA NoFiles ==
  ASSUME Loops, NEW var
  PROVE  Own(var, 0) = {} /\ Secret(var, 0) = {}
BY DEF Own, Secret, Loadable, Named, Loops, Listing

\* When every file has been loaded, the choice is among all of them.
LEMMA AllFiles ==
  ASSUME Loops, NEW var
  PROVE  ContainerHas(var) = Choice(var, Secret(var, Len(image.secrets)), User(var),
                                    Own(var, Len(image.cont_env)))
<1>1. Own(var, Len(image.cont_env)) = {image.cont_env[i].value : i \in Loadable(var)}
  BY DEF Own, Loadable, Named, Loops, Listing
<1>2. Secret(var, Len(image.secrets)) = {image.secrets[i].value : i \in Named(image.secrets, var)}
  BY DEF Secret, Named, Loops, Listing
<1>3. QED
  BY <1>1, <1>2 DEF ContainerHas, Choice, User

\* A program that ends with 100 gives no value.
Gives(file) == file.exec => file.rc = 0

\* One file more of /etc/cont-env.d.
LEMMA OwnStep ==
  ASSUME Loops, NEW k \in Nat, k + 1 \in DOMAIN image.cont_env,
         NEW var, NEW file, file = image.cont_env[k + 1]
  PROVE  /\ ~(var = file.name /\ Gives(file)) => Own(var, k + 1) = Own(var, k)
         /\ var = file.name /\ Gives(file) => Own(var, k) = {} /\ Own(var, k + 1) = {file.value}
<1> DEFINE upTo(n) == {i \in Loadable(var) : i <= n}
<1>1. Loadable(var) \subseteq Nat
  BY DEF Loadable, Named, Loops, Listing
<1>2. k + 1 \in Loadable(var) <=> var = file.name /\ Gives(file)
  BY DEF Loadable, Named, Gives
<1>3. ASSUME k + 1 \notin Loadable(var) PROVE Own(var, k + 1) = Own(var, k)
  <2>1. upTo(k + 1) = upTo(k)
    BY <1>1, <1>3
  <2>2. QED
    BY <2>1 DEF Own
<1>4. ASSUME k + 1 \in Loadable(var) PROVE Own(var, k) = {} /\ Own(var, k + 1) = {file.value}
  <2>1. \A i \in Loadable(var) : i = k + 1
    BY <1>4 DEF Loadable, Named, Loops, Unique
  <2>2. upTo(k + 1) = {k + 1} /\ upTo(k) = {}
    BY <1>4, <2>1
  <2>3. QED
    BY <2>2 DEF Own
<1>5. QED
  BY <1>2, <1>3, <1>4

\* One secret more.
LEMMA SecretStep ==
  ASSUME Loops, NEW k \in Nat, k + 1 \in DOMAIN image.secrets,
         NEW file, file = image.secrets[k + 1], NEW var
  PROVE  /\ var # file.name => Secret(var, k + 1) = Secret(var, k)
         /\ var = file.name => Secret(var, k + 1) = {file.value}
<1> DEFINE named == Named(image.secrets, var)
           upTo(n) == {i \in named : i <= n}
<1>1. named \subseteq Nat
  BY DEF Named, Loops, Listing
<1>2. k + 1 \in named <=> var = file.name
  BY DEF Named
<1>3. ASSUME k + 1 \notin named PROVE Secret(var, k + 1) = Secret(var, k)
  <2>1. upTo(k + 1) = upTo(k)
    BY <1>1, <1>3
  <2>2. QED
    BY <2>1 DEF Secret
<1>4. ASSUME k + 1 \in named PROVE Secret(var, k + 1) = {file.value}
  <2>1. \A i \in named : i = k + 1
    BY <1>4 DEF Named, Loops, Unique
  <2>2. upTo(k + 1) = {k + 1}
    BY <1>4, <2>1
  <2>3. QED
    BY <2>2 DEF Secret
<1>5. QED
  BY <1>2, <1>3, <1>4

\* load_env_var changes the variable it names, unless that has a value already.
LEMMA LoadedVariable ==
  ASSUME NEW name, NEW value, NEW force \in BOOLEAN, LoadEnvVar(name, value, force), NEW var
  PROVE  /\ var # name => Environ(var)' = Environ(var)
         /\ force \/ name = "HOME" \/ Environ(name) = {} => Environ(name)' = {value}
         /\ ~force /\ name # "HOME" /\ Environ(name) # {} => Environ(name)' = Environ(name)
BY DEF LoadEnvVar, With, Environ

\* What depends on the files only.
LEMMA ImageFrame ==
  ASSUME UNCHANGED image, NEW var
  PROVE  /\ ListUntouched' = ListUntouched
         /\ ContainerHas(var)' = ContainerHas(var) /\ User(var)' = User(var)
         /\ Own(var, Len(image.cont_env))' = Own(var, Len(image.cont_env))
         /\ \A k : Read' = k => Own(var, Read)' = Own(var, k) /\ Secret(var, Read)' = Secret(var, k)
<1>1. /\ ListUntouched' = ListUntouched /\ User(var)' = User(var)
      /\ Named(image.secrets, var)' = Named(image.secrets, var) /\ Loadable(var)' = Loadable(var)
  BY DEF ListUntouched, User, Named, Loadable
<1>2. ContainerHas(var)' = ContainerHas(var)
  BY <1>1 DEF ContainerHas
<1>3. Own(var, Len(image.cont_env))' = Own(var, Len(image.cont_env))
  BY <1>1 DEF Own
<1>4. ASSUME NEW k, Read' = k
      PROVE  Own(var, Read)' = Own(var, k) /\ Secret(var, Read)' = Secret(var, k)
  BY <1>1, <1>4 DEF Own, Secret
<1>5. QED
  BY <1>1, <1>2, <1>3, <1>4

\* The environment stays what it is.
LEMMA EnvironFrame ==
  ASSUME EnvironSoFar, UNCHANGED <<image, environ>>,
         stage' \notin {"cont-env", "cont-secrets"},
         stage' \in {"cont-init", "init"} \/ pc' # "none"
           => stage \in {"cont-init", "init"} \/ pc # "none"
  PROVE  EnvironSoFar'
<1>1. ListUntouched' = ListUntouched /\ \A var : Environ(var)' = Environ(var)
  BY ImageFrame DEF Environ, ListUntouched
<1>2. \A var : ContainerHas(var)' = ContainerHas(var)
  BY ImageFrame
<1>3. QED
  BY <1>1, <1>2 DEF EnvironSoFar

\* A file is dealt with: it gives the variable a value, or (100) does not.
LEMMA LoadFiles ==
  ASSUME Loops, Phases, EnvironSoFar, UNCHANGED launchVars, UNCHANGED <<image, stage>>,
         stage = "cont-env", todo # << >>, todo' \in Left(Current),
         \/ (Current.exec => Current.rc = 0) /\ LoadEnvVar(Current.name, Current.value, FALSE)
         \/ Current.exec /\ Current.rc # 0 /\ UNCHANGED environ
  PROVE  EnvironSoFar'
<1> SUFFICES ASSUME ListUntouched, NEW var
             PROVE  (Environ(var) = Choice(var, {}, User(var), Own(var, Read)))'
  <2>1. stage' = "cont-env" /\ pc' = "none" /\ ListUntouched' = ListUntouched
    BY DEF Phases, launchVars, ListUntouched
  <2>2. QED
    BY <2>1 DEF EnvironSoFar
<1>1. PICK file, k : /\ file = Current /\ k = Read /\ k \in Nat /\ k + 1 \in DOMAIN image.cont_env
                     /\ file = image.cont_env[k + 1]
  BY NextFile DEF Files
<1>2. Read' = k + 1
  <2>1. ~Current.reads
    BY <1>1 DEF ListUntouched
  <2>2. QED
    BY <1>1, <2>1, FileDealtWith
<1>3. /\ ~(var = file.name /\ Gives(file)) => Own(var, k + 1) = Own(var, k)
      /\ var = file.name /\ Gives(file) => Own(var, k) = {} /\ Own(var, k + 1) = {file.value}
  BY <1>1, OwnStep
<1>4. PICK before, after, user :
        /\ before = Own(var, k) /\ after = Own(var, k + 1) /\ user = User(var)
        /\ Environ(var) = Choice(var, {}, user, before)
        /\ Own(var, Read)' = after /\ User(var)' = user
  BY <1>1, <1>2, ImageFrame DEF EnvironSoFar
<1>5. Environ(var)' = Choice(var, {}, user, after)
  <2>1. CASE Gives(file) /\ LoadEnvVar(file.name, file.value, FALSE)
    <3>1. PICK name, value : name = file.name /\ value = file.value
      OBVIOUS
    <3>2. /\ var # name => Environ(var)' = Environ(var)
          /\ name = "HOME" \/ Environ(name) = {} => Environ(name)' = {value}
          /\ name # "HOME" /\ Environ(name) # {} => Environ(name)' = Environ(name)
      <4>1. LoadEnvVar(name, value, FALSE) /\ FALSE \in BOOLEAN
        BY <2>1, <3>1
      <4>2. QED
        BY <4>1 DEF LoadEnvVar, With, Environ
    <3>3. CASE var # name
      BY <1>3, <1>4, <3>1, <3>2, <3>3
    <3>4. CASE var = name
      <4>1. before = {} /\ after = {value}
        BY <1>3, <1>4, <2>1, <3>1, <3>4
      <4>2. QED
        BY <1>4, <3>2, <3>4, <4>1 DEF Choice
    <3>5. QED
      BY <3>3, <3>4
  <2>2. CASE file.exec /\ file.rc # 0 /\ UNCHANGED environ
    BY <1>3, <1>4, <2>2 DEF Environ, Gives
  <2>3. QED
    BY <1>1, <2>1, <2>2 DEF Gives
<1>6. QED
  BY <1>4, <1>5 DEF Choice

\* A secret is dealt with: it always gives the variable a value.
LEMMA LoadSecrets ==
  ASSUME Loops, Phases, EnvironSoFar, UNCHANGED launchVars, LoadSecret
  PROVE  EnvironSoFar'
<1>1. stage = "cont-secrets" /\ todo # << >> /\ UNCHANGED <<image, stage>>
      /\ LoadEnvVar(Current.name, Current.value, TRUE) /\ todo' \in Left([reads |-> FALSE])
  BY DEF LoadSecret, Left
<1> SUFFICES ASSUME ListUntouched, NEW var
             PROVE  (Environ(var) = Choice(var, Secret(var, Read), User(var),
                                           Own(var, Len(image.cont_env))))'
  <2>1. stage' = "cont-secrets" /\ pc' = "none" /\ ListUntouched' = ListUntouched
    BY <1>1 DEF Phases, launchVars, ListUntouched
  <2>2. QED
    BY <2>1 DEF EnvironSoFar
<1>2. PICK file, k : /\ file = Current /\ k = Read /\ k \in Nat /\ k + 1 \in DOMAIN image.secrets
                     /\ file = image.secrets[k + 1]
  BY <1>1, NextFile DEF Files
<1>3. Read' = k + 1
  BY <1>1, <1>2, FileDealtWith
<1>4. /\ var # file.name => Secret(var, k + 1) = Secret(var, k)
      /\ var = file.name => Secret(var, k + 1) = {file.value}
  BY <1>2, SecretStep
<1>5. PICK before, after, user, own :
        /\ before = Secret(var, k) /\ after = Secret(var, k + 1)
        /\ Environ(var) = Choice(var, before, user, own)
        /\ Secret(var, Read)' = after /\ User(var)' = user /\ Own(var, Len(image.cont_env))' = own
  BY <1>1, <1>2, <1>3, ImageFrame DEF EnvironSoFar
<1>6. PICK name, value : name = file.name /\ value = file.value
  OBVIOUS
<1>7. /\ var # name => Environ(var)' = Environ(var)
      /\ Environ(name)' = {value}
  BY <1>1, <1>2, <1>6, LoadedVariable
<1>8. Environ(var)' = Choice(var, after, user, own)
  <2>1. CASE var = name
    BY <1>4, <1>5, <1>6, <1>7, <2>1 DEF Choice
  <2>2. CASE var # name
    BY <1>4, <1>5, <1>6, <1>7, <2>2
  <2>3. QED
    BY <2>1, <2>2
<1>9. QED
  BY <1>5, <1>8 DEF Choice

\* All files have been dealt with at the end of their stage.
LEMMA StageEnviron ==
  ASSUME Loops, Phases, EnvironSoFar, NextStage, UNCHANGED launchVars
  PROVE  EnvironSoFar'
<1>1. UNCHANGED <<image, environ, pc>>
  BY DEF NextStage, launchVars
<1>2. CASE stage = "cont-env" /\ stage' = "cont-secrets"
  <2>1. Read = Len(image.cont_env) /\ Read' = 0 /\ pc' = "none"
    BY <1>1, <1>2, EndOfList, NewList DEF NextStage, Files, Phases
  <2>2. ASSUME ListUntouched, NEW var
        PROVE  (Environ(var) = Choice(var, Secret(var, Read), User(var),
                                      Own(var, Len(image.cont_env))))'
    <3>1. Environ(var) = Choice(var, {}, User(var), Own(var, Len(image.cont_env)))
      BY <1>2, <2>1, <2>2 DEF EnvironSoFar
    <3>2. Secret(var, 0) = {}
      BY NoFiles
    <3>3. Secret(var, Read)' = {} /\ User(var)' = User(var) /\ Environ(var)' = Environ(var)
          /\ Own(var, Len(image.cont_env))' = Own(var, Len(image.cont_env))
      BY <1>1, <2>1, <3>2, ImageFrame DEF Environ
    <3>4. QED
      BY <3>1, <3>3 DEF Choice
  <2>3. QED
    BY <1>1, <1>2, <2>1, <2>2 DEF EnvironSoFar, ListUntouched
<1>3. CASE stage = "cont-secrets" /\ stage' = "cont-init"
  <2>1. Read = Len(image.secrets) /\ pc' = "none"
    BY <1>1, <1>3, EndOfList DEF NextStage, Files, Phases
  <2>2. ASSUME ListUntouched, NEW var PROVE (Environ(var) = ContainerHas(var))'
    <3>1. Environ(var) = ContainerHas(var)
      BY <1>3, <2>1, <2>2, AllFiles DEF EnvironSoFar
    <3>2. Environ(var)' = Environ(var)
      BY <1>1 DEF Environ
    <3>3. QED
      BY <1>1, <3>1, <3>2, ImageFrame
  <2>3. QED
    BY <1>1, <1>3, <2>1, <2>2 DEF EnvironSoFar, ListUntouched
<1>4. CASE (stage = "cont-init" /\ stage' = "init") \/ (stage = "finish" /\ stage' = "exited")
  BY <1>1, <1>4, EnvironFrame DEF Phases
<1>5. QED
  BY <1>2, <1>3, <1>4 DEF NextStage, After

\* At first there is only what the user gave, and the PATH of /init.
LEMMA EnvironInit == Init => EnvironSoFar
<1> SUFFICES ASSUME Init PROVE EnvironSoFar
  OBVIOUS
<1>1. /\ stage = "cont-env" /\ pc = "none" /\ todo = Positions("cont-env")
      /\ environ = [v \in DOMAIN image.user \cup {"PATH"} |->
                      IF v = "PATH" THEN OwnPath ELSE image.user[v]]
  BY DEF Init, InitContainer, LaunchInit
<1>2. Loops
  BY LoopsInit
<1>3. Read = 0
  <2> DEFINE N == Len(Files(stage))
  <2>1. N \in Nat /\ DOMAIN Files(stage) = 1..N
    BY <1>2, FilesListed
  <2>2. todo = [i \in 1..N |-> i]
    BY <1>1, <2>1 DEF Positions
  <2> HIDE DEF N
  <2>3. todo \in Seq(Nat) /\ Len(todo) = N
    BY <2>1, <2>2
  <2>4. QED
    BY <2>1, <2>3 DEF Read, N
<1>4. ASSUME NEW var PROVE Environ(var) = Choice(var, {}, User(var), Own(var, 0))
  <2>1. Environ(var) = User(var)
    BY <1>1 DEF Environ, User
  <2>2. QED
    BY <1>2, <2>1, NoFiles DEF Choice
<1>5. QED
  BY <1>1, <1>3, <1>4 DEF EnvironSoFar

\* Every step keeps the environment what the files loaded so far make it.
LEMMA EnvironNext == Loops /\ Phases /\ EnvironSoFar /\ [Next]_vars => EnvironSoFar'
<1> SUFFICES ASSUME Loops, Phases, EnvironSoFar, [Next]_vars PROVE EnvironSoFar'
  OBVIOUS
<1>1. CASE InitStep /\ UNCHANGED launchVars
  <2>1. CASE stage' = "exited" /\ UNCHANGED <<image, environ>>
    BY <1>1, <2>1, EnvironFrame DEF launchVars, Phases
  <2>2. CASE LoadFile
    <3>1. Current.exec = FALSE \/ ~Current.exec
      BY <2>2 DEF LoadFile
    <3>2. ListUntouched => todo' \in Left(Current)
      <4>1. Current = image.cont_env[Read + 1] /\ Read + 1 \in DOMAIN image.cont_env
        BY <2>2, NextFile DEF LoadFile, Files
      <4>2. QED
        BY <2>2, <4>1 DEF LoadFile, Left, ListUntouched
    <3>3. ListUntouched => EnvironSoFar'
      BY <1>1, <2>2, <3>2, LoadFiles DEF LoadFile
    <3>4. ListUntouched' = ListUntouched
      BY <2>2 DEF LoadFile, ListUntouched
    <3>5. QED
      BY <3>3, <3>4 DEF EnvironSoFar
  <2>3. CASE LoadProgram /\ stage' # "exited"
    <3>1. /\ stage = "cont-env" /\ todo # << >> /\ UNCHANGED <<image, stage>> /\ todo' \in Left(Current)
          /\ \/ Current.rc = 0 /\ LoadEnvVar(Current.name, Current.value, FALSE)
             \/ Current.exec /\ Current.rc # 0 /\ UNCHANGED environ
      <4>1. /\ stage = "cont-env" /\ todo # << >> /\ UNCHANGED <<image, stage>>
            /\ todo' \in Left(Current) /\ Current.exec
        BY <2>3 DEF LoadProgram, Exit
      <4>2. CASE Current.rc = 0 /\ LoadEnvVar(Current.name, Current.value, FALSE)
        BY <4>1, <4>2
      <4>3. CASE Current.rc = 100 /\ UNCHANGED environ
        <5>1. Current.rc # 0
          BY <4>3
        <5>2. QED
          BY <4>1, <4>3, <5>1
      <4>4. QED
        BY <2>3, <4>1, <4>2, <4>3 DEF LoadProgram, Exit
    <3>2. QED
      BY <1>1, <3>1, LoadFiles
  <2>4. CASE LoadSecret
    BY <1>1, <2>4, LoadSecrets
  <2>5. CASE (SkipScript \/ RunInitScript \/ RunFinishScript) /\ stage' # "exited"
    <3>1. stage \in {"cont-init", "finish"} /\ stage' = stage /\ UNCHANGED <<image, environ, pc>>
      BY <1>1, <2>5 DEF SkipScript, RunInitScript, RunFinishScript, ScriptEnded, Exit, launchVars
    <3>2. QED
      BY <3>1, EnvironFrame
  <2>6. CASE NextStage
    BY <1>1, <2>6, StageEnviron
  <2>7. BadName \/ ((LoadProgram \/ RunInitScript \/ SkipScript \/ RunFinishScript) /\ stage' = "exited")
        => stage' = "exited" /\ UNCHANGED <<image, environ>>
    BY DEF BadName, LoadProgram, RunInitScript, ScriptEnded, SkipScript, RunFinishScript, Exit
  <2>8. QED
    BY <1>1, <2>1, <2>2, <2>3, <2>4, <2>5, <2>6, <2>7 DEF InitStep
<1>2. CASE GiveControl
  <2>1. /\ stage = "init" /\ stage' \in {"supervisor", "exited"} /\ UNCHANGED <<image, environ>>
    BY <1>2 DEF GiveControl, Exit
  <2>2. QED
    BY <2>1, EnvironFrame
<1>3. CASE stage = "supervisor" /\ LaunchStep /\ UNCHANGED initVars
  BY <1>3, EnvironFrame DEF initVars, Phases
<1>4. CASE End
  <2>1. PICK code \in Statuses : SupervisorEnds(code)
    BY <1>4 DEF End
  <2>2. stage = "supervisor" /\ stage' \in {"finish", "exited"} /\ UNCHANGED <<image, environ>>
    BY <2>1 DEF SupervisorEnds
  <2>3. QED
    BY <2>2, EnvironFrame DEF Phases
<1>5. CASE UNCHANGED vars
  <2>1. UNCHANGED <<image, stage, pc>> /\ Read' = Read /\ \A var : Environ(var)' = Environ(var)
    BY <1>5 DEF vars, initVars, launchVars, Read, Files, Environ
  <2>2. ListUntouched' = ListUntouched
    BY <2>1 DEF ListUntouched
  <2>3. ASSUME NEW var
        PROVE  /\ ContainerHas(var)' = ContainerHas(var) /\ User(var)' = User(var)
               /\ Own(var, Len(image.cont_env))' = Own(var, Len(image.cont_env))
               /\ Own(var, Read)' = Own(var, Read) /\ Secret(var, Read)' = Secret(var, Read)
    <3>1. PICK k : k = Read
      OBVIOUS
    <3>2. QED
      BY <2>1, <3>1, ImageFrame
  <2>4. ASSUME NEW var PROVE (\A S, T, U : Choice(var, S, T, U)' = Choice(var, S, T, U))
    BY DEF Choice
  <2>5. QED
    BY <2>1, <2>2, <2>3, <2>4 DEF EnvironSoFar
<1>6. QED
  BY <1>1, <1>2, <1>3, <1>4, <1>5 DEF Next

-----------------------------------------------------------------------------
(* Loading a service. *)

SettingNames == {Settings[i] : i \in DOMAIN Settings}

\* What the files of the service say of a setting.
Meant(s) == IF Given(s) THEN Converted(s, Received(s)) ELSE NewEntry[s]
Readable(s) == s \in DOMAIN dir => ~Unreadable(s)

\* The settings that have been read.
LoadedNames == {Settings[i] : i \in 1..(next - 1)}

Loading == {"load disabled", "check run", "load", "validate"}
Runnable == ~NothingToRun(entry) /\ dir.run.exec

\* The table entry says what the files say, and all of them could be read.  Only
\* ready_timeout is corrected afterwards.
Loaded ==
  /\ DOMAIN entry = SettingNames /\ Runnable
  /\ \A s \in SettingNames : Readable(s)
  /\ \A s \in SettingNames \ {"ready_timeout"} : Printed(s) => entry[s] = Meant(s)

EachMeant ==
  /\ DOMAIN entry = SettingNames
  /\ \A s \in LoadedNames : Readable(s)
  /\ \A s \in SettingNames : Printed(s) =>
       entry[s] = Meant(s) \/ (s \notin LoadedNames /\ entry[s] = NewEntry[s])

EntrySoFar ==
  /\ pc \in {"none", "load disabled"} => next = 1
  /\ pc = "check run" => next = 2
  /\ pc = "load" => next \in 2..17 /\ Runnable
  /\ pc = "validate" => next = 18 /\ Runnable
  /\ pc \in Loading => EachMeant
  /\ pc = "nothing to run" => NothingToRun(entry)
  /\ pc \in {"loaded", "running"} => Loaded
  /\ pc = "child" => Loaded \/ (proc.step = "arguments" /\ NothingToRun(entry))

\* There are 17 settings, of which "disabled" is the first.
LEMMA SettingsListed ==
  /\ Len(Settings) = 17 /\ DOMAIN Settings = 1..17
  /\ \A i \in 1..17 : Settings[i] = "disabled" <=> i = 1
  /\ {"disabled", "params", "environment", "environment_extra", "uid", "gid", "sgid", "umask",
      "priority", "workdir", "respawn", "sync", "interval", "ready_timeout"} \subseteq SettingNames
<1>1. Len(Settings) = 17 /\ DOMAIN Settings = 1..17
  BY DEF Settings
<1>2. \A i \in 1..17 : \/ i = 1 \/ i = 2 \/ i = 3 \/ i = 4 \/ i = 5 \/ i = 6 \/ i = 7 \/ i = 8 \/ i = 9
                       \/ i = 10 \/ i = 11 \/ i = 12 \/ i = 13 \/ i = 14 \/ i = 15 \/ i = 16 \/ i = 17
  OBVIOUS
<1>3. /\ Settings[1] = "disabled" /\ Settings[2] = "params" /\ Settings[3] = "environment"
      /\ Settings[4] = "environment_extra" /\ Settings[5] = "uid" /\ Settings[6] = "gid"
      /\ Settings[7] = "sgid" /\ Settings[8] = "umask" /\ Settings[9] = "priority"
      /\ Settings[10] = "workdir" /\ Settings[11] = "respawn" /\ Settings[12] = "sync"
      /\ Settings[13] = "ignore_failure" /\ Settings[14] = "shutdown_on_terminate"
      /\ Settings[15] = "min_running_time" /\ Settings[16] = "ready_timeout"
      /\ Settings[17] = "interval"
  BY DEF Settings
<1>4. \A i \in 1..17 : Settings[i] = "disabled" <=> i = 1
  BY <1>2, <1>3
<1>5. \A i \in 1..17 : Settings[i] \in SettingNames
  BY <1>1 DEF SettingNames
<1>6. QED
  BY <1>1, <1>3, <1>4, <1>5

\* What the files say does not change while services are loaded and started.
LEMMA SameMeaning ==
  ASSUME UNCHANGED <<dir, context, accounts>>, NEW s
  PROVE  /\ Printed(s)' = Printed(s) /\ Given(s)' = Given(s) /\ NewEntry' = NewEntry
         /\ Meant(s)' = Meant(s) /\ Readable(s)' = Readable(s)
<1>1. Printed(s)' = Printed(s) /\ Given(s)' = Given(s) /\ NewEntry' = NewEntry
  <2>1. Silent(s)' = Silent(s) /\ Unreadable(s)' = Unreadable(s)
    BY DEF Silent, Received, Unreadable
  <2>2. QED
    BY <2>1 DEF Printed, Given, Unset, NewEntry
<1>2. \A type : Meaning(type)' = Meaning(type)
  BY DEF Meaning
<1>3. \A lines : Groups(lines)' = Groups(lines)
  BY <1>2 DEF Groups
<1>4. \A lines : Converted(s, lines)' = Converted(s, lines)
  BY <1>2, <1>3 DEF Converted
<1>5. QED
  BY <1>1, <1>4 DEF Meant, Received, Readable, Unreadable

\* A setting is read.
LEMMA SettingRead ==
  ASSUME LoadSetting, pc' # "unloaded"
  PROVE  /\ pc' = AfterSetting /\ next' = next + 1 /\ UNCHANGED proc
         /\ Readable(Settings[next])
         /\ \/ ~Given(Settings[next]) /\ entry' = entry
            \/ \E lines :
                 /\ Given(Settings[next]) /\ Convertible(Settings[next], lines)
                 /\ entry' = [entry EXCEPT ![Settings[next]] = Converted(Settings[next], lines)]
                 /\ Printed(Settings[next]) => lines = Received(Settings[next])
<1> DEFINE s == Settings[next]
<1>1. CASE Unset(s)
  BY <1>1 DEF LoadSetting, Given, Unload, Unset, Readable
<1>2. CASE ~Unset(s)
  <2>1. PICK leftover \in Leftovers :
          /\ ~Unreadable(s) /\ Convertible(s, LinesOf(s, leftover))
          /\ entry' = [entry EXCEPT ![s] = Converted(s, LinesOf(s, leftover))]
          /\ pc' = AfterSetting /\ next' = next + 1 /\ UNCHANGED proc
    BY <1>2 DEF LoadSetting, Unload
  <2>2. Given(s)
    BY <1>2 DEF Given, Unset
  <2>3. Printed(s) => LinesOf(s, leftover) = Received(s)
    BY <1>2 DEF Printed, LinesOf, Unset
  <2>4. QED
    BY <2>1, <2>2, <2>3 DEF Readable
<1>3. QED
  BY <1>1, <1>2

\* Another setting never makes the service one that has nothing to run, or back.
LEMMA LoadSettingEntry ==
  ASSUME EntrySoFar, LoadSetting, UNCHANGED <<context, accounts>>, next \in 1..17
  PROVE  EntrySoFar'
<1>1. UNCHANGED dir /\ pc \in {"load disabled", "load"}
  BY DEF LoadSetting
<1>2. CASE pc' = "unloaded"
  BY <1>2 DEF EntrySoFar, Loading
<1>3. CASE pc' # "unloaded"
  <2>1. PICK s : s = Settings[next]
    OBVIOUS
  <2>2. /\ pc' = AfterSetting /\ next' = next + 1 /\ Readable(s)
        /\ \/ ~Given(s) /\ entry' = entry
           \/ \E lines : /\ Given(s) /\ entry' = [entry EXCEPT ![s] = Converted(s, lines)]
                         /\ Printed(s) => lines = Received(s)
    BY <1>3, <2>1, SettingRead
  <2>3. /\ s \in SettingNames /\ DOMAIN entry = SettingNames
        /\ s = "disabled" <=> next = 1
    BY <1>1, <2>1, SettingsListed DEF EntrySoFar, EachMeant, Loading, SettingNames
  <2>4. /\ DOMAIN entry' = SettingNames /\ \A t \in SettingNames \ {s} : entry'[t] = entry[t]
        /\ Printed(s) /\ Given(s) => entry'[s] = Meant(s)
        /\ ~Given(s) => entry'[s] = entry[s]
    <3>1. CASE ~Given(s) /\ entry' = entry
      BY <2>3, <3>1
    <3>2. ASSUME NEW lines, Given(s), entry' = [entry EXCEPT ![s] = Converted(s, lines)],
                 Printed(s) => lines = Received(s)
          PROVE  <2>4!1 /\ <2>4!2 /\ <2>4!3
      BY <2>3, <3>2 DEF Meant
    <3>3. QED
      BY <2>2, <3>1, <3>2
  <2>5. \A t \in SettingNames : Printed(t) => entry[t] = Meant(t) \/ (t \notin LoadedNames /\ entry[t] = NewEntry[t])
    BY <1>1 DEF EntrySoFar, EachMeant, Loading
  <2>6. LoadedNames' = LoadedNames \cup {s}
    <3>1. \A i : i \in 1..(next' - 1) <=> i \in 1..(next - 1) \/ i = next
      BY <2>2
    <3>2. QED
      BY <2>1, <3>1 DEF LoadedNames
  <2>7. ASSUME NEW t \in SettingNames, Printed(t)
        PROVE  entry'[t] = Meant(t) \/ (t \notin LoadedNames' /\ entry'[t] = NewEntry[t])
    <3>1. CASE t # s
      BY <2>4, <2>5, <2>6, <2>7, <3>1
    <3>2. CASE t = s
      <4>1. CASE Given(s)
        BY <2>4, <2>7, <3>2, <4>1
      <4>2. CASE ~Given(s)
        BY <2>4, <2>5, <2>7, <3>2, <4>2 DEF Meant
      <4>3. QED
        BY <4>1, <4>2
    <3>3. QED
      BY <3>1, <3>2
  <2>8. DOMAIN entry' = SettingNames /\ \A t \in LoadedNames' : Readable(t)
    BY <1>1, <2>2, <2>4, <2>6 DEF EntrySoFar, EachMeant, Loading
  <2>9. EachMeant'
    <3>1. \A t : /\ Printed(t)' = Printed(t) /\ Meant(t)' = Meant(t) /\ NewEntry' = NewEntry
                 /\ Readable(t)' = Readable(t)
      BY <1>1, SameMeaning
    <3>2. QED
      BY <2>7, <2>8, <3>1 DEF EachMeant
  <2>10. pc = "load" /\ next \in 2..17 => UNCHANGED Runnable
    <3>1. ASSUME next \in 2..17 PROVE entry'.disabled = entry.disabled
      <4>1. "disabled" \in SettingNames \ {s}
        BY <2>3, <3>1, SettingsListed
      <4>2. QED
        BY <2>4, <4>1
    <3>2. QED
      BY <1>1, <3>1 DEF Runnable, NothingToRun
  <2> DEFINE N == Len(Settings)
  <2>a. N = 17
    BY SettingsListed
  <2>b. AfterSetting = IF next = 1 THEN "check run" ELSE IF next = N THEN "validate" ELSE "load"
    BY DEF AfterSetting
  <2> HIDE DEF N
  <2>d. pc' = AfterSetting /\ next' = next + 1
    BY <2>2
  <2>c. next # 1 => pc = "load"
    BY <1>1 DEF EntrySoFar
  <2>11. CASE next = 1
    <3>a. pc' = "check run"
      BY <2>b, <2>d, <2>11
    <3>b. next' = 2
      BY <2>d, <2>11
    <3>1. pc' = "check run" /\ next' = 2
      BY <3>a, <3>b
    <3>2. QED
      BY <2>9, <3>1 DEF EntrySoFar
  <2>12. CASE next \in 2..16
    <3>a. next # 1 /\ next # 17 /\ next' \in 2..17
      BY <2>d, <2>12
    <3>1. pc' = "load" /\ next' \in 2..17 /\ pc = "load"
      BY <2>a, <2>b, <2>c, <2>d, <3>a
    <3>2. Runnable'
      BY <2>10, <2>12, <3>1 DEF EntrySoFar
    <3>3. QED
      BY <2>9, <3>1, <3>2 DEF EntrySoFar
  <2>13. CASE next = 17
    <3>1. pc' = "validate" /\ next' = 18 /\ pc = "load"
      BY <2>a, <2>b, <2>c, <2>d, <2>13
    <3>2. Runnable'
      BY <2>10, <2>13, <3>1 DEF EntrySoFar
    <3>3. QED
      BY <2>9, <3>1, <3>2 DEF EntrySoFar
  <2>14. QED
    BY <2>11, <2>12, <2>13
<1>4. QED
  BY <1>2, <1>3

\* When all settings have been read, the entry is complete.
LEMMA ValidateEntry ==
  ASSUME EntrySoFar, Validate, UNCHANGED <<context, accounts>>
  PROVE  EntrySoFar'
<1>1. UNCHANGED dir /\ pc = "validate"
  BY DEF Validate
<1>2. CASE pc' = "unloaded"
  BY <1>2 DEF EntrySoFar, Loading
<1>3. CASE pc' # "unloaded"
  <2>1. PICK v : entry' = [entry EXCEPT !.ready_timeout = v] /\ pc' = "loaded"
    BY <1>3 DEF Validate, Unload
  <2>2. DOMAIN entry = SettingNames /\ next = 18 /\ Runnable
    BY <1>1 DEF EntrySoFar, EachMeant, Loading
  <2>3. SettingNames \subseteq LoadedNames
    BY <2>2, SettingsListed DEF SettingNames, LoadedNames
  <2>4. \A s \in SettingNames : Printed(s) => entry[s] = Meant(s)
    BY <1>1, <2>3 DEF EntrySoFar, EachMeant, Loading
  <2>5. ASSUME NEW s \in SettingNames \ {"ready_timeout"}, Printed(s)' PROVE entry'[s] = Meant(s)'
    BY <1>1, <2>1, <2>2, <2>4, <2>5, SameMeaning
  <2>6. Runnable' /\ \A s \in SettingNames : Readable(s)'
    <3>1. \A s \in SettingNames : Readable(s)
      BY <1>1, <2>3 DEF EntrySoFar, EachMeant, Loading
    <3>2. \A s : Readable(s)' = Readable(s)
      BY <1>1, SameMeaning
    <3>3. Runnable'
      BY <1>1, <2>1, <2>2, SettingsListed DEF Runnable, NothingToRun
    <3>4. QED
      BY <3>1, <3>2, <3>3
  <2>7. Loaded'
    BY <2>1, <2>2, <2>5, <2>6 DEF Loaded
  <2>8. QED
    BY <2>1, <2>7 DEF EntrySoFar, Loading
<1>4. QED
  BY <1>2, <1>3

\* Whether there is something to run is decided after the first setting.
LEMMA CheckRunEntry ==
  ASSUME EntrySoFar, CheckRun, UNCHANGED <<context, accounts>>
  PROVE  EntrySoFar'
<1>1. UNCHANGED dir /\ pc = "check run"
  BY DEF CheckRun
<1>2. CASE pc' = "unloaded"
  BY <1>2 DEF EntrySoFar, Loading
<1>3. CASE pc' = "nothing to run" /\ UNCHANGED entry /\ NothingToRun(entry)
  BY <1>1, <1>3 DEF EntrySoFar, Loading, NothingToRun
<1>4. CASE pc' = "load" /\ UNCHANGED <<entry, next>> /\ ~NothingToRun(entry) /\ dir.run.exec
  <2>1. Runnable'
    BY <1>1, <1>4 DEF Runnable, NothingToRun
  <2>2. \A t : /\ Printed(t)' = Printed(t) /\ Meant(t)' = Meant(t) /\ NewEntry' = NewEntry
               /\ Readable(t)' = Readable(t)
    BY <1>1, SameMeaning
  <2>3. LoadedNames' = LoadedNames /\ next' = 2
    BY <1>1, <1>4 DEF LoadedNames, EntrySoFar
  <2>4. EachMeant'
    BY <1>1, <1>4, <2>2, <2>3 DEF EntrySoFar, EachMeant, Loading
  <2>5. pc' = "load" /\ next' \in 2..17
    BY <1>4, <2>3
  <2>6. QED
    BY <2>1, <2>4, <2>5 DEF EntrySoFar
<1>5. QED
  BY <1>2, <1>3, <1>4 DEF CheckRun, Unload

\* The entry of a service stays what it is while its process is started and runs.
LEMMA LoadedFrame ==
  ASSUME UNCHANGED <<dir, context, accounts, entry>>
  PROVE  Loaded' = Loaded /\ NothingToRun(entry)' = NothingToRun(entry)
<1>1. \A t : Printed(t)' = Printed(t) /\ Meant(t)' = Meant(t) /\ Readable(t)' = Readable(t)
  BY SameMeaning
<1>2. NothingToRun(entry)' = NothingToRun(entry) /\ Runnable' = Runnable
  BY DEF Runnable, NothingToRun
<1>3. QED
  BY <1>1, <1>2 DEF Loaded

\* Where nothing of this changes, everything stays as it is.
LEMMA EntryFrame ==
  ASSUME EntrySoFar, UNCHANGED <<launchVars, accounts>>
  PROVE  EntrySoFar'
<1>1. UNCHANGED <<dir, context, pc, next, entry, proc>>
  BY DEF launchVars
<1>2. Loaded' = Loaded /\ NothingToRun(entry)' = NothingToRun(entry)
  BY <1>1, LoadedFrame
<1>3. \A t : /\ Printed(t)' = Printed(t) /\ Meant(t)' = Meant(t) /\ NewEntry' = NewEntry
             /\ Readable(t)' = Readable(t)
  BY <1>1, SameMeaning
<1>4. LoadedNames' = LoadedNames /\ Runnable' = Runnable
  BY <1>1 DEF LoadedNames, Runnable, NothingToRun
<1>5. EachMeant' = EachMeant
  BY <1>1, <1>3, <1>4 DEF EachMeant
<1>6. QED
  BY <1>1, <1>2, <1>4, <1>5 DEF EntrySoFar

\* A new entry says what the files say if there are none.
LEMMA ControlEntry ==
  ASSUME EntrySoFar, Phases, GiveControl
  PROVE  EntrySoFar'
<1>1. pc = "none" /\ next' = next /\ next = 1
  BY DEF GiveControl, Phases, EntrySoFar
<1>2. CASE pc' = "none"
  BY <1>1, <1>2 DEF EntrySoFar, Loading
<1>3. CASE pc' = "load disabled" /\ entry' = NewEntry'
  <2>1. LoadedNames' = {}
    <3>1. 1..(next' - 1) = {}
      BY <1>1
    <3>2. QED
      BY <3>1 DEF LoadedNames
  <2>2. DOMAIN NewEntry' = SettingNames
    BY DEF NewEntry, SettingNames
  <2>3. EachMeant'
    BY <1>3, <2>1, <2>2 DEF EachMeant
  <2>4. QED
    BY <1>1, <1>3, <2>3 DEF EntrySoFar
<1>4. QED
  BY <1>1, <1>2, <1>3 DEF GiveControl

\* A child is only started for an entry that is complete or has nothing to run, and
\* does not get past its first step in the latter case.
LEMMA ChildEntry ==
  ASSUME EntrySoFar, UNCHANGED <<dir, context, accounts, entry>>,
         \/ /\ pc = "loaded" /\ pc' \in {"child", "not started"}
         \/ /\ pc = "nothing to run" /\ pc' = "child" /\ proc'.step = "arguments"
         \/ /\ pc = "child" /\ (proc.step # "arguments" \/ ~NothingToRun(entry))
            /\ pc' \in {"child", "running", "failed"}
         \/ pc' \in {"failed", "gone"}
  PROVE  EntrySoFar'
<1>1. Loaded' = Loaded /\ NothingToRun(entry)' = NothingToRun(entry)
  BY LoadedFrame
<1>2. Loaded => ~NothingToRun(entry)
  BY DEF Loaded, Runnable
<1>3. pc' \notin {"none", "load disabled", "check run", "load", "validate", "loaded", "nothing to run"}
  OBVIOUS
<1>4. QED
  BY <1>1, <1>2, <1>3 DEF EntrySoFar, Loading

\* Loading a service takes its settings, one after the other.
LEMMA LaunchEntry ==
  ASSUME EntrySoFar, LaunchStep, UNCHANGED accounts
  PROVE  EntrySoFar'
<1>1. UNCHANGED <<dir, context>>
  BY LaunchFrame
<1>2. CASE LoadSetting
  <2>1. next \in 1..17
    <3>1. next = 1 \/ next \in 2..17
      BY <1>2 DEF LoadSetting, EntrySoFar
    <3>2. QED
      BY <3>1
  <2>2. QED
    BY <1>1, <1>2, <2>1, LoadSettingEntry
<1>3. CASE CheckRun \/ Validate
  BY <1>1, <1>3, CheckRunEntry, ValidateEntry
<1>4. CASE Fork \/ RestartCommand
  <2>1. CASE Fork
    BY <1>1, <2>1, ChildEntry DEF Fork
  <2>2. CASE RestartCommand
    <3>1. proc'.step = "arguments"
      BY <2>2 DEF RestartCommand, CopyOfCinit
    <3>2. QED
      BY <1>1, <2>2, <3>1, ChildEntry DEF RestartCommand
  <2>3. QED
    BY <1>4, <2>1, <2>2
<1>5. CASE SetArguments
  BY <1>1, <1>5, ChildEntry DEF SetArguments, At, Done, ChildFails, ChildStep
<1>6. CASE SetPriority \/ SetUmask \/ SetGroups \/ SetGid \/ SetUid \/ ChangeDirectory \/ Execute
  <2>1. /\ pc = "child" /\ proc.step # "arguments" /\ UNCHANGED entry
        /\ pc' \in {"child", "running", "failed"}
    BY <1>6 DEF SetPriority, SetUmask, SetGroups, SetGid, SetUid, ChangeDirectory, Execute, At, Done,
       ChildFails, ChildStep
  <2>2. QED
    BY <1>1, <2>1, ChildEntry
<1>7. QED
  BY <1>2, <1>3, <1>4, <1>5, <1>6 DEF LaunchStep

\* At first no service is loaded.
LEMMA EntryInit == Init => EntrySoFar
BY DEF Init, LaunchInit, EntrySoFar, Loading

\* The tables of users and groups stay what they are once cinit has control.
LEMMA AccountsKept ==
  ASSUME Phases, InitStep, pc # "none"
  PROVE  UNCHANGED <<environ, accounts>>
<1>1. stage \notin {"cont-env", "cont-secrets", "cont-init"}
  BY DEF Phases
<1>2. QED
  BY <1>1 DEF InitStep, BadName, LoadFile, LoadProgram, LoadSecret, SkipScript, RunInitScript,
     RunFinishScript, NextStage

\* Every step keeps the entry what the settings loaded so far make it.
LEMMA EntryNext == Phases /\ EntrySoFar /\ [Next]_vars => EntrySoFar'
<1> SUFFICES ASSUME Phases, EntrySoFar, [Next]_vars PROVE EntrySoFar'
  OBVIOUS
<1>1. CASE InitStep /\ UNCHANGED launchVars
  <2>1. CASE pc = "none"
    BY <1>1, <2>1 DEF launchVars, EntrySoFar, Loading
  <2>2. CASE pc # "none"
    BY <1>1, <2>2, AccountsKept, EntryFrame
  <2>3. QED
    BY <2>1, <2>2
<1>2. CASE GiveControl
  BY <1>2, ControlEntry
<1>3. CASE stage = "supervisor" /\ LaunchStep /\ UNCHANGED initVars
  BY <1>3, LaunchEntry DEF initVars
<1>4. CASE End
  <2>1. UNCHANGED accounts
    BY <1>4 DEF End, SupervisorEnds
  <2>2. CASE pc = "running"
    BY <1>4, <2>1, <2>2, ChildEntry DEF End
  <2>3. CASE pc # "running"
    BY <1>4, <2>1, <2>3, EntryFrame DEF End, launchVars
  <2>4. QED
    BY <2>2, <2>3
<1>5. CASE UNCHANGED vars
  BY <1>5, EntryFrame DEF vars, initVars
<1>6. QED
  BY <1>1, <1>2, <1>3, <1>4, <1>5 DEF Next

\* Nothing runs for a service that is disabled or has no program, or with a setting
\* that could not be read.
THEOREM OnlyEnabledRunCorrect == Spec => []OnlyEnabledRun
<1>1. ASSUME Loaded PROVE OnlyEnabledRun
  <2>1. "disabled" \in SettingNames \ {"ready_timeout"} /\ Type("disabled") = "bool"
    BY SettingsListed DEF Type
  <2>2. Printed("disabled") => entry.disabled = Meant("disabled")
    BY <1>1, <2>1 DEF Loaded
  <2>3. Meant("disabled") = Asked("disabled", FALSE)
    BY <2>1 DEF Meant, Asked, Word, Converted, NewEntry, SettingNames
  <2>4. "run" \in DOMAIN dir /\ ~entry.disabled /\ dir.run.exec
    BY <1>1 DEF Loaded, Runnable, NothingToRun
  <2>5. \A i \in DOMAIN Settings : Readable(Settings[i])
    BY <1>1 DEF Loaded, SettingNames
  <2>6. QED
    BY <2>2, <2>3, <2>4, <2>5 DEF OnlyEnabledRun, Readable
<1>2. EntrySoFar => OnlyEnabledRun
  BY <1>1 DEF EntrySoFar, OnlyEnabledRun
<1>3. Init => Loops /\ Phases /\ EntrySoFar
  BY LoopsInit, PhasesInit, EntryInit
<1>4. QED
  BY <1>2, <1>3, PhasesNext, EntryNext, PTL DEF Spec

-----------------------------------------------------------------------------
(* The child. *)

Steps == {"arguments", "priority", "umask", "groups", "gid", "uid", "workdir", "exec"}
Fields == {"step", "uid", "gid", "groups", "priority", "umask", "workdir", "params", "env"}
CinitsId == IF privileged THEN 0 ELSE 1000

\* What the child has taken on when it comes to step at.
TakenOn(p, at) ==
  /\ at # "arguments" => p.params = entry.params /\ p.env = Environment
  /\ p.priority = IF at \in {"arguments", "priority"} THEN 0 ELSE entry.priority
  /\ at \notin {"arguments", "priority", "umask"} => p.umask = entry.umask
  /\ at \in {"gid", "uid", "workdir", "exec"} => p.groups = entry.sgid /\ CinitsId = 0
  /\ p.gid = IF at \in {"uid", "workdir", "exec"} THEN entry.gid ELSE CinitsId
  /\ p.uid = IF at \in {"workdir", "exec"} THEN entry.uid ELSE CinitsId
  /\ p.workdir = IF at = "exec" THEN entry.workdir ELSE ""

ChildSoFar ==
  /\ pc \in {"child", "running"} =>
       proc.step \in Steps /\ DOMAIN proc = Fields /\ TakenOn(proc, proc.step)
  /\ pc = "running" => proc.step = "exec"

\* The child, one step further.
LEMMA OneStepFurther ==
  ASSUME NEW p, NEW to \in Steps, DOMAIN p = Fields, TakenOn(p, to),
         UNCHANGED <<privileged, environ, entry>>, pc' \in {"child", "failed"},
         pc' = "child" => proc' = [p EXCEPT !.step = to]
  PROVE  ChildSoFar'
<1>1. CASE pc' = "child"
  <2>1. DOMAIN proc' = Fields /\ proc'.step = to /\ proc'.params = p.params /\ proc'.env = p.env
        /\ proc'.priority = p.priority /\ proc'.umask = p.umask /\ proc'.groups = p.groups
        /\ proc'.gid = p.gid /\ proc'.uid = p.uid /\ proc'.workdir = p.workdir
    BY <1>1 DEF Fields
  <2>2. Environment' = Environment /\ CinitsId' = CinitsId
    BY DEF Environment, CinitsId
  <2>3. TakenOn(proc, proc.step)'
    BY <2>1, <2>2 DEF TakenOn
  <2>4. QED
    BY <1>1, <2>1, <2>3 DEF ChildSoFar
<1>2. CASE pc' = "failed"
  BY <1>2 DEF ChildSoFar
<1>3. QED
  BY <1>1, <1>2

\* The child takes its identity from the entry.
LEMMA ChildLaunch ==
  ASSUME ChildSoFar, LaunchStep, UNCHANGED environ
  PROVE  ChildSoFar'
<1>1. UNCHANGED <<privileged>>
  BY LaunchFrame
<1>2. CASE pc' \notin {"child", "running"}
  BY <1>2 DEF ChildSoFar
<1>3. CASE Fork \/ RestartCommand
  <2>1. CASE pc' = "child" /\ proc' = CopyOfCinit
    <3>1. DOMAIN CopyOfCinit = Fields /\ CopyOfCinit.step = "arguments"
      BY DEF CopyOfCinit, Fields
    <3>2. TakenOn(proc, "arguments")'
      <4>1. /\ proc'.priority = 0 /\ proc'.workdir = ""
            /\ proc'.uid = CinitsId /\ proc'.gid = CinitsId
        BY <2>1 DEF CopyOfCinit, CinitsId
      <4>2. CinitsId' = CinitsId
        BY <1>1 DEF CinitsId
      <4>3. QED
        BY <4>1, <4>2 DEF TakenOn
    <3>3. QED
      BY <2>1, <3>1, <3>2 DEF ChildSoFar, Steps
  <2>2. QED
    BY <1>2, <1>3, <2>1 DEF Fork, RestartCommand
<1>4. ASSUME pc = "child", pc' \in {"child", "running"}, ChildStep,
             SetArguments \/ SetPriority \/ SetUmask \/ SetGroups \/ SetGid \/ SetUid
               \/ ChangeDirectory \/ Execute
      PROVE  ChildSoFar'
  <2>1. /\ proc.step \in Steps /\ DOMAIN proc = Fields /\ TakenOn(proc, proc.step)
        /\ UNCHANGED <<privileged, environ, entry>>
    BY <1>4 DEF ChildSoFar, ChildStep
  <2>2. CASE SetArguments
    <3> DEFINE p == [proc EXCEPT !.params = entry.params, !.env = Environment]
    <3>1. proc.step = "arguments" /\ pc' = "child" /\ proc' = [p EXCEPT !.step = "priority"]
      BY <1>4, <2>2 DEF SetArguments, At, Done, ChildFails
    <3>2. DOMAIN p = Fields /\ TakenOn(p, "priority")
      BY <2>1, <3>1 DEF TakenOn, Fields
    <3>3. QED
      BY <2>1, <3>1, <3>2, OneStepFurther DEF Steps
  <2>3. CASE SetPriority
    <3> DEFINE p == IF entry.priority # 0 THEN [proc EXCEPT !.priority = entry.priority] ELSE proc
    <3>1. proc.step = "priority" /\ pc' = "child" /\ proc' = [p EXCEPT !.step = "umask"]
      BY <1>4, <2>3 DEF SetPriority, At, Done, ChildFails
    <3>2. DOMAIN p = Fields /\ TakenOn(p, "umask")
      BY <2>1, <3>1 DEF TakenOn, Fields
    <3>3. QED
      BY <2>1, <3>1, <3>2, OneStepFurther DEF Steps
  <2>4. CASE SetUmask
    <3> DEFINE p == [proc EXCEPT !.umask = entry.umask]
    <3>1. proc.step = "umask" /\ pc' = "child" /\ proc' = [p EXCEPT !.step = "groups"]
      BY <1>4, <2>4 DEF SetUmask, At, Done
    <3>2. DOMAIN p = Fields /\ TakenOn(p, "groups")
      BY <2>1, <3>1 DEF TakenOn, Fields
    <3>3. QED
      BY <2>1, <3>1, <3>2, OneStepFurther DEF Steps
  <2>5. CASE SetGroups
    <3> DEFINE p == [proc EXCEPT !.groups = entry.sgid]
    <3>1. /\ proc.step = "groups" /\ pc' = "child" /\ proc' = [p EXCEPT !.step = "gid"]
          /\ proc.uid = 0
      BY <1>4, <2>5 DEF SetGroups, ServiceGroups, At, Done, ChildFails
    <3>2. DOMAIN p = Fields /\ TakenOn(p, "gid")
      BY <2>1, <3>1 DEF TakenOn, Fields
    <3>3. QED
      BY <2>1, <3>1, <3>2, OneStepFurther DEF Steps
  <2>6. CASE SetGid
    <3> DEFINE p == IF entry.gid # 0 THEN [proc EXCEPT !.gid = entry.gid] ELSE proc
    <3>1. proc.step = "gid" /\ pc' = "child" /\ proc' = [p EXCEPT !.step = "uid"]
      BY <1>4, <2>6 DEF SetGid, At, Done, ChildFails
    <3>2. DOMAIN p = Fields /\ TakenOn(p, "uid")
      BY <2>1, <3>1 DEF TakenOn, Fields
    <3>3. QED
      BY <2>1, <3>1, <3>2, OneStepFurther DEF Steps
  <2>7. CASE SetUid
    <3> DEFINE p == IF entry.uid # 0 THEN [proc EXCEPT !.uid = entry.uid] ELSE proc
    <3>1. proc.step = "uid" /\ pc' = "child" /\ proc' = [p EXCEPT !.step = "workdir"]
      BY <1>4, <2>7 DEF SetUid, At, Done, ChildFails
    <3>2. DOMAIN p = Fields /\ TakenOn(p, "workdir")
      BY <2>1, <3>1 DEF TakenOn, Fields
    <3>3. QED
      BY <2>1, <3>1, <3>2, OneStepFurther DEF Steps
  <2>8. CASE ChangeDirectory
    <3> DEFINE p == IF entry.workdir # "" THEN [proc EXCEPT !.workdir = entry.workdir] ELSE proc
    <3>1. proc.step = "workdir" /\ pc' = "child" /\ proc' = [p EXCEPT !.step = "exec"]
      BY <1>4, <2>8 DEF ChangeDirectory, At, Done, ChildFails
    <3>2. DOMAIN p = Fields /\ TakenOn(p, "exec")
      BY <2>1, <3>1 DEF TakenOn, Fields
    <3>3. QED
      BY <2>1, <3>1, <3>2, OneStepFurther DEF Steps
  <2>9. CASE Execute
    <3>1. proc.step = "exec" /\ pc' = "running" /\ proc' = proc
      BY <1>4, <2>9 DEF Execute, At, ChildFails
    <3>2. TakenOn(proc, "exec")' = TakenOn(proc, "exec")
      BY <2>1, <3>1 DEF TakenOn, Environment, CinitsId
    <3>3. QED
      BY <2>1, <3>1, <3>2 DEF ChildSoFar
  <2>10. QED
    BY <1>4, <2>2, <2>3, <2>4, <2>5, <2>6, <2>7, <2>8, <2>9
<1>5. CASE LoadSetting \/ CheckRun \/ Validate
  BY <1>2, <1>5 DEF LoadSetting, AfterSetting, CheckRun, Validate, Unload
<1>6. CASE SetArguments \/ SetPriority \/ SetUmask \/ SetGroups
  BY <1>2, <1>4, <1>6 DEF SetArguments, SetPriority, SetUmask, SetGroups, At
<1>7. CASE SetGid \/ SetUid \/ ChangeDirectory \/ Execute
  BY <1>2, <1>4, <1>7 DEF SetGid, SetUid, ChangeDirectory, Execute, At
<1>8. QED
  BY <1>3, <1>5, <1>6, <1>7 DEF LaunchStep

\* At first there is no child.
LEMMA ChildInit == Init => ChildSoFar
BY DEF Init, LaunchInit, ChildSoFar

\* Every step keeps the identity of the child what the entry says.
LEMMA ChildNext == Phases /\ ChildSoFar /\ [Next]_vars => ChildSoFar'
<1> SUFFICES ASSUME Phases, ChildSoFar, [Next]_vars PROVE ChildSoFar'
  OBVIOUS
<1>1. ASSUME UNCHANGED <<launchVars, environ>> PROVE ChildSoFar'
  <2>1. UNCHANGED <<privileged, pc, entry, proc, environ>>
    BY <1>1 DEF launchVars
  <2>2. \A p, at : TakenOn(p, at)' = TakenOn(p, at)
    BY <2>1 DEF TakenOn, Environment, CinitsId
  <2>3. TakenOn(proc, proc.step)' = TakenOn(proc, proc.step)
    BY <2>1 DEF TakenOn, Environment, CinitsId
  <2>4. QED
    BY <2>1, <2>3 DEF ChildSoFar
<1>2. CASE InitStep /\ UNCHANGED launchVars
  <2>1. CASE pc = "none"
    BY <1>2, <2>1 DEF launchVars, ChildSoFar
  <2>2. CASE pc # "none"
    BY <1>1, <1>2, <2>2, AccountsKept
  <2>3. QED
    BY <2>1, <2>2
<1>3. CASE GiveControl
  BY <1>3 DEF GiveControl, Phases, ChildSoFar
<1>4. CASE stage = "supervisor" /\ LaunchStep /\ UNCHANGED initVars
  BY <1>4, ChildLaunch DEF initVars
<1>5. CASE End
  <2>1. pc' \notin {"child", "running"}
    BY <1>5 DEF End
  <2>2. QED
    BY <2>1 DEF ChildSoFar
<1>6. CASE UNCHANGED vars
  BY <1>1, <1>6 DEF vars, initVars
<1>7. QED
  BY <1>2, <1>3, <1>4, <1>5, <1>6 DEF Next

-----------------------------------------------------------------------------
(* The defaults of cinit. *)

ContextSoFar ==
  /\ DOMAIN context = {"uid", "gid", "ready_timeout"}
  /\ pc # "none" =>
       /\ {"USER_ID", "GROUP_ID"} \subseteq DOMAIN environ
       /\ context.uid = Meaning("uid")[environ["USER_ID"]]
       /\ context.gid = Meaning("gid")[environ["GROUP_ID"]]

\* At first cinit has not been given control.
LEMMA ContextInit == Init => ContextSoFar
BY DEF Init, LaunchInit, ContextSoFar

\* Every step keeps what cinit got from the init script.
LEMMA ContextNext == Phases /\ ContextSoFar /\ [Next]_vars => ContextSoFar'
<1> SUFFICES ASSUME Phases, ContextSoFar, [Next]_vars PROVE ContextSoFar'
  OBVIOUS
<1>1. ASSUME UNCHANGED <<context, environ, accounts>>, pc' = "none" \/ pc # "none"
      PROVE  ContextSoFar'
  <2>1. \A type : Meaning(type)' = Meaning(type)
    BY <1>1 DEF Meaning
  <2>2. QED
    BY <1>1, <2>1 DEF ContextSoFar
<1>2. CASE InitStep /\ UNCHANGED launchVars
  <2>1. CASE pc = "none"
    BY <1>2, <2>1 DEF launchVars, ContextSoFar
  <2>2. CASE pc # "none"
    BY <1>1, <1>2, <2>2, AccountsKept DEF launchVars
  <2>3. QED
    BY <2>1, <2>2
<1>3. CASE GiveControl
  <2>1. CASE UNCHANGED <<context, pc>>
    BY <1>3, <2>1 DEF GiveControl, Phases, ContextSoFar
  <2>2. CASE /\ {"USER_ID", "GROUP_ID"} \subseteq DOMAIN environ
             /\ context' = [context EXCEPT !.uid = Meaning("uid")[environ["USER_ID"]],
                                           !.gid = Meaning("gid")[environ["GROUP_ID"]]]
             /\ UNCHANGED <<environ, accounts>>
    <3>1. \A type : Meaning(type)' = Meaning(type)
      BY <2>2 DEF Meaning
    <3>2. /\ DOMAIN context' = {"uid", "gid", "ready_timeout"}
          /\ context'.uid = Meaning("uid")[environ["USER_ID"]]
          /\ context'.gid = Meaning("gid")[environ["GROUP_ID"]]
      BY <2>2 DEF ContextSoFar
    <3>3. QED
      BY <2>2, <3>1, <3>2 DEF ContextSoFar
  <2>3. QED
    BY <1>3, <2>1, <2>2 DEF GiveControl
<1>4. CASE stage = "supervisor" /\ LaunchStep /\ UNCHANGED initVars
  BY <1>1, <1>4, LaunchFrame DEF initVars, Phases
<1>5. CASE End
  <2>1. UNCHANGED <<context, environ, accounts>> /\ (pc' = "none" \/ pc # "none")
    BY <1>5 DEF End, SupervisorEnds
  <2>2. QED
    BY <1>1, <2>1
<1>6. CASE UNCHANGED vars
  BY <1>1, <1>6 DEF vars, initVars, launchVars
<1>7. QED
  BY <1>2, <1>3, <1>4, <1>5, <1>6 DEF Next

\* The ids of the user of the container are the defaults.
LEMMA DefaultIds ==
  ASSUME ContextSoFar, EnvironSoFar, ListUntouched, pc # "none"
  PROVE  context.uid = Default("uid", "USER_ID") /\ context.gid = Default("gid", "GROUP_ID")
<1>1. ContainerHas("USER_ID") = {environ["USER_ID"]} /\ ContainerHas("GROUP_ID") = {environ["GROUP_ID"]}
  BY DEF ContextSoFar, EnvironSoFar, Environ
<1>2. /\ Default("uid", "USER_ID") = Meaning("uid")[environ["USER_ID"]]
      /\ Default("gid", "GROUP_ID") = Meaning("gid")[environ["GROUP_ID"]]
  BY <1>1 DEF Default
<1>3. QED
  BY <1>2 DEF ContextSoFar

-----------------------------------------------------------------------------
(* What the program of the service gets. *)

\* The environment variables that the rules of precedence give.
LEMMA Delivered ==
  ASSUME EnvironSoFar, EntrySoFar, ChildSoFar, pc = "running", ListUntouched, NEW var
  PROVE  Getenv(proc.env, var) = ServiceHas(var)
<1>1. proc.env = Environment /\ Loaded
  BY DEF ChildSoFar, TakenOn, EntrySoFar
<1>2. Environ(var) = ContainerHas(var)
  BY DEF EnvironSoFar
<1>3. \A s \in {"environment", "environment_extra"} : entry[s] = Meant(s)
  BY <1>1, SettingsListed DEF Loaded, Printed, Type
<1>4. CASE Given("environment")
  <2>1. entry.environment = [given |-> TRUE, vars |-> ItemsOf("environment")]
    <3>1. \A lines : Converted("environment", lines) = [given |-> TRUE, vars |-> lines]
      BY DEF Converted, Type
    <3>2. entry["environment"] = Converted("environment", Received("environment"))
      BY <1>3, <1>4 DEF Meant
    <3>3. ItemsOf("environment") = Received("environment")
      BY <1>4 DEF ItemsOf, Entries
    <3>4. QED
      BY <3>1, <3>2, <3>3
  <2>2. proc.env.inherited = << >> /\ proc.env.listed = ItemsOf("environment")
    <3>1. entry.environment.given = TRUE /\ entry.environment.vars = ItemsOf("environment")
      BY <2>1
    <3>2. QED
      BY <1>1, <3>1 DEF Environment
  <2>3. Getenv(proc.env, var) = Listed("environment", var)
    BY <1>4, <2>2 DEF Getenv, Listed
  <2>4. QED
    BY <1>4, <2>3 DEF ServiceHas, Given
<1>5. CASE ~Given("environment")
  <2>1. entry.environment = [given |-> FALSE, vars |-> << >>]
    <3>1. NewEntry["environment"] = [given |-> FALSE, vars |-> << >>]
      BY SettingsListed DEF NewEntry, SettingNames, Type
    <3>2. QED
      BY <1>3, <1>5, <3>1 DEF Meant
  <2>2. proc.env.inherited = environ /\ proc.env.listed = entry.environment_extra
    <3>1. entry.environment.given = FALSE
      BY <2>1
    <3>2. QED
      BY <1>1, <3>1 DEF Environment
  <2>3. entry.environment_extra = ItemsOf("environment_extra")
    <3>1. NewEntry["environment_extra"] = << >>
      BY SettingsListed DEF NewEntry, SettingNames, Type
    <3>2. \A lines : /\ Converted("environment_extra", lines) = lines
                     /\ Entries("environment_extra", lines) = lines
      BY DEF Converted, Type, Entries
    <3>3. QED
      BY <1>3, <3>1, <3>2 DEF Meant, ItemsOf
  <2>4. Getenv(proc.env, var) = IF Environ(var) # {} THEN Environ(var) ELSE Listed("environment_extra", var)
    BY <2>2, <2>3 DEF Getenv, Listed, Environ
  <2>5. QED
    BY <1>2, <1>5, <2>4 DEF ServiceHas, Given
<1>6. QED
  BY <1>4, <1>5

\* The identity that the files of the service ask for.
LEMMA AsAsked ==
  ASSUME ContextSoFar, EnvironSoFar, EntrySoFar, ChildSoFar, pc = "running", ListUntouched,
         \A i \in DOMAIN Settings : Printed(Settings[i])
  PROVE  IdentityAsAsked
<1>1. /\ TakenOn(proc, "exec") /\ Loaded /\ DOMAIN context = {"uid", "gid", "ready_timeout"}
  BY DEF ChildSoFar, EntrySoFar, ContextSoFar
<1>2. \A s \in SettingNames \ {"ready_timeout"} : entry[s] = Meant(s)
  BY <1>1 DEF Loaded, SettingNames
<1>3. {"uid", "gid", "sgid", "umask", "priority", "workdir", "params"} \subseteq SettingNames \ {"ready_timeout"}
  BY SettingsListed
<1>4. /\ NewEntry["uid"] = context.uid /\ NewEntry["gid"] = context.gid /\ NewEntry["umask"] = 18
      /\ NewEntry["priority"] = 0 /\ NewEntry["workdir"] = "" /\ NewEntry["sgid"] = << >>
      /\ NewEntry["params"] = << >>
  BY <1>3 DEF NewEntry, SettingNames, Type
<1>5. context.uid = Default("uid", "USER_ID") /\ context.gid = Default("gid", "GROUP_ID")
  BY DefaultIds
<1>6. proc.uid = Asked("uid", Default("uid", "USER_ID")) /\ proc.gid = Asked("gid", Default("gid", "GROUP_ID"))
  BY <1>1, <1>2, <1>3, <1>4, <1>5 DEF TakenOn, Meant, Asked, Word, Converted, Type
<1>7. proc.umask = Asked("umask", 18) /\ proc.priority = Asked("priority", 0)
  BY <1>1, <1>2, <1>3, <1>4 DEF TakenOn, Meant, Asked, Word, Converted, Type
<1>8. /\ proc.groups = IF Given("sgid") THEN Groups(ItemsOf("sgid")) ELSE << >>
      /\ proc.workdir = IF Given("workdir") THEN Word("workdir") ELSE ""
      /\ proc.params = ItemsOf("params")
  BY <1>1, <1>2, <1>3, <1>4 DEF TakenOn, Meant, Word, ItemsOf, Converted, Type
<1>9. QED
  BY <1>6, <1>7, <1>8 DEF IdentityAsAsked

\* From the creation of the container to the program of the service: each variable
\* has the value with the highest precedence.
THEOREM EnvironmentDeliveredCorrect == Spec => []EnvironmentDelivered
<1>1. Init => Loops /\ Phases /\ EnvironSoFar /\ EntrySoFar /\ ChildSoFar
  BY LoopsInit, PhasesInit, EnvironInit, EntryInit, ChildInit
<1>2. EnvironSoFar /\ EntrySoFar /\ ChildSoFar => EnvironmentDelivered
  BY Delivered DEF EnvironmentDelivered
<1>3. QED
  BY <1>1, <1>2, PhasesNext, EnvironNext, EntryNext, ChildNext, PTL DEF Spec

\* A program only ever runs with the identity its service asks for.
THEOREM IdentityAsAskedCorrect == Spec => []IdentityAsAsked
<1>1. Init => Loops /\ Phases /\ EnvironSoFar /\ EntrySoFar /\ ChildSoFar /\ ContextSoFar
  BY LoopsInit, PhasesInit, EnvironInit, EntryInit, ChildInit, ContextInit
<1>2. ContextSoFar /\ EnvironSoFar /\ EntrySoFar /\ ChildSoFar => IdentityAsAsked
  <2>1. CASE pc = "running" /\ ListUntouched /\ \A i \in DOMAIN Settings : Printed(Settings[i])
    BY <2>1, AsAsked
  <2>2. QED
    BY <2>1 DEF IdentityAsAsked
<1>3. QED
  BY <1>1, <1>2, PhasesNext, EnvironNext, EntryNext, ChildNext, ContextNext, PTL DEF Spec

-----------------------------------------------------------------------------
(* The loops of 10-init-users.sh, step by step. *)

\* Every nonempty set of natural numbers has a least element.
LEMMA LeastNat ==
  ASSUME NEW T, T \subseteq Nat, T # {}
  PROVE  \E x \in T : \A y \in T : x <= y
<1> DEFINE C == {0 .. (n - 1) : n \in T}
<1>1. C \subseteq FiniteSubsetsOf(Nat)
  <2>1. ASSUME NEW n \in T PROVE IsFiniteSet(0 .. (n - 1))
    BY FS_Interval
  <2>2. QED
    BY <2>1 DEF FiniteSubsetsOf
<1>2. C # {}
  OBVIOUS
<1>3. PICK m \in C : \A y \in C : ~(<<y, m>> \in StrictSubsetOrdering(Nat))
  <2> HIDE DEF C
  <2>1. QED
    BY <1>1, <1>2, FS_StrictSubsetOrderingWellFounded, WFMin
<1>4. PICK x \in T : m = 0 .. (x - 1)
  OBVIOUS
<1>5. ASSUME NEW y \in T, y < x PROVE FALSE
  <2>1. 0 .. (y - 1) \in C
    OBVIOUS
  <2>2. 0 .. (y - 1) \subseteq 0 .. (x - 1) /\ y \in 0 .. (x - 1) /\ y \notin 0 .. (y - 1)
    BY <1>5
  <2>3. 0 .. (y - 1) \subseteq Nat /\ 0 .. (x - 1) \subseteq Nat
    OBVIOUS
  <2>4. <<0 .. (y - 1), m>> \in StrictSubsetOrdering(Nat)
    BY <1>4, <2>2, <2>3 DEF StrictSubsetOrdering
  <2>5. QED
    BY <1>3, <2>1, <2>4
<1>6. QED
  BY <1>5

\* What holds before a loop and after each of its rounds holds after all of them.
LEMMA EachRound ==
  ASSUME NEW n \in Nat, NEW S, 0 \in S, \A k \in 1..n : k - 1 \in S => k \in S
  PROVE  \A k \in 0..n : k \in S
<1> DEFINE T == {k \in 0..n : k \notin S}
<1> SUFFICES ASSUME T # {} PROVE FALSE
  OBVIOUS
<1>1. PICK m \in T : \A k \in T : m <= k
  <2>1. T \subseteq Nat
    OBVIOUS
  <2> HIDE DEF T
  <2>2. QED
    BY <2>1, LeastNat
<1>2. m # 0 /\ m \in 1..n /\ m \notin S
  <2>1. m \in 0..n /\ m \notin S
    OBVIOUS
  <2>2. QED
    BY <2>1
<1>3. m - 1 \in 0..n /\ ~(m <= m - 1)
  BY <1>2
<1>4. m - 1 \in S
  BY <1>1, <1>3
<1>5. QED
  BY <1>2, <1>4

\* The four loops: over the groups, over the users, over the groups of a user and
\* over the supplementary groups of app.
Round(loop, user, t, e) ==
  CASE loop = "groups" -> AddDefinedGroup(t, e)
    [] loop = "users" -> AddDefinedUser(t, e)
    [] loop = "grps" -> AddToListed(t, user, e)
    [] loop = "ids" -> AddSupplementary(t, e)

\* The tables after all sets of the first n elements, as the fold makes them.
IsFold(loop, user, base, list, n, table) ==
  table = [s \in SUBSET (1..n) |->
             IF s = {} THEN base ELSE Round(loop, user, table[s \ {Max(s)}], list[Max(s)])]

\* The last one of a set that goes up to n.
LEMMA MaxIs == ASSUME NEW n \in Nat, NEW s \in SUBSET (1..n), n \in s PROVE Max(s) = n
<1>1. \A x \in s : x \in Nat /\ x <= n
  OBVIOUS
<1>2. \E x \in s : \A y \in s : x >= y
  BY <1>1
<1>3. PICK m : m = Max(s)
  OBVIOUS
<1>4. m \in s /\ \A y \in s : m >= y
  BY <1>2, <1>3 DEF Max
<1>5. QED
  BY <1>1, <1>3, <1>4

\* There are such tables.
LEMMA FoldExists ==
  ASSUME NEW loop, NEW user, NEW base, NEW list, NEW n \in Nat
  PROVE  \E table : IsFold(loop, user, base, list, n, table)
<1> DEFINE Add(t, e) == Round(loop, user, t, e)
           T == {m \in Nat : ~\E table : IsFold(loop, user, base, list, m, table)}
<1> SUFFICES ASSUME T # {} PROVE FALSE
  OBVIOUS
<1>1. PICK m \in T : \A k \in T : m <= k
  BY LeastNat
<1>2. IsFold(loop, user, base, list, 0, [s \in SUBSET (1..0) |-> base])
  <2>1. \A s \in SUBSET (1..0) : s = {}
    OBVIOUS
  <2>2. QED
    BY <2>1 DEF IsFold
<1>3. m # 0 /\ m - 1 \in Nat /\ m - 1 \notin T
  BY <1>1, <1>2
<1>4. PICK table : IsFold(loop, user, base, list, m - 1, table)
  BY <1>3
<1>5. \A s \in SUBSET (1..m) : m \notin s => s \in SUBSET (1..(m - 1))
  BY <1>3
<1> DEFINE old(s) == IF s = {} THEN base ELSE Add(table[s \ {Max(s)}], list[Max(s)])
           larger == [s \in SUBSET (1..m) |->
                        IF m \in s THEN Add(table[s \ {m}], list[m]) ELSE table[s]]
           value(s) == IF s = {} THEN base ELSE Add(larger[s \ {Max(s)}], list[Max(s)])
<1>6. \A s \in SUBSET (1..(m - 1)) : table[s] = old(s)
  <2>1. table = [s \in SUBSET (1..(m - 1)) |-> old(s)]
    BY <1>4 DEF IsFold
  <2> HIDE DEF old
  <2>2. QED
    BY <2>1
<1>7. \A s \in SUBSET (1..m) : m \notin s => larger[s] = table[s]
  OBVIOUS
<1>8. ASSUME NEW s \in SUBSET (1..m) PROVE larger[s] = value(s)
  <2>1. CASE m \in s
    <3>1. Max(s) = m
      BY <1>3, <2>1, MaxIs
    <3>2. larger[s] = Add(table[s \ {m}], list[m]) /\ larger[s \ {m}] = table[s \ {m}]
      BY <1>7, <2>1
    <3>3. s # {}
      BY <2>1
    <3> HIDE DEF larger
    <3>4. QED
      BY <3>1, <3>2, <3>3
  <2>2. CASE m \notin s
    <3>1. larger[s] = old(s)
      BY <1>5, <1>6, <1>7, <2>2
    <3>2. larger[s \ {Max(s)}] = table[s \ {Max(s)}]
      BY <1>7, <2>2
    <3> HIDE DEF larger
    <3>3. QED
      BY <3>1, <3>2
  <2>3. QED
    BY <2>1, <2>2
<1>9. IsFold(loop, user, base, list, m, larger)
  <2>1. larger = [s \in SUBSET (1..m) |-> larger[s]]
    OBVIOUS
  <2> HIDE DEF larger, value
  <2>2. larger = [s \in SUBSET (1..m) |-> value(s)]
    BY <1>8, <2>1
  <2>3. QED
    BY <2>2 DEF IsFold, value
<1>10. QED
  BY <1>1, <1>9

\* The tables after each round.
Rounds(loop, user, base, list, n, r) ==
  r[0] = base /\ \A k \in 1..n : r[k] = Round(loop, user, r[k - 1], list[k])

\* A fold is the last of its rounds.
LEMMA FoldRounds ==
  ASSUME NEW loop, NEW user, NEW base, NEW list, NEW n \in Nat, NEW table,
         IsFold(loop, user, base, list, n, table)
  PROVE  \E r : Rounds(loop, user, base, list, n, r) /\ r[n] = table[1..n]
<1> DEFINE value(s) == IF s = {} THEN base ELSE Round(loop, user, table[s \ {Max(s)}], list[Max(s)])
           r == [k \in 0..n |-> table[1..k]]
<1>1. \A s \in SUBSET (1..n) : table[s] = value(s)
  <2>1. table = [s \in SUBSET (1..n) |-> value(s)]
    BY DEF IsFold
  <2> HIDE DEF value
  <2>2. QED
    BY <2>1
<1>2. r[0] = base
  <2>1. 1..0 = {} /\ {} \in SUBSET (1..n) /\ value({}) = base
    OBVIOUS
  <2> HIDE DEF value
  <2>2. QED
    BY <1>1, <2>1
<1>3. ASSUME NEW k \in 1..n PROVE r[k] = Round(loop, user, r[k - 1], list[k])
  <2>1. k \in Nat /\ k \in 1..k /\ 1..k \in SUBSET (1..n)
    OBVIOUS
  <2>2. Max(1..k) = k
    BY <2>1, MaxIs
  <2>3. (1..k) \ {k} = 1..(k - 1) /\ 1..k # {}
    BY <2>1
  <2>4. value(1..k) = Round(loop, user, table[1..(k - 1)], list[k])
    BY <2>2, <2>3
  <2>5. k \in 0..n /\ k - 1 \in 0..n
    OBVIOUS
  <2> HIDE DEF value
  <2>6. r[k] = table[1..k] /\ r[k - 1] = table[1..(k - 1)]
    BY <2>5
  <2>7. QED
    BY <1>1, <2>1, <2>4, <2>6
<1>4. r[n] = table[1..n]
  OBVIOUS
<1> HIDE DEF r
<1>5. QED
  BY <1>2, <1>3, <1>4 DEF Rounds

\* The loop over the groups.
LEMMA GroupsLoop ==
  ASSUME NEW base, NEW list, Listing(list)
  PROVE  \E r : /\ Rounds("groups", "app", base, list, Len(list), r)
               /\ r[Len(list)] = FoldLeft(AddDefinedGroup, base, list)
<1> DEFINE n == Len(list)
           Folds(table) ==
             table = [s \in SUBSET (1..n) |->
                        IF s = {} THEN base ELSE AddDefinedGroup(table[s \ {Max(s)}], list[Max(s)])]
<1>1. n \in Nat /\ DOMAIN list = 1..n
  BY DEF Listing
<1>2. FoldLeft(AddDefinedGroup, base, list) = (CHOOSE table : Folds(table))[1..n]
  BY <1>1 DEF FoldLeft, MapThenFoldSet
<1> HIDE DEF n
<1>3. \A t, e : Round("groups", "app", t, e) = AddDefinedGroup(t, e)
  BY DEF Round
<1>4. \A table : Folds(table) <=> IsFold("groups", "app", base, list, n, table)
  BY <1>3 DEF IsFold
<1>5. PICK table : Folds(table) /\ table = CHOOSE t : Folds(t)
  BY <1>1, <1>4, FoldExists
<1> HIDE DEF Folds
<1>6. PICK r : Rounds("groups", "app", base, list, n, r) /\ r[n] = table[1..n]
  <2>1. IsFold("groups", "app", base, list, n, table)
    BY <1>4, <1>5
  <2>2. QED
    BY <1>1, <2>1, FoldRounds
<1>7. QED
  BY <1>2, <1>5, <1>6 DEF n

\* The loop over the users.
LEMMA UsersLoop ==
  ASSUME NEW base, NEW list, Listing(list)
  PROVE  \E r : /\ Rounds("users", "app", base, list, Len(list), r)
               /\ r[Len(list)] = FoldLeft(AddDefinedUser, base, list)
<1> DEFINE n == Len(list)
           Folds(table) ==
             table = [s \in SUBSET (1..n) |->
                        IF s = {} THEN base ELSE AddDefinedUser(table[s \ {Max(s)}], list[Max(s)])]
<1>1. n \in Nat /\ DOMAIN list = 1..n
  BY DEF Listing
<1>2. FoldLeft(AddDefinedUser, base, list) = (CHOOSE table : Folds(table))[1..n]
  BY <1>1 DEF FoldLeft, MapThenFoldSet
<1> HIDE DEF n
<1>3. \A t, e : Round("users", "app", t, e) = AddDefinedUser(t, e)
  BY DEF Round
<1>4. \A table : Folds(table) <=> IsFold("users", "app", base, list, n, table)
  BY <1>3 DEF IsFold
<1>5. PICK table : Folds(table) /\ table = CHOOSE t : Folds(t)
  BY <1>1, <1>4, FoldExists
<1> HIDE DEF Folds
<1>6. PICK r : Rounds("users", "app", base, list, n, r) /\ r[n] = table[1..n]
  <2>1. IsFold("users", "app", base, list, n, table)
    BY <1>4, <1>5
  <2>2. QED
    BY <1>1, <2>1, FoldRounds
<1>7. QED
  BY <1>2, <1>5, <1>6 DEF n

\* The user is added to the groups of the list, from the first to the last.
JoinListed(user, base, list) ==
  FoldLeft(LAMBDA tables, group : AddToListed(tables, user, group), base, list)

\* The loop over the groups of a user.
LEMMA ListedLoop ==
  ASSUME NEW base, NEW user, NEW list, Listing(list)
  PROVE  \E r : /\ Rounds("grps", user, base, list, Len(list), r)
               /\ r[Len(list)] = JoinListed(user, base, list)
<1> DEFINE n == Len(list)
           Add(t, e) == AddToListed(t, user, e)
           Folds(table) ==
             table = [s \in SUBSET (1..n) |->
                        IF s = {} THEN base ELSE Add(table[s \ {Max(s)}], list[Max(s)])]
<1>1. n \in Nat /\ DOMAIN list = 1..n
  BY DEF Listing
<1>2. JoinListed(user, base, list) = (CHOOSE table : Folds(table))[1..n]
  BY <1>1 DEF FoldLeft, MapThenFoldSet, JoinListed
<1> HIDE DEF n
<1>3. \A t, e : Round("grps", user, t, e) = Add(t, e)
  BY DEF Round
<1>4. \A table : Folds(table) <=> IsFold("grps", user, base, list, n, table)
  BY <1>3 DEF IsFold
<1>5. PICK table : Folds(table) /\ table = CHOOSE t : Folds(t)
  BY <1>1, <1>4, FoldExists
<1> HIDE DEF Folds
<1>6. PICK r : Rounds("grps", user, base, list, n, r) /\ r[n] = table[1..n]
  <2>1. IsFold("grps", user, base, list, n, table)
    BY <1>4, <1>5
  <2>2. QED
    BY <1>1, <2>1, FoldRounds
<1>7. QED
  BY <1>2, <1>5, <1>6 DEF n

\* The loop over the supplementary groups.
LEMMA IdsLoop ==
  ASSUME NEW base, NEW list, Listing(list)
  PROVE  \E r : /\ Rounds("ids", "app", base, list, Len(list), r)
               /\ r[Len(list)] = FoldLeft(AddSupplementary, base, list)
<1> DEFINE n == Len(list)
           Folds(table) ==
             table = [s \in SUBSET (1..n) |->
                        IF s = {} THEN base ELSE AddSupplementary(table[s \ {Max(s)}], list[Max(s)])]
<1>1. n \in Nat /\ DOMAIN list = 1..n
  BY DEF Listing
<1>2. FoldLeft(AddSupplementary, base, list) = (CHOOSE table : Folds(table))[1..n]
  BY <1>1 DEF FoldLeft, MapThenFoldSet
<1> HIDE DEF n
<1>3. \A t, e : Round("ids", "app", t, e) = AddSupplementary(t, e)
  BY DEF Round
<1>4. \A table : Folds(table) <=> IsFold("ids", "app", base, list, n, table)
  BY <1>3 DEF IsFold
<1>5. PICK table : Folds(table) /\ table = CHOOSE t : Folds(t)
  BY <1>1, <1>4, FoldExists
<1> HIDE DEF Folds
<1>6. PICK r : Rounds("ids", "app", base, list, n, r) /\ r[n] = table[1..n]
  <2>1. IsFold("ids", "app", base, list, n, table)
    BY <1>4, <1>5
  <2>2. QED
    BY <1>1, <2>1, FoldRounds
<1>7. QED
  BY <1>2, <1>5, <1>6 DEF n

-----------------------------------------------------------------------------
(* The tables of users and groups, as sets. *)

\* Tables have lines, groups have members, and no two groups have the same name.
IsSeq(s) == s \in Seq(Elems(s))
IsRow(g) == g = Group(g.name, g.gid, g.members) /\ IsSeq(g.members)
Tables(t) ==
  /\ t = [passwd |-> t.passwd, group |-> t.group, rc |-> t.rc]
  /\ t.rc \in Nat /\ IsSeq(t.passwd) /\ IsSeq(t.group)
  /\ \A i \in DOMAIN t.group : IsRow(t.group[i])
  /\ Unique(t.group)

\* The lines of /etc/group, whatever their order and that of the members.
AsSet(g) == Group(g.name, g.gid, Elems(g.members))
Rows(t) == {AsSet(g) : g \in Elems(t.group)}

\* A sequence has one element more.
LEMMA OneMore ==
  ASSUME NEW s, IsSeq(s), NEW e
  PROVE  /\ IsSeq(Append(s, e)) /\ Elems(Append(s, e)) = Elems(s) \cup {e}
         /\ Len(s) \in Nat /\ DOMAIN s = 1..Len(s) /\ DOMAIN Append(s, e) = 1..(Len(s) + 1)
         /\ \A i \in DOMAIN s : Append(s, e)[i] = s[i]
         /\ Append(s, e)[Len(s) + 1] = e
<1> DEFINE S == Elems(s) \cup {e}
           t == Append(s, e)
<1>1. s \in Seq(S) /\ e \in S
  BY DEF IsSeq
<1> HIDE DEF S
<1>2. /\ Len(s) \in Nat /\ DOMAIN s = 1..Len(s)
      /\ t \in Seq(S) /\ Len(t) = Len(s) + 1 /\ DOMAIN t = 1..(Len(s) + 1)
      /\ \A i \in 1..Len(s) : t[i] = s[i]
      /\ t[Len(s) + 1] = e
  BY <1>1
<1> HIDE DEF t
<1>3. Elems(t) = S
  <2>1. ASSUME NEW x \in S PROVE x \in Elems(t)
    BY <1>2, <2>1 DEF Elems, S
  <2>2. \A i \in 1..(Len(s) + 1) : i \in 1..Len(s) \/ i = Len(s) + 1
    BY <1>2
  <2>3. \A i \in 1..(Len(s) + 1) : t[i] \in S
    BY <1>2, <2>2 DEF Elems, S
  <2>4. QED
    BY <1>2, <2>1, <2>3 DEF Elems
<1>4. IsSeq(t)
  BY <1>2, <1>3 DEF IsSeq
<1>5. QED
  BY <1>2, <1>3, <1>4 DEF t, S

\* A sequence of the same length, with other elements.
LEMMA SameLength ==
  ASSUME NEW s, IsSeq(s), NEW t, t = [i \in DOMAIN s |-> t[i]]
  PROVE  IsSeq(t) /\ DOMAIN t = DOMAIN s
<1>1. Len(s) \in Nat /\ DOMAIN s = 1..Len(s)
  BY DEF IsSeq
<1>2. t \in [1..Len(s) -> Elems(t)]
  BY <1>1 DEF Elems
<1>3. QED
  BY <1>1, <1>2 DEF IsSeq

\* The names and ids are those of the rows.
LEMMA NamesOfRows ==
  ASSUME NEW t
  PROVE  /\ GroupNames(t) = {v.name : v \in Rows(t)}
         /\ GroupIds(t) = {v.gid : v \in Rows(t)}
         /\ UserNames(t) = {p.name : p \in Elems(t.passwd)}
         /\ UserIds(t) = {p.uid : p \in Elems(t.passwd)}
<1>1. \A g : AsSet(g).name = g.name /\ AsSet(g).gid = g.gid
  BY DEF AsSet, Group
<1>2. QED
  BY <1>1 DEF GroupNames, GroupIds, UserNames, UserIds, Rows, Elems

\* No tables.
LEMMA TablesInit ==
  /\ Tables(NoAccounts) /\ NoAccounts.rc = 0
  /\ Rows(NoAccounts) = {} /\ Elems(NoAccounts.passwd) = {}
<1>1. << >> \in Seq(Elems(<< >>)) /\ DOMAIN << >> = {}
  OBVIOUS
<1>2. QED
  BY <1>1 DEF Tables, NoAccounts, IsSeq, Unique, Rows, Elems

\* The script ends.
LEMMA StopIs ==
  ASSUME NEW t, Tables(t), NEW rc \in Nat, rc # 0
  PROVE  Tables(Stop(t, rc)) /\ Stop(t, rc).rc # 0
<1>1. PICK u : u = Stop(t, rc)
  OBVIOUS
<1>2. u.passwd = t.passwd /\ u.group = t.group /\ u.rc = (IF t.rc = 0 THEN rc ELSE t.rc)
  BY <1>1 DEF Stop, Tables
<1>3. u = [passwd |-> u.passwd, group |-> u.group, rc |-> u.rc]
  BY <1>1, <1>2 DEF Stop, Tables
<1>4. QED
  BY <1>1, <1>2, <1>3 DEF Tables

\* A line is added to the groups.
LEMMA AddGroupIs ==
  ASSUME NEW t, Tables(t), NEW name, NEW gid, NEW duplicates \in BOOLEAN,
         t.rc = 0 /\ duplicates => name \notin GroupNames(t)
  PROVE  LET u == AddGroup(t, name, gid, duplicates)
         IN  /\ Tables(u)
             /\ u.rc = 0 <=> /\ t.rc = 0
                             /\ duplicates \/ (gid \notin GroupIds(t) /\ name \notin GroupNames(t))
             /\ u.rc = 0 => u.passwd = t.passwd /\ Rows(u) = Rows(t) \cup {Group(name, gid, {})}
<1>1. PICK u : u = AddGroup(t, name, gid, duplicates)
  OBVIOUS
<1> DEFINE Refused == t.rc # 0 \/ (~duplicates /\ (gid \in GroupIds(t) \/ name \in GroupNames(t)))
           row == Group(name, gid, << >>)
<1>2. CASE Refused
  <2>1. u = Stop(t, 1)
    BY <1>1, <1>2 DEF AddGroup
  <2>2. Tables(u) /\ u.rc # 0
    BY <2>1, StopIs
  <2>3. QED
    BY <1>1, <1>2, <2>2
<1>3. CASE ~Refused
  <2>1. u = [t EXCEPT !.group = Append(@, row)]
    BY <1>1, <1>3 DEF AddGroup, Group
  <2> HIDE DEF row
  <2>2. /\ u.passwd = t.passwd /\ u.rc = t.rc /\ u.group = Append(t.group, row)
        /\ u = [passwd |-> u.passwd, group |-> u.group, rc |-> u.rc]
    BY <2>1 DEF Tables
  <2>3. /\ IsSeq(u.group) /\ Elems(u.group) = Elems(t.group) \cup {row}
        /\ Len(t.group) \in Nat /\ DOMAIN t.group = 1..Len(t.group) /\ DOMAIN u.group = 1..(Len(t.group) + 1)
        /\ \A i \in DOMAIN t.group : u.group[i] = t.group[i]
        /\ u.group[Len(t.group) + 1] = row
    BY <2>2, OneMore DEF Tables
  <2>4. IsRow(row) /\ AsSet(row) = Group(name, gid, {}) /\ row.name = name
    <3>1. << >> \in Seq(Elems(<< >>)) /\ Elems(<< >>) = {}
      BY DEF Elems
    <3>2. QED
      BY <3>1 DEF row, IsRow, AsSet, Group, IsSeq
  <2>5. \A i \in DOMAIN u.group : i \in DOMAIN t.group \/ i = Len(t.group) + 1
    BY <2>3
  <2>6. \A i \in DOMAIN u.group : IsRow(u.group[i])
    BY <2>3, <2>4, <2>5 DEF Tables
  <2>7. \A i \in DOMAIN t.group : t.group[i].name # name
    BY <1>3 DEF GroupNames
  <2>8. Unique(u.group)
    BY <2>3, <2>4, <2>5, <2>7 DEF Tables, Unique
  <2>9. Rows(u) = Rows(t) \cup {Group(name, gid, {})}
    BY <2>3, <2>4 DEF Rows
  <2>10. Tables(u)
    BY <2>2, <2>3, <2>6, <2>8 DEF Tables
  <2>11. QED
    BY <1>1, <1>3, <2>2, <2>9, <2>10
<1>4. QED
  BY <1>2, <1>3

\* A line is added to the users.
LEMMA AddUserIs ==
  ASSUME NEW t, Tables(t), NEW user, NEW duplicates \in BOOLEAN
  PROVE  LET u == AddUser(t, user, duplicates)
         IN  /\ Tables(u)
             /\ u.rc = 0 <=> /\ t.rc = 0
                             /\ duplicates \/ (user.uid \notin UserIds(t) /\ user.name \notin UserNames(t))
                             /\ user.gid \in GroupIds(t)
             /\ u.rc = 0 => Elems(u.passwd) = Elems(t.passwd) \cup {user} /\ Rows(u) = Rows(t)
<1>1. PICK u : u = AddUser(t, user, duplicates)
  OBVIOUS
<1> DEFINE Refused == \/ t.rc # 0
                      \/ ~duplicates /\ (user.uid \in UserIds(t) \/ user.name \in UserNames(t))
                      \/ user.gid \notin GroupIds(t)
<1>2. CASE Refused
  <2>1. u = Stop(t, 1)
    BY <1>1, <1>2 DEF AddUser
  <2>2. Tables(u) /\ u.rc # 0
    BY <2>1, StopIs
  <2>3. QED
    BY <1>1, <1>2, <2>2
<1>3. CASE ~Refused
  <2>1. u = [t EXCEPT !.passwd = Append(@, user)]
    BY <1>1, <1>3 DEF AddUser
  <2>2. /\ u.passwd = Append(t.passwd, user) /\ u.rc = t.rc /\ u.group = t.group
        /\ u = [passwd |-> u.passwd, group |-> u.group, rc |-> u.rc]
    BY <2>1 DEF Tables
  <2>3. IsSeq(u.passwd) /\ Elems(u.passwd) = Elems(t.passwd) \cup {user}
    BY <2>2, OneMore DEF Tables
  <2>4. Tables(u) /\ Rows(u) = Rows(t)
    BY <2>2, <2>3 DEF Tables, Rows
  <2>5. QED
    BY <1>1, <1>3, <2>2, <2>3, <2>4
<1>4. QED
  BY <1>2, <1>3

\* Names are unique: the line of the group gets the member, and no other.
Joined(v, name, user) == IF v.name = name THEN Group(v.name, v.gid, v.members \cup {user}) ELSE v

\* A user who exists becomes a member of a group that exists; otherwise it is an error.
LEMMA AddUserToGroupIs ==
  ASSUME NEW t, Tables(t), NEW user, NEW name
  PROVE  LET u == AddUserToGroup(t, user, name)
         IN  /\ Tables(u)
             /\ u.rc = 0 <=> t.rc = 0 /\ user \in UserNames(t) /\ name \in GroupNames(t)
             /\ u.rc = 0 => u.passwd = t.passwd /\ Rows(u) = {Joined(v, name, user) : v \in Rows(t)}
<1>1. PICK u : u = AddUserToGroup(t, user, name)
  OBVIOUS
<1> DEFINE Refused == t.rc # 0 \/ user \notin UserNames(t) \/ name \notin GroupNames(t)
<1>2. CASE Refused
  <2>1. u = Stop(t, 1)
    BY <1>1, <1>2 DEF AddUserToGroup
  <2>2. Tables(u) /\ u.rc # 0
    BY <2>1, StopIs
  <2>3. QED
    BY <1>1, <1>2, <2>2
<1>3. CASE ~Refused
  <2> DEFINE comma == \A i \in DOMAIN t.group : t.group[i].name = name => t.group[i].members # << >>
             row(i) == IF t.group[i].name = name
                       THEN [t.group[i] EXCEPT !.members = WithMember(@, user, comma)]
                       ELSE t.group[i]
  <2>1. u = [t EXCEPT !.group = [i \in DOMAIN t.group |-> row(i)]]
    BY <1>1, <1>3 DEF AddUserToGroup
  <2>2. /\ u.passwd = t.passwd /\ u.rc = t.rc /\ u.group = [i \in DOMAIN t.group |-> row(i)]
        /\ u = [passwd |-> u.passwd, group |-> u.group, rc |-> u.rc]
    <3> HIDE DEF row
    <3>1. QED
      BY <2>1 DEF Tables
  <2>3. ASSUME NEW i \in DOMAIN t.group
        PROVE  /\ IsRow(row(i)) /\ row(i).name = t.group[i].name
               /\ AsSet(row(i)) = Joined(AsSet(t.group[i]), name, user)
    <3>1. PICK g : g = t.group[i] /\ IsRow(g)
      BY DEF Tables
    <3>2. CASE g.name = name
      <4>1. g.members = << >> \/ comma
        BY <3>1, <3>2 DEF Tables, Unique
      <4>2. row(i) = [g EXCEPT !.members = Append(g.members, user)]
        BY <3>1, <3>2, <4>1 DEF WithMember
      <4> HIDE DEF row
      <4>3. PICK h : h = row(i)
        OBVIOUS
      <4>4. h = Group(g.name, g.gid, Append(g.members, user))
        BY <3>1, <4>2, <4>3 DEF IsRow, Group
      <4>5. IsSeq(Append(g.members, user)) /\ Elems(Append(g.members, user)) = Elems(g.members) \cup {user}
        BY <3>1, OneMore DEF IsRow
      <4>6. IsRow(h) /\ h.name = g.name /\ AsSet(h) = Group(g.name, g.gid, Elems(g.members) \cup {user})
        BY <4>4, <4>5 DEF IsRow, AsSet, Group
      <4>7. Joined(AsSet(g), name, user) = Group(g.name, g.gid, Elems(g.members) \cup {user})
        BY <3>2 DEF Joined, AsSet, Group
      <4>8. QED
        BY <3>1, <4>3, <4>6, <4>7
    <3>3. CASE g.name # name
      <4>1. row(i) = g
        BY <3>1, <3>3
      <4>2. Joined(AsSet(g), name, user) = AsSet(g)
        BY <3>3 DEF Joined, AsSet, Group
      <4>3. QED
        BY <3>1, <4>1, <4>2
    <3>4. QED
      BY <3>2, <3>3
  <2> HIDE DEF row
  <2>4. u.group = [i \in DOMAIN t.group |-> u.group[i]] /\ \A i \in DOMAIN t.group : u.group[i] = row(i)
    BY <2>2
  <2>5. IsSeq(u.group) /\ DOMAIN u.group = DOMAIN t.group
    BY <2>4, SameLength DEF Tables
  <2>6. (\A i \in DOMAIN u.group : IsRow(u.group[i])) /\ Unique(u.group)
    BY <2>3, <2>4, <2>5 DEF Tables, Unique
  <2>7. Tables(u)
    BY <2>2, <2>5, <2>6 DEF Tables
  <2>8. Rows(u) = {Joined(v, name, user) : v \in Rows(t)}
    <3>1. Rows(u) = {AsSet(u.group[i]) : i \in DOMAIN t.group}
      BY <2>5 DEF Rows, Elems
    <3>2. Rows(t) = {AsSet(t.group[i]) : i \in DOMAIN t.group}
      BY DEF Rows, Elems
    <3>3. \A i \in DOMAIN t.group : AsSet(u.group[i]) = Joined(AsSet(t.group[i]), name, user)
      BY <2>3, <2>4
    <3>4. QED
      BY <3>1, <3>2, <3>3
  <2>9. QED
    BY <1>1, <1>3, <2>2, <2>7, <2>8
<1>4. QED
  BY <1>2, <1>3

-----------------------------------------------------------------------------
(* Groups and users, in whatever order find(1) lists their directories. *)

\* What has been gone through after k rounds, of a list that names nothing twice.
Prefix(s, k) == {s[i] : i \in 1..k}
Different(s) == \A i, j \in DOMAIN s : s[i] = s[j] => i = j

\* Each round goes through one element more, in the end through all.
LEMMA PrefixMore ==
  ASSUME NEW s, Listing(s)
  PROVE  /\ Prefix(s, 0) = {} /\ Prefix(s, Len(s)) = Elems(s)
         /\ \A k \in 1..Len(s) : Prefix(s, k) = Prefix(s, k - 1) \cup {s[k]}
         /\ Different(s) => \A k \in 1..Len(s) : s[k] \notin Prefix(s, k - 1)
<1>1. Len(s) \in Nat /\ DOMAIN s = 1..Len(s)
  BY DEF Listing
<1>2. Prefix(s, 0) = {} /\ Prefix(s, Len(s)) = Elems(s)
  BY <1>1 DEF Prefix, Elems
<1>3. ASSUME NEW k \in 1..Len(s) PROVE Prefix(s, k) = Prefix(s, k - 1) \cup {s[k]}
  <2>1. \A i : i \in 1..k <=> i \in 1..(k - 1) \/ i = k
    BY <1>1
  <2>2. QED
    BY <2>1 DEF Prefix
<1>4. ASSUME Different(s), NEW k \in 1..Len(s) PROVE s[k] \notin Prefix(s, k - 1)
  <2>1. \A i \in 1..(k - 1) : i \in 1..Len(s) /\ i # k
    BY <1>1
  <2>2. QED
    BY <1>1, <1>4, <2>1 DEF Prefix, Different
<1>5. QED
  BY <1>2, <1>3, <1>4

\* An order of a set has each of its elements once.
LEMMA OrderIs ==
  ASSUME NEW S, IsFiniteSet(S), NEW s \in SetToSeqs(S)
  PROVE  Listing(s) /\ Different(s) /\ Elems(s) = S
<1> DEFINE n == Cardinality(S)
<1>1. n \in Nat
  BY FS_CardinalityType
<1>2. s \in [1..n -> S] /\ \A i, j \in 1..n : i # j => s[i] # s[j]
  BY DEF SetToSeqs
<1>3. IsFiniteSet(1..n) /\ Cardinality(1..n) = n
  <2> HIDE DEF n
  <2>1. QED
    BY <1>1, FS_Interval
<1>4. s \in Injection(1..n, S)
  <2> HIDE DEF n
  <2>1. QED
    BY <1>2 DEF Injection, IsInjective
<1>5. s \in Surjection(1..n, S)
  BY <1>3, <1>4, FS_Injection
<1> HIDE DEF n
<1>6. DOMAIN s = 1..n /\ Len(s) = n
  BY <1>1, <1>2
<1>7. Elems(s) = S
  BY <1>2, <1>5, <1>6 DEF Surjection, Elems
<1>8. QED
  BY <1>1, <1>2, <1>6, <1>7 DEF Listing, Different

\* What the directories that are not disabled give as names and as ids.
Names(entries) == {NameOf(e) : e \in Enabled(entries)}
Ids(entries) == {Attribute(e, "id") : e \in Enabled(entries)}

\* One entry more.
LEMMA EntryMore ==
  ASSUME NEW D, NEW e, e \notin D
  PROVE  /\ Disabled(e) => Enabled(D \cup {e}) = Enabled(D) /\ (Distinct(D \cup {e}) <=> Distinct(D))
         /\ ~Disabled(e) =>
              /\ Enabled(D \cup {e}) = Enabled(D) \cup {e}
              /\ Distinct(D \cup {e}) <=>
                   Distinct(D) /\ NameOf(e) \notin Names(D) /\ Attribute(e, "id") \notin Ids(D)
<1>1. Enabled(D \cup {e}) = IF Disabled(e) THEN Enabled(D) ELSE Enabled(D) \cup {e}
  BY DEF Enabled
<1>2. e \notin Enabled(D)
  BY DEF Enabled
<1>3. ASSUME ~Disabled(e)
      PROVE  Distinct(D \cup {e}) <=>
               Distinct(D) /\ NameOf(e) \notin Names(D) /\ Attribute(e, "id") \notin Ids(D)
  <2>1. Enabled(D \cup {e}) = Enabled(D) \cup {e}
    BY <1>1, <1>3
  <2>2. QED
    BY <1>2, <2>1 DEF Distinct, Names, Ids
<1>4. QED
  BY <1>1, <1>3 DEF Distinct

\* The groups D are well formed and do not contradict each other.
GroupsSound(D) ==
  /\ \A g \in D : ~Broken(g)
  /\ \A g \in Enabled(D) : Acceptable(g, {"id"})
  /\ Distinct(D)

\* After the groups D.
GroupsSoFar(t, D) ==
  /\ Tables(t)
  /\ t.rc = 0 <=> GroupsSound(D)
  /\ t.rc = 0 => /\ Elems(t.passwd) = {}
                 /\ Rows(t) = {Group(NameOf(g), Attribute(g, "id"), {}) : g \in Enabled(D)}

\* The loop over the groups, one group further.
LEMMA GroupRound ==
  ASSUME NEW t, NEW D, GroupsSoFar(t, D), NEW e, e \notin D
  PROVE  GroupsSoFar(AddDefinedGroup(t, e), D \cup {e})
<1>1. PICK u : u = AddDefinedGroup(t, e)
  OBVIOUS
<1>2. Tables(t)
  BY DEF GroupsSoFar
<1>3. CASE Broken(e) \/ (~Disabled(e) /\ ~Acceptable(e, {"id"}))
  <2>1. u = Stop(t, 1)
    BY <1>1, <1>3 DEF AddDefinedGroup
  <2>2. Tables(u) /\ u.rc # 0
    BY <1>2, <2>1, StopIs
  <2>3. ~Broken(e) => e \in Enabled(D \cup {e})
    BY <1>3 DEF Enabled
  <2>4. ~GroupsSound(D \cup {e})
    BY <1>3, <2>3 DEF GroupsSound
  <2>5. QED
    BY <1>1, <2>2, <2>4 DEF GroupsSoFar
<1>4. CASE ~Broken(e) /\ Disabled(e)
  <2>1. u = t
    BY <1>1, <1>4 DEF AddDefinedGroup
  <2>2. Enabled(D \cup {e}) = Enabled(D) /\ (Distinct(D \cup {e}) <=> Distinct(D))
    BY <1>4, EntryMore
  <2>3. QED
    BY <1>1, <1>4, <2>1, <2>2 DEF GroupsSoFar, GroupsSound
<1>5. CASE ~Broken(e) /\ ~Disabled(e) /\ Acceptable(e, {"id"})
  <2>1. PICK name, id : name = NameOf(e) /\ id = Attribute(e, "id")
    OBVIOUS
  <2>2. u = AddGroup(t, name, id, FALSE)
    BY <1>1, <1>5, <2>1 DEF AddDefinedGroup
  <2>3. /\ Tables(u)
        /\ u.rc = 0 <=> t.rc = 0 /\ id \notin GroupIds(t) /\ name \notin GroupNames(t)
        /\ u.rc = 0 => u.passwd = t.passwd /\ Rows(u) = Rows(t) \cup {Group(name, id, {})}
    BY <1>2, <2>2, AddGroupIs
  <2>4. Enabled(D \cup {e}) = Enabled(D) \cup {e}
    BY <1>5, EntryMore
  <2>5. GroupsSound(D \cup {e}) <=> GroupsSound(D) /\ name \notin Names(D) /\ id \notin Ids(D)
    BY <1>5, <2>1, <2>4, EntryMore DEF GroupsSound
  <2>6. t.rc = 0 => GroupNames(t) = Names(D) /\ GroupIds(t) = Ids(D)
    <3> DEFINE row(g) == Group(NameOf(g), Attribute(g, "id"), {})
    <3>1. \A g : row(g).name = NameOf(g) /\ row(g).gid = Attribute(g, "id")
      BY DEF Group
    <3> HIDE DEF row
    <3>2. t.rc = 0 => Rows(t) = {row(g) : g \in Enabled(D)}
      BY DEF GroupsSoFar, row
    <3>3. QED
      BY <3>1, <3>2, NamesOfRows DEF Names, Ids
  <2>7. u.rc = 0 <=> GroupsSound(D \cup {e})
    BY <2>3, <2>5, <2>6 DEF GroupsSoFar
  <2>8. u.rc = 0 => Elems(u.passwd) = {}
    BY <2>3 DEF GroupsSoFar
  <2>9. u.rc = 0 => Rows(u) = {Group(NameOf(g), Attribute(g, "id"), {}) : g \in Enabled(D \cup {e})}
    BY <2>1, <2>3, <2>4 DEF GroupsSoFar
  <2>10. QED
    BY <1>1, <2>3, <2>7, <2>8, <2>9 DEF GroupsSoFar
<1>6. QED
  BY <1>3, <1>4, <1>5

\* After all groups.
LEMMA AllGroups ==
  ASSUME NEW S, IsFiniteSet(S), NEW gs \in SetToSeqs(S)
  PROVE  GroupsSoFar(FoldLeft(AddDefinedGroup, NoAccounts, gs), S)
<1>1. Listing(gs) /\ Different(gs) /\ Elems(gs) = S
  BY OrderIs
<1>2. PICK n : n = Len(gs) /\ n \in Nat
  BY <1>1 DEF Listing
<1>3. PICK r : /\ Rounds("groups", "app", NoAccounts, gs, n, r)
               /\ r[n] = FoldLeft(AddDefinedGroup, NoAccounts, gs)
  BY <1>1, <1>2, GroupsLoop
<1> DEFINE Good == {k \in 0..n : GroupsSoFar(r[k], Prefix(gs, k))}
<1>4. 0 \in Good
  <2>1. r[0] = NoAccounts /\ Prefix(gs, 0) = {}
    BY <1>1, <1>3, PrefixMore DEF Rounds
  <2>2. GroupsSoFar(NoAccounts, {})
    <3>1. Enabled({}) = {} /\ GroupsSound({})
      BY DEF GroupsSound, Enabled, Distinct
    <3>2. Rows(NoAccounts) = {Group(NameOf(g), Attribute(g, "id"), {}) : g \in Enabled({})}
      <4>1. \A X : X = {} => {Group(NameOf(g), Attribute(g, "id"), {}) : g \in X} = {}
        OBVIOUS
      <4>2. QED
        BY <3>1, <4>1, TablesInit
    <3>3. QED
      BY <3>1, <3>2, TablesInit DEF GroupsSoFar
  <2>3. GroupsSoFar(r[0], Prefix(gs, 0))
    BY <2>1, <2>2
  <2>4. QED
    BY <1>2, <2>3
<1>5. ASSUME NEW k \in 1..n, k - 1 \in Good PROVE k \in Good
  <2>1. r[k] = AddDefinedGroup(r[k - 1], gs[k])
    BY <1>3 DEF Rounds, Round
  <2>2. Prefix(gs, k) = Prefix(gs, k - 1) \cup {gs[k]} /\ gs[k] \notin Prefix(gs, k - 1)
    BY <1>1, <1>2, PrefixMore
  <2>3. GroupsSoFar(r[k - 1], Prefix(gs, k - 1))
    BY <1>5
  <2>4. GroupsSoFar(r[k], Prefix(gs, k))
    BY <2>1, <2>2, <2>3, GroupRound
  <2>5. QED
    BY <1>2, <2>4
<1>6. n \in Good
  <2> HIDE DEF Good
  <2>1. \A k \in 0..n : k \in Good
    BY <1>2, <1>4, <1>5, EachRound
  <2>2. QED
    BY <1>2, <2>1
<1>7. QED
  BY <1>1, <1>2, <1>3, <1>6, PrefixMore

\* The groups of a user: the lines of "grps" that are not blank.
Blank == ""

\* Blank lines of "grps" name no group.
LEMMA BlankLines ==
  /\ \A t, user, group : AddToListed(t, user, group) =
                           IF group = Blank THEN t ELSE AddUserToGroup(t, user, group)
  /\ \A u : GroupsOf(u) = Elems(Content(u, "grps")) \ {Blank}
<1>1. \A t, user, group : AddToListed(t, user, group) =
                           IF group = Blank THEN t ELSE AddUserToGroup(t, user, group)
  BY Zenon DEF AddToListed, Blank
<1>2. \A u : GroupsOf(u) = Elems(Content(u, "grps")) \ {Blank}
  BY Zenon DEF GroupsOf, Blank
<1>3. QED
  BY <1>1, <1>2

\* A row after the user has been added to the groups called N.
JoinedAll(v, N, user) == IF v.name \in N THEN Group(v.name, v.gid, v.members \cup {user}) ELSE v

\* After the names N, beginning with the tables b.
ListedSoFar(t, b, user, N) ==
  /\ Tables(t)
  /\ t.rc = 0 <=> b.rc = 0 /\ N \subseteq GroupNames(b)
  /\ t.rc = 0 => t.passwd = b.passwd /\ Rows(t) = {JoinedAll(v, N, user) : v \in Rows(b)}

\* The loop over the groups of a user, one group further.
LEMMA ListedRound ==
  ASSUME NEW t, NEW b, NEW user, NEW N, ListedSoFar(t, b, user, N),
         b.rc = 0 => user \in UserNames(b), NEW name
  PROVE  ListedSoFar(AddUserToGroup(t, user, name), b, user, N \cup {name})
<1>1. PICK u : u = AddUserToGroup(t, user, name)
  OBVIOUS
<1>2. /\ Tables(u)
      /\ u.rc = 0 <=> t.rc = 0 /\ user \in UserNames(t) /\ name \in GroupNames(t)
      /\ u.rc = 0 => u.passwd = t.passwd /\ Rows(u) = {Joined(v, name, user) : v \in Rows(t)}
  BY <1>1, AddUserToGroupIs DEF ListedSoFar
<1>3. \A v : JoinedAll(v, N, user).name = v.name
  BY DEF JoinedAll, Group
<1>4. \A v : Joined(JoinedAll(v, N, user), name, user) = JoinedAll(v, N \cup {name}, user)
  BY DEF JoinedAll, Joined, Group
<1>5. t.rc = 0 => GroupNames(t) = GroupNames(b) /\ UserNames(t) = UserNames(b)
  <2>1. t.rc = 0 => t.passwd = b.passwd /\ Rows(t) = {JoinedAll(v, N, user) : v \in Rows(b)}
    BY DEF ListedSoFar
  <2>2. t.rc = 0 => {v.name : v \in Rows(t)} = {v.name : v \in Rows(b)}
    BY <1>3, <2>1
  <2>3. QED
    BY <2>1, <2>2, NamesOfRows
<1>6. u.rc = 0 <=> b.rc = 0 /\ N \cup {name} \subseteq GroupNames(b)
  BY <1>2, <1>5 DEF ListedSoFar
<1>7. u.rc = 0 => Rows(u) = {JoinedAll(v, N \cup {name}, user) : v \in Rows(b)}
  BY <1>2, <1>4 DEF ListedSoFar
<1>8. QED
  BY <1>1, <1>2, <1>6, <1>7 DEF ListedSoFar

\* After all lines.
LEMMA ListedIs ==
  ASSUME NEW b, Tables(b), NEW user, b.rc = 0 => user \in UserNames(b), NEW lines, Listing(lines)
  PROVE  ListedSoFar(JoinListed(user, b, lines), b, user, Elems(lines) \ {Blank})
<1>1. PICK n : n = Len(lines) /\ n \in Nat
  BY DEF Listing
<1>2. PICK r : Rounds("grps", user, b, lines, n, r) /\ r[n] = JoinListed(user, b, lines)
  BY <1>1, ListedLoop
<1> DEFINE N(k) == Prefix(lines, k) \ {Blank}
           Good == {k \in 0..n : ListedSoFar(r[k], b, user, N(k))}
<1>3. 0 \in Good
  <2>1. r[0] = b /\ N(0) = {}
    BY <1>2, PrefixMore DEF Rounds
  <2>2. \A v : JoinedAll(v, {}, user) = v
    BY DEF JoinedAll
  <2>3. ListedSoFar(b, b, user, {})
    BY <2>2 DEF ListedSoFar
  <2>4. ListedSoFar(r[0], b, user, N(0))
    BY <2>1, <2>3
  <2>5. QED
    BY <1>1, <2>4
<1>4. ASSUME NEW k \in 1..n, k - 1 \in Good PROVE k \in Good
  <2>1. PICK name : name = lines[k]
    OBVIOUS
  <2>2. r[k] = AddToListed(r[k - 1], user, name)
    BY <1>2, <2>1 DEF Rounds, Round
  <2>3. Prefix(lines, k) = Prefix(lines, k - 1) \cup {name}
    BY <1>1, <2>1, PrefixMore
  <2>4. ListedSoFar(r[k - 1], b, user, N(k - 1))
    BY <1>4
  <2>5. CASE name = Blank
    <3>1. r[k] = r[k - 1] /\ N(k) = N(k - 1)
      BY <2>2, <2>3, <2>5, BlankLines
    <3>2. ListedSoFar(r[k], b, user, N(k))
      BY <2>4, <3>1
    <3>3. QED
      BY <1>1, <3>2
  <2>6. CASE name # Blank
    <3>1. r[k] = AddUserToGroup(r[k - 1], user, name) /\ N(k) = N(k - 1) \cup {name}
      BY <2>2, <2>3, <2>6, BlankLines
    <3> HIDE DEF N
    <3>2. ListedSoFar(r[k], b, user, N(k))
      BY <2>4, <3>1, ListedRound
    <3>3. QED
      BY <1>1, <3>2
  <2>7. QED
    BY <2>5, <2>6
<1>5. n \in Good
  <2> HIDE DEF Good
  <2>1. \A k \in 0..n : k \in Good
    BY <1>1, <1>3, <1>4, EachRound
  <2>2. QED
    BY <1>1, <2>1
<1>6. ListedSoFar(r[n], b, user, Elems(lines) \ {Blank})
  BY <1>1, <1>5, PrefixMore
<1>7. QED
  BY <1>2, <1>6

\* The members of group g after the users D.
Members(g, D) == {NameOf(u) : u \in {u \in Enabled(D) : NameOf(g) \in GroupsOf(u)}}

\* The users D are well formed, do not contradict each other, and their groups exist.
UsersSound(D) ==
  /\ \A u \in D : ~Broken(u)
  /\ \A u \in Enabled(D) : /\ Acceptable(u, {"id", "gid"})
                           /\ Attribute(u, "gid") \in Ids(image.groups)
                           /\ GroupsOf(u) \subseteq Names(image.groups)
  /\ Distinct(D)

\* The lines of /etc/group, and the tables, after the users D.
UserRows(D) == {Group(NameOf(g), Attribute(g, "id"), Members(g, D)) : g \in Enabled(image.groups)}

UsersSoFar(t, D) ==
  /\ Tables(t)
  /\ t.rc = 0 <=> GroupsSound(image.groups) /\ UsersSound(D)
  /\ t.rc = 0 => Elems(t.passwd) = {UserOf(u) : u \in Enabled(D)} /\ Rows(t) = UserRows(D)

\* The names and ids of the users, and of the groups.
LEMMA NamesSoFar ==
  ASSUME NEW t, NEW D, UsersSoFar(t, D), t.rc = 0
  PROVE  /\ UserNames(t) = Names(D) /\ UserIds(t) = Ids(D)
         /\ GroupNames(t) = Names(image.groups) /\ GroupIds(t) = Ids(image.groups)
<1> DEFINE row(g) == Group(NameOf(g), Attribute(g, "id"), Members(g, D))
<1>1. \A g : row(g).name = NameOf(g) /\ row(g).gid = Attribute(g, "id")
  BY DEF Group
<1> HIDE DEF row
<1>2. Rows(t) = {row(g) : g \in Enabled(image.groups)}
  BY DEF UsersSoFar, UserRows, row
<1>3. \A u : UserOf(u).name = NameOf(u) /\ UserOf(u).uid = Attribute(u, "id")
  BY DEF UserOf
<1>4. Elems(t.passwd) = {UserOf(u) : u \in Enabled(D)}
  BY DEF UsersSoFar
<1>5. UserNames(t) = Names(D) /\ UserIds(t) = Ids(D)
  BY <1>3, <1>4, NamesOfRows DEF Names, Ids
<1>6. QED
  BY <1>1, <1>2, <1>5, NamesOfRows DEF Names, Ids

\* One user more.
LEMMA MembersMore ==
  ASSUME NEW D, NEW e
  PROVE  /\ Disabled(e) => \A g : Members(g, D \cup {e}) = Members(g, D)
         /\ ~Disabled(e) => \A g : Members(g, D \cup {e}) =
              IF NameOf(g) \in GroupsOf(e) THEN Members(g, D) \cup {NameOf(e)} ELSE Members(g, D)
<1>1. Enabled(D \cup {e}) = IF Disabled(e) THEN Enabled(D) ELSE Enabled(D) \cup {e}
  BY DEF Enabled
<1>2. QED
  BY <1>1 DEF Members

\* The loop over the users, one user further.
LEMMA UserRound ==
  ASSUME NEW t, NEW D, UsersSoFar(t, D), NEW e, e \notin D,
         \A a \in DOMAIN e.files : Listing(e.files[a].lines)
  PROVE  UsersSoFar(AddDefinedUser(t, e), D \cup {e})
<1>1. PICK u : u = AddDefinedUser(t, e)
  OBVIOUS
<1>2. Tables(t)
  BY DEF UsersSoFar
<1>3. CASE Broken(e) \/ (~Disabled(e) /\ ~Acceptable(e, {"id", "gid"}))
  <2>1. u = Stop(t, 1)
    BY <1>1, <1>3 DEF AddDefinedUser
  <2>2. Tables(u) /\ u.rc # 0
    BY <1>2, <2>1, StopIs
  <2>3. ~Broken(e) => e \in Enabled(D \cup {e})
    BY <1>3 DEF Enabled
  <2>4. ~UsersSound(D \cup {e})
    BY <1>3, <2>3 DEF UsersSound
  <2>5. QED
    BY <1>1, <2>2, <2>4 DEF UsersSoFar
<1>4. CASE ~Broken(e) /\ Disabled(e)
  <2>1. u = t
    BY <1>1, <1>4 DEF AddDefinedUser
  <2>2. Enabled(D \cup {e}) = Enabled(D) /\ (Distinct(D \cup {e}) <=> Distinct(D))
    BY <1>4, EntryMore
  <2>3. UsersSound(D \cup {e}) <=> UsersSound(D)
    BY <1>4, <2>2 DEF UsersSound
  <2>4. UserRows(D \cup {e}) = UserRows(D)
    <3>1. \A g : Members(g, D \cup {e}) = Members(g, D)
      BY <1>4, MembersMore
    <3>2. QED
      BY <3>1 DEF UserRows
  <2>5. QED
    BY <1>1, <2>1, <2>2, <2>3, <2>4 DEF UsersSoFar
<1>5. CASE ~Broken(e) /\ ~Disabled(e) /\ Acceptable(e, {"id", "gid"})
  <2>1. PICK name, id, gid, user, lines, N :
          /\ name = NameOf(e) /\ id = Attribute(e, "id") /\ gid = Attribute(e, "gid") /\ user = UserOf(e)
          /\ lines = Content(e, "grps") /\ N = GroupsOf(e)
    OBVIOUS
  <2>2. user.name = name /\ user.uid = id /\ user.gid = gid
    BY <2>1 DEF UserOf
  <2>3. PICK b : b = AddUser(t, user, FALSE)
    OBVIOUS
  <2>4. u = JoinListed(name, b, lines)
    <3>1. u = JoinListed(NameOf(e), AddUser(t, UserOf(e), FALSE), Content(e, "grps"))
      BY <1>1, <1>5 DEF AddDefinedUser, JoinListed
    <3>2. QED
      BY <2>1, <2>3, <3>1
  <2>5. /\ Tables(b)
        /\ b.rc = 0 <=> /\ t.rc = 0
                        /\ id \notin UserIds(t) /\ name \notin UserNames(t) /\ gid \in GroupIds(t)
        /\ b.rc = 0 => Elems(b.passwd) = Elems(t.passwd) \cup {user} /\ Rows(b) = Rows(t)
    BY <1>2, <2>2, <2>3, AddUserIs
  <2>6. b.rc = 0 => name \in UserNames(b)
    BY <2>2, <2>5, NamesOfRows
  <2>7. Listing(lines)
    <3>1. Listing(<< >>)
      BY DEF Listing
    <3>2. QED
      BY <2>1, <3>1 DEF Content
  <2>8. N = Elems(lines) \ {Blank}
    BY <2>1, BlankLines
  <2>9. ListedSoFar(u, b, name, N)
    BY <2>4, <2>5, <2>6, <2>7, <2>8, ListedIs
  <2>10. /\ Tables(u)
         /\ u.rc = 0 <=> b.rc = 0 /\ N \subseteq GroupNames(b)
         /\ u.rc = 0 => u.passwd = b.passwd /\ Rows(u) = {JoinedAll(v, N, name) : v \in Rows(b)}
    BY <2>9 DEF ListedSoFar
  <2>11. Enabled(D \cup {e}) = Enabled(D) \cup {e}
    BY <1>5, EntryMore
  <2>12. UsersSound(D \cup {e}) <=> /\ UsersSound(D) /\ name \notin Names(D) /\ id \notin Ids(D)
                                   /\ gid \in Ids(image.groups) /\ N \subseteq Names(image.groups)
    <3>1. (\A x \in D \cup {e} : ~Broken(x)) <=> (\A x \in D : ~Broken(x))
      BY <1>5
    <3>2. Distinct(D \cup {e}) <=> Distinct(D) /\ name \notin Names(D) /\ id \notin Ids(D)
      BY <1>5, <2>1, EntryMore
    <3>3. QED
      BY <1>5, <2>1, <2>11, <3>1, <3>2 DEF UsersSound
  <2>13. t.rc = 0 => /\ UserNames(t) = Names(D) /\ UserIds(t) = Ids(D)
                     /\ GroupNames(t) = Names(image.groups) /\ GroupIds(t) = Ids(image.groups)
    BY NamesSoFar
  <2>14. b.rc = 0 => GroupNames(b) = GroupNames(t)
    BY <2>5, NamesOfRows
  <2>15. u.rc = 0 <=> GroupsSound(image.groups) /\ UsersSound(D \cup {e})
    BY <2>5, <2>10, <2>12, <2>13, <2>14 DEF UsersSoFar
  <2>16. u.rc = 0 => Elems(u.passwd) = {UserOf(x) : x \in Enabled(D \cup {e})}
    BY <2>1, <2>5, <2>10, <2>11 DEF UsersSoFar
  <2>17. u.rc = 0 => Rows(u) = UserRows(D \cup {e})
    <3>1. ASSUME NEW g
          PROVE  JoinedAll(Group(NameOf(g), Attribute(g, "id"), Members(g, D)), N, name)
                   = Group(NameOf(g), Attribute(g, "id"), Members(g, D \cup {e}))
      BY <1>5, <2>1, MembersMore DEF JoinedAll, Group
    <3>2. t.rc = 0 => Rows(t) = UserRows(D)
      BY DEF UsersSoFar
    <3>3. {JoinedAll(v, N, name) : v \in UserRows(D)} = UserRows(D \cup {e})
      BY <3>1 DEF UserRows
    <3>4. QED
      BY <2>5, <2>10, <3>2, <3>3
  <2>18. QED
    BY <1>1, <2>10, <2>15, <2>16, <2>17 DEF UsersSoFar
<1>6. QED
  BY <1>3, <1>4, <1>5

\* What a container consists of.
Directories ==
  /\ IsFiniteSet(image.groups) /\ IsFiniteSet(image.users)
  /\ \A e \in image.groups \cup image.users : \A a \in DOMAIN e.files : Listing(e.files[a].lines)

\* After all users.
LEMMA AllUsers ==
  ASSUME Directories, NEW us \in SetToSeqs(image.users), NEW t, GroupsSoFar(t, image.groups)
  PROVE  UsersSoFar(FoldLeft(AddDefinedUser, t, us), image.users)
<1>1. Listing(us) /\ Different(us) /\ Elems(us) = image.users
  BY OrderIs DEF Directories
<1>2. PICK n : n = Len(us) /\ n \in Nat
  BY <1>1 DEF Listing
<1>3. PICK r : /\ Rounds("users", "app", t, us, n, r)
               /\ r[n] = FoldLeft(AddDefinedUser, t, us)
  BY <1>1, <1>2, UsersLoop
<1> DEFINE Good == {k \in 0..n : UsersSoFar(r[k], Prefix(us, k))}
<1>4. 0 \in Good
  <2>1. r[0] = t /\ Prefix(us, 0) = {}
    BY <1>1, <1>3, PrefixMore DEF Rounds
  <2>2. Enabled({}) = {} /\ UsersSound({}) /\ \A g : Members(g, {}) = {}
    BY DEF UsersSound, Enabled, Distinct, Members
  <2>3. {UserOf(u) : u \in Enabled({})} = {}
    BY <2>2
  <2>4. UserRows({}) = {Group(NameOf(g), Attribute(g, "id"), {}) : g \in Enabled(image.groups)}
    BY <2>2 DEF UserRows
  <2>5. UsersSoFar(t, {})
    BY <2>2, <2>3, <2>4 DEF UsersSoFar, GroupsSoFar
  <2>6. UsersSoFar(r[0], Prefix(us, 0))
    BY <2>1, <2>5
  <2>7. QED
    BY <1>2, <2>6
<1>5. ASSUME NEW k \in 1..n, k - 1 \in Good PROVE k \in Good
  <2>1. r[k] = AddDefinedUser(r[k - 1], us[k])
    BY <1>3 DEF Rounds, Round
  <2>2. Prefix(us, k) = Prefix(us, k - 1) \cup {us[k]} /\ us[k] \notin Prefix(us, k - 1)
    BY <1>1, <1>2, PrefixMore
  <2>3. UsersSoFar(r[k - 1], Prefix(us, k - 1))
    BY <1>5
  <2>4. us[k] \in image.users
    BY <1>1, <1>2 DEF Listing, Elems
  <2>5. \A a \in DOMAIN us[k].files : Listing(us[k].files[a].lines)
    BY <2>4 DEF Directories
  <2>6. UsersSoFar(r[k], Prefix(us, k))
    BY <2>1, <2>2, <2>3, <2>5, UserRound
  <2>7. QED
    BY <1>2, <2>6
<1>6. n \in Good
  <2> HIDE DEF Good
  <2>1. \A k \in 0..n : k \in Good
    BY <1>2, <1>4, <1>5, EachRound
  <2>2. QED
    BY <1>2, <2>1
<1>7. QED
  BY <1>1, <1>2, <1>3, <1>6, PrefixMore

-----------------------------------------------------------------------------
(* The user app and its groups. *)

\* The name of the group made for an id; the ids of app.
GrpName(id) == "grp" \o id
Gid == environ["GROUP_ID"]
NotApp == \A e \in image.groups \cup image.users : NameOf(e) # "app"
HasIds == {"USER_ID", "GROUP_ID"} \subseteq DOMAIN environ

\* The supplementary groups S are numbers, and the groups made for them have new names.
IdsSound(S) ==
  /\ S \subseteq Digits
  /\ \A g \in Enabled(image.groups) : \A id \in Additional(S) : NameOf(g) # GrpName(id)

\* After app has been added, and the supplementary groups S.
IdsSoFar(t, S) ==
  /\ Tables(t)
  /\ t.rc = 0 <=> GroupsSound(image.groups) /\ UsersSound(image.users) /\ IdsSound(S)
  /\ t.rc = 0 => /\ Elems(t.passwd) = {UserOf(u) : u \in Enabled(image.users)} \cup {AppOf(environ)}
                 /\ Rows(t) = GroupsAsked(S)

\* The rows: of the defined groups, of the ids of no defined group, and of app.
DefinedRow(g, S) == Group(NameOf(g), Attribute(g, "id"), MembersOf(g, S))
GrpRow(id) == Group(GrpName(id), id, {"app"})
AppRow == Group("app", Gid, {"app"})

\* The groups that were asked for, their names and their ids.
LEMMA RowsAsked ==
  ASSUME NEW S
  PROVE  /\ GroupsAsked(S) = {DefinedRow(g, S) : g \in Enabled(image.groups)}
                                \cup {GrpRow(id) : id \in Additional(S)} \cup {AppRow}
         /\ {v.name : v \in GroupsAsked(S)} =
              Names(image.groups) \cup {GrpName(id) : id \in Additional(S)} \cup {"app"}
         /\ {v.gid : v \in GroupsAsked(S)} = Ids(image.groups) \cup Additional(S) \cup {Gid}
<1>1. GroupsAsked(S) = {DefinedRow(g, S) : g \in Enabled(image.groups)}
                          \cup {GrpRow(id) : id \in Additional(S)} \cup {AppRow}
  BY DEF GroupsAsked, DefinedRow, GrpRow, AppRow, GrpName, Gid
<1>2. /\ \A g : DefinedRow(g, S).name = NameOf(g) /\ DefinedRow(g, S).gid = Attribute(g, "id")
      /\ \A id : GrpRow(id).name = GrpName(id) /\ GrpRow(id).gid = id
      /\ AppRow.name = "app" /\ AppRow.gid = Gid
  BY DEF DefinedRow, GrpRow, AppRow, Group
<1>3. {v.name : v \in GroupsAsked(S)} =
        Names(image.groups) \cup {GrpName(id) : id \in Additional(S)} \cup {"app"}
  BY <1>1, <1>2 DEF Names
<1>4. {v.gid : v \in GroupsAsked(S)} = Ids(image.groups) \cup Additional(S) \cup {Gid}
  BY <1>1, <1>2 DEF Ids
<1>5. QED
  BY <1>1, <1>3, <1>4

\* app is added, with a group of its own.
LEMMA AppIs ==
  ASSUME NEW t, UsersSoFar(t, image.users), NotApp, HasIds
  PROVE  IdsSoFar(AddApp(t, environ), {})
<1>1. PICK b : b = AddGroup(t, "app", Gid, TRUE)
  OBVIOUS
<1>2. PICK c : c = AddUser(b, AppOf(environ), TRUE)
  OBVIOUS
<1>3. PICK u : u = AddUserToGroup(c, "app", "app")
  OBVIOUS
<1>4. AddApp(t, environ) = u
  BY <1>1, <1>2, <1>3 DEF AddApp, HasIds, Gid
<1>5. Names(image.groups) \subseteq {NameOf(e) : e \in image.groups} /\ "app" \notin Names(image.groups)
  BY DEF Names, Enabled, NotApp
<1>6. t.rc = 0 => "app" \notin GroupNames(t)
  BY <1>5, NamesSoFar
<1>7. /\ Tables(b) /\ (b.rc = 0 <=> t.rc = 0)
      /\ b.rc = 0 => b.passwd = t.passwd /\ Rows(b) = Rows(t) \cup {Group("app", Gid, {})}
  BY <1>1, <1>6, AddGroupIs DEF UsersSoFar
<1>8. AppOf(environ).gid = Gid /\ AppOf(environ).name = "app"
  BY DEF AppOf, Gid
<1>9. b.rc = 0 => Gid \in GroupIds(b) /\ "app" \in GroupNames(b)
  <2>1. Group("app", Gid, {}).gid = Gid /\ Group("app", Gid, {}).name = "app"
    BY DEF Group
  <2>2. QED
    BY <1>7, <2>1, NamesOfRows
<1>10. /\ Tables(c) /\ (c.rc = 0 <=> t.rc = 0)
       /\ c.rc = 0 => Elems(c.passwd) = Elems(b.passwd) \cup {AppOf(environ)} /\ Rows(c) = Rows(b)
  BY <1>2, <1>7, <1>8, <1>9, AddUserIs
<1>11. c.rc = 0 => "app" \in UserNames(c) /\ "app" \in GroupNames(c)
  BY <1>7, <1>8, <1>9, <1>10, NamesOfRows
<1>12. /\ Tables(u) /\ (u.rc = 0 <=> t.rc = 0)
       /\ u.rc = 0 => u.passwd = c.passwd /\ Rows(u) = {Joined(v, "app", "app") : v \in Rows(c)}
  BY <1>3, <1>10, <1>11, AddUserToGroupIs
<1>13. Additional({}) = {} /\ IdsSound({})
  BY DEF Additional, IdsSound
<1>14. u.rc = 0 => Rows(u) = GroupsAsked({})
  <2>1. \A g : MembersOf(g, {}) = Members(g, image.users)
    BY DEF MembersOf, Members
  <2>2. UserRows(image.users) = {DefinedRow(g, {}) : g \in Enabled(image.groups)}
    BY <2>1 DEF UserRows, DefinedRow
  <2>3. \A g \in Enabled(image.groups) : Joined(DefinedRow(g, {}), "app", "app") = DefinedRow(g, {})
    BY <1>5 DEF Joined, DefinedRow, Group, Names
  <2>4. Joined(Group("app", Gid, {}), "app", "app") = AppRow
    BY DEF Joined, Group, AppRow
  <2>5. GroupsAsked({}) = {DefinedRow(g, {}) : g \in Enabled(image.groups)} \cup {AppRow}
    BY <1>13, RowsAsked
  <2>6. u.rc = 0 => Rows(c) = UserRows(image.users) \cup {Group("app", Gid, {})}
    BY <1>7, <1>10, <1>12 DEF UsersSoFar
  <2>7. QED
    BY <1>12, <2>2, <2>3, <2>4, <2>5, <2>6
<1>15. u.rc = 0 => Elems(u.passwd) = {UserOf(x) : x \in Enabled(image.users)} \cup {AppOf(environ)}
  BY <1>7, <1>10, <1>12 DEF UsersSoFar
<1>16. QED
  BY <1>4, <1>12, <1>13, <1>14, <1>15 DEF IdsSoFar, UsersSoFar

\* One supplementary group more.
LEMMA AdditionalMore ==
  ASSUME NEW S, NEW id
  PROVE  /\ Additional(S \cup {id}) =
              IF id \in Ids(image.groups) THEN Additional(S) ELSE Additional(S) \cup {id}
         /\ \A g : MembersOf(g, S \cup {id}) =
              IF Attribute(g, "id") = id THEN MembersOf(g, S) \cup {"app"} ELSE MembersOf(g, S)
         /\ IdsSound(S \cup {id}) <=>
              /\ IdsSound(S) /\ id \in Digits
              /\ id \notin Ids(image.groups) => GrpName(id) \notin Names(image.groups)
<1>1. Additional(S \cup {id}) = IF id \in Ids(image.groups) THEN Additional(S) ELSE Additional(S) \cup {id}
  BY DEF Additional, Ids
<1>2. \A g : MembersOf(g, S \cup {id}) =
               IF Attribute(g, "id") = id THEN MembersOf(g, S) \cup {"app"} ELSE MembersOf(g, S)
  BY DEF MembersOf
<1>3. IdsSound(S \cup {id}) <=>
              /\ IdsSound(S) /\ id \in Digits
              /\ id \notin Ids(image.groups) => GrpName(id) \notin Names(image.groups)
  BY <1>1 DEF IdsSound, Names
<1>4. QED
  BY <1>1, <1>2, <1>3

\* The first line with that id.
FirstWith(t, id) ==
  CHOOSE i \in {j \in DOMAIN t.group : t.group[j].gid = id} :
     \A k \in {j \in DOMAIN t.group : t.group[j].gid = id} : i <= k

\* There is such a line, if a group has that id.
LEMMA FirstIs ==
  ASSUME NEW t, Tables(t), NEW id \in GroupIds(t)
  PROVE  LET g == t.group[FirstWith(t, id)] IN g.gid = id /\ AsSet(g) \in Rows(t)
<1> DEFINE of == {i \in DOMAIN t.group : t.group[i].gid = id}
<1>1. of # {}
  BY DEF GroupIds
<1>2. of \subseteq Nat
  <2>1. DOMAIN t.group = 1..Len(t.group) /\ Len(t.group) \in Nat
    BY DEF Tables, IsSeq
  <2>2. QED
    BY <2>1
<1>3. \E i \in of : \A j \in of : i <= j
  <2> HIDE DEF of
  <2>1. QED
    BY <1>1, <1>2, LeastNat
<1>4. FirstWith(t, id) \in of
  BY <1>3 DEF FirstWith
<1>5. QED
  BY <1>4 DEF Rows, Elems

\* Names made from ids.
LEMMA GrpNames ==
  \A a, b \in Digits : GrpName(a) # "app" /\ (GrpName(a) = GrpName(b) => a = b)
BY GroupNamesAssumption DEF GrpName

\* The loop over the supplementary groups, one id further.
LEMMA IdRound ==
  ASSUME NEW t, NEW S, IdsSoFar(t, S), NotApp, NEW id, id \notin S, id # Gid
  PROVE  IdsSoFar(AddSupplementary(t, id), S \cup {id})
<1>1. PICK u : u = AddSupplementary(t, id)
  OBVIOUS
<1>2. Tables(t)
  BY DEF IdsSoFar
<1>3. CASE id \notin Digits
  <2>1. u = Stop(t, 1)
    BY <1>1, <1>3 DEF AddSupplementary
  <2>2. Tables(u) /\ u.rc # 0
    BY <1>2, <2>1, StopIs
  <2>3. QED
    BY <1>1, <1>3, <2>2, AdditionalMore DEF IdsSoFar
<1>4. t.rc = 0 => /\ GroupNames(t) =
                       Names(image.groups) \cup {GrpName(i) : i \in Additional(S)} \cup {"app"}
                  /\ GroupIds(t) = Ids(image.groups) \cup Additional(S) \cup {Gid}
                  /\ "app" \in UserNames(t)
  <2>1. AppOf(environ).name = "app"
    BY DEF AppOf
  <2>2. t.rc = 0 => AppOf(environ) \in Elems(t.passwd) /\ Rows(t) = GroupsAsked(S)
    BY DEF IdsSoFar
  <2>3. "app" \in UserNames(t) \/ t.rc # 0
    BY <2>1, <2>2, NamesOfRows
  <2>4. GroupNames(t) = {v.name : v \in Rows(t)} /\ GroupIds(t) = {v.gid : v \in Rows(t)}
    BY NamesOfRows
  <2>5. QED
    BY <2>2, <2>3, <2>4, RowsAsked
<1>5. t.rc = 0 => (id \in GroupIds(t) <=> id \in Ids(image.groups))
  BY <1>4 DEF Additional
<1>6. "app" \notin Names(image.groups)
  BY DEF Names, Enabled, NotApp
<1>7. CASE id \in Digits /\ id \in GroupIds(t)
  <2>1. PICK g : g = t.group[FirstWith(t, id)]
    OBVIOUS
  <2>2. g.gid = id /\ AsSet(g) \in Rows(t)
    BY <1>2, <1>7, <2>1, FirstIs
  <2>3. u = AddUserToGroup(t, "app", g.name)
    BY <1>1, <1>7, <2>1 DEF AddSupplementary, FirstWith
  <2>4. /\ Tables(u)
        /\ u.rc = 0 <=> t.rc = 0 /\ "app" \in UserNames(t) /\ g.name \in GroupNames(t)
        /\ u.rc = 0 => u.passwd = t.passwd /\ Rows(u) = {Joined(v, g.name, "app") : v \in Rows(t)}
    BY <1>2, <2>3, AddUserToGroupIs
  <2>5. AsSet(g).name = g.name /\ AsSet(g).gid = id
    BY <2>2 DEF AsSet, Group
  <2>6. u.rc = 0 <=> t.rc = 0
    BY <1>4, <2>2, <2>4, <2>5, NamesOfRows
  <2>7. CASE t.rc # 0
    BY <1>1, <2>4, <2>6, <2>7, AdditionalMore DEF IdsSoFar
  <2>8. CASE t.rc = 0
    <3>1. /\ Rows(t) = GroupsAsked(S) /\ id \in Ids(image.groups)
          /\ GroupsSound(image.groups) /\ UsersSound(image.users) /\ IdsSound(S)
      BY <1>5, <1>7, <2>8 DEF IdsSoFar
    <3>2. IdsSound(S \cup {id}) /\ Additional(S \cup {id}) = Additional(S)
      BY <1>7, <3>1, AdditionalMore
    <3>3. PICK h \in Enabled(image.groups) : AsSet(g) = DefinedRow(h, S)
      <4>1. \A i \in Additional(S) : GrpRow(i).gid # id
        BY DEF GrpRow, Group, Additional
      <4>2. AppRow.gid # id
        BY DEF AppRow, Group
      <4>3. QED
        BY <2>2, <2>5, <3>1, <4>1, <4>2, RowsAsked
    <3>4. g.name = NameOf(h) /\ Attribute(h, "id") = id
      BY <2>5, <3>3 DEF DefinedRow, Group
    <3>5. \A d \in Enabled(image.groups) : NameOf(d) = NameOf(h) \/ Attribute(d, "id") = id => d = h
      BY <3>1, <3>3, <3>4 DEF GroupsSound, Distinct
    <3>6. ASSUME NEW d \in Enabled(image.groups)
          PROVE  Joined(DefinedRow(d, S), g.name, "app") = DefinedRow(d, S \cup {id})
      <4>1. CASE d = h
        <5>1. MembersOf(d, S \cup {id}) = MembersOf(d, S) \cup {"app"}
          <6>1. Attribute(d, "id") = id
            BY <3>4, <4>1
          <6>2. QED
            BY <6>1, AdditionalMore
        <5>2. QED
          BY <3>4, <4>1, <5>1 DEF Joined, DefinedRow, Group
      <4>2. CASE d # h
        <5>1. NameOf(d) # g.name /\ Attribute(d, "id") # id
          BY <3>4, <3>5, <4>2
        <5>2. MembersOf(d, S \cup {id}) = MembersOf(d, S)
          BY <5>1, AdditionalMore
        <5>3. QED
          BY <5>1, <5>2 DEF Joined, DefinedRow, Group
      <4>3. QED
        BY <4>1, <4>2
    <3>7. \A i \in Additional(S) : Joined(GrpRow(i), g.name, "app") = GrpRow(i)
      BY <3>1, <3>4 DEF Joined, GrpRow, Group, IdsSound
    <3>8. Joined(AppRow, g.name, "app") = AppRow
      BY DEF Joined, AppRow, Group
    <3>9. {Joined(v, g.name, "app") : v \in GroupsAsked(S)} = GroupsAsked(S \cup {id})
      <4>1. /\ GroupsAsked(S) = {DefinedRow(d, S) : d \in Enabled(image.groups)}
                                   \cup {GrpRow(i) : i \in Additional(S)} \cup {AppRow}
            /\ GroupsAsked(S \cup {id}) = {DefinedRow(d, S \cup {id}) : d \in Enabled(image.groups)}
                                             \cup {GrpRow(i) : i \in Additional(S)} \cup {AppRow}
        BY <3>2, RowsAsked
      <4>2. QED
        BY <3>6, <3>7, <3>8, <4>1
    <3>10. QED
      BY <1>1, <2>4, <2>6, <2>8, <3>1, <3>2, <3>9 DEF IdsSoFar
  <2>9. QED
    BY <2>7, <2>8
<1>8. CASE id \in Digits /\ id \notin GroupIds(t)
  <2>1. PICK name : name = GrpName(id)
    OBVIOUS
  <2>2. PICK b : b = AddGroup(t, name, id, FALSE)
    OBVIOUS
  <2>3. u = AddUserToGroup(b, "app", name)
    BY <1>1, <1>8, <2>1, <2>2 DEF AddSupplementary, GrpName
  <2>4. /\ Tables(b)
        /\ b.rc = 0 <=> t.rc = 0 /\ name \notin GroupNames(t)
        /\ b.rc = 0 => b.passwd = t.passwd /\ Rows(b) = Rows(t) \cup {Group(name, id, {})}
    BY <1>2, <1>8, <2>2, AddGroupIs
  <2>5. Group(name, id, {}).name = name
    BY DEF Group
  <2>6. b.rc = 0 => name \in GroupNames(b) /\ "app" \in UserNames(b)
    BY <1>4, <2>4, <2>5, NamesOfRows
  <2>7. /\ Tables(u) /\ (u.rc = 0 <=> b.rc = 0)
        /\ u.rc = 0 => u.passwd = b.passwd /\ Rows(u) = {Joined(v, name, "app") : v \in Rows(b)}
    BY <2>3, <2>4, <2>6, AddUserToGroupIs
  <2>8. CASE t.rc # 0
    BY <1>1, <2>4, <2>7, <2>8, AdditionalMore DEF IdsSoFar
  <2>9. CASE t.rc = 0
    <3>1. /\ Rows(t) = GroupsAsked(S) /\ id \notin Ids(image.groups)
          /\ GroupsSound(image.groups) /\ UsersSound(image.users) /\ IdsSound(S)
      BY <1>5, <1>8, <2>9 DEF IdsSoFar
    <3>2. /\ Additional(S \cup {id}) = Additional(S) \cup {id}
          /\ IdsSound(S \cup {id}) <=> name \notin Names(image.groups)
      BY <1>8, <2>1, <3>1, AdditionalMore
    <3>3. name # "app" /\ \A i \in Additional(S) : name # GrpName(i)
      BY <1>8, <2>1, <3>1, GrpNames DEF IdsSound, Additional
    <3>4. u.rc = 0 <=> IdsSound(S \cup {id})
      BY <1>4, <2>4, <2>7, <2>9, <3>2, <3>3
    <3>5. CASE u.rc = 0
      <4>1. ASSUME NEW d \in Enabled(image.groups)
            PROVE  Joined(DefinedRow(d, S), name, "app") = DefinedRow(d, S \cup {id})
        <5>1. NameOf(d) # name /\ Attribute(d, "id") # id
          BY <3>1, <3>2, <3>4, <3>5 DEF Names, Ids
        <5>2. MembersOf(d, S \cup {id}) = MembersOf(d, S)
          BY <5>1, AdditionalMore
        <5>3. QED
          BY <5>1, <5>2 DEF Joined, DefinedRow, Group
      <4>2. \A i \in Additional(S) : Joined(GrpRow(i), name, "app") = GrpRow(i)
        BY <3>3 DEF Joined, GrpRow, Group
      <4>3. Joined(AppRow, name, "app") = AppRow
        BY <3>3 DEF Joined, AppRow, Group
      <4>4. Joined(Group(name, id, {}), name, "app") = GrpRow(id)
        BY <2>1 DEF Joined, GrpRow, Group
      <4>5. {Joined(v, name, "app") : v \in GroupsAsked(S) \cup {Group(name, id, {})}} = GroupsAsked(S \cup {id})
        <5>1. /\ GroupsAsked(S) = {DefinedRow(d, S) : d \in Enabled(image.groups)}
                                     \cup {GrpRow(i) : i \in Additional(S)} \cup {AppRow}
              /\ GroupsAsked(S \cup {id}) = {DefinedRow(d, S \cup {id}) : d \in Enabled(image.groups)}
                                               \cup {GrpRow(i) : i \in Additional(S) \cup {id}} \cup {AppRow}
          BY <3>2, RowsAsked
        <5>2. QED
          BY <4>1, <4>2, <4>3, <4>4, <5>1
      <4>6. Rows(u) = GroupsAsked(S \cup {id}) /\ u.passwd = t.passwd
        BY <2>4, <2>7, <3>1, <3>5, <4>5
      <4>7. QED
        BY <1>1, <2>7, <2>9, <3>1, <3>4, <3>5, <4>6 DEF IdsSoFar
    <3>6. CASE u.rc # 0
      BY <1>1, <2>7, <3>4, <3>6 DEF IdsSoFar
    <3>7. QED
      BY <3>5, <3>6
  <2>10. QED
    BY <2>8, <2>9
<1>9. QED
  BY <1>3, <1>7, <1>8

\* What sort(1) prints of a finite set of words is one word of each number, each once.
LEMMA SortNubIs ==
  ASSUME NEW words, IsFiniteSet(words), NEW ids \in SortNub(words)
  PROVE  Listing(ids) /\ Different(ids) /\ Elems(ids) \in OnePerNumber(words)
<1>1. PICK kept \in SUBSET words : ids \in SetToSeqs(kept)
  BY DEF SortNub
<1>2. IsFiniteSet(kept)
  BY <1>1, FS_Subset
<1>3. Listing(ids) /\ Different(ids) /\ Elems(ids) = kept
  BY <1>1, <1>2, OrderIs
<1>4. \A w : SortKey(w) \in Int
  BY NumeralsAssumption DEF SortKey, Digits
<1>5. /\ \A i, j \in DOMAIN ids : i < j => SortKey(ids[i]) < SortKey(ids[j])
      /\ \A w \in words : \E i \in DOMAIN ids : SortKey(ids[i]) = SortKey(w)
  BY DEF SortNub
<1>6. ASSUME NEW i \in DOMAIN ids, NEW j \in DOMAIN ids, SortKey(ids[i]) = SortKey(ids[j])
      PROVE  ids[i] = ids[j]
  <2>1. PICK a, b : a = SortKey(ids[i]) /\ b = SortKey(ids[j]) /\ a \in Int /\ b \in Int
    BY <1>4
  <2>2. (i < j => a < b) /\ (j < i => b < a)
    BY <1>5, <2>1
  <2>3. a = b
    BY <1>6, <2>1
  <2>4. i \in Nat /\ j \in Nat
    BY <1>3 DEF Listing
  <2>5. i = j
    BY <2>1, <2>2, <2>3, <2>4
  <2>6. QED
    BY <2>5
<1>7. QED
  BY <1>1, <1>3, <1>5, <1>6 DEF OnePerNumber, Elems

\* There is always such a choice.
LEMMA OnePerNumberExists == ASSUME NEW words PROVE OnePerNumber(words) # {}
<1> DEFINE one(w) == CHOOSE v \in words : SortKey(v) = SortKey(w)
           kept == {one(w) : w \in words}
<1>1. \A w \in words : one(w) \in words /\ SortKey(one(w)) = SortKey(w)
  OBVIOUS
<1>2. \A v, w \in words : SortKey(v) = SortKey(w) => one(v) = one(w)
  OBVIOUS
<1> HIDE DEF one
<1>3. kept \in OnePerNumber(words)
  BY <1>1, <1>2 DEF OnePerNumber
<1>4. QED
  BY <1>3

\* Lists of groups have elements.
ListsGiven == \A var \in ListVariables \cap DOMAIN environ : environ[var] \in DOMAIN Lists

\* The script asks for the supplementary groups of app that are not its own.
LEMMA SupplementaryIs ==
  ASSUME HasIds, ListsGiven
  PROVE  /\ Supplementary(environ) = SupplementaryAsked
         /\ IsFiniteSet(SupplementaryAsked) /\ Gid \notin SupplementaryAsked
<1> DEFINE sup == Elements(environ, "SUP_GROUP_IDS")
           internal == Elements(environ, "SUP_GROUP_IDS_INTERNAL")
           lists == UNION {Lists[environ[var]] : var \in ListVariables \cap DOMAIN environ}
           own == {environ[var] : var \in {"GROUP_ID"} \cap DOMAIN environ}
<1>1. Supplementary(environ) = (sup \cup internal) \ {"", "0", Gid}
  BY Zenon DEF Supplementary, Gid
<1>2. SupplementaryAsked = lists \ ({"", "0"} \cup own)
  BY Zenon DEF SupplementaryAsked
<1>3. own = {Gid}
  BY DEF HasIds, Gid
<1>4. lists = sup \cup internal
  BY DEF Elements, ListVariables
<1>5. IsFiniteSet(sup) /\ IsFiniteSet(internal)
  <2>1. ASSUME NEW var \in ListVariables PROVE IsFiniteSet(Elements(environ, var))
    <3>1. CASE var \in DOMAIN environ
      <4>1. environ[var] \in DOMAIN Lists /\ Elements(environ, var) = Lists[environ[var]]
        BY <3>1 DEF Elements, ListsGiven
      <4>2. QED
        BY <4>1, ListsAssumption
    <3>2. CASE var \notin DOMAIN environ
      BY <3>2, FS_EmptySet DEF Elements
    <3>3. QED
      BY <3>1, <3>2
  <2>2. "SUP_GROUP_IDS" \in ListVariables /\ "SUP_GROUP_IDS_INTERNAL" \in ListVariables
    BY DEF ListVariables
  <2>3. QED
    BY Zenon, <2>1, <2>2
<1> HIDE DEF sup, internal, lists, own
<1>6. IsFiniteSet(sup \cup internal)
  BY <1>5, FS_Union
<1>7. \A blank : lists \ ({blank, "0"} \cup own) = (sup \cup internal) \ {blank, "0", Gid}
  BY <1>3, <1>4
<1>8. Supplementary(environ) = SupplementaryAsked
  BY Zenon, <1>1, <1>2, <1>7
<1>9. \A blank : LET asked == (sup \cup internal) \ {blank, "0", Gid}
                 IN  asked \subseteq sup \cup internal /\ Gid \notin asked
  OBVIOUS
<1>10. SupplementaryAsked \subseteq sup \cup internal /\ Gid \notin SupplementaryAsked
  BY Zenon, <1>1, <1>8, <1>9
<1>11. IsFiniteSet(SupplementaryAsked)
  BY <1>6, <1>10, FS_Subset
<1>12. QED
  BY <1>8, <1>10, <1>11

\* After all supplementary groups.
LEMMA AllIds ==
  ASSUME NEW t, IdsSoFar(t, {}), NotApp, NEW ids, Listing(ids), Different(ids), Gid \notin Elems(ids)
  PROVE  IdsSoFar(FoldLeft(AddSupplementary, t, ids), Elems(ids))
<1>1. PICK n : n = Len(ids) /\ n \in Nat
  BY DEF Listing
<1>2. PICK r : Rounds("ids", "app", t, ids, n, r) /\ r[n] = FoldLeft(AddSupplementary, t, ids)
  BY <1>1, IdsLoop
<1> DEFINE Good == {k \in 0..n : IdsSoFar(r[k], Prefix(ids, k))}
<1>3. 0 \in Good
  <2>1. r[0] = t /\ Prefix(ids, 0) = {}
    BY <1>2, PrefixMore DEF Rounds
  <2>2. IdsSoFar(r[0], Prefix(ids, 0))
    BY <2>1
  <2>3. QED
    BY <1>1, <2>2
<1>4. ASSUME NEW k \in 1..n, k - 1 \in Good PROVE k \in Good
  <2>1. r[k] = AddSupplementary(r[k - 1], ids[k])
    BY <1>2 DEF Rounds, Round
  <2>2. Prefix(ids, k) = Prefix(ids, k - 1) \cup {ids[k]} /\ ids[k] \notin Prefix(ids, k - 1)
    BY <1>1, PrefixMore
  <2>3. IdsSoFar(r[k - 1], Prefix(ids, k - 1))
    BY <1>4
  <2>4. ids[k] # Gid
    BY <1>1 DEF Listing, Elems
  <2>5. IdsSoFar(r[k], Prefix(ids, k))
    BY <2>1, <2>2, <2>3, <2>4, IdRound
  <2>6. QED
    BY <1>1, <2>5
<1>5. n \in Good
  <2> HIDE DEF Good
  <2>1. \A k \in 0..n : k \in Good
    BY <1>1, <1>3, <1>4, EachRound
  <2>2. QED
    BY <1>1, <2>1
<1>6. QED
  BY <1>1, <1>2, <1>5, PrefixMore

\* The parts of what makes a configuration sound.
LEMMA SoundParts ==
  \A asked : Sound(asked) <=>
    GroupsSound(image.groups) /\ UsersSound(image.users) /\ HasIds /\ IdsSound(asked)
<1> SUFFICES ASSUME NEW asked
             PROVE  Sound(asked) <=>
                      GroupsSound(image.groups) /\ UsersSound(image.users) /\ HasIds /\ IdsSound(asked)
  OBVIOUS
<1>1. \A u : (\E g \in Enabled(image.groups) : Attribute(g, "id") = Attribute(u, "gid"))
               <=> Attribute(u, "gid") \in Ids(image.groups)
  BY DEF Ids
<1>2. \A u : (\A name \in GroupsOf(u) : \E g \in Enabled(image.groups) : NameOf(g) = name)
               <=> GroupsOf(u) \subseteq Names(image.groups)
  BY DEF Names
<1>3. IdsSound(asked) <=>
        /\ asked \subseteq Digits
        /\ \A g \in Enabled(image.groups) : \A id \in Additional(asked) : NameOf(g) # "grp" \o id
  BY DEF IdsSound, GrpName
<1>4. QED
  BY <1>1, <1>2, <1>3 DEF Sound, GroupsSound, UsersSound, HasIds

\* The accounts that 10-init-users.sh makes.
AccountsAre(asked) ==
  /\ accounts.rc = 0 <=> Sound(asked)
  /\ Sound(asked) =>
       /\ Elems(accounts.passwd) = {UserOf(u) : u \in Enabled(image.users)} \cup {AppOf(environ)}
       /\ Rows(accounts) = GroupsAsked(asked)

\* Whatever order the directories are found in, and whichever words sort(1) keeps.
LEMMA InitUsersIs ==
  ASSUME Directories, ListsGiven, NotApp, accounts \in InitUsers(image.groups, image.users, environ)
  PROVE  \E asked \in OnePerNumber(SupplementaryAsked) : AccountsAre(asked)
<1>1. PICK gs \in SetToSeqs(image.groups), us \in SetToSeqs(image.users) :
        accounts \in AddAppToGroups(AddApp(FoldLeft(AddDefinedUser, FoldLeft(AddDefinedGroup, NoAccounts, gs), us),
                                           environ), environ)
  BY DEF InitUsers
<1>2. PICK g : g = FoldLeft(AddDefinedGroup, NoAccounts, gs)
  OBVIOUS
<1>3. PICK t : t = FoldLeft(AddDefinedUser, g, us)
  OBVIOUS
<1>4. PICK a : a = AddApp(t, environ)
  OBVIOUS
<1>5. accounts \in AddAppToGroups(a, environ)
  BY <1>1, <1>2, <1>3, <1>4
<1>6. UsersSoFar(t, image.users)
  <2>1. GroupsSoFar(g, image.groups)
    BY <1>2, AllGroups DEF Directories
  <2>2. QED
    BY <1>3, <2>1, AllUsers
<1>7. ASSUME accounts.rc # 0, \A asked : ~Sound(asked)
      PROVE  \E asked \in OnePerNumber(SupplementaryAsked) : AccountsAre(asked)
  <2>1. PICK asked \in OnePerNumber(SupplementaryAsked) : TRUE
    BY OnePerNumberExists
  <2>2. AccountsAre(asked)
    BY <1>7 DEF AccountsAre
  <2>3. QED
    BY <2>2
<1>8. CASE ~HasIds
  <2>1. a = Stop(t, 2)
    BY <1>4, <1>8 DEF AddApp, HasIds
  <2>2. a.rc # 0
    BY <1>6, <2>1, StopIs DEF UsersSoFar
  <2>3. accounts = a
    BY <1>5, <2>2 DEF AddAppToGroups
  <2>4. \A asked : ~Sound(asked)
    BY <1>8, SoundParts
  <2>5. QED
    BY <1>7, <2>2, <2>3, <2>4
<1>9. CASE HasIds
  <2>1. IdsSoFar(a, {})
    BY <1>4, <1>6, <1>9, AppIs
  <2>2. CASE a.rc # 0
    <3>1. accounts = a
      BY <1>5, <2>2 DEF AddAppToGroups
    <3>2. IdsSound({})
      BY DEF IdsSound, Additional
    <3>3. \A asked : ~Sound(asked)
      BY <2>1, <2>2, <3>2, SoundParts DEF IdsSoFar
    <3>4. QED
      BY <1>7, <2>2, <3>1, <3>3
  <2>3. CASE a.rc = 0
    <3>1. PICK ids \in SortNub(SupplementaryAsked) : accounts = FoldLeft(AddSupplementary, a, ids)
      BY <1>5, <1>9, <2>3, SupplementaryIs DEF AddAppToGroups
    <3>2. PICK asked : asked = Elems(ids)
      OBVIOUS
    <3>3. Listing(ids) /\ Different(ids) /\ asked \in OnePerNumber(SupplementaryAsked)
      BY <1>9, <3>1, <3>2, SupplementaryIs, SortNubIs
    <3>4. Gid \notin asked
      BY <1>9, <3>3, SupplementaryIs DEF OnePerNumber
    <3>5. IdsSoFar(accounts, asked)
      BY <2>1, <3>1, <3>2, <3>3, <3>4, AllIds
    <3>6. AccountsAre(asked)
      BY <1>9, <3>5, SoundParts DEF IdsSoFar, AccountsAre
    <3>7. QED
      BY <3>3, <3>6
  <2>4. QED
    BY <2>2, <2>3
<1>10. QED
  BY <1>8, <1>9

\* The files of the container are those of a configuration, and the accounts are what
\* the script has made of them.
AccountsSoFar ==
  /\ image \in {c.image : c \in Configurations}
  /\ ListsGiven
  /\ UsersScriptRan => accounts \in InitUsers(image.groups, image.users, environ)

\* Before the script has run there is nothing to say of the accounts.
LEMMA AccountsInit == Init => AccountsSoFar
<1> SUFFICES ASSUME Init PROVE AccountsSoFar
  OBVIOUS
<1>1. PICK c \in Configurations : InitContainer(c.image)
  BY DEF Init
<1>2. image = c.image /\ ran = << >>
  BY <1>1 DEF InitContainer
<1>3. ListsGiven
  <2>1. environ = [v \in DOMAIN c.image.user \cup {"PATH"} |->
                     IF v = "PATH" THEN OwnPath ELSE c.image.user[v]]
    BY <1>1 DEF InitContainer
  <2>2. \A v \in ListVariables \cap DOMAIN environ :
          v \in DOMAIN c.image.user /\ environ[v] = c.image.user[v]
    BY <2>1 DEF ListVariables
  <2>3. QED
    BY <2>2, ListVariablesAssumption DEF ListsGiven
<1>4. ~UsersScriptRan
  BY <1>2 DEF UsersScriptRan
<1>5. QED
  BY <1>2, <1>3, <1>4 DEF AccountsSoFar

\* Nothing else changes the accounts.
LEMMA AccountsFrame ==
  ASSUME AccountsSoFar, UNCHANGED <<image, environ, ran>>, UNCHANGED accounts
  PROVE  AccountsSoFar'
BY DEF AccountsSoFar, ListsGiven, UsersScriptRan

\* A variable gets a value from a file.
LEMMA LoadAccounts ==
  ASSUME Loops, ScriptsSoFar, AccountsSoFar, UNCHANGED <<image, ran>>, NEW force \in BOOLEAN,
         stage \in {"cont-env", "cont-secrets"}, todo # << >>,
         LoadEnvVar(Current.name, Current.value, force)
  PROVE  AccountsSoFar'
<1>1. PICK c \in Configurations : image = c.image
  BY DEF AccountsSoFar
<1>2. PICK files, i : /\ files \in {c.image.cont_env, c.image.secrets} /\ i \in DOMAIN files
                      /\ Current = files[i]
  <2>1. Read + 1 \in DOMAIN Files(stage) /\ Current = Files(stage)[Read + 1]
    BY NextFile
  <2>2. Files(stage) \in {c.image.cont_env, c.image.secrets}
    BY <1>1 DEF Files
  <2>3. QED
    BY <2>1, <2>2
<1>3. Current.name \in ListVariables => Current.value \in DOMAIN Lists
  BY <1>2, ListVariablesAssumption
<1>4. environ' = environ \/ environ' = With(Current.name, Current.value)
  BY DEF LoadEnvVar
<1>5. ListsGiven'
  <2>1. CASE environ' = environ
    BY <2>1 DEF AccountsSoFar, ListsGiven
  <2>2. CASE environ' = With(Current.name, Current.value)
    <3>1. PICK name, value : name = Current.name /\ value = Current.value
      OBVIOUS
    <3>2. environ' = [v \in DOMAIN environ \cup {name} |-> IF v = name THEN value ELSE environ[v]]
      BY <2>2, <3>1 DEF With
    <3>3. QED
      BY <1>3, <3>1, <3>2 DEF AccountsSoFar, ListsGiven
  <2>3. QED
    BY <1>4, <2>1, <2>2
<1>6. ran = << >>
  BY DEF ScriptsSoFar
<1>7. ~UsersScriptRan'
  BY <1>6 DEF UsersScriptRan
<1>8. QED
  BY <1>5, <1>7 DEF AccountsSoFar

\* An initialization script runs.
LEMMA RunAccounts ==
  ASSUME Loops, ScriptsSoFar, AccountsSoFar, RunInitScript
  PROVE  AccountsSoFar'
<1>1. PICK n : n = Head(todo)
  OBVIOUS
<1>2. /\ stage = "cont-init" /\ ran' = Append(ran, n) /\ UNCHANGED image
      /\ Current = image.cont_init[n]
  BY <1>1 DEF RunInitScript, Current, Files
<1>3. UNCHANGED environ
  BY DEF RunInitScript, ScriptEnded, Exit
<1>4. ListsGiven'
  BY <1>3 DEF AccountsSoFar, ListsGiven
<1>5. CASE Current.users
  <2>1. accounts' \in InitUsers(image.groups, image.users, environ)
    BY <1>5 DEF RunInitScript
  <2>2. QED
    BY <1>2, <1>3, <1>4, <2>1 DEF AccountsSoFar
<1>6. CASE ~Current.users
  <2>1. UNCHANGED accounts
    BY <1>6 DEF RunInitScript
  <2>2. ran \in Seq(Nat) /\ n \in Nat
    <3>1. n = Read + 1 /\ Read \in Nat
      BY <1>1, <1>2, NextFile DEF RunInitScript
    <3>2. QED
      BY <3>1 DEF ScriptsSoFar
  <2>3. \A i \in DOMAIN ran' : ran'[i] = n \/ (i \in DOMAIN ran /\ ran'[i] = ran[i])
    BY <1>2, <2>2
  <2>4. UsersScriptRan' => UsersScriptRan
    BY <1>2, <1>6, <2>3 DEF UsersScriptRan
  <2>5. QED
    BY <1>2, <1>3, <1>4, <2>1, <2>4 DEF AccountsSoFar
<1>7. QED
  BY <1>5, <1>6

\* The accounts are what the script has made of the directories and the environment,
\* and stay so.
LEMMA AccountsNext == Loops /\ ScriptsSoFar /\ AccountsSoFar /\ [Next]_vars => AccountsSoFar'
<1> SUFFICES ASSUME Loops, ScriptsSoFar, AccountsSoFar, [Next]_vars PROVE AccountsSoFar'
  OBVIOUS
<1>1. CASE InitStep
  <2>1. CASE LoadFile
    BY <2>1, LoadAccounts DEF LoadFile
  <2>2. CASE LoadSecret
    BY <2>2, LoadAccounts DEF LoadSecret
  <2>3. CASE LoadProgram
    <3>1. stage = "cont-env" /\ todo # << >> /\ UNCHANGED <<image, accounts, ran>>
      BY <2>3 DEF LoadProgram
    <3>2. LoadEnvVar(Current.name, Current.value, FALSE) \/ UNCHANGED environ
      BY <2>3 DEF LoadProgram, Exit
    <3>3. QED
      BY <3>1, <3>2, LoadAccounts, AccountsFrame
  <2>4. CASE RunInitScript
    BY <2>4, RunAccounts
  <2>5. CASE BadName \/ SkipScript \/ RunFinishScript \/ NextStage
    BY <2>5, AccountsFrame DEF BadName, SkipScript, RunFinishScript, NextStage, Exit
  <2>6. QED
    BY <1>1, <2>1, <2>2, <2>3, <2>4, <2>5 DEF InitStep
<1>2. CASE GiveControl
  BY <1>2, AccountsFrame DEF GiveControl, Exit
<1>3. CASE UNCHANGED initVars
  BY <1>3, AccountsFrame DEF initVars
<1>4. CASE End
  BY <1>4, AccountsFrame DEF End, SupervisorEnds
<1>5. CASE UNCHANGED vars
  BY <1>5, AccountsFrame DEF vars, initVars
<1>6. QED
  BY <1>1, <1>2, <1>3, <1>4, <1>5 DEF Next

\* In whatever order the directories are found: 10-init-users.sh succeeds exactly if
\* what it is asked for is sound, and then the tables are what was asked for.
THEOREM AccountsAsDefinedCorrect == Spec => []AccountsAsDefined
<1>1. Init => Loops /\ Phases /\ ScriptsSoFar /\ AccountsSoFar
  BY LoopsInit, PhasesInit, ScriptsInit, AccountsInit
<1>2. AccountsSoFar => AccountsAsDefined
  <2> SUFFICES ASSUME AccountsSoFar, UsersScriptRan, NotApp PROVE AccountsAsDefined
    BY DEF AccountsAsDefined, NotApp
  <2>1. PICK c \in Configurations : image = c.image
    BY DEF AccountsSoFar
  <2>2. Directories
    BY <2>1, ConfigurationsAssumption DEF Directories
  <2>3. accounts \in InitUsers(image.groups, image.users, environ)
    BY DEF AccountsSoFar
  <2>4. PICK asked \in OnePerNumber(SupplementaryAsked) : AccountsAre(asked)
    BY <2>2, <2>3, InitUsersIs DEF AccountsSoFar
  <2>5. Rows(accounts) = {Group(g.name, g.gid, Elems(g.members)) : g \in Elems(accounts.group)}
    BY DEF Rows, AsSet
  <2>6. QED
    BY <2>4, <2>5 DEF AccountsAre, AccountsAsDefined
<1>3. QED
  BY <1>1, <1>2, PhasesNext, ScriptsNext, AccountsNext, PTL DEF Spec

=============================================================================
