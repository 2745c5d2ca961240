---------------------------- MODULE Cinit_proofs ----------------------------
(* Machine-checked proofs about Cinit, for every table of services and every *)
(* number of processes, signals and commands.                                *)
EXTENDS Cinit, FiniteSetTheorems, SequenceTheorems, TLAPS

\* The start order is a sequence of services.
LEMMA OrderIsSeq ==
  ASSUME NEW c \in Configs, NEW o \in StartOrders(c)
  PROVE  o \in Seq(Sids) /\ DOMAIN o = 1 .. Len(o)
<1> DEFINE enabled == {s \in Sids : ~c[s].disabled}
<1>1. IsFiniteSet(enabled)
  <2>1. IsFiniteSet(Sids)
    BY FS_Interval, ConstAssumption DEF ConstAssumption, Sids
  <2>2. QED
    BY <2>1, FS_Subset
<1>2. Cardinality(enabled) \in Nat
  BY <1>1, FS_CardinalityType
<1>3. o \in [1 .. Cardinality(enabled) -> Sids]
  BY DEF StartOrders
<1>4. o \in Seq(Sids)
  <2> DEFINE n == Cardinality(enabled)
  <2>1. n \in Nat /\ o \in [1 .. n -> Sids]
    BY <1>2, <1>3
  <2> HIDE DEF n
  <2>2. QED
    BY <2>1, SeqDef
<1>5. QED
  BY <1>4, LenProperties

\* The start order is a sequence of services, with the indices that has.
LEMMA OrderType ==
  ASSUME TypeOK
  PROVE  /\ order \in Seq(Sids)
         /\ DOMAIN order = 1 .. Len(order) /\ Len(order) \in Nat
         /\ \A i \in DOMAIN order : order[i] \in Sids
BY OrderIsSeq DEF TypeOK

\* What is known of the process table after start_service.
StartedType(s, ok) ==
  /\ pid' \in [Sids -> Pids \cup {NoPid}]
  /\ logger_started' \in [Sids -> BOOLEAN]
  /\ due' \in [Sids -> BOOLEAN]
  /\ proc' \in [Pids -> {"free", "alive", "termed", "zombie"}]
  /\ owner' \in [Pids -> Sids \cup {0}]
  /\ ok => pid'[s] # NoPid

\* start_service leaves a process table of the right type, and a process for
\* the service when it returns.
LEMMA StartServiceType ==
  ASSUME TypeOK, NEW s \in Sids, NEW ok \in BOOLEAN, start_service(s, ok)
  PROVE  StartedType(s, ok)
<1> USE DEF StartedType
<1>1. CASE (pid[s] # NoPid \/ ~ok) /\ UNCHANGED <<table, proc, owner>>
  BY <1>1 DEF TypeOK, table
<1>2. ASSUME NEW p \in Free,
             proc' = [proc EXCEPT ![p] = "alive"],
             owner' = [owner EXCEPT ![p] = s],
             pid' = [pid EXCEPT ![s] = p],
             due' = [due EXCEPT ![s] = FALSE],
             logger_started' = [logger_started EXCEPT ![s] = ok]
      PROVE  /\ pid' \in [Sids -> Pids \cup {NoPid}]
             /\ logger_started' \in [Sids -> BOOLEAN]
             /\ due' \in [Sids -> BOOLEAN]
             /\ proc' \in [Pids -> {"free", "alive", "termed", "zombie"}]
             /\ owner' \in [Pids -> Sids \cup {0}]
             /\ pid'[s] # NoPid
  <2>1. p \in Pids /\ p # NoPid
    BY ConstAssumption DEF ConstAssumption, Free
  <2>2. QED
    BY <1>2, <2>1 DEF TypeOK
<1>3. QED
  BY <1>1, <1>2 DEF start_service

\* A helper program leaves a process table of the right type.
LEMMA RunHelperType ==
  ASSUME TypeOK, NEW next \in [Pids -> {"free", "alive", "termed", "zombie"}],
         NEW interrupted \in BOOLEAN, RunHelper(interrupted, next)
  PROVE  /\ proc' \in [Pids -> {"free", "alive", "termed", "zombie"}]
         /\ signals' \in 0 .. MaxSignals
BY ConstAssumption DEF ConstAssumption, TypeOK, RunHelper

Causes == [why : {"none", "signal", "failure", "service", "idle"}, code : Codes]

\* REQUEST_SHUTDOWN keeps the flag and the history of its cause typed.
LEMMA RequestShutdownType ==
  ASSUME TypeOK, NEW why \in {"none", "signal", "failure", "service", "idle"},
         NEW code \in Codes, RequestShutdown(why, code)
  PROVE  do_shutdown' \in BOOLEAN /\ cause' \in Causes
<1>1. cause' \in {cause, [why |-> why, code |-> code]}
  BY DEF RequestShutdown
<1>2. cause \in Causes /\ [why |-> why, code |-> code] \in Causes
  BY DEF TypeOK, Causes
<1>3. QED
  BY <1>1, <1>2 DEF RequestShutdown

\* stop_service leaves a process table of the right type.
LEMMA StopServiceType ==
  ASSUME TypeOK, NEW s \in Sids, NEW ok \in BOOLEAN, stop_service(s, ok)
  PROVE  /\ proc' \in [Pids -> {"free", "alive", "termed", "zombie"}]
         /\ signals' \in 0 .. MaxSignals
         /\ do_shutdown' \in BOOLEAN
         /\ cause' \in Causes
<1>1. Term(proc, {pid[s]}) \in [Pids -> {"free", "alive", "termed", "zombie"}]
  BY DEF TypeOK, Term
<1>2. CASE UNCHANGED <<proc, signals, do_shutdown, cause>>
  BY <1>2 DEF TypeOK, Causes
<1>3. ASSUME NEW interrupted \in BOOLEAN,
             RunHelper(interrupted, Term(proc, {pid[s]})),
             IF interrupted THEN RequestShutdown("signal", 0)
                            ELSE UNCHANGED <<do_shutdown, cause>>
      PROVE  /\ proc' \in [Pids -> {"free", "alive", "termed", "zombie"}]
             /\ signals' \in 0 .. MaxSignals
             /\ do_shutdown' \in BOOLEAN
             /\ cause' \in Causes
  <2>1. proc' \in [Pids -> {"free", "alive", "termed", "zombie"}] /\ signals' \in 0 .. MaxSignals
    BY <1>1, <1>3, RunHelperType
  <2>2. CASE interrupted
    BY <1>3, <2>1, <2>2, RequestShutdownType, ConstAssumption DEF ConstAssumption
  <2>3. CASE ~interrupted
    BY <1>3, <2>1, <2>3 DEF TypeOK, Causes
  <2>4. QED
    BY <2>2, <2>3
<1>4. QED
  BY <1>2, <1>3 DEF stop_service

\* Reaping keeps the types, and main goes on in child_handler or handle_killed.
LEMMA ReapType ==
  ASSUME TypeOK, NEW p \in Pids, NEW back, back \in {"up_done", "catch", "reap"}, Reap(p, back)
  PROVE  /\ pid' \in [Sids -> Pids \cup {NoPid}]
         /\ logger_started' \in [Sids -> BOOLEAN]
         /\ proc' \in [Pids -> {"free", "alive", "termed", "zombie"}]
         /\ status' \in [Pids -> Codes]
         /\ owner' \in [Pids -> Sids \cup {0}]
         /\ killed' \in [sid : Sids \cup {0}, code : Codes]
         /\ \/ pc' = "reap" /\ ret' = ret /\ p \in Strays
            \/ pc' = "killed" /\ ret' = back /\ killed'.sid \in Sids
<1>1. /\ proc' \in [Pids -> {"free", "alive", "termed", "zombie"}]
      /\ status' \in [Pids -> Codes]
      /\ owner' \in [Pids -> Sids \cup {0}]
  BY ConstAssumption DEF ConstAssumption, TypeOK, Reap
<1>2. CASE p \in Strays /\ pc' = "reap" /\ UNCHANGED <<pid, logger_started, killed, ret>>
  BY <1>1, <1>2 DEF TypeOK
<1>3. ASSUME NEW s \in Sids,
             pid' = [pid EXCEPT ![s] = NoPid],
             logger_started' = [logger_started EXCEPT ![s] = FALSE],
             killed' = [sid |-> s, code |-> status[p]],
             ret' = back, pc' = "killed"
      PROVE  /\ pid' \in [Sids -> Pids \cup {NoPid}]
             /\ logger_started' \in [Sids -> BOOLEAN]
             /\ killed' \in [sid : Sids \cup {0}, code : Codes]
             /\ killed'.sid \in Sids
  <2>1. status[p] \in Codes
    BY DEF TypeOK
  <2>2. QED
    BY <1>3, <2>1 DEF TypeOK
<1>4. QED
  BY <1>1, <1>2, <1>3 DEF Reap, ClearedPid, JoinedLogger, CodeOf, Goto

-----------------------------------------------------------------------------
(* Type correctness.  The type invariant is not inductive: the index `cur' is *)
(* decremented and used to index the start order, so Control is carried too. *)

Typing == TypeOK /\ Control

\* The state main starts from is typed.
LEMMA InitTyping == Init => Typing
<1> SUFFICES ASSUME Init PROVE Typing
  OBVIOUS
<1>1. order \in Seq(Sids) /\ DOMAIN order = 1 .. Len(order)
  BY OrderIsSeq DEF Init
<1>2. NoKill \in [sid : Sids \cup {0}, code : Codes] /\ NoCause \in Causes
  BY ConstAssumption DEF ConstAssumption, NoKill, NoCause, Causes
<1>3. fifo \in Seq(Commands) /\ signals \in 0 .. MaxSignals
  BY ConstAssumption DEF ConstAssumption, Init
<1>4. TypeOK
  BY <1>2, <1>3, ConstAssumption
  DEF ConstAssumption, Init, TypeOK, PCs, StartupPCs, Modes, Causes
<1>5. Control
  BY <1>1 DEF Init, Control, AtService, StartupPCs, InBringUp, MainPCs
<1>6. QED
  BY <1>4, <1>5 DEF Typing

\* Going to sleep in the waitpid of a synchronous service keeps the types and the control invariant.
LEMMA SyncBlockTyping == Typing /\ SyncBlock => Typing'
<1> SUFFICES ASSUME TypeOK, Control, SyncBlock PROVE TypeOK' /\ Control'
  BY DEF Typing
<1> USE DEF SyncBlock, config, frame, table, flags, kernel
<1>1. TypeOK'
  BY OrderType, ConstAssumption
  DEF ConstAssumption, TypeOK, Control, SyncBlock, Goto, PCs, StartupPCs, MainPCs, ShutdownPCs, AtService, InBringUp, Modes
<1>2. Control'
  BY OrderType DEF TypeOK, Control, SyncBlock, Goto, PCs, StartupPCs, MainPCs, ShutdownPCs, AtService, InBringUp, Modes
<1>3. QED
  BY <1>1, <1>2

\* The end of child_handler with no child left keeps the types and the control invariant.
LEMMA AllTerminatedTyping == Typing /\ AllTerminated => Typing'
<1> SUFFICES ASSUME TypeOK, Control, AllTerminated PROVE TypeOK' /\ Control'
  BY DEF Typing
<1> USE DEF AllTerminated, config, frame, table, flags, kernel
<1>1. TypeOK'
  BY OrderType, ConstAssumption
  DEF ConstAssumption, TypeOK, Control, AllTerminated, Goto, NoChildLeft, PCs, StartupPCs, MainPCs, ShutdownPCs, AtService, InBringUp, Modes
<1>2. Control'
  BY OrderType DEF TypeOK, Control, AllTerminated, Goto, NoChildLeft, PCs, StartupPCs, MainPCs, ShutdownPCs, AtService, InBringUp, Modes
<1>3. QED
  BY <1>1, <1>2

\* The end of child_handler at its deadline keeps the types and the control invariant.
LEMMA PeriodOverTyping == Typing /\ PeriodOver => Typing'
<1> SUFFICES ASSUME TypeOK, Control, PeriodOver PROVE TypeOK' /\ Control'
  BY DEF Typing
<1> USE DEF PeriodOver, config, frame, table, flags, kernel
<1>1. TypeOK'
  BY OrderType, ConstAssumption
  DEF ConstAssumption, TypeOK, Control, PeriodOver, Goto, PCs, StartupPCs, MainPCs, ShutdownPCs, AtService, InBringUp, Modes
<1>2. Control'
  BY OrderType DEF TypeOK, Control, PeriodOver, Goto, PCs, StartupPCs, MainPCs, ShutdownPCs, AtService, InBringUp, Modes
<1>3. QED
  BY <1>1, <1>2

\* The end of the wait for readiness keeps the types and the control invariant.
LEMMA ReadyTimeoutTyping == Typing /\ ReadyTimeout => Typing'
<1> SUFFICES ASSUME TypeOK, Control, ReadyTimeout PROVE TypeOK' /\ Control'
  BY DEF Typing
<1> USE DEF ReadyTimeout, config, frame, table, flags, kernel
<1>1. TypeOK'
  BY OrderType, ConstAssumption
  DEF ConstAssumption, TypeOK, Control, ReadyTimeout, Goto, PCs, StartupPCs, MainPCs, ShutdownPCs, AtService, InBringUp, Modes
<1>2. Control'
  BY OrderType DEF TypeOK, Control, ReadyTimeout, Goto, PCs, StartupPCs, MainPCs, ShutdownPCs, AtService, InBringUp, Modes
<1>3. QED
  BY <1>1, <1>2

\* Going on to the next service of the start order keeps the types and the control invariant.
LEMMA AdvanceTyping == Typing /\ Advance => Typing'
<1> SUFFICES ASSUME TypeOK, Control, Advance PROVE TypeOK' /\ Control'
  BY DEF Typing
<1> USE DEF Advance, config, frame, table, flags, kernel
<1>1. TypeOK'
  BY OrderType, ConstAssumption
  DEF ConstAssumption, TypeOK, Control, Advance, Goto, PCs, StartupPCs, MainPCs, ShutdownPCs, AtService, InBringUp, Modes
<1>2. Control'
  BY OrderType DEF TypeOK, Control, Advance, Goto, PCs, StartupPCs, MainPCs, ShutdownPCs, AtService, InBringUp, Modes
<1>3. QED
  BY <1>1, <1>2

\* SIGTERM to everyone keeps the types and the control invariant.
LEMMA TermAllTyping == Typing /\ TermAll => Typing'
<1> SUFFICES ASSUME TypeOK, Control, TermAll PROVE TypeOK' /\ Control'
  BY DEF Typing
<1> USE DEF TermAll, config, frame, table, flags, kernel
<1>1. TypeOK'
  BY OrderType, ConstAssumption
  DEF ConstAssumption, TypeOK, Control, TermAll, Term, CallReap, Goto, PCs, StartupPCs, MainPCs, ShutdownPCs, AtService, InBringUp, Modes
<1>2. Control'
  BY OrderType DEF TypeOK, Control, TermAll, Term, CallReap, Goto, PCs, StartupPCs, MainPCs, ShutdownPCs, AtService, InBringUp, Modes
<1>3. QED
  BY <1>1, <1>2

\* SIGKILL to everyone keeps the types and the control invariant.
LEMMA KillAllTyping == Typing /\ KillAll => Typing'
<1> SUFFICES ASSUME TypeOK, Control, KillAll PROVE TypeOK' /\ Control'
  BY DEF Typing
<1> USE DEF KillAll, config, frame, table, flags, kernel
<1>1. TypeOK'
  BY OrderType, ConstAssumption
  DEF ConstAssumption, TypeOK, Control, KillAll, CallReap, Goto, PCs, StartupPCs, MainPCs, ShutdownPCs, AtService, InBringUp, Modes
<1>2. Control'
  BY OrderType DEF TypeOK, Control, KillAll, CallReap, Goto, PCs, StartupPCs, MainPCs, ShutdownPCs, AtService, InBringUp, Modes
<1>3. QED
  BY <1>1, <1>2

\* The arrival of an orphan keeps the types and the control invariant.
LEMMA OrphanTyping == Typing /\ Orphan => Typing'
<1> SUFFICES ASSUME TypeOK, Control, Orphan PROVE TypeOK' /\ Control'
  BY DEF Typing
<1> USE DEF Orphan, config, frame, table, flags, kernel
<1>1. TypeOK'
  BY OrderType, ConstAssumption
  DEF ConstAssumption, TypeOK, Control, Orphan, Free, PCs, StartupPCs, MainPCs, ShutdownPCs, AtService, InBringUp, Modes
<1>2. Control'
  BY OrderType DEF TypeOK, Control, Orphan, Free, PCs, StartupPCs, MainPCs, ShutdownPCs, AtService, InBringUp, Modes
<1>3. QED
  BY <1>1, <1>2

\* The passing of a deadline keeps the types and the control invariant.
LEMMA TimeoutTyping == Typing /\ Timeout => Typing'
<1> SUFFICES ASSUME TypeOK, Control, Timeout PROVE TypeOK' /\ Control'
  BY DEF Typing
<1> USE DEF Timeout, config, frame, table, flags, kernel
<1>1. TypeOK'
  BY OrderType, ConstAssumption
  DEF ConstAssumption, TypeOK, Control, Timeout, PCs, StartupPCs, MainPCs, ShutdownPCs, AtService, InBringUp, Modes
<1>2. Control'
  BY OrderType DEF TypeOK, Control, Timeout, PCs, StartupPCs, MainPCs, ShutdownPCs, AtService, InBringUp, Modes
<1>3. QED
  BY <1>1, <1>2

\* Leaving the main loop, main stands at the end of the start order.
LEMMA LeaveLoopType ==
  ASSUME TypeOK, LeaveLoop
  PROVE  /\ cur' = Len(order) /\ cur' \in Nat /\ pc' = "stop" /\ mode' = "stop"
         /\ exit_status' \in Codes \cup {1} /\ fifo' \in Seq(Commands)
<1>1. << >> \in Seq(Commands)
  BY EmptySeq
<1>2. QED
  BY <1>1, OrderType DEF TypeOK, LeaveLoop, LastService, FinalStatus, Goto

\* The head of the main loop keeps the types and the control invariant.
LEMMA LoopHeadTyping == Typing /\ LoopHead => Typing'
<1> SUFFICES ASSUME TypeOK, Control, LoopHead PROVE TypeOK' /\ Control'
  BY DEF Typing
<1> USE DEF LoopHead, config, frame, table, flags, kernel
<1>1. CASE LeaveLoop /\ UNCHANGED timer
  <2>1. TypeOK'
    BY <1>1, LeaveLoopType DEF TypeOK, PCs, ShutdownPCs, Modes
  <2>2. Control'
    BY <1>1, LeaveLoopType, OrderType
    DEF TypeOK, Control, PCs, StartupPCs, MainPCs, ShutdownPCs, AtService, InBringUp, Modes
  <2>3. QED
    BY <2>1, <2>2
<1>2. CASE CallReap("main") /\ UNCHANGED <<cur, exit_status, fifo>>
  BY <1>2, OrderType
  DEF TypeOK, Control, CallReap, Goto, PCs, StartupPCs, MainPCs, ShutdownPCs, AtService, InBringUp, Modes
<1>3. QED
  BY <1>1, <1>2

\* The decision after the reaping keeps the types and the control invariant.
LEMMA AfterReapTyping == Typing /\ AfterReap => Typing'
<1> SUFFICES ASSUME TypeOK, Control, AfterReap PROVE TypeOK' /\ Control'
  BY DEF Typing
<1> USE DEF AfterReap, config, frame, table, flags, kernel
<1>1. ASSUME LeaveLoop, \/ UNCHANGED <<do_shutdown, cause>>
                        \/ RequestShutdown("idle", 0)
      PROVE  TypeOK' /\ Control'
  <2>1. do_shutdown' \in BOOLEAN /\ cause' \in Causes
    BY <1>1, RequestShutdownType, ConstAssumption DEF ConstAssumption, TypeOK, Causes
  <2>2. TypeOK'
    BY <1>1, <2>1, LeaveLoopType DEF TypeOK, PCs, ShutdownPCs, Modes, Causes
  <2>3. Control'
    BY <1>1, LeaveLoopType, OrderType
    DEF TypeOK, Control, PCs, StartupPCs, MainPCs, ShutdownPCs, AtService, InBringUp, Modes
  <2>4. QED
    BY <2>2, <2>3
<1>2. CASE /\ Goto("intervals") /\ cur' = 1
           /\ UNCHANGED <<mode, exit_status, fifo, do_shutdown, cause>>
  BY <1>2, OrderType
  DEF TypeOK, Control, Goto, PCs, StartupPCs, MainPCs, ShutdownPCs, AtService, InBringUp, Modes
<1>3. QED
  BY <1>1, <1>2

\* The end of handle_killed keeps the types and the control invariant.
LEMMA FinishKilledTyping == Typing /\ FinishKilled => Typing'
<1> SUFFICES ASSUME TypeOK, Control, FinishKilled PROVE TypeOK' /\ Control'
  BY DEF Typing
<1> USE DEF FinishKilled, config, frame, table, flags, kernel
<1>1. PICK interrupted \in BOOLEAN :
        /\ RunHelper(interrupted, proc)
        /\ \/ RequestShutdown("signal", 0) /\ UNCHANGED exit_code
           \/ RequestShutdown("service", killed.code) /\ exit_code' = killed.code
           \/ UNCHANGED <<do_shutdown, cause, exit_code>>
  OBVIOUS
<1>2. /\ proc' \in [Pids -> {"free", "alive", "termed", "zombie"}]
      /\ signals' \in 0 .. MaxSignals
  BY <1>1, RunHelperType DEF TypeOK
<1>3. do_shutdown' \in BOOLEAN /\ cause' \in Causes /\ exit_code' \in Codes
  <2>1. killed.code \in Codes /\ 0 \in Codes
    BY ConstAssumption DEF ConstAssumption, TypeOK
  <2>2. QED
    BY <1>1, <2>1, RequestShutdownType DEF TypeOK, Causes
<1>4. killed' \in [sid : Sids \cup {0}, code : Codes]
  BY ConstAssumption DEF ConstAssumption, NoKill
<1>5. TypeOK'
  BY <1>2, <1>3, <1>4 DEF TypeOK, Control, Goto, Causes, PCs, StartupPCs
<1>6. Control'
  BY DEF TypeOK, Control, Goto, PCs, StartupPCs, MainPCs, ShutdownPCs, AtService, InBringUp, Modes
<1>7. QED
  BY <1>5, <1>6

\* One round of child_handler keeps the types and the control invariant.
LEMMA ReapZombieTyping ==
  ASSUME NEW p \in Pids, Typing, ReapZombie(p)
  PROVE  Typing'
<1> USE DEF ReapZombie, config, frame, table, flags, kernel
<1>1. TypeOK'
  BY ReapType DEF Typing, TypeOK, PCs
<1>2. Control'
  BY ReapType
  DEF Typing, TypeOK, Control, PCs, StartupPCs, MainPCs, ShutdownPCs, AtService, InBringUp, Modes
<1>3. QED
  BY <1>1, <1>2 DEF Typing

\* The end of a synchronous service keeps the types and the control invariant.
LEMMA SyncEndsTyping == Typing /\ SyncEnds => Typing'
<1> SUFFICES ASSUME TypeOK, Control, SyncEnds PROVE TypeOK' /\ Control'
  BY DEF Typing
<1> USE DEF SyncEnds, config, frame, table, flags, kernel
<1> DEFINE p == pid[order[cur]]
<1>1. p \in Pids
  BY OrderType DEF TypeOK, Control, AtService, StartupPCs
<1>2. PICK back \in {"up_done", "catch", "reap"} : Reap(p, back)
  OBVIOUS
<1> HIDE DEF p
<1>3. TypeOK'
  BY <1>1, <1>2, ReapType DEF TypeOK, PCs
<1>4. Control'
  BY <1>1, <1>2, ReapType
  DEF TypeOK, Control, PCs, StartupPCs, MainPCs, ShutdownPCs, AtService, InBringUp, Modes
<1>5. QED
  BY <1>3, <1>4

\* The wait for the minimum uptime keeps the types and the control invariant.
LEMMA UptimeTyping == Typing /\ Uptime => Typing'
<1> SUFFICES ASSUME TypeOK, Control, Uptime PROVE TypeOK' /\ Control'
  BY DEF Typing
<1> USE DEF Uptime, config, frame, table, flags, kernel
<1>1. CASE /\ pc' \in {"up_skip", "ready", "up_done", "catch"} /\ timer' \in BOOLEAN
           /\ UNCHANGED <<ret, killed, table, kernel>>
  BY <1>1, OrderType
  DEF TypeOK, Control, PCs, StartupPCs, MainPCs, ShutdownPCs, AtService, InBringUp, Modes
<1>2. CASE Reap(pid[order[cur]], "catch") /\ UNCHANGED <<timer, due>>
  <2>1. pid[order[cur]] \in Pids
    BY OrderType DEF TypeOK, Control, AtService, StartupPCs
  <2>2. TypeOK'
    BY <1>2, <2>1, ReapType DEF TypeOK, PCs
  <2>3. Control'
    BY <1>2, <2>1, ReapType
    DEF TypeOK, Control, PCs, StartupPCs, MainPCs, ShutdownPCs, AtService, InBringUp, Modes
  <2>4. QED
    BY <2>2, <2>3
<1>3. QED
  BY <1>1, <1>2 DEF TypeOK, Goto

\* A round of the readiness wait keeps the types and the control invariant.
LEMMA ProbeReadyTyping == Typing /\ ProbeReady => Typing'
<1> SUFFICES ASSUME TypeOK, Control, ProbeReady PROVE TypeOK' /\ Control'
  BY DEF Typing
<1> USE DEF ProbeReady, config, frame, table, flags, kernel
<1>1. /\ proc' \in [Pids -> {"free", "alive", "termed", "zombie"}]
      /\ signals' \in 0 .. MaxSignals
  BY RunHelperType DEF TypeOK
<1>2. do_shutdown' \in BOOLEAN /\ cause' \in Causes
  BY RequestShutdownType, ConstAssumption DEF ConstAssumption, TypeOK, Causes
<1>3. pc' \in {"catch", "up_done", "up_skip", "ready"}
  BY DEF Goto
<1>4. TypeOK'
  BY <1>1, <1>2, <1>3 DEF TypeOK, Causes, PCs, StartupPCs
<1>5. Control'
  BY <1>3, OrderType
  DEF TypeOK, Control, PCs, StartupPCs, MainPCs, ShutdownPCs, AtService, InBringUp, Modes
<1>6. QED
  BY <1>4, <1>5

\* A failed start keeps the types and the control invariant.
LEMMA StartFailedTyping == Typing /\ StartFailed => Typing'
<1> SUFFICES ASSUME TypeOK, Control, StartFailed PROVE TypeOK' /\ Control'
  BY DEF Typing
<1> USE DEF StartFailed, config, frame, table, flags, kernel
<1>1. /\ do_shutdown' \in BOOLEAN /\ cause' \in Causes
      /\ exit_code' \in Codes /\ exit_status' \in Codes \cup {1}
  BY RequestShutdownType, ConstAssumption DEF ConstAssumption, TypeOK, Causes
<1>2. /\ pc' \in {"up", "loop"} /\ cur' \in Nat
      /\ pc' = "up" => cur' >= 1
  BY OrderType DEF Goto, TypeOK
<1>3. TypeOK'
  BY <1>1, <1>2 DEF TypeOK, Causes, PCs, StartupPCs, MainPCs
<1>4. Control'
  BY <1>2 DEF TypeOK, Control, PCs, StartupPCs, MainPCs, ShutdownPCs, AtService, InBringUp, Modes
<1>5. QED
  BY <1>3, <1>4

\* The head of the start loop keeps the types and the control invariant: a
\* position that is chosen is one of the order.
LEMMA NextServiceTyping == Typing /\ NextService => Typing'
<1> SUFFICES ASSUME TypeOK, Control, NextService PROVE TypeOK' /\ Control'
  BY DEF Typing
<1> USE DEF NextService, Goto, config, frame, table, flags, kernel
<1>1. CASE pc' \in {"loop", "up"} /\ cur' >= 1 /\ cur' \in Nat
  BY <1>1, OrderType
  DEF TypeOK, Control, PCs, StartupPCs, MainPCs, ShutdownPCs, AtService, InBringUp, Modes
<1>2. CASE pc' = "start" /\ cur' = cur /\ ~EndOfBringUp
  <2>1. cur \in DOMAIN order
    BY <1>2, OrderType DEF EndOfBringUp, TypeOK, Control
  <2>2. QED
    BY <1>2, <2>1, OrderType
    DEF TypeOK, Control, PCs, StartupPCs, MainPCs, ShutdownPCs, AtService, InBringUp, Modes
<1>3. QED
  BY <1>1, <1>2 DEF TypeOK, Control

\* The start of the chosen service keeps them too: a service that is waited
\* for has its process.
LEMMA StartNextTyping == Typing /\ StartNext => Typing'
<1> SUFFICES ASSUME TypeOK, Control, StartNext PROVE TypeOK' /\ Control'
  BY DEF Typing
<1> USE DEF StartNext, Goto, config, frame, flags
<1> DEFINE s == order[cur]
<1>1. cur \in DOMAIN order /\ order[cur] \in Sids
  BY OrderType DEF TypeOK, Control, AtService, StartupPCs
<1>2. PICK ok \in BOOLEAN :
        /\ start_service(s, ok)
        /\ pc' = IF ~ok THEN "catch"
                 ELSE IF cfg[s].sync THEN "sync"
                 ELSE IF cfg[s].interval THEN "up_done" ELSE "uptime"
  OBVIOUS
<1>3. StartedType(s, ok)
  BY <1>1, <1>2, StartServiceType
<1> HIDE DEF s
<1>4. pc' \in {"catch", "sync", "up_done", "uptime"}
  BY <1>2
<1>5. TypeOK'
  BY <1>3, <1>4 DEF TypeOK, PCs, StartupPCs, StartedType
<1>6. pc' \in {"sync", "uptime"} => pid'[s] # NoPid
  BY <1>2, <1>3 DEF StartedType
<1>7. Control'
  BY <1>1, <1>4, <1>6 DEF s, TypeOK, Control, PCs, StartupPCs, MainPCs, ShutdownPCs, AtService, InBringUp, Modes
<1>8. QED
  BY <1>5, <1>7

\* The loop over interval services keeps the types and the control invariant.
LEMMA IntervalsTyping == Typing /\ Intervals => Typing'
<1> SUFFICES ASSUME TypeOK, Control, Intervals PROVE TypeOK' /\ Control'
  BY DEF Typing
<1> USE DEF Intervals, config, frame, table, flags, kernel
<1>1. /\ pc' \in {"intervals", "restarts", "fifo"} /\ cur' \in Nat /\ cur' >= 1
  BY DEF Goto, TypeOK, Control
<1>2. \/ /\ UNCHANGED <<pid, logger_started, proc, owner>>
         /\ due' \in [Sids -> BOOLEAN] /\ UNCHANGED restart_requested
      \/ /\ cur \in Sids
         /\ \E ok \in BOOLEAN : start_service(cur, ok)
         /\ restart_requested' \in [Sids -> BOOLEAN]
  <2>1. cur > NSRV \/ cur \in Sids
    BY ConstAssumption DEF ConstAssumption, Sids, TypeOK, Control
  <2>2. CASE cur > NSRV
    BY <2>2 DEF TypeOK
  <2>3. CASE cur \in Sids /\ ~(cur > NSRV)
    BY <2>3 DEF TypeOK
  <2>4. QED
    BY <2>1, <2>2, <2>3
<1>3. /\ pid' \in [Sids -> Pids \cup {NoPid}]
      /\ logger_started' \in [Sids -> BOOLEAN]
      /\ due' \in [Sids -> BOOLEAN]
      /\ proc' \in [Pids -> {"free", "alive", "termed", "zombie"}]
      /\ owner' \in [Pids -> Sids \cup {0}]
      /\ restart_requested' \in [Sids -> BOOLEAN]
  BY <1>2, StartServiceType DEF TypeOK, StartedType
<1>4. TypeOK'
  BY <1>1, <1>3 DEF TypeOK, PCs, MainPCs
<1>5. Control'
  BY <1>1 DEF TypeOK, Control, PCs, StartupPCs, MainPCs, ShutdownPCs, AtService, InBringUp, Modes
<1>6. QED
  BY <1>4, <1>5

\* The loop over services to restart keeps the types and the control invariant.
LEMMA RestartsTyping == Typing /\ Restarts => Typing'
<1> SUFFICES ASSUME TypeOK, Control, Restarts PROVE TypeOK' /\ Control'
  BY DEF Typing
<1> USE DEF Restarts, config, frame, table, flags, kernel
<1>1. /\ pc' \in {"intervals", "restarts", "fifo"} /\ cur' \in Nat /\ cur' >= 1
  BY DEF Goto, TypeOK, Control
<1>2. \/ /\ UNCHANGED <<pid, logger_started, proc, owner>>
         /\ due' \in [Sids -> BOOLEAN] /\ UNCHANGED restart_requested
      \/ /\ cur \in Sids
         /\ \E ok \in BOOLEAN : start_service(cur, ok)
         /\ restart_requested' \in [Sids -> BOOLEAN]
  <2>1. cur > NSRV \/ cur \in Sids
    BY ConstAssumption DEF ConstAssumption, Sids, TypeOK, Control
  <2>2. CASE cur > NSRV
    BY <2>2 DEF TypeOK
  <2>3. CASE cur \in Sids /\ ~(cur > NSRV)
    <3>1. CASE UNCHANGED <<table, proc, owner, restart_requested>>
      BY <3>1 DEF TypeOK
    <3>2. ASSUME NEW ok \in BOOLEAN, start_service(cur, ok),
                 restart_requested' = IF ok THEN [restart_requested EXCEPT ![cur] = FALSE]
                                            ELSE restart_requested
          PROVE  start_service(cur, ok) /\ restart_requested' \in [Sids -> BOOLEAN]
      BY <2>3, <3>2 DEF TypeOK
    <3>3. QED
      BY <2>3, <3>1, <3>2
  <2>4. QED
    BY <2>1, <2>2, <2>3
<1>3. /\ pid' \in [Sids -> Pids \cup {NoPid}]
      /\ logger_started' \in [Sids -> BOOLEAN]
      /\ due' \in [Sids -> BOOLEAN]
      /\ proc' \in [Pids -> {"free", "alive", "termed", "zombie"}]
      /\ owner' \in [Pids -> Sids \cup {0}]
      /\ restart_requested' \in [Sids -> BOOLEAN]
  BY <1>2, StartServiceType DEF TypeOK, StartedType
<1>4. TypeOK'
  BY <1>1, <1>3 DEF TypeOK, PCs, MainPCs
<1>5. Control'
  BY <1>1 DEF TypeOK, Control, PCs, StartupPCs, MainPCs, ShutdownPCs, AtService, InBringUp, Modes
<1>6. QED
  BY <1>4, <1>5

\* Reading the command FIFO keeps the types and the control invariant.
LEMMA CommandTyping == Typing /\ Command => Typing'
<1> SUFFICES ASSUME TypeOK, Control, Command PROVE TypeOK' /\ Control'
  BY DEF Typing
<1> USE DEF Command, config, frame, table, flags, kernel
<1>1. pc' \in {"loop", "aborted"} /\ fifo' \in Seq(Commands)
  BY EmptySeq DEF Goto
<1>2. \/ UNCHANGED <<restart_requested, proc, signals, do_shutdown, cause>>
      \/ /\ \E s \in Sids, ok \in BOOLEAN : stop_service(s, ok)
         /\ restart_requested' \in [Sids -> BOOLEAN]
  <2>1. CASE UNCHANGED <<restart_requested, proc, signals, do_shutdown, cause>>
    BY <2>1
  <2>2. ASSUME NEW s \in Sids, NEW ok \in BOOLEAN, stop_service(s, ok),
               restart_requested' = IF ok THEN [restart_requested EXCEPT ![s] = TRUE]
                                          ELSE restart_requested
        PROVE  /\ stop_service(s, ok)
               /\ restart_requested' \in [Sids -> BOOLEAN]
    BY <2>2 DEF TypeOK
  <2>3. QED
    BY <2>1, <2>2
<1>3. TypeOK'
  <2>1. /\ proc' \in [Pids -> {"free", "alive", "termed", "zombie"}]
        /\ signals' \in 0 .. MaxSignals
        /\ do_shutdown' \in BOOLEAN /\ cause' \in Causes
        /\ restart_requested' \in [Sids -> BOOLEAN]
    BY <1>2, StopServiceType DEF TypeOK, Causes
  <2>2. QED
    BY <1>1, <2>1 DEF TypeOK, PCs, MainPCs, Causes
<1>4. Control'
  BY <1>1 DEF TypeOK, Control, PCs, StartupPCs, MainPCs, ShutdownPCs, AtService, InBringUp, Modes
<1>5. QED
  BY <1>3, <1>4

\* Stopping the services one by one keeps the types and the control invariant.
LEMMA StopServicesTyping == Typing /\ StopServices => Typing'
<1> SUFFICES ASSUME TypeOK, Control, StopServices PROVE TypeOK' /\ Control'
  BY DEF Typing
<1> USE DEF StopServices, config, frame, table, flags, kernel
<1>1. CASE cur = 0
  BY <1>1 DEF CallReap, Goto, TypeOK, Control, PCs, StartupPCs, MainPCs, ShutdownPCs, AtService, InBringUp, Modes
<1>2. CASE cur # 0 /\ cur' = cur - 1 /\ UNCHANGED <<pc, mode, timer, proc, signals, do_shutdown, cause>>
  BY <1>2, OrderType DEF TypeOK, Control, PCs, StartupPCs, MainPCs, ShutdownPCs, AtService, InBringUp, Modes
<1>3. ASSUME cur # 0, NEW ok \in BOOLEAN, stop_service(order[cur], ok), CallReap("stop"), UNCHANGED cur
      PROVE  TypeOK' /\ Control'
  <2>1. cur \in DOMAIN order /\ order[cur] \in Sids
    BY <1>3, OrderType DEF TypeOK, Control
  <2> DEFINE s == order[cur]
  <2>2. TypeOK'
    <3>1. s \in Sids /\ stop_service(s, ok)
      BY <1>3, <2>1
    <3> HIDE DEF s
    <3>2. /\ proc' \in [Pids -> {"free", "alive", "termed", "zombie"}]
          /\ signals' \in 0 .. MaxSignals
          /\ do_shutdown' \in BOOLEAN /\ cause' \in Causes
      BY <3>1, StopServiceType
    <3>3. pc' = "reap" /\ mode' = "stop" /\ timer' = FALSE
      BY <1>3 DEF CallReap, Goto
    <3>4. QED
      BY <1>3, <3>2, <3>3 DEF TypeOK, PCs, Modes, Causes
  <2>3. Control'
    BY <1>3, <2>1 DEF CallReap, Goto, TypeOK, Control, PCs, StartupPCs, MainPCs, ShutdownPCs, AtService, InBringUp, Modes
  <2>4. QED
    BY <2>2, <2>3
<1>4. QED
  BY <1>1, <1>2, <1>3

\* The end of a process keeps the types and the control invariant.
LEMMA DieTyping ==
  ASSUME NEW p \in Pids, Typing, Die(p)
  PROVE  Typing'
<1> USE DEF Die, config, frame, table, flags, kernel
<1>1. TypeOK'
  BY DEF Typing, TypeOK
<1>2. Control'
  BY DEF Typing, TypeOK, Control, PCs, StartupPCs, MainPCs, ShutdownPCs, AtService, InBringUp, Modes
<1>3. QED
  BY <1>1, <1>2 DEF Typing

\* A signal keeps the types and the control invariant.
LEMMA SignalTyping == Typing /\ Signal => Typing'
<1> SUFFICES ASSUME TypeOK, Control, Signal PROVE TypeOK' /\ Control'
  BY DEF Typing
<1> USE DEF Signal, config, frame, table, flags, kernel
<1>1. signals' \in 0 .. MaxSignals
  BY ConstAssumption DEF ConstAssumption, TypeOK
<1>2. do_shutdown' \in BOOLEAN /\ cause' \in Causes
  BY RequestShutdownType, ConstAssumption DEF ConstAssumption
<1>3. \/ pc = "sync_blocked" /\ pc' = "up_skip"
      \/ pc' = pc
  OBVIOUS
<1>4. TypeOK'
  BY <1>1, <1>2, <1>3 DEF TypeOK, Causes, PCs, StartupPCs
<1>5. Control'
  BY <1>3 DEF TypeOK, Control, PCs, StartupPCs, MainPCs, ShutdownPCs, AtService, InBringUp, Modes
<1>6. QED
  BY <1>4, <1>5

\* A write to the FIFO keeps the types and the control invariant.
LEMMA WriteTyping == Typing /\ Write => Typing'
<1> SUFFICES ASSUME TypeOK, Control, Write PROVE TypeOK' /\ Control'
  BY DEF Typing
<1> USE DEF Write, config, frame, table, flags, kernel
<1>1. fifo' \in Seq(Commands)
  BY AppendProperties DEF TypeOK
<1>2. TypeOK'
  BY <1>1 DEF TypeOK
<1>3. Control'
  BY DEF TypeOK, Control, PCs, StartupPCs, MainPCs, ShutdownPCs, AtService, InBringUp, Modes
<1>4. QED
  BY <1>2, <1>3

\* The passing of an interval keeps the types and the control invariant.
LEMMA DueTyping ==
  ASSUME NEW s \in Sids, Typing, Due(s)
  PROVE  Typing'
<1> USE DEF Due, config, frame, table, flags, kernel
<1>1. TypeOK'
  BY DEF Typing, TypeOK
<1>2. Control'
  BY DEF Typing, TypeOK, Control, PCs, StartupPCs, MainPCs, ShutdownPCs, AtService, InBringUp, Modes
<1>3. QED
  BY <1>1, <1>2 DEF Typing

\* Every step of cinit keeps the types and the control invariant.
LEMMA NextTyping == Typing /\ [Next]_vars => Typing'
<1> SUFFICES ASSUME Typing, [Next]_vars PROVE Typing'
  OBVIOUS
<1>1. CASE start_services
  BY <1>1, NextServiceTyping, StartNextTyping, SyncBlockTyping, SyncEndsTyping, UptimeTyping, ProbeReadyTyping,
     ReadyTimeoutTyping, AdvanceTyping, StartFailedTyping
  DEF start_services
<1>2. CASE child_handler
  BY <1>2, ReapZombieTyping, FinishKilledTyping, AllTerminatedTyping, PeriodOverTyping
  DEF child_handler
<1>3. CASE main_loop
  BY <1>3, LoopHeadTyping, AfterReapTyping, IntervalsTyping, RestartsTyping, CommandTyping
  DEF main_loop
<1>4. CASE cinit_shutdown
  BY <1>4, StopServicesTyping, TermAllTyping, KillAllTyping DEF cinit_shutdown
<1>5. CASE Environment
  BY <1>5, DieTyping, DueTyping, OrphanTyping, SignalTyping, WriteTyping, TimeoutTyping
  DEF Environment
<1>6. CASE UNCHANGED vars
  BY <1>6
  DEF vars, config, frame, table, flags, kernel, Typing, TypeOK, Control, PCs, StartupPCs, MainPCs, ShutdownPCs, AtService, InBringUp, Modes
<1>7. QED
  BY <1>1, <1>2, <1>3, <1>4, <1>5, <1>6 DEF Next, Main

\* Every variable of the supervisor keeps its type, whatever services are
\* loaded and in whatever order signals, deaths and commands arrive.
THEOREM TypeCorrect == Spec => []TypeOK
<1>1. Spec => []Typing
  BY InitTyping, NextTyping, PTL DEF Spec
<1>2. Typing => TypeOK
  BY DEF Typing
<1>3. QED
  BY <1>1, <1>2, PTL

\* The main thread never indexes the start order out of its range, never waits
\* for a service that has no process, and returns from handle_killed to where
\* it was called.
THEOREM ControlCorrect == Spec => []Control
<1>1. Spec => []Typing
  BY InitTyping, NextTyping, PTL DEF Spec
<1>2. Typing => Control
  BY DEF Typing
<1>3. QED
  BY <1>1, <1>2, PTL

-----------------------------------------------------------------------------
(* The table of services against the process table of the kernel: no process *)
(* of a service is lost, none is named twice, and none is left at the exit.  *)

\* PidOwned and LoggerBesideProcess are not inductive: a pid that is handed
\* out again must not be remembered as some service's.
Owned == /\ PidOwned /\ LoggerBesideProcess
         /\ \A p \in Free : owner[p] = 0

\* Once main has learnt that no child is left, it is true until it forks.
NoneLeft == pc \in {"loop_all", "exited"} => Children = {}

Inv == Typing /\ Owned /\ NoneLeft

\* Nothing of what the table names changes as long as the same pids are in use.
LEMMA SamePidsOwned ==
  ASSUME TypeOK, TypeOK', Owned, UNCHANGED <<pid, logger_started, owner>>,
         \A p \in Pids : proc'[p] = "free" <=> proc[p] = "free"
  PROVE  Owned'
BY DEF Owned, PidOwned, LoggerBesideProcess, Free, Children

\* A new process of no service takes nothing from any service.
LEMMA StrayOwned ==
  ASSUME TypeOK, TypeOK', Owned, UNCHANGED <<pid, logger_started, owner>>,
         NEW q \in Free,
         \A p \in Pids \ {q} : proc'[p] = "free" <=> proc[p] = "free",
         proc'[q] # "free"
  PROVE  Owned'
<1>1. /\ PidOwned' /\ LoggerBesideProcess'
  BY DEF Owned, PidOwned, LoggerBesideProcess, Free, Children
<1>2. (\A p \in Free : owner[p] = 0)'
  BY DEF Owned, Free
<1>3. QED
  BY <1>1, <1>2 DEF Owned

\* start_service names the process it forks, and only that one, in the entry.
LEMMA StartOwned ==
  ASSUME TypeOK, TypeOK', Owned, NEW s \in Sids, NEW ok \in BOOLEAN, start_service(s, ok)
  PROVE  Owned'
<1>1. CASE UNCHANGED <<table, proc, owner>>
  BY <1>1, SamePidsOwned DEF table
<1>2. ASSUME pid[s] = NoPid, NEW p \in Free,
             proc' = [proc EXCEPT ![p] = "alive"],
             owner' = [owner EXCEPT ![p] = s],
             pid' = [pid EXCEPT ![s] = p],
             logger_started' = [logger_started EXCEPT ![s] = ok]
      PROVE  Owned'
  <2>1. p \in Pids /\ p # NoPid /\ proc[p] = "free"
    BY ConstAssumption DEF ConstAssumption, Free
  <2>2. \A t \in Sids : pid[t] # p
    BY <2>1 DEF Owned, PidOwned, Children
  <2>3. /\ proc'[p] = "alive" /\ owner'[p] = s /\ pid'[s] = p
        /\ \A q \in Pids \ {p} : proc'[q] = proc[q] /\ owner'[q] = owner[q]
        /\ \A t \in Sids \ {s} : pid'[t] = pid[t] /\ logger_started'[t] = logger_started[t]
    BY <1>2, <2>1 DEF TypeOK
  <2>4. Free' = Free \ {p} /\ Children' = Children \cup {p}
    BY <2>1, <2>3 DEF Free, Children
  <2>5. \A q \in Children : owner[q] # s
    BY <1>2, ConstAssumption DEF ConstAssumption, Owned, PidOwned, Children, Sids
  <2>6. \A t \in Sids : pid'[t] # NoPid => pid'[t] \in Children' /\ owner'[pid'[t]] = t
    BY <2>2, <2>3, <2>4 DEF Owned, PidOwned, Children
  <2>7. \A q \in Children' : owner'[q] # 0 => pid'[owner'[q]] = q
    BY <2>1, <2>3, <2>4, <2>5 DEF Owned, PidOwned, Children, TypeOK
  <2>8. LoggerBesideProcess'
    BY <2>1, <2>3 DEF Owned, LoggerBesideProcess
  <2>9. \A q \in Free' : owner'[q] = 0
    BY <2>3, <2>4 DEF Owned, Free
  <2>10. QED
    BY <2>6, <2>7, <2>8, <2>9 DEF Owned, PidOwned
<1>3. QED
  BY <1>1, <1>2 DEF start_service, table

\* A helper program changes no service's process.
LEMMA RunHelperOwned ==
  ASSUME TypeOK, TypeOK', Owned, UNCHANGED <<pid, logger_started, owner>>,
         NEW next \in [Pids -> {"free", "alive", "termed", "zombie"}],
         \A p \in Pids : next[p] = "free" <=> proc[p] = "free",
         NEW interrupted \in BOOLEAN, RunHelper(interrupted, next)
  PROVE  Owned'
<1>1. CASE proc' = next
  BY <1>1, SamePidsOwned
<1>2. ASSUME NEW q \in Free, proc' = [next EXCEPT ![q] = "alive"]
      PROVE  Owned'
  BY <1>2, StrayOwned DEF Free
<1>3. QED
  BY <1>1, <1>2 DEF RunHelper

\* stop_service only sends signals.
LEMMA StopServiceOwned ==
  ASSUME TypeOK, TypeOK', Owned, UNCHANGED <<pid, logger_started, owner>>,
         NEW s \in Sids, NEW ok \in BOOLEAN, stop_service(s, ok)
  PROVE  Owned'
<1>1. CASE UNCHANGED proc
  BY <1>1, SamePidsOwned
<1>2. ASSUME NEW interrupted \in BOOLEAN, RunHelper(interrupted, Term(proc, {pid[s]}))
      PROVE  Owned'
  <2>1. /\ Term(proc, {pid[s]}) \in [Pids -> {"free", "alive", "termed", "zombie"}]
        /\ \A p \in Pids : Term(proc, {pid[s]})[p] = "free" <=> proc[p] = "free"
    BY DEF Term, TypeOK
  <2>2. QED
    BY <1>2, <2>1, RunHelperOwned
<1>3. QED
  BY <1>1, <1>2 DEF stop_service

\* The process that is reaped is the one the entry names, and only that entry
\* is cleared.
LEMMA ReapOwned ==
  ASSUME TypeOK, TypeOK', Owned, NEW p \in Pids, NEW back, proc[p] # "free", Reap(p, back)
  PROVE  Owned'
<1>1. /\ proc'[p] = "free" /\ owner'[p] = 0
      /\ \A q \in Pids \ {p} : proc'[q] = proc[q] /\ owner'[q] = owner[q]
  BY DEF Reap, TypeOK
<1>2. Free' = Free \cup {p} /\ Children' = Children \ {p} /\ p \in Children
  BY <1>1 DEF Free, Children
<1>3. \A q \in Free' : owner'[q] = 0
  BY <1>1, <1>2 DEF Owned, Free
<1>4. CASE p \in Strays /\ UNCHANGED <<pid, logger_started>>
  <2>1. \A s \in Sids : pid[s] # p
    BY <1>4 DEF Strays
  <2>2. PidOwned' /\ LoggerBesideProcess'
    BY <1>1, <1>2, <1>4, <2>1 DEF Owned, PidOwned, LoggerBesideProcess, Children, TypeOK
  <2>3. QED
    BY <1>3, <2>2 DEF Owned
<1>5. ASSUME NEW s \in Sids, pid[s] = p, pid' = [pid EXCEPT ![s] = NoPid],
             logger_started' = [logger_started EXCEPT ![s] = FALSE]
      PROVE  Owned'
  <2>1. owner[p] = s /\ p # NoPid
    BY <1>5, ConstAssumption DEF ConstAssumption, Owned, PidOwned
  <2>2. /\ pid'[s] = NoPid /\ ~logger_started'[s]
        /\ \A t \in Sids \ {s} : pid'[t] = pid[t] /\ logger_started'[t] = logger_started[t]
    BY <1>5 DEF TypeOK
  <2>3. \A t \in Sids \ {s} : pid[t] # p
    BY <2>1 DEF Owned, PidOwned
  <2>4. \A t \in Sids : pid'[t] # NoPid => pid'[t] \in Children' /\ owner'[pid'[t]] = t
    BY <1>1, <1>2, <2>2, <2>3 DEF Owned, PidOwned, Children
  <2>5. \A q \in Children' : owner'[q] # 0 => pid'[owner'[q]] = q
    BY <1>1, <1>2, <1>5, <2>1, <2>2 DEF Owned, PidOwned, Children, TypeOK
  <2>6. LoggerBesideProcess'
    BY <2>2 DEF Owned, LoggerBesideProcess
  <2>7. QED
    BY <1>3, <2>4, <2>5, <2>6 DEF Owned, PidOwned
<1>6. QED
  BY <1>4, <1>5 DEF Reap, ClearedPid, JoinedLogger

-----------------------------------------------------------------------------
\* One lemma per group of actions: those of the main thread that leave the
\* process table alone, ...
LEMMA QuietOwned ==
  ASSUME Typing, Typing', Owned,
         \/ NextService \/ SyncBlock \/ AllTerminated \/ PeriodOver \/ ReadyTimeout \/ Advance
         \/ StartFailed \/ LoopHead \/ AfterReap \/ Write \/ Timeout
         \/ (\E s \in Sids : Due(s)) \/ Signal \/ UNCHANGED vars
  PROVE  Owned'
<1>1. UNCHANGED <<pid, logger_started, proc, owner>>
  BY DEF NextService, SyncBlock, AllTerminated, PeriodOver, ReadyTimeout, Advance, StartFailed, LoopHead,
         AfterReap, Write, Timeout, Due, Signal, vars, table, kernel
<1>2. QED
  BY <1>1, SamePidsOwned DEF Typing

\* ... those that fork the process of a service, ...
LEMMA StartingOwned ==
  ASSUME Typing, Typing', Owned, StartNext \/ Intervals \/ Restarts
  PROVE  Owned'
<1>1. CASE UNCHANGED <<pid, logger_started, proc, owner>>
  BY <1>1, SamePidsOwned DEF Typing
<1>2. CASE \E s \in Sids, ok \in BOOLEAN : start_service(s, ok)
  BY <1>2, StartOwned DEF Typing
<1>3. CASE StartNext
  <2>1. order[cur] \in Sids
    BY <1>3, OrderType DEF StartNext, Typing, TypeOK, Control, AtService, StartupPCs
  <2>2. QED
    BY <1>2, <1>3, <2>1 DEF StartNext
<1>4. CASE Intervals \/ Restarts
  <2>1. cur > NSRV \/ cur \in Sids
    BY <1>4, ConstAssumption
    DEF ConstAssumption, Intervals, Restarts, Sids, Typing, TypeOK, Control
  <2>2. QED
    BY <1>1, <1>2, <1>4, <2>1 DEF Intervals, Restarts, table
<1>5. QED
  BY <1>3, <1>4

\* ... those that reap, ...
LEMMA ReapingOwned ==
  ASSUME Typing, Typing', Owned, SyncEnds \/ Uptime \/ \E p \in Pids : ReapZombie(p)
  PROVE  Owned'
<1>1. CASE \E p \in Pids : ReapZombie(p)
  BY <1>1, ReapOwned DEF ReapZombie, Reapable, Zombies, Typing
<1>2. CASE SyncEnds \/ Uptime
  <2>1. pid[order[cur]] \in Pids
    BY <1>2, OrderType DEF SyncEnds, Uptime, Typing, TypeOK, Control, AtService, StartupPCs
  <2>2. CASE UNCHANGED <<pid, logger_started, proc, owner>>
    BY <2>2, SamePidsOwned DEF Typing
  <2>3. ASSUME NEW back, proc[pid[order[cur]]] = "zombie", Reap(pid[order[cur]], back)
        PROVE  Owned'
    BY <2>1, <2>3, ReapOwned DEF Typing
  <2>4. QED
    BY <1>2, <2>2, <2>3 DEF SyncEnds, Uptime, table, kernel
<1>3. QED
  BY <1>1, <1>2

\* ... those that run a program of a service, or signal processes, ...
LEMMA HelpingOwned ==
  ASSUME Typing, Typing', Owned, FinishKilled \/ ProbeReady \/ Command \/ StopServices
  PROVE  Owned'
<1>1. UNCHANGED <<pid, logger_started, owner>>
  BY DEF FinishKilled, ProbeReady, Command, StopServices, table
<1>2. CASE UNCHANGED proc
  BY <1>1, <1>2, SamePidsOwned DEF Typing
<1>3. CASE \E interrupted \in BOOLEAN : RunHelper(interrupted, proc)
  <2>1. proc \in [Pids -> {"free", "alive", "termed", "zombie"}]
    BY DEF Typing, TypeOK
  <2>2. QED
    BY <1>1, <1>3, <2>1, RunHelperOwned DEF Typing
<1>4. CASE \E s \in Sids, ok \in BOOLEAN : stop_service(s, ok)
  BY <1>1, <1>4, StopServiceOwned DEF Typing
<1>5. CASE StopServices
  <2>1. cur # 0 => order[cur] \in Sids
    BY <1>5, OrderType DEF StopServices, Typing, TypeOK, Control
  <2>2. QED
    BY <1>2, <1>4, <1>5, <2>1 DEF StopServices
<1>6. QED
  BY <1>2, <1>3, <1>4, <1>5 DEF FinishKilled, ProbeReady, Command

\* ... and those of the kernel.
LEMMA KernelOwned ==
  ASSUME Typing, Typing', Owned, TermAll \/ KillAll \/ Orphan \/ \E p \in Pids : Die(p)
  PROVE  Owned'
<1>1. UNCHANGED <<pid, logger_started, owner>>
  BY DEF TermAll, KillAll, Orphan, Die, table
<1>2. CASE Orphan
  BY <1>1, <1>2, StrayOwned DEF Orphan, Free, Typing, TypeOK
<1>3. CASE TermAll \/ KillAll \/ \E p \in Pids : Die(p)
  <2>1. \A p \in Pids : proc'[p] = "free" <=> proc[p] = "free"
    BY <1>3 DEF TermAll, Term, KillAll, Die, Everyone, Running, Typing, TypeOK
  <2>2. QED
    BY <1>1, <2>1, SamePidsOwned DEF Typing
<1>4. QED
  BY <1>2, <1>3

\* After a reaping main is in child_handler or in handle_killed.
LEMMA ReapStaysAway ==
  ASSUME NEW p, NEW back, Reap(p, back)
  PROVE  pc' \in {"reap", "killed"}
BY DEF Reap, Goto

\* Children appear only by a fork of main, which then is elsewhere, or from a
\* process that runs.
LEMMA NoneLeftKept ==
  ASSUME Inv, Typing', [Next]_vars
  PROVE  NoneLeft'
<1> SUFFICES ASSUME pc' \in {"loop_all", "exited"} PROVE Children' = {}
  BY DEF NoneLeft
<1>1. CASE AllTerminated
  BY <1>1 DEF AllTerminated, NoChildLeft, Children, Free, kernel
<1>2. CASE UNCHANGED <<pc, proc>>
  BY <1>2 DEF Inv, NoneLeft, Children, Free
<1>3. pc \in {"loop_all", "exited"} => Running = {}
  BY DEF Inv, NoneLeft, Running, Children, Free
<1>4. ~start_services
  BY ReapStaysAway DEF start_services, NextService, StartNext, SyncBlock, SyncEnds, Uptime, ProbeReady, ReadyTimeout,
         Advance, StartFailed, Goto
<1>5. CASE child_handler
  <2>1. ~FinishKilled
    BY DEF FinishKilled, Goto, Inv, Typing, Control
  <2>2. ~PeriodOver
    BY DEF PeriodOver, Goto
  <2>3. \A p \in Pids : ~ReapZombie(p)
    BY ReapStaysAway DEF ReapZombie
  <2>4. QED
    BY <1>1, <1>5, <2>1, <2>2, <2>3 DEF child_handler
<1>6. ~main_loop
  BY DEF main_loop, LoopHead, AfterReap, Intervals, Restarts, Command, LeaveLoop, CallReap, Goto
<1>7. ~cinit_shutdown
  BY DEF cinit_shutdown, StopServices, TermAll, KillAll, CallReap, Goto
<1>8. CASE Environment
  <2>1. pc' = pc
    BY <1>8 DEF Environment, Die, Due, Orphan, Signal, Write, Timeout
  <2>2. /\ \A p \in Pids : ~Die(p)
        /\ ~Orphan
    BY <1>3, <2>1 DEF Die, Orphan
  <2>3. QED
    BY <1>2, <1>8, <2>1, <2>2 DEF Environment, Due, Signal, Write, Timeout, kernel
<1>9. CASE UNCHANGED vars
  BY <1>2, <1>9 DEF vars, kernel
<1>10. QED
  BY <1>4, <1>5, <1>6, <1>7, <1>8, <1>9 DEF Next, Main

\* The invariant of the table holds initially and is kept by every step.
LEMMA InitInv == Init => Inv
<1> SUFFICES ASSUME Init PROVE Inv
  OBVIOUS
<1>1. Owned /\ NoneLeft
  BY DEF Init, Owned, NoneLeft, PidOwned, LoggerBesideProcess, Free, Children
<1>2. QED
  BY <1>1, InitTyping DEF Inv

\* Every step keeps the invariant of the table.
LEMMA NextInv == Inv /\ [Next]_vars => Inv'
<1> SUFFICES ASSUME Inv, [Next]_vars PROVE Inv'
  OBVIOUS
<1>1. Typing /\ Typing' /\ Owned
  BY NextTyping DEF Inv
<1>2. Owned'
  BY <1>1, QuietOwned, StartingOwned, ReapingOwned, HelpingOwned, KernelOwned
  DEF Next, Main, start_services, child_handler, main_loop, cinit_shutdown, Environment
<1>3. NoneLeft'
  BY <1>1, NoneLeftKept
<1>4. QED
  BY <1>1, <1>2, <1>3 DEF Inv

\* The invariant holds in every state.
THEOREM Invariant == Spec => []Inv
BY InitInv, NextInv, PTL DEF Spec

\* The pid of an entry is that of a child forked for it, and every such child
\* is named by its entry: cinit never signals or waits for a reused pid, never
\* loses a process of a service and never runs a service twice.
THEOREM PidOwnedCorrect == Spec => []PidOwned
<1>1. Inv => PidOwned
  BY DEF Inv, Owned
<1>2. QED
  BY <1>1, Invariant, PTL

\* A logger thread exists only beside its process: start_service's assertion
\* that none is left from an earlier start cannot fail.
THEOREM LoggerCorrect == Spec => []LoggerBesideProcess
<1>1. Inv => LoggerBesideProcess
  BY DEF Inv, Owned
<1>2. QED
  BY <1>1, Invariant, PTL

\* When cinit exits, every process has been reaped and the table is empty.
THEOREM ExitCorrect == Spec => []ExitLeavesNothing
<1>1. Inv => ExitLeavesNothing
  BY DEF Inv, Owned, NoneLeft, PidOwned, LoggerBesideProcess, ExitLeavesNothing
<1>2. QED
  BY <1>1, Invariant, PTL

-----------------------------------------------------------------------------
(* Cinit implements Supervisor: initial states map to initial states, and    *)
(* every step maps to a step of the abstract supervisor or to a stutter.     *)

\* The services that have a process, as the refinement mapping defines them.
Up == {s \in Sids : pid[s] # NoPid}

\* A step that leaves the phase, the processes of the services and the request
\* alone is no step of the abstract supervisor; one that only requests the
\* shutdown is its AskStop.
LEMMA QuietStep ==
  ASSUME UNCHANGED pid, Phase' = Phase, Chosen' = Chosen,
         UNCHANGED do_shutdown \/ (Phase # "exited" /\ do_shutdown' = TRUE)
  PROVE  [Abstract!Next]_Abstract!vars
<1>1. UNCHANGED Up
  BY DEF Up
<1>2. QED
  BY <1>1 DEF Abstract!Next, Abstract!AskStop, Abstract!vars, Up

\* start_service is Start, or fails and does nothing but drop the choice.
LEMMA StartStep ==
  ASSUME TypeOK, NEW s \in Sids, NEW ok \in BOOLEAN, start_service(s, ok),
         Phase' = Phase, UNCHANGED do_shutdown, Chosen' = 0,
         \/ Phase = "starting" /\ Chosen = s
         \/ Phase = "running" /\ Chosen = 0
  PROVE  [Abstract!Next]_Abstract!vars
<1>1. CASE UNCHANGED pid
  <2>1. UNCHANGED Up
    BY <1>1 DEF Up
  <2>2. CASE Chosen = 0
    BY <1>1, <2>2, QuietStep
  <2>3. CASE Chosen # 0
    BY <2>1, <2>3 DEF Abstract!Next, Abstract!GiveUp, Up
  <2>4. QED
    BY <2>2, <2>3
<1>2. ASSUME pid[s] = NoPid, NEW p \in Free, pid' = [pid EXCEPT ![s] = p]
      PROVE  Abstract!Start(s)
  <2>1. p # NoPid
    BY ConstAssumption DEF ConstAssumption, Free
  <2>2. Up' = Up \cup {s} /\ s \notin Up
    BY <1>2, <2>1 DEF Up, TypeOK
  <2>3. QED
    BY <2>2 DEF Abstract!Start, Up
<1>3. QED
  BY <1>1, <1>2 DEF start_service, table, Abstract!Next

\* Reaping is End, or concerns no service.
LEMMA ReapStep ==
  ASSUME TypeOK, NEW p \in Pids, NEW back, Reap(p, back),
         Phase' = Phase, Phase # "exited", Chosen' = Chosen, UNCHANGED do_shutdown
  PROVE  [Abstract!Next]_Abstract!vars
<1>1. CASE UNCHANGED pid
  BY <1>1, QuietStep
<1>2. ASSUME NEW s \in Sids, pid[s] = p, pid' = [pid EXCEPT ![s] = NoPid]
      PROVE  Abstract!End(s)
  <2>1. p # NoPid
    BY ConstAssumption DEF ConstAssumption
  <2>2. Up' = Up \ {s} /\ s \in Up
    BY <1>2, <2>1 DEF Up, TypeOK
  <2>3. QED
    BY <2>2 DEF Abstract!End, Up
<1>3. QED
  BY <1>1, <1>2 DEF Reap, ClearedPid, Abstract!Next

\* The start: no service is up and nothing was asked for.
LEMMA InitRefines == Init => Abstract!Init
BY DEF Init, Abstract!Init, Chosen, Phase, InShutdown, InBringUp, StartupPCs, ShutdownPCs

\* Bring-up: services are chosen and started one by one until it is complete,
\* until one fails, or until a shutdown is requested.
LEMMA start_servicesRefines ==
  ASSUME Inv, Inv', start_services
  PROVE  [Abstract!Next]_Abstract!vars
<1> USE DEF Chosen, Phase, InShutdown, InBringUp, StartupPCs, ShutdownPCs, MainPCs
<1>1. Phase = "starting" /\ mode = "main" /\ TypeOK
  BY DEF start_services, NextService, StartNext, SyncBlock, SyncEnds, Uptime, ProbeReady, ReadyTimeout,
         Advance, StartFailed, Inv, Typing, Control
<1>2. CASE SyncBlock \/ ReadyTimeout \/ Advance
  <2>1. UNCHANGED <<pid, do_shutdown>> /\ pc' \in StartupPCs \ {"start"} /\ pc # "start"
    BY <1>2 DEF SyncBlock, ReadyTimeout, Advance, Goto, table, flags
  <2>2. QED
    BY <1>1, <2>1, QuietStep
<1>3. CASE ProbeReady
  <2>1. /\ UNCHANGED pid /\ pc' \in StartupPCs \ {"start"} /\ pc # "start"
        /\ do_shutdown' = do_shutdown \/ do_shutdown' = TRUE
    BY <1>3 DEF ProbeReady, RequestShutdown, Goto, table
  <2>2. QED
    BY <1>1, <2>1, QuietStep
<1>4. CASE SyncEnds \/ Uptime
  <2>1. UNCHANGED <<mode, do_shutdown>> /\ pc # "start"
    BY <1>4 DEF SyncEnds, Uptime, flags
  <2>2. pid[order[cur]] \in Pids /\ order[cur] \in Sids
    BY <1>4, OrderType DEF SyncEnds, Uptime, Inv, Typing, TypeOK, Control, AtService, StartupPCs
  <2>3. CASE pc' \in StartupPCs \ {"start"} /\ UNCHANGED pid
    BY <1>1, <2>1, <2>3, QuietStep
  <2>4. ASSUME NEW back \in {"up_done", "catch"}, Reap(pid[order[cur]], back)
        PROVE  [Abstract!Next]_Abstract!vars
    <3>1. pid[order[cur]] \notin Strays
      BY <2>2 DEF Strays
    <3>2. pc' = "killed" /\ ret' = back
      BY <2>4, <3>1 DEF Reap, Goto
    <3>3. QED
      BY <1>1, <2>1, <2>2, <2>4, <3>2, ReapStep
  <2>5. QED
    BY <1>4, <2>3, <2>4 DEF SyncEnds, Uptime, Goto, table
<1>5. CASE StartFailed
  <2> pc = "catch"
    BY <1>5 DEF StartFailed
  <2>1. CASE pc' = "up" /\ UNCHANGED <<pid, do_shutdown>>
    BY <1>1, <2>1, QuietStep
  <2>2. CASE pc' = "loop" /\ UNCHANGED <<pid, mode>> /\ do_shutdown' = TRUE
    BY <1>1, <2>2 DEF Abstract!Next, Abstract!BroughtUp
  <2>3. QED
    BY <1>5, <2>1, <2>2 DEF StartFailed, RequestShutdown, Goto, flags, table, frame
<1>6. CASE NextService
  <2>1. UNCHANGED <<pid, mode, do_shutdown>> /\ pc = "up"
    BY <1>6 DEF NextService, frame, flags, table
  <2>2. CASE pc' = "loop"
    BY <1>1, <2>1, <2>2 DEF Abstract!Next, Abstract!BroughtUp
  <2>3. CASE pc' = "up"
    BY <1>1, <2>1, <2>3, QuietStep
  <2>4. CASE pc' = "start"
    <3>1. order[cur] \in Sids /\ ~do_shutdown
      BY <1>6, <2>4, OrderType DEF NextService, Goto, EndOfBringUp, Inv, Typing, TypeOK, Control
    <3>2. UNCHANGED <<order, cur>>
      BY <1>6, <2>4 DEF NextService, Goto, config
    <3>3. Abstract!Choose(order[cur])
      BY <1>1, <2>1, <2>4, <3>1, <3>2 DEF Abstract!Choose
    <3>4. QED
      BY <3>1, <3>3 DEF Abstract!Next
  <2>5. QED
    BY <1>6, <2>1, <2>2, <2>3, <2>4 DEF NextService, Goto
<1>7. CASE StartNext
  <2>1. /\ UNCHANGED <<mode, do_shutdown>> /\ pc = "start"
        /\ pc' \in StartupPCs \ {"start"}
        /\ \E ok \in BOOLEAN : start_service(order[cur], ok)
    BY <1>7 DEF StartNext, Goto, frame, flags
  <2>2. order[cur] \in Sids
    BY <2>1, OrderType DEF Inv, Typing, TypeOK, Control, AtService, StartupPCs
  <2>3. QED
    BY <1>1, <2>1, <2>2, StartStep
<1>8. QED
  BY <1>2, <1>3, <1>4, <1>5, <1>6, <1>7 DEF start_services

\* child_handler and handle_killed: services end, and with the last process
\* the stopping supervisor exits.
LEMMA child_handlerRefines ==
  ASSUME Inv, Inv', child_handler
  PROVE  [Abstract!Next]_Abstract!vars
<1> USE DEF Chosen, Phase, InShutdown, InBringUp, StartupPCs, ShutdownPCs, MainPCs
<1>1. TypeOK /\ pc \in {"reap", "killed"}
  BY DEF child_handler, ReapZombie, FinishKilled, AllTerminated, PeriodOver, Inv, Typing
<1>2. ASSUME NEW p \in Pids, ReapZombie(p)
      PROVE  [Abstract!Next]_Abstract!vars
  <2>1. /\ Reap(p, "reap") /\ pc = "reap" /\ UNCHANGED <<mode, do_shutdown>>
    BY <1>2 DEF ReapZombie, flags
  <2>2. pc' = "reap" \/ (pc' = "killed" /\ ret' = "reap")
    BY <2>1 DEF Reap, Goto
  <2>3. QED
    BY <1>1, <2>1, <2>2, ReapStep
<1>3. CASE FinishKilled
  <2>1. /\ pc = "killed" /\ pc' = ret /\ UNCHANGED <<mode, pid>>
        /\ UNCHANGED do_shutdown \/ do_shutdown' = TRUE
        /\ ret \in {"up_done", "catch", "reap"}
    BY <1>3 DEF FinishKilled, RequestShutdown, Goto, table, Inv, Typing, Control
  <2>2. Phase' = Phase /\ Phase # "exited"
    BY <2>1 DEF Inv, Typing, Control
  <2>3. QED
    BY <2>1, <2>2, QuietStep
<1>4. CASE PeriodOver
  <2>1. /\ pc = "reap" /\ UNCHANGED <<pid, mode, do_shutdown>>
        /\ \/ mode = "main" /\ pc' = "loop_some"
           \/ mode # "main" /\ pc' \in {"stop", "term_all", "kill_all"}
    <3>1. pc = "reap" /\ UNCHANGED <<pid, mode, do_shutdown>>
      BY <1>4 DEF PeriodOver, table, flags, frame
    <3>2. \/ mode = "main" /\ pc' = "loop_some"
          \/ mode # "main" /\ pc' \in {"stop", "term_all", "kill_all"}
      BY <1>4 DEF PeriodOver, Goto
    <3>3. QED
      BY <3>1, <3>2
  <2>2. QED
    BY <2>1, QuietStep
<1>5. CASE AllTerminated
  <2>1. pc = "reap" /\ UNCHANGED <<pid, mode, do_shutdown>>
    BY <1>5 DEF AllTerminated, table, flags, frame
  <2>2. CASE mode = "main"
    BY <1>5, <2>1, <2>2, QuietStep DEF AllTerminated, Goto
  <2>3. CASE mode # "main"
    <3>1. Phase = "stopping" /\ Phase' = "exited"
      BY <1>5, <2>1, <2>3 DEF AllTerminated, Goto
    <3>2. Up = {}
      BY <1>5 DEF AllTerminated, NoChildLeft, Up, Inv, Owned, PidOwned
    <3>3. QED
      BY <2>1, <3>1, <3>2 DEF Up, Abstract!Next, Abstract!Exit
  <2>4. QED
    BY <2>2, <2>3
<1>6. QED
  BY <1>2, <1>3, <1>4, <1>5 DEF child_handler

\* The main loop: services are started again, and the supervisor begins to
\* stop when it was asked to or when no service is left.
LEMMA main_loopRefines ==
  ASSUME Inv, Inv', main_loop
  PROVE  [Abstract!Next]_Abstract!vars
<1> USE DEF Chosen, Phase, InShutdown, InBringUp, StartupPCs, ShutdownPCs, MainPCs
<1>1. Phase = "running" /\ mode = "main" /\ TypeOK
  BY DEF main_loop, LoopHead, AfterReap, Intervals, Restarts, Command, Inv, Typing, Control
<1>2. CASE LoopHead
  <2>1. UNCHANGED <<pid, do_shutdown>>
    BY <1>2 DEF LoopHead, table
  <2>2. CASE do_shutdown /\ pc' = "stop"
    BY <1>1, <2>1, <2>2 DEF Abstract!Next, Abstract!Stop, Inv, Typing, TypeOK
  <2>3. CASE pc' = "reap" /\ mode' = "main"
    BY <1>1, <2>1, <2>3, QuietStep
  <2>4. QED
    BY <1>2, <2>2, <2>3 DEF LoopHead, LeaveLoop, CallReap, Goto
<1>3. CASE AfterReap
  <2>1. UNCHANGED pid
    BY <1>3 DEF AfterReap, table
  <2>2. CASE pc' = "intervals" /\ UNCHANGED <<mode, do_shutdown>>
    BY <1>1, <2>1, <2>2, QuietStep
  <2>3. CASE pc' = "stop" /\ do_shutdown' = TRUE /\ (do_shutdown \/ pc = "loop_all")
    <3>1. pc = "loop_all" => Up = {}
      BY DEF Up, Inv, Owned, NoneLeft, PidOwned
    <3>2. QED
      BY <1>1, <2>1, <2>3, <3>1 DEF Up, Abstract!Next, Abstract!Stop
  <2>4. QED
    BY <1>3, <2>2, <2>3 DEF AfterReap, LeaveLoop, RequestShutdown, Goto, Inv, Typing, TypeOK
<1>4. CASE Intervals \/ Restarts
  <2>1. UNCHANGED <<mode, do_shutdown>> /\ pc' \in MainPCs
    BY <1>4 DEF Intervals, Restarts, Goto, frame, flags
  <2>2. cur > NSRV \/ cur \in Sids
    BY <1>4, ConstAssumption
    DEF ConstAssumption, Intervals, Restarts, Sids, Inv, Typing, TypeOK, Control
  <2>3. CASE UNCHANGED pid
    BY <1>1, <2>1, <2>3, QuietStep
  <2>4. CASE \E s \in Sids, ok \in BOOLEAN : start_service(s, ok)
    BY <1>1, <2>1, <2>4, StartStep
  <2>5. QED
    BY <1>4, <2>2, <2>3, <2>4 DEF Intervals, Restarts, table
<1>5. CASE Command
  <2>1. UNCHANGED <<pid, mode>> /\ pc' \in {"loop", "aborted"}
    BY <1>5 DEF Command, Goto, frame
  <2>2. UNCHANGED do_shutdown \/ do_shutdown' = TRUE
    BY <1>5 DEF Command, stop_service, RequestShutdown
  <2>3. QED
    BY <1>1, <2>1, <2>2, QuietStep
<1>6. QED
  BY <1>2, <1>3, <1>4, <1>5 DEF main_loop

\* cinit_shutdown only signals: the services end in child_handler.
LEMMA cinit_shutdownRefines ==
  ASSUME Inv, Inv', cinit_shutdown
  PROVE  [Abstract!Next]_Abstract!vars
<1> USE DEF Chosen, Phase, InShutdown, InBringUp, StartupPCs, ShutdownPCs, MainPCs
<1>1. Phase = "stopping"
  BY DEF cinit_shutdown, StopServices, TermAll, KillAll
<1>2. UNCHANGED pid /\ (UNCHANGED do_shutdown \/ do_shutdown' = TRUE)
  BY DEF cinit_shutdown, StopServices, TermAll, KillAll, stop_service, RequestShutdown, table, flags
<1>3. pc' = "stop" \/ (pc' = "reap" /\ mode' # "main")
  BY DEF cinit_shutdown, StopServices, TermAll, KillAll, CallReap, Goto
<1>4. QED
  BY <1>1, <1>2, <1>3, QuietStep

\* The surroundings: only a signal shows, as AskStop.
LEMMA EnvironmentRefines ==
  ASSUME Inv, Inv', Environment
  PROVE  [Abstract!Next]_Abstract!vars
<1> USE DEF Chosen, Phase, InShutdown, InBringUp, StartupPCs, ShutdownPCs, MainPCs
<1>1. UNCHANGED <<pid, mode, ret, order, cur>>
  BY DEF Environment, Die, Due, Orphan, Signal, Write, Timeout, config, table, frame
<1>2. CASE Signal
  <2>1. /\ pc # "exited" /\ do_shutdown' = TRUE
        /\ pc' = pc \/ (pc = "sync_blocked" /\ pc' = "up_skip")
    BY <1>2 DEF Signal, Halted, RequestShutdown
  <2>2. Phase' = Phase /\ Phase # "exited"
    BY <1>1, <2>1
  <2>3. QED
    BY <1>1, <2>1, <2>2, QuietStep
<1>3. CASE UNCHANGED <<pc, do_shutdown>>
  BY <1>1, <1>3, QuietStep
<1>4. QED
  BY <1>2, <1>3 DEF Environment, Die, Due, Orphan, Write, Timeout, flags

\* Every step of cinit is a step of the abstract supervisor, or none.
LEMMA NextRefines == Inv /\ Inv' /\ [Next]_vars => [Abstract!Next]_Abstract!vars
<1> SUFFICES ASSUME Inv, Inv', [Next]_vars PROVE [Abstract!Next]_Abstract!vars
  OBVIOUS
<1>1. CASE UNCHANGED vars
  <2>1. UNCHANGED <<pid, do_shutdown, pc, mode, ret, order, cur>>
    BY <1>1 DEF vars, config, table, flags, frame
  <2>2. Phase' = Phase /\ Chosen' = Chosen
    BY <2>1 DEF Chosen, Phase, InShutdown, InBringUp
  <2>3. QED
    BY <2>1, <2>2, QuietStep
<1>2. QED
  BY <1>1, start_servicesRefines, child_handlerRefines, main_loopRefines, cinit_shutdownRefines,
     EnvironmentRefines
  DEF Next, Main

\* cinit keeps what Supervisor promises: during bring-up no service is chosen
\* once a shutdown was requested, so at most the one chosen before still starts;
\* none starts after the supervisor began to stop; it stops only when asked or
\* idle, and exits after every service.
THEOREM Refinement == Spec => ImplementsSupervisor
<1>1. Spec => Abstract!Init /\ [][Abstract!Next]_Abstract!vars
  BY InitRefines, NextRefines, Invariant, PTL DEF Spec
<1>2. QED
  BY <1>1 DEF ImplementsSupervisor, Abstract!Spec
=============================================================================
