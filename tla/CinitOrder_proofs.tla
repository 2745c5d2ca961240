-------------------------- MODULE CinitOrder_proofs --------------------------
(* The order in which the supervisor starts its services, why and in which   *)
(* order it stops them, what they have got before they are killed, and the   *)
(* status it ends with.                                                      *)
EXTENDS Cinit_proofs

-----------------------------------------------------------------------------
(* Bring-up respects the start order, for every table and every order the    *)
(* load phase may have built.                                                *)

\* A start order names no service twice: it has as many positions as there are
\* enabled services, and names each of them.
LEMMA OrderIsInjective ==
  ASSUME NEW c \in Configs, NEW o \in StartOrders(c),
         NEW i \in DOMAIN o, NEW j \in DOMAIN o, o[i] = o[j]
  PROVE  i = j
<1> DEFINE enabled == {s \in Sids : ~c[s].disabled}
           n == Cardinality(enabled)
<1>1. IsFiniteSet(enabled)
  <2>1. IsFiniteSet(Sids)
    BY FS_Interval, ConstAssumption DEF ConstAssumption, Sids
  <2>2. QED
    BY <2>1, FS_Subset
<1>2. n \in Nat
  BY <1>1, FS_CardinalityType
<1>3. o \in Surjection(1 .. n, enabled)
  BY DEF StartOrders, Surjection
<1> HIDE DEF enabled
<1>4. IsFiniteSet(1 .. n) /\ Cardinality(1 .. n) = Cardinality(enabled)
  <2>1. CASE n = 0
    BY <1>2, <2>1, FS_Interval
  <2>2. CASE n # 0
    BY <1>2, <2>2, FS_Interval
  <2>3. QED
    BY <2>1, <2>2
<1>5. o \in Injection(1 .. n, enabled)
  BY <1>3, <1>4, FS_SurjSameCardinalityImpliesInj
<1>6. QED
  BY <1>5 DEF Injection, IsInjective

-----------------------------------------------------------------------------
(* What is started is started behind services that are settled.  It stays so *)
(* because a position is judged only while nothing behind it has a process,  *)
(* and because the loop goes on over an unsettled one only when it will not  *)
(* start anything any more.                                                  *)

AllSettled == \A i \in DOMAIN order : Settled(order[i])

\* Bring-up has settled what it has left behind, or was asked to stop; what is
\* ahead of it has no process.  A service that is chosen starts although the
\* stop was asked for in between, so that escape is closed to it.
Progress ==
  InBringUp => /\ \A i \in DOMAIN order : i < cur => Settled(order[i]) \/ do_shutdown
               /\ \A i \in DOMAIN order : i > cur => pid[order[i]] = NoPid
               /\ pc = "up_skip" => do_shutdown
               /\ pc = "start" => \A i \in DOMAIN order : i < cur => Settled(order[i])

\* After bring-up everything is settled, unless the supervisor is to stop; the
\* loops that start services are entered only in the first case.
Completed ==
  /\ InBringUp \/ do_shutdown \/ AllSettled
  /\ pc \in {"intervals", "restarts"} => AllSettled

Started == Progress /\ Completed /\ StartOrderRespected

\* The start: nothing is behind, and nothing has a process.
LEMMA InitStarted == Init => Started
<1> SUFFICES ASSUME Init PROVE Started
  OBVIOUS
<1>1. DOMAIN order = 1 .. Len(order) /\ \A i \in DOMAIN order : order[i] \in Sids
  BY OrderType, InitTyping DEF Typing
<1>2. InBringUp /\ cur = 1 /\ pc = "up" /\ \A s \in Sids : pid[s] = NoPid
  BY DEF Init, InBringUp, StartupPCs
<1>3. QED
  BY <1>1, <1>2 DEF Started, Progress, Completed, StartOrderRespected

\* A step that judges nothing and starts nothing keeps the invariant, if it
\* stays in or out of bring-up.
LEMMA CalmStarted ==
  ASSUME TypeOK, Started, UNCHANGED <<cfg, order, verdict>>,
         do_shutdown => do_shutdown',
         \A s \in Sids : pid'[s] \in {pid[s], NoPid},
         \/ /\ InBringUp /\ InBringUp' /\ cur' = cur
            /\ pc' = "up_skip" => do_shutdown'
            /\ pc' = "start" => pc = "start"
         \/ ~InBringUp /\ ~InBringUp',
         pc' \in {"intervals", "restarts"} =>
           pc \in {"intervals", "restarts"} \/ ~do_shutdown
  PROVE  Started'
<1>1. /\ \A i \in DOMAIN order : order[i] \in Sids
      /\ \A s \in Sids : Settled(s)' = Settled(s)
  BY OrderType DEF Settled
<1>2. AllSettled' = AllSettled
  BY <1>1 DEF AllSettled
<1>3. StartOrderRespected'
  BY <1>1 DEF Started, StartOrderRespected
<1>4. Progress'
  BY <1>1 DEF Started, Progress
<1>5. Completed'
  <2>1. pc' \in {"intervals", "restarts"} => ~InBringUp'
    BY DEF InBringUp, StartupPCs
  <2>2. QED
    BY <1>2, <2>1 DEF Started, Completed
<1>6. QED
  BY <1>3, <1>4, <1>5 DEF Started

\* The service at the head of the loop is chosen only behind settled ones, ...
LEMMA NextServiceStarted ==
  ASSUME Inv, Inv', Started, NextService
  PROVE  Started'
<1> USE DEF InBringUp, StartupPCs
<1>1. /\ TypeOK /\ pc = "up" /\ cur \in Nat /\ cur >= 1
      /\ UNCHANGED <<cfg, order, verdict, do_shutdown, pid>>
  BY DEF NextService, Inv, Typing, TypeOK, Control, config, flags, table
<1>2. /\ DOMAIN order = 1 .. Len(order) /\ Len(order) \in Nat
      /\ \A i \in DOMAIN order : order[i] \in Sids
      /\ \A s \in Sids : Settled(s)' = Settled(s)
  BY <1>1, OrderType DEF Settled
<1>3. CASE EndOfBringUp
  <2>1. pc' = "loop"
    BY <1>3 DEF NextService, Goto
  <2>2. do_shutdown \/ AllSettled
    BY <1>1, <1>2, <1>3 DEF EndOfBringUp, Started, Progress, AllSettled
  <2>3. QED
    BY <1>1, <1>2, <2>1, <2>2
    DEF Started, Progress, Completed, AllSettled, StartOrderRespected
<1>4. CASE ~EndOfBringUp /\ cfg[order[cur]].group
  <2>1. cur \in DOMAIN order /\ cur' = cur + 1 /\ pc' = "up"
    BY <1>1, <1>2, <1>4 DEF NextService, EndOfBringUp
  <2>2. \A i \in DOMAIN order : i < cur' => Settled(order[i]) \/ do_shutdown
    BY <1>1, <1>2, <1>4, <2>1 DEF Started, Progress, Settled
  <2>3. QED
    BY <1>1, <1>2, <2>1, <2>2 DEF Started, Progress, Completed, StartOrderRespected
<1>5. CASE ~EndOfBringUp /\ ~cfg[order[cur]].group
  <2>1. pc' = "start" /\ cur' = cur /\ ~do_shutdown
    BY <1>5 DEF NextService, EndOfBringUp, Goto
  <2>2. QED
    BY <1>1, <1>2, <2>1 DEF Started, Progress, Completed, StartOrderRespected
<1>6. QED
  BY <1>3, <1>4, <1>5

\* ... and they are settled still when it starts.
LEMMA StartNextStarted ==
  ASSUME Inv, Inv', Started, StartNext
  PROVE  Started'
<1> USE DEF InBringUp, StartupPCs
<1>1. /\ TypeOK /\ pc = "start" /\ cur \in DOMAIN order
      /\ UNCHANGED <<cfg, order, verdict, do_shutdown>>
  BY DEF StartNext, Inv, Typing, Control, AtService, config, flags
<1>2. /\ DOMAIN order = 1 .. Len(order) /\ Len(order) \in Nat
      /\ \A i \in DOMAIN order : order[i] \in Sids
      /\ \A s \in Sids : Settled(s)' = Settled(s)
  BY <1>1, OrderType DEF Settled
<1>3. \A i \in DOMAIN order : i < cur => Settled(order[i])
  BY <1>1 DEF Started, Progress
<1>4. /\ pc' \in StartupPCs \ {"start", "up_skip"} /\ cur' = cur
      /\ \A s \in Sids \ {order[cur]} : pid'[s] = pid[s]
  <2>1. PICK ok \in BOOLEAN :
          /\ start_service(order[cur], ok)
          /\ UNCHANGED cur
          /\ Goto(IF ~ok THEN "catch"
                  ELSE IF cfg[order[cur]].sync THEN "sync"
                  ELSE IF cfg[order[cur]].interval THEN "up_done" ELSE "uptime")
    BY DEF StartNext
  <2>2. QED
    BY <1>1, <2>1 DEF start_service, Goto, table, TypeOK
<1>5. \A i \in DOMAIN order : i # cur => order[i] # order[cur]
  BY <1>1, OrderIsInjective DEF TypeOK
<1>6. \A i \in DOMAIN order : i # cur => pid'[order[i]] = pid[order[i]]
  BY <1>2, <1>4, <1>5
<1>7. Progress'
  BY <1>1, <1>2, <1>3, <1>4, <1>6 DEF Started, Progress
<1>8. StartOrderRespected'
  BY <1>1, <1>2, <1>3, <1>6 DEF Started, StartOrderRespected
<1>9. QED
  BY <1>1, <1>4, <1>7, <1>8 DEF Started, Completed

\* The verdict on a service is given while nothing behind it has a process; one
\* that does not settle it ends the bring-up.
LEMMA VerdictStarted ==
  ASSUME Inv, Inv', Started, Advance \/ StartFailed
  PROVE  Started'
<1> USE DEF InBringUp, StartupPCs
<1>1. /\ TypeOK /\ pc \in {"up_done", "up_skip", "catch"} /\ cur \in DOMAIN order
      /\ UNCHANGED <<cfg, order, pid>>
  BY DEF Advance, StartFailed, Inv, Typing, Control, AtService, StartupPCs, config, table
<1>2. /\ DOMAIN order = 1 .. Len(order) /\ Len(order) \in Nat
      /\ \A i \in DOMAIN order : order[i] \in Sids
      /\ \A i \in DOMAIN order : i # cur => order[i] # order[cur]
  BY <1>1, OrderType, OrderIsInjective DEF TypeOK
<1>3. /\ \A s \in Sids \ {order[cur]} : verdict'[s] = verdict[s]
      /\ do_shutdown => do_shutdown'
  BY <1>1 DEF Advance, StartFailed, RequestShutdown, TypeOK, flags
<1>4. \A i \in DOMAIN order : i # cur => Settled(order[i])' = Settled(order[i])
  BY <1>1, <1>2, <1>3 DEF Settled
<1>5. StartOrderRespected'
  <2>1. \A j \in DOMAIN order : j > cur => pid'[order[j]] = NoPid
    BY <1>1 DEF Started, Progress
  <2>2. QED
    BY <1>1, <1>2, <1>4, <2>1 DEF Started, StartOrderRespected
<1>6. CASE pc' = "up" /\ cur' = cur + 1
  <2>1. PICK s \in Sids : order[cur] = s
    BY <1>1, <1>2
  <2>2. do_shutdown' \/ Settled(s)'
    <3>1. CASE pc = "up_done"
      <4>1. verdict'[s] = "up"
        BY <1>1, <2>1, <3>1 DEF Advance, StartFailed, TypeOK
      <4>2. QED
        BY <4>1 DEF Settled
    <3>2. CASE pc = "up_skip"
      BY <1>1, <1>3, <3>2 DEF Started, Progress
    <3>3. CASE pc = "catch"
      <4>1. verdict'[s] = "failed"
        BY <1>1, <2>1, <3>3 DEF Advance, StartFailed, TypeOK
      <4>2. cfg[s].ignore_failure
        BY <1>6, <2>1, <3>3 DEF Advance, StartFailed, Goto
      <4>3. QED
        BY <1>1, <4>1, <4>2 DEF Settled
    <3>4. QED
      BY <1>1, <3>1, <3>2, <3>3
  <2>3. \A i \in DOMAIN order : i < cur' => Settled(order[i])' \/ do_shutdown'
    <3>1. SUFFICES ASSUME NEW i \in DOMAIN order, i < cur', ~do_shutdown'
                   PROVE  Settled(order[i])'
      OBVIOUS
    <3>2. CASE i = cur
      <4>1. order'[i] = s
        BY <1>1, <2>1, <3>2
      <4>2. QED
        BY <2>2, <3>1, <4>1 DEF Settled
    <3>3. CASE i # cur
      BY <1>1, <1>2, <1>3, <1>4, <1>6, <3>1, <3>3 DEF Started, Progress
    <3>4. QED
      BY <3>2, <3>3
  <2>4. Progress'
    BY <1>1, <1>2, <1>6, <2>3 DEF Started, Progress
  <2>5. QED
    BY <1>5, <1>6, <2>4 DEF Started, Completed
<1>7. CASE pc' = "loop" /\ do_shutdown'
  BY <1>5, <1>7 DEF Started, Progress, Completed
<1>8. QED
  BY <1>6, <1>7 DEF Advance, StartFailed, RequestShutdown, Goto

\* The waits for a service judge and start nothing.
LEMMA WaitingStarted ==
  ASSUME Inv, Inv', Started, SyncBlock \/ SyncEnds \/ Uptime \/ ProbeReady \/ ReadyTimeout
  PROVE  Started'
<1> USE DEF InBringUp, StartupPCs
<1>1. TypeOK /\ InBringUp /\ UNCHANGED <<cfg, order, verdict, cur>>
  BY DEF SyncBlock, SyncEnds, Uptime, ProbeReady, ReadyTimeout, Inv, Typing, config
<1>2. do_shutdown => do_shutdown'
  BY DEF SyncBlock, SyncEnds, Uptime, ProbeReady, ReadyTimeout, RequestShutdown, flags
<1>3. CASE SyncBlock \/ ProbeReady \/ ReadyTimeout
  <2>1. /\ UNCHANGED pid /\ pc' \in StartupPCs \ {"start"}
        /\ pc' = "up_skip" => do_shutdown'
    BY <1>3 DEF SyncBlock, ProbeReady, ReadyTimeout, Goto, table
  <2>2. QED
    BY <1>1, <1>2, <2>1, CalmStarted
<1>4. CASE SyncEnds \/ Uptime
  <2>1. order[cur] \in Sids /\ pid[order[cur]] \in Pids
    BY <1>4, OrderType DEF SyncEnds, Uptime, Inv, Typing, TypeOK, Control, AtService, StartupPCs
  <2>2. CASE /\ UNCHANGED pid /\ pc' \in StartupPCs \ {"start"}
             /\ pc' = "up_skip" => do_shutdown'
    BY <1>1, <1>2, <2>2, CalmStarted
  <2>3. ASSUME NEW back \in {"up_done", "catch"}, Reap(pid[order[cur]], back)
        PROVE  Started'
    <3>1. pid[order[cur]] \notin Strays
      BY <2>1 DEF Strays
    <3>2. pc' = "killed" /\ ret' = back /\ \A s \in Sids : pid'[s] \in {pid[s], NoPid}
      BY <1>1, <2>3, <3>1 DEF Reap, ClearedPid, Goto, TypeOK
    <3>3. QED
      BY <1>1, <1>2, <3>2, CalmStarted
  <2>4. QED
    BY <1>4, <2>2, <2>3 DEF SyncEnds, Uptime, Goto, table, flags
<1>5. QED
  BY <1>3, <1>4

\* A service that is started after a complete bring-up has nothing unsettled
\* before it.
LEMMA AgainStarted ==
  ASSUME Inv, Inv', Started, Intervals \/ Restarts
  PROVE  Started'
<1>1. /\ AllSettled /\ UNCHANGED <<cfg, order, verdict>>
      /\ pc' \in {"intervals", "restarts", "fifo"}
  BY DEF Intervals, Restarts, Started, Completed, Goto, config
<1>2. AllSettled'
  BY <1>1 DEF AllSettled, Settled
<1>3. QED
  BY <1>1, <1>2
  DEF Started, Progress, Completed, StartOrderRespected, AllSettled, InBringUp, StartupPCs

\* The rest of the main thread, outside bring-up ...
LEMMA RestStarted ==
  ASSUME Inv, Inv', Started,
         child_handler \/ LoopHead \/ AfterReap \/ Command \/ cinit_shutdown
  PROVE  Started'
<1> USE DEF InBringUp, StartupPCs
<1>1. TypeOK /\ UNCHANGED <<cfg, order, verdict>>
  BY DEF child_handler, ReapZombie, FinishKilled, AllTerminated, PeriodOver, LoopHead, AfterReap,
         Command, cinit_shutdown, StopServices, TermAll, KillAll, Inv, Typing, config
<1>2. do_shutdown => do_shutdown'
  BY DEF child_handler, ReapZombie, FinishKilled, AllTerminated, PeriodOver, LoopHead, AfterReap,
         Command, cinit_shutdown, StopServices, TermAll, KillAll, stop_service, RequestShutdown, flags
<1>3. \A s \in Sids : pid'[s] \in {pid[s], NoPid}
  BY <1>1 DEF child_handler, ReapZombie, Reap, ClearedPid, FinishKilled, AllTerminated, PeriodOver,
         LoopHead, AfterReap, Command, cinit_shutdown, StopServices, TermAll, KillAll, table, TypeOK
<1>4. CASE FinishKilled
  <2>1. InBringUp' = InBringUp /\ cur' = cur /\ pc' \in {"up_done", "catch", "reap"}
    BY <1>4 DEF FinishKilled, Goto, Inv, Typing, Control
  <2>2. QED
    BY <1>1, <1>2, <1>3, <2>1, CalmStarted
<1>5. CASE ~FinishKilled
  <2>1. /\ ~InBringUp /\ ~InBringUp'
        /\ pc' \in {"intervals", "restarts"} => ~do_shutdown
    <3>1. ASSUME NEW p \in Pids, ReapZombie(p)
          PROVE  /\ pc = "reap"
                 /\ pc' = "reap" \/ (pc' = "killed" /\ ret' = "reap")
      BY <3>1 DEF ReapZombie, Reap, Goto
    <3>2. CASE AllTerminated \/ PeriodOver
      BY <3>2 DEF AllTerminated, PeriodOver, Goto
    <3>3. CASE LoopHead \/ AfterReap \/ Command
      BY <3>3 DEF LoopHead, AfterReap, Command, LeaveLoop, CallReap, Goto
    <3>4. CASE cinit_shutdown
      BY <3>4 DEF cinit_shutdown, StopServices, TermAll, KillAll, CallReap, Goto
    <3>5. QED
      BY <1>5, <3>1, <3>2, <3>3, <3>4 DEF child_handler
  <2>2. QED
    BY <1>1, <1>2, <1>3, <2>1, CalmStarted
<1>6. QED
  BY <1>4, <1>5

\* ... and the surroundings.
LEMMA AroundStarted ==
  ASSUME Inv, Inv', Started, Environment \/ UNCHANGED vars
  PROVE  Started'
<1> USE DEF InBringUp, StartupPCs
<1>1. /\ TypeOK /\ UNCHANGED <<cfg, order, verdict, cur, ret, pid>>
      /\ pc' = pc \/ (pc = "sync_blocked" /\ pc' = "up_skip" /\ do_shutdown')
      /\ do_shutdown => do_shutdown'
  BY DEF Environment, Die, Due, Orphan, Signal, Write, Timeout, RequestShutdown, vars, config, frame,
         table, flags, Inv, Typing
<1>2. pc' = "up_skip" => do_shutdown'
  BY <1>1 DEF Started, Progress
<1>3. QED
  BY <1>1, <1>2, CalmStarted

\* The invariant of bring-up, with that of the table it rests on, holds in
\* every state.
THEOREM StartedInvariant == Spec => [](Inv /\ Started)
<1>1. Init => Inv /\ Started
  BY InitInv, InitStarted
<1>2. Inv /\ Started /\ [Next]_vars => (Inv /\ Started)'
  BY NextInv, NextServiceStarted, StartNextStarted, VerdictStarted, WaitingStarted, AgainStarted, RestStarted,
     AroundStarted DEF Next, Main, start_services, main_loop
<1>3. QED
  BY <1>1, <1>2, PTL DEF Spec

\* A service has a process only if every service before it in the start order
\* has ended (sync), was up for its minimum time and ready, or failed with
\* ignore_failure.
THEOREM StartOrderCorrect == Spec => []StartOrderRespected
<1>1. Inv /\ Started => StartOrderRespected
  BY DEF Started
<1>2. QED
  BY <1>1, StartedInvariant, PTL


-----------------------------------------------------------------------------
(* The exit status.  What is decided at the exit was settled in three places *)
(* - the Catch block of bring-up, handle_killed and the end of the main loop *)
(* - so the invariant relates status, verdicts and cause all along.          *)

\* The code to report is that of the cause, and there is neither before a
\* shutdown was requested.
CodeOfCause ==
  /\ ~do_shutdown => cause = NoCause /\ exit_code = 0
  /\ exit_code = IF cause.why = "service" THEN cause.code ELSE 0

\* A failure ends the bring-up and decides the status; otherwise the code does,
\* once the main loop is left, which takes a request.
StatusSettled ==
  /\ InShutdown => do_shutdown
  /\ InBringUp => ~BringUpFailed
  /\ exit_status = IF BringUpFailed THEN 1 ELSE IF InShutdown THEN exit_code ELSE 0

\* A supervisor that found nothing left to do is stopping.
IdleStops ==
  /\ cause.why = "idle" => InShutdown
  /\ IdleIsFinal

Ends == CodeOfCause /\ StatusSettled /\ IdleStops

\* A step that moves neither into the shutdown nor into bring-up, and at most
\* asks for the shutdown because of a signal, keeps the invariant.
LEMMA CalmEnds ==
  ASSUME TypeOK, Ends, UNCHANGED <<cfg, verdict, restart_requested, exit_code, exit_status>>,
         InShutdown' = InShutdown, InBringUp' => InBringUp,
         UNCHANGED <<do_shutdown, cause>> \/ RequestShutdown("signal", 0)
  PROVE  Ends'
<1>1. BringUpFailed' = BringUpFailed
  BY DEF BringUpFailed
<1>2. CASE UNCHANGED <<do_shutdown, cause>>
  BY <1>1, <1>2 DEF Ends, CodeOfCause, StatusSettled, IdleStops, IdleIsFinal
<1>3. CASE RequestShutdown("signal", 0)
  <2>1. do_shutdown' /\ cause' = IF do_shutdown THEN cause ELSE [why |-> "signal", code |-> 0]
    BY <1>3 DEF RequestShutdown
  <2>2. CodeOfCause'
    BY <2>1 DEF Ends, CodeOfCause, NoCause
  <2>3. StatusSettled'
    BY <1>1, <2>1 DEF Ends, StatusSettled
  <2>4. IdleStops'
    BY <2>1 DEF Ends, IdleStops, IdleIsFinal
  <2>5. QED
    BY <2>2, <2>3, <2>4 DEF Ends
<1>4. QED
  BY <1>2, <1>3

\* Nothing has failed, been asked for or decided at the start.
LEMMA InitEnds == Init => Ends
BY DEF Init, Ends, CodeOfCause, StatusSettled, IdleStops, IdleIsFinal, BringUpFailed,
       InShutdown, ShutdownPCs, NoCause

\* Bring-up: only a failure that is not ignored decides the status, and it ends
\* the bring-up.
LEMMA start_servicesEnds ==
  ASSUME Inv, Inv', Ends, start_services
  PROVE  Ends'
<1> USE DEF InShutdown, InBringUp, StartupPCs, ShutdownPCs, MainPCs
<1>1. InBringUp /\ ~InShutdown /\ mode = "main" /\ TypeOK /\ UNCHANGED <<cfg, mode, restart_requested>>
  BY DEF start_services, NextService, StartNext, SyncBlock, SyncEnds, Uptime, ProbeReady, ReadyTimeout,
         Advance, StartFailed, Inv, Typing, Control, config, frame
<1>2. ~BringUpFailed
  BY <1>1 DEF Ends, StatusSettled
<1>3. CASE NextService \/ StartNext \/ SyncBlock \/ ReadyTimeout
  <2>1. UNCHANGED <<flags, verdict>> /\ pc' \in StartupPCs \cup {"loop"}
    BY <1>3 DEF NextService, StartNext, SyncBlock, ReadyTimeout, Goto
  <2>2. QED
    BY <1>1, <2>1, CalmEnds DEF flags
<1>4. CASE SyncEnds \/ Uptime
  <2>1. UNCHANGED <<flags, verdict>> /\ pc' \in StartupPCs \cup {"reap", "killed"}
    BY <1>4, ReapStaysAway DEF SyncEnds, Uptime, Goto
  <2>2. QED
    BY <1>1, <2>1, CalmEnds DEF flags
<1>5. CASE ProbeReady
  <2>1. /\ UNCHANGED <<verdict, exit_code, exit_status>> /\ pc' \in StartupPCs
        /\ UNCHANGED <<do_shutdown, cause>> \/ RequestShutdown("signal", 0)
    BY <1>5 DEF ProbeReady, Goto
  <2>2. QED
    BY <1>1, <2>1, CalmEnds
<1>6. CASE Advance
  <2>1. /\ UNCHANGED flags /\ pc' = "up"
        /\ verdict' = verdict \/ verdict' = [verdict EXCEPT ![order[cur]] = "up"]
    BY <1>6 DEF Advance, Goto
  <2>2. ~BringUpFailed'
    BY <1>1, <1>2, <2>1 DEF BringUpFailed, TypeOK
  <2>3. QED
    BY <1>1, <1>2, <2>1, <2>2
    DEF flags, Ends, CodeOfCause, StatusSettled, IdleStops, IdleIsFinal
<1>7. CASE StartFailed
  <2>1. order[cur] \in Sids /\ verdict' = [verdict EXCEPT ![order[cur]] = "failed"]
    BY <1>7, OrderType DEF StartFailed, Inv, Typing, Control, AtService, StartupPCs
  <2>2. CASE cfg[order[cur]].ignore_failure /\ pc' = "up" /\ UNCHANGED flags
    <3>1. ~BringUpFailed'
      BY <1>1, <1>2, <2>1, <2>2 DEF BringUpFailed, TypeOK
    <3>2. QED
      BY <1>1, <1>2, <2>2, <3>1
      DEF flags, Ends, CodeOfCause, StatusSettled, IdleStops, IdleIsFinal
  <2>3. CASE /\ ~cfg[order[cur]].ignore_failure /\ pc' = "loop"
             /\ exit_status' = 1 /\ RequestShutdown("failure", 0) /\ UNCHANGED exit_code
    <3>1. BringUpFailed'
      BY <1>1, <2>1, <2>3 DEF BringUpFailed, TypeOK
    <3>2. do_shutdown' /\ cause' = IF do_shutdown THEN cause ELSE [why |-> "failure", code |-> 0]
      BY <2>3 DEF RequestShutdown
    <3>3. CodeOfCause'
      BY <2>3, <3>2 DEF Ends, CodeOfCause, NoCause
    <3>4. StatusSettled' /\ IdleStops'
      BY <1>1, <2>3, <3>1, <3>2 DEF Ends, StatusSettled, IdleStops, IdleIsFinal
    <3>5. QED
      BY <3>3, <3>4 DEF Ends
  <2>4. QED
    BY <1>7, <2>2, <2>3 DEF StartFailed, Goto
<1>8. QED
  BY <1>3, <1>4, <1>5, <1>6, <1>7 DEF start_services

\* handle_killed: the end of a service decides the code if nothing has been
\* asked for before, which excludes that the main loop has been left.
LEMMA child_handlerEnds ==
  ASSUME Inv, Inv', Ends, child_handler
  PROVE  Ends'
<1> USE DEF InShutdown, InBringUp, StartupPCs, ShutdownPCs, MainPCs
<1>1. TypeOK /\ UNCHANGED <<cfg, mode, restart_requested, verdict, exit_status>>
  BY DEF child_handler, ReapZombie, FinishKilled, AllTerminated, PeriodOver, Inv, Typing,
         config, frame, flags
<1>2. ASSUME NEW p \in Pids, ReapZombie(p)
      PROVE  Ends'
  <2>1. /\ pc = "reap" /\ UNCHANGED flags
        /\ pc' = "reap" \/ (pc' = "killed" /\ ret' = "reap")
    BY <1>2 DEF ReapZombie, Reap, Goto
  <2>2. QED
    BY <1>1, <2>1, CalmEnds DEF flags
<1>3. CASE AllTerminated \/ PeriodOver
  <2>1. /\ pc = "reap" /\ UNCHANGED flags
        /\ \/ mode = "main" /\ pc' \in {"loop_all", "loop_some"}
           \/ mode # "main" /\ pc' \in ShutdownPCs
    BY <1>3 DEF AllTerminated, PeriodOver, Goto
  <2>2. QED
    BY <1>1, <2>1, CalmEnds DEF flags
<1>4. CASE FinishKilled
  <2>1. /\ pc = "killed" /\ pc' = ret /\ ret \in {"up_done", "catch", "reap"}
        /\ ret # "reap" => mode = "main"
    BY <1>4 DEF FinishKilled, Goto, Inv, Typing, Control
  <2>2. InShutdown' = InShutdown /\ InBringUp' = InBringUp
    BY <1>1, <2>1
  <2>3. CASE /\ UNCHANGED exit_code
             /\ UNCHANGED <<do_shutdown, cause>> \/ RequestShutdown("signal", 0)
    BY <1>1, <2>2, <2>3, CalmEnds
  <2>4. CASE /\ EndsContainer(killed.sid)
             /\ RequestShutdown("service", killed.code) /\ exit_code' = killed.code
    <3>1. /\ ~do_shutdown /\ do_shutdown'
          /\ cause' = [why |-> "service", code |-> killed.code]
      BY <2>4 DEF EndsContainer, RequestShutdown
    <3>2. ~InShutdown /\ BringUpFailed' = BringUpFailed
      BY <1>1, <3>1 DEF Ends, StatusSettled, BringUpFailed
    <3>3. CodeOfCause'
      BY <2>4, <3>1 DEF CodeOfCause
    <3>4. StatusSettled'
      BY <1>1, <2>2, <3>1, <3>2 DEF Ends, StatusSettled
    <3>5. IdleStops'
      BY <3>1 DEF IdleStops, IdleIsFinal
    <3>6. QED
      BY <3>3, <3>4, <3>5 DEF Ends
  <2>5. QED
    BY <1>4, <2>3, <2>4 DEF FinishKilled
<1>5. QED
  BY <1>2, <1>3, <1>4 DEF child_handler

\* Leaving the main loop, the status becomes the code unless bring-up failed.
LEMMA LeaveLoopEnds ==
  ASSUME Inv, Ends, LeaveLoop, pc \in MainPCs,
         UNCHANGED <<cfg, verdict, restart_requested, exit_code>>,
         \/ do_shutdown /\ UNCHANGED <<do_shutdown, cause>>
         \/ /\ pc = "loop_all" /\ \A s \in Sids : ~Restartable(s)
            /\ ~do_shutdown /\ RequestShutdown("idle", 0)
  PROVE  Ends'
<1> USE DEF InShutdown, InBringUp, StartupPCs, ShutdownPCs, MainPCs
<1>1. /\ ~InShutdown /\ InShutdown' /\ ~InBringUp' /\ BringUpFailed' = BringUpFailed
      /\ exit_status' = IF exit_status = 0 THEN exit_code ELSE exit_status
  BY DEF LeaveLoop, FinalStatus, Goto, BringUpFailed
<1>2. do_shutdown' /\ CodeOfCause' /\ (cause'.why = "idle" => IdleIsFinal')
  <2>1. CASE do_shutdown /\ UNCHANGED <<do_shutdown, cause>>
    BY <2>1 DEF Ends, CodeOfCause, IdleStops, IdleIsFinal
  <2>2. CASE /\ pc = "loop_all" /\ \A s \in Sids : ~Restartable(s)
             /\ ~do_shutdown /\ RequestShutdown("idle", 0)
    <3>1. do_shutdown' /\ cause' = [why |-> "idle", code |-> 0]
      BY <2>2 DEF RequestShutdown
    <3>2. \A s \in Sids : pid[s] = NoPid
      BY <2>2 DEF Inv, NoneLeft, Owned, PidOwned
    <3>3. \A s \in Sids : ~cfg[s].respawn /\ ~restart_requested[s]
      BY <2>2, <3>2 DEF Restartable
    <3>4. QED
      BY <2>2, <3>1, <3>3 DEF Ends, CodeOfCause, IdleIsFinal
  <2>3. QED
    BY <2>1, <2>2
<1>3. StatusSettled'
  BY <1>1, <1>2 DEF Ends, StatusSettled
<1>4. IdleStops'
  BY <1>1, <1>2 DEF IdleStops, IdleIsFinal
<1>5. QED
  BY <1>2, <1>3, <1>4 DEF Ends

\* The main loop keeps the invariant.
LEMMA main_loopEnds ==
  ASSUME Inv, Inv', Ends, main_loop
  PROVE  Ends'
<1> USE DEF InShutdown, InBringUp, StartupPCs, ShutdownPCs, MainPCs
<1>1. /\ pc \in MainPCs /\ ~InShutdown /\ mode = "main" /\ TypeOK
      /\ UNCHANGED <<cfg, verdict, exit_code>>
  BY DEF main_loop, LoopHead, AfterReap, Intervals, Restarts, Command, Inv, Typing, Control,
         config, flags
<1>2. CASE LoopHead \/ AfterReap
  <2>1. UNCHANGED restart_requested
    BY <1>2 DEF LoopHead, AfterReap
  <2>2. CASE LeaveLoop
    <3>1. \/ do_shutdown /\ UNCHANGED <<do_shutdown, cause>>
          \/ /\ pc = "loop_all" /\ \A s \in Sids : ~Restartable(s)
             /\ ~do_shutdown /\ RequestShutdown("idle", 0)
      BY <1>2, <2>2 DEF LoopHead, AfterReap, LeaveLoop, CallReap, Goto
    <3>2. QED
      BY <1>1, <2>1, <2>2, <3>1, LeaveLoopEnds
  <2>3. CASE /\ UNCHANGED <<do_shutdown, cause, exit_status>>
             /\ pc' = "intervals" \/ (pc' = "reap" /\ mode' = "main")
    BY <1>1, <2>1, <2>3, CalmEnds
  <2>4. QED
    BY <1>2, <2>2, <2>3 DEF LoopHead, AfterReap, CallReap, Goto
<1>3. CASE Intervals \/ Restarts \/ Command
  <2>1. /\ UNCHANGED exit_status
        /\ UNCHANGED <<do_shutdown, cause>> \/ RequestShutdown("signal", 0)
    BY <1>3 DEF Intervals, Restarts, Command, stop_service, flags
  <2>2. pc' \in MainPCs \cup {"aborted"}
    BY <1>3 DEF Intervals, Restarts, Command, Goto
  <2>3. ~InShutdown' /\ ~InBringUp'
    BY <2>2
  <2>4. cause'.why # "idle" /\ BringUpFailed' = BringUpFailed
    BY <1>1, <2>1 DEF RequestShutdown, Ends, IdleStops, BringUpFailed
  <2>5. CodeOfCause'
    BY <1>1, <2>1 DEF RequestShutdown, Ends, CodeOfCause, NoCause
  <2>6. QED
    BY <1>1, <2>1, <2>3, <2>4, <2>5 DEF Ends, StatusSettled, IdleStops, IdleIsFinal
<1>4. QED
  BY <1>2, <1>3 DEF main_loop

\* The shutdown sequence and the surroundings settle nothing.
LEMMA RestEnds ==
  ASSUME Inv, Inv', Ends, cinit_shutdown \/ Environment \/ UNCHANGED vars
  PROVE  Ends'
<1> USE DEF InShutdown, InBringUp, StartupPCs, ShutdownPCs, MainPCs
<1>1. TypeOK
  BY DEF Inv, Typing
<1>2. CASE cinit_shutdown
  <2>1. /\ UNCHANGED <<cfg, verdict, restart_requested, exit_code, exit_status>>
        /\ pc \in ShutdownPCs /\ (pc' \in ShutdownPCs \/ (pc' = "reap" /\ mode' # "main"))
    BY <1>2 DEF cinit_shutdown, StopServices, TermAll, KillAll, CallReap, Goto, config, flags
  <2>2. UNCHANGED <<do_shutdown, cause>> \/ RequestShutdown("signal", 0)
    BY <1>2 DEF cinit_shutdown, StopServices, TermAll, KillAll, stop_service, flags
  <2>3. QED
    BY <1>1, <2>1, <2>2, CalmEnds
<1>3. CASE Environment \/ UNCHANGED vars
  <2>1. /\ UNCHANGED <<cfg, verdict, restart_requested, exit_code, exit_status, mode, ret>>
        /\ pc' = pc \/ (pc = "sync_blocked" /\ pc' = "up_skip")
    BY <1>3 DEF Environment, Die, Due, Orphan, Signal, Write, Timeout, config, flags, frame, vars
  <2>2. UNCHANGED <<do_shutdown, cause>> \/ RequestShutdown("signal", 0)
    BY <1>3 DEF Environment, Die, Due, Orphan, Signal, Write, Timeout, flags, vars
  <2>3. QED
    BY <1>1, <2>1, <2>2, CalmEnds
<1>4. QED
  BY <1>2, <1>3

\* The invariant of the exit status, with that of the table it rests on, holds
\* in every state.
THEOREM EndsInvariant == Spec => [](Inv /\ Ends)
<1>1. Init => Inv /\ Ends
  BY InitInv, InitEnds
<1>2. Inv /\ Ends /\ [Next]_vars => (Inv /\ Ends)'
  BY NextInv, start_servicesEnds, child_handlerEnds, main_loopEnds, RestEnds DEF Next, Main
<1>3. QED
  BY <1>1, <1>2, PTL DEF Spec

\* The status of the container is 1 if bring-up failed, else the code of the
\* service whose end requested the shutdown, else 0.
THEOREM ExitStatusCorrect == Spec => []ExitStatus
<1>1. Inv /\ Ends => ExitStatus
  <2>1. pc = "exited" => InShutdown
    BY DEF InShutdown, ShutdownPCs
  <2>2. QED
    BY <2>1 DEF Ends, CodeOfCause, StatusSettled, ExitStatus
<1>2. QED
  BY <1>1, EndsInvariant, PTL

\* The supervisor stops by itself only if no service is to be started again.
THEOREM IdleCorrect == Spec => []IdleIsFinal
<1>1. Inv /\ Ends => IdleIsFinal
  BY DEF Ends, IdleStops
<1>2. QED
  BY <1>1, EndsInvariant, PTL

-----------------------------------------------------------------------------
(* What the services have got.  Both properties look at the process that an   *)
(* entry names, and a signal sent to it is lost only if another process takes *)
(* its place: PidOwned excludes it, and nothing is started in the shutdown.   *)

\* The process of s has got SIGTERM or has ended.
Told(s) == pid[s] # NoPid => proc[pid[s]] \in {"termed", "zombie"}

\* The position the shutdown sequence has reached: it is done with a service
\* once it reaps after it.
Past(i) == \/ pc = "stop" /\ i > cur
           \/ pc \in {"reap", "killed"} /\ mode = "stop" /\ i >= cur

StoppedSoFar ==
  \A i \in DOMAIN order : Past(i) /\ ~cfg[order[i]].group => Told(order[i])

\* After kill(-1, SIGTERM) every service has been told; the grace time is over
\* when the last signal is sent.
AllTold ==
  /\ (pc \in {"reap", "killed"} /\ mode = "grace") \/ pc = "kill_all" =>
       \A s \in Sids : Told(s)
  /\ pc = "kill_all" => timer

\* No step of the shutdown makes a service that was told anything else.
LEMMA ToldKept ==
  ASSUME Inv, Inv', InShutdown, [Next]_vars, NEW s \in Sids, Told(s)
  PROVE  Told(s)'
<1> USE DEF InShutdown, InBringUp, StartupPCs, ShutdownPCs, MainPCs
<1>1. TypeOK /\ PidOwned /\ TypeOK' /\ ~start_services /\ ~main_loop
  BY DEF Inv, Owned, Typing, Control, start_services, NextService, StartNext, SyncBlock, SyncEnds, Uptime,
         ProbeReady, ReadyTimeout, Advance, StartFailed,
         main_loop, LoopHead, AfterReap, Intervals, Restarts, Command
<1>2. pid'[s] \in {pid[s], NoPid}
  BY <1>1 DEF Next, Main, child_handler, ReapZombie, Reap, FinishKilled, AllTerminated, PeriodOver,
              ClearedPid, cinit_shutdown, StopServices, TermAll, KillAll,
              Environment, Die, Due, Orphan, Signal, Write, Timeout, vars, table, TypeOK
<1>3. CASE pid'[s] = NoPid
  BY <1>3 DEF Told
<1>4. CASE pid'[s] = pid[s] /\ pid[s] # NoPid
  <2> DEFINE p == pid[s]
  <2>1. p \in Pids /\ proc[p] \in {"termed", "zombie"} /\ p \notin Free
    BY <1>1, <1>4 DEF Told, PidOwned, Children, Free
  <2>2. proc'[p] \in {"termed", "zombie", "free"}
    <3>1. ASSUME NEW q \in Pids, ReapZombie(q)
          PROVE  proc'[p] \in {"termed", "zombie", "free"}
      BY <1>1, <2>1, <3>1 DEF ReapZombie, Reap, TypeOK
    <3>2. ASSUME NEW interrupted \in BOOLEAN, RunHelper(interrupted, proc)
          PROVE  proc'[p] \in {"termed", "zombie", "free"}
      BY <1>1, <2>1, <3>2 DEF RunHelper, TypeOK
    <3>3. ASSUME NEW t \in Sids, NEW ok \in BOOLEAN, stop_service(t, ok)
          PROVE  proc'[p] \in {"termed", "zombie", "free"}
      <4>1. /\ Term(proc, {pid[t]}) \in [Pids -> {"free", "alive", "termed", "zombie"}]
            /\ Term(proc, {pid[t]})[p] = proc[p]
        BY <1>1, <2>1 DEF Term, TypeOK
      <4>2. \/ UNCHANGED proc
            \/ \E interrupted \in BOOLEAN : RunHelper(interrupted, Term(proc, {pid[t]}))
        BY <3>3 DEF stop_service
      <4>3. QED
        BY <2>1, <4>1, <4>2 DEF RunHelper
    <3>4. CASE StopServices
      <4>1. cur # 0 => order[cur] \in Sids
        BY <3>4, OrderType DEF StopServices, Inv, Typing, TypeOK, Control
      <4>2. QED
        BY <2>1, <3>3, <3>4, <4>1 DEF StopServices
    <3>5. CASE TermAll \/ KillAll \/ Orphan \/ \E q \in Pids : Die(q)
      BY <1>1, <2>1, <3>5 DEF TermAll, Term, KillAll, Everyone, Running, Orphan, Die, TypeOK
    <3>6. CASE AllTerminated \/ PeriodOver \/ Signal \/ Write \/ Timeout
               \/ (\E t \in Sids : Due(t)) \/ UNCHANGED vars
      BY <2>1, <3>6 DEF AllTerminated, PeriodOver, Signal, Write, Timeout, Due, vars, kernel
    <3>7. QED
      BY <1>1, <3>1, <3>2, <3>4, <3>5, <3>6
      DEF Next, Main, child_handler, FinishKilled, cinit_shutdown, Environment
  <2>3. proc'[p] # "free"
    BY <1>4 DEF Inv, Owned, PidOwned, Children, Free
  <2>4. QED
    BY <1>4, <2>2, <2>3 DEF Told
<1>5. QED
  BY <1>2, <1>3, <1>4

\* Between two positions the sequence only moves down, and the service it
\* leaves has been signalled, unless stop_service could not.
LEMMA StoppedSoFarKept ==
  ASSUME Inv, Inv', [Next]_vars, StoppedSoFar, "chdir" \notin Faults
  PROVE  StoppedSoFar'
<1> USE DEF InShutdown, InBringUp, StartupPCs, ShutdownPCs, MainPCs
<1>0. UNCHANGED <<cfg, order>>
  BY DEF Next, Main, start_services, child_handler, main_loop, cinit_shutdown, Environment,
         NextService, StartNext, SyncBlock, SyncEnds, Uptime, ProbeReady, ReadyTimeout, Advance, StartFailed,
         ReapZombie, FinishKilled, AllTerminated, PeriodOver, LoopHead, AfterReap, Intervals,
         Restarts, Command, StopServices, TermAll, KillAll,
         Die, Due, Orphan, Signal, Write, Timeout, vars, config
<1>1. SUFFICES ASSUME NEW i \in DOMAIN order, Past(i)', ~cfg[order[i]].group
               PROVE  Told(order[i])'
  BY <1>0 DEF StoppedSoFar
<1>2. TypeOK /\ order[i] \in Sids /\ i \in 1 .. Len(order)
  BY OrderType DEF Inv, Typing
<1>3. CASE InShutdown /\ Past(i)
  <2>1. Told(order[i])
    BY <1>1, <1>3 DEF StoppedSoFar
  <2>2. PICK s \in Sids : order[i] = s
    BY <1>2
  <2>3. Told(s)'
    BY <1>3, <2>1, <2>2, ToldKept
  <2>4. order'[i] = s
    BY <1>0, <2>2
  <2>5. QED
    BY <2>3, <2>4 DEF Told
<1>4. CASE ~(InShutdown /\ Past(i))
  <2>1. Past(i) => InShutdown
    BY DEF Past
  <2>2. ~start_services
    BY <1>1, ReapStaysAway DEF Past, start_services, NextService, StartNext, SyncBlock, SyncEnds, Uptime,
       ProbeReady, ReadyTimeout, Advance, StartFailed, Goto, Inv, Typing, Control, frame
  <2>3. ~main_loop
    BY <1>1, <1>2 DEF Past, main_loop, LoopHead, AfterReap, Intervals, Restarts, Command,
       LeaveLoop, LastService, CallReap, Goto, Inv, Typing, Control
  <2>4. ~Environment /\ ~UNCHANGED vars
    BY <1>1, <1>4, <2>1 DEF Past, Environment, Die, Due, Orphan, Signal, Write, Timeout, frame, vars
  <2>5. ~child_handler
    <3>1. ~PeriodOver
      BY <1>1, <1>2, <1>4, <2>1 DEF Past, PeriodOver, Goto, frame, TypeOK
    <3>2. ~AllTerminated /\ ~FinishKilled /\ \A p \in Pids : ~ReapZombie(p)
      BY <1>1, <1>4, <2>1, ReapStaysAway
      DEF Past, AllTerminated, FinishKilled, ReapZombie, Goto, frame, Inv, Typing, Control
    <3>3. QED
      BY <3>1, <3>2 DEF child_handler
  <2>6. ~TermAll /\ ~KillAll
    BY <1>1 DEF Past, TermAll, KillAll, CallReap, Goto
  <2>7. CASE StopServices
    <3>1. CASE cur = 0
      BY <1>1, <2>7, <3>1 DEF StopServices, CallReap, Goto, Past
    <3>2. CASE cur # 0 /\ (cfg[order[cur]].group \/ pid[order[cur]] = NoPid)
      <4>1. pc' = "stop" /\ cur' = cur - 1 /\ pid' = pid
        BY <2>7, <3>2 DEF StopServices, table
      <4>2. i = cur
        BY <1>1, <1>2, <1>4, <2>1, <2>7, <4>1 DEF Past, StopServices, TypeOK
      <4>3. QED
        BY <1>0, <1>1, <3>2, <4>1, <4>2 DEF Told
    <3>3. CASE cur # 0 /\ ~cfg[order[cur]].group /\ pid[order[cur]] # NoPid
      <4>1. /\ \E ok \in BOOLEAN : stop_service(order[cur], ok)
            /\ pc = "stop" /\ cur' = cur /\ pid' = pid /\ pc' = "reap"
        BY <2>7, <3>3 DEF StopServices, CallReap, Goto, table
      <4>2. i = cur
        BY <1>1, <1>2, <1>4, <2>1, <4>1 DEF Past, TypeOK
      <4>3. PICK interrupted \in BOOLEAN : RunHelper(interrupted, Term(proc, {pid[order[cur]]}))
        BY <3>3, <4>1, <4>2 DEF stop_service
      <4> DEFINE p == pid[order[cur]]
      <4>4. p \in Pids /\ p \notin Free
        BY <1>2, <3>3, <4>2 DEF Inv, Owned, PidOwned, Children
      <4>5. Term(proc, {p}) \in [Pids -> {"free", "alive", "termed", "zombie"}]
            /\ Term(proc, {p})[p] \in {"termed", "zombie"}
        BY <1>2, <4>4 DEF Term, TypeOK, Free
      <4>6. proc'[p] \in {"termed", "zombie"}
        BY <4>3, <4>4, <4>5 DEF RunHelper
      <4>7. QED
        BY <1>0, <4>1, <4>2, <4>6 DEF Told
    <3>4. QED
      BY <3>1, <3>2, <3>3
  <2>8. QED
    BY <2>2, <2>3, <2>4, <2>5, <2>6, <2>7 DEF Next, Main, cinit_shutdown
<1>5. QED
  BY <1>3, <1>4

\* kill(-1, SIGTERM) reaches every service, and only the deadline leads on.
LEMMA AllToldKept ==
  ASSUME Inv, Inv', [Next]_vars, AllTold
  PROVE  AllTold'
<1> USE DEF InShutdown, InBringUp, StartupPCs, ShutdownPCs, MainPCs
<1> DEFINE Grace == (pc \in {"reap", "killed"} /\ mode = "grace") \/ pc = "kill_all"
<1>1. CASE TermAll
  <2>1. pc' = "reap" /\ pid' = pid
    BY <1>1 DEF TermAll, CallReap, Goto, table
  <2>2. ASSUME NEW s \in Sids, pid[s] # NoPid
        PROVE  proc'[pid[s]] \in {"termed", "zombie"}
    BY <1>1, <2>2 DEF TermAll, Term, Everyone, Running, Inv, Owned, PidOwned, Children, Free,
       Typing, TypeOK
  <2>3. QED
    BY <2>1, <2>2 DEF AllTold, Told
<1>2. CASE ~TermAll
  <2>1. Grace' => Grace
    <3>1. start_services \/ main_loop => ~Grace'
      BY ReapStaysAway DEF start_services, NextService, StartNext, SyncBlock, SyncEnds, Uptime,
         ProbeReady, ReadyTimeout, Advance, StartFailed, main_loop, LoopHead, AfterReap, Intervals,
         Restarts, Command, LeaveLoop, CallReap, Goto, Inv, Typing, Control, frame
    <3>2. StopServices \/ KillAll => ~Grace'
      BY DEF StopServices, KillAll, CallReap, Goto, frame
    <3>3. child_handler => (Grace' => Grace)
      BY ReapStaysAway DEF child_handler, ReapZombie, FinishKilled, AllTerminated, PeriodOver,
         Goto, frame, Inv, Typing, Control
    <3>4. Environment \/ UNCHANGED vars => (Grace' => Grace)
      BY DEF Environment, Die, Due, Orphan, Signal, Write, Timeout, frame, vars
    <3>5. QED
      BY <1>2, <3>1, <3>2, <3>3, <3>4 DEF Next, Main, cinit_shutdown
  <2>2. pc' = "kill_all" => timer'
    <3>1. CASE pc = "kill_all"
      BY <3>1 DEF AllTold, Next, Main, start_services, NextService, StartNext, SyncBlock, SyncEnds, Uptime,
         ProbeReady, ReadyTimeout, Advance, StartFailed, main_loop, LoopHead, AfterReap, Intervals,
         Restarts, Command, cinit_shutdown, StopServices, TermAll, KillAll, CallReap, Goto,
         child_handler, ReapZombie, FinishKilled, AllTerminated, PeriodOver,
         Environment, Die, Due, Orphan, Signal, Write, Timeout, vars
    <3>2. CASE pc # "kill_all" /\ pc' = "kill_all"
      <4>1. PeriodOver
        <5>1. ~start_services /\ ~main_loop /\ ~cinit_shutdown
          BY <3>2, ReapStaysAway DEF start_services, NextService, StartNext, SyncBlock, SyncEnds, Uptime,
             ProbeReady, ReadyTimeout, Advance, StartFailed, main_loop, LoopHead, AfterReap, Intervals,
             Restarts, Command, LeaveLoop, cinit_shutdown, StopServices, TermAll, KillAll, CallReap, Goto
        <5>2. ~Environment /\ ~UNCHANGED vars
          BY <3>2 DEF Environment, Die, Due, Orphan, Signal, Write, Timeout, vars
        <5>3. ~FinishKilled /\ ~AllTerminated /\ \A p \in Pids : ~ReapZombie(p)
          BY <3>2, ReapStaysAway DEF FinishKilled, AllTerminated, ReapZombie, Goto, Inv, Typing, Control
        <5>4. QED
          BY <5>1, <5>2, <5>3 DEF Next, Main, child_handler
      <4>2. QED
        BY <3>2, <4>1 DEF PeriodOver, Goto
    <3>3. QED
      BY <3>1, <3>2
  <2>3. Grace => InShutdown
    OBVIOUS
  <2>4. Grace' => \A s \in Sids : Told(s)'
    BY <2>1, <2>3, ToldKept DEF AllTold
  <2>5. QED
    BY <2>2, <2>4 DEF AllTold
<1>3. QED
  BY <1>1, <1>2

\* A service is killed only after it got SIGTERM and the grace time is over,
\* also when stop_service failed for it.
THEOREM TermBeforeKillCorrect == Spec => []TermBeforeKill
<1>1. Init => Inv /\ AllTold
  BY InitInv DEF Init, AllTold
<1>2. Inv /\ AllTold /\ [Next]_vars => (Inv /\ AllTold)'
  BY NextInv, AllToldKept
<1>3. AllTold => TermBeforeKill
  BY DEF AllTold, Told, TermBeforeKill
<1>4. QED
  BY <1>1, <1>2, <1>3, PTL DEF Spec

\* If the directory of a service can be entered, so that stop_service does not
\* fail, the services are stopped in the reverse of the start order.
THEOREM StoppedInReverseCorrect ==
  ASSUME "chdir" \notin Faults
  PROVE  Spec => []StoppedInReverse
<1>1. Init => Inv /\ StoppedSoFar
  BY InitInv DEF Init, StoppedSoFar, Past
<1>2. Inv /\ StoppedSoFar /\ [Next]_vars => (Inv /\ StoppedSoFar)'
  BY NextInv, StoppedSoFarKept
<1>3. StoppedSoFar => StoppedInReverse
  BY DEF StoppedSoFar, Past, Told, StoppedInReverse
<1>4. QED
  BY <1>1, <1>2, <1>3, PTL DEF Spec
==============================================================================
