----------------------- MODULE ServiceLogger_proofs -----------------------
(* For any number of services and file descriptors: a logger thread reads   *)
(* the output of its own service only, main joins it before the fd is       *)
(* closed or the service is started again, nothing that was written is lost *)
(* and lines are logged whole.                                              *)
EXTENDS ServiceLogger, SequenceTheorems, WellFoundedInduction, TLAPS

ThreadStates == {"none", "new", "poll", "read", "lines", "flush", "check", "ended"}

\* The part of the types that matters here.
Shape ==
  /\ pc \in {"loop", "log", "write", "exit", "join", "close", "stuck"}
  /\ pc # "loop" => srv \in Services
  /\ output_fd \in [Services -> Fds \cup {NoFd}]
  /\ logger_started \in [Services -> BOOLEAN]
  /\ proc \in [Services -> {"none", "alive", "zombie"}]
  /\ open \in [Fds -> Services \cup {Nobody}]
  /\ thread \in [Services -> ThreadStates]
  /\ fd \in [Services -> Fds \cup {NoFd}]

\* The entry of a service that has a thread or a process, or that main works
\* on, names an open fd; main has reaped the service it works on, waits for a
\* thread that exists and closes when there is none.
Entries ==
  /\ \A s \in Services : output_fd[s] # NoFd => open[output_fd[s]] = s
  /\ \A s \in Services : logger_started[s] => output_fd[s] # NoFd
  /\ \A s \in Services : proc[s] # "none" => output_fd[s] # NoFd
  /\ pc # "loop" => output_fd[srv] # NoFd /\ proc[srv] = "none"
  /\ mutex = "main" => pc \in {"write", "stuck"}
  /\ pc = "join" => logger_started[srv]
  /\ pc = "close" => ~logger_started[srv]

Inv == Shape /\ Entries /\ OneLogger /\ OwnOutput

\* No thread and no pipe exist at the start.
LEMMA InitInv == Init => Inv
BY ConstAssumption DEF ConstAssumption, Init, Inv, Shape, Entries, OneLogger,
   OwnOutput, Active, ThreadStates

\* A step of a thread that exists and goes on existing, on the fd it has.
LEMMA ThreadMoves ==
  ASSUME Inv, NEW s \in Services, thread[s] # "none",
         NEW label \in ThreadStates \ {"none", "new"}, Move(s, label),
         UNCHANGED <<pc, srv, output_fd, logger_started, proc, open, mutex>>,
         \/ UNCHANGED fd /\ thread[s] # "new" /\ (Active(s) \/ label = "ended")
         \/ fd' = [fd EXCEPT ![s] = output_fd[s]]
  PROVE  Inv'
<1>1. Shape'
  BY DEF Inv, Shape, Move
<1>2. Entries'
  BY DEF Inv, Entries
<1>3. thread'[s] = label /\ \A t \in Services \ {s} : thread'[t] = thread[t] /\ fd'[t] = fd[t]
  BY DEF Inv, Shape, Move
<1>4. OneLogger'
  BY <1>3 DEF Inv, OneLogger
<1>5. OwnOutput'
  <2>1. logger_started[s] /\ output_fd[s] # NoFd /\ open[output_fd[s]] = s
    BY DEF Inv, Entries, OneLogger
  <2>2. ASSUME NEW t \in Services, Active(t)'
        PROVE  (fd[t] = output_fd[t] /\ fd[t] # NoFd /\ Source(t) = t)'
    <3>1. CASE t # s
      BY <1>3, <2>2, <3>1 DEF Inv, OwnOutput, Active, Source
    <3>2. CASE t = s /\ UNCHANGED fd /\ thread[s] # "new" /\ (Active(s) \/ label = "ended")
      BY <1>3, <2>2, <3>2 DEF Inv, OwnOutput, Active, Source
    <3>3. CASE t = s /\ fd' = [fd EXCEPT ![s] = output_fd[s]]
      BY <2>1, <3>3 DEF Inv, Shape, Source
    <3>4. QED
      BY <3>1, <3>2, <3>3
  <2>3. QED
    BY <2>2 DEF OwnOutput
<1>6. QED
  BY <1>1, <1>2, <1>4, <1>5 DEF Inv

\* A step of a logger thread keeps the invariant.
LEMMA LoggerInv == ASSUME Inv, NEW s \in Services, Logger(s) PROVE Inv'
<1>1. CASE Begin(s)
  BY <1>1, ThreadMoves DEF Begin, At, entry, output, ThreadStates
<1>2. CASE Poll(s)
  <2>1. PICK label \in {"read", "flush", "check", "ended"} : Move(s, label)
    BY <1>2 DEF Poll, AfterHangUp
  <2>2. QED
    BY <1>2, <2>1, ThreadMoves DEF Poll, At, Active, entry, output, ThreadStates
<1>3. CASE Read(s)
  <2>1. PICK label \in {"flush", "lines"} : Move(s, label)
    BY <1>3 DEF Read
  <2>2. QED
    BY <1>3, <2>1, ThreadMoves DEF Read, At, Active, entry, ThreadStates
<1>4. CASE Lines(s)
  <2>1. PICK label \in {"check", "lines"} : Move(s, label)
    BY <1>4 DEF Lines, AfterLine
  <2>2. QED
    BY <1>4, <2>1, ThreadMoves DEF Lines, LogLine, At, Active, entry, output, ThreadStates
<1>5. CASE Flush(s)
  BY <1>5, ThreadMoves DEF Flush, LogLine, At, Active, entry, output, ThreadStates
<1>6. CASE Check(s)
  <2>1. PICK label \in {"poll", "ended"} : Move(s, label)
    BY <1>6 DEF Check
  <2>2. QED
    BY <1>6, <2>1, ThreadMoves DEF Check, At, Active, entry, output, ThreadStates
<1>7. QED
  BY <1>1, <1>2, <1>3, <1>4, <1>5, <1>6 DEF Logger

\* The new fd is no other service's, and no thread of s is left.
LEMMA StartInv == ASSUME Inv, NEW s \in Services, Start(s) PROVE Inv'
<1>1. PICK f \in Fds : /\ open[f] = Nobody
                       /\ output_fd' = [output_fd EXCEPT ![s] = f]
                       /\ open' = [open EXCEPT ![f] = s]
  BY DEF Start
<1>2. PICK ok \in BOOLEAN :
        /\ logger_started' = [logger_started EXCEPT ![s] = ok]
        /\ thread' = [thread EXCEPT ![s] = IF ok THEN "new" ELSE "none"]
  BY DEF Start
<1>3. /\ pc = "loop" /\ pc' = "loop" /\ proc[s] = "none"
      /\ proc' = [proc EXCEPT ![s] = "alive"] /\ UNCHANGED <<fd, mutex>>
  BY DEF Start
<1>4. Shape'
  BY <1>1, <1>2, <1>3 DEF Inv, Shape, ThreadStates
<1>5. f # NoFd /\ s # Nobody
  BY ConstAssumption DEF ConstAssumption
<1>6. output_fd[s] = NoFd /\ ~logger_started[s] /\ thread[s] = "none"
  BY <1>3 DEF Inv, Shape, OneLogger
<1>7. \A t \in Services : output_fd[t] # f
  BY <1>1, <1>5, ConstAssumption DEF ConstAssumption, Inv, Entries
<1>8. /\ output_fd'[s] = f /\ open'[f] = s /\ logger_started'[s] = ok
      /\ thread'[s] = (IF ok THEN "new" ELSE "none") /\ proc'[s] = "alive"
      /\ \A t \in Services \ {s} :
           /\ output_fd'[t] = output_fd[t] /\ logger_started'[t] = logger_started[t]
           /\ thread'[t] = thread[t] /\ proc'[t] = proc[t]
      /\ \A g \in Fds \ {f} : open'[g] = open[g]
  BY <1>1, <1>2, <1>3 DEF Inv, Shape
<1>9. Entries'
  BY <1>3, <1>5, <1>7, <1>8 DEF Inv, Entries, Shape
<1>10. OneLogger'
  <2>1. \A t \in Services : (thread[t] # "none" <=> logger_started[t])'
    BY <1>8 DEF Inv, OneLogger
  <2>2. ASSUME NEW g \in Fds, open'[g] # Nobody PROVE output_fd'[open'[g]] = g
    <3>1. CASE g = f
      BY <1>8, <3>1
    <3>2. CASE g # f
      <4>1. open'[g] = open[g] /\ open[g] \in Services /\ output_fd[open[g]] = g
        BY <1>8, <2>2, <3>2 DEF Inv, Shape, OneLogger
      <4>2. open[g] # s
        BY <1>6, <4>1, ConstAssumption DEF ConstAssumption
      <4>3. QED
        BY <1>8, <4>1, <4>2
    <3>3. QED
      BY <3>1, <3>2
  <2>3. \A t \in Services : (logger_started[t] \/ output_fd[t] # NoFd =>
                               proc[t] # "none" \/ (pc # "loop" /\ srv = t))'
    BY <1>3, <1>8 DEF Inv, OneLogger
  <2>4. QED
    BY <2>1, <2>2, <2>3 DEF OneLogger
<1>11. OwnOutput'
  <2>1. ASSUME NEW t \in Services, Active(t)'
        PROVE  (fd[t] = output_fd[t] /\ fd[t] # NoFd /\ Source(t) = t)'
    <3>1. t # s
      BY <1>8, <2>1 DEF Active
    <3>2. /\ Active(t) /\ fd[t] = output_fd[t] /\ fd[t] # NoFd
          /\ open[fd[t]] = t /\ logger_started[t]
      BY <1>8, <2>1, <3>1 DEF Inv, OwnOutput, OneLogger, Active, Source
    <3>3. fd[t] # f /\ fd[t] \in Fds
      BY <1>7, <3>2 DEF Inv, Entries, Shape
    <3>4. QED
      BY <1>3, <1>8, <3>1, <3>2, <3>3 DEF Source
  <2>2. QED
    BY <2>1 DEF OwnOutput
<1>12. QED
  BY <1>4, <1>9, <1>10, <1>11 DEF Inv

\* What does not touch the entries, the fds and the threads.
LEMMA MainMoves ==
  ASSUME Inv, NEW label \in {"loop", "log", "write", "exit", "join", "close", "stuck"},
         pc # "loop", pc' = label, label # "loop", srv' = srv,
         label = "join" => logger_started[srv], label = "close" => ~logger_started[srv],
         mutex' = "main" => label \in {"write", "stuck"},
         UNCHANGED <<output_fd, logger_started, proc, open, thread, fd>>
  PROVE  Inv'
BY DEF Inv, Shape, Entries, OneLogger, OwnOutput, Active, Source

\* The end of a service, with the join of its logger, keeps the invariant.
LEMMA ReapInv == ASSUME Inv, NEW s \in Services, Reap(s) PROVE Inv'
<1>1. /\ pc = "loop" /\ pc' = "log" /\ srv' = s /\ proc[s] = "zombie"
      /\ proc' = [proc EXCEPT ![s] = "none"]
      /\ UNCHANGED <<output_fd, logger_started, open, thread, fd, mutex>>
  BY DEF Reap, Goto, entry, logger
<1>2. output_fd[s] # NoFd
  BY <1>1 DEF Inv, Entries
<1>3. QED
  BY <1>1, <1>2 DEF Inv, Shape, Entries, OneLogger, OwnOutput, Active, Source

\* The thread of srv has ended, and with it what it knew.
LEMMA JoinInv == ASSUME Inv, Join PROVE Inv'
<1>1. /\ pc = "join" /\ pc' = "close" /\ srv' = srv /\ srv \in Services
      /\ thread' = [thread EXCEPT ![srv] = "none"] /\ fd' = [fd EXCEPT ![srv] = NoFd]
      /\ logger_started' = [logger_started EXCEPT ![srv] = FALSE]
      /\ UNCHANGED <<output_fd, proc, open, mutex>>
  BY DEF Join, Goto, output, Inv, Shape
<1>2. /\ thread'[srv] = "none" /\ ~logger_started'[srv]
      /\ \A t \in Services \ {srv} :
           /\ thread'[t] = thread[t] /\ fd'[t] = fd[t]
           /\ logger_started'[t] = logger_started[t]
  BY <1>1 DEF Inv, Shape
<1>3. Shape'
  BY <1>1 DEF Inv, Shape, ThreadStates
<1>4. Entries'
  BY <1>1, <1>2 DEF Inv, Entries
<1>5. OneLogger'
  BY <1>1, <1>2 DEF Inv, OneLogger
<1>6. OwnOutput'
  BY <1>1, <1>2 DEF Inv, OwnOutput, Active, Source
<1>7. QED
  BY <1>3, <1>4, <1>5, <1>6 DEF Inv

\* srv has no thread any more, and no other service has its fd.
LEMMA CloseInv == ASSUME Inv, Close PROVE Inv'
<1>1. /\ pc = "close" /\ pc' = "loop" /\ srv' = Nobody /\ srv \in Services
      /\ open' = [open EXCEPT ![output_fd[srv]] = Nobody]
      /\ output_fd' = [output_fd EXCEPT ![srv] = NoFd]
      /\ UNCHANGED <<logger_started, proc, thread, fd, mutex>>
  BY DEF Close, Closed, Goto, logger, Inv, Shape
<1>2. /\ output_fd[srv] \in Fds /\ open[output_fd[srv]] = srv /\ proc[srv] = "none"
      /\ ~logger_started[srv] /\ thread[srv] = "none"
  BY <1>1 DEF Inv, Shape, Entries, OneLogger
<1>3. /\ output_fd'[srv] = NoFd /\ open'[output_fd[srv]] = Nobody
      /\ \A t \in Services \ {srv} : output_fd'[t] = output_fd[t]
      /\ \A f \in Fds \ {output_fd[srv]} : open'[f] = open[f]
  BY <1>1, <1>2 DEF Inv, Shape
<1>4. \A t \in Services \ {srv} : output_fd[t] # NoFd => output_fd[t] # output_fd[srv]
  BY <1>2 DEF Inv, Entries
<1>5. Shape'
  BY <1>1, <1>2 DEF Inv, Shape
<1>6. Entries'
  <2>1. ASSUME NEW t \in Services, output_fd'[t] # NoFd PROVE open'[output_fd'[t]] = t
    <3>1. t # srv /\ output_fd'[t] = output_fd[t] /\ open[output_fd[t]] = t
      BY <1>3, <2>1 DEF Inv, Entries
    <3>2. output_fd[t] \in Fds \ {output_fd[srv]}
      BY <1>4, <2>1, <3>1 DEF Inv, Shape
    <3>3. QED
      BY <1>3, <3>1, <3>2
  <2>2. QED
    BY <1>1, <1>2, <1>3, <2>1 DEF Inv, Entries
<1>7. OneLogger'
  <2>1. ASSUME NEW f \in Fds, open'[f] # Nobody PROVE output_fd'[open'[f]] = f
    <3>1. f # output_fd[srv] /\ open'[f] = open[f] /\ output_fd[open[f]] = f
      BY <1>3, <2>1 DEF Inv, OneLogger
    <3>2. open[f] \in Services \ {srv}
      BY <2>1, <3>1 DEF Inv, Shape
    <3>3. QED
      BY <1>3, <3>1, <3>2
  <2>2. QED
    BY <1>1, <1>2, <1>3, <2>1 DEF Inv, OneLogger
<1>8. OwnOutput'
  <2>1. ASSUME NEW t \in Services, Active(t)'
        PROVE  (fd[t] = output_fd[t] /\ fd[t] # NoFd /\ Source(t) = t)'
    <3>1. t # srv /\ Active(t) /\ fd[t] = output_fd[t] /\ open[fd[t]] = t
      BY <1>1, <1>2, <2>1 DEF Inv, OwnOutput, Active, Source
    <3>2. logger_started[t] /\ output_fd[t] # NoFd
      BY <3>1 DEF Inv, OneLogger, Entries, Active
    <3>3. fd[t] \in Fds \ {output_fd[srv]}
      BY <1>4, <3>1, <3>2 DEF Inv, Shape
    <3>4. QED
      BY <1>1, <1>3, <3>1, <3>2, <3>3 DEF Source
  <2>2. QED
    BY <2>1 DEF OwnOutput
<1>9. QED
  BY <1>5, <1>6, <1>7, <1>8 DEF Inv

\* A step of the main thread, or a signal, keeps the invariant.
LEMMA MainInv == ASSUME Inv, Main \/ Signal PROVE Inv'
<1>1. CASE \E s \in Services : Start(s) \/ Reap(s)
  BY <1>1, StartInv, ReapInv
<1>2. CASE Lock
  BY <1>2, MainMoves DEF Lock, Goto, entry, output, logger
<1>3. CASE Unlock
  BY <1>3, MainMoves, ConstAssumption DEF ConstAssumption, Unlock, Goto, entry, output, logger
<1>4. CASE RequestExit
  <2>1. mutex' # "main"
    BY <1>4 DEF RequestExit, Inv, Entries
  <2>2. CASE logger_started[srv]
    BY <1>4, <2>1, <2>2, MainMoves DEF RequestExit, AfterRequest, Goto, output, logger
  <2>3. CASE ~logger_started[srv]
    BY <1>4, <2>1, <2>3, MainMoves DEF RequestExit, Goto, output, logger
  <2>4. QED
    BY <2>2, <2>3
<1>5. CASE Join
  BY <1>5, JoinInv
<1>6. CASE Close
  BY <1>6, CloseInv
<1>7. CASE Signal
  <2>1. CASE mutex = "main"
    BY <1>7, <2>1, MainMoves DEF Inv, Entries, Signal, Goto, entry, output, logger
  <2>2. CASE mutex # "main"
    BY <1>7, <2>2 DEF Inv, Shape, Entries, OneLogger, OwnOutput, Active, Source, Signal,
       entry, output, logger
  <2>3. QED
    BY <2>1, <2>2
<1>8. QED
  BY <1>1, <1>2, <1>3, <1>4, <1>5, <1>6, <1>7 DEF Main

\* What the processes of a service write and close keeps the invariant.
LEMMA ProcessesInv == ASSUME Inv, NEW s \in Services, Processes(s) PROVE Inv'
<1>1. /\ UNCHANGED <<pc, srv, output_fd, logger_started, open, thread, fd, mutex>>
      /\ UNCHANGED proc \/ (proc[s] = "alive" /\ proc' = [proc EXCEPT ![s] = "zombie"])
  BY DEF Processes, Write, Spawn, Die, LetGo, entry, logger
<1>2. Shape' /\ \A t \in Services : proc'[t] = "none" <=> proc[t] = "none"
  BY <1>1 DEF Inv, Shape
<1>3. Entries' /\ OneLogger' /\ OwnOutput'
  BY <1>1, <1>2 DEF Inv, Shape, Entries, OneLogger, OwnOutput, Active, Source
<1>4. QED
  BY <1>2, <1>3 DEF Inv

\* Every step keeps the invariant.
LEMMA NextInv == Inv /\ [Next]_vars => Inv'
<1>1. CASE UNCHANGED vars
  BY <1>1 DEF vars, entry, output, logger, Inv, Shape, Entries, OneLogger, OwnOutput,
     Active, Source
<1>2. CASE Next
  BY <1>2, MainInv, LoggerInv, ProcessesInv DEF Next
<1>3. QED
  BY <1>1, <1>2

-----------------------------------------------------------------------------
(* What has been written and not logged. *)

\* A set of positions that is not empty has a first one.
LEMMA FirstPosition ==
  ASSUME NEW T, T \subseteq Nat, T # {}
  PROVE  \E k \in T : \A j \in T : k <= j
<1>1. PICK k \in T : \A j \in T : ~ (<<j, k>> \in OpToRel(<, Nat))
  BY NatLessThanWellFounded, WFMin
<1>2. \A j \in T : ~ (j < k)
  BY <1>1 DEF OpToRel
<1>3. QED
  BY <1>2

\* The remainder of what is less than twice the divisor.
LEMMA ModuloSmall == \A n \in Nat, m \in Nat : n < m => n % m = n
BY SMTT(30)

\* One turn is taken off, and what remains is less than the divisor.
LEMMA ModuloOnce == \A m \in Nat, r \in Nat : r < m => (m + r) % m = r
BY SMTT(30)

\* Counting modulo M, for less than M chunks.
LEMMA PlusIs ==
  ASSUME NEW a \in 0 .. M - 1, NEW k \in 0 .. M - 1
  PROVE  Plus(a, k) = IF a + k < M THEN a + k ELSE a + k - M
<1>1. a \in Nat /\ k \in Nat /\ M \in Nat
  BY ConstAssumption DEF ConstAssumption
<1>2. CASE a + k < M
  <2>1. a + k \in Nat
    BY <1>1
  <2>2. (a + k) % M = a + k
    BY <1>1, <1>2, <2>1, ModuloSmall, Zenon
  <2>3. QED
    BY <1>2, <2>2 DEF Plus
<1>3. CASE ~ (a + k < M)
  <2>1. PICK r \in Nat : r = a + k - M /\ r < M /\ M + r = a + k
    <3>1. a + k - M \in Nat /\ a + k - M < M /\ M + (a + k - M) = a + k
      BY <1>1, <1>3
    <3>2. QED
      BY <3>1
  <2>2. (M + r) % M = r
    BY <1>1, <2>1, ModuloOnce, Zenon
  <2>3. (a + k) % M = a + k - M
    BY <2>1, <2>2, Zenon
  <2>4. QED
    BY <1>3, <2>3 DEF Plus
<1>4. QED
  BY <1>2, <1>3

\* What has been written and not logged: chunks u in the buffer and v in the
\* terminal are all from number a up to number b.
Stream(a, u, v, b) ==
  /\ Plus(a, Len(u) + Len(v)) = b
  /\ \A i \in 1 .. Len(u) : u[i].n = Plus(a, i - 1)
  /\ \A i \in 1 .. Len(v) : v[i].n = Plus(a, Len(u) + i - 1)

Short(u, v) ==
  /\ u \in Seq(Chunk) /\ v \in Seq(Chunk)
  /\ Len(u) <= BufSize /\ Len(v) <= PtySize

\* Lengths.
LEMMA Lengths ==
  ASSUME NEW u, NEW v, Short(u, v)
  PROVE  /\ Len(u) \in Nat /\ Len(v) \in Nat /\ BufSize \in Nat /\ PtySize \in Nat /\ M \in Nat
         /\ Len(u) + Len(v) < M
BY LenProperties, ConstAssumption DEF ConstAssumption, Short

\* The stream as one sequence.
LEMMA StreamIsUnlogged ==
  ASSUME NEW a \in 0 .. M - 1, NEW b, NEW u, NEW v, Short(u, v), Stream(a, u, v, b)
  PROVE  /\ Plus(a, Len(u \o v)) = b
         /\ \A i \in DOMAIN (u \o v) : (u \o v)[i].n = Plus(a, i - 1)
<1>1. /\ u \o v \in Seq(Chunk) /\ Len(u \o v) = Len(u) + Len(v)
      /\ \A i \in 1 .. Len(u) + Len(v) : (u \o v)[i] = IF i <= Len(u) THEN u[i] ELSE v[i - Len(u)]
  BY ConcatProperties DEF Short
<1>2. DOMAIN (u \o v) = 1 .. Len(u) + Len(v) /\ Len(u) \in Nat /\ Len(v) \in Nat
  BY <1>1, Lengths, LenProperties
<1>3. ASSUME NEW i \in 1 .. Len(u) + Len(v)
      PROVE  (u \o v)[i].n = Plus(a, i - 1)
  <2>1. CASE i <= Len(u)
    BY <1>1, <1>2, <1>3, <2>1 DEF Stream
  <2>2. CASE i > Len(u)
    <3>1. i - Len(u) \in 1 .. Len(v) /\ Len(u) + (i - Len(u)) - 1 = i - 1
      BY <1>2, <1>3, <2>2
    <3>2. v[i - Len(u)].n = Plus(a, Len(u) + (i - Len(u)) - 1)
      BY <3>1 DEF Stream
    <3>3. QED
      BY <1>1, <1>2, <1>3, <2>2, <3>1, <3>2
  <2>3. QED
    BY <1>2, <1>3, <2>1, <2>2
<1>4. QED
  BY <1>1, <1>2, <1>3 DEF Stream

\* The service writes the next chunk.
LEMMA StreamWritten ==
  ASSUME NEW a \in 0 .. M - 1, NEW b, NEW u, NEW v, Short(u, v), Stream(a, u, v, b),
         Len(v) < PtySize, NEW e \in Chunk, e.n = b
  PROVE  Short(u, Append(v, e)) /\ Stream(a, u, Append(v, e), Plus(b, 1))
<1>1. /\ Append(v, e) \in Seq(Chunk) /\ Len(Append(v, e)) = Len(v) + 1
      /\ \A i \in 1 .. Len(v) : Append(v, e)[i] = v[i]
      /\ Append(v, e)[Len(v) + 1] = e
  BY AppendProperties DEF Short
<1>2. Len(u) \in Nat /\ Len(v) \in Nat /\ PtySize \in Nat /\ BufSize \in Nat /\ M \in Nat
      /\ M > BufSize + PtySize /\ Len(u) <= BufSize
  BY Lengths, ConstAssumption DEF ConstAssumption, Short
<1>3. Short(u, Append(v, e))
  BY <1>1, <1>2 DEF Short
<1>4. Plus(a, Len(u) + (Len(v) + 1)) = Plus(b, 1)
  <2> DEFINE k == Len(u) + Len(v)
  <2>1. k \in 0 .. M - 1 /\ k + 1 \in 0 .. M - 1 /\ 1 \in 0 .. M - 1 /\ Plus(a, k) = b
    BY <1>2 DEF Stream
  <2>2. b = IF a + k < M THEN a + k ELSE a + k - M
    BY <2>1, PlusIs
  <2>3. b \in 0 .. M - 1
    BY <2>1, <2>2, <1>2
  <2>4. Plus(b, 1) = IF b + 1 < M THEN b + 1 ELSE b + 1 - M
    BY <2>1, <2>3, PlusIs
  <2>5. Plus(a, k + 1) = IF a + (k + 1) < M THEN a + (k + 1) ELSE a + (k + 1) - M
    BY <2>1, PlusIs
  <2>6. Plus(a, k + 1) = Plus(b, 1)
    BY <2>1, <2>2, <2>4, <2>5, <1>2
  <2>7. k + 1 = Len(u) + (Len(v) + 1)
    BY <1>2
  <2>8. QED
    BY <2>6, <2>7
<1>5. ASSUME NEW i \in 1 .. Len(v) + 1
      PROVE  Append(v, e)[i].n = Plus(a, Len(u) + i - 1)
  <2>1. CASE i <= Len(v)
    BY <1>1, <1>2, <1>5, <2>1 DEF Stream
  <2>2. CASE i = Len(v) + 1
    <3>1. Len(u) + i - 1 = Len(u) + Len(v)
      BY <1>2, <2>2
    <3>2. QED
      BY <1>1, <2>2, <3>1 DEF Stream
  <2>3. QED
    BY <1>2, <1>5, <2>1, <2>2
<1>6. QED
  BY <1>1, <1>3, <1>4, <1>5 DEF Stream

\* The thread reads k chunks into the room it has.
LEMMA StreamRead ==
  ASSUME NEW a \in 0 .. M - 1, NEW b, NEW u, NEW v, Short(u, v), Stream(a, u, v, b),
         NEW k \in 1 .. Len(v), Len(u) + k <= BufSize
  PROVE  /\ Short(u \o SubSeq(v, 1, k), SubSeq(v, k + 1, Len(v)))
         /\ Stream(a, u \o SubSeq(v, 1, k), SubSeq(v, k + 1, Len(v)), b)
<1> DEFINE head == SubSeq(v, 1, k)
           tail == SubSeq(v, k + 1, Len(v))
<1>1. Len(u) \in Nat /\ Len(v) \in Nat /\ PtySize \in Nat /\ BufSize \in Nat /\ Len(v) <= PtySize
  BY Lengths DEF Short
<1>2. \A i \in 1 .. Len(v) : v[i] \in Chunk
  BY LenProperties DEF Short
<1>3. head \in Seq(Chunk) /\ Len(head) = k /\ \A i \in 1 .. k : head[i] = v[i]
  BY <1>1, <1>2, SubSeqProperties
<1>4. /\ tail \in Seq(Chunk) /\ Len(tail) = Len(v) - k
      /\ \A i \in 1 .. Len(v) - k : tail[i] = v[k + i]
  BY <1>1, <1>2, SubSeqProperties
<1> HIDE DEF head, tail
<1>5. /\ u \o head \in Seq(Chunk) /\ Len(u \o head) = Len(u) + k
      /\ \A i \in 1 .. Len(u) + k : (u \o head)[i] = IF i <= Len(u) THEN u[i] ELSE head[i - Len(u)]
  BY <1>3, ConcatProperties DEF Short
<1>6. Short(u \o head, tail)
  BY <1>1, <1>4, <1>5 DEF Short
<1>7. ASSUME NEW i \in 1 .. Len(u) + k
      PROVE  (u \o head)[i].n = Plus(a, i - 1)
  <2>1. CASE i <= Len(u)
    BY <1>1, <1>5, <1>7, <2>1 DEF Stream
  <2>2. CASE i > Len(u)
    <3>1. i - Len(u) \in 1 .. k /\ i - Len(u) \in 1 .. Len(v) /\ Len(u) + (i - Len(u)) - 1 = i - 1
      BY <1>1, <1>7, <2>2
    <3>2. v[i - Len(u)].n = Plus(a, Len(u) + (i - Len(u)) - 1)
      BY <3>1 DEF Stream
    <3>3. QED
      BY <1>1, <1>3, <1>5, <1>7, <2>2, <3>1, <3>2
  <2>3. i <= Len(u) \/ i > Len(u)
    BY <1>1
  <2>4. QED
    BY <2>1, <2>2, <2>3
<1>8. ASSUME NEW i \in 1 .. Len(v) - k
      PROVE  tail[i].n = Plus(a, Len(u) + k + i - 1)
  <2>1. k + i \in 1 .. Len(v) /\ Len(u) + (k + i) - 1 = Len(u) + k + i - 1
    BY <1>1, <1>8
  <2>2. v[k + i].n = Plus(a, Len(u) + (k + i) - 1)
    BY <2>1 DEF Stream
  <2>3. QED
    BY <1>4, <1>8, <2>1, <2>2
<1>9. Plus(a, (Len(u) + k) + (Len(v) - k)) = b
  <2>1. (Len(u) + k) + (Len(v) - k) = Len(u) + Len(v)
    BY <1>1
  <2>2. QED
    BY <2>1 DEF Stream
<1>10. Stream(a, u \o head, tail, b)
  BY <1>4, <1>5, <1>7, <1>8, <1>9 DEF Stream
<1>11. QED
  BY <1>6, <1>10 DEF head, tail

\* The first k chunks of the buffer are logged.
LEMMA StreamLogged ==
  ASSUME NEW a \in 0 .. M - 1, NEW b, NEW u, NEW v, Short(u, v), Stream(a, u, v, b),
         NEW k \in 0 .. Len(u)
  PROVE  /\ Short(SubSeq(u, k + 1, Len(u)), v) /\ Plus(a, k) \in 0 .. M - 1
         /\ Stream(Plus(a, k), SubSeq(u, k + 1, Len(u)), v, b)
         /\ Len(SubSeq(u, k + 1, Len(u))) = Len(u) - k
         /\ \A i \in 1 .. Len(u) - k : SubSeq(u, k + 1, Len(u))[i] = u[k + i]
<1> DEFINE rest == SubSeq(u, k + 1, Len(u))
           c == Plus(a, k)
<1>1. Len(u) \in Nat /\ Len(v) \in Nat /\ M \in Nat /\ BufSize \in Nat /\ Len(u) + Len(v) < M
      /\ Len(u) <= BufSize /\ k \in 0 .. M - 1
  BY Lengths DEF Short
<1>2. /\ rest \in Seq(Chunk) /\ Len(rest) = Len(u) - k
      /\ \A i \in 1 .. Len(u) - k : rest[i] = u[k + i]
  <2>1. \A i \in 1 .. Len(u) : u[i] \in Chunk
    BY LenProperties DEF Short
  <2>2. QED
    BY <1>1, <2>1, SubSeqProperties
<1>3. Short(rest, v)
  BY <1>1, <1>2 DEF Short
<1>4. c = IF a + k < M THEN a + k ELSE a + k - M
  BY <1>1, PlusIs
<1>5. c \in 0 .. M - 1
  BY <1>1, <1>4
<1>6. ASSUME NEW j \in 0 .. M - 1, k + j < M
      PROVE  Plus(c, j) = Plus(a, k + j)
  <2>1. k + j \in 0 .. M - 1
    BY <1>1, <1>6
  <2>2. Plus(c, j) = IF c + j < M THEN c + j ELSE c + j - M
    BY <1>5, <1>6, PlusIs
  <2>3. Plus(a, k + j) = IF a + (k + j) < M THEN a + (k + j) ELSE a + (k + j) - M
    BY <2>1, PlusIs
  <2>4. QED
    BY <1>1, <1>4, <1>6, <2>2, <2>3
<1> HIDE DEF rest, c
<1>7. Plus(c, Len(rest) + Len(v)) = b
  <2>1. /\ (Len(u) - k) + Len(v) \in 0 .. M - 1 /\ k + ((Len(u) - k) + Len(v)) < M
        /\ k + ((Len(u) - k) + Len(v)) = Len(u) + Len(v)
    BY <1>1
  <2>2. Plus(c, (Len(u) - k) + Len(v)) = Plus(a, Len(u) + Len(v))
    BY <1>6, <2>1
  <2>3. QED
    BY <1>2, <2>2 DEF Stream
<1>8. ASSUME NEW i \in 1 .. Len(u) - k
      PROVE  rest[i].n = Plus(c, i - 1)
  <2>1. k + i \in 1 .. Len(u) /\ (k + i) - 1 = k + (i - 1) /\ i - 1 \in 0 .. M - 1 /\ k + (i - 1) < M
    BY <1>1, <1>8
  <2>2. u[k + i].n = Plus(a, (k + i) - 1)
    BY <2>1 DEF Stream
  <2>3. QED
    BY <1>2, <1>6, <1>8, <2>1, <2>2
<1>9. ASSUME NEW i \in 1 .. Len(v)
      PROVE  v[i].n = Plus(c, (Len(u) - k) + i - 1)
  <2>1. /\ (Len(u) - k) + i - 1 \in 0 .. M - 1 /\ k + ((Len(u) - k) + i - 1) < M
        /\ k + ((Len(u) - k) + i - 1) = Len(u) + i - 1
    BY <1>1, <1>9
  <2>2. v[i].n = Plus(a, Len(u) + i - 1)
    BY <1>9 DEF Stream
  <2>3. QED
    BY <1>6, <2>1, <2>2
<1>10. Stream(c, rest, v, b)
  BY <1>2, <1>7, <1>8, <1>9 DEF Stream
<1>11. QED
  BY <1>2, <1>3, <1>5, <1>10 DEF rest, c

-----------------------------------------------------------------------------
(* Nothing is lost, and lines are whole. *)

\* What the positions of the thread of a service promise of its data: th is
\* the position, u the buffer, v the terminal, a and b the numbers of the next
\* chunk to be logged and to be written, n the writers, e the end seen, l the
\* line logged last.
Piece(th, u, v, a, b, n, e, l) ==
  /\ Short(u, v) /\ a \in 0 .. M - 1 /\ b \in 0 .. M - 1
  /\ th # "none" => Stream(a, u, v, b)
  /\ th \in {"none", "new"} => u = << >>
  /\ e => v = << >> /\ n = 0 /\ th \in {"flush", "check", "ended"}
  /\ e /\ th # "flush" => u = << >>
  /\ th \in {"poll", "read", "check", "flush", "ended"} => Ends(u) = {}
  /\ th = "flush" => e \/ Len(u) = BufSize
  /\ l # << >> => \/ Ends(l) = {Len(l)}
                  \/ Ends(l) = {} /\ (Len(l) = BufSize \/ e \/ th = "none")

PieceOf(s) ==
  Piece(thread[s], buf[s], pty[s], logged[s], written[s], writers[s], eof[s], line[s])

Functional ==
  /\ pty \in [Services -> Seq(Chunk)] /\ buf \in [Services -> Seq(Chunk)]
  /\ line \in [Services -> Seq(Chunk)]
  /\ logged \in [Services -> Nat] /\ written \in [Services -> Nat]
  /\ writers \in [Services -> Nat] /\ eof \in [Services -> BOOLEAN]

Data == Functional /\ \A s \in Services : PieceOf(s)

\* A step that leaves the data of all services but s alone.
LEMMA OneService ==
  ASSUME Data, NEW s \in Services, Functional', PieceOf(s)',
         \A t \in Services \ {s} :
           /\ thread'[t] = thread[t] /\ buf'[t] = buf[t] /\ pty'[t] = pty[t]
           /\ logged'[t] = logged[t] /\ written'[t] = written[t]
           /\ writers'[t] = writers[t] /\ eof'[t] = eof[t] /\ line'[t] = line[t]
  PROVE  Data'
<1>1. ASSUME NEW t \in Services PROVE PieceOf(t)'
  <2>1. CASE t = s
    BY <2>1
  <2>2. CASE t # s
    BY <2>2 DEF Data, PieceOf
  <2>3. QED
    BY <2>1, <2>2
<1>2. QED
  BY <1>1 DEF Data

\* An empty text has no end of a line, and nothing of it is outstanding.
LEMMA EmptyStream ==
  /\ Ends(<< >>) = {} /\ Short(<< >>, << >>) /\ 0 \in 0 .. M - 1 /\ 0 \in Nat
  /\ Stream(0, << >>, << >>, 0)
<1>1. << >> \in Seq(Chunk) /\ Len(<< >>) = 0 /\ DOMAIN << >> = {}
  BY LenProperties, EmptySeq
<1>2. BufSize \in Nat /\ PtySize \in Nat /\ M \in Nat /\ 0 \in 0 .. M - 1
  BY ConstAssumption DEF ConstAssumption
<1>3. Plus(0, 0) = 0
  BY <1>2, PlusIs
<1>4. QED
  BY <1>1, <1>2, <1>3 DEF Ends, Short, Stream

\* Nothing has been written at the start.
LEMMA InitData == Init => Data
<1> SUFFICES ASSUME Init PROVE Data
  OBVIOUS
<1>1. Functional
  BY EmptyStream DEF Init, Functional, Short
<1>2. ASSUME NEW s \in Services PROVE PieceOf(s)
  <2>1. Piece("none", << >>, << >>, 0, 0, 0, FALSE, << >>)
    BY EmptyStream DEF Piece
  <2>2. QED
    BY <2>1 DEF Init, PieceOf
<1>3. QED
  BY <1>1, <1>2 DEF Data

\* Main starts a service.
LEMMA StartData == ASSUME Inv, Data, NEW s \in Services, Start(s) PROVE Data'
<1>1. /\ writers' = [writers EXCEPT ![s] = 1] /\ pty' = [pty EXCEPT ![s] = << >>]
      /\ written' = [written EXCEPT ![s] = 0] /\ logged' = [logged EXCEPT ![s] = 0]
      /\ line' = [line EXCEPT ![s] = << >>] /\ UNCHANGED <<buf, eof>>
      /\ pc = "loop" /\ proc[s] = "none"
  BY DEF Start
<1>2. PICK th \in {"none", "new"} : thread' = [thread EXCEPT ![s] = th]
  BY DEF Start
<1>3. thread[s] = "none"
  BY <1>1 DEF Inv, OneLogger
<1>4. buf[s] = << >> /\ ~ eof[s]
  BY <1>3 DEF Data, PieceOf, Piece, Functional
<1>5. Functional'
  BY <1>1, EmptyStream DEF Data, Functional, Short
<1>6. thread \in [Services -> ThreadStates]
  BY DEF Inv, Shape
<1>7. Piece(th, << >>, << >>, 0, 0, 1, FALSE, << >>)
  BY EmptyStream DEF Piece
<1>8. PieceOf(s)'
  BY <1>1, <1>2, <1>4, <1>6, <1>7 DEF Data, Functional, PieceOf
<1>9. QED
  BY <1>1, <1>2, <1>5, <1>6, <1>8, OneService DEF Data, Functional

\* Main joins the thread.
LEMMA JoinData == ASSUME Inv, Data, Join PROVE Data'
<1>1. PICK s \in Services :
        /\ thread' = [thread EXCEPT ![s] = "none"]
        /\ buf' = [buf EXCEPT ![s] = << >>] /\ eof' = [eof EXCEPT ![s] = FALSE]
  BY DEF Join, Inv, Shape
<1>2. UNCHANGED <<pty, logged, written, writers, line>>
  BY DEF Join, output, history
<1>3. thread \in [Services -> ThreadStates]
  BY DEF Inv, Shape
<1>4. Functional'
  BY <1>1, <1>2, EmptyStream DEF Data, Functional, Short
<1>5. Piece("none", << >>, pty[s], logged[s], written[s], writers[s], FALSE, line[s])
  BY EmptyStream DEF Data, PieceOf, Piece, Short
<1>6. PieceOf(s)'
  BY <1>1, <1>2, <1>3, <1>5 DEF Data, Functional, PieceOf
<1>7. QED
  BY <1>1, <1>2, <1>3, <1>4, <1>6, OneService DEF Data, Functional

\* Main and the signals touch the data in no other step.
LEMMA MainData == ASSUME Inv, Data, Main \/ Signal PROVE Data'
<1>1. ASSUME UNCHANGED <<thread, buf, pty, logged, written, writers, eof, line>> PROVE Data'
  BY <1>1 DEF Data, Functional, PieceOf
<1>2. CASE \E s \in Services : Start(s) \/ Reap(s)
  BY <1>1, <1>2, StartData DEF Reap, logger, history
<1>3. CASE Join
  BY <1>3, JoinData
<1>4. CASE Lock \/ Unlock \/ RequestExit \/ Close \/ Signal
  BY <1>1, <1>4 DEF Lock, Unlock, RequestExit, Close, Signal, output, logger, history
<1>5. QED
  BY <1>2, <1>3, <1>4 DEF Main

\* The thread of s moves and leaves the data alone, but for the end seen.
LEMMA MoveData ==
  ASSUME Inv, Data, NEW s \in Services, NEW label, Move(s, label),
         NEW e \in BOOLEAN, eof' = [eof EXCEPT ![s] = e],
         UNCHANGED <<buf, pty, logged, written, writers, line>>,
         Piece(label, buf[s], pty[s], logged[s], written[s], writers[s], e, line[s])
  PROVE  Data'
<1>1. thread \in [Services -> ThreadStates]
  BY DEF Inv, Shape
<1>2. Functional'
  BY DEF Data, Functional
<1>3. PieceOf(s)'
  BY <1>1 DEF Data, Functional, PieceOf, Move
<1>4. QED
  BY <1>1, <1>2, <1>3, OneService DEF Data, Functional, Move

\* The thread of s logs the first k chunks of its buffer.
LEMMA LogData ==
  ASSUME Inv, Data, NEW s \in Services, NEW label \in {"check", "lines"}, Move(s, label),
         thread[s] # "none", NEW k \in 0 .. Len(buf[s]), LogLine(s, k),
         NEW rest, rest = SubSeq(buf[s], k + 1, Len(buf[s])),
         NEW text, text = SubSeq(buf[s], 1, k),
         label = "check" => Ends(rest) = {},
         eof[s] => label = "check" /\ rest = << >>,
         \/ Ends(text) = {Len(text)}
         \/ Ends(text) = {} /\ (Len(text) = BufSize \/ eof[s])
  PROVE  Data'
<1>1. thread \in [Services -> ThreadStates]
  BY DEF Inv, Shape
<1>2. /\ Short(buf[s], pty[s]) /\ logged[s] \in 0 .. M - 1 /\ written[s] \in 0 .. M - 1
      /\ Stream(logged[s], buf[s], pty[s], written[s])
      /\ eof[s] => pty[s] = << >> /\ writers[s] = 0
  BY DEF Data, PieceOf, Piece
<1>3. /\ Short(rest, pty[s]) /\ Plus(logged[s], k) \in 0 .. M - 1
      /\ Stream(Plus(logged[s], k), rest, pty[s], written[s])
  <2>1. /\ Short(SubSeq(buf[s], k + 1, Len(buf[s])), pty[s])
        /\ Plus(logged[s], k) \in 0 .. M - 1
        /\ Stream(Plus(logged[s], k), SubSeq(buf[s], k + 1, Len(buf[s])), pty[s], written[s])
    BY <1>2, StreamLogged
  <2>2. QED
    BY <2>1
<1>4. text \in Seq(Chunk)
  <2>1. Len(buf[s]) \in Nat /\ \A i \in 1 .. k : buf[s][i] \in Chunk
    BY <1>2, LenProperties DEF Short
  <2>2. QED
    BY <2>1, SubSeqProperties
<1>5. /\ line' = [line EXCEPT ![s] = text] /\ buf' = [buf EXCEPT ![s] = rest]
      /\ logged' = [logged EXCEPT ![s] = Plus(logged[s], k)]
      /\ UNCHANGED <<pty, written, writers, eof>>
  BY DEF LogLine, Data, Functional, output
<1>6. Functional'
  <2>1. rest \in Seq(Chunk) /\ Plus(logged[s], k) \in Nat
    BY <1>3, ConstAssumption DEF ConstAssumption, Short
  <2>2. logged' \in [Services -> Nat] /\ buf' \in [Services -> Seq(Chunk)]
    BY <1>5, <2>1 DEF Data, Functional
  <2>3. QED
    BY <1>4, <1>5, <2>2 DEF Data, Functional
<1>7. Piece(label, rest, pty[s], Plus(logged[s], k), written[s], writers[s], eof[s], text)
  BY <1>2, <1>3 DEF Piece
<1>8. PieceOf(s)'
  BY <1>1, <1>5, <1>7 DEF Data, Functional, PieceOf, Move
<1>9. QED
  BY <1>1, <1>5, <1>6, <1>8, OneService DEF Data, Functional, Move

\* The texts cut from the buffer: what is logged of it, and what remains.
LEMMA Cut ==
  ASSUME NEW u \in Seq(Chunk), NEW k \in 0 .. Len(u)
  PROVE  /\ Len(SubSeq(u, 1, k)) = k
         /\ Ends(SubSeq(u, 1, k)) = {i \in Ends(u) : i <= k}
         /\ k = Len(u) => SubSeq(u, k + 1, Len(u)) = << >>
<1>1. Len(u) \in Nat /\ DOMAIN u = 1 .. Len(u) /\ \A i \in 1 .. Len(u) : u[i] \in Chunk
  BY LenProperties
<1>2. /\ SubSeq(u, 1, k) \in Seq(Chunk) /\ Len(SubSeq(u, 1, k)) = k
      /\ \A i \in 1 .. k : SubSeq(u, 1, k)[i] = u[i]
  BY <1>1, SubSeqProperties
<1>3. DOMAIN SubSeq(u, 1, k) = 1 .. k
  BY <1>2, LenProperties
<1>4. Ends(SubSeq(u, 1, k)) = {i \in Ends(u) : i <= k}
  BY <1>1, <1>2, <1>3 DEF Ends
<1>5. k = Len(u) => SubSeq(u, k + 1, Len(u)) = << >>
  <2>1. SUFFICES ASSUME k = Len(u) PROVE SubSeq(u, k + 1, Len(u)) = << >>
    OBVIOUS
  <2>2. SubSeq(u, k + 1, Len(u)) \in Seq(Chunk) /\ Len(SubSeq(u, k + 1, Len(u))) = 0
    BY <1>1, <2>1, SubSeqProperties
  <2>3. QED
    BY <2>2, EmptySeq
<1>6. QED
  BY <1>2, <1>4, <1>5

\* What a thread sees behind its fd is its own service's.
LEMMA OwnSource ==
  ASSUME Inv, NEW s \in Services, Active(s)
  PROVE  Source(s) = s /\ s # Nobody
BY ConstAssumption DEF ConstAssumption, Inv, OwnOutput

\* The thread reads k chunks.
LEMMA ReadData ==
  ASSUME Inv, Data, NEW s \in Services, At(s, "read"), Move(s, "lines"),
         UNCHANGED <<logged, written, writers, eof, line>>,
         NEW k \in 1 .. Room(s), k <= Len(pty[s]),
         buf' = [buf EXCEPT ![s] = @ \o SubSeq(pty[s], 1, k)],
         pty' = [pty EXCEPT ![s] = SubSeq(@, k + 1, Len(@))]
  PROVE  Data'
<1>1. thread \in [Services -> ThreadStates] /\ thread[s] = "read"
  BY DEF Inv, Shape, At
<1>2. /\ Short(buf[s], pty[s]) /\ logged[s] \in 0 .. M - 1 /\ written[s] \in 0 .. M - 1
      /\ Stream(logged[s], buf[s], pty[s], written[s]) /\ eof[s] = FALSE
      /\ line[s] # << >> => \/ Ends(line[s]) = {Len(line[s])}
                            \/ Ends(line[s]) = {} /\ Len(line[s]) = BufSize
  BY <1>1 DEF Data, Functional, PieceOf, Piece
<1>3. k \in 1 .. Len(pty[s]) /\ Len(buf[s]) + k <= BufSize
  BY <1>2, Lengths DEF Room
<1>4. PICK u, v : /\ u = buf[s] \o SubSeq(pty[s], 1, k) /\ v = SubSeq(pty[s], k + 1, Len(pty[s]))
                  /\ Short(u, v) /\ Stream(logged[s], u, v, written[s])
  BY <1>2, <1>3, StreamRead
<1>5. buf' = [buf EXCEPT ![s] = u] /\ pty' = [pty EXCEPT ![s] = v]
  BY <1>4 DEF Data, Functional
<1>6. Functional'
  BY <1>4, <1>5 DEF Data, Functional, Short
<1>7. Piece("lines", u, v, logged[s], written[s], writers[s], FALSE, line[s])
  BY <1>2, <1>4 DEF Piece
<1>8. PieceOf(s)'
  BY <1>1, <1>2, <1>5, <1>7 DEF Data, Functional, PieceOf, Move
<1>9. QED
  BY <1>1, <1>5, <1>6, <1>8, OneService DEF Data, Functional, Move

\* A step of the thread of s.
LEMMA LoggerData == ASSUME Inv, Data, NEW s \in Services, Logger(s) PROVE Data'
<1> DEFINE P(label, e) == Piece(label, buf[s], pty[s], logged[s], written[s], writers[s], e, line[s])
<1>1. P(thread[s], eof[s]) /\ eof[s] \in BOOLEAN /\ eof = [eof EXCEPT ![s] = eof[s]]
  BY DEF Data, Functional, PieceOf
<1>2. ASSUME NEW label, Move(s, label), UNCHANGED <<eof, output, buf, history>>, P(label, eof[s])
      PROVE  Data'
  BY <1>1, <1>2, MoveData DEF output, history
<1>3. CASE Begin(s)
  <2>1. thread[s] = "new" /\ Move(s, "poll") /\ UNCHANGED <<eof, output, buf, history>>
    BY <1>3 DEF Begin, At
  <2>2. P("poll", eof[s])
    BY <1>1, <2>1, EmptyStream DEF Piece
  <2>3. QED
    BY <1>2, <2>1, <2>2
<1>4. CASE Poll(s)
  <2>1. thread[s] = "poll" /\ UNCHANGED <<buf, output, history>>
    BY <1>4 DEF Poll, At
  <2>2. Source(s) = s /\ s # Nobody
    BY <2>1, OwnSource DEF Active
  <2>3. CASE Available(s) /\ Move(s, "read") /\ UNCHANGED eof
    <3>1. P("read", eof[s])
      BY <1>1, <2>1 DEF Piece
    <3>2. QED
      BY <1>2, <2>1, <2>3, <3>1
  <2>4. CASE HungUp(s) /\ eof' = [eof EXCEPT ![s] = TRUE] /\ Move(s, AfterHangUp(s))
    <3>1. pty[s] = << >> /\ writers[s] = 0
      BY <2>2, <2>4 DEF HungUp
    <3>2. P(AfterHangUp(s), TRUE)
      BY <1>1, <2>1, <3>1 DEF Piece, AfterHangUp
    <3>3. QED
      BY <2>1, <2>4, <3>2, MoveData DEF output, history
  <2>5. CASE Move(s, "ended") /\ UNCHANGED eof
    <3>1. P("ended", eof[s])
      BY <1>1, <2>1 DEF Piece
    <3>2. QED
      BY <1>2, <2>1, <2>5, <3>1
  <2>6. QED
    BY <1>4, <2>3, <2>4, <2>5 DEF Poll
<1>5. CASE Read(s)
  <2>1. thread[s] = "read" /\ UNCHANGED <<proc, writers, open, eof, history>>
    BY <1>5 DEF Read, At
  <2>2. Source(s) = s
    BY <2>1, OwnSource DEF Active
  <2>3. CASE Room(s) = 0
    <3>1. Move(s, "flush") /\ UNCHANGED <<eof, output, buf, history>>
      BY <1>5, <2>1, <2>3 DEF Read, output
    <3>2. Len(buf[s]) = BufSize
      BY <1>1, <2>3, Lengths DEF Room, Piece
    <3>3. P("flush", eof[s])
      BY <1>1, <2>1, <3>2 DEF Piece
    <3>4. QED
      BY <1>2, <3>1, <3>3
  <2>4. CASE Room(s) # 0
    <3>1. PICK k \in 1 .. Room(s) :
            /\ k <= Len(pty[s]) /\ Move(s, "lines")
            /\ buf' = [buf EXCEPT ![s] = @ \o SubSeq(pty[s], 1, k)]
            /\ pty' = [pty EXCEPT ![s] = SubSeq(@, k + 1, Len(@))]
      BY <1>5, <2>2, <2>4 DEF Read
    <3>2. QED
      BY <1>5, <2>1, <3>1, ReadData DEF Read, history
  <2>5. QED
    BY <2>3, <2>4
<1>6. CASE Lines(s)
  <2>1. thread[s] = "lines" /\ ~ eof[s] /\ buf[s] \in Seq(Chunk)
    BY <1>1, <1>6 DEF Lines, At, Piece, Short
  <2>2. CASE Ends(buf[s]) = {}
    <3>1. Move(s, "check") /\ UNCHANGED <<eof, output, buf, history>>
      BY <1>6, <2>2 DEF Lines
    <3>2. P("check", eof[s])
      BY <1>1, <2>1, <2>2 DEF Piece
    <3>3. QED
      BY <1>2, <3>1, <3>2
  <2>3. CASE Ends(buf[s]) # {}
    <3> DEFINE k == FirstEnd(buf[s])
               text == SubSeq(buf[s], 1, k)
               rest == SubSeq(buf[s], k + 1, Len(buf[s]))
    <3>1. Ends(buf[s]) \subseteq 1 .. Len(buf[s]) /\ Len(buf[s]) \in Nat
      BY <2>1, LenProperties DEF Ends
    <3>2. \E j \in Ends(buf[s]) : \A i \in Ends(buf[s]) : j <= i
      BY <2>3, <3>1, FirstPosition
    <3>3. k \in Ends(buf[s]) /\ \A i \in Ends(buf[s]) : k <= i
      BY <3>2 DEF FirstEnd
    <3>4. LogLine(s, k) /\ Move(s, AfterLine(s, k))
      BY <1>6, <2>3 DEF Lines
    <3> HIDE DEF k
    <3>5. k \in 0 .. Len(buf[s])
      BY <3>1, <3>3
    <3>6. /\ Len(text) = k /\ Ends(text) = {i \in Ends(buf[s]) : i <= k}
          /\ k = Len(buf[s]) => rest = << >>
      BY <2>1, <3>5, Cut
    <3>7. Ends(text) = {Len(text)}
      BY <3>1, <3>3, <3>6
    <3>8. AfterLine(s, k) \in {"check", "lines"} /\ (AfterLine(s, k) = "check" => Ends(rest) = {})
      BY <3>6, EmptyStream DEF AfterLine
    <3>9. QED
      BY <2>1, <3>4, <3>5, <3>7, <3>8, LogData
  <2>4. QED
    BY <2>2, <2>3
<1>7. CASE Flush(s)
  <2> DEFINE k == Len(buf[s])
             text == SubSeq(buf[s], 1, k)
             rest == SubSeq(buf[s], k + 1, Len(buf[s]))
  <2>1. /\ thread[s] = "flush" /\ buf[s] \in Seq(Chunk) /\ Ends(buf[s]) = {}
        /\ eof[s] \/ Len(buf[s]) = BufSize
    BY <1>1, <1>7 DEF Flush, At, Piece, Short
  <2>2. k \in 0 .. Len(buf[s])
    BY <2>1, LenProperties
  <2>3. Len(text) = k /\ Ends(text) = {} /\ rest = << >>
    BY <2>1, <2>2, Cut
  <2>4. LogLine(s, k) /\ Move(s, "check")
    BY <1>7 DEF Flush
  <2>5. QED
    BY <2>1, <2>2, <2>3, <2>4, EmptyStream, LogData
<1>8. CASE Check(s)
  <2>1. /\ thread[s] = "check" /\ Move(s, IF Done(s) THEN "ended" ELSE "poll")
        /\ UNCHANGED <<eof, output, buf, history>>
    BY <1>8 DEF Check, At
  <2>2. P(IF Done(s) THEN "ended" ELSE "poll", eof[s])
    BY <1>1, <2>1 DEF Piece, Done
  <2>3. QED
    BY <1>2, <2>1, <2>2
<1>9. QED
  BY <1>3, <1>4, <1>5, <1>6, <1>7, <1>8 DEF Logger

\* The processes of s.
LEMMA ProcessesData == ASSUME Inv, Data, NEW s \in Services, Processes(s) PROVE Data'
<1>1. PieceOf(s) /\ thread \in [Services -> ThreadStates]
  BY DEF Data, Inv, Shape
<1>2. CASE Write(s)
  <2>1. PICK eol \in BOOLEAN :
          pty' = [pty EXCEPT ![s] = Append(@, [n |-> written[s], eol |-> eol])]
    BY <1>2 DEF Write
  <2>2. /\ written' = [written EXCEPT ![s] = Plus(@, 1)] /\ writers[s] > 0 /\ Len(pty[s]) < PtySize
        /\ UNCHANGED <<thread, buf, eof, writers, logged, line>>
    BY <1>2 DEF Write, logger
  <2> DEFINE e == [n |-> written[s], eol |-> eol]
             v == Append(pty[s], e)
  <2>3. e \in Chunk /\ e.n = written[s] /\ written[s] \in 0 .. M - 1 /\ ~ eof[s]
    BY <1>1, <2>2 DEF PieceOf, Piece, Chunk
  <2>4. Short(buf[s], v) /\ (thread[s] # "none" => Stream(logged[s], buf[s], v, Plus(written[s], 1)))
    <3>1. CASE thread[s] # "none"
      BY <1>1, <2>2, <2>3, <3>1, StreamWritten DEF PieceOf, Piece
    <3>2. CASE thread[s] = "none"
      <4>1. Short(buf[s], pty[s]) /\ Len(pty[s]) \in Nat /\ PtySize \in Nat
        BY <1>1, Lengths DEF PieceOf, Piece
      <4>2. v \in Seq(Chunk) /\ Len(v) = Len(pty[s]) + 1
        BY <2>3, <4>1, AppendProperties DEF Short
      <4>3. QED
        BY <2>2, <3>2, <4>1, <4>2 DEF Short
    <3>3. QED
      BY <3>1, <3>2
  <2>5. Plus(written[s], 1) \in 0 .. M - 1
    <3>1. 1 \in 0 .. M - 1 /\ M \in Nat
      BY ConstAssumption DEF ConstAssumption
    <3>2. Plus(written[s], 1) = IF written[s] + 1 < M THEN written[s] + 1 ELSE written[s] + 1 - M
      BY <2>3, <3>1, PlusIs
    <3>3. QED
      BY <2>3, <3>1, <3>2
  <2> HIDE DEF e, v
  <2>6. pty' = [pty EXCEPT ![s] = v]
    BY <2>1 DEF e, v
  <2>7. Functional'
    BY <2>2, <2>4, <2>5, <2>6, ConstAssumption DEF ConstAssumption, Data, Functional, Short
  <2>8. Piece(thread[s], buf[s], v, logged[s], Plus(written[s], 1), writers[s], eof[s], line[s])
    BY <1>1, <2>3, <2>4, <2>5 DEF PieceOf, Piece
  <2>9. PieceOf(s)'
    BY <2>2, <2>6, <2>8 DEF Data, Functional, PieceOf
  <2>10. QED
    BY <2>2, <2>6, <2>7, <2>9, OneService DEF Data, Functional
<1>3. CASE Spawn(s) \/ Die(s) \/ LetGo(s)
  <2>1. UNCHANGED <<thread, buf, pty, eof, logged, written, line>>
    BY <1>3 DEF Spawn, Die, LetGo, logger, history
  <2>2. /\ writers' \in [Services -> Nat] /\ (writers[s] = 0 => writers'[s] = 0)
        /\ \A t \in Services \ {s} : writers'[t] = writers[t]
    <3>1. writers \in [Services -> Nat]
      BY DEF Data, Functional
    <3>2. CASE Spawn(s)
      BY <3>1, <3>2 DEF Spawn
    <3>3. CASE Die(s)
      <4>1. writers' = [writers EXCEPT ![s] = IF writers[s] > 0 THEN writers[s] - 1 ELSE 0]
        BY <3>3 DEF Die
      <4>2. QED
        BY <3>1, <4>1
    <3>4. CASE LetGo(s)
      BY <3>1, <3>4 DEF LetGo
    <3>5. QED
      BY <1>3, <3>2, <3>3, <3>4
  <2>3. Functional'
    BY <2>1, <2>2 DEF Data, Functional
  <2>4. Piece(thread[s], buf[s], pty[s], logged[s], written[s], writers'[s], eof[s], line[s])
    BY <1>1, <2>2 DEF PieceOf, Piece
  <2>5. PieceOf(s)'
    BY <2>1, <2>4 DEF PieceOf
  <2>6. QED
    BY <2>1, <2>2, <2>3, <2>5, OneService
<1>4. QED
  BY <1>2, <1>3 DEF Processes

\* Every step keeps both invariants.
LEMMA NextData == Inv /\ Data /\ [Next]_vars => Data'
<1>1. CASE UNCHANGED vars
  BY <1>1 DEF vars, output, logger, history, Data, Functional, PieceOf
<1>2. CASE Next
  BY <1>2, MainData, LoggerData, ProcessesData DEF Next
<1>3. QED
  BY <1>1, <1>2

\* What the invariants say of what was written, and of the line logged last.
LEMMA DataMeans == Inv /\ Data => NothingLost /\ LinesAreWhole
<1> SUFFICES ASSUME Inv, Data PROVE NothingLost /\ LinesAreWhole
  OBVIOUS
<1>1. ASSUME NEW s \in Services, Active(s) \/ (thread[s] = "ended" /\ eof[s])
      PROVE  /\ Plus(logged[s], Len(Unlogged(s))) = written[s]
             /\ \A i \in DOMAIN Unlogged(s) : Unlogged(s)[i].n = Plus(logged[s], i - 1)
             /\ thread[s] = "ended" /\ writers[s] = 0 => Unlogged(s) = << >>
  <2>1. PieceOf(s) /\ thread[s] # "none"
    BY <1>1 DEF Data, Active
  <2>2. /\ Plus(logged[s], Len(Unlogged(s))) = written[s]
        /\ \A i \in DOMAIN Unlogged(s) : Unlogged(s)[i].n = Plus(logged[s], i - 1)
    <3>1. /\ Short(buf[s], pty[s]) /\ logged[s] \in 0 .. M - 1
          /\ Stream(logged[s], buf[s], pty[s], written[s])
      BY <2>1 DEF PieceOf, Piece
    <3>2. /\ Plus(logged[s], Len(buf[s] \o pty[s])) = written[s]
          /\ \A i \in DOMAIN (buf[s] \o pty[s]) :
               (buf[s] \o pty[s])[i].n = Plus(logged[s], i - 1)
      <4> DEFINE u == buf[s]
                 v == pty[s]
                 a == logged[s]
                 b == written[s]
      <4> HIDE DEF u, v, a, b
      <4>1. a \in 0 .. M - 1 /\ Short(u, v) /\ Stream(a, u, v, b)
        BY <3>1 DEF u, v, a, b
      <4>2. /\ Plus(a, Len(u \o v)) = b
            /\ \A i \in DOMAIN (u \o v) : (u \o v)[i].n = Plus(a, i - 1)
        BY <4>1, StreamIsUnlogged
      <4>3. QED
        BY <4>2 DEF u, v, a, b
    <3>3. QED
      BY <3>2 DEF Unlogged
  <2>3. ASSUME thread[s] = "ended" PROVE Unlogged(s) = << >>
    <3>1. buf[s] = << >> /\ pty[s] = << >>
      BY <1>1, <2>1, <2>3 DEF PieceOf, Piece, Active
    <3>2. << >> \o << >> = << >>
      BY EmptyStream, ConcatEmptySeq DEF Short
    <3>3. QED
      BY <3>1, <3>2 DEF Unlogged
  <2>4. QED
    BY <2>2, <2>3
<1>2. LinesAreWhole
  BY DEF Data, PieceOf, Piece, LinesAreWhole
<1>3. QED
  BY <1>1, <1>2 DEF NothingLost

\* The invariants hold in every state.
LEMMA AlwaysInv == Spec => [](Inv /\ Data)
BY InitInv, NextInv, InitData, NextData, PTL DEF Spec

\* Whatever the interleaving of main and the logger threads, a thread that
\* reads or logs has the fd of its own service, which is open and carries that
\* service's output: the fd main closes is never one a thread still uses, so
\* its number can be reused (service_logger and the reaping in cinit.c).
THEOREM OwnOutputCorrect == Spec => []OwnOutput
BY AlwaysInv, PTL DEF Inv

\* A service that is started (again) has no thread and no open fd left from its
\* previous process, so it never has two loggers, and no fd is leaked
\* (logger_started, output_fd and the join in cinit.c).
THEOREM OneLoggerCorrect == Spec => []OneLogger
BY AlwaysInv, PTL DEF Inv

\* The chunks a service wrote and the thread has not logged are in its buffer
\* and in the terminal, all of them, once and in order, and none is left when
\* the thread has seen the end of the output (read_lines in utils.c,
\* log_prefixer_callback in log.c).
THEOREM NothingLostCorrect == Spec => []NothingLost
BY AlwaysInv, DataMeans, PTL

\* What is logged as a line ends where the service ended it and nowhere before,
\* but for a text as long as the buffer and the text before the end of the
\* output (read_lines in utils.c).
THEOREM LinesAreWholeCorrect == Spec => []LinesAreWhole
BY AlwaysInv, DataMeans, PTL
=============================================================================
