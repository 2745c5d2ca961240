------------------------- MODULE ServiceLoader_proofs -------------------------
(***************************************************************************)
(* For any services directory, with circles, disabled services and a table *)
(* that is too small: the table lists every service once, the start order  *)
(* is a permutation of those that are enabled, and a service comes after   *)
(* those it depends on, unless they lead back to it.                       *)
(*                                                                         *)
(* The inductive invariant says where the next service is inserted: the    *)
(* services of the stack are the end of the order, and a call in progress  *)
(* comes from the innermost of them.                                       *)
(***************************************************************************)
EXTENDS ServiceLoader, FiniteSetTheorems, SequenceTheorems, TLAPS

\* A call comes from main, before anything is loaded, or from the innermost frame.
Calling ==
  pc = "call" => \/ stack = << >> /\ order = << >>
                 \/ stack # << >> /\ arg.dependent = stack[1].service

LoaderInv == TypeOK /\ OrderOfTable /\ StackIsSuffix /\ Calling

-----------------------------------------------------------------------------
(* Lemmas about sequences. *)

\* What InsertAt of the community modules returns.
LEMMA Inserted ==
  ASSUME NEW S, NEW s \in Seq(S), NEW e \in S, NEW i \in 1..Len(s)
  PROVE  /\ InsertAt(s, i, e) \in Seq(S)
         /\ Len(InsertAt(s, i, e)) = Len(s) + 1
         /\ \A j \in 1..(i - 1) : InsertAt(s, i, e)[j] = s[j]
         /\ InsertAt(s, i, e)[i] = e
         /\ \A j \in (i + 1)..(Len(s) + 1) : InsertAt(s, i, e)[j] = s[j - 1]
<1> DEFINE front == SubSeq(s, 1, i - 1)
           back == SubSeq(s, i, Len(s))
           t == front \o <<e>>
<1>0. Len(s) \in Nat
  BY LenProperties
<1>1. front \in Seq(S) /\ Len(front) = i - 1 /\ \A j \in 1..(i - 1) : front[j] = s[j]
  BY <1>0, SubSeqProperties, LenProperties, SMTT(30)
<1>2. back \in Seq(S) /\ Len(back) = Len(s) - i + 1
       /\ \A j \in 1..(Len(s) - i + 1) : back[j] = s[i + j - 1]
  BY <1>0, SubSeqProperties, LenProperties, SMTT(30)
<1>3. t \in Seq(S) /\ Len(t) = i /\ t[i] = e /\ \A j \in 1..(i - 1) : t[j] = s[j]
  <2> HIDE DEF front
  <2>1. <<e>> \in Seq(S) /\ Len(<<e>>) = 1 /\ <<e>>[1] = e
    OBVIOUS
  <2> QED  BY <1>0, <1>1, <2>1, ConcatProperties, SMTT(30)
<1>4. InsertAt(s, i, e) = t \o back
  BY DEF InsertAt
<1> HIDE DEF t, back
<1>5. /\ t \o back \in Seq(S) /\ Len(t \o back) = Len(t) + Len(back)
      /\ \A j \in 1..(Len(t) + Len(back)) :
            (t \o back)[j] = IF j <= Len(t) THEN t[j] ELSE back[j - Len(t)]
  BY <1>2, <1>3, ConcatProperties
<1> QED  BY <1>0, <1>2, <1>3, <1>4, <1>5, SMTT(30)

\* Appending an element that is not there.
LEMMA AppendNew ==
  ASSUME NEW S, NEW s \in Seq(S), NEW e \in S, e \notin ToSet(s), Distinct(s)
  PROVE  /\ Append(s, e) \in Seq(S) /\ Len(Append(s, e)) = Len(s) + 1
         /\ Distinct(Append(s, e)) /\ ToSet(Append(s, e)) = ToSet(s) \cup {e}
<1>1. /\ Append(s, e) \in Seq(S) /\ Len(Append(s, e)) = Len(s) + 1
      /\ DOMAIN Append(s, e) = 1..(Len(s) + 1) /\ DOMAIN s = 1..Len(s) /\ Len(s) \in Nat
      /\ \A i \in 1..Len(s) : Append(s, e)[i] = s[i]
      /\ Append(s, e)[Len(s) + 1] = e
  BY AppendProperties, LenProperties
<1>2. Distinct(Append(s, e))
  BY <1>1 DEF Distinct, ToSet
<1>3. ToSet(Append(s, e)) = ToSet(s) \cup {e}
  BY <1>1 DEF ToSet
<1> QED  BY <1>1, <1>2, <1>3

\* Inserting an element that is not there.
LEMMA InsertNew ==
  ASSUME NEW S, NEW s \in Seq(S), NEW e \in S, NEW i \in 1..Len(s),
         e \notin ToSet(s), Distinct(s)
  PROVE  Distinct(InsertAt(s, i, e)) /\ ToSet(InsertAt(s, i, e)) = ToSet(s) \cup {e}
<1> DEFINE t == InsertAt(s, i, e)
<1>1. /\ Len(s) \in Nat /\ DOMAIN s = 1..Len(s) /\ DOMAIN t = 1..(Len(s) + 1)
      /\ \A j \in 1..(i - 1) : t[j] = s[j]
      /\ t[i] = e
      /\ \A j \in (i + 1)..(Len(s) + 1) : t[j] = s[j - 1]
  BY Inserted, LenProperties
<1> HIDE DEF t
<1>2. ASSUME NEW j \in 1..(Len(s) + 1), j # i PROVE t[j] \in ToSet(s)
  <2>1. CASE j < i
    BY <2>1, <1>1 DEF ToSet
  <2>2. CASE j > i
    <3>1. j - 1 \in 1..Len(s) /\ j \in (i + 1)..(Len(s) + 1)
      BY <2>2, <1>1
    <3> QED  BY <3>1, <1>1 DEF ToSet
  <2> QED  BY <2>1, <2>2, <1>2, <1>1
<1>3. Distinct(t)
  <2> SUFFICES ASSUME NEW j \in 1..(Len(s) + 1), NEW k \in 1..(Len(s) + 1), t[j] = t[k]
               PROVE  j = k
    BY <1>1 DEF Distinct
  <2>1. CASE j = i \/ k = i
    BY <2>1, <1>1, <1>2
  <2>2. CASE j # i /\ k # i
    <3> DEFINE from(n) == IF n < i THEN n ELSE n - 1
    <3>1. from(j) \in 1..Len(s) /\ from(k) \in 1..Len(s) /\ t[j] = s[from(j)] /\ t[k] = s[from(k)]
      BY <1>1, <2>2
    <3>2. from(j) = from(k)
      BY <3>1, <1>1 DEF Distinct
    <3>3. i \in Nat /\ j \in Nat /\ k \in Nat
      OBVIOUS
    <3> QED  BY <3>2, <3>3, <2>2
  <2> QED  BY <2>1, <2>2
<1>4. ToSet(t) = ToSet(s) \cup {e}
  <2>1. ASSUME NEW x \in ToSet(t) PROVE x \in ToSet(s) \cup {e}
    <3>1. PICK j \in 1..(Len(s) + 1) : x = t[j]
      BY <1>1 DEF ToSet
    <3> QED  BY <3>1, <1>1, <1>2
  <2>2. ASSUME NEW x \in ToSet(s) PROVE x \in ToSet(t)
    <3>1. PICK j \in 1..Len(s) : x = s[j]
      BY <1>1 DEF ToSet
    <3>2. CASE j < i
      BY <3>1, <3>2, <1>1 DEF ToSet
    <3>3. CASE j >= i
      <4>1. j + 1 \in (i + 1)..(Len(s) + 1) /\ j + 1 \in DOMAIN t
        BY <3>1, <3>3, <1>1
      <4>2. t[j + 1] = s[j]
        BY <4>1, <1>1
      <4> QED  BY <3>1, <4>1, <4>2 DEF ToSet
    <3> QED  BY <3>1, <3>2, <3>3
  <2>3. e \in ToSet(t)
    BY <1>1 DEF ToSet
  <2> QED  BY <2>1, <2>2, <2>3
<1> QED  BY <1>3, <1>4 DEF t

-----------------------------------------------------------------------------
(* The inductive invariant. *)

\* The invariant holds when main calls load_service_with_deps.
LEMMA LoaderInit == Init => LoaderInv
<1> SUFFICES ASSUME Init PROVE LoaderInv
  OBVIOUS
<1>1. TypeOK
  BY LoaderAssumption DEF Init, TypeOK, Root, Frame
<1>2. OrderOfTable
  <2>1. tree.limit \in Nat /\ ToSet(order) = {} /\ EnabledLoaded = {}
    BY <1>1 DEF Init, TypeOK, Tree, ToSet, EnabledLoaded, IsLoaded
  <2> QED  BY <2>1 DEF Init, OrderOfTable, Distinct
<1>3. StackIsSuffix /\ Calling
  BY DEF Init, StackIsSuffix, Calling
<1> QED  BY <1>1, <1>2, <1>3 DEF LoaderInv

\* What the invariant says about a call that loads: the service is neither in the
\* table nor in the order, and there is room for it.
LEMMA NotLoaded ==
  ASSUME LoaderInv, pc = "call", ~IsLoaded(arg.service), ~LoadFails(arg.service)
  PROVE  /\ arg.service \in Names
         /\ arg.service \notin ToSet(table) /\ arg.service \notin ToSet(order)
         /\ Len(table) + 1 <= tree.limit
<1>1. arg.service \in Names
  BY DEF LoaderInv, TypeOK
<1>2. arg.service \notin ToSet(table) /\ arg.service \notin ToSet(order)
  BY DEF LoaderInv, OrderOfTable, EnabledLoaded, ToSet, IsLoaded
<1>3. Len(table) \in Nat /\ tree.limit \in Nat /\ Len(table) <= tree.limit /\ Len(table) # tree.limit
  BY LenProperties DEF LoaderInv, TypeOK, Tree, OrderOfTable, LoadFails
<1> QED  BY <1>1, <1>2, <1>3

\* A service that is disabled takes its place in the table only.
LEMMA LoadDisabledStep == ASSUME LoaderInv, LoadDisabled PROVE LoaderInv'
<1>1. /\ arg.service \in Names
      /\ arg.service \notin ToSet(table) /\ arg.service \notin ToSet(order)
      /\ Len(table) + 1 <= tree.limit
  BY NotLoaded DEF LoadDisabled
<1>2. /\ table' \in Seq(Names) /\ Len(table') = Len(table) + 1
      /\ Distinct(table') /\ ToSet(table') = ToSet(table) \cup {arg.service}
  BY <1>1, AppendNew DEF LoadDisabled, LoaderInv, TypeOK, OrderOfTable
<1>3. TypeOK'
  BY <1>1, <1>2 DEF LoadDisabled, LoaderInv, TypeOK, Return
<1>4. OrderOfTable'
  <2>1. EnabledLoaded' = EnabledLoaded
    BY <1>2 DEF EnabledLoaded, IsLoaded, ToSet, LoadDisabled
  <2> QED  BY <1>1, <1>2, <2>1 DEF OrderOfTable, LoaderInv, LoadDisabled
<1>5. StackIsSuffix' /\ Calling'
  BY DEF LoadDisabled, LoaderInv, StackIsSuffix, Calling, Return
<1> QED  BY <1>3, <1>4, <1>5 DEF LoaderInv

\* The order after a load: the new service is right before its dependent, which is
\* where the services of the stack begin.
LEMMA OrderAfterLoad ==
  ASSUME LoaderInv, Load
  PROVE  /\ order' \in Seq(Names) /\ Len(order') = Len(order) + 1
         /\ Distinct(order') /\ ToSet(order') = ToSet(order) \cup {arg.service}
         /\ order'[Len(order) + 1 - Len(stack)] = arg.service
         /\ \A i \in DOMAIN stack : order'[Len(order) + 1 - Len(stack) + i] = stack[i].service
         /\ \A j \in 1..Len(order) :
              order'[IF j <= Len(order) - Len(stack) THEN j ELSE j + 1] = order[j]
<1> DEFINE s == arg.service
<1>1. s \in Names /\ s \notin ToSet(order)
  BY NotLoaded DEF Load
<1>2. order \in Seq(Names) /\ Distinct(order) /\ DOMAIN order = 1..Len(order) /\ Len(order) \in Nat
  BY LenProperties DEF LoaderInv, TypeOK, OrderOfTable
<1>3. stack \in Seq(Frame) /\ DOMAIN stack = 1..Len(stack) /\ Len(stack) \in Nat
      /\ Len(stack) <= Len(order)
  BY LenProperties DEF LoaderInv, TypeOK, StackIsSuffix
<1>4. CASE stack = << >> /\ order = << >>
  <2>1. order' = <<s>>
    BY <1>4 DEF Load, add_to_start_order
  <2> QED  BY <2>1, <1>1, <1>4 DEF Distinct, ToSet
<1>5. CASE stack # << >> /\ arg.dependent = stack[1].service
  <2> DEFINE at == Len(order) - Len(stack) + 1
  <2>1. Len(stack) >= 1 /\ at \in 1..Len(order)
    BY <1>2, <1>3, <1>5, EmptySeq
  <2>2. order[at] = arg.dependent
    BY <2>1, <1>3, <1>5 DEF LoaderInv, StackIsSuffix
  <2>3. Position(arg.dependent) = at
    BY <2>1, <2>2, <1>2 DEF Position, Distinct
  <2>4. order' = InsertAt(order, at, s)
    BY <2>1, <2>3, <1>2 DEF Load, add_to_start_order
  <2>5. at = Len(order) + 1 - Len(stack)
    BY <1>2, <1>3
  <2> HIDE DEF at
  <2>6. /\ order' \in Seq(Names) /\ Len(order') = Len(order) + 1
        /\ order'[at] = s
        /\ \A j \in 1..(at - 1) : order'[j] = order[j]
        /\ \A j \in (at + 1)..(Len(order) + 1) : order'[j] = order[j - 1]
    <3> HIDE DEF s
    <3>1. at \in 1..Len(order) /\ s \in Names /\ order \in Seq(Names)
      BY <2>1, <1>1, <1>2
    <3>2. /\ InsertAt(order, at, s) \in Seq(Names)
          /\ Len(InsertAt(order, at, s)) = Len(order) + 1
          /\ InsertAt(order, at, s)[at] = s
          /\ \A j \in (at + 1)..(Len(order) + 1) : InsertAt(order, at, s)[j] = order[j - 1]
      BY <3>1, Inserted
    <3>3. \A j \in 1..(at - 1) : InsertAt(order, at, s)[j] = order[j]
      BY <3>1, Inserted
    <3> QED  BY <2>4, <3>2, <3>3
  <2>7. Distinct(order') /\ ToSet(order') = ToSet(order) \cup {s}
    BY <2>1, <2>4, <1>1, <1>2, InsertNew
  <2>8. ASSUME NEW i \in DOMAIN stack
        PROVE  order'[Len(order) + 1 - Len(stack) + i] = stack[i].service
    <3>1. at + i \in (at + 1)..(Len(order) + 1) /\ at + i - 1 = Len(order) - Len(stack) + i
      BY <1>2, <1>3, <2>5
    <3>2. order'[at + i] = order[Len(order) - Len(stack) + i]
      <4>1. order'[at + i] = order[(at + i) - 1]
        BY <2>6, <3>1
      <4> QED  BY <3>1, <4>1, <2>1, <1>2, <1>3
    <3>3. order[Len(order) - Len(stack) + i] = stack[i].service
      BY DEF LoaderInv, StackIsSuffix
    <3>4. at + i = Len(order) + 1 - Len(stack) + i
      BY <1>2, <1>3, <2>5
    <3> QED  BY <3>2, <3>3, <3>4
  <2>9. ASSUME NEW j \in 1..Len(order)
        PROVE  order'[IF j <= Len(order) - Len(stack) THEN j ELSE j + 1] = order[j]
    <3>1. CASE j <= Len(order) - Len(stack)
      <4>1. j \in 1..(at - 1)
        BY <3>1, <2>5, <1>2, <1>3
      <4> QED  BY <3>1, <4>1, <2>6
    <3>2. CASE ~(j <= Len(order) - Len(stack))
      <4>1. j + 1 \in (at + 1)..(Len(order) + 1) /\ (j + 1) - 1 = j
        BY <3>2, <2>5, <1>2, <1>3
      <4>2. order'[j + 1] = order[(j + 1) - 1]
        BY <4>1, <2>6
      <4> QED  BY <3>2, <4>1, <4>2
    <3> QED  BY <3>1, <3>2
  <2> QED  BY <2>6, <2>7, <2>8, <2>9, <2>5
<1> QED  BY <1>4, <1>5 DEF LoaderInv, Calling, Load

\* The stack after a load: the service is on top of it.
LEMMA StackAfterLoad ==
  ASSUME LoaderInv, Load
  PROVE  /\ stack' \in Seq(Frame) /\ Len(stack') = Len(stack) + 1 /\ Len(stack) \in Nat
         /\ stack'[1] = [service |-> arg.service, todo |-> DepFiles(arg.service)]
         /\ \A i \in 2..(Len(stack) + 1) : stack'[i] = stack[i - 1]
<1> DEFINE frame == [service |-> arg.service, todo |-> DepFiles(arg.service)]
<1>1. frame \in Frame /\ stack \in Seq(Frame) /\ <<frame>> \in Seq(Frame)
  BY DEF Frame, DepFiles, LoaderInv, TypeOK
<1>2. stack' = <<frame>> \o stack
  BY DEF Load
<1> HIDE DEF frame
<1>3. Len(<<frame>>) = 1 /\ <<frame>>[1] = frame /\ Len(stack) \in Nat
  BY <1>1, LenProperties
<1>4. /\ stack' \in Seq(Frame) /\ Len(stack') = Len(stack) + 1
      /\ stack'[1] = frame
      /\ \A i \in 2..(Len(stack) + 1) : stack'[i] = stack[i - 1]
  BY <1>1, <1>2, <1>3, ConcatProperties, SMTT(30)
<1> QED  BY <1>3, <1>4 DEF frame

\* A load puts the service into table, order and stack.
LEMMA LoadStep == ASSUME LoaderInv, Load PROVE LoaderInv'
<1> DEFINE frame == [service |-> arg.service, todo |-> DepFiles(arg.service)]
<1>1. /\ arg.service \in Names
      /\ arg.service \notin ToSet(table)
      /\ Len(table) + 1 <= tree.limit
  BY NotLoaded DEF Load
<1>2. /\ table' \in Seq(Names) /\ Len(table') = Len(table) + 1
      /\ Distinct(table') /\ ToSet(table') = ToSet(table) \cup {arg.service}
  BY <1>1, AppendNew DEF Load, LoaderInv, TypeOK, OrderOfTable
<1>3. /\ order' \in Seq(Names) /\ Len(order') = Len(order) + 1
      /\ Distinct(order') /\ ToSet(order') = ToSet(order) \cup {arg.service}
      /\ order'[Len(order) + 1 - Len(stack)] = arg.service
      /\ \A i \in DOMAIN stack : order'[Len(order) + 1 - Len(stack) + i] = stack[i].service
  BY OrderAfterLoad
<1>4. stack \in Seq(Frame)
  BY DEF LoaderInv, TypeOK
<1>5. /\ stack' \in Seq(Frame) /\ Len(stack') = Len(stack) + 1
      /\ stack'[1] = frame
      /\ \A i \in 2..(Len(stack) + 1) : stack'[i] = stack[i - 1]
  BY StackAfterLoad
<1> HIDE DEF frame
<1>6. TypeOK'
  <2>1. stack' # << >>
    BY <1>4, <1>5, LenProperties
  <2> QED  BY <1>1, <1>2, <1>3, <1>5, <2>1 DEF Load, LoaderInv, TypeOK
<1>7. OrderOfTable'
  <2>1. EnabledLoaded' = EnabledLoaded \cup {arg.service}
    <3>1. EnabledLoaded = {x \in Names : x \in ToSet(table) /\ tree.kind[x] = "enabled"}
      BY DEF EnabledLoaded, IsLoaded, ToSet
    <3>2. EnabledLoaded' = {x \in Names : x \in ToSet(table') /\ tree.kind[x] = "enabled"}
      BY DEF EnabledLoaded, IsLoaded, ToSet, Load
    <3>3. tree.kind[arg.service] = "enabled"
      BY DEF Load
    <3> QED  BY <1>1, <1>2, <3>1, <3>2, <3>3
  <2> QED  BY <1>1, <1>2, <1>3, <2>1 DEF OrderOfTable, LoaderInv, Load
<1>8. StackIsSuffix'
  <2>1. /\ Len(stack) \in Nat /\ Len(order) \in Nat /\ Len(stack) <= Len(order)
        /\ DOMAIN stack = 1..Len(stack) /\ DOMAIN stack' = 1..(Len(stack) + 1)
    BY <1>4, <1>5, LenProperties DEF LoaderInv, TypeOK, StackIsSuffix
  <2>2. ASSUME NEW i \in DOMAIN stack' PROVE order'[Len(order') - Len(stack') + i] = stack'[i].service
    <3>1. CASE i = 1
      <4>1. Len(order') - Len(stack') + i = Len(order) + 1 - Len(stack)
        BY <3>1, <2>1, <1>3, <1>5
      <4> QED  BY <4>1, <3>1, <1>3, <1>5 DEF frame
    <3>2. CASE i # 1
      <4>1. i - 1 \in DOMAIN stack /\ i \in 2..(Len(stack) + 1)
        BY <3>2, <2>1
      <4>2. Len(order') - Len(stack') + i = Len(order) + 1 - Len(stack) + (i - 1)
        BY <3>2, <2>1, <1>3, <1>5
      <4> QED  BY <4>1, <4>2, <1>3, <1>5
    <3> QED  BY <3>1, <3>2
  <2> QED  BY <2>1, <2>2, <1>3, <1>5 DEF StackIsSuffix
<1>9. Calling'
  BY DEF Load, Calling
<1> QED  BY <1>6, <1>7, <1>8, <1>9 DEF LoaderInv

\* The stack after a directory entry was read: the same services.
LEMMA StackAfterScan ==
  ASSUME LoaderInv, Scan
  PROVE  /\ 1 \in DOMAIN stack /\ DOMAIN stack = 1..Len(stack) /\ Len(stack) \in Nat
         /\ stack[1] \in Frame
         /\ stack' \in Seq(Frame) /\ Len(stack') = Len(stack) /\ DOMAIN stack' = DOMAIN stack
         /\ \A i \in DOMAIN stack : stack'[i].service = stack[i].service
<1>1. PICK d \in stack[1].todo : stack' = [stack EXCEPT ![1].todo = Remaining(d)]
  BY DEF Scan
<1>2. /\ stack \in Seq(Frame) /\ 1 \in 1..Len(stack) /\ Len(stack) \in Nat
      /\ DOMAIN stack = 1..Len(stack) /\ stack[1] \in Frame
  <2>1. stack \in Seq(Frame) /\ stack # << >>
    BY DEF Scan, LoaderInv, TypeOK
  <2>2. Len(stack) \in Nat /\ DOMAIN stack = 1..Len(stack) /\ 1 \in 1..Len(stack)
    BY <2>1, EmptySeq, LenProperties
  <2>3. stack[1] \in Frame
    BY <2>1, <2>2, ElementOfSeq
  <2> QED  BY <2>1, <2>2, <2>3
<1> DEFINE frame == [stack[1] EXCEPT !.todo = Remaining(d)]
<1>3. frame \in Frame /\ frame.service = stack[1].service
  BY <1>2 DEF Frame, Remaining
<1>4. stack' = [stack EXCEPT ![1] = frame]
  BY <1>1
<1> HIDE DEF frame
<1>5. /\ stack' \in Seq(Frame) /\ Len(stack') = Len(stack)
      /\ \A j \in 1..Len(stack) : stack'[j] = IF j = 1 THEN frame ELSE stack[j]
  BY <1>2, <1>3, <1>4, ExceptSeq
<1>6. DOMAIN stack' = 1..Len(stack)
  BY <1>5, LenProperties
<1> QED  BY <1>2, <1>3, <1>5, <1>6

\* A directory entry is read: the stack keeps its services.
LEMMA ScanStep == ASSUME LoaderInv, Scan PROVE LoaderInv'
<1>1. PICK d \in stack[1].todo : \E depends \in Depends(d) :
        /\ stack' = [stack EXCEPT ![1].todo = Remaining(d)]
        /\ IF depends
           THEN /\ pc' = "call"
                /\ arg' = [service |-> d, dependent |-> stack[1].service]
                /\ followed' = followed \cup {<<stack[1].service, d>>}
           ELSE UNCHANGED <<pc, arg, followed>>
  BY DEF Scan
<1>2. /\ 1 \in 1..Len(stack) /\ Len(stack) \in Nat
      /\ stack[1] \in Frame /\ d \in Names
  BY StackAfterScan DEF Frame
<1>3. /\ stack' \in Seq(Frame) /\ Len(stack') = Len(stack) /\ DOMAIN stack' = DOMAIN stack
      /\ \A i \in DOMAIN stack : stack'[i].service = stack[i].service
      /\ 1 \in DOMAIN stack
  BY StackAfterScan
<1>4. TypeOK'
  <2>1. stack' # << >>
    BY <1>2, <1>3, LenProperties
  <2>2. stack[1].service \in Names
    BY <1>2 DEF Frame
  <2>3. pc' \in {"call", "scan"} /\ arg' \in [service : Names, dependent : Names]
    BY <1>1, <1>2, <2>2 DEF Scan, LoaderInv, TypeOK
  <2>4. followed' \subseteq Names \X Names
    BY <1>1, <1>2, <2>2 DEF LoaderInv, TypeOK
  <2> QED  BY <1>3, <2>1, <2>3, <2>4 DEF Scan, LoaderInv, TypeOK
<1>5. OrderOfTable'
  BY DEF Scan, LoaderInv, OrderOfTable, EnabledLoaded, IsLoaded
<1>6. StackIsSuffix'
  BY <1>3 DEF Scan, LoaderInv, StackIsSuffix
<1>7. Calling'
  <2>1. stack' # << >>
    BY <1>2, <1>3, LenProperties
  <2>2. pc' = "call" => arg'.dependent = stack'[1].service
    <3>1. stack'[1].service = stack[1].service
      BY <1>3
    <3>2. pc = "scan"
      BY DEF Scan
    <3>3. pc' = pc \/ arg' = [service |-> d, dependent |-> stack[1].service]
      BY <1>1
    <3> QED  BY <3>1, <3>2, <3>3
  <2> QED  BY <2>1, <2>2 DEF Calling
<1> QED  BY <1>4, <1>5, <1>6, <1>7 DEF LoaderInv

\* A frame is left: the services of the others are still the end of the order.
LEMMA EndOfScanStep == ASSUME LoaderInv, EndOfScan PROVE LoaderInv'
<1>1. stack \in Seq(Frame) /\ stack # << >> /\ stack' = Tail(stack)
  BY DEF EndOfScan, LoaderInv, TypeOK
<1>2. /\ stack' \in Seq(Frame) /\ Len(stack') = Len(stack) - 1 /\ Len(stack) \in Nat
      /\ Len(stack) >= 1 /\ \A i \in 1..(Len(stack) - 1) : stack'[i] = stack[i + 1]
      /\ DOMAIN stack' = 1..Len(stack') /\ DOMAIN stack = 1..Len(stack)
  <2>1. stack' \in Seq(Frame) /\ Len(stack) \in Nat \ {0}
    BY <1>1, EmptySeq, HeadTailProperties
  <2> QED  BY <1>1, <2>1, HeadTailProperties, LenProperties
<1>3. TypeOK'
  BY <1>1, <1>2 DEF EndOfScan, LoaderInv, TypeOK, Return
<1>4. OrderOfTable'
  BY DEF EndOfScan, LoaderInv, OrderOfTable, EnabledLoaded, IsLoaded
<1>5. StackIsSuffix'
  <2>1. Len(order) \in Nat /\ Len(stack) <= Len(order) /\ order' = order
    BY LenProperties DEF EndOfScan, LoaderInv, TypeOK, StackIsSuffix
  <2>2. ASSUME NEW i \in DOMAIN stack' PROVE order'[Len(order') - Len(stack') + i] = stack'[i].service
    <3>1. i + 1 \in DOMAIN stack /\ stack'[i] = stack[i + 1]
      BY <1>2
    <3>2. Len(order') - Len(stack') + i = Len(order) - Len(stack) + (i + 1)
      BY <1>2, <2>1
    <3> QED  BY <3>1, <3>2, <2>1 DEF LoaderInv, StackIsSuffix
  <2> QED  BY <1>2, <2>1, <2>2 DEF StackIsSuffix
<1>6. Calling'
  BY DEF EndOfScan, Calling, Return
<1> QED  BY <1>3, <1>4, <1>5, <1>6 DEF LoaderInv

\* Every step of the recursion keeps the invariant.
LEMMA LoaderStep == LoaderInv /\ [Next]_vars => LoaderInv'
<1> SUFFICES ASSUME LoaderInv, [Next]_vars PROVE LoaderInv'
  OBVIOUS
<1>1. CASE AlreadyLoaded
  BY <1>1 DEF AlreadyLoaded, Return, LoaderInv, TypeOK, OrderOfTable, EnabledLoaded, IsLoaded,
              StackIsSuffix, Calling
<1>2. CASE Failed
  BY <1>2 DEF Failed, LoaderInv, TypeOK, OrderOfTable, EnabledLoaded, IsLoaded, StackIsSuffix, Calling
<1>3. CASE LoadDisabled
  BY <1>3, LoadDisabledStep
<1>4. CASE Load
  BY <1>4, LoadStep
<1>5. CASE Scan
  BY <1>5, ScanStep
<1>6. CASE EndOfScan
  BY <1>6, EndOfScanStep
<1>7. CASE UNCHANGED vars
  BY <1>7 DEF vars, LoaderInv, TypeOK, OrderOfTable, EnabledLoaded, IsLoaded, StackIsSuffix, Calling
<1> QED  BY <1>1, <1>2, <1>3, <1>4, <1>5, <1>6, <1>7 DEF Next

-----------------------------------------------------------------------------
(* Chains of dependencies. *)

\* Every nonempty set of natural numbers has a least element.
LEMMA LeastNat ==
  ASSUME NEW T, T \subseteq Nat, T # {}
  PROVE  \E x \in T : \A y \in T : x <= y
<1> DEFINE C == {0..(n - 1) : n \in T}
<1>1. C \subseteq FiniteSubsetsOf(Nat)
  <2>1. ASSUME NEW n \in T PROVE IsFiniteSet(0..(n - 1))
    BY FS_Interval
  <2>2. QED
    BY <2>1 DEF FiniteSubsetsOf
<1>2. C # {}
  OBVIOUS
<1>3. PICK m \in C : \A y \in C : ~(<<y, m>> \in StrictSubsetOrdering(Nat))
  <2> HIDE DEF C
  <2>1. QED
    BY <1>1, <1>2, FS_StrictSubsetOrderingWellFounded, WFMin
<1>4. PICK x \in T : m = 0..(x - 1)
  OBVIOUS
<1>5. ASSUME NEW y \in T, y < x PROVE FALSE
  <2>1. 0..(y - 1) \in C
    OBVIOUS
  <2>2. 0..(y - 1) \subseteq 0..(x - 1) /\ y \in 0..(x - 1) /\ y \notin 0..(y - 1)
    BY <1>5
  <2> DEFINE p == <<0..(y - 1), 0..(x - 1)>>
  <2>3. p \in (SUBSET Nat) \X (SUBSET Nat) /\ p[1] \subseteq p[2] /\ p[1] # p[2]
    BY <2>2
  <2>4. p \in StrictSubsetOrdering(Nat)
    <3> HIDE DEF p
    <3>1. QED
      BY <2>3 DEF StrictSubsetOrdering
  <2>5. QED
    BY <1>3, <1>4, <2>1, <2>4
<1>6. QED
  BY <1>5

\* A chain of n dependencies from s to t.
IsChain(chain, n, edges, s, t) ==
  /\ chain \in [0..n -> Names] /\ chain[0] = s /\ chain[n] = t
  /\ \A i \in 0..(n - 1) : <<chain[i], chain[i + 1]>> \in edges

Chained(n, edges, s, t) == \E chain \in [0..n -> Names] : IsChain(chain, n, edges, s, t)
LeadsTo(edges, s, t) == \E n \in 0..Cardinality(Names) : Chained(n, edges, s, t)

\* The function that defines the closure.
IsStep(step, edges, from) ==
  step = [n \in 0..Cardinality(Names) |->
            IF n = 0 THEN {from}
            ELSE step[n - 1] \cup {t \in Names : \E s \in step[n - 1] : <<s, t>> \in edges}]

\* Chains get longer at their end.
LEMMA LongerChain ==
  ASSUME NEW n \in Nat, NEW edges, NEW s, NEW t, NEW u \in Names,
         Chained(n, edges, s, t), <<t, u>> \in edges
  PROVE  Chained(n + 1, edges, s, u)
<1>1. PICK chain \in [0..n -> Names] : IsChain(chain, n, edges, s, t)
  BY DEF Chained
<1> DEFINE longer == [i \in 0..(n + 1) |-> IF i = n + 1 THEN u ELSE chain[i]]
<1>2. longer \in [0..(n + 1) -> Names]
  BY <1>1
<1>3. longer[0] = s /\ longer[n + 1] = u
  BY <1>1 DEF IsChain
<1>4. ASSUME NEW i \in 0..n PROVE <<longer[i], longer[i + 1]>> \in edges
  <2>1. CASE i = n
    BY <1>1, <2>1 DEF IsChain
  <2>2. CASE i < n
    BY <1>1, <2>2 DEF IsChain
  <2>3. QED
    BY <2>1, <2>2
<1> HIDE DEF longer
<1>5. IsChain(longer, n + 1, edges, s, u)
  BY <1>2, <1>3, <1>4 DEF IsChain
<1>6. QED
  BY <1>2, <1>5 DEF Chained

\* Chains without their last dependency.
LEMMA ShorterChain ==
  ASSUME NEW n \in Nat \ {0}, NEW edges, NEW s, NEW u, Chained(n, edges, s, u)
  PROVE  \E t \in Names : Chained(n - 1, edges, s, t) /\ <<t, u>> \in edges
<1>1. PICK chain \in [0..n -> Names] : IsChain(chain, n, edges, s, u)
  BY DEF Chained
<1> DEFINE shorter == [i \in 0..(n - 1) |-> chain[i]]
           t == chain[n - 1]
<1>2. shorter \in [0..(n - 1) -> Names] /\ t \in Names
  BY <1>1
<1>3. <<t, u>> \in edges
  BY <1>1 DEF IsChain
<1>4. IsChain(shorter, n - 1, edges, s, t)
  BY <1>1 DEF IsChain
<1> HIDE DEF shorter, t
<1>5. QED
  BY <1>2, <1>3, <1>4 DEF Chained

\* There is such a function: the services chains of at most n dependencies lead to.
LEMMA StepExists ==
  ASSUME NEW edges, NEW from \in Names
  PROVE  \E step : IsStep(step, edges, from)
<1> DEFINE N == Cardinality(Names)
           reached(n) == {t \in Names : \E m \in 0..n : Chained(m, edges, from, t)}
           step == [n \in 0..N |-> reached(n)]
<1>1. N \in Nat
  BY LoaderAssumption, FS_CardinalityType
<1>2. reached(0) = {from}
  <2>1. ASSUME NEW t, Chained(0, edges, from, t) PROVE t = from
    BY <2>1 DEF Chained, IsChain
  <2>2. Chained(0, edges, from, from)
    <3> DEFINE chain == [i \in 0..0 |-> from]
    <3>1. chain \in [0..0 -> Names] /\ IsChain(chain, 0, edges, from, from)
      BY DEF IsChain
    <3>2. QED
      BY <3>1 DEF Chained
  <2>3. \A m \in 0..0 : m = 0
    OBVIOUS
  <2>4. QED
    BY <2>1, <2>2, <2>3
<1>3. ASSUME NEW n \in 0..N, n # 0
      PROVE  reached(n) = reached(n - 1) \cup {t \in Names : \E s \in reached(n - 1) : <<s, t>> \in edges}
  <2>0. n \in Nat \ {0} /\ n - 1 \in Nat
    BY <1>1, <1>3
  <2>1. ASSUME NEW t \in reached(n), t \notin reached(n - 1)
        PROVE  \E s \in reached(n - 1) : <<s, t>> \in edges
    <3>1. t \in Names /\ Chained(n, edges, from, t)
      <4>1. PICK m \in 0..n : Chained(m, edges, from, t)
        OBVIOUS
      <4>2. m \notin 0..(n - 1)
        BY <2>1, <4>1
      <4>3. m = n
        BY <4>2, <2>0
      <4>4. QED
        BY <4>1, <4>3
    <3>2. PICK s \in Names : Chained(n - 1, edges, from, s) /\ <<s, t>> \in edges
      BY <2>0, <3>1, ShorterChain
    <3>3. n - 1 \in 0..(n - 1)
      BY <2>0
    <3>4. QED
      BY <3>2, <3>3
  <2>2. ASSUME NEW t \in reached(n - 1) PROVE t \in reached(n)
    <3>1. \A m \in 0..(n - 1) : m \in 0..n
      BY <2>0
    <3>2. QED
      BY <3>1
  <2>3. ASSUME NEW t \in Names, NEW s \in reached(n - 1), <<s, t>> \in edges PROVE t \in reached(n)
    <3>1. PICK m \in 0..(n - 1) : Chained(m, edges, from, s)
      OBVIOUS
    <3>2. m \in Nat /\ m + 1 \in 0..n
      BY <2>0
    <3>3. Chained(m + 1, edges, from, t)
      BY <2>3, <3>1, <3>2, LongerChain
    <3>4. QED
      BY <3>2, <3>3
  <2>4. reached(n) \subseteq Names
    OBVIOUS
  <2> HIDE DEF reached
  <2>5. QED
    BY <2>1, <2>2, <2>3, <2>4
<1> HIDE DEF reached
<1>4. \A n \in 0..N : n # 0 => n - 1 \in 0..N
  BY <1>1
<1>5. step = [n \in 0..N |-> IF n = 0 THEN {from}
                ELSE step[n - 1] \cup {t \in Names : \E s \in step[n - 1] : <<s, t>> \in edges}]
  BY <1>2, <1>3, <1>4
<1>6. QED
  BY <1>5 DEF IsStep

\* The closure contains whatever a chain leads to.
LEMMA ClosureIsClosed ==
  ASSUME NEW edges, NEW from \in Names, NEW to, LeadsTo(edges, from, to)
  PROVE  to \in Closure(edges, from)
<1> DEFINE N == Cardinality(Names)
<1>0. N \in Nat
  BY LoaderAssumption, FS_CardinalityType
<1>1. PICK step : IsStep(step, edges, from) /\ Closure(edges, from) = step[N]
  <2> DEFINE chosen == CHOOSE step : IsStep(step, edges, from)
  <2>1. IsStep(chosen, edges, from)
    BY StepExists
  <2>2. Closure(edges, from) = chosen[N]
    BY DEF Closure, IsStep
  <2>3. QED
    BY <2>1, <2>2
<1>2. /\ step[0] = {from}
      /\ \A n \in 1..N : step[n] = step[n - 1] \cup {t \in Names : \E s \in step[n - 1] : <<s, t>> \in edges}
  <2> DEFINE value(n) == IF n = 0 THEN {from}
                         ELSE step[n - 1] \cup {t \in Names : \E s \in step[n - 1] : <<s, t>> \in edges}
  <2>1. step = [n \in 0..N |-> value(n)]
    BY <1>1 DEF IsStep
  <2>2. \A n \in 0..N : step[n] = value(n)
    <3> HIDE DEF value
    <3>1. QED
      BY <2>1
  <2>3. 0 \in 0..N /\ \A n \in 1..N : n \in 0..N /\ n # 0
    BY <1>0
  <2>4. QED
    BY <2>2, <2>3
<1>3. PICK n \in 0..N : Chained(n, edges, from, to)
  BY DEF LeadsTo
<1>4. PICK chain \in [0..n -> Names] : IsChain(chain, n, edges, from, to)
  BY <1>3 DEF Chained
<1> HIDE DEF N
<1>5. \A i \in 0..n : chain[i] \in step[i]
  <2> SUFFICES ASSUME {i \in 0..n : chain[i] \notin step[i]} # {} PROVE FALSE
    OBVIOUS
  <2>1. PICK i \in 0..n : chain[i] \notin step[i] /\ \A j \in 0..n : chain[j] \notin step[j] => i <= j
    <3> DEFINE T == {i \in 0..n : chain[i] \notin step[i]}
    <3>1. T \subseteq Nat /\ T # {}
      OBVIOUS
    <3>2. \E x \in T : \A y \in T : x <= y
      <4> HIDE DEF T
      <4>1. QED
        BY <3>1, LeastNat
    <3>3. QED
      BY <3>2
  <2>2. i # 0
    BY <1>2, <1>4, <2>1 DEF IsChain
  <2>3. i - 1 \in 0..(n - 1) /\ i - 1 \in 0..n /\ i \in 1..N /\ ~(i <= i - 1)
    BY <1>0, <2>2
  <2>4. chain[i - 1] \in step[i - 1]
    BY <2>1, <2>3
  <2>5. <<chain[i - 1], chain[i]>> \in edges /\ chain[i] \in Names
    <3>1. <<chain[i - 1], chain[(i - 1) + 1]>> \in edges
      BY <1>4, <2>3 DEF IsChain
    <3>2. (i - 1) + 1 = i
      OBVIOUS
    <3>3. QED
      BY <3>1, <3>2
  <2>6. QED
    BY <1>2, <2>1, <2>3, <2>4, <2>5
<1>6. \A m \in n..N : to \in step[m]
  <2> SUFFICES ASSUME {m \in n..N : to \notin step[m]} # {} PROVE FALSE
    OBVIOUS
  <2>1. PICK m \in n..N : to \notin step[m] /\ \A j \in n..N : to \notin step[j] => m <= j
    <3> DEFINE T == {m \in n..N : to \notin step[m]}
    <3>1. T \subseteq Nat /\ T # {}
      BY <1>0
    <3>2. \E x \in T : \A y \in T : x <= y
      <4> HIDE DEF T
      <4>1. QED
        BY <3>1, LeastNat
    <3>3. QED
      BY <3>2
  <2>2. to \in step[n]
    BY <1>4, <1>5 DEF IsChain
  <2>3. m # n /\ m \in 1..N /\ m - 1 \in n..N /\ ~(m <= m - 1)
    BY <1>0, <2>1, <2>2
  <2>4. QED
    BY <1>2, <2>1, <2>3
<1>7. QED
  BY <1>0, <1>1, <1>6

-----------------------------------------------------------------------------
(* Why a dependency that was followed starts first: when it is loaded, it is    *)
(* inserted before its dependent; when it was loaded before, it is either       *)
(* complete, and before all services of the stack, or one of the stack, which   *)
(* is a chain of dependencies that ends at the dependent.                       *)

InCall(e) == pc = "call" /\ e = <<arg.dependent, arg.service>>
Honoured(e) == LeadsTo(followed, e[2], e[1]) \/ Before(e[2], e[1])

StackIsChain ==
  /\ \A i \in 1..(Len(stack) - 1) : <<stack[i + 1].service, stack[i].service>> \in followed
  /\ pc = "call" => IF stack = << >> THEN followed = {} ELSE <<arg.dependent, arg.service>> \in followed

FollowedSoFar ==
  pc # "failed" => \A e \in followed : tree.kind[e[2]] = "enabled" => InCall(e) \/ Honoured(e)

\* What was honoured stays so, as long as dependencies and positions are only added.
LEMMA StaysHonoured ==
  ASSUME NEW e, Honoured(e), followed \subseteq followed',
         \A s, t : Before(s, t) => Before(s, t)'
  PROVE  Honoured(e)'
<1>1. CASE LeadsTo(followed, e[2], e[1])
  <2>1. PICK n \in 0..Cardinality(Names) : Chained(n, followed, e[2], e[1])
    BY <1>1 DEF LeadsTo
  <2>2. PICK chain \in [0..n -> Names] : IsChain(chain, n, followed, e[2], e[1])
    BY <2>1 DEF Chained
  <2>3. IsChain(chain, n, followed', e[2], e[1])
    BY <2>2 DEF IsChain
  <2>4. LeadsTo(followed', e[2], e[1])
    BY <2>3 DEF LeadsTo, Chained
  <2>5. QED
    BY <2>4 DEF Honoured
<1>2. CASE Before(e[2], e[1])
  <2>1. Before(e[2], e[1])'
    BY <1>2
  <2>2. QED
    BY <2>1 DEF Honoured
<1>3. QED
  BY <1>1, <1>2 DEF Honoured

\* The stack is not deeper than there are services.
LEMMA StackFits == ASSUME LoaderInv PROVE Len(stack) <= Cardinality(Names)
<1>1. /\ order \in Seq(Names) /\ Distinct(order) /\ Len(order) \in Nat /\ DOMAIN order = 1..Len(order)
      /\ Len(stack) \in Nat /\ Len(stack) <= Len(order)
  BY LenProperties DEF LoaderInv, TypeOK, OrderOfTable, StackIsSuffix
<1>2. IsFiniteSet(Names) /\ Cardinality(Names) \in Nat
  BY LoaderAssumption, FS_CardinalityType
<1>3. IsFiniteSet(1..Len(order)) /\ Cardinality(1..Len(order)) = Len(order)
  <2> DEFINE n == Len(order)
  <2>1. n \in Int /\ n >= 0
    BY <1>1
  <2> HIDE DEF n
  <2>2. IsFiniteSet(1..n) /\ Cardinality(1..n) = IF 1 > n THEN 0 ELSE n - 1 + 1
    BY <2>1, FS_Interval
  <2>3. QED
    BY <2>1, <2>2 DEF n
<1>4. order \in [1..Len(order) -> Names]
  BY <1>1, LenProperties
<1>5. ~(Cardinality(Names) < Len(order))
  <2> SUFFICES ASSUME Cardinality(Names) < Len(order) PROVE FALSE
    OBVIOUS
  <2> DEFINE S == 1..Len(order)
  <2>1. IsFiniteSet(S) /\ Cardinality(Names) < Cardinality(S) /\ order \in [S -> Names]
    BY <1>3, <1>4
  <2> HIDE DEF S
  <2>2. \E x, y \in S : x # y /\ order[x] = order[y]
    BY <1>2, <2>1, FS_PigeonHole
  <2>3. QED
    BY <1>1, <2>2 DEF S, Distinct
<1>6. QED
  BY <1>1, <1>2, <1>5

\* From every service of the stack, a chain leads to the innermost one.
LEMMA ChainOfStack ==
  ASSUME LoaderInv, StackIsChain, NEW i \in DOMAIN stack
  PROVE  LeadsTo(followed, stack[i].service, stack[1].service)
<1>1. /\ stack \in Seq(Frame) /\ Len(stack) \in Nat /\ DOMAIN stack = 1..Len(stack)
      /\ \A j \in 1..Len(stack) : stack[j].service \in Names
  <2>1. stack \in Seq(Frame) /\ Len(stack) \in Nat /\ DOMAIN stack = 1..Len(stack)
    BY LenProperties DEF LoaderInv, TypeOK
  <2>2. \A j \in 1..Len(stack) : stack[j] \in Frame
    BY <2>1, ElementOfSeq
  <2>3. QED
    BY <2>1, <2>2 DEF Frame
<1>2. Len(stack) <= Cardinality(Names) /\ Cardinality(Names) \in Nat
  BY StackFits, LoaderAssumption, FS_CardinalityType
<1> DEFINE chain == [j \in 0..(i - 1) |-> stack[i - j].service]
<1>3. i \in Nat /\ i - 1 \in 0..Cardinality(Names)
  BY <1>1, <1>2
<1>4. chain \in [0..(i - 1) -> Names]
  <2>1. \A j \in 0..(i - 1) : i - j \in 1..Len(stack)
    BY <1>1
  <2>2. QED
    BY <1>1, <2>1
<1>5. chain[0] = stack[i].service /\ chain[i - 1] = stack[1].service
  <2>1. i - 0 = i /\ i - (i - 1) = 1 /\ 0 \in 0..(i - 1) /\ i - 1 \in 0..(i - 1)
    BY <1>1
  <2>2. QED
    BY <2>1
<1>6. ASSUME NEW j \in 0..((i - 1) - 1) PROVE <<chain[j], chain[j + 1]>> \in followed
  <2>1. j \in 0..(i - 1) /\ j + 1 \in 0..(i - 1) /\ i - (j + 1) \in 1..(Len(stack) - 1)
        /\ (i - (j + 1)) + 1 = i - j
    BY <1>1
  <2>2. <<stack[(i - (j + 1)) + 1].service, stack[i - (j + 1)].service>> \in followed
    BY <2>1 DEF StackIsChain
  <2>3. QED
    BY <2>1, <2>2
<1> HIDE DEF chain
<1>7. IsChain(chain, i - 1, followed, stack[i].service, stack[1].service)
  BY <1>4, <1>5, <1>6 DEF IsChain
<1>8. QED
  BY <1>3, <1>4, <1>7 DEF LeadsTo, Chained

\* A service that is in the order already.
LEMMA LoadedIsHonoured ==
  ASSUME LoaderInv, StackIsChain, pc = "call", stack # << >>, IsLoaded(arg.service),
         tree.kind[arg.service] = "enabled"
  PROVE  Honoured(<<arg.dependent, arg.service>>)
<1>1. /\ order \in Seq(Names) /\ Len(order) \in Nat /\ DOMAIN order = 1..Len(order)
      /\ stack \in Seq(Frame) /\ Len(stack) \in Nat /\ DOMAIN stack = 1..Len(stack)
      /\ Len(stack) <= Len(order) /\ 1 \in 1..Len(stack) /\ arg.dependent = stack[1].service
  BY LenProperties, EmptySeq DEF LoaderInv, TypeOK, StackIsSuffix, Calling
<1>2. PICK k \in 1..Len(order) : order[k] = arg.service
  <2>1. arg.service \in ToSet(order)
    BY DEF LoaderInv, TypeOK, OrderOfTable, EnabledLoaded
  <2>2. QED
    BY <1>1, <2>1 DEF ToSet
<1> DEFINE base == Len(order) - Len(stack)
<1>3. CASE k <= base
  <2>1. order[base + 1] = stack[1].service /\ base + 1 \in 1..Len(order) /\ k < base + 1
    BY <1>1, <1>3 DEF LoaderInv, StackIsSuffix
  <2>2. Before(arg.service, arg.dependent)
    BY <1>1, <1>2, <2>1 DEF Before
  <2>3. QED
    BY <2>2 DEF Honoured
<1>4. CASE k > base
  <2> DEFINE i == k - base
  <2>1. i \in 1..Len(stack) /\ base + i = k
    BY <1>1, <1>4
  <2>2. order[base + i] = stack[i].service
    BY <1>1, <2>1 DEF LoaderInv, StackIsSuffix
  <2>3. LeadsTo(followed, stack[i].service, stack[1].service)
    BY <1>1, <2>1, ChainOfStack
  <2>4. LeadsTo(followed, arg.service, arg.dependent)
    BY <1>1, <1>2, <2>1, <2>2, <2>3
  <2>5. QED
    BY <2>4 DEF Honoured
<1>5. QED
  BY <1>1, <1>3, <1>4

\* The invariant holds when main calls load_service_with_deps.
LEMMA FollowedInit == Init => StackIsChain /\ FollowedSoFar
<1>1. Len(<< >>) = 0
  OBVIOUS
<1>2. QED
  BY <1>1 DEF Init, StackIsChain, FollowedSoFar

\* A load adds to the order and leaves the rest as it was.
LEMMA OrderGrows == ASSUME LoaderInv, Load, NEW s, NEW t, Before(s, t) PROVE Before(s, t)'
<1>1. /\ Len(order) \in Nat /\ DOMAIN order = 1..Len(order)
      /\ Len(stack) \in Nat /\ Len(stack) <= Len(order)
  BY LenProperties DEF LoaderInv, TypeOK, StackIsSuffix
<1>2. /\ DOMAIN order' = 1..(Len(order) + 1)
      /\ \A j \in 1..Len(order) : order'[IF j <= Len(order) - Len(stack) THEN j ELSE j + 1] = order[j]
  BY OrderAfterLoad, LenProperties
<1>3. PICK i, j \in 1..Len(order) : i < j /\ order[i] = s /\ order[j] = t
  BY <1>1 DEF Before
<1> DEFINE to(k) == IF k <= Len(order) - Len(stack) THEN k ELSE k + 1
<1>4. to(i) \in 1..(Len(order) + 1) /\ to(j) \in 1..(Len(order) + 1) /\ to(i) < to(j)
  BY <1>1, <1>3
<1>5. order'[to(i)] = s /\ order'[to(j)] = t
  BY <1>2, <1>3
<1> HIDE DEF to
<1>6. QED
  BY <1>2, <1>4, <1>5 DEF Before

\* A call that does not load leads to a service that is honoured already, or is not
\* in the order at all.
LEMMA CallReturns ==
  ASSUME LoaderInv, StackIsChain, FollowedSoFar, pc = "call",
         AlreadyLoaded \/ LoadDisabled, NEW e \in followed, tree.kind[e[2]] = "enabled"
  PROVE  Honoured(e)
<1>1. CASE InCall(e)
  <2>1. e = <<arg.dependent, arg.service>> /\ e[2] = arg.service
    BY <1>1 DEF InCall
  <2>2. stack # << >>
    BY DEF StackIsChain
  <2>3. IsLoaded(arg.service)
    BY <2>1 DEF AlreadyLoaded, LoadDisabled
  <2>4. QED
    BY <2>1, <2>2, <2>3, LoadedIsHonoured
<1>2. QED
  BY <1>1 DEF FollowedSoFar

\* A load puts the service right before its dependent.
LEMMA FollowedLoad ==
  ASSUME LoaderInv, StackIsChain, FollowedSoFar, Load
  PROVE  StackIsChain' /\ FollowedSoFar'
<1>1. /\ Len(order) \in Nat /\ Len(stack) \in Nat /\ Len(stack) <= Len(order)
      /\ DOMAIN stack = 1..Len(stack) /\ (stack # << >> => 1 \in 1..Len(stack))
  BY LenProperties, EmptySeq DEF LoaderInv, TypeOK, StackIsSuffix
<1>2. /\ DOMAIN order' = 1..(Len(order) + 1)
      /\ order'[Len(order) + 1 - Len(stack)] = arg.service
      /\ \A i \in DOMAIN stack : order'[Len(order) + 1 - Len(stack) + i] = stack[i].service
  BY OrderAfterLoad, LenProperties
<1>3. /\ Len(stack') = Len(stack) + 1 /\ stack'[1].service = arg.service
      /\ \A i \in 2..(Len(stack) + 1) : stack'[i] = stack[i - 1]
  BY StackAfterLoad
<1>4. pc = "call" /\ pc' = "scan" /\ followed' = followed /\ tree' = tree
  BY DEF Load
<1>5. stack # << >> => arg.dependent = stack[1].service /\ <<arg.dependent, arg.service>> \in followed
  BY <1>4 DEF StackIsChain, LoaderInv, Calling
<1>6. StackIsChain'
  <2>1. ASSUME NEW i \in 1..Len(stack) PROVE <<stack'[i + 1].service, stack'[i].service>> \in followed
    <3>1. CASE i = 1
      <4>1. stack'[2] = stack[1] /\ stack # << >>
        BY <1>1, <1>3, <3>1
      <4>2. QED
        BY <1>3, <1>5, <3>1, <4>1
    <3>2. CASE i # 1
      <4>1. i \in 2..(Len(stack) + 1) /\ i + 1 \in 2..(Len(stack) + 1) /\ i - 1 \in 1..(Len(stack) - 1)
            /\ (i - 1) + 1 = i /\ (i + 1) - 1 = i
        BY <1>1, <3>2
      <4>2. stack'[i + 1] = stack[i] /\ stack'[i] = stack[i - 1]
        BY <1>3, <4>1
      <4>3. <<stack[(i - 1) + 1].service, stack[i - 1].service>> \in followed
        BY <4>1 DEF StackIsChain
      <4>4. QED
        BY <4>1, <4>2, <4>3
    <3>3. QED
      BY <3>1, <3>2
  <2>2. Len(stack') - 1 = Len(stack)
    BY <1>1, <1>3
  <2>3. QED
    BY <1>4, <2>1, <2>2 DEF StackIsChain
<1>7. ASSUME NEW e \in followed, tree.kind[e[2]] = "enabled" PROVE Honoured(e)'
  <2>1. CASE InCall(e)
    <3>1. e = <<arg.dependent, arg.service>> /\ stack # << >>
      BY <2>1 DEF InCall, StackIsChain
    <3> DEFINE at == Len(order) + 1 - Len(stack)
    <3>2. at \in 1..(Len(order) + 1) /\ at + 1 \in 1..(Len(order) + 1) /\ at < at + 1
      BY <1>1, <3>1
    <3>3. order'[at] = arg.service /\ order'[at + 1] = arg.dependent
      BY <1>1, <1>2, <1>5, <3>1
    <3> HIDE DEF at
    <3>4. Before(arg.service, arg.dependent)'
      <4> DEFINE s == arg.service
                 d == arg.dependent
      <4>1. arg' = arg
        BY DEF Load
      <4>2. order'[at] = s /\ order'[at + 1] = d
        BY <3>3
      <4>3. \E i, j \in DOMAIN order' : i < j /\ order'[i] = s /\ order'[j] = d
        <5> HIDE DEF s, d
        <5>1. QED
          BY <1>2, <3>2, <4>2
      <4>4. QED
        BY <4>1, <4>3 DEF Before
    <3>5. QED
      <4>1. e[1] = arg.dependent /\ e[2] = arg.service /\ arg' = arg
        BY <3>1 DEF Load
      <4>2. QED
        BY <3>4, <4>1 DEF Honoured, Before
  <2>2. CASE ~InCall(e)
    <3>1. Honoured(e)
      BY <1>4, <1>7, <2>2 DEF FollowedSoFar
    <3>2. \A s, t : Before(s, t) => Before(s, t)'
      BY OrderGrows
    <3>3. QED
      BY <1>4, <3>1, <3>2, StaysHonoured
  <2>3. QED
    BY <2>1, <2>2
<1>8. QED
  BY <1>4, <1>6, <1>7 DEF FollowedSoFar

\* What is found in the directory is followed at once.
LEMMA FollowedScan ==
  ASSUME LoaderInv, StackIsChain, FollowedSoFar, Scan
  PROVE  StackIsChain' /\ FollowedSoFar'
<1>1. /\ Len(stack') = Len(stack) /\ 1 \in 1..Len(stack) /\ Len(stack) \in Nat
      /\ \A i \in 1..Len(stack) : stack'[i].service = stack[i].service
  BY StackAfterScan
<1>2. PICK d :
        \/ /\ pc' = "call" /\ arg' = [service |-> d, dependent |-> stack[1].service]
           /\ followed' = followed \cup {<<stack[1].service, d>>}
        \/ UNCHANGED <<pc, arg, followed>>
  BY DEF Scan
<1>3. pc = "scan" /\ UNCHANGED <<tree, order>> /\ followed \subseteq followed'
  BY <1>2 DEF Scan
<1>4. stack' # << >>
  <2>1. Len(<< >>) = 0
    OBVIOUS
  <2>2. QED
    BY <1>1, <2>1
<1>5. StackIsChain'
  <2>1. ASSUME NEW i \in 1..(Len(stack) - 1) PROVE <<stack'[i + 1].service, stack'[i].service>> \in followed'
    <3>1. i \in 1..Len(stack) /\ i + 1 \in 1..Len(stack)
      BY <1>1
    <3>2. <<stack[i + 1].service, stack[i].service>> \in followed
      BY DEF StackIsChain
    <3>3. QED
      BY <1>1, <1>3, <3>1, <3>2
  <2>2. pc' = "call" => <<arg'.dependent, arg'.service>> \in followed'
    BY <1>2, <1>3
  <2>3. QED
    BY <1>1, <1>4, <2>1, <2>2 DEF StackIsChain
<1>6. ASSUME NEW e \in followed', tree.kind[e[2]] = "enabled" PROVE InCall(e)' \/ Honoured(e)'
  <2>1. CASE e \in followed
    <3>1. Honoured(e)
      BY <1>3, <1>6, <2>1 DEF FollowedSoFar, InCall
    <3>2. \A s, t : Before(s, t) => Before(s, t)'
      BY <1>3 DEF Before
    <3>3. QED
      BY <1>3, <3>1, <3>2, StaysHonoured
  <2>2. CASE e \notin followed
    <3>1. e = <<arg'.dependent, arg'.service>> /\ pc' = "call"
      BY <1>2, <2>2
    <3>2. QED
      BY <3>1 DEF InCall
  <2>3. QED
    BY <2>1, <2>2
<1>7. QED
  BY <1>3, <1>5, <1>6 DEF FollowedSoFar

\* A frame is left: the others are still a chain.
LEMMA FollowedEndOfScan ==
  ASSUME LoaderInv, StackIsChain, FollowedSoFar, EndOfScan
  PROVE  StackIsChain' /\ FollowedSoFar'
<1>1. stack \in Seq(Frame) /\ stack # << >> /\ stack' = Tail(stack)
  BY DEF EndOfScan, LoaderInv, TypeOK
<1>2. /\ Len(stack') = Len(stack) - 1 /\ Len(stack) \in Nat
      /\ \A i \in 1..(Len(stack) - 1) : stack'[i] = stack[i + 1]
  <2>1. Len(stack) \in Nat \ {0}
    BY <1>1, EmptySeq, HeadTailProperties
  <2>2. QED
    BY <1>1, <2>1, HeadTailProperties, LenProperties
<1>3. pc = "scan" /\ pc' # "call" /\ UNCHANGED <<tree, arg, order, followed>>
  BY DEF EndOfScan, Return
<1>4. StackIsChain'
  <2>1. ASSUME NEW i \in 1..(Len(stack') - 1) PROVE <<stack'[i + 1].service, stack'[i].service>> \in followed
    <3>1. i \in 1..(Len(stack) - 1) /\ i + 1 \in 1..(Len(stack) - 1)
      BY <1>2
    <3>2. stack'[i] = stack[i + 1] /\ stack'[i + 1] = stack[(i + 1) + 1]
      BY <1>2, <3>1
    <3>3. QED
      BY <3>1, <3>2 DEF StackIsChain
  <2>2. QED
    BY <1>3, <2>1 DEF StackIsChain
<1>5. ASSUME NEW e \in followed, tree.kind[e[2]] = "enabled" PROVE Honoured(e)'
  <2>1. Honoured(e)
    BY <1>3, <1>5 DEF FollowedSoFar, InCall
  <2>2. \A s, t : Before(s, t) => Before(s, t)'
    BY <1>3 DEF Before
  <2>3. QED
    BY <1>3, <2>1, <2>2, StaysHonoured
<1>6. QED
  BY <1>3, <1>4, <1>5 DEF FollowedSoFar

\* Every step of the recursion keeps the invariant.
LEMMA FollowedStep ==
  LoaderInv /\ StackIsChain /\ FollowedSoFar /\ [Next]_vars => StackIsChain' /\ FollowedSoFar'
<1> SUFFICES ASSUME LoaderInv, StackIsChain, FollowedSoFar, [Next]_vars
             PROVE  StackIsChain' /\ FollowedSoFar'
  OBVIOUS
<1>1. CASE AlreadyLoaded \/ LoadDisabled
  <2>1. pc = "call" /\ pc' # "call" /\ UNCHANGED <<tree, arg, stack, order, followed>>
    BY <1>1 DEF AlreadyLoaded, LoadDisabled, Return
  <2>2. StackIsChain'
    BY <2>1 DEF StackIsChain
  <2>3. ASSUME NEW e \in followed, tree.kind[e[2]] = "enabled" PROVE Honoured(e)'
    <3>1. Honoured(e)
      BY <1>1, <2>1, <2>3, CallReturns
    <3>2. \A s, t : Before(s, t) => Before(s, t)'
      BY <2>1 DEF Before
    <3>3. QED
      BY <2>1, <3>1, <3>2, StaysHonoured
  <2>4. QED
    BY <2>1, <2>2, <2>3 DEF FollowedSoFar
<1>2. CASE Failed
  BY <1>2 DEF Failed, StackIsChain, FollowedSoFar
<1>3. CASE Load
  BY <1>3, FollowedLoad
<1>4. CASE Scan
  BY <1>4, FollowedScan
<1>5. CASE EndOfScan
  BY <1>5, FollowedEndOfScan
<1>6. CASE UNCHANGED vars
  <2>1. UNCHANGED <<tree, pc, arg, stack, order, followed>>
    BY <1>6 DEF vars
  <2>2. StackIsChain'
    BY <2>1 DEF StackIsChain
  <2>3. ASSUME NEW e \in followed, tree.kind[e[2]] = "enabled" PROVE pc = "failed" \/ InCall(e)' \/ Honoured(e)'
    BY <2>1, <2>3 DEF FollowedSoFar, InCall, Honoured, Before
  <2>4. QED
    BY <2>1, <2>2, <2>3 DEF FollowedSoFar
<1>7. QED
  BY <1>1, <1>2, <1>3, <1>4, <1>5, <1>6 DEF Next

-----------------------------------------------------------------------------
(* Theorems. *)

\* The invariant of the load phase holds for every services directory.
THEOREM LoaderInvariant == Spec => []LoaderInv
BY LoaderInit, LoaderStep, PTL DEF Spec

\* The table lists every service once and does not overflow, and the start order
\* is a permutation of those that are enabled.
THEOREM OrderOfTableCorrect == Spec => []OrderOfTable
<1>1. LoaderInv => OrderOfTable
  BY DEF LoaderInv
<1> QED  BY <1>1, LoaderInvariant, PTL

\* Whatever is loaded next comes before the services that are waiting for it, and
\* after all that are complete.
THEOREM StackIsSuffixCorrect == Spec => []StackIsSuffix
<1>1. LoaderInv => StackIsSuffix
  BY DEF LoaderInv
<1> QED  BY <1>1, LoaderInvariant, PTL

\* Services start after those they depend on, except on a circle of dependencies.
THEOREM FollowedFirstCorrect == Spec => []FollowedFirst
<1> DEFINE Inv == LoaderInv /\ StackIsChain /\ FollowedSoFar
<1>1. Init => Inv
  BY LoaderInit, FollowedInit
<1>2. Inv /\ [Next]_vars => Inv'
  BY LoaderStep, FollowedStep
<1>3. Inv => FollowedFirst
  <2> SUFFICES ASSUME Inv, pc = "loaded", NEW e \in followed, tree.kind[e[2]] = "enabled",
                      e[1] \notin Closure(followed, e[2])
               PROVE  Before(e[2], e[1])
    BY DEF FollowedFirst
  <2>1. e[2] \in Names
    BY DEF LoaderInv, TypeOK
  <2>2. Honoured(e)
    BY DEF FollowedSoFar, InCall
  <2>3. QED
    BY <2>1, <2>2, ClosureIsClosed DEF Honoured
<1>4. QED
  BY <1>1, <1>2, <1>3, PTL DEF Spec
=============================================================================
