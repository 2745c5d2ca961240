---------------------------- MODULE Notifier_proofs ----------------------------
(* For any configuration: every line of a listed file is shown to the filter  *)
(* once, a notification is not sent again before its interval has passed, and *)
(* every match is sent to each target or held back for that reason only.      *)
(*                                                                            *)
(* That a line is shown once rests on the table of monitored files, which is  *)
(* a fold over the concatenation of what the notifications list: the lemmas   *)
(* about the table say what fold and concatenation are, by taking the first   *)
(* place where they would not be.                                             *)
EXTENDS Notifier, FiniteSetTheorems, WellFoundedInduction, TLAPS

-----------------------------------------------------------------------------
(* The inductive invariant. *)

Busy == pc \in {"notify", "filter", "text", "program", "target", "stamp"}

\* Where the monitor is, with a configuration that it has accepted.
Place ==
  /\ config \in Configs
  /\ pc \notin {"setup", "failed"} => Valid(config)
  /\ Busy => nidx \in Notifs
  /\ pc \in {"target", "stamp"} => tidx \in DOMAIN TargetsOf(nidx)
  /\ pc = "filter" /\ helper # "running" => said[nidx] = helper

\* What is known of the time each notification was sent: its second.
Times ==
  /\ now \in Nat /\ now >= Second
  /\ sent_at \in [Pairs -> Nat \cup {Never}] /\ last_notif_sent \in [Pairs -> Nat]
  /\ \A p \in Pairs :
       IF sent_at[p] = Never THEN last_notif_sent[p] = 0
       ELSE sent_at[p] <= now /\ last_notif_sent[p] = sent_at[p] \div Second
                              /\ last_notif_sent[p] > 0

\* An answer is that it was sent, or how long ago it had been.
IsAnswer(p) ==
  \/ answer[p] = Sent
  \/ /\ answer[p] \in Nat /\ sent_at[p] # Never
     /\ Interval(p[2]) = 0 \/ answer[p] < Interval(p[2]) * Second

Answers ==
  /\ said \in [Notifs -> {"nothing", "yes", "no", "killed"}]
  /\ answer \in [Pairs -> Nat \cup {Sent, Nothing}]
  /\ \A p \in Pairs : answer[p] # Nothing => IsAnswer(p)

AllAnswered(n) == \A t \in ToSet(TargetsOf(n)) : answer[<<n, t>>] # Nothing

\* The notifications before the one in hand are done with, as are its targets
\* before the one in hand.
Progress ==
  /\ pc \in {"setup", "loop"} => \A n \in Notifs : said[n] = "yes" => AllAnswered(n)
  /\ Busy => \A n \in Notifs :
       /\ n < nidx /\ said[n] = "yes" => AllAnswered(n)
       /\ n > nidx \/ (n = nidx /\ pc = "notify") => said[n] = "nothing"
  /\ pc \in {"target", "stamp"} => \A j \in DOMAIN TargetsOf(nidx) :
       j < tidx \/ (j = tidx /\ pc = "stamp") => answer[<<nidx, TargetsOf(nidx)[j]>>] # Nothing

\* Of each file that n lists, what appeared has been shown to n or waits for it.
Counted ==
  pc \notin {"setup", "failed"} =>
    \A n \in Notifs : \A i \in DOMAIN monitored :
      monitored[i].path \in Files(n) =>
        asked[n][monitored[i].path] + Waiting(n, i) = appeared[monitored[i].path]

Counts ==
  /\ pc \in {"setup", "failed", "loop"} \/ Busy
  /\ pc \notin {"setup", "failed"} => monitored = Monitored(config)
  /\ mf \in Nat \ {0} /\ (Busy => mf \in DOMAIN monitored)
  /\ asked \in [Notifs -> [Paths -> Nat]] /\ appeared \in [Paths -> Nat]
  /\ unread \in [DOMAIN monitored -> Nat]
  /\ pc = "setup" => \A f \in Paths : appeared[f] = 0 /\ \A n \in Notifs : asked[n][f] = 0
  /\ Counted

NotifierInv == Place /\ Times /\ Answers /\ Progress /\ Counts

-----------------------------------------------------------------------------
(* Arithmetic of the clock. *)

\* A second is the ticks from one multiple of its length up to the next.
LEMMA SecondIs ==
  ASSUME NEW s \in Nat \ {0}, NEW t \in Nat
  PROVE  t \div s \in Nat /\ s * (t \div s) <= t /\ t < s * (t \div s) + s
OBVIOUS

\* Products keep the order.
LEMMA Ordered ==
  ASSUME NEW s \in Nat \ {0}, NEW a \in Int, NEW b \in Int, a <= b
  PROVE  s * a <= s * b
OBVIOUS

\* More than so many seconds apart: more than one less so many in ticks.
LEMMA Apart ==
  ASSUME NEW s \in Nat \ {0}, NEW t \in Nat, NEW u \in Nat, NEW d \in Int,
         u \div s - t \div s >= d
  PROVE  u - t > (d - 1) * s
<1> DEFINE p == t \div s
           q == u \div s
<1>1. /\ p \in Nat /\ q \in Nat /\ t < s * p + s /\ s * q <= u
  BY SecondIs
<1>2. s * (p + d) <= s * q
  <2> HIDE DEF p, q
  <2>1. p + d <= q
    BY <1>1 DEF p, q
  <2>2. QED
    BY <1>1, <2>1, Ordered
<1>3. s * (p + d) = s * p + s * d /\ (d - 1) * s = s * d - s
  <2> HIDE DEF p, q
  <2>1. QED
    BY <1>1
<1>4. QED
  BY <1>1, <1>2, <1>3

\* Less than so many seconds apart: less than so many in ticks.
LEMMA Near ==
  ASSUME NEW s \in Nat \ {0}, NEW t \in Nat, NEW u \in Nat, NEW d \in Int,
         u \div s - t \div s < d
  PROVE  u - t < d * s
<1> DEFINE p == t \div s
           q == u \div s
<1>1. /\ p \in Nat /\ q \in Nat /\ s * p <= t /\ u < s * q + s
  BY SecondIs
<1>2. s * (q + 1) <= s * (p + d)
  <2> HIDE DEF p, q
  <2>1. q + 1 <= p + d
    BY <1>1 DEF p, q
  <2>2. QED
    BY <1>1, <2>1, Ordered
<1>3. s * (p + d) = s * p + s * d /\ s * (q + 1) = s * q + s /\ d * s = s * d
  <2> HIDE DEF p, q
  <2>1. QED
    BY <1>1
<1>4. QED
  BY <1>1, <1>2, <1>3

-----------------------------------------------------------------------------
(* The configuration. *)

\* A notification is sent to targets there are, and to one at least.
LEMMA TargetsAre ==
  ASSUME config \in Configs, Valid(config), NEW n \in Notifs
  PROVE  /\ TargetsOf(n) \in Seq(STRING) /\ 1 \in DOMAIN TargetsOf(n)
         /\ \A j \in DOMAIN TargetsOf(n) : <<n, TargetsOf(n)[j]>> \in Pairs
<1>1. /\ config.targets \in Seq(TargetDir) /\ config.notifications \in Seq(NotificationDir(STRING, STRING))
      /\ Len(config.targets) >= 1
      /\ \A m \in ToSet(config.notifications) : NotificationLoads(m, ToSet(TargetNames(config)))
  BY ConfigAssumption DEF Valid
<1>2. PICK m : m = config.notifications[n]
  OBVIOUS
<1>3. m \in NotificationDir(STRING, STRING) /\ m \in ToSet(config.notifications)
  BY <1>1, <1>2 DEF ToSet, Notifs
<1>4. ToSet(m.target) \subseteq ToSet(TargetNames(config)) /\ m.target \in Seq(STRING)
  BY <1>1, <1>3 DEF NotificationLoads, NotificationDir
<1>5. TargetNames(config) \in Seq(STRING) /\ 1 \in DOMAIN TargetNames(config)
  <2>1. \A i \in DOMAIN config.targets : config.targets[i].name \in STRING
    <3>1. \A t \in TargetDir : t.name \in STRING
      BY DEF TargetDir
    <3>2. \A i \in DOMAIN config.targets : config.targets[i] \in TargetDir
      BY <1>1
    <3>3. QED
      BY <3>1, <3>2
  <2>2. DOMAIN config.targets = 1 .. Len(config.targets) /\ Len(config.targets) \in Nat
    BY <1>1
  <2>3. PICK names, l : names = TargetNames(config) /\ l = Len(config.targets)
    OBVIOUS
  <2>4. l \in Nat /\ names = [i \in 1 .. l |-> config.targets[i].name]
    BY <2>2, <2>3 DEF TargetNames
  <2>5. names \in [1 .. l -> STRING]
    BY <2>1, <2>2, <2>3, <2>4
  <2>6. names \in Seq(STRING)
    BY <2>4, <2>5
  <2>7. 1 \in DOMAIN names
    BY <1>1, <2>3, <2>4
  <2>8. QED
    BY <2>3, <2>6, <2>7
<1>6. TargetsOf(n) = IF m.target = << >> THEN TargetNames(config) ELSE m.target
  BY <1>2 DEF TargetsOf, TargetsListed
<1>7. CASE m.target = << >>
  BY <1>5, <1>6, <1>7 DEF Pairs, ToSet
<1>8. CASE m.target # << >>
  <2>1. 1 \in DOMAIN m.target
    BY <1>4, <1>8
  <2>2. QED
    BY <1>4, <1>6, <1>8, <2>1 DEF Pairs, ToSet
<1>9. QED
  BY <1>7, <1>8

\* An interval is a number.
LEMMA IntervalIs ==
  ASSUME config \in Configs, Valid(config), NEW p \in Pairs
  PROVE  Interval(p[2]) \in Int
<1>1. /\ config.targets \in Seq(TargetDir)
      /\ \A t \in ToSet(config.targets) : TargetLoads(t)
  BY ConfigAssumption DEF Valid
<1>2. \E t \in ToSet(config.targets) : t.name = p[2]
  BY DEF Pairs, TargetNames, ToSet
<1>3. PICK t : t = CHOOSE u \in ToSet(config.targets) : u.name = p[2]
  OBVIOUS
<1>4. t \in ToSet(config.targets)
  BY <1>2, <1>3
<1>5. TargetLoads(t) /\ t \in TargetDir
  BY <1>1, <1>4 DEF ToSet
<1>6. Debouncing(t) \in Int
  BY <1>5, ConfigAssumption DEF Debouncing, TargetLoads
<1>7. QED
  BY <1>3, <1>6 DEF Interval

-----------------------------------------------------------------------------
(* The table of monitored files. *)

Entry == [path : Paths, status : BOOLEAN]
Distinct(list) == \A i, j \in DOMAIN list : list[i].path = list[j].path => i = j
Lists(list, path) == \E i \in DOMAIN list : list[i].path = path

\* Every nonempty set of natural numbers has a least element.
LEMMA LeastNat ==
  ASSUME NEW T, T \subseteq Nat, T # {}
  PROVE  \E x \in T : \A y \in T : x <= y
<1> DEFINE C == {0 .. (n - 1) : n \in T}
<1>1. C \subseteq FiniteSubsetsOf(Nat)
  <2>1. ASSUME NEW n \in T PROVE IsFiniteSet(0 .. (n - 1))
    BY FS_Interval
  <2>2. QED
    BY <2>1 DEF FiniteSubsetsOf
<1>2. C # {}
  OBVIOUS
<1>3. PICK m \in C : \A y \in C : ~(<<y, m>> \in StrictSubsetOrdering(Nat))
  <2> HIDE DEF C
  <2>1. QED
    BY <1>1, <1>2, FS_StrictSubsetOrderingWellFounded, WFMin
<1>4. PICK x \in T : m = 0 .. (x - 1)
  OBVIOUS
<1>5. ASSUME NEW y \in T, y < x PROVE FALSE
  <2>1. 0 .. (y - 1) \in C
    OBVIOUS
  <2>2. 0 .. (y - 1) \subseteq 0 .. (x - 1) /\ y \in 0 .. (x - 1) /\ y \notin 0 .. (y - 1)
    BY <1>5
  <2>3. 0 .. (y - 1) \subseteq Nat /\ 0 .. (x - 1) \subseteq Nat
    OBVIOUS
  <2>4. <<0 .. (y - 1), m>> \in StrictSubsetOrdering(Nat)
    BY <1>4, <2>2, <2>3 DEF StrictSubsetOrdering
  <2>5. QED
    BY <1>3, <2>1, <2>4
<1>6. QED
  BY <1>5

\* The sources of the notifications, put together up to the n-th.
Joined(all, seqs, n) == all = [i \in 1 .. n |-> IF i = 1 THEN seqs[i] ELSE all[i - 1] \o seqs[i]]

\* They can be put together.
LEMMA JoinedExists == ASSUME NEW seqs, NEW n \in Nat PROVE \E all : Joined(all, seqs, n)
<1> DEFINE T == {m \in Nat : ~\E all : Joined(all, seqs, m)}
<1> SUFFICES ASSUME T # {} PROVE FALSE
  OBVIOUS
<1>1. PICK m \in T : \A k \in T : m <= k
  BY LeastNat
<1>2. Joined([i \in 1 .. 0 |-> i], seqs, 0)
  BY DEF Joined
<1>3. m # 0 /\ m - 1 \in Nat /\ m - 1 \notin T
  BY <1>1, <1>2
<1>4. PICK all : Joined(all, seqs, m - 1)
  BY <1>3
<1> DEFINE longer == [i \in 1 .. m |-> IF i = 1 THEN seqs[i] ELSE
                                       IF i = m THEN all[m - 1] \o seqs[m] ELSE all[i]]
<1>5. ASSUME NEW i \in 1 .. m
      PROVE  longer[i] = IF i = 1 THEN seqs[i] ELSE longer[i - 1] \o seqs[i]
  <2>1. all = [j \in 1 .. (m - 1) |-> IF j = 1 THEN seqs[j] ELSE all[j - 1] \o seqs[j]]
    BY <1>4 DEF Joined
  <2>2. \A j \in 1 .. (m - 1) : longer[j] = all[j]
    <3>1. ASSUME NEW j \in 1 .. (m - 1) PROVE longer[j] = all[j]
      <4>1. j \in 1 .. m /\ j # m
        BY <1>3
      <4>2. all[j] = IF j = 1 THEN seqs[j] ELSE all[j - 1] \o seqs[j]
        BY <2>1
      <4>3. QED
        BY <4>1, <4>2
    <3>2. QED
      BY <3>1
  <2>3. CASE i = 1
    BY <2>3
  <2>4. CASE i # 1 /\ i = m
    <3>1. m - 1 \in 1 .. (m - 1)
      BY <1>3, <2>4
    <3>2. QED
      BY <2>2, <2>4, <3>1
  <2>5. CASE i # 1 /\ i # m
    <3>1. i \in 1 .. (m - 1) /\ i - 1 \in 1 .. (m - 1)
      BY <1>3, <2>5
    <3>2. all[i] = all[i - 1] \o seqs[i]
      BY <2>1, <2>5, <3>1
    <3>3. QED
      BY <2>2, <2>5, <3>1, <3>2
  <2>6. QED
    BY <2>3, <2>4, <2>5
<1>6. longer = [i \in 1 .. m |-> IF i = 1 THEN seqs[i] ELSE longer[i - 1] \o seqs[i]]
  <2> DEFINE value(i) == IF i = 1 THEN seqs[i] ELSE longer[i - 1] \o seqs[i]
  <2>1. \A i \in 1 .. m : longer[i] = value(i)
    BY <1>5
  <2>2. longer = [i \in 1 .. m |-> longer[i]]
    OBVIOUS
  <2> HIDE DEF value, longer
  <2>3. longer = [i \in 1 .. m |-> value(i)]
    BY <2>1, <2>2
  <2>4. QED
    BY <2>3 DEF value
<1>7. QED
  <2> HIDE DEF longer
  <2>1. Joined(longer, seqs, m)
    BY <1>6 DEF Joined
  <2>2. QED
    BY <1>1, <2>1

\* A concatenation has what its two parts have.
LEMMA ConcatHas ==
  ASSUME NEW S, NEW a \in Seq(S), NEW b \in Seq(S)
  PROVE  a \o b \in Seq(S) /\ ToSet(a) \subseteq ToSet(a \o b) /\ ToSet(b) \subseteq ToSet(a \o b)
<1>1. /\ Len(a) \in Nat /\ Len(b) \in Nat /\ Len(a \o b) = Len(a) + Len(b) /\ a \o b \in Seq(S)
      /\ DOMAIN (a \o b) = 1 .. Len(a) + Len(b)
      /\ DOMAIN a = 1 .. Len(a) /\ DOMAIN b = 1 .. Len(b)
  OBVIOUS
<1>2. ASSUME NEW i \in DOMAIN a PROVE i \in DOMAIN (a \o b) /\ (a \o b)[i] = a[i]
  BY <1>1
<1>3. ASSUME NEW i \in DOMAIN b PROVE Len(a) + i \in DOMAIN (a \o b) /\ (a \o b)[Len(a) + i] = b[i]
  BY <1>1
<1>4. PICK c : c = a \o b
  OBVIOUS
<1>5. ToSet(a) \subseteq ToSet(c) /\ ToSet(b) \subseteq ToSet(c)
  BY <1>2, <1>3, <1>4 DEF ToSet
<1>6. QED
  BY <1>1, <1>4, <1>5

\* What is put together is a sequence of entries, and misses none.
LEMMA FlattenIs ==
  ASSUME NEW S, NEW n \in Nat \ {0}, NEW seqs \in [1 .. n -> Seq(S)]
  PROVE  /\ FlattenSeq(seqs) \in Seq(S)
         /\ \A k \in 1 .. n : ToSet(seqs[k]) \subseteq ToSet(FlattenSeq(seqs))
<1>1. Len(seqs) = n
  OBVIOUS
<1>2. PICK all : Joined(all, seqs, n) /\ FlattenSeq(seqs) = all[n]
  <2> DEFINE chosen == CHOOSE all : Joined(all, seqs, n)
  <2>1. Joined(chosen, seqs, n)
    BY JoinedExists
  <2>2. FlattenSeq(seqs) = chosen[n]
    BY <1>1 DEF FlattenSeq, Joined
  <2>3. QED
    BY <2>1, <2>2
<1>3. /\ all[1] = seqs[1]
      /\ \A i \in 1 .. n : i # 1 => all[i] = all[i - 1] \o seqs[i]
  <2> DEFINE value(i) == IF i = 1 THEN seqs[i] ELSE all[i - 1] \o seqs[i]
  <2>1. all = [i \in 1 .. n |-> value(i)]
    BY <1>2 DEF Joined
  <2> HIDE DEF value
  <2>2. 1 \in 1 .. n /\ \A i \in 1 .. n : all[i] = value(i)
    BY <2>1
  <2>3. value(1) = seqs[1] /\ \A i \in 1 .. n : i # 1 => value(i) = all[i - 1] \o seqs[i]
    BY DEF value
  <2>4. all[1] = seqs[1]
    BY <2>2, <2>3
  <2>5. ASSUME NEW i \in 1 .. n, i # 1 PROVE all[i] = all[i - 1] \o seqs[i]
    <3>1. all[i] = value(i) /\ value(i) = all[i - 1] \o seqs[i]
      BY <2>2, <2>3, <2>5
    <3>2. QED
      BY <3>1
  <2>6. QED
    BY <2>4, <2>5
<1> DEFINE Good(i) == all[i] \in Seq(S) /\ \A k \in 1 .. i : ToSet(seqs[k]) \subseteq ToSet(all[i])
           T == {i \in 1 .. n : ~Good(i)}
<1>4. T = {}
  <2> SUFFICES ASSUME T # {} PROVE FALSE
    OBVIOUS
  <2>1. PICK m \in T : \A i \in T : m <= i
    <3>1. T \subseteq Nat
      OBVIOUS
    <3>2. QED
      BY <3>1, LeastNat
  <2>2. m \in 1 .. n /\ ~Good(m)
    BY <2>1
  <2>3. Good(1)
    <3>1. all[1] \in Seq(S)
      BY <1>3
    <3>2. \A k \in 1 .. 1 : k = 1
      OBVIOUS
    <3>3. QED
      BY <1>3, <3>1, <3>2
  <2>4. m # 1 /\ m - 1 \in 1 .. n /\ Good(m - 1)
    <3>1. m # 1
      BY <2>2, <2>3
    <3>2. m - 1 \in 1 .. n /\ ~(m <= m - 1)
      BY <2>2, <3>1
    <3>3. m - 1 \notin T
      BY <2>1, <3>2
    <3>4. QED
      BY <3>1, <3>2, <3>3
  <2>5. PICK a, b : a = all[m - 1] /\ b = seqs[m]
    OBVIOUS
  <2>6. all[m] = a \o b /\ a \in Seq(S) /\ b \in Seq(S)
    BY <1>3, <2>2, <2>4, <2>5
  <2>7. a \o b \in Seq(S) /\ ToSet(a) \subseteq ToSet(a \o b) /\ ToSet(b) \subseteq ToSet(a \o b)
    BY <2>6, ConcatHas
  <2>8. ASSUME NEW k \in 1 .. m PROVE ToSet(seqs[k]) \subseteq ToSet(all[m])
    <3>1. CASE k = m
      BY <2>5, <2>6, <2>7, <3>1
    <3>2. CASE k # m
      <4>1. k \in 1 .. (m - 1)
        BY <2>2, <3>2
      <4>2. QED
        BY <2>4, <2>5, <2>6, <2>7, <4>1
    <3>3. QED
      BY <3>1, <3>2
  <2>9. QED
    BY <2>2, <2>6, <2>7, <2>8
<1>5. QED
  <2>1. n \in 1 .. n
    OBVIOUS
  <2>2. QED
    BY <1>2, <1>4, <2>1

\* An entry is added to the table once.
LEMMA AddIs ==
  ASSUME NEW list \in Seq(Entry), Distinct(list), NEW f \in Entry
  PROVE  /\ Add(list, f) \in Seq(Entry) /\ Distinct(Add(list, f)) /\ Lists(Add(list, f), f.path)
         /\ \A path : Lists(list, path) => Lists(Add(list, f), path)
<1>1. CASE Lists(list, f.path)
  BY <1>1 DEF Add, Lists
<1>2. CASE ~Lists(list, f.path)
  <2>1. PICK more : more = Append(list, f)
    OBVIOUS
  <2>2. Add(list, f) = more
    BY <1>2, <2>1 DEF Add, Lists
  <2>3. /\ more \in Seq(Entry) /\ Len(list) \in Nat /\ DOMAIN list = 1 .. Len(list)
        /\ DOMAIN more = 1 .. (Len(list) + 1) /\ more[Len(list) + 1] = f
        /\ \A i \in DOMAIN list : i \in DOMAIN more /\ more[i] = list[i]
    BY <2>1
  <2>4. \A i \in DOMAIN more : i = Len(list) + 1 \/ i \in DOMAIN list
    BY <2>3
  <2>5. Lists(more, f.path)
    <3>1. Len(list) + 1 \in DOMAIN more
      BY <2>3
    <3>2. QED
      BY <2>3, <3>1 DEF Lists
  <2>6. \A path : Lists(list, path) => Lists(more, path)
    BY <2>3 DEF Lists
  <2>7. ASSUME NEW i \in DOMAIN more, NEW j \in DOMAIN more, more[i].path = more[j].path
        PROVE  i = j
    <3>1. CASE i \in DOMAIN list /\ j \in DOMAIN list
      BY <2>3, <2>7, <3>1 DEF Distinct
    <3>2. CASE i = Len(list) + 1 /\ j \in DOMAIN list
      BY <1>2, <2>3, <2>7, <3>2 DEF Lists
    <3>3. CASE j = Len(list) + 1 /\ i \in DOMAIN list
      BY <1>2, <2>3, <2>7, <3>3 DEF Lists
    <3>4. QED
      BY <2>4, <3>1, <3>2, <3>3
  <2>8. Distinct(more)
    BY <2>7 DEF Distinct
  <2>9. QED
    BY <2>2, <2>3, <2>5, <2>6, <2>8
<1>3. QED
  BY <1>1, <1>2

\* The tables of all sets of the first n entries, as the fold of create_context
\* makes them: the last entry of a set is added to the table of the others.
IsFold(table, files, n) ==
  table = [s \in SUBSET (1 .. n) |->
             IF s = {} THEN << >> ELSE Add(table[s \ {Max(s)}], files[Max(s)])]

\* The last one of a set that goes up to n.
LEMMA MaxIs == ASSUME NEW n \in Nat, NEW s \in SUBSET (1 .. n), n \in s PROVE Max(s) = n
<1>1. \A x \in s : x \in Nat /\ x <= n
  OBVIOUS
<1>2. \E x \in s : \A y \in s : x >= y
  BY <1>1
<1>3. PICK m : m = Max(s)
  OBVIOUS
<1>4. m \in s /\ \A y \in s : m >= y
  BY <1>2, <1>3 DEF Max
<1>5. QED
  BY <1>1, <1>3, <1>4

\* There are such tables.
LEMMA FoldExists == ASSUME NEW files, NEW n \in Nat PROVE \E table : IsFold(table, files, n)
<1> DEFINE T == {m \in Nat : ~\E table : IsFold(table, files, m)}
<1> SUFFICES ASSUME T # {} PROVE FALSE
  OBVIOUS
<1>1. PICK m \in T : \A k \in T : m <= k
  BY LeastNat
<1>2. IsFold([s \in SUBSET (1 .. 0) |-> << >>], files, 0)
  <2>1. \A s \in SUBSET (1 .. 0) : s = {}
    OBVIOUS
  <2>2. QED
    BY <2>1 DEF IsFold
<1>3. m # 0 /\ m - 1 \in Nat /\ m - 1 \notin T
  BY <1>1, <1>2
<1>4. PICK table : IsFold(table, files, m - 1)
  BY <1>3
<1>5. \A s \in SUBSET (1 .. m) : m \notin s => s \in SUBSET (1 .. (m - 1))
  BY <1>3
<1> DEFINE old(s) == IF s = {} THEN << >> ELSE Add(table[s \ {Max(s)}], files[Max(s)])
           larger == [s \in SUBSET (1 .. m) |->
                        IF m \in s THEN Add(table[s \ {m}], files[m]) ELSE table[s]]
           value(s) == IF s = {} THEN << >> ELSE Add(larger[s \ {Max(s)}], files[Max(s)])
<1>6. \A s \in SUBSET (1 .. (m - 1)) : table[s] = old(s)
  <2>1. table = [s \in SUBSET (1 .. (m - 1)) |-> old(s)]
    BY <1>4 DEF IsFold
  <2> HIDE DEF old
  <2>2. QED
    BY <2>1
<1>7. \A s \in SUBSET (1 .. m) : m \notin s => larger[s] = table[s]
  OBVIOUS
<1>8. ASSUME NEW s \in SUBSET (1 .. m) PROVE larger[s] = value(s)
  <2>1. CASE m \in s
    <3>1. Max(s) = m
      BY <1>3, <2>1, MaxIs
    <3>2. larger[s] = Add(table[s \ {m}], files[m]) /\ larger[s \ {m}] = table[s \ {m}]
      BY <1>7, <2>1
    <3>3. s # {}
      BY <2>1
    <3> HIDE DEF larger
    <3>4. QED
      BY <3>1, <3>2, <3>3
  <2>2. CASE m \notin s
    <3>1. larger[s] = old(s)
      BY <1>5, <1>6, <1>7, <2>2
    <3>2. larger[s \ {Max(s)}] = table[s \ {Max(s)}]
      BY <1>7, <2>2
    <3> HIDE DEF larger
    <3>3. QED
      BY <3>1, <3>2
  <2>3. QED
    BY <2>1, <2>2
<1>9. IsFold(larger, files, m)
  <2>1. larger = [s \in SUBSET (1 .. m) |-> larger[s]]
    OBVIOUS
  <2> HIDE DEF larger, value
  <2>2. larger = [s \in SUBSET (1 .. m) |-> value(s)]
    BY <1>8, <2>1
  <2>3. QED
    BY <2>2 DEF IsFold, value
<1>10. QED
  BY <1>1, <1>9

\* A table has each of its entries once.
LEMMA FoldIs ==
  ASSUME NEW files \in Seq(Entry)
  PROVE  /\ FoldLeft(Add, << >>, files) \in Seq(Entry)
         /\ Distinct(FoldLeft(Add, << >>, files))
         /\ \A f \in ToSet(files) : Lists(FoldLeft(Add, << >>, files), f.path)
<1> DEFINE l == Len(files)
<1>1. l \in Nat /\ DOMAIN files = 1 .. l /\ \A k \in 1 .. l : files[k] \in Entry
  OBVIOUS
<1>2. PICK table : IsFold(table, files, l) /\ FoldLeft(Add, << >>, files) = table[1 .. l]
  <2> DEFINE chosen == CHOOSE table : IsFold(table, files, l)
  <2>1. IsFold(chosen, files, l)
    BY <1>1, FoldExists
  <2>2. FoldLeft(Add, << >>, files) = chosen[1 .. l]
    BY <1>1 DEF FoldLeft, MapThenFoldSet, IsFold
  <2>3. QED
    BY <2>1, <2>2
<1> HIDE DEF l
<1> DEFINE value(s) == IF s = {} THEN << >> ELSE Add(table[s \ {Max(s)}], files[Max(s)])
<1>3. \A s \in SUBSET (1 .. l) : table[s] = value(s)
  <2>1. table = [s \in SUBSET (1 .. l) |-> value(s)]
    BY <1>2 DEF IsFold
  <2> HIDE DEF value
  <2>2. QED
    BY <2>1
<1>4. table[1 .. 0] = << >>
  <2>1. 1 .. 0 = {} /\ {} \in SUBSET (1 .. l) /\ value({}) = << >>
    OBVIOUS
  <2> HIDE DEF value
  <2>2. QED
    BY <1>3, <2>1
<1>5. ASSUME NEW n \in 1 .. l PROVE table[1 .. n] = Add(table[1 .. (n - 1)], files[n])
  <2>1. n \in Nat /\ n \in 1 .. n /\ 1 .. n \in SUBSET (1 .. l)
    BY <1>1
  <2>2. Max(1 .. n) = n
    BY <2>1, MaxIs
  <2>3. (1 .. n) \ {n} = 1 .. (n - 1) /\ 1 .. n # {}
    BY <2>1
  <2>4. value(1 .. n) = Add(table[1 .. (n - 1)], files[n])
    BY <2>2, <2>3
  <2>5. QED
    BY <1>3, <2>1, <2>4
<1> HIDE DEF value
<1> DEFINE Good(n) == /\ table[1 .. n] \in Seq(Entry) /\ Distinct(table[1 .. n])
                      /\ \A k \in 1 .. n : Lists(table[1 .. n], files[k].path)
           T == {n \in 0 .. l : ~Good(n)}
<1>6. Good(0)
  <2>1. table[1 .. 0] \in Seq(Entry) /\ Distinct(table[1 .. 0])
    BY <1>4 DEF Distinct
  <2>2. QED
    BY <2>1
<1>7. ASSUME NEW n \in 1 .. l, Good(n - 1) PROVE Good(n)
  <2>1. PICK old, new, f : old = table[1 .. (n - 1)] /\ new = table[1 .. n] /\ f = files[n]
    OBVIOUS
  <2>2. new = Add(old, f) /\ f \in Entry /\ old \in Seq(Entry) /\ Distinct(old)
    BY <1>1, <1>5, <1>7, <2>1
  <2>3. /\ new \in Seq(Entry) /\ Distinct(new) /\ Lists(new, f.path)
        /\ \A path : Lists(old, path) => Lists(new, path)
    BY <2>2, AddIs
  <2>4. \A k \in 1 .. n : k = n \/ k \in 1 .. (n - 1)
    OBVIOUS
  <2>5. \A k \in 1 .. n : Lists(new, files[k].path)
    BY <1>7, <2>1, <2>3, <2>4
  <2>6. QED
    BY <2>1, <2>3, <2>5
<1>8. T = {}
  <2> SUFFICES ASSUME T # {} PROVE FALSE
    OBVIOUS
  <2>1. T \subseteq Nat
    BY <1>1
  <2> HIDE DEF Good
  <2>2. PICK m \in T : \A i \in T : m <= i
    BY <2>1, LeastNat
  <2>3. m \in 0 .. l /\ ~Good(m) /\ m # 0
    BY <1>6, <2>2
  <2>4. m \in 1 .. l /\ m - 1 \in 0 .. l /\ ~(m <= m - 1)
    BY <1>1, <2>3
  <2>5. Good(m - 1)
    BY <2>2, <2>4
  <2>6. QED
    BY <1>7, <2>3, <2>4, <2>5
<1>9. Good(l)
  <2> HIDE DEF Good
  <2>1. l \in 0 .. l
    BY <1>1
  <2>2. QED
    BY <1>8, <2>1
<1>10. \A f \in ToSet(files) : \E k \in 1 .. l : f = files[k]
  BY <1>1 DEF ToSet
<1>11. QED
  BY <1>2, <1>9, <1>10

\* Whatever a notification lists is monitored, once.
LEMMA MonitoredIs ==
  ASSUME config \in Configs, Valid(config)
  PROVE  /\ Monitored(config) \in Seq(Entry) /\ Distinct(Monitored(config))
         /\ \A n \in Notifs : \A f \in Files(n) : f \in Paths /\ Lists(Monitored(config), f)
<1> DEFINE l == Len(config.notifications)
           seqs == [i \in DOMAIN config.notifications |-> config.notifications[i].source]
<1>1. /\ config.notifications \in Seq(NotificationDir(STRING, STRING)) /\ l \in Nat /\ l >= 1
      /\ \A m \in ToSet(config.notifications) : NotificationLoads(m, ToSet(TargetNames(config)))
  BY ConfigAssumption DEF Valid
<1>2. DOMAIN config.notifications = 1 .. l /\ Notifs = 1 .. l
  BY <1>1 DEF Notifs
<1>3. ASSUME NEW i \in 1 .. l PROVE config.notifications[i].source \in Seq(Entry)
  <2>1. PICK m : m = config.notifications[i]
    OBVIOUS
  <2>2. m \in NotificationDir(STRING, STRING) /\ m \in ToSet(config.notifications)
    BY <1>1, <1>2, <2>1 DEF ToSet
  <2>3. m.source \in Seq([path : STRING, status : BOOLEAN]) /\ \A f \in ToSet(m.source) : f.path \in Paths
    BY <1>1, <2>2 DEF NotificationLoads, NotificationDir
  <2>4. PICK files : files = m.source
    OBVIOUS
  <2>5. files \in Seq([path : STRING, status : BOOLEAN]) /\ \A k \in DOMAIN files : files[k].path \in Paths
    BY <2>3, <2>4 DEF ToSet
  <2>6. ASSUME NEW k \in DOMAIN files PROVE files[k] \in Entry
    <3>1. files[k] \in [path : STRING, status : BOOLEAN]
      <4> DEFINE S == [path : STRING, status : BOOLEAN]
      <4>1. files \in Seq(S)
        BY <2>5
      <4> HIDE DEF S
      <4>2. files[k] \in S
        BY <4>1
      <4>3. QED
        BY <4>2 DEF S
    <3>2. PICK f : f = files[k]
      OBVIOUS
    <3>3. f \in [path : STRING, status : BOOLEAN] /\ f.path \in Paths
      BY <2>5, <3>1, <3>2
    <3>4. QED
      BY <3>2, <3>3 DEF Entry
  <2>7. files \in Seq(Entry)
    BY <2>5, <2>6
  <2>8. QED
    BY <2>1, <2>4, <2>7
<1>4. seqs \in [1 .. l -> Seq(Entry)] /\ \A i \in 1 .. l : seqs[i] = config.notifications[i].source
  BY <1>2, <1>3
<1>5. Sources(config) = FlattenSeq(seqs)
  BY DEF Sources
<1> HIDE DEF seqs, l
<1>6. /\ Sources(config) \in Seq(Entry)
      /\ \A i \in 1 .. l : ToSet(config.notifications[i].source) \subseteq ToSet(Sources(config))
  <2>1. l \in Nat \ {0}
    BY <1>1
  <2>2. /\ FlattenSeq(seqs) \in Seq(Entry)
        /\ \A k \in 1 .. l : ToSet(seqs[k]) \subseteq ToSet(FlattenSeq(seqs))
    BY <1>4, <2>1, FlattenIs
  <2>3. QED
    BY <1>4, <1>5, <2>2
<1>7. /\ Monitored(config) \in Seq(Entry) /\ Distinct(Monitored(config))
      /\ \A f \in ToSet(Sources(config)) : Lists(Monitored(config), f.path)
  BY <1>6, FoldIs DEF Monitored
<1>8. ASSUME NEW n \in Notifs, NEW f \in Files(n) PROVE f \in Paths /\ Lists(Monitored(config), f)
  <2>1. PICK g \in ToSet(config.notifications[n].source) : f = g.path
    BY DEF Files
  <2>2. g \in Entry
    BY <1>2, <1>3, <2>1 DEF ToSet
  <2>3. g \in ToSet(Sources(config))
    BY <1>2, <1>6, <2>1
  <2>4. QED
    BY <1>7, <2>1, <2>2, <2>3 DEF Entry
<1>9. QED
  BY <1>7, <1>8

-----------------------------------------------------------------------------
(* Each part of the invariant, step by step. *)

\* The pair in hand is a pair, whose interval is a number.
LEMMA PairIs ==
  ASSUME Place, pc \in {"target", "stamp"}
  PROVE  /\ config \in Configs /\ Valid(config) /\ nidx \in Notifs
         /\ tidx \in DOMAIN TargetsOf(nidx) /\ target = TargetsOf(nidx)[tidx]
         /\ pair \in Pairs /\ pair = <<nidx, target>> /\ pair[2] = target
         /\ Interval(target) \in Int
<1>1. config \in Configs /\ Valid(config) /\ nidx \in Notifs /\ tidx \in DOMAIN TargetsOf(nidx)
  BY DEF Place, Busy
<1>2. pair \in Pairs
  BY <1>1, TargetsAre DEF pair, target
<1>3. pair[2] = target
  BY DEF pair
<1>4. Interval(target) \in Int
  BY <1>1, <1>2, <1>3, IntervalIs
<1>5. QED
  BY <1>1, <1>2, <1>3, <1>4 DEF pair, target

\* The configuration never changes, nor what depends on nothing else.
LEMMA SameConfig ==
  ASSUME [Next]_vars
  PROVE  /\ config' = config /\ Notifs' = Notifs /\ Pairs' = Pairs /\ Valid(config') = Valid(config)
         /\ \A n : TargetsOf(n)' = TargetsOf(n)
         /\ \A t : Interval(t)' = Interval(t)
<1>1. config' = config
  BY DEF Next, Monitor, vars, Setup, NextFile, EndOfRound, TakeLine, Skip, AskFilter,
     FilterDone, RunProgram, ProgramDone, TextReady, Hold, Send, Stamp, NewLine, HelperEnds,
     SenderEnds, Tick
<1>2. QED
  BY <1>1 DEF Notifs, Pairs, TargetsOf, Interval

\* Initially there is nothing to ask about.
LEMMA CountsInit == Init => Counts
<1> SUFFICES ASSUME Init PROVE Counts
  OBVIOUS
<1>1. pc = "setup" /\ mf = 1 /\ monitored = << >> /\ unread = << >>
  BY DEF Init
<1>2. asked = [n \in Notifs |-> [f \in Paths |-> 0]] /\ appeared = [f \in Paths |-> 0]
  BY DEF Init
<1>3. unread \in [DOMAIN monitored -> Nat]
  BY <1>1
<1>4. asked \in [Notifs -> [Paths -> Nat]] /\ appeared \in [Paths -> Nat]
  BY <1>2
<1>5. \A f \in Paths : appeared[f] = 0 /\ \A n \in Notifs : asked[n][f] = 0
  BY <1>2
<1>6. QED
  BY <1>1, <1>3, <1>4, <1>5 DEF Counts, Counted, Busy

\* Initially nothing is known and nothing asked.
LEMMA NotifierInit == Init => NotifierInv
<1> SUFFICES ASSUME Init PROVE NotifierInv
  OBVIOUS
<1>1. Place
  BY DEF Init, Place, Busy
<1>2. Times
  BY ConstAssumption DEF Init, Times, Never
<1>3. Answers
  BY DEF Init, Answers, Nothing, Sent
<1>4. Progress
  BY DEF Init, Progress, Busy
<1>5. Counts
  BY CountsInit
<1>6. QED
  BY <1>1, <1>2, <1>3, <1>4, <1>5 DEF NotifierInv

\* What a step does with the times.
LEMMA TimesNext == Place /\ Times /\ [Next]_vars => Times'
<1> SUFFICES ASSUME Place, Times, [Next]_vars PROVE Times'
  OBVIOUS
<1>1. Pairs' = Pairs
  BY SameConfig
<1>2. CASE UNCHANGED <<now, sent_at, last_notif_sent>>
  BY <1>1, <1>2 DEF Times
<1>3. CASE Tick
  <2>1. now' = now + 1 /\ UNCHANGED <<sent_at, last_notif_sent>>
    BY <1>3 DEF Tick, history
  <2>2. now \in Nat /\ now >= Second /\ Second \in Nat
    BY ConstAssumption DEF Times
  <2>3. now' \in Nat /\ now' >= Second /\ \A k \in Nat : k <= now => k <= now'
    BY <2>1, <2>2
  <2>4. \A p \in Pairs : sent_at[p] # Never => sent_at[p] \in Nat
    BY DEF Times
  <2>5. QED
    BY <1>1, <2>1, <2>3, <2>4 DEF Times
<1>4. CASE Stamp
  <2>1. pair \in Pairs
    BY <1>4, PairIs DEF Stamp
  <2>2. PICK p, q : p = pair /\ q = Seconds
    OBVIOUS
  <2>3. /\ last_notif_sent' = [last_notif_sent EXCEPT ![p] = q]
        /\ sent_at' = [sent_at EXCEPT ![p] = now] /\ now' = now
    BY <1>4, <2>2 DEF Stamp
  <2>4. q = now \div Second /\ q \in Nat /\ q > 0
    <3>1. q = now \div Second /\ now \in Nat /\ now >= Second /\ Second \in Nat \ {0}
      BY <2>2, ConstAssumption DEF Seconds, Times
    <3>2. q \in Nat /\ now < Second * q + Second
      BY <3>1, SecondIs
    <3>3. q # 0
      BY <3>1, <3>2
    <3>4. QED
      BY <3>1, <3>2, <3>3
  <2>5. QED
    BY <1>1, <2>1, <2>2, <2>3, <2>4 DEF Times, Never
<1>5. QED
  BY <1>2, <1>3, <1>4 DEF Next, Monitor, vars, Setup, NextFile, EndOfRound, TakeLine, Skip,
     AskFilter, FilterDone, RunProgram, ProgramDone, TextReady, Hold, Send, NewLine, HelperEnds,
     SenderEnds, history

\* An answer stays one, unless the time of its pair is forgotten.
LEMMA AnswersFrame ==
  ASSUME Answers, [Next]_vars, UNCHANGED answer,
         said' \in [Notifs -> {"nothing", "yes", "no", "killed"}],
         \A p \in Pairs : sent_at'[p] = sent_at[p] \/ sent_at'[p] # Never
  PROVE  Answers'
<1>1. \A p \in Pairs : Interval(p[2])' = Interval(p[2])
  BY SameConfig
<1>2. \A p \in Pairs : IsAnswer(p) => IsAnswer(p)'
  BY <1>1 DEF IsAnswer
<1>3. QED
  BY <1>2, SameConfig DEF Answers

\* What a target is told is an answer.
LEMMA AnswersNext == Place /\ Times /\ Answers /\ [Next]_vars => Answers'
<1> SUFFICES ASSUME Place, Times, Answers, [Next]_vars PROVE Answers'
  OBVIOUS
<1>1. CASE UNCHANGED <<said, answer, sent_at>>
  BY <1>1, AnswersFrame DEF Answers
<1>2. CASE TakeLine
  <2>1. /\ said' = [n \in Notifs |-> "nothing"] /\ answer' = [p \in Pairs |-> Nothing]
        /\ Notifs' = Notifs /\ Pairs' = Pairs
    BY <1>2, SameConfig DEF TakeLine
  <2>2. QED
    BY <2>1 DEF Answers
<1>3. CASE HelperEnds
  <2>1. PICK outcome \in {"yes", "no", "killed"} :
          said' = IF pc = "filter" THEN [said EXCEPT ![nidx] = outcome] ELSE said
    BY <1>3 DEF HelperEnds
  <2>2. said' \in [Notifs -> {"nothing", "yes", "no", "killed"}]
    BY <2>1 DEF Answers
  <2>3. UNCHANGED <<answer, sent_at>>
    BY <1>3 DEF HelperEnds
  <2>4. QED
    BY <2>2, <2>3, AnswersFrame
<1>4. CASE Stamp
  <2>1. UNCHANGED <<said, answer>> /\ sent_at' = [sent_at EXCEPT ![pair] = now]
    BY <1>4 DEF Stamp
  <2>2. \A p \in Pairs : sent_at'[p] = sent_at[p] \/ sent_at'[p] # Never
    BY <2>1 DEF Times, Never
  <2>3. QED
    BY <2>1, <2>2, AnswersFrame DEF Answers
<1>5. ASSUME NEW a, NEW p, p \in Pairs, answer' = [answer EXCEPT ![p] = a], UNCHANGED <<said, sent_at>>,
             \/ a = answer[p] \/ a = Sent
             \/ /\ a \in Nat /\ sent_at[p] # Never
                /\ Interval(p[2]) = 0 \/ a < Interval(p[2]) * Second
      PROVE  Answers'
  <2>1. \A q \in Pairs : Interval(q[2])' = Interval(q[2])
    BY SameConfig
  <2>2. Notifs' = Notifs /\ Pairs' = Pairs
    BY SameConfig
  <2>3. answer'[p] = a /\ \A q \in Pairs \ {p} : answer'[q] = answer[q]
    BY <1>5 DEF Answers
  <2>4. answer' \in [Pairs -> Nat \cup {Sent, Nothing}]
    BY <1>5 DEF Answers
  <2>5. ASSUME NEW q \in Pairs, answer'[q] # Nothing PROVE IsAnswer(q)'
    <3>1. CASE q = p
      BY <1>5, <2>1, <2>3, <2>5, <3>1 DEF IsAnswer, Answers
    <3>2. CASE q # p
      BY <1>5, <2>1, <2>3, <2>5, <3>2 DEF IsAnswer, Answers
    <3>3. QED
      BY <3>1, <3>2
  <2>6. QED
    BY <1>5, <2>2, <2>4, <2>5 DEF Answers
<1>6. CASE Send
  <2>1. pair \in Pairs
    BY <1>6, PairIs DEF Send
  <2>2. answer' = [answer EXCEPT ![pair] = Sent] /\ UNCHANGED <<said, sent_at>>
    BY <1>6 DEF Send
  <2>3. PICK p : p = pair
    OBVIOUS
  <2>4. QED
    BY <1>5, <2>1, <2>2, <2>3
<1>7. CASE Hold
  <2>1. /\ pair \in Pairs /\ pair[2] = target /\ Interval(target) \in Int
        /\ Held(pair, Interval(target)) /\ UNCHANGED <<said, sent_at>>
        /\ answer' = [answer EXCEPT ![pair] = IF @ = Nothing THEN now - sent_at[pair] ELSE @]
    BY <1>7, PairIs DEF Hold
  <2>2. PICK p, d, a, t : /\ p = pair /\ d = Interval(target) /\ t = sent_at[p]
                          /\ a = IF answer[p] = Nothing THEN now - t ELSE answer[p]
    OBVIOUS
  <2>3. p \in Pairs /\ answer' = [answer EXCEPT ![p] = a]
    BY <2>1, <2>2 DEF Answers
  <2>4. /\ last_notif_sent[p] > 0 /\ d \in Int
        /\ d = 0 \/ Seconds - last_notif_sent[p] < d
    BY <2>1, <2>2 DEF Held
  <2>5. /\ t # Never /\ t \in Nat /\ t <= now /\ last_notif_sent[p] = t \div Second
        /\ now \in Nat
    BY <2>2, <2>3, <2>4 DEF Times
  <2>6. now - t \in Nat
    BY <2>5
  <2>7. d = 0 \/ now - t < d * Second
    BY <2>4, <2>5, Near, ConstAssumption DEF Seconds
  <2>8. Interval(p[2]) = d
    BY <2>1, <2>2
  <2>9. QED
    BY <1>5, <2>1, <2>2, <2>3, <2>5, <2>6, <2>7, <2>8
<1>8. QED
  BY <1>1, <1>2, <1>3, <1>4, <1>6, <1>7 DEF Next, Monitor, vars, Setup, NextFile, EndOfRound,
     Skip, AskFilter, FilterDone, RunProgram, ProgramDone, TextReady, NewLine, SenderEnds, Tick, history

\* The next notification, or the next line.
LEMMA NextNotificationIs ==
  ASSUME config \in Configs, Valid(config), nidx \in Notifs, NextNotification
  PROVE  /\ nidx' = nidx + 1 /\ nidx \in Nat /\ Notifs \subseteq Nat
         /\ \/ pc' = "notify" /\ nidx + 1 \in Notifs
            \/ pc' = "loop" /\ \A n \in Notifs : n <= nidx
<1>1. PICK l : l = Len(config.notifications) /\ l \in Nat /\ Notifs = 1 .. l
  BY ConfigAssumption DEF Notifs
<1>2. nidx' = nidx + 1 /\ pc' = IF nidx < l THEN "notify" ELSE "loop"
  BY <1>1 DEF NextNotification, AfterNotification
<1>3. nidx \in 1 .. l
  BY <1>1
<1>4. QED
  BY <1>1, <1>2, <1>3

\* The next target, or the next notification.
LEMMA NextTargetIs ==
  ASSUME Place, pc \in {"target", "stamp"}, NextTarget
  PROVE  /\ tidx \in Nat /\ DOMAIN TargetsOf(nidx) \subseteq Nat
         /\ \/ pc' = "target" /\ tidx' = tidx + 1 /\ nidx' = nidx /\ tidx + 1 \in DOMAIN TargetsOf(nidx)
            \/ NextNotification /\ \A j \in DOMAIN TargetsOf(nidx) : j <= tidx
<1>1. PICK l : l = Len(TargetsOf(nidx)) /\ l \in Nat /\ DOMAIN TargetsOf(nidx) = 1 .. l
  BY PairIs, TargetsAre
<1>2. tidx \in 1 .. l
  BY <1>1, PairIs
<1>3. \/ tidx < l /\ pc' = "target" /\ tidx' = tidx + 1 /\ nidx' = nidx
      \/ ~(tidx < l) /\ NextNotification
  BY <1>1 DEF NextTarget
<1>4. QED
  BY <1>1, <1>2, <1>3

\* With a valid configuration there is a first notification.
LEMMA FirstNotification ==
  ASSUME config \in Configs, Valid(config)
  PROVE  1 \in Notifs
BY ConfigAssumption DEF Valid, Notifs

\* Every step leaves the monitor at a place that the configuration has.
LEMMA PlaceNext == Place /\ Answers /\ [Next]_vars => Place'
<1> SUFFICES ASSUME Place, Answers, [Next]_vars PROVE Place'
  OBVIOUS
<1>1. /\ config' = config /\ Notifs' = Notifs /\ Valid(config') = Valid(config)
      /\ \A n : TargetsOf(n)' = TargetsOf(n)
  BY SameConfig
<1>2. CASE UNCHANGED <<pc, nidx, tidx, helper, said>>
  BY <1>1, <1>2 DEF Place, Busy
<1>3. CASE Setup
  BY <1>1, <1>3 DEF Setup, Place, Busy
<1>4. CASE TakeLine
  <2>1. pc = "loop" /\ pc' = "notify" /\ nidx' = 1
    BY <1>4 DEF TakeLine
  <2>2. QED
    BY <1>1, <2>1, FirstNotification DEF Place, Busy
<1>5. ASSUME Busy, NextNotification PROVE Place'
  <2>1. /\ nidx' = nidx + 1 /\ pc' \in {"notify", "loop"} /\ (pc' = "notify" => nidx' \in Notifs)
        /\ Valid(config)
    BY <1>5, NextNotificationIs DEF Place, Busy
  <2>2. QED
    BY <1>1, <2>1 DEF Place, Busy
<1>6. ASSUME Busy, pc' \in {"filter", "text", "program"}, nidx' = nidx,
             pc' = "filter" => helper' = "running"
      PROVE  Place'
  BY <1>1, <1>6 DEF Place, Busy
<1>7. CASE Skip
  BY <1>5, <1>7 DEF Skip, Busy
<1>8. CASE AskFilter
  BY <1>5, <1>6, <1>8 DEF AskFilter, Busy
<1>9. CASE FilterDone
  BY <1>5, <1>6, <1>9 DEF FilterDone, Busy
<1>10. CASE RunProgram \/ ProgramDone
  BY <1>6, <1>10 DEF RunProgram, ProgramDone, Busy
<1>11. CASE TextReady
  <2>1. pc = "text" /\ pc' = "target" /\ tidx' = 1 /\ nidx' = nidx
    BY <1>11 DEF TextReady
  <2>2. nidx \in Notifs /\ Valid(config) /\ config \in Configs
    BY <2>1 DEF Place, Busy
  <2>3. QED
    BY <1>1, <2>1, <2>2, TargetsAre DEF Place, Busy
<1>12. ASSUME pc \in {"target", "stamp"}, NextTarget PROVE Place'
  <2>1. CASE NextNotification
    BY <1>5, <1>12, <2>1 DEF Busy
  <2>2. CASE pc' = "target" /\ tidx' = tidx + 1 /\ nidx' = nidx /\ tidx + 1 \in DOMAIN TargetsOf(nidx)
    BY <1>1, <1>12, <2>2 DEF Place, Busy
  <2>3. QED
    BY <1>12, <2>1, <2>2, NextTargetIs
<1>13. CASE Hold \/ Stamp
  BY <1>12, <1>13 DEF Hold, Stamp
<1>14. CASE Send
  BY <1>1, <1>14 DEF Send, Place, Busy
<1>15. CASE HelperEnds
  <2>1. PICK outcome \in {"yes", "no", "killed"} :
          /\ helper' = outcome
          /\ said' = IF pc = "filter" THEN [said EXCEPT ![nidx] = outcome] ELSE said
    BY <1>15 DEF HelperEnds, OnSigchld
  <2>2. UNCHANGED <<pc, nidx, tidx>>
    BY <1>15 DEF HelperEnds
  <2>3. pc = "filter" => nidx \in Notifs
    BY DEF Place, Busy
  <2>4. pc = "filter" => said'[nidx] = outcome
    BY <2>1, <2>3 DEF Answers
  <2>5. QED
    BY <1>1, <2>1, <2>2, <2>4 DEF Place, Busy
<1>16. QED
  BY <1>2, <1>3, <1>4, <1>7, <1>8, <1>9, <1>10, <1>11, <1>13, <1>14, <1>15
     DEF Next, Monitor, vars, NextFile, EndOfRound, NewLine, SenderEnds, Tick, work, history

\* What has been answered stays answered.
Grows == \A p \in Pairs : answer[p] # Nothing => answer'[p] # Nothing

\* A notification that was answered stays so.
LEMMA AnsweredStays ==
  ASSUME Place, [Next]_vars, Grows, pc \notin {"setup", "failed"}, NEW n \in Notifs, AllAnswered(n)
  PROVE  AllAnswered(n)'
<1>1. TargetsOf(n)' = TargetsOf(n)
  BY SameConfig
<1>2. \A t \in ToSet(TargetsOf(n)) : <<n, t>> \in Pairs
  BY TargetsAre DEF Place, ToSet
<1>3. \A t \in ToSet(TargetsOf(n)) : answer'[<<n, t>>] # Nothing
  BY <1>2 DEF AllAnswered, Grows
<1>4. QED
  BY <1>1, <1>3 DEF AllAnswered

\* The notification in hand is done with.
LEMMA MoveOn ==
  ASSUME Place, Progress, [Next]_vars, Busy, NextNotification, UNCHANGED said, Grows,
         NEW h, h = nidx, said[h] = "yes" => AllAnswered(h)'
  PROVE  Progress'
<1>1. /\ nidx' = nidx + 1 /\ nidx \in Nat /\ Notifs \subseteq Nat /\ nidx \in Notifs
      /\ \/ pc' = "notify" /\ nidx + 1 \in Notifs
         \/ pc' = "loop" /\ \A n \in Notifs : n <= nidx
  BY NextNotificationIs DEF Place, Busy
<1>2. Notifs' = Notifs /\ pc \notin {"setup", "failed"}
  BY SameConfig DEF Busy
<1>3. ASSUME NEW n \in Notifs, n <= nidx, said[n] = "yes" PROVE AllAnswered(n)'
  <2>1. CASE n = nidx
    BY <1>3, <2>1
  <2>2. CASE n < nidx
    <3>1. AllAnswered(n)
      BY <1>3, <2>2 DEF Progress
    <3>2. QED
      BY <1>2, <3>1, AnsweredStays
  <2>3. QED
    BY <1>1, <1>3, <2>1, <2>2
<1>4. \A n \in Notifs : n > nidx => said[n] = "nothing"
  BY DEF Progress
<1>5. CASE pc' = "notify"
  <2>1. ASSUME NEW n \in Notifs
        PROVE  /\ n < nidx + 1 /\ said[n] = "yes" => AllAnswered(n)'
               /\ n > nidx + 1 \/ n = nidx + 1 => said[n] = "nothing"
    <3>1. n \in Nat /\ (n < nidx + 1 => n <= nidx) /\ (n > nidx + 1 \/ n = nidx + 1 => n > nidx)
      BY <1>1
    <3>2. QED
      BY <1>3, <1>4, <3>1
  <2>2. QED
    BY <1>1, <1>2, <1>5, <2>1 DEF Progress
<1>6. CASE pc' = "loop"
  <2>1. \A n \in Notifs : said[n] = "yes" => AllAnswered(n)'
    BY <1>1, <1>3, <1>6
  <2>2. QED
    BY <1>2, <1>6, <2>1 DEF Progress, Busy
<1>7. QED
  BY <1>1, <1>5, <1>6

\* The notification in hand stays in hand.
LEMMA Stay ==
  ASSUME Place, Progress, [Next]_vars, Busy, nidx' = nidx, Grows,
         pc' \in {"filter", "text", "program", "target", "stamp"},
         \A n \in Notifs : n # nidx => said'[n] = said[n],
         pc' \in {"target", "stamp"} => \A j \in DOMAIN TargetsOf(nidx) :
           j < tidx' \/ (j = tidx' /\ pc' = "stamp") => answer'[<<nidx, TargetsOf(nidx)[j]>>] # Nothing
  PROVE  Progress'
<1>1. /\ Notifs' = Notifs /\ TargetsOf(nidx)' = TargetsOf(nidx) /\ pc \notin {"setup", "failed"}
  <2>1. TargetsOf(nidx)' = TargetsOf(nidx)
    BY SameConfig DEF TargetsOf
  <2>2. QED
    BY <2>1, SameConfig DEF Busy
<1>2. nidx \in Nat /\ Notifs \subseteq Nat
  <2>1. nidx \in Notifs /\ config \in Configs
    BY DEF Place, Busy
  <2>2. QED
    BY <2>1, ConfigAssumption DEF Notifs
<1>3. ASSUME NEW n \in Notifs, n < nidx, said'[n] = "yes" PROVE AllAnswered(n)'
  <2>1. said[n] = "yes"
    BY <1>2, <1>3
  <2>2. AllAnswered(n)
    BY <1>3, <2>1 DEF Progress
  <2>3. QED
    BY <1>1, <2>2, AnsweredStays
<1>4. \A n \in Notifs : n > nidx => said'[n] = "nothing"
  BY <1>2 DEF Progress
<1>5. (pc \in {"target", "stamp"} => \A j \in DOMAIN TargetsOf(nidx) :
        j < tidx \/ (j = tidx /\ pc = "stamp") => answer[<<nidx, TargetsOf(nidx)[j]>>] # Nothing)'
  BY <1>1
<1>6. (Busy => \A n \in Notifs :
        /\ n < nidx /\ said[n] = "yes" => AllAnswered(n)
        /\ n > nidx \/ (n = nidx /\ pc = "notify") => said[n] = "nothing")'
  BY <1>1, <1>3, <1>4
<1>7. QED
  BY <1>5, <1>6 DEF Progress

\* The target in hand is done with.
LEMMA TargetDone ==
  ASSUME Place, Progress, [Next]_vars, pc \in {"target", "stamp"}, NextTarget, UNCHANGED said, Grows,
         answer'[pair] # Nothing
  PROVE  Progress'
<1>1. /\ nidx \in Notifs /\ config \in Configs /\ Valid(config) /\ pair = <<nidx, TargetsOf(nidx)[tidx]>>
      /\ Busy /\ tidx \in Nat /\ DOMAIN TargetsOf(nidx) \subseteq Nat
  BY PairIs, NextTargetIs DEF Busy
<1>2. ASSUME NEW j \in DOMAIN TargetsOf(nidx), j <= tidx
      PROVE  answer'[<<nidx, TargetsOf(nidx)[j]>>] # Nothing
  <2>1. CASE j = tidx
    BY <1>1, <2>1
  <2>2. CASE j < tidx
    <3>1. answer[<<nidx, TargetsOf(nidx)[j]>>] # Nothing
      BY <2>2 DEF Progress
    <3>2. <<nidx, TargetsOf(nidx)[j]>> \in Pairs
      BY <1>1, TargetsAre
    <3>3. QED
      BY <3>1, <3>2 DEF Grows
  <2>3. QED
    BY <1>1, <1>2, <2>1, <2>2
<1>3. CASE NextNotification /\ \A j \in DOMAIN TargetsOf(nidx) : j <= tidx
  <2>1. \A t \in ToSet(TargetsOf(nidx)) : answer'[<<nidx, t>>] # Nothing
    BY <1>2, <1>3 DEF ToSet
  <2>2. \A n : TargetsOf(n)' = TargetsOf(n)
    BY SameConfig
  <2>3. PICK n : n = nidx
    OBVIOUS
  <2>4. AllAnswered(n)'
    BY <2>1, <2>2, <2>3 DEF AllAnswered
  <2>5. QED
    BY <1>1, <1>3, <2>3, <2>4, MoveOn
<1>4. CASE pc' = "target" /\ tidx' = tidx + 1 /\ nidx' = nidx
  <2>1. \A j \in DOMAIN TargetsOf(nidx) : j < tidx + 1 => j <= tidx
    BY <1>1
  <2>2. QED
    BY <1>1, <1>2, <1>4, <2>1, Stay
<1>5. QED
  BY <1>3, <1>4, NextTargetIs

\* Every step keeps account of who has been answered.
LEMMA ProgressNext == Place /\ Answers /\ Times /\ Progress /\ [Next]_vars => Progress'
<1> SUFFICES ASSUME Place, Answers, Times, Progress, [Next]_vars PROVE Progress'
  OBVIOUS
<1>1. Notifs' = Notifs /\ Pairs' = Pairs /\ \A n : TargetsOf(n)' = TargetsOf(n)
  BY SameConfig
<1>2. CASE UNCHANGED <<pc, nidx, tidx, said, answer>>
  BY <1>1, <1>2 DEF Progress, AllAnswered, Busy
<1>3. CASE Setup
  <2>1. pc = "setup" /\ pc' \in {"loop", "failed"} /\ UNCHANGED <<said, answer>>
    BY <1>3 DEF Setup, history
  <2>2. QED
    BY <1>1, <2>1 DEF Progress, AllAnswered, Busy
<1>4. CASE TakeLine
  <2>1. pc' = "notify" /\ nidx' = 1 /\ said' = [n \in Notifs |-> "nothing"]
    BY <1>4 DEF TakeLine
  <2>2. QED
    BY <1>1, <2>1 DEF Progress, Busy
<1>5. UNCHANGED answer => Grows
  BY DEF Grows
<1>6. ASSUME Busy, NextNotification, UNCHANGED <<said, answer>>, said[nidx] # "yes" PROVE Progress'
  <2>1. PICK h : h = nidx
    OBVIOUS
  <2>2. QED
    BY <1>5, <1>6, <2>1, MoveOn
<1>7. ASSUME Busy, nidx' = nidx, pc' \in {"filter", "text", "program"}, UNCHANGED <<said, answer>>
      PROVE  Progress'
  BY <1>5, <1>7, Stay
<1>8. nidx \in Notifs /\ pc = "notify" => said[nidx] = "nothing"
  BY DEF Progress, Busy
<1>9. CASE Skip
  BY <1>6, <1>8, <1>9 DEF Skip, history, Place, Busy
<1>10. CASE AskFilter
  BY <1>6, <1>7, <1>8, <1>10 DEF AskFilter, Place, Busy
<1>11. CASE FilterDone
  BY <1>6, <1>7, <1>11 DEF FilterDone, history, Place, Busy
<1>12. CASE RunProgram \/ ProgramDone
  BY <1>7, <1>12 DEF RunProgram, ProgramDone, history, Busy
<1>13. CASE TextReady
  <2>1. /\ pc = "text" /\ pc' = "target" /\ tidx' = 1 /\ nidx' = nidx /\ UNCHANGED <<said, answer>>
    BY <1>13 DEF TextReady, history
  <2>2. DOMAIN TargetsOf(nidx) \subseteq Nat \ {0}
    <3>1. TargetsOf(nidx) \in Seq(STRING)
      BY <2>1, TargetsAre DEF Place, Busy
    <3>2. QED
      BY <3>1
  <2>3. \A j \in DOMAIN TargetsOf(nidx) : ~(j < 1)
    BY <2>2
  <2>4. QED
    BY <1>5, <2>1, <2>3, Stay DEF Busy
<1>14. CASE Hold
  <2>1. /\ pc = "target" /\ NextTarget /\ UNCHANGED said /\ Held(pair, Interval(target)) /\ pair \in Pairs
        /\ answer' = [answer EXCEPT ![pair] = IF @ = Nothing THEN now - sent_at[pair] ELSE @]
    BY <1>14, PairIs DEF Hold
  <2>2. PICK p : p = pair
    OBVIOUS
  <2>3. now - sent_at[p] # Nothing
    <3>1. last_notif_sent[p] > 0
      BY <2>1, <2>2 DEF Held
    <3>2. sent_at[p] \in Nat /\ sent_at[p] <= now /\ now \in Nat
      BY <2>1, <2>2, <3>1 DEF Times
    <3>3. QED
      BY <3>2 DEF Nothing
  <2>4. answer'[p] # Nothing /\ \A q \in Pairs \ {p} : answer'[q] = answer[q]
    BY <2>1, <2>2, <2>3 DEF Answers
  <2>5. Grows
    BY <2>4 DEF Grows
  <2>6. QED
    BY <2>1, <2>2, <2>4, <2>5, TargetDone
<1>15. CASE Send
  <2>1. /\ pc = "target" /\ pc' = "stamp" /\ UNCHANGED <<said, nidx, tidx>> /\ pair \in Pairs
        /\ answer' = [answer EXCEPT ![pair] = Sent] /\ pair = <<nidx, TargetsOf(nidx)[tidx]>>
    BY <1>15, PairIs DEF Send
  <2>2. PICK p : p = pair
    OBVIOUS
  <2>3. answer'[p] # Nothing /\ \A q \in Pairs \ {p} : answer'[q] = answer[q]
    BY <2>1, <2>2 DEF Answers, Nothing, Sent
  <2>4. Grows
    BY <2>3 DEF Grows
  <2>5. ASSUME NEW j \in DOMAIN TargetsOf(nidx), j < tidx \/ j = tidx
        PROVE  answer'[<<nidx, TargetsOf(nidx)[j]>>] # Nothing
    <3>1. CASE j = tidx
      BY <2>1, <2>2, <2>3, <3>1
    <3>2. CASE j < tidx
      <4>1. answer[<<nidx, TargetsOf(nidx)[j]>>] # Nothing
        BY <2>1, <3>2 DEF Progress
      <4>2. <<nidx, TargetsOf(nidx)[j]>> \in Pairs
        BY <2>1, PairIs, TargetsAre
      <4>3. QED
        BY <2>4, <4>1, <4>2 DEF Grows
    <3>3. QED
      BY <2>5, <3>1, <3>2
  <2>6. QED
    BY <2>1, <2>4, <2>5, Stay DEF Busy
<1>16. CASE Stamp
  <2>1. pc = "stamp" /\ NextTarget /\ UNCHANGED <<said, answer>>
    BY <1>16 DEF Stamp
  <2>2. answer[pair] # Nothing
    BY <2>1, PairIs DEF Progress
  <2>3. PICK p : p = pair
    OBVIOUS
  <2>4. answer'[p] # Nothing
    BY <2>1, <2>2, <2>3
  <2>5. QED
    BY <1>5, <2>1, <2>3, <2>4, TargetDone
<1>17. CASE HelperEnds
  <2>1. PICK outcome \in {"yes", "no", "killed"} :
          said' = IF pc = "filter" THEN [said EXCEPT ![nidx] = outcome] ELSE said
    BY <1>17 DEF HelperEnds
  <2>2. UNCHANGED <<pc, nidx, tidx, answer>>
    BY <1>17 DEF HelperEnds
  <2>3. CASE pc # "filter"
    BY <1>2, <2>1, <2>2, <2>3
  <2>4. CASE pc = "filter"
    <3>1. \A n \in Notifs : n # nidx => said'[n] = said[n]
      BY <2>1, <2>4 DEF Answers
    <3>2. QED
      BY <1>5, <2>2, <2>4, <3>1, Stay DEF Busy
  <2>5. QED
    BY <2>3, <2>4
<1>18. QED
  BY <1>2, <1>3, <1>4, <1>9, <1>10, <1>11, <1>12, <1>13, <1>14, <1>15, <1>16, <1>17
     DEF Next, Monitor, vars, NextFile, EndOfRound, NewLine, SenderEnds, Tick, work, history

-----------------------------------------------------------------------------
(* What each notification has been asked.                                    *)

\* The table that was filled has paths, and each once.
LEMMA EntryIs ==
  ASSUME Place, Counts, pc \notin {"setup", "failed"}
  PROVE  /\ monitored \in Seq(Entry) /\ Distinct(monitored) /\ Len(monitored) \in Nat
         /\ DOMAIN monitored = 1 .. Len(monitored)
         /\ \A i \in DOMAIN monitored : monitored[i].path \in Paths
<1>1. monitored \in Seq(Entry) /\ Distinct(monitored)
  BY MonitoredIs DEF Place, Counts
<1>2. \A i \in DOMAIN monitored : monitored[i] \in Entry
  BY <1>1
<1>3. \A e \in Entry : e.path \in Paths
  BY DEF Entry
<1>4. Len(monitored) \in Nat /\ DOMAIN monitored = 1 .. Len(monitored)
  BY <1>1
<1>5. QED
  BY <1>1, <1>2, <1>3, <1>4

\* If a step leaves the counters alone, it is enough that the line in hand has still
\* to be shown to the same notifications.
LEMMA CountsFrame ==
  ASSUME Place, Counts, [Next]_vars, UNCHANGED <<monitored, unread, appeared, asked>>,
         pc \notin {"setup", "failed"}, pc' = "loop" \/ Busy', mf' \in Nat \ {0},
         Busy' => mf' \in DOMAIN monitored,
         \A n \in Notifs : \A i \in DOMAIN monitored :
           monitored[i].path \in Files(n) => InHand(n, i)' = InHand(n, i)
  PROVE  Counts'
<1>1. config' = config /\ Notifs' = Notifs /\ \A n : Files(n)' = Files(n)
  BY SameConfig DEF Files
<1>2. pc' \notin {"setup", "failed"}
  BY DEF Busy
<1>3. ASSUME NEW n \in Notifs, NEW i \in DOMAIN monitored, monitored[i].path \in Files(n)
      PROVE  asked'[n][monitored[i].path] + Waiting(n, i)' = appeared'[monitored[i].path]
  <2>1. Waiting(n, i)' = Waiting(n, i)
    BY <1>3 DEF Waiting
  <2>2. asked[n][monitored[i].path] + Waiting(n, i) = appeared[monitored[i].path]
    BY <1>3 DEF Counts, Counted
  <2>3. QED
    BY <2>1, <2>2
<1>4. Counted'
  BY <1>1, <1>3 DEF Counted
<1>5. QED
  BY <1>1, <1>2, <1>4 DEF Counts

\* While its notification stays in hand, behind its filter, so does the line.
LEMMA StayInHand ==
  ASSUME Place, Counts, [Next]_vars, UNCHANGED <<monitored, unread, appeared, asked, mf, nidx>>,
         Busy, pc # "notify", Busy', pc' # "notify"
  PROVE  Counts'
<1>1. \A n \in Notifs : \A i \in DOMAIN monitored : InHand(n, i)' = InHand(n, i)
  BY DEF InHand, Busy
<1>2. mf \in Nat \ {0} /\ mf \in DOMAIN monitored
  BY DEF Counts
<1>3. QED
  BY <1>1, <1>2, CountsFrame DEF Busy

\* The next notification: the line is left to those behind this one.
LEMMA NextInHand ==
  ASSUME Place, Busy, NextNotification, mf' = mf, NEW n \in Notifs, NEW i
  PROVE  InHand(n, i)' <=> (mf = i /\ nidx < n)
<1>1. /\ nidx' = nidx + 1 /\ nidx \in Nat /\ n \in Nat
      /\ \/ pc' = "notify" /\ nidx + 1 \in Notifs
         \/ pc' = "loop" /\ n <= nidx
  BY NextNotificationIs DEF Place, Busy
<1>2. QED
  BY <1>1 DEF InHand

\* This notification has been asked, or is not concerned.
LEMMA MoveOnInHand ==
  ASSUME Place, Counts, [Next]_vars, UNCHANGED <<monitored, unread, appeared, asked, mf>>, Busy,
         NextNotification, pc = "notify" => monitored[mf].path \notin Files(nidx)
  PROVE  Counts'
<1>1. ASSUME NEW n \in Notifs, NEW i \in DOMAIN monitored, monitored[i].path \in Files(n)
      PROVE  InHand(n, i)' = InHand(n, i)
  <2>1. InHand(n, i) <=> mf = i /\ (nidx < n \/ (nidx = n /\ pc = "notify"))
    BY DEF InHand, Busy
  <2>2. ~(mf = i /\ nidx = n /\ pc = "notify")
    BY <1>1
  <2>3. InHand(n, i)' <=> (mf = i /\ nidx < n)
    BY NextInHand
  <2>4. InHand(n, i) \in BOOLEAN /\ InHand(n, i)' \in BOOLEAN
    BY DEF InHand
  <2>5. QED
    BY <2>1, <2>2, <2>3, <2>4
<1>2. mf \in Nat \ {0} /\ mf \in DOMAIN monitored
  BY DEF Counts
<1>3. pc' = "loop" \/ Busy'
  BY NextNotificationIs DEF Place, Busy
<1>4. QED
  BY <1>1, <1>2, <1>3, CountsFrame DEF Busy

\* The filter is asked: one line more, and one less that waits.
LEMMA AskFilterCounts == ASSUME Place, Counts, AskFilter PROVE Counts'
<1>1. config' = config /\ Notifs' = Notifs /\ \A n : Files(n)' = Files(n)
  BY SameConfig DEF Files, Next, Monitor
<1>2. PICK m, k, g : m = nidx /\ k = mf /\ g = monitored[mf].path
  OBVIOUS
<1>3. /\ pc = "notify" /\ Busy /\ m \in Notifs /\ k \in Nat \ {0} /\ k \in DOMAIN monitored /\ g \in Files(m)
      /\ g \in Paths /\ monitored[k].path = g
  BY <1>2, EntryIs DEF AskFilter, Busy, Place, Counts
<1>4. /\ asked' = [asked EXCEPT ![m][g] = @ + 1]
      /\ UNCHANGED <<monitored, unread, appeared, mf>>
      /\ (pc' = "filter" /\ nidx' = nidx) \/ NextNotification
  BY <1>2 DEF AskFilter, lines
<1>5. asked \in [Notifs -> [Paths -> Nat]]
  BY DEF Counts
<1>6. /\ asked' \in [Notifs -> [Paths -> Nat]] /\ asked'[m][g] = asked[m][g] + 1
      /\ \A n \in Notifs : \A f \in Paths : n # m \/ f # g => asked'[n][f] = asked[n][f]
  BY <1>3, <1>4, <1>5
<1>7. ASSUME NEW n \in Notifs, NEW i
      PROVE  /\ InHand(n, i) <=> k = i /\ (m < n \/ m = n)
             /\ InHand(n, i)' <=> k = i /\ m < n
  <2>1. InHand(n, i) <=> k = i /\ (m < n \/ m = n)
    BY <1>2, <1>3 DEF InHand
  <2>2. CASE pc' = "filter" /\ nidx' = nidx
    BY <1>2, <1>4, <2>1, <2>2 DEF InHand
  <2>3. CASE NextNotification
    BY <1>2, <1>3, <1>4, <2>1, <2>3, NextInHand
  <2>4. QED
    BY <1>4, <2>2, <2>3
<1>8. ASSUME NEW n \in Notifs, NEW i \in DOMAIN monitored, monitored[i].path \in Files(n)
      PROVE  asked'[n][monitored[i].path] + Waiting(n, i)' = appeared'[monitored[i].path]
  <2>1. PICK f : f = monitored[i].path
    OBVIOUS
  <2>2. f \in Paths /\ unread[i] \in Nat /\ (f = g <=> i = k)
    BY <1>3, <2>1, EntryIs DEF Counts, Distinct
  <2>3. asked[n][f] + Waiting(n, i) = appeared[f]
    BY <1>3, <1>8, <2>1 DEF Counts, Counted
  <2>4. asked[n][f] \in Nat /\ asked'[n][f] \in Nat
    BY <1>5, <1>6, <2>2
  <2>5. CASE n = m /\ i = k
    <3>1. InHand(n, i) /\ ~InHand(n, i)'
      <4>1. m \in Nat
        BY <1>3, ConfigAssumption DEF Place, Notifs
      <4>2. QED
        BY <1>7, <2>5, <4>1
    <3>2. Waiting(n, i) = unread[i] + 1 /\ Waiting(n, i)' = unread[i]
      BY <1>4, <2>2, <3>1 DEF Waiting
    <3>3. asked'[n][f] = asked[n][f] + 1
      BY <1>6, <2>2, <2>5
    <3>4. QED
      BY <1>4, <2>1, <2>2, <2>3, <2>4, <3>2, <3>3
  <2>6. CASE ~(n = m /\ i = k)
    <3>1. InHand(n, i)' <=> InHand(n, i)
      BY <1>7, <2>6
    <3>2. Waiting(n, i)' = Waiting(n, i)
      BY <1>4, <3>1 DEF Waiting
    <3>3. asked'[n][f] = asked[n][f]
      BY <1>6, <2>2, <2>6
    <3>4. QED
      BY <1>4, <2>1, <2>3, <3>2, <3>3
  <2>7. QED
    BY <2>5, <2>6
<1>9. Counted'
  BY <1>1, <1>4, <1>8 DEF Counted
<1>10. pc' = "loop" \/ Busy'
  BY <1>3, <1>4, NextNotificationIs DEF Place, Busy
<1>11. QED
  BY <1>1, <1>3, <1>4, <1>6, <1>9, <1>10 DEF Counts, Busy

\* A line is taken: it is in hand, for all notifications.
LEMMA TakeLineCounts == ASSUME Place, Counts, TakeLine PROVE Counts'
<1>1. config' = config /\ Notifs' = Notifs /\ \A n : Files(n)' = Files(n)
  BY SameConfig DEF Files, Next, Monitor
<1>2. PICK k : k = mf
  OBVIOUS
<1>3. /\ pc = "loop" /\ k \in DOMAIN monitored /\ k \in Nat \ {0} /\ unread[k] > 0
      /\ pc' = "notify" /\ nidx' = 1 /\ unread' = [unread EXCEPT ![k] = @ - 1]
      /\ UNCHANGED <<monitored, appeared, asked, mf>>
  BY <1>2, EntryIs DEF TakeLine, Counts
<1>4. unread \in [DOMAIN monitored -> Nat]
  BY DEF Counts
<1>5. unread' \in [DOMAIN monitored -> Nat]
  BY <1>3, <1>4
<1>6. ASSUME NEW n \in Notifs, NEW i \in DOMAIN monitored PROVE Waiting(n, i)' = Waiting(n, i)
  <2>1. n \in Nat \ {0}
    BY ConfigAssumption DEF Place, Notifs
  <2>2. ~InHand(n, i) /\ (InHand(n, i)' <=> k = i)
    BY <1>2, <1>3, <2>1 DEF InHand
  <2>3. CASE k = i
    BY <1>3, <1>4, <2>2, <2>3 DEF Waiting
  <2>4. CASE k # i
    BY <1>3, <1>4, <2>2, <2>4 DEF Waiting
  <2>5. QED
    BY <2>3, <2>4
<1>7. Counted'
  BY <1>1, <1>3, <1>6 DEF Counts, Counted
<1>8. QED
  BY <1>1, <1>2, <1>3, <1>5, <1>7 DEF Counts, Busy

\* A line appears: it waits, where its file is monitored.
LEMMA NewLineCounts == ASSUME Place, Counts, NEW f \in Paths, NewLine(f) PROVE Counts'
<1>1. config' = config /\ Notifs' = Notifs /\ \A n : Files(n)' = Files(n)
  BY SameConfig DEF Files, Next
<1>2. /\ pc \notin {"setup", "failed"} /\ UNCHANGED <<monitored, pc, mf, nidx, asked>>
      /\ appeared' = [appeared EXCEPT ![f] = @ + 1]
      /\ unread' = [i \in DOMAIN unread |-> IF monitored[i].path = f THEN unread[i] + 1 ELSE unread[i]]
  BY DEF NewLine, work, history
<1>3. /\ unread \in [DOMAIN monitored -> Nat] /\ appeared \in [Paths -> Nat]
      /\ asked \in [Notifs -> [Paths -> Nat]]
  BY DEF Counts
<1>4. unread' \in [DOMAIN monitored -> Nat] /\ appeared' \in [Paths -> Nat]
  BY <1>2, <1>3
<1>5. ASSUME NEW n \in Notifs, NEW i \in DOMAIN monitored, monitored[i].path \in Files(n)
      PROVE  asked'[n][monitored[i].path] + Waiting(n, i)' = appeared'[monitored[i].path]
  <2>1. PICK g : g = monitored[i].path
    OBVIOUS
  <2>2. g \in Paths /\ asked[n][g] + Waiting(n, i) = appeared[g]
    BY <1>2, <1>5, <2>1, EntryIs DEF Counts, Counted
  <2>3. InHand(n, i)' <=> InHand(n, i)
    BY <1>2 DEF InHand
  <2>4. asked[n][g] \in Nat /\ unread[i] \in Nat /\ appeared[g] \in Nat
    BY <1>3, <2>2
  <2>5. CASE g = f
    <3>1. unread'[i] = unread[i] + 1 /\ appeared'[g] = appeared[g] + 1
      BY <1>2, <1>3, <2>1, <2>5
    <3>2. Waiting(n, i)' = Waiting(n, i) + 1 /\ Waiting(n, i) \in Nat
      BY <2>3, <2>4, <3>1 DEF Waiting
    <3>3. QED
      BY <1>2, <2>1, <2>2, <2>4, <3>1, <3>2
  <2>6. CASE g # f
    <3>1. unread'[i] = unread[i] /\ appeared'[g] = appeared[g]
      BY <1>2, <1>3, <2>1, <2>2, <2>6
    <3>2. Waiting(n, i)' = Waiting(n, i)
      BY <2>3, <3>1 DEF Waiting
    <3>3. QED
      BY <1>2, <2>1, <2>2, <3>1, <3>2
  <2>7. QED
    BY <2>5, <2>6
<1>6. Counted'
  BY <1>1, <1>2, <1>5 DEF Counted
<1>7. QED
  BY <1>1, <1>2, <1>4, <1>6 DEF Counts, Busy

\* The table is filled: nothing has been asked, and nothing has appeared.
LEMMA SetupCounts == ASSUME Place, Counts, Setup PROVE Counts'
<1>1. config' = config /\ Notifs' = Notifs /\ \A n : Files(n)' = Files(n)
  BY SameConfig DEF Files, Next, Monitor
<1>2. /\ pc = "setup" /\ UNCHANGED <<mf, nidx, appeared, asked>>
      /\ unread' = [i \in DOMAIN monitored' |-> 0]
      /\ IF Valid(config) THEN monitored' = Monitored(config) /\ pc' = "loop" ELSE pc' = "failed"
  BY DEF Setup, history
<1>3. unread' \in [DOMAIN monitored' -> Nat]
  BY <1>2
<1>4. CASE pc' = "failed"
  BY <1>1, <1>2, <1>3, <1>4 DEF Counts, Counted, Busy
<1>5. CASE pc' = "loop"
  <2>1. Valid(config) /\ monitored' = Monitored(config)
    BY <1>2, <1>5
  <2>2. ASSUME NEW n \in Notifs, NEW i \in DOMAIN monitored', monitored'[i].path \in Files(n)
        PROVE  asked'[n][monitored'[i].path] + Waiting(n, i)' = appeared'[monitored'[i].path]
    <3>1. PICK f : f = monitored'[i].path
      OBVIOUS
    <3>2. f \in Paths
      BY <2>1, <2>2, <3>1, MonitoredIs DEF Place
    <3>3. Waiting(n, i)' = 0
      BY <1>2, <1>5 DEF Waiting, InHand
    <3>4. asked[n][f] = 0 /\ appeared[f] = 0
      BY <1>2, <3>2 DEF Counts
    <3>5. QED
      BY <1>2, <3>1, <3>3, <3>4
  <2>3. Counted'
    BY <1>1, <2>2 DEF Counted
  <2>4. QED
    BY <1>1, <1>2, <1>3, <1>5, <2>1, <2>3 DEF Counts, Busy
<1>6. QED
  BY <1>2, <1>4, <1>5

\* Every step keeps the counts.
LEMMA CountsNext == Place /\ Counts /\ [Next]_vars => Counts'
<1> SUFFICES ASSUME Place, Counts, [Next]_vars PROVE Counts'
  OBVIOUS
<1>1. config' = config /\ Notifs' = Notifs /\ \A n : Files(n)' = Files(n)
  BY SameConfig DEF Files
<1>2. CASE UNCHANGED <<pc, mf, nidx, monitored, unread, appeared, asked>>
  <2>1. Counted'
    BY <1>1, <1>2 DEF Counts, Counted, Waiting, InHand
  <2>2. QED
    BY <1>1, <1>2, <2>1 DEF Counts, Busy
<1>3. CASE NextFile \/ EndOfRound
  <2>1. /\ pc = "loop" /\ pc' = "loop" /\ UNCHANGED <<monitored, unread, appeared, asked>>
        /\ mf' = mf + 1 \/ mf' = 1
    BY <1>3 DEF NextFile, EndOfRound, lines, history
  <2>2. mf' \in Nat \ {0}
    BY <2>1 DEF Counts
  <2>3. \A n \in Notifs : \A i \in DOMAIN monitored : InHand(n, i)' = InHand(n, i)
    BY <2>1 DEF InHand
  <2>4. QED
    BY <2>1, <2>2, <2>3, CountsFrame DEF Busy
<1>4. CASE Skip
  BY <1>4, MoveOnInHand DEF Skip, lines, history, Busy
<1>5. CASE FilterDone
  BY <1>5, MoveOnInHand, StayInHand DEF FilterDone, lines, history, Busy
<1>6. CASE RunProgram \/ ProgramDone \/ TextReady \/ Send
  BY <1>6, StayInHand DEF RunProgram, ProgramDone, TextReady, Send, lines, history, Busy
<1>7. CASE Hold \/ Stamp
  BY <1>7, MoveOnInHand, StayInHand DEF Hold, Stamp, NextTarget, lines, Busy
<1>8. QED
  BY <1>2, <1>3, <1>4, <1>5, <1>6, <1>7, SetupCounts, TakeLineCounts, AskFilterCounts, NewLineCounts
     DEF Next, Monitor, vars, HelperEnds, SenderEnds, Tick, work, lines, history

-----------------------------------------------------------------------------
(* The theorems. *)

\* The invariant.
LEMMA NotifierCorrect == Spec => []NotifierInv
<1>1. NotifierInv /\ [Next]_vars => NotifierInv'
  BY PlaceNext, TimesNext, AnswersNext, ProgressNext, CountsNext DEF NotifierInv
<1>2. QED
  BY <1>1, NotifierInit, PTL DEF Spec

\* Every line of a file that a notification lists is shown to its filter once,
\* however often the file is listed (create_context and handle_line).
THEOREM OncePerLineCorrect == Spec => []OncePerLine
<1>1. NotifierInv => OncePerLine
  <2> SUFFICES ASSUME NotifierInv, pc \notin {"setup", "failed"}, NEW n \in Notifs, NEW f \in Files(n)
               PROVE  \E i \in DOMAIN monitored :
                        monitored[i].path = f /\ asked[n][f] + Waiting(n, i) = appeared[f]
    BY DEF OncePerLine
  <2>1. Lists(monitored, f)
    BY MonitoredIs DEF NotifierInv, Place, Counts
  <2>2. PICK i \in DOMAIN monitored : monitored[i].path = f
    BY <2>1 DEF Lists
  <2>3. asked[n][f] + Waiting(n, i) = appeared[f]
    BY <2>2 DEF NotifierInv, Counts, Counted
  <2>4. QED
    BY <2>2, <2>3
<1>2. QED
  BY <1>1, NotifierCorrect, PTL

\* Every notification whose filter matched the line is sent to each of its
\* targets or held back because it was sent there less than its interval ago
\* (handle_line of logmonitor.c).
THEOREM MatchAnsweredCorrect == Spec => []MatchAnswered
<1>1. NotifierInv => MatchAnswered
  <2> SUFFICES ASSUME NotifierInv, pc = "loop", NEW n \in Notifs, said[n] = "yes",
                      NEW t \in ToSet(TargetsOf(n))
               PROVE  \/ answer[<<n, t>>] = Sent
                      \/ /\ answer[<<n, t>>] >= 0 /\ sent_at[<<n, t>>] # Never
                         /\ Interval(t) = 0 \/ answer[<<n, t>>] < Interval(t) * Second
    BY DEF MatchAnswered
  <2>1. answer[<<n, t>>] # Nothing
    BY DEF NotifierInv, Progress, AllAnswered
  <2>2. <<n, t>> \in Pairs
    BY TargetsAre DEF NotifierInv, Place, ToSet
  <2>3. IsAnswer(<<n, t>>)
    BY <2>1, <2>2 DEF NotifierInv, Answers
  <2>4. QED
    BY <2>3 DEF IsAnswer
<1>2. QED
  BY <1>1, NotifierCorrect, PTL

\* A notification is not sent to a target again before its interval, up to the
\* second the clock is cut to, has passed (the debouncing of handle_line).
THEOREM DebouncedCorrect == Spec => Debounced
<1>1. NotifierInv /\ [Next]_vars =>
        [pc = "target" /\ pc' = "stamp" /\ sent_at[pair] # Never =>
           LET d == Interval(target)
           IN  d < 0 \/ (d > 0 /\ now - sent_at[pair] > (d - 1) * Second)]_vars
  <2> SUFFICES ASSUME NotifierInv, [Next]_vars, pc = "target", pc' = "stamp", sent_at[pair] # Never
               PROVE  \/ Interval(target) < 0
                      \/ Interval(target) > 0 /\ now - sent_at[pair] > (Interval(target) - 1) * Second
    OBVIOUS
  <2>1. pair \in Pairs /\ Interval(target) \in Int
    BY PairIs DEF NotifierInv
  <2>2. ~Held(pair, Interval(target))
    BY DEF Next, Monitor, vars, work, history, Setup, NextFile, EndOfRound, TakeLine, Skip, AskFilter,
       FilterDone, RunProgram, ProgramDone, TextReady, Hold, Send, Stamp, NewLine, HelperEnds,
       SenderEnds, Tick, NextTarget, NextNotification, AfterNotification
  <2>3. PICK t, d, l : t = sent_at[pair] /\ d = Interval(target) /\ l = last_notif_sent[pair]
    OBVIOUS
  <2>4. t \in Nat /\ l = t \div Second /\ l > 0 /\ now \in Nat /\ d \in Int
    BY <2>1, <2>3 DEF NotifierInv, Times
  <2>5. d # 0 /\ (d > 0 => now \div Second - l >= d)
    <3>1. now \div Second \in Nat /\ l \in Nat
      BY <2>4, SecondIs, ConstAssumption
    <3>2. QED
      BY <2>2, <2>3, <2>4, <3>1 DEF Held, Seconds
  <2>6. d > 0 => now - t > (d - 1) * Second
    BY <2>4, <2>5, Apart, ConstAssumption
  <2>7. QED
    BY <2>3, <2>4, <2>5, <2>6
<1>2. QED
  BY <1>1, NotifierCorrect, PTL DEF Spec, Debounced

=============================================================================
