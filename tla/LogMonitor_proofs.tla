--------------------------- MODULE LogMonitor_proofs ---------------------------
(* For any file, buffer and number of changes: the lines of a log file are  *)
(* handled in order and once, and those of a file that is only appended to  *)
(* are handled entirely, however reads and writes cut its text.             *)
EXTENDS LogMonitor, FiniteSetTheorems, SequenceTheorems, TLAPS

-----------------------------------------------------------------------------
(* The order of the text. *)

Ids(text) == {text[k].id : k \in DOMAIN text}
Increasing(text) == \A a, b \in DOMAIN text : a < b => text[a].id < text[b].id
Above(ids, id) == \A i \in ids : i < id

\* All text that has been read.
HandledIds == UNION {Ids(handled[i]) : i \in DOMAIN handled}
TakenIds == HandledIds \cup Ids(WholeText)

\* What is written is newer than what has been.
Newest ==
  /\ \A i \in Inodes : Increasing(content[i]) /\ \A id \in Ids(content[i]) : id <= written
  /\ \A id \in TakenIds : id <= written

\* The lines of a log file, and the text that will make up the next ones.
LinesInOrder ==
  /\ \A i \in DOMAIN handled : Increasing(handled[i])
  /\ \A i, j \in DOMAIN handled : i < j =>
       \A id \in Ids(handled[j]) : Above(Ids(handled[i]), id)
  /\ Increasing(WholeText)
  /\ \A id \in Ids(WholeText) : Above(HandledIds, id)

\* What may still be read is newer than what has been read: the open file behind
\* the offset, or all of it when it has shrunk, and the file that has its name by
\* now.
NewerAhead ==
  /\ fd # NoFd => \A k \in DOMAIN content[fd] :
       k > pos \/ Len(content[fd]) < pos => Above(TakenIds, content[fd][k].id)
  /\ name \notin {NoFile, fd} =>
       \A id \in Ids(content[name]) :
         Above(TakenIds, id) /\ (fd # NoFd => Above(Ids(content[fd]), id))
  /\ pc = "open" /\ fd # NoFd /\ sbuf.ino # fd => name # fd

Ordered ==
  /\ TypeOK /\ Newest
  /\ pc # "lines" => work_buf = << >>
  /\ kind = "log" => pc # "changed" /\ LinesInOrder /\ NewerAhead

-----------------------------------------------------------------------------
(* A log file that is only appended to. *)

Appended == kind = "log" /\ changes = 0 /\ name # NoFile

Faithful ==
  /\ \A i \in DOMAIN handled : Ends(handled[i]) = {Len(handled[i])}
  /\ Appended =>
       /\ fd = name /\ (pc = "open" => sbuf.ino = name)
       /\ start <= pos /\ pos <= Len(content[fd])
       /\ ~too_long => TakenIds = {content[fd][k].id : k \in start + 1 .. pos}

-----------------------------------------------------------------------------
(* Text. *)

\* Every nonempty set of natural numbers has a least element.
LEMMA LeastNat ==
  ASSUME NEW T, T \subseteq Nat, T # {}
  PROVE  \E x \in T : \A y \in T : x <= y
<1> DEFINE C == {0..(n - 1) : n \in T}
<1>1. C \subseteq FiniteSubsetsOf(Nat)
  <2>1. ASSUME NEW n \in T PROVE IsFiniteSet(0..(n - 1))
    BY FS_Interval
  <2>2. QED
    BY <2>1 DEF FiniteSubsetsOf
<1>2. C # {}
  OBVIOUS
<1>3. PICK m \in C : \A y \in C : ~(<<y, m>> \in StrictSubsetOrdering(Nat))
  <2> HIDE DEF C
  <2>1. QED
    BY <1>1, <1>2, FS_StrictSubsetOrderingWellFounded, WFMin
<1>4. PICK x \in T : m = 0..(x - 1)
  OBVIOUS
<1>5. ASSUME NEW y \in T, y < x PROVE FALSE
  <2>1. 0..(y - 1) \in C
    OBVIOUS
  <2>2. 0..(y - 1) \subseteq 0..(x - 1) /\ y \in 0..(x - 1) /\ y \notin 0..(y - 1)
    BY <1>5
  <2> DEFINE p == <<0..(y - 1), 0..(x - 1)>>
  <2>3. p \in (SUBSET Nat) \X (SUBSET Nat) /\ p[1] \subseteq p[2] /\ p[1] # p[2]
    BY <2>2
  <2>4. p \in StrictSubsetOrdering(Nat)
    <3> HIDE DEF p
    <3>1. QED
      BY <2>3 DEF StrictSubsetOrdering
  <2>5. QED
    BY <1>3, <1>4, <2>1, <2>4
<1>6. QED
  BY <1>5

\* The first end of line is one, and the first.
LEMMA FirstEndIs ==
  ASSUME NEW text \in Seq(Chunk), Ends(text) # {}
  PROVE  /\ FirstEnd(text) \in 1 .. Len(text) /\ FirstEnd(text) \in Ends(text)
         /\ \A j \in Ends(text) : FirstEnd(text) <= j
<1>1. Ends(text) \subseteq Nat
  BY DEF Ends
<1>2. \E k \in Ends(text) : \A j \in Ends(text) : k <= j
  BY <1>1, LeastNat
<1>3. FirstEnd(text) \in Ends(text) /\ \A j \in Ends(text) : FirstEnd(text) <= j
  BY <1>2 DEF FirstEnd
<1>4. QED
  BY <1>3 DEF Ends

\* Positions behind the place where a text is cut.
LEMMA Shift ==
  \A n \in Nat : \A k, i \in 1 .. n : i > k => i - k \in 1 .. n - k /\ k + (i - k) = i
OBVIOUS

\* A text that is cut in two.
Divided(text, k, line, rest) ==
  /\ line \in Seq(Chunk) /\ Len(line) = k /\ \A i \in 1 .. k : line[i] = text[i]
  /\ rest \in Seq(Chunk)
  /\ Ids(text) = Ids(line) \cup Ids(rest)
  /\ Increasing(text) => /\ Increasing(line) /\ Increasing(rest)
                         /\ \A id \in Ids(rest) : Above(Ids(line), id)

\* What is cut from a text is its beginning, and the rest comes after it.
LEMMA Cut ==
  ASSUME NEW text \in Seq(Chunk), NEW k \in 1 .. Len(text)
  PROVE  Divided(text, k, SubSeq(text, 1, k), SubSeq(text, k + 1, Len(text)))
<1>0. PICK line, rest : line = SubSeq(text, 1, k) /\ rest = SubSeq(text, k + 1, Len(text))
  OBVIOUS
<1>1. Len(text) \in Nat /\ \A i \in 1 .. Len(text) : text[i] \in Chunk
  OBVIOUS
<1>2. line \in Seq(Chunk) /\ Len(line) = k /\ \A i \in 1 .. k : line[i] = text[i]
  BY <1>0, <1>1, SubSeqProperties
<1>3. /\ rest \in Seq(Chunk) /\ Len(rest) = Len(text) - k
      /\ \A i \in 1 .. Len(text) - k : rest[i] = text[k + i]
  BY <1>0, <1>1, SubSeqProperties
<1>4. DOMAIN text = 1 .. Len(text) /\ DOMAIN line = 1 .. k /\ DOMAIN rest = 1 .. Len(text) - k
  BY <1>2, <1>3
<1>5. Ids(text) = Ids(line) \cup Ids(rest)
  <2>1. ASSUME NEW i \in DOMAIN text PROVE text[i].id \in Ids(line) \cup Ids(rest)
    <3>1. CASE i <= k
      BY <1>2, <1>4, <3>1 DEF Ids
    <3>2. CASE i > k
      <4>1. i - k \in DOMAIN rest /\ rest[i - k] = text[i]
        <5>1. i \in 1 .. Len(text)
          BY <1>4
        <5>2. i - k \in 1 .. Len(text) - k /\ k + (i - k) = i
          <6>1. PICK n, h, j : n = Len(text) /\ h = k /\ j = i /\ n \in Nat /\ h \in 1 .. n /\ j \in 1 .. n
            BY <1>1, <5>1
          <6>2. j > h
            BY <3>2, <6>1
          <6>3. j - h \in 1 .. n - h /\ h + (j - h) = j
            BY <6>1, <6>2, Shift
          <6>4. QED
            BY <6>1, <6>3
        <5>3. QED
          BY <1>3, <1>4, <5>2
      <4>2. QED
        BY <4>1 DEF Ids
    <3>3. QED
      BY <1>1, <1>4, <3>1, <3>2
  <2>2. Ids(line) \subseteq Ids(text)
    BY <1>1, <1>2, <1>4 DEF Ids
  <2>3. Ids(rest) \subseteq Ids(text)
    <3>1. ASSUME NEW i \in DOMAIN rest PROVE rest[i].id \in Ids(text)
      <4>1. k + i \in DOMAIN text /\ rest[i] = text[k + i]
        <5>1. i \in 1 .. Len(text) - k /\ k + i \in 1 .. Len(text)
          BY <1>1, <1>4
        <5>2. QED
          BY <1>3, <1>4, <5>1
      <4>2. QED
        BY <4>1 DEF Ids
    <3>2. QED
      BY <3>1 DEF Ids
  <2>4. QED
    BY <2>1, <2>2, <2>3 DEF Ids
<1>6. ASSUME Increasing(text)
      PROVE  Increasing(line) /\ Increasing(rest) /\ \A id \in Ids(rest) : Above(Ids(line), id)
  <2>1. Increasing(line)
    BY <1>1, <1>2, <1>4, <1>6 DEF Increasing
  <2>2. Increasing(rest)
    <3>1. ASSUME NEW a \in DOMAIN rest, NEW b \in DOMAIN rest, a < b PROVE rest[a].id < rest[b].id
      <4>1. k + a \in DOMAIN text /\ k + b \in DOMAIN text /\ k + a < k + b
        BY <1>1, <1>4, <3>1
      <4>2. QED
        BY <1>3, <1>4, <1>6, <4>1 DEF Increasing
    <3>2. QED
      BY <3>1 DEF Increasing
  <2>3. ASSUME NEW a \in DOMAIN line, NEW b \in DOMAIN rest PROVE line[a].id < rest[b].id
    <3>1. a \in DOMAIN text /\ k + b \in DOMAIN text /\ a < k + b
      BY <1>1, <1>4
    <3>2. QED
      BY <1>2, <1>3, <1>4, <1>6, <3>1 DEF Increasing
  <2>4. QED
    BY <2>1, <2>2, <2>3 DEF Ids, Above
<1>7. Divided(text, k, line, rest)
  BY <1>2, <1>3, <1>5, <1>6 DEF Divided
<1>8. QED
  BY <1>0, <1>7

-----------------------------------------------------------------------------
(* Types. *)

\* What stat says has the type of what stat says.
LEMMA StatIs ==
  ASSUME TypeOK, NEW i \in Inodes \cup {NoFile}
  PROVE  Stat(i) \in [ino : Inodes \cup {NoFile}, size : Nat, mtime : Nat] /\ Stat(i).ino = i
<1>1. CASE i = NoFile
  BY <1>1 DEF Stat
<1>2. CASE i # NoFile
  <2>1. Len(content[i]) \in Nat /\ mtime[i] \in Nat
    BY <1>2 DEF TypeOK
  <2>2. QED
    BY <1>2, <2>1 DEF Stat
<1>3. QED
  BY <1>1, <1>2

\* The initial states have the types.
LEMMA TypeInit == Init => TypeOK
<1> SUFFICES ASSUME Init PROVE TypeOK
  OBVIOUS
<1>1. PICK eol, empty, old :
        /\ eol \in BOOLEAN /\ empty \in BOOLEAN
        /\ old = IF empty \/ name = NoFile \/ MaxChunks = 0 THEN << >> ELSE <<[id |-> 1, eol |-> eol]>>
        /\ content = [i \in Inodes |-> IF i = name THEN old ELSE << >>]
        /\ written = Len(old)
        /\ start = IF kind = "log" THEN Len(old) ELSE 0
  BY DEF Init
<1>2. old \in Seq(Chunk) /\ Len(old) \in 0 .. 1 /\ Len(old) <= MaxChunks
  <2>1. CASE old = << >>
    BY <2>1, ConstAssumption
  <2>2. CASE old # << >>
    <3>1. MaxChunks \in Nat \ {0} /\ old = <<[id |-> 1, eol |-> eol]>>
      BY <1>1, <2>2, ConstAssumption
    <3>2. [id |-> 1, eol |-> eol] \in Chunk
      BY <1>1, <3>1 DEF Chunk
    <3>3. QED
      BY <3>1, <3>2
  <2>3. QED
    BY <2>1, <2>2
<1>3. content \in [Inodes -> Seq(Chunk)] /\ written \in 0 .. MaxChunks /\ start \in 0 .. 1
  BY <1>1, <1>2, ConstAssumption
<1>4. /\ kind \in Kinds /\ name \in Inodes \cup {NoFile}
      /\ mtime \in [Inodes -> Nat] /\ now \in Nat /\ changes \in 0 .. MaxChanges
      /\ pc = "stat" /\ fd \in Inodes \cup {NoFd} /\ pos = start
      /\ pending_buf = << >> /\ work_buf = << >> /\ handled = << >> /\ too_long = FALSE
  BY ConstAssumption DEF Init
<1>5. {sbuf, last_stat} \subseteq [ino : Inodes \cup {NoFile}, size : Nat, mtime : Nat]
  BY DEF Init, Stat
<1>6. /\ pos \in Nat /\ pending_buf \in Seq(Chunk) /\ work_buf \in Seq(Chunk)
      /\ handled \in Seq(Seq(Chunk)) /\ too_long \in BOOLEAN
  <2>1. \A S : << >> \in Seq(S)
    BY EmptySeq
  <2>2. pos \in Nat
    BY <1>3, <1>4
  <2>3. QED
    BY <1>4, <2>1, <2>2
<1>7. /\ pc \in {"stat", "open", "changed", "fit", "read", "lines"}
      /\ pc \in {"changed", "fit", "read", "lines"} => fd # NoFd
  BY <1>4
<1>8. overlooked \in BOOLEAN
  BY DEF Init
<1>9. QED
  BY <1>3, <1>4, <1>5, <1>6, <1>7, <1>8, Zenon DEF TypeOK

\* One read(2): nothing, or the next chunks of the file.
LEMMA ReadIs ==
  ASSUME TypeOK, Read
  PROVE  /\ pc = "read" /\ fd \in Inodes /\ content[fd] \in Seq(Chunk)
         /\ \/ pc' = "stat" /\ UNCHANGED <<pos, work_buf>>
            \/ \E n \in Nat \ {0} :
                 /\ pc' = "lines" /\ pos' = pos + n /\ pos + n <= Len(content[fd])
                 /\ work_buf' \in Seq(Chunk) /\ Len(work_buf') = n
                 /\ \A i \in 1 .. n : work_buf'[i] = content[fd][pos + i]
<1>1. pc = "read" /\ fd \in Inodes /\ content[fd] \in Seq(Chunk) /\ pos \in Nat
  BY DEF Read, TypeOK
<1>2. PICK text, p : text = content[fd] /\ p = pos
  OBVIOUS
<1> DEFINE left == Len(text) - p
           n == IF left < BufSize THEN left ELSE BufSize
<1>3. \/ n <= 0 /\ pc' = "stat" /\ UNCHANGED <<pos, work_buf>>
      \/ ~(n <= 0) /\ work_buf' = SubSeq(text, p + 1, p + n) /\ pos' = p + n /\ pc' = "lines"
  BY <1>2 DEF Read
<1>4. Len(text) \in Nat /\ p \in Nat /\ n \in Int /\ n <= left
  BY <1>1, <1>2, ConstAssumption
<1>5. CASE ~(n <= 0) /\ work_buf' = SubSeq(text, p + 1, p + n) /\ pos' = p + n /\ pc' = "lines"
  <2>1. PICK m : m = n
    OBVIOUS
  <2>2. m \in Nat \ {0} /\ p + m <= Len(text)
    <3> HIDE DEF n
    <3>1. QED
      BY <1>4, <1>5, <2>1
  <2> HIDE DEF n
  <2>3. \A i \in p + 1 .. p + m : text[i] \in Chunk
    <3>1. \A i \in p + 1 .. p + m : i \in 1 .. Len(text)
      BY <1>4, <2>2
    <3>2. QED
      BY <1>1, <1>2, <3>1
  <2>4. PICK a, b, piece : a = p + 1 /\ b = p + m /\ piece = SubSeq(text, a, b)
    OBVIOUS
  <2>5. a \in Int /\ b \in Int /\ a <= b /\ b - a + 1 = m /\ \A i \in a .. b : text[i] \in Chunk
    BY <1>4, <2>2, <2>3, <2>4
  <2>6. piece \in Seq(Chunk) /\ Len(piece) = m /\ \A i \in 1 .. m : piece[i] = text[a + i - 1]
    BY <2>4, <2>5, SubSeqProperties
  <2>7. work_buf' = piece
    BY <1>5, <2>1, <2>4
  <2>8. \A i \in 1 .. m : a + i - 1 = p + i
    BY <1>4, <2>2, <2>4
  <2>9. work_buf' \in Seq(Chunk) /\ Len(work_buf') = m /\ \A i \in 1 .. m : work_buf'[i] = content[fd][pos + i]
    BY <1>2, <2>6, <2>7, <2>8
  <2>10. QED
    BY <1>1, <1>2, <1>5, <2>1, <2>2, <2>9
<1>6. QED
  BY <1>1, <1>3, <1>5

\* What handle_read does with the text.
Dropped == WholeText' = << >> /\ pending_buf' = << >> /\ too_long' /\ UNCHANGED handled
Kept == WholeText' = WholeText /\ pending_buf' \in Seq(Chunk) /\ Ends(WholeText) = {} /\ UNCHANGED <<handled, too_long>>
OneLine(line, k) ==
  /\ k \in 1 .. Len(WholeText) /\ k \in Ends(WholeText) /\ \A j \in Ends(WholeText) : k <= j
  /\ line = SubSeq(WholeText, 1, k) /\ WholeText' = SubSeq(WholeText, k + 1, Len(WholeText))
  /\ handled' = Append(handled, line) /\ pending_buf' = << >> /\ UNCHANGED too_long

\* handle_read takes a line from the text, keeps the text or drops it.
LEMMA HandleIs ==
  ASSUME TypeOK, HandleRead
  PROVE  /\ pc = "lines" /\ pc' \in {"fit", "lines"} /\ WholeText \in Seq(Chunk)
         /\ (pc' = "fit" => work_buf' = << >>) /\ work_buf' \in Seq(Chunk)
         /\ Dropped \/ Kept \/ \E line, k : OneLine(line, k)
<1>1. pc = "lines" /\ WholeText \in Seq(Chunk) /\ << >> \in Seq(Chunk)
  BY ConcatProperties, EmptySeq DEF HandleRead, WholeText, TypeOK
<1>2. PICK text : text = WholeText
  OBVIOUS
<1>3. WholeText' = pending_buf' \o work_buf'
  BY DEF WholeText
<1>4. CASE /\ pending_buf' = << >> /\ work_buf' = << >> /\ pc' = "fit"
           /\ too_long' = TRUE /\ UNCHANGED handled
  BY <1>1, <1>3, <1>4, ConcatEmptySeq DEF Dropped
<1>5. CASE /\ Ends(text) = {} /\ pending_buf' = text /\ work_buf' = << >> /\ pc' = "fit"
           /\ UNCHANGED <<handled, too_long>>
  BY <1>1, <1>2, <1>3, <1>5, ConcatEmptySeq DEF Kept
<1>6. ASSUME NEW k, Ends(text) # {}, k = FirstEnd(text),
             handled' = Append(handled, SubSeq(text, 1, k)), pending_buf' = << >>,
             work_buf' = SubSeq(text, k + 1, Len(text)),
             pc' = IF k = Len(text) THEN "fit" ELSE "lines", UNCHANGED too_long
      PROVE  /\ pc' \in {"fit", "lines"} /\ (pc' = "fit" => work_buf' = << >>)
             /\ work_buf' \in Seq(Chunk) /\ \E line, j : OneLine(line, j)
  <2>1. k \in 1 .. Len(text) /\ k \in Ends(text) /\ \A j \in Ends(text) : k <= j
    BY <1>1, <1>2, <1>6, FirstEndIs
  <2>2. SubSeq(text, k + 1, Len(text)) \in Seq(Chunk)
    BY <1>1, <1>2, <2>1, Cut DEF Divided
  <2>3. WholeText' = SubSeq(text, k + 1, Len(text))
    BY <1>3, <1>6, <2>2, ConcatEmptySeq
  <2>4. OneLine(SubSeq(text, 1, k), k)
    BY <1>2, <1>6, <2>1, <2>3 DEF OneLine
  <2>5. k = Len(text) => work_buf' = << >>
    <3>1. ASSUME k = Len(text) PROVE k + 1 \in Int /\ Len(text) \in Int /\ Len(text) < k + 1
      BY <2>1, <3>1
    <3>2. QED
      BY <1>6, <3>1, SubSeqEmpty
  <2>6. QED
    BY <1>6, <2>2, <2>4, <2>5
<1>7. QED
  BY <1>1, <1>2, <1>4, <1>5, <1>6 DEF HandleRead

\* A line, and the text that is left: the text cut in two.
LEMMA LineIs ==
  ASSUME TypeOK, HandleRead, NEW line, NEW k, OneLine(line, k)
  PROVE  /\ line \in Seq(Chunk) /\ Len(line) = k /\ k \in Nat \ {0}
         /\ \A i \in 1 .. k : line[i] = WholeText[i]
         /\ Ids(WholeText) = Ids(line) \cup Ids(WholeText')
         /\ Increasing(WholeText) => /\ Increasing(line) /\ Increasing(WholeText')
                                     /\ \A id \in Ids(WholeText') : Above(Ids(line), id)
<1>1. PICK text, rest : text = WholeText /\ rest = WholeText'
  OBVIOUS
<1>2. text \in Seq(Chunk)
  BY <1>1, HandleIs
<1>3. k \in 1 .. Len(text)
  BY <1>1 DEF OneLine
<1>4. line = SubSeq(text, 1, k)
  BY <1>1 DEF OneLine
<1>5. rest = SubSeq(text, k + 1, Len(text))
  BY <1>1 DEF OneLine
<1>6. Divided(text, k, line, rest)
  BY <1>2, <1>3, <1>4, <1>5, Cut
<1>7. Ids(rest) = Ids(WholeText') /\ (Increasing(rest) <=> Increasing(WholeText'))
  BY <1>1 DEF Ids, Increasing
<1>8. k \in Nat \ {0}
  BY <1>2, <1>3
<1>9. \A i \in 1 .. k : line[i] = WholeText[i]
  BY <1>1, <1>6 DEF Divided
<1>10. Ids(WholeText) = Ids(line) \cup Ids(WholeText')
  BY <1>1, <1>6, <1>7, Zenon DEF Divided
<1>11. Increasing(WholeText) <=> Increasing(text)
  BY <1>1
<1>12. QED
  BY <1>6, <1>7, <1>8, <1>9, <1>10, <1>11, Zenon DEF Divided

\* Every step keeps the types.
LEMMA TypeNext == TypeOK /\ [Next]_vars => TypeOK'
<1> SUFFICES ASSUME TypeOK, [Next]_vars PROVE TypeOK'
  OBVIOUS
<1>1. CASE StatFile
  <2>1. sbuf' \in [ino : Inodes \cup {NoFile}, size : Nat, mtime : Nat]
    BY <1>1, StatIs DEF StatFile, TypeOK
  <2>2. QED
    BY <1>1, <2>1 DEF StatFile, TypeOK, fs, lines
<1>2. CASE Open
  <2>1. /\ fd' \in Inodes \cup {NoFd} /\ pos' \in Nat /\ pc' \in {"stat", "changed", "fit"}
        /\ pc' # "stat" => fd' # NoFd
    <3>1. name \in Inodes \cup {NoFile} /\ fd \in Inodes \cup {NoFd} /\ pos \in Nat
      BY DEF TypeOK
    <3>2. ToRead \in {"changed", "fit"} /\ AfterOpen \in {"stat", "changed", "fit"}
      BY DEF ToRead, AfterOpen
    <3>3. CASE Moved
      BY <1>2, <3>1, <3>2, <3>3, ConstAssumption DEF Open, AfterOpen
    <3>4. CASE ~Moved
      BY <1>2, <3>1, <3>2, <3>4 DEF Open, Moved
    <3>5. QED
      BY <3>3, <3>4
  <2>2. QED
    BY <1>2, <2>1 DEF Open, TypeOK, fs, lines
<1>3. CASE Changed
  <2>1. /\ last_stat' \in {sbuf, last_stat} /\ pos' \in Nat /\ pc' \in {"stat", "fit"}
        /\ pc = "changed"
    <3>1. pos \in Nat
      BY DEF TypeOK
    <3>2. QED
      BY <1>3, <3>1 DEF Changed
  <2>2. QED
    BY <1>3, <2>1 DEF Changed, TypeOK, fs, lines
<1>4. CASE Fit
  <2>1. pos' \in Nat /\ pc' = "read" /\ pc = "fit"
    BY <1>4 DEF Fit, TypeOK
  <2>2. QED
    BY <1>4, <2>1 DEF Fit, TypeOK, fs, lines
<1>5. CASE Read
  <2>1. pos' \in Nat /\ work_buf' \in Seq(Chunk) /\ pc = "read" /\ pc' \in {"stat", "lines"}
    <3>1. pos \in Nat /\ work_buf \in Seq(Chunk)
      BY DEF TypeOK
    <3>2. pc = "read"
      BY <1>5 DEF Read
    <3>3. CASE pc' = "stat" /\ UNCHANGED <<pos, work_buf>>
      BY <3>1, <3>2, <3>3
    <3>4. ASSUME NEW n \in Nat \ {0}, pc' = "lines", pos' = pos + n, work_buf' \in Seq(Chunk)
          PROVE  pos' \in Nat /\ work_buf' \in Seq(Chunk) /\ pc' \in {"stat", "lines"}
      BY <3>1, <3>4
    <3>5. QED
      BY <1>5, <3>2, <3>3, <3>4, ReadIs
  <2>2. QED
    BY <1>5, <2>1 DEF Read, TypeOK, fs, lines
<1>6. CASE HandleRead
  <2>1. /\ pc = "lines" /\ pc' \in {"fit", "lines"} /\ work_buf' \in Seq(Chunk)
        /\ WholeText \in Seq(Chunk)
        /\ Dropped \/ Kept \/ \E line, k : OneLine(line, k)
    BY <1>6, HandleIs
  <2>2. pending_buf' \in Seq(Chunk)
    BY <2>1, EmptySeq DEF Dropped, Kept, OneLine
  <2>3. handled' \in Seq(Seq(Chunk)) /\ too_long' \in BOOLEAN
    <3>1. CASE Dropped \/ Kept
      BY <3>1 DEF Dropped, Kept, TypeOK
    <3>2. ASSUME NEW line, NEW k, OneLine(line, k) PROVE handled' \in Seq(Seq(Chunk)) /\ too_long' \in BOOLEAN
      <4>1. line \in Seq(Chunk)
        BY <1>6, <3>2, LineIs
      <4>2. QED
        BY <3>2, <4>1 DEF OneLine, TypeOK
    <3>3. QED
      BY <2>1, <3>1, <3>2
  <2>4. QED
    BY <1>6, <2>1, <2>2, <2>3 DEF HandleRead, TypeOK, fs
<1>7. CASE Write
  <2>1. PICK eol, t, chunk :
          /\ eol \in BOOLEAN /\ t \in NextTime
          /\ chunk = [id |-> written + 1, eol |-> eol]
          /\ content' = [content EXCEPT ![name] = Append(@, chunk)]
          /\ mtime' = [mtime EXCEPT ![name] = t] /\ now' = t
    BY <1>7 DEF Write
  <2>2. t \in Nat
    BY <2>1 DEF NextTime, TypeOK
  <2>3. written' \in 0 .. MaxChunks /\ written + 1 \in 1 .. MaxChunks /\ name \in Inodes
    BY <1>7, ConstAssumption DEF Write, TypeOK
  <2>4. chunk \in Chunk
    BY <2>1, <2>3 DEF Chunk
  <2>5. content' \in [Inodes -> Seq(Chunk)]
    BY <2>1, <2>3, <2>4 DEF TypeOK
  <2>6. mtime' \in [Inodes -> Nat] /\ now' \in Nat
    BY <2>1, <2>2 DEF TypeOK
  <2>7. overlooked' \in BOOLEAN
    BY <1>7, Zenon DEF Write, Overlook, TypeOK
  <2>8. QED
    BY <1>7, <2>3, <2>5, <2>6, <2>7 DEF Write, TypeOK, monitor, lines
<1>8. CASE Truncate
  <2>1. PICK t \in NextTime : mtime' = [mtime EXCEPT ![name] = t] /\ now' = t
    BY <1>8 DEF Truncate
  <2>2. t \in Nat
    BY DEF NextTime, TypeOK
  <2>3. content' \in [Inodes -> Seq(Chunk)]
    BY <1>8, EmptySeq DEF Truncate, TypeOK
  <2>4. mtime' \in [Inodes -> Nat] /\ now' \in Nat /\ changes' \in 0 .. MaxChanges
    BY <1>8, <2>1, <2>2, ConstAssumption DEF Truncate, TypeOK
  <2>5. overlooked' \in BOOLEAN
    BY <1>8, Zenon DEF Truncate, Overlook, TypeOK
  <2>6. QED
    BY <1>8, <2>3, <2>4, <2>5 DEF Truncate, TypeOK, monitor, lines
<1>9. CASE Remove
  BY <1>9 DEF Remove, TypeOK, monitor, lines
<1>10. CASE Replace
  <2>1. PICK i, t, new :
          /\ i \in FreeInodes /\ t \in NextTime
          /\ new \in {<< >>} \cup {<<[id |-> written + 1, eol |-> eol]>> : eol \in BOOLEAN}
          /\ new # << >> => written # MaxChunks
          /\ name' = i /\ content' = [content EXCEPT ![i] = new]
          /\ mtime' = [mtime EXCEPT ![i] = t] /\ now' = t /\ written' = written + Len(new)
    BY <1>10 DEF Replace
  <2>2. t \in Nat /\ i \in Inodes
    <3>1. t \in Nat
      BY <2>1 DEF NextTime, TypeOK
    <3>2. QED
      BY <2>1, <3>1 DEF FreeInodes, TypeOK
  <2>3. new \in Seq(Chunk) /\ written' \in 0 .. MaxChunks
    <3>1. CASE new = << >>
      BY <2>1, <3>1 DEF TypeOK
    <3>2. CASE new # << >>
      <4>1. PICK eol, chunk : eol \in BOOLEAN /\ chunk = [id |-> written + 1, eol |-> eol] /\ new = <<chunk>>
        BY <2>1, <3>2
      <4>2. written + 1 \in 1 .. MaxChunks
        BY <2>1, <3>2, ConstAssumption DEF TypeOK
      <4>3. chunk \in Chunk
        BY <4>1, <4>2 DEF Chunk
      <4>4. new \in Seq(Chunk) /\ Len(new) = 1
        BY <4>1, <4>3
      <4>5. QED
        BY <2>1, <4>2, <4>4
    <3>3. QED
      BY <3>1, <3>2
  <2>4. content' \in [Inodes -> Seq(Chunk)]
    BY <2>1, <2>2, <2>3 DEF TypeOK
  <2>5. mtime' \in [Inodes -> Nat] /\ now' \in Nat /\ changes' \in 0 .. MaxChanges
    BY <1>10, <2>1, <2>2, ConstAssumption DEF Replace, TypeOK
  <2>6. overlooked' \in BOOLEAN
    BY <1>10, Zenon DEF Replace, Overlook, TypeOK
  <2>7. QED
    BY <1>10, <2>1, <2>2, <2>3, <2>4, <2>5, <2>6 DEF Replace, TypeOK, monitor, lines
<1>11. CASE UNCHANGED vars
  BY <1>11 DEF vars, fs, monitor, lines, TypeOK
<1>12. QED
  BY <1>1, <1>2, <1>3, <1>4, <1>5, <1>6, <1>7, <1>8, <1>9, <1>10, <1>11
     DEF Next, Monitor, Writers

-----------------------------------------------------------------------------
(* Texts put together. *)

\* Two texts, one after the other.
LEMMA Joined ==
  ASSUME NEW one \in Seq(Chunk), NEW two \in Seq(Chunk)
  PROVE  /\ Ids(one \o two) = Ids(one) \cup Ids(two)
         /\ Increasing(one) /\ Increasing(two) /\ (\A id \in Ids(two) : Above(Ids(one), id))
              => Increasing(one \o two)
<1>1. PICK both, m, n : both = one \o two /\ m = Len(one) /\ n = Len(two)
  OBVIOUS
<1>2. /\ m \in Nat /\ n \in Nat /\ DOMAIN one = 1 .. m /\ DOMAIN two = 1 .. n
      /\ DOMAIN both = 1 .. m + n
  BY <1>1, ConcatProperties
<1>3. \A i \in 1 .. m : both[i] = one[i]
  BY <1>1, <1>2, ConcatProperties
<1>4. \A i \in 1 .. n : both[m + i] = two[i]
  <2>1. ASSUME NEW i \in 1 .. n PROVE both[m + i] = two[i]
    <3>1. m + i \in 1 .. m + n /\ ~(m + i <= m) /\ m + i - m = i
      BY <1>2
    <3>2. both[m + i] = two[m + i - m]
      BY <1>1, <3>1, ConcatProperties
    <3>3. QED
      BY <3>1, <3>2
  <2>2. QED
    BY <2>1
<1>5. \A i \in 1 .. m + n : i \in 1 .. m \/ \E j \in 1 .. n : i = m + j
  <2>1. ASSUME NEW i \in 1 .. m + n, i \notin 1 .. m PROVE i - m \in 1 .. n /\ i = m + (i - m)
    BY <1>2, <2>1
  <2>2. QED
    BY <2>1
<1>6. \A i \in 1 .. n : m + i \in 1 .. m + n
  BY <1>2
<1>7. \A i \in 1 .. m : i \in 1 .. m + n
  BY <1>2
<1>8. Ids(both) = Ids(one) \cup Ids(two)
  <2>1. Ids(both) \subseteq Ids(one) \cup Ids(two)
    <3>1. \A i \in 1 .. m + n : both[i].id \in Ids(one) \cup Ids(two)
      <4>1. \A i \in 1 .. m : both[i].id \in Ids(one)
        BY <1>2, <1>3 DEF Ids
      <4>2. \A i \in 1 .. n : both[m + i].id \in Ids(two)
        BY <1>2, <1>4 DEF Ids
      <4>3. QED
        BY <1>5, <4>1, <4>2
    <3>2. QED
      BY <1>2, <3>1 DEF Ids
  <2>2. Ids(one) \subseteq Ids(both)
    BY <1>2, <1>3, <1>7 DEF Ids
  <2>3. Ids(two) \subseteq Ids(both)
    BY <1>2, <1>4, <1>6 DEF Ids
  <2>4. QED
    BY <2>1, <2>2, <2>3
<1>9. ASSUME Increasing(one), Increasing(two), \A id \in Ids(two) : Above(Ids(one), id)
      PROVE  Increasing(both)
  <2>1. SUFFICES ASSUME NEW a \in 1 .. m + n, NEW b \in 1 .. m + n, a < b
                 PROVE  both[a].id < both[b].id
    BY <1>2 DEF Increasing
  <2>2. CASE b \in 1 .. m
    <3>1. a \in 1 .. m
      BY <1>2, <2>1, <2>2
    <3>2. QED
      BY <1>2, <1>3, <1>9, <2>1, <2>2, <3>1 DEF Increasing
  <2>3. ASSUME NEW j \in 1 .. n, b = m + j PROVE both[a].id < both[b].id
    <3>1. CASE a \in 1 .. m
      BY <1>2, <1>3, <1>4, <1>9, <2>3, <3>1 DEF Ids, Above
    <3>2. ASSUME NEW i \in 1 .. n, a = m + i PROVE both[a].id < both[b].id
      <4>1. i < j
        BY <1>2, <2>1, <2>3, <3>2
      <4>2. QED
        BY <1>2, <1>4, <1>9, <2>3, <3>2, <4>1 DEF Increasing
    <3>3. QED
      BY <1>5, <3>1, <3>2
  <2>4. QED
    BY <1>5, <2>2, <2>3
<1>10. QED
  BY <1>1, <1>8, <1>9

\* A text and a chunk that is newer than it.
LEMMA Longer ==
  ASSUME NEW text \in Seq(Chunk), NEW chunk \in Chunk
  PROVE  /\ Len(Append(text, chunk)) = Len(text) + 1
         /\ \A i \in DOMAIN text : Append(text, chunk)[i] = text[i]
         /\ Append(text, chunk)[Len(text) + 1] = chunk
         /\ DOMAIN Append(text, chunk) = DOMAIN text \cup {Len(text) + 1}
         /\ Ids(Append(text, chunk)) = Ids(text) \cup {chunk.id}
         /\ Increasing(text) /\ Above(Ids(text), chunk.id) => Increasing(Append(text, chunk))
<1>1. PICK both, n : both = Append(text, chunk) /\ n = Len(text)
  OBVIOUS
<1>2. /\ n \in Nat /\ DOMAIN text = 1 .. n /\ Len(both) = n + 1 /\ DOMAIN both = 1 .. n + 1
      /\ \A i \in 1 .. n : both[i] = text[i]
      /\ both[n + 1] = chunk
  BY <1>1, AppendProperties
<1>3. 1 .. n + 1 = 1 .. n \cup {n + 1}
  BY <1>2
<1>4. Ids(both) = Ids(text) \cup {chunk.id}
  BY <1>2, <1>3 DEF Ids
<1>5. ASSUME Increasing(text), Above(Ids(text), chunk.id) PROVE Increasing(both)
  <2>1. SUFFICES ASSUME NEW a \in 1 .. n + 1, NEW b \in 1 .. n + 1, a < b
                 PROVE  both[a].id < both[b].id
    BY <1>2 DEF Increasing
  <2>2. a \in 1 .. n /\ (b \in 1 .. n \/ b = n + 1)
    BY <1>2, <2>1
  <2>3. QED
    BY <1>2, <1>5, <2>1, <2>2 DEF Increasing, Ids, Above
<1>6. QED
  BY <1>1, <1>2, <1>3, <1>4, <1>5

\* The texts of the monitor are texts, and their chunks are numbered.
LEMMA IdsAre ==
  ASSUME TypeOK
  PROVE  /\ WholeText \in Seq(Chunk) /\ TakenIds \subseteq Nat /\ HandledIds \subseteq Nat
         /\ \A i \in Inodes : content[i] \in Seq(Chunk) /\ Ids(content[i]) \subseteq Nat
         /\ \A i \in DOMAIN handled : Ids(handled[i]) \subseteq Nat
<1>1. \A text \in Seq(Chunk) : Ids(text) \subseteq Nat
  <2>1. ASSUME NEW text \in Seq(Chunk), NEW k \in DOMAIN text PROVE text[k].id \in Nat
    <3>1. text[k] \in Chunk
      OBVIOUS
    <3>2. QED
      BY <3>1 DEF Chunk
  <2>2. QED
    BY <2>1 DEF Ids
<1>2. WholeText \in Seq(Chunk)
  BY ConcatProperties DEF WholeText, TypeOK
<1>3. ASSUME NEW i \in DOMAIN handled PROVE Ids(handled[i]) \subseteq Nat
  <2>1. handled[i] \in Seq(Chunk)
    BY DEF TypeOK
  <2>2. QED
    BY <1>1, <2>1
<1>4. HandledIds \subseteq Nat
  BY <1>3 DEF HandledIds
<1>5. \A i \in Inodes : content[i] \in Seq(Chunk)
  BY DEF TypeOK
<1>6. QED
  BY <1>1, <1>2, <1>3, <1>4, <1>5 DEF TakenIds

\* The text does not change with what is not text.
LEMMA SameText ==
  ASSUME UNCHANGED <<handled, pending_buf, work_buf>>
  PROVE  /\ WholeText' = WholeText /\ HandledIds' = HandledIds /\ TakenIds' = TakenIds
         /\ LinesInOrder => LinesInOrder'
<1>1. WholeText' = WholeText
  BY DEF WholeText
<1>2. HandledIds' = HandledIds
  BY DEF HandledIds, Ids
<1>3. Ids(WholeText)' = Ids(WholeText) /\ (Increasing(WholeText) => Increasing(WholeText)')
  BY <1>1 DEF Ids, Increasing
<1>4. TakenIds' = TakenIds
  BY <1>2, <1>3 DEF TakenIds
<1>5. LinesInOrder => LinesInOrder'
  BY <1>2, <1>3 DEF LinesInOrder, Above, Increasing, Ids
<1>6. QED
  BY <1>1, <1>2, <1>4, <1>5

-----------------------------------------------------------------------------
(* In order, and once. *)

\* Initially nothing has been handled.
LEMMA OrderedInit == Init => Ordered
<1> SUFFICES ASSUME Init PROVE Ordered
  OBVIOUS
<1>1. TypeOK
  BY TypeInit
<1>2. handled = << >> /\ WholeText = << >> /\ work_buf = << >> /\ pc = "stat"
  BY ConcatEmptySeq, EmptySeq DEF Init, WholeText
<1>3. HandledIds = {} /\ TakenIds = {} /\ Ids(WholeText) = {} /\ Increasing(WholeText)
  BY <1>2 DEF HandledIds, TakenIds, Ids, Increasing
<1>4. \A i \in Inodes : Increasing(content[i]) /\ \A id \in Ids(content[i]) : id <= written
  <2>1. PICK eol, old :
          /\ old \in {<< >>, <<[id |-> 1, eol |-> eol]>>}
          /\ content = [i \in Inodes |-> IF i = name THEN old ELSE << >>]
          /\ written = Len(old)
    BY DEF Init
  <2>2. \A text \in {old, << >>} : Increasing(text) /\ \A id \in Ids(text) : id <= written
    <3>1. \A text \in {<< >>} : Increasing(text) /\ Ids(text) = {}
      BY DEF Increasing, Ids
    <3>2. CASE old = <<[id |-> 1, eol |-> eol]>>
      <4>1. Increasing(old) /\ Ids(old) = {1} /\ written = 1
        BY <2>1, <3>2 DEF Increasing, Ids
      <4>2. QED
        BY <3>1, <4>1
    <3>3. QED
      BY <2>1, <3>1, <3>2
  <2>3. QED
    BY <2>1, <2>2
<1>5. Newest
  BY <1>3, <1>4 DEF Newest
<1>6. LinesInOrder
  BY <1>2, <1>3 DEF LinesInOrder
<1>7. NewerAhead
  <2>1. name = NoFile \/ name = fd
    BY DEF Init
  <2>2. QED
    BY <1>2, <1>3, <2>1 DEF NewerAhead, Above
<1>8. QED
  BY <1>1, <1>2, <1>5, <1>6, <1>7 DEF Ordered

\* Looking up the name changes no text.
LEMMA OrderedStatFile == Ordered /\ TypeOK' /\ StatFile => Ordered'
<1> SUFFICES ASSUME Ordered, TypeOK', StatFile PROVE Ordered'
  OBVIOUS
<1>1. /\ HandledIds' = HandledIds /\ TakenIds' = TakenIds /\ (LinesInOrder => LinesInOrder')
      /\ UNCHANGED <<kind, name, content, written, fd, pos, work_buf>>
      /\ pc = "stat" /\ pc' = "open" /\ sbuf' = Stat(name)
  BY SameText DEF StatFile, fs, lines
<1>2. sbuf'.ino = name
  BY <1>1, StatIs DEF Ordered, TypeOK
<1>3. Newest'
  BY <1>1 DEF Ordered, Newest, Increasing, Ids
<1>4. NewerAhead => NewerAhead'
  BY <1>1, <1>2 DEF NewerAhead, Above, Ids
<1>5. QED
  BY <1>1, <1>3, <1>4 DEF Ordered

\* A file that is opened again has not been read.
LEMMA OrderedOpen == Ordered /\ TypeOK' /\ Open => Ordered'
<1> SUFFICES ASSUME Ordered, TypeOK', Open PROVE Ordered'
  OBVIOUS
<1>1. /\ HandledIds' = HandledIds /\ TakenIds' = TakenIds /\ (LinesInOrder => LinesInOrder')
      /\ UNCHANGED <<kind, name, content, written, sbuf, work_buf>>
      /\ pc = "open" /\ pc' \in {"stat", ToRead} /\ work_buf = << >>
  BY SameText DEF Open, AfterOpen, fs, lines, Ordered
<1>2. Newest'
  BY <1>1 DEF Ordered, Newest, Increasing, Ids
<1>3. pc' # "open" /\ (kind = "log" => pc' # "changed")
  BY <1>1 DEF ToRead
<1>4. ASSUME kind = "log" PROVE NewerAhead'
  <2>1. NewerAhead /\ name \in Inodes \cup {NoFile} /\ fd \in Inodes \cup {NoFd}
    BY <1>4 DEF Ordered, TypeOK
  <2>2. CASE Moved
    <3>1. fd' = (IF name = NoFile THEN NoFd ELSE name) /\ pos' = 0
      BY <2>2 DEF Open
    <3>2. name # NoFile => name # fd
      BY <1>1, <2>1, <2>2, ConstAssumption DEF Moved, NewerAhead
    <3>3. name # NoFile => \A id \in Ids(content[name]) : Above(TakenIds, id)
      BY <2>1, <3>2 DEF NewerAhead
    <3>4. QED
      BY <1>1, <1>3, <3>1, <3>3 DEF NewerAhead, Ids, Above
  <2>3. CASE ~Moved
    <3>1. UNCHANGED <<fd, pos>>
      BY <2>3 DEF Open
    <3>2. QED
      BY <1>1, <1>3, <2>1, <3>1 DEF NewerAhead, Ids, Above
  <2>4. QED
    BY <2>2, <2>3
<1>5. QED
  BY <1>1, <1>2, <1>3, <1>4 DEF Ordered

\* Only a status file is read again because it changed.
LEMMA OrderedChanged == Ordered /\ TypeOK' /\ Changed => Ordered'
<1> SUFFICES ASSUME Ordered, TypeOK', Changed PROVE Ordered'
  OBVIOUS
<1>1. /\ TakenIds' = TakenIds /\ UNCHANGED <<kind, content, written, work_buf>>
      /\ pc = "changed"
  BY SameText DEF Changed, fs, lines
<1>2. Newest'
  BY <1>1 DEF Ordered, Newest, Increasing, Ids
<1>3. kind # "log" /\ work_buf = << >>
  BY <1>1 DEF Ordered
<1>4. QED
  BY <1>1, <1>2, <1>3 DEF Ordered

\* A file that has shrunk has not been read.
LEMMA OrderedFit == Ordered /\ TypeOK' /\ Fit => Ordered'
<1> SUFFICES ASSUME Ordered, TypeOK', Fit PROVE Ordered'
  OBVIOUS
<1>1. /\ HandledIds' = HandledIds /\ TakenIds' = TakenIds /\ (LinesInOrder => LinesInOrder')
      /\ UNCHANGED <<kind, name, content, written, sbuf, fd, work_buf>>
      /\ pc = "fit" /\ pc' = "read" /\ pos' = IF Shrunk THEN 0 ELSE pos
  BY SameText DEF Fit, fs, lines
<1>2. Newest'
  BY <1>1 DEF Ordered, Newest, Increasing, Ids
<1>3. ASSUME NewerAhead PROVE NewerAhead'
  <2>1. CASE Shrunk
    <3>1. pos' = 0 /\ Len(content[fd]) < pos
      BY <1>1, <2>1 DEF Shrunk
    <3>2. fd # NoFd => \A k \in DOMAIN content[fd] : Above(TakenIds, content[fd][k].id)
      BY <1>3, <3>1 DEF NewerAhead
    <3>3. QED
      BY <1>1, <1>3, <3>2 DEF NewerAhead, Ids, Above
  <2>2. CASE ~Shrunk
    <3>1. pos' = pos
      BY <1>1, <2>2
    <3>2. QED
      BY <1>1, <1>3, <3>1 DEF NewerAhead, Ids, Above
  <2>3. QED
    BY <2>1, <2>2
<1>4. QED
  BY <1>1, <1>2, <1>3 DEF Ordered

\* What a read returns: text of the open file from the offset on, which is all
\* that is added to what has been read.
ReadText(piece, n) ==
  /\ piece \in Seq(Chunk) /\ Len(piece) = n /\ n \in Nat \ {0}
  /\ pos' = pos + n /\ pos + n <= Len(content[fd])
  /\ \A i \in 1 .. n : piece[i] = content[fd][pos + i]
  /\ WholeText' = WholeText \o piece /\ TakenIds' = TakenIds \cup Ids(piece)
  /\ Ids(WholeText') = Ids(WholeText) \cup Ids(piece)

\* A read returns nothing, or text of the file.
LEMMA ReadTextIs ==
  ASSUME TypeOK, pc # "lines" => work_buf = << >>, Read
  PROVE  /\ pc' \in {"stat", "lines"}
         /\ \/ pc' = "stat" /\ UNCHANGED <<pos, work_buf>>
            \/ pc' = "lines" /\ \E piece, n : ReadText(piece, n)
<1>1. UNCHANGED <<handled, pending_buf>> /\ HandledIds' = HandledIds
  BY DEF Read, lines, HandledIds, Ids
<1>2. pc = "read" /\ work_buf = << >> /\ pending_buf \in Seq(Chunk)
  BY DEF Read, TypeOK
<1>3. WholeText = pending_buf
  BY <1>2, ConcatEmptySeq DEF WholeText
<1>4. ASSUME NEW n \in Nat \ {0}, pc' = "lines", pos' = pos + n, pos + n <= Len(content[fd]),
             work_buf' \in Seq(Chunk), Len(work_buf') = n,
             \A i \in 1 .. n : work_buf'[i] = content[fd][pos + i]
      PROVE  \E piece : ReadText(piece, n)
  <2>1. PICK piece, text : piece = work_buf' /\ text = WholeText
    OBVIOUS
  <2>2. WholeText' = text \o piece
    BY <1>1, <1>3, <2>1 DEF WholeText
  <2>3. Ids(text \o piece) = Ids(text) \cup Ids(piece)
    BY <1>2, <1>3, <1>4, <2>1, Joined
  <2>4. Ids(WholeText') = Ids(WholeText) \cup Ids(piece)
    BY <2>1, <2>2, <2>3
  <2>5. TakenIds' = TakenIds \cup Ids(piece)
    BY <1>1, <2>4 DEF TakenIds, Ids
  <2>6. ReadText(piece, n)
    BY <1>4, <2>1, <2>2, <2>4, <2>5 DEF ReadText
  <2>7. QED
    BY <2>6
<1>5. QED
  BY <1>4, ReadIs

\* The chunks of the piece stand in the open file behind the offset.
LEMMA PieceIs ==
  ASSUME TypeOK, Newest, fd \in Inodes, NEW piece, NEW n, ReadText(piece, n)
  PROVE  /\ Increasing(piece)
         /\ \A id \in Ids(piece) :
              /\ id <= written /\ id \in Nat
              /\ \E k \in DOMAIN content[fd] : pos < k /\ k <= pos + n /\ id = content[fd][k].id
         /\ \A k \in DOMAIN content[fd] : k > pos + n => Above(Ids(piece), content[fd][k].id)
<1>1. PICK text, p : text = content[fd] /\ p = pos
  OBVIOUS
<1>2. /\ text \in Seq(Chunk) /\ Ids(text) \subseteq Nat /\ p \in Nat /\ n \in Nat \ {0}
      /\ Increasing(text) /\ (\A id \in Ids(text) : id <= written)
      /\ piece \in Seq(Chunk) /\ Len(piece) = n
      /\ p + n <= Len(text) /\ \A i \in 1 .. n : piece[i] = text[p + i]
  BY <1>1, IdsAre DEF TypeOK, Newest, ReadText
<1>3. PICK l : l = Len(text) /\ l \in Nat /\ DOMAIN text = 1 .. l /\ DOMAIN piece = 1 .. n
  BY <1>2
<1>4. \A i \in 1 .. n : p + i \in 1 .. l /\ p < p + i /\ p + i <= p + n
  BY <1>2, <1>3
<1>5. \A i, j \in 1 .. n : i < j => p + i < p + j
  BY <1>2
<1>6. Increasing(piece)
  BY <1>2, <1>3, <1>4, <1>5 DEF Increasing
<1>7. ASSUME NEW i \in 1 .. n
      PROVE  /\ piece[i].id <= written /\ piece[i].id \in Nat
             /\ p + i \in DOMAIN text /\ p < p + i /\ p + i <= p + n /\ piece[i].id = text[p + i].id
  BY <1>2, <1>3, <1>4 DEF Ids
<1>8. ASSUME NEW k \in DOMAIN text, k > p + n, NEW i \in 1 .. n PROVE piece[i].id < text[k].id
  <2>1. p + i < k /\ p + i \in DOMAIN text
    BY <1>2, <1>3, <1>4, <1>8
  <2>2. QED
    BY <1>2, <2>1 DEF Increasing
<1>9. QED
  BY <1>1, <1>3, <1>6, <1>7, <1>8 DEF Ids, Above

\* What is read comes after what has been read.
LEMMA OrderedRead == Ordered /\ TypeOK' /\ Read => Ordered'
<1> SUFFICES ASSUME Ordered, TypeOK', Read PROVE Ordered'
  OBVIOUS
<1>1. /\ UNCHANGED <<kind, name, content, written, sbuf, fd, handled, pending_buf>> /\ HandledIds' = HandledIds
      /\ pc = "read" /\ fd \in Inodes /\ work_buf = << >> /\ TypeOK /\ Newest
  <2>1. UNCHANGED <<kind, name, content, written, sbuf, fd, handled, pending_buf>>
    BY DEF Read, fs, lines
  <2>2. HandledIds' = HandledIds
    BY <2>1 DEF HandledIds, Ids
  <2>3. pc = "read" /\ work_buf = << >> /\ TypeOK /\ Newest
    BY DEF Read, Ordered
  <2>4. fd \in Inodes
    BY <2>3 DEF TypeOK
  <2>5. QED
    BY <2>1, <2>2, <2>3, <2>4
<1>2. CASE pc' = "stat" /\ UNCHANGED <<pos, work_buf>>
  <2>1. /\ TakenIds' = TakenIds /\ (LinesInOrder => LinesInOrder')
    BY <1>1, <1>2, SameText
  <2>2. Newest'
    BY <1>1, <2>1 DEF Newest, Increasing, Ids
  <2>3. NewerAhead => NewerAhead'
    BY <1>1, <1>2, <2>1 DEF NewerAhead, Above, Ids
  <2>4. QED
    BY <1>1, <1>2, <2>1, <2>2, <2>3 DEF Ordered
<1>3. ASSUME NEW piece, NEW n, pc' = "lines", ReadText(piece, n) PROVE Ordered'
  <2>1. /\ Increasing(piece)
        /\ \A id \in Ids(piece) :
             /\ id <= written /\ id \in Nat
             /\ \E k \in DOMAIN content[fd] : pos < k /\ k <= pos + n /\ id = content[fd][k].id
        /\ \A k \in DOMAIN content[fd] : k > pos + n => Above(Ids(piece), content[fd][k].id)
    BY <1>1, <1>3, PieceIs
  <2>2. /\ TakenIds' = TakenIds \cup Ids(piece) /\ pos' = pos + n
        /\ Ids(WholeText') = Ids(WholeText) \cup Ids(piece)
        /\ n \in Nat \ {0} /\ pos + n <= Len(content[fd]) /\ piece \in Seq(Chunk)
        /\ WholeText' = WholeText \o piece
    BY <1>3 DEF ReadText
  <2>3. Newest'
    BY <1>1, <2>1, <2>2 DEF Newest, Increasing, Ids
  <2>4. ASSUME kind = "log" PROVE LinesInOrder'
    <3>1. LinesInOrder /\ NewerAhead
      BY <2>4 DEF Ordered
    <3>2. \A id \in Ids(piece) : Above(TakenIds, id)
      BY <1>1, <2>1, <3>1, ConstAssumption DEF NewerAhead
    <3>3. \A id \in Ids(piece) : Above(HandledIds, id) /\ Above(Ids(WholeText), id)
      BY <3>2 DEF TakenIds, Above
    <3>4. Increasing(WholeText)'
      <4>1. PICK text : text = WholeText /\ text \in Seq(Chunk)
        BY <1>1, IdsAre
      <4>2. Increasing(text \o piece)
        BY <2>1, <2>2, <3>1, <3>3, <4>1, Joined DEF LinesInOrder
      <4>3. WholeText' = text \o piece
        BY <2>2, <4>1
      <4>4. QED
        BY <4>2, <4>3 DEF Increasing
    <3>5. \A id \in Ids(WholeText)' : Above(HandledIds, id)'
      <4>1. Ids(WholeText)' = Ids(WholeText) \cup Ids(piece)
        BY <2>2 DEF Ids
      <4>2. QED
        BY <1>1, <3>1, <3>3, <4>1 DEF LinesInOrder, Above
    <3>6. QED
      BY <1>1, <3>1, <3>4, <3>5 DEF LinesInOrder, Increasing, Above, Ids
  <2>5. ASSUME kind = "log" PROVE NewerAhead'
    <3>1. NewerAhead
      BY <2>5 DEF Ordered
    <3>2. ASSUME NEW k \in DOMAIN content[fd], k > pos' \/ Len(content[fd]) < pos'
          PROVE  Above(TakenIds', content[fd][k].id)
      <4>1. pos \in Nat /\ Len(content[fd]) \in Nat /\ k \in Nat
        <5>1. content[fd] \in Seq(Chunk) /\ pos \in Nat
          BY <1>1 DEF TypeOK
        <5>2. QED
          BY <5>1
      <4>2. k > pos + n /\ k > pos
        BY <2>2, <3>2, <4>1
      <4>3. Above(TakenIds, content[fd][k].id) /\ Above(Ids(piece), content[fd][k].id)
        BY <1>1, <2>1, <3>1, <4>2, ConstAssumption DEF NewerAhead
      <4>4. QED
        BY <2>2, <4>3 DEF Above
    <3>3. ASSUME name \notin {NoFile, fd}, NEW id \in Ids(content[name])
          PROVE  Above(TakenIds', id) /\ Above(Ids(content[fd]), id)
      <4>1. Above(TakenIds, id) /\ Above(Ids(content[fd]), id)
        BY <1>1, <3>1, <3>3, ConstAssumption DEF NewerAhead
      <4>2. Ids(piece) \subseteq Ids(content[fd])
        BY <2>1 DEF Ids
      <4>3. QED
        BY <2>2, <4>1, <4>2 DEF Above
    <3>4. pc' # "open"
      BY <1>3
    <3>5. (\A k \in DOMAIN content[fd] :
             k > pos \/ Len(content[fd]) < pos => Above(TakenIds, content[fd][k].id))'
      BY <1>1, <3>2 DEF Above
    <3>6. (name \notin {NoFile, fd} =>
             \A id \in Ids(content[name]) :
               Above(TakenIds, id) /\ (fd # NoFd => Above(Ids(content[fd]), id)))'
      <4>1. Ids(content[name])' = Ids(content[name]) /\ Ids(content[fd])' = Ids(content[fd])
        BY <1>1 DEF Ids
      <4>2. UNCHANGED <<name, fd>>
        BY <1>1
      <4>3. QED
        BY <3>3, <4>1, <4>2 DEF Above
    <3>7. QED
      BY <3>4, <3>5, <3>6 DEF NewerAhead
  <2>6. QED
    BY <1>1, <1>3, <2>3, <2>4, <2>5 DEF Ordered
<1>4. QED
  BY <1>1, <1>2, <1>3, ReadTextIs

\* A line more: the text that has been read is the same.
LEMMA OneLineMore ==
  ASSUME TypeOK, HandleRead, NEW line, NEW k, OneLine(line, k), NEW n, n = Len(handled)
  PROVE  /\ n \in Nat /\ DOMAIN handled = 1 .. n /\ DOMAIN handled' = 1 .. n + 1
         /\ (\A i \in 1 .. n : handled'[i] = handled[i]) /\ handled'[n + 1] = line
         /\ HandledIds' = HandledIds \cup Ids(line) /\ TakenIds' = TakenIds
<1>1. line \in Seq(Chunk) /\ Ids(WholeText) = Ids(line) \cup Ids(WholeText')
  BY LineIs
<1>2. handled \in Seq(Seq(Chunk)) /\ handled' = Append(handled, line)
  BY DEF OneLine, TypeOK
<1>3. /\ n \in Nat /\ DOMAIN handled = 1 .. n /\ DOMAIN handled' = 1 .. n + 1
      /\ (\A i \in 1 .. n : handled'[i] = handled[i]) /\ handled'[n + 1] = line
  BY <1>1, <1>2, AppendProperties
<1>4. 1 .. n + 1 = (1 .. n) \cup {n + 1}
  BY <1>3
<1>5. HandledIds' = HandledIds \cup Ids(line)
  <2>1. HandledIds' = UNION {Ids(handled'[i]) : i \in 1 .. n + 1}
    BY <1>3 DEF HandledIds, Ids
  <2>2. HandledIds = UNION {Ids(handled[i]) : i \in 1 .. n}
    BY <1>3 DEF HandledIds, Ids
  <2>3. \A i \in 1 .. n : Ids(handled'[i]) = Ids(handled[i])
    BY <1>3 DEF Ids
  <2>4. QED
    BY <1>3, <1>4, <2>1, <2>2, <2>3
<1>6. Ids(WholeText)' = Ids(WholeText')
  BY DEF Ids
<1>7. TakenIds' = TakenIds
  BY <1>1, <1>5, <1>6 DEF TakenIds
<1>8. QED
  BY <1>3, <1>5, <1>7

\* A line is handled after those before it, and before the rest of the text.
LEMMA OrderedHandleRead == Ordered /\ TypeOK' /\ HandleRead => Ordered'
<1> SUFFICES ASSUME Ordered, TypeOK', HandleRead PROVE Ordered'
  OBVIOUS
<1>1. /\ UNCHANGED <<kind, name, content, written, sbuf, fd, pos>>
      /\ pc' \in {"fit", "lines"} /\ (pc' = "fit" => work_buf' = << >>)
      /\ Dropped \/ Kept \/ \E line, k : OneLine(line, k)
  BY HandleIs DEF HandleRead, fs, Ordered
<1>2. /\ TakenIds' \subseteq TakenIds
      /\ LinesInOrder => LinesInOrder'
  <2>1. CASE Dropped
    <3>1. HandledIds' = HandledIds
      BY <2>1 DEF Dropped, HandledIds, Ids
    <3>2. Ids(WholeText)' = {} /\ Increasing(WholeText)'
      BY <2>1 DEF Dropped, Ids, Increasing
    <3>3. TakenIds' \subseteq TakenIds
      BY <3>1, <3>2 DEF TakenIds
    <3>4. LinesInOrder => LinesInOrder'
      BY <2>1, <3>1, <3>2 DEF Dropped, LinesInOrder, Increasing, Above, Ids
    <3>5. QED
      BY <3>3, <3>4
  <2>2. CASE Kept
    <3>1. HandledIds' = HandledIds
      BY <2>2 DEF Kept, HandledIds, Ids
    <3>2. Ids(WholeText)' = Ids(WholeText) /\ (Increasing(WholeText) => Increasing(WholeText)')
      BY <2>2 DEF Kept, Ids, Increasing
    <3>3. TakenIds' \subseteq TakenIds
      BY <3>1, <3>2 DEF TakenIds
    <3>4. LinesInOrder => LinesInOrder'
      BY <2>2, <3>1, <3>2 DEF Kept, LinesInOrder, Increasing, Above, Ids
    <3>5. QED
      BY <3>3, <3>4
  <2>3. ASSUME NEW line, NEW k, OneLine(line, k)
        PROVE  TakenIds' \subseteq TakenIds /\ (LinesInOrder => LinesInOrder')
    <3>1. /\ line \in Seq(Chunk) /\ Ids(WholeText) = Ids(line) \cup Ids(WholeText')
          /\ Increasing(WholeText) => /\ Increasing(line) /\ Increasing(WholeText')
                                      /\ \A id \in Ids(WholeText') : Above(Ids(line), id)
      <4>1. TypeOK
        BY DEF Ordered
      <4>2. QED
        BY <2>3, <4>1, LineIs
    <3>2. PICK n : n = Len(handled)
      OBVIOUS
    <3>3. /\ n \in Nat /\ DOMAIN handled = 1 .. n /\ DOMAIN handled' = 1 .. n + 1
          /\ (\A i \in 1 .. n : handled'[i] = handled[i]) /\ handled'[n + 1] = line
          /\ HandledIds' = HandledIds \cup Ids(line) /\ TakenIds' = TakenIds
      BY <2>3, <3>2, OneLineMore DEF Ordered
    <3>4. 1 .. n + 1 = (1 .. n) \cup {n + 1} /\ \A i, j \in 1 .. n + 1 : i < j => i \in 1 .. n
      BY <3>3
    <3>5. ASSUME LinesInOrder PROVE LinesInOrder'
      <4>1. \A i \in 1 .. n + 1 : Increasing(handled'[i])
        BY <3>1, <3>3, <3>4, <3>5 DEF LinesInOrder
      <4>2. ASSUME NEW i \in 1 .. n + 1, NEW j \in 1 .. n + 1, i < j,
                   NEW id \in Ids(handled'[j])
            PROVE  Above(Ids(handled'[i]), id)
        <5>1. i \in 1 .. n /\ handled'[i] = handled[i]
          BY <3>3, <3>4, <4>2
        <5>2. CASE j \in 1 .. n
          BY <3>3, <3>5, <4>2, <5>1, <5>2 DEF LinesInOrder
        <5>3. CASE j = n + 1
          <6>1. id \in Ids(WholeText)
            BY <3>1, <3>3, <4>2, <5>3
          <6>2. Ids(handled[i]) \subseteq HandledIds
            BY <3>3, <5>1 DEF HandledIds
          <6>3. QED
            BY <3>5, <5>1, <6>1, <6>2 DEF LinesInOrder, Above
        <5>4. QED
          BY <3>4, <4>2, <5>2, <5>3
      <4>3. Increasing(WholeText')
        BY <3>1, <3>5 DEF LinesInOrder
      <4>4. \A id \in Ids(WholeText') : Above(HandledIds', id)
        BY <3>1, <3>3, <3>5 DEF LinesInOrder, Above
      <4>5. QED
        BY <3>3, <4>1, <4>2, <4>3, <4>4 DEF LinesInOrder, Increasing, Above, Ids
    <3>6. QED
      BY <3>3, <3>5
  <2>4. QED
    BY <1>1, <2>1, <2>2, <2>3
<1>3. Newest'
  BY <1>1, <1>2 DEF Ordered, Newest, Increasing, Ids
<1>4. ASSUME NewerAhead PROVE NewerAhead'
  <2>1. \A id : Above(TakenIds, id) => Above(TakenIds', id)
    BY <1>2 DEF Above
  <2>2. Ids(content[name])' = Ids(content[name]) /\ Ids(content[fd])' = Ids(content[fd]) /\ pc' # "open"
    BY <1>1 DEF Ids
  <2>3. \A id : Above(TakenIds, id)' <=> Above(TakenIds', id)
    BY DEF Above
  <2>4. QED
    BY <1>1, <1>4, <2>1, <2>2, <2>3 DEF NewerAhead, Above
<1>5. QED
  BY <1>1, <1>2, <1>3, <1>4 DEF Ordered

\* What is written is newer than all there is.
LEMMA OrderedWrite == Ordered /\ TypeOK' /\ Write => Ordered'
<1> SUFFICES ASSUME Ordered, TypeOK', Write PROVE Ordered'
  OBVIOUS
<1>1. /\ HandledIds' = HandledIds /\ TakenIds' = TakenIds /\ (LinesInOrder => LinesInOrder')
      /\ UNCHANGED <<kind, name, sbuf, fd, pos, pc, work_buf>>
      /\ written' = written + 1 /\ written \in Nat /\ name \in Inodes
      /\ TypeOK /\ Newest
  BY SameText, ConstAssumption DEF Write, monitor, lines, Ordered, TypeOK
<1>2. PICK eol, chunk : /\ eol \in BOOLEAN /\ chunk = [id |-> written + 1, eol |-> eol]
                        /\ content' = [content EXCEPT ![name] = Append(@, chunk)]
  BY DEF Write
<1>3. chunk \in Chunk /\ chunk.id = written + 1
  <2>1. written + 1 \in 1 .. MaxChunks
    BY <1>1, ConstAssumption DEF TypeOK, Write
  <2>2. QED
    BY <1>2, <2>1 DEF Chunk
<1>4. PICK text, longer : text = content[name] /\ longer = Append(text, chunk)
  OBVIOUS
<1>5. content \in [Inodes -> Seq(Chunk)]
  BY <1>1 DEF TypeOK
<1>6. content'[name] = longer /\ \A i \in Inodes \ {name} : content'[i] = content[i]
  BY <1>1, <1>2, <1>4, <1>5
<1>7. /\ text \in Seq(Chunk) /\ Ids(text) \subseteq Nat /\ Increasing(text)
      /\ \A id \in Ids(text) : id <= written
  BY <1>1, <1>4, IdsAre DEF Newest
<1>8. Above(Ids(text), chunk.id) /\ Above(TakenIds, chunk.id)
  BY <1>1, <1>3, <1>7, IdsAre DEF Newest, Above
<1>9. /\ Len(longer) = Len(text) + 1 /\ Len(text) \in Nat
      /\ \A i \in DOMAIN text : longer[i] = text[i]
      /\ longer[Len(text) + 1] = chunk
      /\ DOMAIN longer = DOMAIN text \cup {Len(text) + 1}
      /\ Ids(longer) = Ids(text) \cup {chunk.id}
      /\ Increasing(longer)
  BY <1>3, <1>4, <1>7, <1>8, Longer
<1>10. Newest'
  <2>1. ASSUME NEW i \in Inodes
        PROVE  Increasing(content'[i]) /\ \A id \in Ids(content'[i]) : id <= written + 1
    <3>1. CASE i = name
      <4>1. \A id \in Ids(longer) : id <= written + 1
        BY <1>1, <1>3, <1>7, <1>9
      <4>2. QED
        BY <1>6, <1>9, <3>1, <4>1
    <3>2. CASE i # name
      <4>1. content'[i] = content[i] /\ Ids(content[i]) \subseteq Nat
        BY <1>1, <1>6, <3>2, IdsAre
      <4>2. Increasing(content[i]) /\ \A id \in Ids(content[i]) : id <= written + 1
        BY <1>1, <4>1 DEF Newest
      <4>3. QED
        BY <4>1, <4>2
    <3>3. QED
      BY <3>1, <3>2
  <2>2. \A id \in TakenIds' : id <= written + 1
    BY <1>1, IdsAre DEF Newest
  <2>3. QED
    BY <1>1, <2>1, <2>2 DEF Newest, Increasing, Ids
<1>11. ASSUME NewerAhead PROVE NewerAhead'
  <2>1. ASSUME fd # NoFd, NEW k \in DOMAIN content'[fd], k > pos \/ Len(content'[fd]) < pos
        PROVE  Above(TakenIds, content'[fd][k].id)
    <3>1. fd \in Inodes /\ pos \in Nat
      BY <1>1, <2>1 DEF TypeOK
    <3>2. CASE fd = name
      <4>1. content'[fd] = longer
        BY <1>6, <3>2
      <4>2. CASE k = Len(text) + 1
        BY <1>8, <1>9, <4>1, <4>2
      <4>3. CASE k \in DOMAIN text
        <5>1. k > pos \/ Len(text) < pos
          BY <1>9, <2>1, <3>1, <4>1
        <5>2. Above(TakenIds, text[k].id)
          BY <1>4, <1>11, <2>1, <3>2, <4>3, <5>1 DEF NewerAhead
        <5>3. QED
          BY <1>9, <4>1, <4>3, <5>2
      <4>4. QED
        BY <1>9, <2>1, <4>1, <4>2, <4>3
    <3>3. CASE fd # name
      BY <1>6, <1>11, <2>1, <3>1, <3>3 DEF NewerAhead
    <3>4. QED
      BY <3>2, <3>3
  <2>2. ASSUME name \notin {NoFile, fd}, NEW id \in Ids(content'[name])
        PROVE  Above(TakenIds, id) /\ (fd # NoFd => Above(Ids(content'[fd]), id))
    <3>1. fd # NoFd => fd \in Inodes /\ content'[fd] = content[fd]
      BY <1>1, <1>6, <2>2 DEF TypeOK
    <3>2. CASE id \in Ids(text)
      BY <1>4, <1>11, <2>2, <3>1, <3>2 DEF NewerAhead
    <3>3. CASE id = chunk.id
      <4>1. fd # NoFd => Above(Ids(content[fd]), id)
        <5>1. ASSUME fd # NoFd, NEW x \in Ids(content[fd]) PROVE x < id
          <6>1. x <= written /\ x \in Nat
            BY <1>1, <3>1, <5>1, IdsAre DEF Newest
          <6>2. QED
            BY <1>1, <1>3, <3>3, <6>1
        <5>2. QED
          BY <5>1 DEF Above
      <4>2. QED
        BY <1>8, <3>1, <3>3, <4>1
    <3>4. QED
      BY <1>6, <1>9, <2>2, <3>2, <3>3
  <2>3. \A id : Above(TakenIds, id)' <=> Above(TakenIds, id)
    BY <1>1 DEF Above
  <2>4. /\ fd' = fd /\ pos' = pos /\ name' = name /\ pc' = pc /\ sbuf' = sbuf
        /\ Ids(content[name])' = Ids(content'[name]) /\ Ids(content[fd])' = Ids(content'[fd])
    BY <1>1 DEF Ids
  <2>5. (fd # NoFd => \A k \in DOMAIN content[fd] :
          k > pos \/ Len(content[fd]) < pos => Above(TakenIds, content[fd][k].id))'
    BY <1>1, <2>1, <2>4
  <2>6. (name \notin {NoFile, fd} =>
          \A id \in Ids(content[name]) :
            Above(TakenIds, id) /\ (fd # NoFd => Above(Ids(content[fd]), id)))'
    BY <1>1, <2>2, <2>4
  <2>7. QED
    BY <1>11, <2>4, <2>5, <2>6 DEF NewerAhead
<1>12. QED
  BY <1>1, <1>10, <1>11 DEF Ordered

\* An emptied file has nothing that has been read.
LEMMA OrderedTruncate == Ordered /\ TypeOK' /\ Truncate => Ordered'
<1> SUFFICES ASSUME Ordered, TypeOK', Truncate PROVE Ordered'
  OBVIOUS
<1>1. /\ HandledIds' = HandledIds /\ TakenIds' = TakenIds /\ (LinesInOrder => LinesInOrder')
      /\ UNCHANGED <<kind, name, written, sbuf, fd, pos, pc, work_buf>>
      /\ name \in Inodes /\ TypeOK /\ Newest
  BY SameText DEF Truncate, monitor, lines, Ordered, TypeOK
<1>2. content' = [content EXCEPT ![name] = << >>] /\ content \in [Inodes -> Seq(Chunk)]
  BY <1>1 DEF Truncate, TypeOK
<1>3. content'[name] = << >> /\ \A i \in Inodes \ {name} : content'[i] = content[i]
  BY <1>1, <1>2
<1>4. Ids(<< >>) = {} /\ Increasing(<< >>)
  BY DEF Ids, Increasing
<1>5. Newest'
  <2>1. ASSUME NEW i \in Inodes
        PROVE  Increasing(content'[i]) /\ \A id \in Ids(content'[i]) : id <= written
    <3>1. CASE i = name
      <4>1. content'[i] = << >>
        BY <1>3, <3>1
      <4>2. QED
        BY <1>4, <4>1
    <3>2. CASE i # name
      BY <1>1, <1>3, <3>2 DEF Newest
    <3>3. QED
      BY <3>1, <3>2
  <2>2. QED
    BY <1>1, <2>1 DEF Newest, Increasing, Ids
<1>6. ASSUME NewerAhead PROVE NewerAhead'
  <2>1. ASSUME fd # NoFd, NEW k \in DOMAIN content'[fd], k > pos \/ Len(content'[fd]) < pos
        PROVE  Above(TakenIds, content'[fd][k].id)
    <3>1. fd \in Inodes
      BY <1>1, <2>1 DEF TypeOK
    <3>2. fd # name
      BY <1>3, <2>1
    <3>3. QED
      BY <1>3, <1>6, <2>1, <3>1, <3>2 DEF NewerAhead
  <2>2. Ids(content'[name]) = {}
    BY <1>3, <1>4
  <2>3. /\ fd' = fd /\ pos' = pos /\ name' = name /\ pc' = pc /\ sbuf' = sbuf
        /\ Ids(content[name])' = Ids(content'[name])
        /\ \A id : Above(TakenIds, id)' <=> Above(TakenIds, id)
    BY <1>1 DEF Ids, Above
  <2>4. (fd # NoFd => \A k \in DOMAIN content[fd] :
          k > pos \/ Len(content[fd]) < pos => Above(TakenIds, content[fd][k].id))'
    BY <2>1, <2>3
  <2>5. QED
    BY <1>6, <2>2, <2>3, <2>4 DEF NewerAhead
<1>7. QED
  BY <1>1, <1>5, <1>6 DEF Ordered

\* Without a name, nothing may be opened.
LEMMA OrderedRemove == Ordered /\ TypeOK' /\ Remove => Ordered'
<1> SUFFICES ASSUME Ordered, TypeOK', Remove PROVE Ordered'
  OBVIOUS
<1>1. /\ TakenIds' = TakenIds /\ (LinesInOrder => LinesInOrder')
      /\ UNCHANGED <<kind, content, written, sbuf, fd, pos, pc, work_buf>>
      /\ name' = NoFile /\ TypeOK
  BY SameText DEF Remove, monitor, lines, Ordered
<1>2. Newest'
  BY <1>1 DEF Ordered, Newest, Increasing, Ids
<1>3. fd # NoFd => fd # NoFile
  BY <1>1, ConstAssumption DEF TypeOK
<1>4. NewerAhead => NewerAhead'
  BY <1>1, <1>3 DEF NewerAhead, Above, Ids
<1>5. QED
  BY <1>1, <1>2, <1>4 DEF Ordered

\* A new file is newer than the one that is open.
LEMMA OrderedReplace == Ordered /\ TypeOK' /\ Replace => Ordered'
<1> SUFFICES ASSUME Ordered, TypeOK', Replace PROVE Ordered'
  OBVIOUS
<1>1. /\ HandledIds' = HandledIds /\ TakenIds' = TakenIds /\ (LinesInOrder => LinesInOrder')
      /\ UNCHANGED <<kind, sbuf, fd, pos, pc, work_buf>>
      /\ TypeOK /\ Newest /\ content \in [Inodes -> Seq(Chunk)] /\ written \in Nat
  BY SameText, ConstAssumption DEF Replace, monitor, lines, Ordered, TypeOK
<1>2. PICK i, eol, new : /\ i \in FreeInodes
                         /\ new \in {<< >>, <<[id |-> written + 1, eol |-> eol]>>}
                         /\ name' = i /\ content' = [content EXCEPT ![i] = new]
                         /\ written' = written + Len(new)
  BY DEF Replace
<1>3. /\ i \in Inodes /\ i # fd
      /\ content'[i] = new /\ \A j \in Inodes \ {i} : content'[j] = content[j]
  BY <1>1, <1>2 DEF FreeInodes
<1>4. /\ Increasing(new) /\ Ids(new) \subseteq {written + 1}
      /\ written' \in Nat /\ written <= written' /\ \A id \in Ids(new) : id <= written'
  <2>1. CASE new = << >>
    BY <1>1, <1>2, <2>1 DEF Increasing, Ids
  <2>2. CASE new = <<[id |-> written + 1, eol |-> eol]>>
    <3>1. Increasing(new) /\ Ids(new) = {written + 1}
      BY <2>2 DEF Increasing, Ids
    <3>2. written' = written + 1
      BY <1>2, <2>2
    <3>3. QED
      BY <1>1, <3>1, <3>2
  <2>3. QED
    BY <1>2, <2>1, <2>2
<1>5. \A ids : ids \subseteq Nat /\ (\A x \in ids : x <= written) => Above(ids, written + 1)
  BY <1>1 DEF Above
<1>6. Newest'
  <2>1. ASSUME NEW j \in Inodes
        PROVE  Increasing(content'[j]) /\ \A id \in Ids(content'[j]) : id <= written'
    <3>1. CASE j = i
      BY <1>3, <1>4, <3>1
    <3>2. CASE j # i
      <4>1. content'[j] = content[j] /\ Ids(content[j]) \subseteq Nat
        BY <1>1, <1>3, <3>2, IdsAre
      <4>2. Increasing(content[j]) /\ \A id \in Ids(content[j]) : id <= written'
        BY <1>1, <1>4, <4>1 DEF Newest
      <4>3. QED
        BY <4>1, <4>2
    <3>3. QED
      BY <3>1, <3>2
  <2>2. \A id \in TakenIds' : id <= written'
    BY <1>1, <1>4, IdsAre DEF Newest
  <2>3. QED
    BY <2>1, <2>2 DEF Newest, Increasing, Ids
<1>7. ASSUME NewerAhead PROVE NewerAhead'
  <2>1. fd # NoFd => fd \in Inodes /\ content'[fd] = content[fd]
    BY <1>1, <1>3 DEF TypeOK
  <2>2. ASSUME NEW id \in Ids(new)
        PROVE  Above(TakenIds, id) /\ (fd # NoFd => Above(Ids(content[fd]), id))
    <3>1. id = written + 1
      BY <1>4, <2>2
    <3>2. Above(TakenIds, id)
      BY <1>1, <1>5, <3>1, IdsAre DEF Newest
    <3>3. fd # NoFd => Above(Ids(content[fd]), id)
      BY <1>1, <1>5, <2>1, <3>1, IdsAre DEF Newest
    <3>4. QED
      BY <3>2, <3>3
  <2>3. /\ fd' = fd /\ pos' = pos /\ name' = i
        /\ Ids(content[name])' = Ids(new) /\ Ids(content[fd])' = Ids(content'[fd])
        /\ \A id : Above(TakenIds, id)' <=> Above(TakenIds, id)
    BY <1>1, <1>2, <1>3 DEF Ids, Above
  <2>4. (fd # NoFd => \A k \in DOMAIN content[fd] :
          k > pos \/ Len(content[fd]) < pos => Above(TakenIds, content[fd][k].id))'
    BY <1>7, <2>1, <2>3 DEF NewerAhead
  <2>5. (name \notin {NoFile, fd} =>
          \A id \in Ids(content[name]) :
            Above(TakenIds, id) /\ (fd # NoFd => Above(Ids(content[fd]), id)))'
    BY <2>1, <2>2, <2>3
  <2>6. (pc = "open" /\ fd # NoFd /\ sbuf.ino # fd => name # fd)'
    BY <1>3, <2>3
  <2>7. QED
    BY <2>4, <2>5, <2>6 DEF NewerAhead
<1>8. QED
  BY <1>1, <1>6, <1>7 DEF Ordered

\* The order is kept by every step.
LEMMA OrderedNext == Ordered /\ [Next]_vars => Ordered'
<1> SUFFICES ASSUME Ordered, [Next]_vars PROVE Ordered'
  OBVIOUS
<1>1. TypeOK'
  BY TypeNext DEF Ordered
<1>2. CASE UNCHANGED vars
  <2>1. /\ TakenIds' = TakenIds /\ (LinesInOrder => LinesInOrder')
        /\ UNCHANGED <<kind, name, content, written, sbuf, fd, pos, pc, work_buf>>
    BY <1>2, SameText DEF vars, fs, monitor, lines
  <2>2. Newest'
    BY <2>1 DEF Ordered, Newest, Increasing, Ids
  <2>3. NewerAhead => NewerAhead'
    BY <2>1 DEF NewerAhead, Above, Ids
  <2>4. QED
    BY <1>1, <2>1, <2>2, <2>3 DEF Ordered
<1>3. QED
  BY <1>1, <1>2, OrderedStatFile, OrderedOpen, OrderedChanged, OrderedFit, OrderedRead,
     OrderedHandleRead, OrderedWrite, OrderedTruncate, OrderedRemove, OrderedReplace
     DEF Next, Monitor, Writers

\* The order is an invariant.
LEMMA OrderedCorrect == Spec => []Ordered
<1>1. QED
  BY OrderedInit, OrderedNext, PTL DEF Spec

\* The lines, the last one not complete, are the lines handled and the text left.
LEMMA LinesAre ==
  ASSUME TypeOK, NEW n, n = Len(handled)
  PROVE  /\ n \in Nat /\ DOMAIN handled = 1 .. n /\ DOMAIN Lines = 1 .. n + 1
         /\ \A i \in 1 .. n : Lines[i] = handled[i]
         /\ Lines[n + 1] = WholeText
<1>1. handled \in Seq(Seq(Chunk)) /\ WholeText \in Seq(Chunk)
  BY IdsAre DEF TypeOK
<1>2. PICK all, text : all = Lines /\ text = WholeText /\ all = Append(handled, text)
  BY DEF Lines
<1>3. QED
  BY <1>1, <1>2, AppendProperties

\* No text of a log file is handled twice, nor out of order (handle_read of
\* logmonitor.c), whatever happens to the file and to its name meanwhile.
THEOREM InOrderOnceCorrect == Spec => []InOrderOnce
<1>1. Ordered => InOrderOnce
  <2> SUFFICES ASSUME Ordered, kind = "log" PROVE InOrderOnce
    BY DEF InOrderOnce
  <2>1. LinesInOrder /\ TypeOK
    BY DEF Ordered
  <2>2. PICK n : n = Len(handled)
    OBVIOUS
  <2>3. /\ n \in Nat /\ DOMAIN handled = 1 .. n /\ DOMAIN Lines = 1 .. n + 1
        /\ \A i \in 1 .. n : Lines[i] = handled[i]
        /\ Lines[n + 1] = WholeText
    BY <2>1, <2>2, LinesAre
  <2>4. \A i \in 1 .. n + 1 : Increasing(Lines[i])
    <3>1. \A i \in 1 .. n + 1 : i \in 1 .. n \/ i = n + 1
      BY <2>3
    <3>2. QED
      BY <2>1, <2>3, <3>1 DEF LinesInOrder
  <2>5. ASSUME NEW i \in 1 .. n + 1, NEW j \in 1 .. n + 1, i < j, NEW id \in Ids(Lines[j])
        PROVE  Above(Ids(Lines[i]), id)
    <3>1. i \in 1 .. n /\ (j \in 1 .. n \/ j = n + 1)
      BY <2>3, <2>5
    <3>2. CASE j \in 1 .. n
      BY <2>1, <2>3, <2>5, <3>1, <3>2 DEF LinesInOrder
    <3>3. CASE j = n + 1
      <4>1. Ids(Lines[i]) \subseteq HandledIds
        BY <2>3, <3>1 DEF HandledIds
      <4>2. Above(HandledIds, id)
        BY <2>1, <2>3, <2>5, <3>3 DEF LinesInOrder
      <4>3. QED
        BY <4>1, <4>2 DEF Above
    <3>4. QED
      BY <3>1, <3>2, <3>3
  <2>6. ASSUME NEW i \in 1 .. n + 1, NEW j \in 1 .. n + 1,
               NEW a \in DOMAIN Lines[i], NEW b \in DOMAIN Lines[j],
               i < j \/ (i = j /\ a < b)
        PROVE  Lines[i][a].id < Lines[j][b].id
    <3>1. CASE i < j
      <4>1. Lines[j][b].id \in Ids(Lines[j]) /\ Lines[i][a].id \in Ids(Lines[i])
        BY DEF Ids
      <4>2. QED
        BY <2>5, <3>1, <4>1 DEF Above
    <3>2. CASE i = j /\ a < b
      BY <2>4, <3>2 DEF Increasing
    <3>3. QED
      BY <2>6, <3>1, <3>2
  <2>7. QED
    BY <2>3, <2>6 DEF InOrderOnce, Before
<1>2. QED
  BY <1>1, OrderedCorrect, PTL

\* The variables of the monitor have their types.
THEOREM TypeCorrect == Spec => []TypeOK
<1>1. QED
  BY TypeInit, TypeNext, PTL DEF Spec

-----------------------------------------------------------------------------
(* A file that is only appended to. *)

\* The chunks that have been read of a file.
ReadOf(text, p) == {text[k].id : k \in start + 1 .. p}

\* Only the writers give the name to a file.
LEMMA AppendedBefore ==
  ASSUME TypeOK, Next, Appended'
  PROVE  Appended /\ UNCHANGED <<name, start>> /\ (Monitor \/ Write)
<1>1. changes \in Nat /\ NoFile \notin Inodes
  BY ConstAssumption DEF TypeOK
<1>2. CASE Monitor
  BY <1>2 DEF Monitor, StatFile, Open, Changed, Fit, Read, HandleRead, Appended, fs, lines
<1>3. CASE Write
  BY <1>3 DEF Write, Appended, lines
<1>4. CASE Truncate \/ Remove \/ Replace
  BY <1>1, <1>4 DEF Truncate, Remove, Replace, Appended
<1>5. QED
  BY <1>2, <1>3, <1>4 DEF Next, Writers

\* Initially the log file has been read up to where the monitor starts.
LEMMA FaithfulInit == Init => Faithful
<1> SUFFICES ASSUME Init PROVE Faithful
  OBVIOUS
<1>1. handled = << >> /\ WholeText = << >> /\ pc = "stat" /\ pos = start /\ start \in Nat
  BY TypeInit, ConcatEmptySeq, EmptySeq DEF Init, WholeText, TypeOK
<1>2. TakenIds = {} /\ DOMAIN handled = {}
  BY <1>1 DEF TakenIds, HandledIds, Ids
<1>3. Ends(handled) = {} /\ start + 1 .. pos = {}
  BY <1>1 DEF Ends
<1>4. ASSUME Appended
      PROVE  fd = name /\ start <= pos /\ pos <= Len(content[fd])
  <2>1. PICK old :
          /\ content = [i \in Inodes |-> IF i = name THEN old ELSE << >>]
          /\ start = IF kind = "log" THEN Len(old) ELSE 0
    BY DEF Init
  <2>2. kind = "log" /\ name \in Inodes /\ fd = name
    BY <1>4 DEF Init, Appended
  <2>3. QED
    BY <1>1, <2>1, <2>2
<1>5. QED
  BY <1>1, <1>2, <1>3, <1>4 DEF Faithful

\* Every line that is handled ends with its only end of line.
LinesEnd == \A i \in DOMAIN handled : Ends(handled[i]) = {Len(handled[i])}

\* A line is cut at its first end of line.
LEMMA LinesEndNext == TypeOK /\ LinesEnd /\ [Next]_vars => LinesEnd'
<1> SUFFICES ASSUME TypeOK, LinesEnd, [Next]_vars PROVE LinesEnd'
  OBVIOUS
<1>1. CASE UNCHANGED handled
  BY <1>1 DEF LinesEnd, Ends
<1>2. ASSUME HandleRead, NEW line, NEW k, OneLine(line, k) PROVE LinesEnd'
  <2>1. PICK n : n = Len(handled)
    OBVIOUS
  <2>2. /\ n \in Nat /\ DOMAIN handled = 1 .. n /\ DOMAIN handled' = 1 .. n + 1
        /\ (\A i \in 1 .. n : handled'[i] = handled[i]) /\ handled'[n + 1] = line
    BY <1>2, <2>1, OneLineMore
  <2>3. /\ line \in Seq(Chunk) /\ Len(line) = k /\ k \in Nat \ {0}
        /\ \A i \in 1 .. k : line[i] = WholeText[i]
    BY <1>2, LineIs
  <2>4. Ends(line) = {k}
    <3>1. PICK text : text = WholeText /\ text \in Seq(Chunk)
      BY IdsAre
    <3>2. k \in 1 .. Len(text) /\ k \in Ends(text) /\ \A j \in Ends(text) : k <= j
      BY <1>2, <3>1 DEF OneLine
    <3>3. DOMAIN line = 1 .. k /\ \A i \in 1 .. k : i \in DOMAIN text /\ line[i] = text[i]
      BY <2>3, <3>1, <3>2
    <3>4. k \in Ends(line)
      BY <2>3, <3>2, <3>3 DEF Ends
    <3>5. \A j \in Ends(line) : j = k
      BY <2>3, <3>2, <3>3 DEF Ends
    <3>6. QED
      BY <3>4, <3>5
  <2>5. \A i \in 1 .. n + 1 : i \in 1 .. n \/ i = n + 1
    BY <2>2
  <2>6. \A i \in 1 .. n + 1 : Ends(handled'[i]) = {Len(handled'[i])}
    BY <2>2, <2>3, <2>4, <2>5 DEF LinesEnd
  <2>7. QED
    BY <2>2, <2>6 DEF LinesEnd, Ends
<1>3. CASE HandleRead
  BY <1>1, <1>2, <1>3, HandleIs DEF Dropped, Kept
<1>4. QED
  BY <1>1, <1>3 DEF Next, Monitor, Writers, StatFile, Open, Changed, Fit, Read,
                    Write, Truncate, Remove, Replace, vars, monitor, lines

\* What has been read of a file that is only appended to.
FileTaken ==
  /\ fd = name /\ (pc = "open" => sbuf.ino = name)
  /\ start <= pos /\ pos <= Len(content[fd])
  /\ ~too_long => TakenIds = ReadOf(content[fd], pos)

\* The monitor stays with the file, and misses nothing of it.
LEMMA FileTakenNext ==
  ASSUME Ordered, Next, Appended', FileTaken
  PROVE  FileTaken'
<1>1. /\ Appended /\ UNCHANGED <<name, start>> /\ TypeOK /\ TypeOK' /\ Newest
      /\ Monitor \/ Write
  BY AppendedBefore, TypeNext DEF Ordered
<1>2. /\ name \in Inodes /\ fd = name /\ fd # NoFd /\ name # NoFile /\ kind = "log"
      /\ content[fd] \in Seq(Chunk) /\ pos \in Nat /\ start \in Nat
  <2>1. name \in Inodes /\ fd = name /\ kind = "log" /\ name # NoFile
    BY <1>1 DEF Appended, FileTaken, TypeOK
  <2>2. content \in [Inodes -> Seq(Chunk)] /\ pos \in Nat /\ start \in 0 .. 1
    BY <1>1 DEF TypeOK
  <2>3. QED
    BY <2>1, <2>2, ConstAssumption
<1>3. CASE StatFile
  <2>1. /\ TakenIds' = TakenIds /\ UNCHANGED <<content, fd, pos, too_long>>
        /\ sbuf' = Stat(name)
    BY <1>3, SameText DEF StatFile, fs, lines
  <2>2. sbuf'.ino = name
    BY <1>1, <1>2, <2>1, StatIs
  <2>3. QED
    BY <1>1, <2>1, <2>2 DEF FileTaken, ReadOf
<1>4. CASE Open
  <2>1. ~Moved
    BY <1>2, <1>4 DEF Moved, FileTaken, Open
  <2>2. /\ TakenIds' = TakenIds /\ UNCHANGED <<content, fd, pos, too_long>> /\ pc' # "open"
    BY <1>4, <2>1, SameText DEF Open, ToRead, fs, lines
  <2>3. QED
    BY <1>1, <2>2 DEF FileTaken, ReadOf
<1>5. CASE Changed
  BY <1>2, <1>5 DEF Changed, Ordered
<1>6. CASE Fit
  <2>1. ~Shrunk
    BY <1>2 DEF Shrunk, FileTaken
  <2>2. /\ TakenIds' = TakenIds /\ UNCHANGED <<content, fd, pos, too_long>> /\ pc' # "open"
    BY <1>6, <2>1, SameText DEF Fit, fs, lines
  <2>3. QED
    BY <1>1, <2>2 DEF FileTaken, ReadOf
<1>7. CASE Read
  <2>1. UNCHANGED <<content, fd, too_long, handled, pending_buf>> /\ pc' # "open"
    BY <1>7 DEF Read, fs, lines
  <2>2. CASE UNCHANGED <<pos, work_buf>>
    <3>1. TakenIds' = TakenIds
      BY <2>1, <2>2, SameText
    <3>2. QED
      BY <1>1, <2>1, <2>2, <3>1 DEF FileTaken, ReadOf
  <2>3. ASSUME NEW piece, NEW n, ReadText(piece, n) PROVE FileTaken'
    <3>1. PICK text, p, s : text = content[fd] /\ p = pos /\ s = start
      OBVIOUS
    <3>2. /\ piece \in Seq(Chunk) /\ Len(piece) = n /\ n \in Nat \ {0}
          /\ pos' = p + n /\ p + n <= Len(text)
          /\ \A i \in 1 .. n : piece[i] = text[p + i]
          /\ TakenIds' = TakenIds \cup Ids(piece)
          /\ s \in Nat /\ p \in Nat /\ s <= p
      BY <1>2, <2>3, <3>1 DEF ReadText, FileTaken
    <3>3. s + 1 .. p + n = (s + 1 .. p) \cup (p + 1 .. p + n)
      BY <3>2
    <3>4. Ids(piece) = {text[k].id : k \in p + 1 .. p + n}
      <4>1. DOMAIN piece = 1 .. n
        BY <3>2
      <4>2. \A i \in 1 .. n : p + i \in p + 1 .. p + n
        BY <3>2
      <4>3. \A k \in p + 1 .. p + n : k - p \in 1 .. n /\ p + (k - p) = k
        BY <3>2
      <4>4. \A k \in p + 1 .. p + n : piece[k - p] = text[k]
        BY <3>2, <4>3
      <4>5. Ids(piece) \subseteq {text[k].id : k \in p + 1 .. p + n}
        BY <3>2, <4>1, <4>2 DEF Ids
      <4>6. {text[k].id : k \in p + 1 .. p + n} \subseteq Ids(piece)
        BY <4>1, <4>3, <4>4 DEF Ids
      <4>7. QED
        BY <4>5, <4>6
    <3>5. ASSUME ~too_long PROVE TakenIds' = ReadOf(text, p + n)
      <4>1. TakenIds = {text[k].id : k \in s + 1 .. p}
        BY <3>1, <3>5 DEF FileTaken, ReadOf
      <4>2. ReadOf(text, p + n) = {text[k].id : k \in s + 1 .. p + n}
        BY <3>1 DEF ReadOf
      <4>3. QED
        BY <3>2, <3>3, <3>4, <4>1, <4>2
    <3>6. s <= p + n
      BY <3>2
    <3>7. QED
      BY <1>1, <1>2, <2>1, <3>1, <3>2, <3>5, <3>6 DEF FileTaken, ReadOf
  <2>4. QED
    BY <1>1, <1>7, <2>2, <2>3, ReadTextIs DEF Ordered
<1>8. CASE HandleRead
  <2>1. UNCHANGED <<content, fd, pos>> /\ pc' # "open"
    BY <1>1, <1>8, HandleIs DEF HandleRead, fs
  <2>2. too_long' \/ (TakenIds' = TakenIds /\ too_long' = too_long)
    <3>1. CASE Kept
      <4>1. HandledIds' = HandledIds /\ Ids(WholeText)' = Ids(WholeText)
        BY <3>1 DEF Kept, HandledIds, Ids
      <4>2. QED
        BY <3>1, <4>1 DEF Kept, TakenIds
    <3>2. ASSUME NEW line, NEW k, OneLine(line, k)
          PROVE  TakenIds' = TakenIds /\ too_long' = too_long
      <4>1. PICK n : n = Len(handled)
        OBVIOUS
      <4>2. QED
        BY <1>1, <1>8, <3>2, <4>1, OneLineMore DEF OneLine
    <3>3. QED
      BY <1>1, <1>8, <3>1, <3>2, HandleIs DEF Dropped
  <2>3. QED
    BY <1>1, <2>1, <2>2 DEF FileTaken, ReadOf
<1>9. CASE Write
  <2>1. TakenIds' = TakenIds /\ UNCHANGED <<fd, pos, pc, sbuf, too_long>>
    BY <1>9, SameText DEF Write, monitor, lines
  <2>2. PICK text, longer, eol, chunk :
          /\ text = content[fd] /\ longer = Append(text, chunk) /\ eol \in BOOLEAN
          /\ content' = [content EXCEPT ![name] = longer]
          /\ chunk = [id |-> written + 1, eol |-> eol]
    BY <1>2, <1>9 DEF Write
  <2>3. content'[fd] = longer
    BY <1>1, <1>2, <2>2 DEF TypeOK
  <2>4. chunk \in Chunk
    <3>1. written + 1 \in 1 .. MaxChunks
      BY <1>1, <1>9, ConstAssumption DEF TypeOK, Write
    <3>2. QED
      BY <2>2, <3>1 DEF Chunk
  <2>5. PICK n, p : n = Len(text) /\ p = pos
    OBVIOUS
  <2>6. text \in Seq(Chunk) /\ n \in Nat /\ p \in Nat /\ p <= n
    BY <1>2, <2>2, <2>5 DEF FileTaken
  <2>7. Len(longer) = n + 1 /\ \A i \in 1 .. n : longer[i] = text[i]
    BY <2>2, <2>4, <2>5, <2>6, Longer
  <2>8. pos' <= Len(content'[fd'])
    BY <2>1, <2>3, <2>5, <2>6, <2>7
  <2>9. ReadOf(longer, p) = ReadOf(text, p)
    <3>1. \A k \in start + 1 .. p : k \in 1 .. n
      BY <1>2, <2>6
    <3>2. QED
      BY <2>7, <3>1 DEF ReadOf
  <2>10. ReadOf(content[fd], pos)' = ReadOf(longer, p)
    BY <1>1, <2>1, <2>3, <2>5 DEF ReadOf
  <2>11. QED
    BY <1>1, <2>1, <2>2, <2>5, <2>8, <2>9, <2>10 DEF FileTaken
<1>10. QED
  BY <1>1, <1>3, <1>4, <1>5, <1>6, <1>7, <1>8, <1>9 DEF Monitor

\* The lines are the lines of the file, by every step.
LEMMA FaithfulNext == Ordered /\ Faithful /\ [Next]_vars => Faithful'
<1> SUFFICES ASSUME Ordered, Faithful, [Next]_vars PROVE Faithful'
  OBVIOUS
<1>1. LinesEnd'
  BY LinesEndNext DEF Ordered, Faithful, LinesEnd
<1>2. Appended => FileTaken
  BY DEF Faithful, FileTaken, ReadOf
<1>3. ASSUME Appended' PROVE FileTaken'
  <2>1. CASE UNCHANGED vars
    <3>1. TakenIds' = TakenIds
      BY <2>1, SameText DEF vars, monitor, lines
    <3>2. Appended /\ FileTaken
      BY <1>2, <1>3, <2>1 DEF vars, fs, Appended
    <3>3. QED
      BY <2>1, <3>1, <3>2 DEF vars, fs, monitor, lines, FileTaken, ReadOf
  <2>2. CASE Next
    BY <1>2, <1>3, <2>2, AppendedBefore, FileTakenNext DEF Ordered
  <2>3. QED
    BY <2>1, <2>2
<1>4. QED
  BY <1>1, <1>3 DEF Faithful, LinesEnd, FileTaken, ReadOf

\* The lines of a log file that is only appended to are handled entirely, one by
\* one, and nothing but the text read of the file (handle_read of logmonitor.c).
THEOREM LinesOfFileCorrect == Spec => []LinesOfFile
<1>1. TypeOK /\ Faithful => LinesOfFile
  <2> SUFFICES ASSUME TypeOK, Faithful, kind = "log", Undisturbed PROVE LinesOfFile
    BY DEF LinesOfFile
  <2>1. TakenIds = {content[fd][k].id : k \in start + 1 .. pos}
    BY DEF Faithful, Appended, Undisturbed
  <2>2. PICK n : n = Len(handled)
    OBVIOUS
  <2>3. /\ n \in Nat /\ DOMAIN handled = 1 .. n /\ DOMAIN Lines = 1 .. n + 1
        /\ \A i \in 1 .. n : Lines[i] = handled[i]
        /\ Lines[n + 1] = WholeText
    BY <2>2, LinesAre
  <2>4. 1 .. n + 1 = (1 .. n) \cup {n + 1}
    BY <2>3
  <2>5. UNION {Ids(Lines[i]) : i \in 1 .. n + 1} = TakenIds
    <3>1. UNION {Ids(Lines[i]) : i \in 1 .. n} = HandledIds
      BY <2>3 DEF HandledIds
    <3>2. QED
      BY <2>3, <2>4, <3>1 DEF TakenIds
  <2>6. {c.id : c \in UNION {Range(Lines[i]) : i \in DOMAIN Lines}}
          = UNION {Ids(Lines[i]) : i \in DOMAIN Lines}
    BY DEF Range, Ids
  <2>7. QED
    BY <2>1, <2>3, <2>5, <2>6 DEF LinesOfFile, Faithful
<1>2. QED
  BY <1>1, OrderedInit, OrderedNext, FaithfulInit, FaithfulNext, PTL DEF Spec, Ordered

=============================================================================
