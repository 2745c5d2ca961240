------------------------------ MODULE LogMonitor ------------------------------
(***************************************************************************)
(* The log monitor (src/logmonitor/logmonitor.c) and one file it monitors. *)
(*                                                                         *)
(* The program polls: it looks up the file by its name, opens it again if  *)
(* the name leads to another file, and hands every complete line it reads  *)
(* to handle_line.  Meanwhile the file is appended to, truncated, removed  *)
(* and replaced.  Every label of `pc' is a system call, and the file may   *)
(* change before each one.                                                 *)
(*                                                                         *)
(* Text is a sequence of chunks, numbered in the order they were written;  *)
(* a chunk is what a read returns entirely or not at all.  Several files   *)
(* share nothing but the loop that visits them, so one is modelled.        *)
(***************************************************************************)
EXTENDS Integers, Sequences, FiniteSets, Functions

CONSTANTS
  Inodes,      \* inode numbers (finite: they are reused)
  NoFile,      \* nothing has the name of the monitored file
  NoFd,        \* the fd -1
  BufSize,     \* BUFSIZ, in chunks
  MaxLine,     \* the longest line, in chunks (500 KB)
  Kinds,       \* kinds of file that are monitored: subset of {"log", "status"}
  MaxSeconds,  \* bound: seconds that pass
  MaxChunks,   \* bound: chunks written
  MaxChanges   \* bound: truncations, removals and replacements

ASSUME ConstAssumption ==
  /\ NoFile \notin Inodes /\ NoFd \notin Inodes
  /\ BufSize \in Nat \ {0} /\ MaxLine \in Nat \ {0}
  /\ Kinds \subseteq {"log", "status"}
  /\ MaxSeconds \in Nat /\ MaxChunks \in Nat /\ MaxChanges \in Nat

VARIABLES
  kind,        \* is_status (never changes)
  name,        \* file system: the inode the path leads to
  content,     \* file system: what each inode contains
  mtime,       \* file system: modification time of each inode, in seconds
  now,         \* file system: the latest modification time given out
  written,     \* chunks written so far
  changes,     \* truncations, removals and replacements so far
  pc,          \* where the monitor is in its loop
  sbuf,        \* result of stat(path)
  fd,          \* inode of the open file
  pos,         \* its file offset
  last_stat,   \* of the status file, when it was read last
  pending_buf, \* text of a line whose end has not been read
  work_buf,    \* text handle_read has still to look at
  handled,     \* history: the lines given to handle_line
  start,       \* history: chunks skipped when the log file was first opened
  too_long,    \* history: a line was dropped because of its length
  overlooked   \* history: the status file was rewritten since it was read, to
               \*   the same size and within the same second

fs      == <<name, content, mtime, now, written, changes>>
monitor == <<pc, sbuf, fd, pos, last_stat, pending_buf, work_buf>>
lines   == <<handled, start, too_long>>
vars    == <<kind, fs, monitor, lines, overlooked>>

Chunk == [id : 1 .. MaxChunks, eol : BOOLEAN]

Stat(i) == IF i = NoFile THEN [ino |-> NoFile, size |-> 0, mtime |-> 0]
           ELSE [ino |-> i, size |-> Len(content[i]), mtime |-> mtime[i]]

\* An inode is free when it has no name and is not open.
FreeInodes == Inodes \ {name, fd}

Init ==
  /\ kind \in Kinds
  /\ name \in Inodes \cup {NoFile}
  /\ \E eol \in BOOLEAN, empty \in BOOLEAN :
       LET old == IF empty \/ name = NoFile \/ MaxChunks = 0 THEN << >>
                  ELSE <<[id |-> 1, eol |-> eol]>>
       IN  /\ content = [i \in Inodes |-> IF i = name THEN old ELSE << >>]
           /\ written = Len(old)
           /\ start = IF kind = "log" THEN Len(old) ELSE 0
  /\ mtime = [i \in Inodes |-> 0] /\ now = 0 /\ changes = 0
  /\ pc = "stat" /\ sbuf = Stat(NoFile)
  /\ fd = (IF name = NoFile THEN NoFd ELSE name) /\ pos = start
  /\ last_stat = Stat(NoFile)
  /\ pending_buf = << >> /\ work_buf = << >>
  /\ handled = << >> /\ too_long = FALSE /\ overlooked = FALSE

-----------------------------------------------------------------------------
(* The monitor: one round of the loop over the monitored files. *)

\* A status file is only looked at when its period is over; until then the
\* monitor stays here.
StatFile ==
  /\ pc = "stat" /\ pc' = "open"
  /\ sbuf' = Stat(name)
  /\ UNCHANGED <<kind, fs, fd, pos, last_stat, pending_buf, work_buf, lines, overlooked>>

\* (Mutant: a file that was replaced is not noticed as long as it can be read.)
MovedIfGone == fd = NoFd \/ sbuf.ino = NoFile
Moved == fd = NoFd \/ sbuf.ino = NoFile \/ sbuf.ino # fd

ToRead == IF kind = "status" THEN "changed" ELSE "fit"
AfterOpen == IF name = NoFile THEN "stat" ELSE ToRead

\* The file is opened again, from its beginning, when the name led elsewhere.
\* What it leads to by now may be something else again.
Open ==
  /\ pc = "open"
  /\ IF Moved
     THEN /\ fd' = (IF name = NoFile THEN NoFd ELSE name) /\ pos' = 0
          /\ pc' = AfterOpen
     ELSE pc' = ToRead /\ UNCHANGED <<fd, pos>>
  /\ UNCHANGED <<kind, fs, sbuf, last_stat, pending_buf, work_buf, lines, overlooked>>

\* Size, modification time - whole seconds of it - and inode are compared.
Same == sbuf = last_stat

\* A status file is read again, from its beginning, if it has changed.
Changed ==
  /\ pc = "changed"
  /\ IF sbuf.ino # NoFile /\ Same
     THEN pc' = "stat" /\ UNCHANGED <<last_stat, pos, overlooked>>
     ELSE /\ pc' = "fit" /\ pos' = 0 /\ overlooked' = FALSE
          /\ last_stat' = IF sbuf.ino # NoFile THEN sbuf ELSE last_stat
  /\ UNCHANGED <<kind, fs, sbuf, fd, pending_buf, work_buf, lines>>

\* (Mutant: off by one.)
ShrunkOrRead == Len(content[fd]) <= pos
Shrunk == Len(content[fd]) < pos

\* The file has become shorter than what was read of it: start again.
Fit ==
  /\ pc = "fit" /\ pc' = "read"
  /\ pos' = IF Shrunk THEN 0 ELSE pos
  /\ UNCHANGED <<kind, fs, sbuf, fd, last_stat, pending_buf, work_buf, lines, overlooked>>

\* Reads until the buffer is full or the end of the file is reached.
Read ==
  /\ pc = "read"
  /\ LET left == Len(content[fd]) - pos
         n == IF left < BufSize THEN left ELSE BufSize
     IN  IF n <= 0
         THEN pc' = "stat" /\ UNCHANGED <<pos, work_buf>>
         ELSE /\ work_buf' = SubSeq(content[fd], pos + 1, pos + n)
              /\ pos' = pos + n /\ pc' = "lines"
  /\ UNCHANGED <<kind, fs, sbuf, fd, last_stat, pending_buf, lines, overlooked>>

\* The text up to its first end of line, and what follows.
Ends(text) == {k \in DOMAIN text : text[k].eol}
FirstEnd(text) == CHOOSE k \in Ends(text) : \A j \in Ends(text) : k <= j

\* (Mutant: what was pending is not put before what has been read.)
WholeTextUnread == work_buf
WholeText == pending_buf \o work_buf

\* handle_read, up to the next line: a line is given to handle_line, what is
\* left over is kept until its end is read.  A line that grows too long is
\* dropped together with all the text just read.
HandleRead ==
  /\ pc = "lines"
  /\ IF pending_buf # << >> /\ Len(WholeText) > MaxLine
     THEN /\ pending_buf' = << >> /\ work_buf' = << >> /\ pc' = "fit"
          /\ too_long' = TRUE /\ UNCHANGED handled
     ELSE IF Ends(WholeText) = {}
     THEN /\ pending_buf' = WholeText /\ work_buf' = << >> /\ pc' = "fit"
          /\ UNCHANGED <<handled, too_long>>
     ELSE LET k == FirstEnd(WholeText) IN
          /\ handled' = Append(handled, SubSeq(WholeText, 1, k))
          /\ pending_buf' = << >>
          /\ work_buf' = SubSeq(WholeText, k + 1, Len(WholeText))
          /\ pc' = IF k = Len(WholeText) THEN "fit" ELSE "lines"
          /\ UNCHANGED too_long
  /\ UNCHANGED <<kind, fs, sbuf, fd, pos, last_stat, start, overlooked>>

-----------------------------------------------------------------------------
(* The programs that write the file. *)

\* A change falls into the same second as the one before, or into a later one.
NextTime == {t \in {now, now + 1} : t <= MaxSeconds}

\* Whether the file looks, after a change, as it did when it was read last.
Overlook == overlooked' = (overlooked \/ (name' # NoFile /\ Stat(name)' = last_stat))

\* A chunk is appended to the file.
Write ==
  /\ name # NoFile /\ written < MaxChunks
  /\ written' = written + 1
  /\ \E eol \in BOOLEAN, t \in NextTime :
       /\ content' = [content EXCEPT ![name] =
                        Append(@, [id |-> written + 1, eol |-> eol])]
       /\ mtime' = [mtime EXCEPT ![name] = t] /\ now' = t
  /\ UNCHANGED <<kind, name, changes, monitor, lines>>
  /\ Overlook

\* The file is emptied, to be written from its beginning.
Truncate ==
  /\ name # NoFile /\ changes < MaxChanges
  /\ changes' = changes + 1
  /\ content' = [content EXCEPT ![name] = << >>]
  /\ \E t \in NextTime : mtime' = [mtime EXCEPT ![name] = t] /\ now' = t
  /\ UNCHANGED <<kind, name, written, monitor, lines>>
  /\ Overlook

\* The file is removed or renamed, and nobody writes to it any more.
Remove ==
  /\ name # NoFile /\ name' = NoFile
  /\ UNCHANGED <<kind, content, mtime, now, written, changes, monitor, lines, overlooked>>

\* A new file, empty or not, takes the name.
Replace ==
  /\ changes < MaxChanges /\ changes' = changes + 1
  /\ \E i \in FreeInodes, t \in NextTime, eol \in BOOLEAN, empty \in BOOLEAN :
       LET new == IF empty \/ written = MaxChunks THEN << >>
                  ELSE <<[id |-> written + 1, eol |-> eol]>>
       IN  /\ name' = i
           /\ content' = [content EXCEPT ![i] = new]
           /\ mtime' = [mtime EXCEPT ![i] = t] /\ now' = t
           /\ written' = written + Len(new)
  /\ UNCHANGED <<kind, monitor, lines>>
  /\ Overlook

-----------------------------------------------------------------------------
Monitor == StatFile \/ Open \/ Changed \/ Fit \/ Read \/ HandleRead
Writers == Write \/ Truncate \/ Remove \/ Replace
Next == Monitor \/ Writers

\* The monitor is scheduled and its periods pass.
Spec == Init /\ [][Next]_vars
FairSpec == Spec /\ WF_vars(Monitor)

-----------------------------------------------------------------------------
(* Properties. *)

TypeOK ==
  /\ kind \in Kinds
  /\ name \in Inodes \cup {NoFile}
  /\ content \in [Inodes -> Seq(Chunk)]
  /\ mtime \in [Inodes -> Nat] /\ now \in Nat
  /\ written \in 0 .. MaxChunks /\ changes \in 0 .. MaxChanges
  /\ pc \in {"stat", "open", "changed", "fit", "read", "lines"}
  /\ {sbuf, last_stat} \subseteq [ino : Inodes \cup {NoFile}, size : Nat, mtime : Nat]
  /\ fd \in Inodes \cup {NoFd} /\ pos \in Nat
  /\ pc \in {"changed", "fit", "read", "lines"} => fd # NoFd
  /\ pending_buf \in Seq(Chunk) /\ work_buf \in Seq(Chunk)
  /\ handled \in Seq(Seq(Chunk))
  /\ start \in 0 .. 1 /\ too_long \in BOOLEAN /\ overlooked \in BOOLEAN

\* All text that was read, line by line, the last one not complete.
Lines == Append(handled, WholeText)
Before(a, b) == a.id < b.id

\* No text of a log file is handled twice, nor out of order: not after a
\* rotation, not after a truncation, and not when an inode number is reused.
InOrderOnce ==
  kind = "log" =>
    \A i, j \in DOMAIN Lines :
      \A a \in DOMAIN Lines[i], b \in DOMAIN Lines[j] :
        (i < j \/ (i = j /\ a < b)) => Before(Lines[i][a], Lines[j][b])

Undisturbed == changes = 0 /\ name # NoFile /\ ~too_long

\* As long as a log file is only appended to, the lines handled are its lines:
\* each one entirely and nothing but that line, none left out up to the place
\* that has been read.  So it does not matter how the text was cut by write
\* and read.
LinesOfFile ==
  kind = "log" /\ Undisturbed /\ fd # NoFd =>
    /\ \A i \in DOMAIN handled :
         Ends(handled[i]) = {Len(handled[i])}
    /\ {c.id : c \in UNION {Range(Lines[i]) : i \in DOMAIN Lines}}
         = {content[fd][k].id : k \in start + 1 .. pos}

IsHandled(id) == \E i \in DOMAIN handled : \E k \in DOMAIN handled[i] : handled[i][k].id = id

\* The line that ends with a chunk stands in the monitored file: anywhere in a
\* log file that is only appended to, at the end of a status file.
Stands(id) ==
  /\ name # NoFile
  /\ \E k \in DOMAIN content[name] :
       /\ content[name][k].id = id /\ content[name][k].eol
       /\ IF kind = "log" THEN Undisturbed /\ k > start ELSE k = Len(content[name])

\* A line that stays in the file is handled sooner or later, also if the file
\* changes between two system calls of the monitor.  Two cases are excepted: a
\* line that is dropped because the text before it has no end, and a status
\* file that is rewritten, after it was read, to the same size within the same
\* second: the monitor compares st_mtime and takes it for the file it has read.
StandingHandled ==
  \A id \in 1 .. MaxChunks :
    Stands(id) ~> IsHandled(id) \/ ~Stands(id) \/ too_long \/ overlooked
=============================================================================
