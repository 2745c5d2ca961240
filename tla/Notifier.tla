------------------------------ MODULE Notifier ------------------------------
(***************************************************************************)
(* What the log monitor (src/logmonitor/logmonitor.c) does with the lines  *)
(* it has read: the notifications of its configuration, their filters and  *)
(* programs, and the targets with their debouncing.                        *)
(*                                                                         *)
(* The monitor waits for filters and for the programs that make up the     *)
(* text; it does not wait for the programs that send, which are reaped     *)
(* once a round.  Time passes between any two steps, and it is read in     *)
(* whole seconds.  LogMonitor says which lines there are; here they are    *)
(* counted.                                                                *)
(***************************************************************************)
EXTENDS MonitorConfig

CONSTANTS
  Second,     \* ticks of the clock in a second
  MayFail,    \* fork may fail
  MaxLines,   \* bound: lines that appear
  MaxTime     \* bound: ticks

ASSUME ConstAssumption ==
  /\ Second \in Nat \ {0} /\ MayFail \in BOOLEAN
  /\ MaxLines \in Nat /\ MaxTime \in Nat

VARIABLES
  config,     \* what the configuration directory contains (never changes)
  monitored,  \* ctx->monitored_files
  pc,         \* where the monitor is
  mf,         \* the monitored file of this round
  nidx,       \* the notification the line is offered to
  tidx,       \* the target the notification is sent to
  programs,   \* programs of the notification that have still to be run
  helper,     \* the process the monitor waits for
  last_notif_sent, \* of each notification and target, in seconds; 0: never
  running,    \* programs that send
  zombies,    \* ... and those that have ended
  now,        \* the clock, in ticks
  unread,     \* lines of each monitored file that have not been handled
  appeared,   \* history: lines of each path
  asked,      \* history: lines of each path each notification was asked about
  said,       \* history: what its filter says of the line in hand
  answer,     \* history: what became of the line in hand, for each pair
  sent_at     \* history: when each pair was sent, in ticks

work    == <<pc, mf, nidx, tidx, programs, helper>>
senders == <<running, zombies>>
lines   == <<unread, appeared>>
history == <<asked, said, answer, sent_at>>
vars    == <<config, monitored, work, last_notif_sent, senders, now, lines, history>>

Notifs == DOMAIN config.notifications
Pairs == Notifs \X ToSet(TargetNames(config))
Files(n) == {f.path : f \in ToSet(config.notifications[n].source)}
TargetsOf(n) == TargetsListed(config, config.notifications[n])
Interval(name) == Debouncing(CHOOSE t \in ToSet(config.targets) : t.name = name)

Never == -1
Nothing == -2
Sent == -1

Init ==
  /\ config \in Configs
  /\ monitored = << >>
  /\ pc = "setup" /\ mf = 1 /\ nidx = 1 /\ tidx = 1 /\ programs = 0 /\ helper = "none"
  /\ last_notif_sent = [p \in Pairs |-> 0]
  /\ running = 0 /\ zombies = 0
  /\ now = Second
  /\ unread = << >>
  /\ appeared = [f \in Paths |-> 0]
  /\ asked = [n \in Notifs |-> [f \in Paths |-> 0]]
  /\ said = [n \in Notifs |-> "nothing"]
  /\ answer = [p \in Pairs |-> Nothing]
  /\ sent_at = [p \in Pairs |-> Never]

-----------------------------------------------------------------------------
\* create_context
Setup ==
  /\ pc = "setup"
  /\ IF Valid(config)
     THEN /\ monitored' = Monitored(config)
          /\ pc' = "loop"
     ELSE pc' = "failed" /\ UNCHANGED monitored
  /\ unread' = [i \in DOMAIN monitored' |-> 0]
  /\ UNCHANGED <<config, mf, nidx, tidx, programs, helper, last_notif_sent, senders, now,
                 appeared, history>>

-----------------------------------------------------------------------------
(* The loop of main. *)

NextFile ==
  /\ pc = "loop" /\ mf <= Len(monitored) /\ unread[mf] = 0
  /\ mf' = mf + 1
  /\ UNCHANGED <<config, monitored, pc, nidx, tidx, programs, helper, last_notif_sent, senders,
                 now, lines, history>>

\* (Mutant: children are not reaped.)
UnreapedAll == zombies
Unreaped == 0

\* All files have been visited: reap_children.
EndOfRound ==
  /\ pc = "loop" /\ mf > Len(monitored)
  /\ mf' = 1 /\ zombies' = Unreaped
  /\ UNCHANGED <<config, monitored, pc, nidx, tidx, programs, helper, last_notif_sent, running,
                 now, lines, history>>

\* handle_line is called.
TakeLine ==
  /\ pc = "loop" /\ mf <= Len(monitored) /\ unread[mf] > 0
  /\ unread' = [unread EXCEPT ![mf] = @ - 1]
  /\ pc' = "notify" /\ nidx' = 1
  /\ said' = [n \in Notifs |-> "nothing"]
  /\ answer' = [p \in Pairs |-> Nothing]
  /\ UNCHANGED <<config, monitored, mf, tidx, programs, helper, last_notif_sent, senders, now,
                 appeared, asked, sent_at>>

-----------------------------------------------------------------------------
(* handle_line. *)

\* (Mutant: one notification too many.)
AfterNotificationPast(n) == IF n <= Len(config.notifications) THEN "notify" ELSE "loop"
AfterNotification(n) == IF n < Len(config.notifications) THEN "notify" ELSE "loop"

\* This notification is done with.
NextNotification == pc' = AfterNotification(nidx) /\ nidx' = nidx + 1

Skip ==
  /\ pc = "notify" /\ monitored[mf].path \notin Files(nidx)
  /\ NextNotification
  /\ UNCHANGED <<config, monitored, mf, tidx, programs, helper, last_notif_sent, senders, now,
                 lines, history>>

\* The filter is run and waited for; if it cannot be forked, there is no match.
AskFilter ==
  /\ pc = "notify" /\ monitored[mf].path \in Files(nidx)
  /\ asked' = [asked EXCEPT ![nidx][monitored[mf].path] = @ + 1]
  /\ \/ pc' = "filter" /\ helper' = "running" /\ UNCHANGED nidx
     \/ MayFail /\ NextNotification /\ UNCHANGED helper
  /\ UNCHANGED <<config, monitored, mf, tidx, programs, last_notif_sent, senders, now, lines,
                 said, answer, sent_at>>

\* waitpid returns: a match if the filter exited, and with 0.
FilterDone ==
  /\ pc = "filter" /\ helper # "running"
  /\ helper' = "none"
  /\ IF helper = "yes"
     THEN /\ pc' = "text" /\ programs' = Programs(config.notifications[nidx])
          /\ UNCHANGED nidx
     ELSE NextNotification /\ UNCHANGED programs
  /\ UNCHANGED <<config, monitored, mf, tidx, last_notif_sent, senders, now, lines, history>>

\* The programs for title, description and level, one after the other.  What
\* fails is replaced by EXECERROR.
RunProgram ==
  /\ pc = "text" /\ programs > 0
  /\ programs' = programs - 1
  /\ \/ pc' = "program" /\ helper' = "running"
     \/ MayFail /\ UNCHANGED <<pc, helper>>
  /\ UNCHANGED <<config, monitored, mf, nidx, tidx, last_notif_sent, senders, now, lines, history>>

ProgramDone ==
  /\ pc = "program" /\ helper # "running"
  /\ helper' = "none" /\ pc' = "text"
  /\ UNCHANGED <<config, monitored, mf, nidx, tidx, programs, last_notif_sent, senders, now,
                 lines, history>>

TextReady ==
  /\ pc = "text" /\ programs = 0
  /\ pc' = "target" /\ tidx' = 1
  /\ UNCHANGED <<config, monitored, mf, nidx, programs, helper, last_notif_sent, senders, now,
                 lines, history>>

target == TargetsOf(nidx)[tidx]
pair == <<nidx, target>>

\* get_time
Seconds == now \div Second

\* Debouncing.  (Mutant: 0 means none.)
HeldIfPositive(p, d) ==
  last_notif_sent[p] > 0 /\ d > 0 /\ Seconds - last_notif_sent[p] < d
Held(p, d) ==
  last_notif_sent[p] > 0 /\ (d = 0 \/ (d > 0 /\ Seconds - last_notif_sent[p] < d))

NextTarget ==
  IF tidx < Len(TargetsOf(nidx)) THEN pc' = "target" /\ tidx' = tidx + 1 /\ UNCHANGED nidx
  ELSE NextNotification /\ UNCHANGED tidx

Hold ==
  /\ pc = "target" /\ Held(pair, Interval(target))
  /\ answer' = [answer EXCEPT ![pair] = IF @ = Nothing THEN now - sent_at[pair] ELSE @]
  /\ NextTarget
  /\ UNCHANGED <<config, monitored, mf, programs, helper, last_notif_sent, senders, now, lines,
                 asked, said, sent_at>>

\* The program that sends is forked and left alone; a failure goes unnoticed.
Send ==
  /\ pc = "target" /\ ~Held(pair, Interval(target))
  /\ pc' = "stamp"
  /\ \/ running' = running + 1
     \/ MayFail /\ UNCHANGED running
  /\ answer' = [answer EXCEPT ![pair] = Sent]
  /\ UNCHANGED <<config, monitored, mf, nidx, tidx, programs, helper, last_notif_sent, zombies,
                 now, lines, asked, said, sent_at>>

\* The time is taken again.
Stamp ==
  /\ pc = "stamp"
  /\ last_notif_sent' = [last_notif_sent EXCEPT ![pair] = Seconds]
  /\ sent_at' = [sent_at EXCEPT ![pair] = now]
  /\ NextTarget
  /\ UNCHANGED <<config, monitored, mf, programs, helper, senders, now, lines, asked, said, answer>>

-----------------------------------------------------------------------------
(* Everyone else. *)

NewLine(f) ==
  /\ pc \notin {"setup", "failed"}
  /\ \E i \in DOMAIN monitored : monitored[i].path = f
  /\ MapThenSumSet(LAMBDA g : appeared[g], Paths) < MaxLines
  /\ appeared' = [appeared EXCEPT ![f] = @ + 1]
  /\ unread' = [i \in DOMAIN unread |-> IF monitored[i].path = f THEN unread[i] + 1 ELSE unread[i]]
  /\ UNCHANGED <<config, monitored, work, last_notif_sent, senders, now, history>>

\* handle_sigchld leaves the child to waitpid.  (Mutant: it reaps it.)
OnSigchldReap(outcome) == "lost"
OnSigchld(outcome) == outcome

\* A filter or program exits with 0 or another code, or is killed.
HelperEnds ==
  /\ helper = "running"
  /\ \E outcome \in {"yes", "no", "killed"} :
       /\ helper' = OnSigchld(outcome)
       /\ said' = IF pc = "filter" THEN [said EXCEPT ![nidx] = outcome] ELSE said
  /\ UNCHANGED <<config, monitored, pc, mf, nidx, tidx, programs, last_notif_sent, senders, now,
                 lines, asked, answer, sent_at>>

SenderEnds ==
  /\ running > 0 /\ running' = running - 1 /\ zombies' = zombies + 1
  /\ UNCHANGED <<config, monitored, work, last_notif_sent, now, lines, history>>

Tick ==
  /\ now < MaxTime /\ now' = now + 1
  /\ UNCHANGED <<config, monitored, work, last_notif_sent, senders, lines, history>>

-----------------------------------------------------------------------------
Monitor == Setup \/ NextFile \/ EndOfRound \/ TakeLine \/ Skip \/ AskFilter \/ FilterDone
           \/ RunProgram \/ ProgramDone \/ TextReady \/ Hold \/ Send \/ Stamp

Next == Monitor \/ (\E f \in Paths : NewLine(f)) \/ HelperEnds \/ SenderEnds \/ Tick

\* The monitor is scheduled; what it waits for ends.
Spec == Init /\ [][Next]_vars
FairSpec == Spec /\ WF_vars(Monitor) /\ WF_vars(HelperEnds)

-----------------------------------------------------------------------------
(* Properties. *)

TypeOK ==
  /\ config \in Configs
  /\ monitored \in Seq([path : Paths, status : BOOLEAN])
  /\ pc \in {"setup", "failed", "loop", "notify", "filter", "text", "program", "target", "stamp"}
  /\ mf \in 1 .. Len(monitored) + 1 /\ nidx \in 1 .. Len(config.notifications) + 1
  /\ pc \in {"notify", "filter", "text", "program", "target", "stamp"} =>
       mf \in DOMAIN monitored /\ nidx \in Notifs
  /\ pc \in {"target", "stamp"} => tidx \in DOMAIN TargetsOf(nidx)
  /\ programs \in 0 .. 3
  /\ helper \in {"none", "running", "yes", "no", "killed"}
  /\ helper # "none" <=> pc \in {"filter", "program"}
  /\ last_notif_sent \in [Pairs -> Nat]
  /\ running \in Nat /\ zombies \in Nat /\ now \in Nat
  /\ unread \in [DOMAIN monitored -> Nat] /\ appeared \in [Paths -> 0 .. MaxLines]
  /\ asked \in [Notifs -> [Paths -> Nat]] /\ said \in [Notifs -> {"nothing", "yes", "no", "killed"}]
  /\ answer \in [Pairs -> Int] /\ sent_at \in [Pairs -> Int]

\* Lines of a monitored file that n has still to be asked about.
InHand(n, i) ==
  /\ pc \notin {"setup", "failed", "loop"} /\ mf = i
  /\ nidx < n \/ (nidx = n /\ pc = "notify")
Waiting(n, i) == unread[i] + (IF InHand(n, i) THEN 1 ELSE 0)

\* Every line of the files of a notification is shown to its filter exactly
\* once, whoever else lists the file and however often.
OncePerLine ==
  pc \notin {"setup", "failed"} =>
    \A n \in Notifs : \A f \in Files(n) :
      \E i \in DOMAIN monitored :
        monitored[i].path = f /\ asked[n][f] + Waiting(n, i) = appeared[f]

\* The same notification is not sent again to a target before its interval, up
\* to the second the clock is cut to, has passed; with interval 0, never again.
Debounced ==
  [][pc = "target" /\ pc' = "stamp" /\ sent_at[pair] # Never =>
       LET d == Interval(target)
       IN  d < 0 \/ (d > 0 /\ now - sent_at[pair] > (d - 1) * Second)]_vars

\* When a line has been handled, every notification whose filter matched was
\* sent to each of its targets, or held back because this notification, and no
\* other, was sent to that target less than its interval ago.
MatchAnswered ==
  pc = "loop" =>
    \A n \in Notifs : said[n] = "yes" =>
      \A t \in ToSet(TargetsOf(n)) :
        LET a == answer[<<n, t>>] IN
        LET d == Interval(t) IN
        a = Sent \/ (a >= 0 /\ sent_at[<<n, t>>] # Never /\ (d = 0 \/ a < d * Second))

\* What sends a notification does not stay a zombie.
SendersReaped == zombies > 0 ~> zombies = 0
=============================================================================
