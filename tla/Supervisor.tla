----------------------------- MODULE Supervisor -----------------------------
(***************************************************************************)
(* What the process supervisor promises to the rest of the container, with *)
(* no process table, no signal and no loop: in which phase it is, which    *)
(* services are up, and whether it was asked to stop.  Cinit implements it.*)
(***************************************************************************)
EXTENDS FiniteSets

CONSTANTS
  Services,
  Nobody      \* stands for no service

VARIABLES
  phase,      \* "starting", "running", "stopping" or "exited"
  chosen,     \* bring-up: the service that is to start now, or Nobody
  up,         \* the services that have a process
  stop_asked  \* a shutdown was requested

vars == <<phase, chosen, up, stop_asked>>

Init == phase = "starting" /\ chosen = Nobody /\ up = {} /\ stop_asked = FALSE

\* Bring-up takes one service at a time, and none after the request to stop.
Choose(s) ==
  /\ phase = "starting" /\ chosen = Nobody /\ ~stop_asked
  /\ chosen' = s
  /\ UNCHANGED <<phase, up, stop_asked>>

\* A service starts once at a time, never after the supervisor has begun to
\* stop, and during bring-up only if it was chosen.  A request that comes after
\* the choice does not hold it back.
Start(s) ==
  /\ s \notin up
  /\ phase = "running" \/ (phase = "starting" /\ chosen = s)
  /\ up' = up \cup {s} /\ chosen' = Nobody
  /\ UNCHANGED <<phase, stop_asked>>

\* The chosen service could not be started.
GiveUp ==
  /\ chosen # Nobody /\ chosen' = Nobody
  /\ UNCHANGED <<phase, up, stop_asked>>

End(s) ==
  /\ phase # "exited" /\ s \in up
  /\ up' = up \ {s}
  /\ UNCHANGED <<phase, chosen, stop_asked>>

AskStop ==
  /\ phase # "exited"
  /\ stop_asked' = TRUE
  /\ UNCHANGED <<phase, chosen, up>>

\* The end of bring-up; a failed one asks for the stop.
BroughtUp ==
  /\ phase = "starting" /\ chosen = Nobody
  /\ phase' = "running"
  /\ stop_asked' \in {stop_asked, TRUE}
  /\ UNCHANGED <<chosen, up>>

\* Stopping needs a reason: a request, or nothing left to supervise.
Stop ==
  /\ phase = "running" /\ (stop_asked \/ up = {})
  /\ phase' = "stopping" /\ stop_asked' = TRUE
  /\ UNCHANGED <<chosen, up>>

\* The supervisor goes last.
Exit ==
  /\ phase = "stopping" /\ up = {}
  /\ phase' = "exited"
  /\ UNCHANGED <<chosen, up, stop_asked>>

Next == \/ \E s \in Services : Choose(s) \/ Start(s) \/ End(s)
        \/ GiveUp \/ AskStop \/ BroughtUp \/ Stop \/ Exit

Spec == Init /\ [][Next]_vars
=============================================================================
