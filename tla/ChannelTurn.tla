----------------------------- MODULE ChannelTurn -----------------------------
(***************************************************************************)
(* Turns that arrive from a chat channel (ChannelTurnCoordinator).         *)
(*                                                                         *)
(* Everything runs on one event loop: a step is what a task or a callback  *)
(* does between two awaits.  A turn has two tasks, one of the coordinator, *)
(* which waits for the other, that of the runtime, no longer than a        *)
(* deadline; the runtime's goes on after it.  When the runtime's ends, a   *)
(* callback frees the session, and only some steps later does the          *)
(* coordinator's hear of it.  Auxiliary tasks carry cancellations and      *)
(* steers to the runtime.                                                  *)
(*                                                                         *)
(* The event loop is first in, first out; here what is ready runs in any   *)
(* order.                                                                  *)
(***************************************************************************)
EXTENDS Naturals, FiniteSets

CONSTANTS
  Sessions,
  NoTurn,
  MaxActive,        \* max_active_sessions
  MaxAuxiliary      \* max_auxiliary_tasks

CONSTANTS           \* bounds of the model, not of the code
  MaxTurns,         \* turns of a session
  MaxStops, MaxSteers

ASSUME BoundsAreNumbers ==
  /\ MaxActive \in Nat \ {0} /\ MaxAuxiliary \in Nat \ {0}
  /\ MaxTurns \in Nat /\ MaxStops \in Nat /\ MaxSteers \in Nat

VARIABLES
  active,           \* the turn that holds each session (_active)
  requested,        \* sessions a stop is asked for (_cancel_requested)
  task,             \* the coordinator's task of each turn
  runtime,          \* the runtime's task of each turn (_runtime_tasks)
  auxiliary,        \* tasks that carry a call to the runtime (_auxiliary)
  closing,          \* how far shutdown is
  owned, doomed     \* what shutdown joins: turns, and auxiliary tasks

VARIABLES           \* history
  stops, steers,    \* how many there were
  asked             \* turns the runtime was asked to cancel

vars == <<active, requested, task, runtime, auxiliary, closing, owned, doomed,
          stops, steers, asked>>

\* Ids are not used twice: the adapter turns a message with a known id away.
Turns == [session : Sessions, no : 1..MaxTurns]

ASSUME NoTurnIsNone == NoTurn \notin Turns

\* A result or an error that is not a TimeoutError; a TimeoutError.
Outcome == {"done", "timeout"}

\* A task that is created, waits, knows an outcome, has reported one of them, or
\* was cancelled.
Unfinished == {"ready", "waiting"} \cup Outcome
TaskState  == {"new", "returned", "expired", "cancelled"} \cup Unfinished

Lives(t) == runtime[t] \in {"running"} \cup Outcome

Calls == [kind : {"stop", "deadline", "shutdown", "steer"}, target : Turns,
          by : Turns, no : 0..(MaxStops + MaxSteers), sent : BOOLEAN]

Call(kind, target, by, no) ==
  [kind |-> kind, target |-> target, by |-> by, no |-> no, sent |-> FALSE]

Held == {s \in Sessions : active[s] # NoTurn}

Owns(t) == active[t.session] = t

Freed(t) ==
  IF Owns(t) THEN [active EXCEPT ![t.session] = NoTurn] ELSE active

-----------------------------------------------------------------------------
Init ==
  /\ active = [s \in Sessions |-> NoTurn] /\ requested = {}
  /\ task = [t \in Turns |-> "new"] /\ runtime = [t \in Turns |-> "none"]
  /\ auxiliary = {} /\ closing = "open" /\ owned = {} /\ doomed = {}
  /\ stops = 0 /\ steers = 0 /\ asked = {}

joins == <<closing, owned, doomed>>
told  == <<stops, steers, asked>>

HasRoom == Cardinality(Held) < MaxActive

IsOpen == closing = "open"

\* submit, where nobody holds the session; turns are numbered as they come.
Start(t) ==
  /\ IsOpen /\ HasRoom
  /\ active[t.session] = NoTurn
  /\ \A u \in Turns :
       u.session = t.session => (task[u] = "new" <=> u.no >= t.no)
  /\ task' = [task EXCEPT ![t] = "ready"]
  /\ active' = [active EXCEPT ![t.session] = t]
  /\ UNCHANGED <<requested, runtime, auxiliary, joins, told>>

\* Mutant: one task more.
PlaceForOneMore == Cardinality(auxiliary) <= MaxAuxiliary

HasPlace == Cardinality(auxiliary) < MaxAuxiliary

\* submit, where somebody does.
Steer(s) ==
  /\ IsOpen /\ steers < MaxSteers
  /\ s \in Held /\ HasPlace
  /\ steers' = steers + 1
  /\ auxiliary' = auxiliary \cup {Call("steer", active[s], active[s], steers')}
  /\ UNCHANGED <<active, requested, task, runtime, joins, stops, asked>>

\* stop; one that is asked for already is merged.
Stop(s) ==
  /\ IsOpen /\ stops < MaxStops
  /\ s \in Held \ requested
  /\ stops' = stops + 1
  /\ requested' = requested \cup {s}
  /\ auxiliary' = auxiliary \cup {Call("stop", active[s], active[s], stops')}
  /\ UNCHANGED <<active, task, runtime, joins, steers, asked>>

-----------------------------------------------------------------------------
(* _run_turn *)

\* Shutdown has cancelled the task: it does nothing more but end.
Joined(t) == closing = "joining" /\ t \in owned

Begin(t) ==
  /\ task[t] = "ready" /\ ~Joined(t)
  /\ task' = [task EXCEPT ![t] = "waiting"]
  /\ runtime' = [runtime EXCEPT ![t] = "running"]
  /\ UNCHANGED <<active, requested, auxiliary, joins, told>>

\* The runtime's task ends, by itself or because it was asked to.
RuntimeEnds(t) ==
  /\ runtime[t] = "running"
  /\ \E how \in Outcome : runtime' = [runtime EXCEPT ![t] = how]
  /\ UNCHANGED <<active, requested, task, auxiliary, joins, told>>

\* Mutant: that is left to the coordinator's task.
LeftHeld(t) == active

FreedByCallback(t) == Freed(t)

\* _runtime_finished, and the outcome is passed on to who waits for it.
RuntimeFinished(t) ==
  /\ runtime[t] \in Outcome
  /\ runtime' = [runtime EXCEPT ![t] = "over"]
  /\ active' = FreedByCallback(t)
  /\ task' = [task EXCEPT ![t] = IF @ = "waiting" THEN runtime[t] ELSE @]
  /\ UNCHANGED <<requested, auxiliary, joins, told>>

\* Mutant: it is waited for without end.
Endless(t) == FALSE

IsDue(t) == task[t] = "waiting"

\* The deadline passes; the task will hear of it.
Deadline(t) ==
  /\ IsDue(t) /\ ~Joined(t)
  /\ task' = [task EXCEPT ![t] = "timeout"]
  /\ UNCHANGED <<active, requested, runtime, auxiliary, joins, told>>

Ends(t, as) ==
  /\ task' = [task EXCEPT ![t] = as]
  /\ requested' = requested \ {t.session}

Returns(t) ==
  /\ task[t] = "done" /\ ~Joined(t)
  /\ Ends(t, "returned")
  /\ active' = Freed(t)
  /\ UNCHANGED <<runtime, auxiliary, joins, stops, steers, asked>>

\* Mutant: the session is given up with the runtime's task still going.
GivenUp(t) == Freed(t)

KeptFor(t) == active

\* A TimeoutError, of the deadline or of the runtime itself.
TimesOut(t) ==
  /\ task[t] = "timeout" /\ ~Joined(t)
  /\ Ends(t, "expired")
  /\ auxiliary' = auxiliary \cup
       {Call("deadline", c, t, 0) : c \in {active[t.session]} \ {NoTurn}}
  /\ active' = KeptFor(t)
  /\ UNCHANGED <<runtime, joins, stops, steers, asked>>

-----------------------------------------------------------------------------
(* _submit_cancel and _submit_steer *)

Cancels(c) == c.kind # "steer"

\* Shutdown has cancelled it.
IsDoomed(c) == closing = "joining" /\ c \in doomed

Send(c) ==
  /\ c \in auxiliary /\ ~c.sent /\ ~IsDoomed(c)
  /\ auxiliary' = (auxiliary \ {c}) \cup {[c EXCEPT !.sent = TRUE]}
  /\ asked' = IF Cancels(c) THEN asked \cup {c.target} ELSE asked
  /\ UNCHANGED <<active, requested, task, runtime, joins, stops, steers>>

Finally(c) ==
  /\ auxiliary' = auxiliary \ {c}
  /\ requested' = IF Cancels(c) /\ c.sent THEN requested \ {c.target.session}
                  ELSE requested

\* An answer, an error or operation_timeout_seconds.
Answered(c) ==
  /\ c \in auxiliary /\ c.sent /\ ~IsDoomed(c)
  /\ Finally(c)
  /\ UNCHANGED <<active, task, runtime, joins, told>>

-----------------------------------------------------------------------------
(* shutdown *)

\* Mutant: turns that have not begun are not seen.
OwnedAndBegun == {t \in Turns : Owns(t) /\ Lives(t)}

OwnedNow == {t \in Turns : Owns(t)}

Shutdown ==
  /\ IsOpen
  /\ closing' = "asking"
  /\ owned' = OwnedNow
  /\ auxiliary' = auxiliary \cup {Call("shutdown", t, t, 0) : t \in owned'}
  /\ UNCHANGED <<active, requested, task, runtime, doomed, told>>

Asking == {c \in auxiliary : c.kind = "shutdown"}

\* All have been sent, and answered unless shutdown_timeout_seconds are over.
Join ==
  /\ closing = "asking"
  /\ \A c \in Asking : c.sent
  /\ closing' = "joining"
  /\ auxiliary' = auxiliary \ Asking
  /\ requested' = requested \ {c.target.session : c \in Asking}
  /\ doomed' = auxiliary'
  /\ UNCHANGED <<active, task, runtime, owned, told>>

\* A task that has not begun has no finally block to run.
TurnDies(t) ==
  /\ Joined(t) /\ task[t] \in Unfinished
  /\ task' = [task EXCEPT ![t] = "cancelled"]
  /\ IF task[t] = "ready" THEN UNCHANGED <<active, requested>>
     ELSE /\ active' = IF runtime[t] = "running" THEN active ELSE Freed(t)
          /\ requested' = requested \ {t.session}
  /\ UNCHANGED <<runtime, auxiliary, joins, told>>

CallDies(c) ==
  /\ c \in auxiliary /\ IsDoomed(c)
  /\ Finally(c)
  /\ UNCHANGED <<active, task, runtime, joins, told>>

\* What is left of the runtime is handed over, after another timeout.
Close ==
  /\ closing = "joining"
  /\ \A t \in owned : task[t] \notin Unfinished
  /\ doomed \cap auxiliary = {}
  /\ closing' = "closed"
  /\ active' = [s \in Sessions |-> NoTurn]
  /\ UNCHANGED <<requested, task, runtime, auxiliary, owned, doomed, told>>

-----------------------------------------------------------------------------
Next ==
  \/ \E t \in Turns : \/ Start(t) \/ Begin(t) \/ Deadline(t)
                      \/ RuntimeEnds(t) \/ RuntimeFinished(t)
                      \/ Returns(t) \/ TimesOut(t) \/ TurnDies(t)
  \/ \E s \in Sessions : Steer(s) \/ Stop(s)
  \/ \E c \in auxiliary : Send(c) \/ Answered(c) \/ CallDies(c)
  \/ Shutdown \/ Join \/ Close

Spec == Init /\ [][Next]_vars

\* The loop runs what is ready and its timers go off.  Nothing is assumed of
\* the runtime.
FairSpec ==
  /\ Spec
  /\ \A t \in Turns : /\ WF_vars(Begin(t)) /\ WF_vars(Deadline(t))
                      /\ WF_vars(RuntimeFinished(t))
                      /\ WF_vars(Returns(t)) /\ WF_vars(TimesOut(t))

-----------------------------------------------------------------------------
\* The types; sessions are held by their own turns, and steers under way are as
\* many as there are places.
TypeOK ==
  /\ active \in [Sessions -> Turns \cup {NoTurn}]
  /\ \A s \in Held : active[s].session = s
  /\ Cardinality({c \in auxiliary : ~Cancels(c)}) <= MaxAuxiliary
  /\ requested \subseteq Sessions
  /\ task \in [Turns -> TaskState]
  /\ runtime \in [Turns -> {"none", "running", "over"} \cup Outcome]
  /\ auxiliary \subseteq Calls /\ doomed \subseteq Calls
  /\ closing \in {"open", "asking", "joining", "closed"}
  /\ owned \subseteq Turns /\ asked \subseteq Turns
  /\ stops \in 0..MaxStops /\ steers \in 0..MaxSteers

\* The runtime never works on two turns of a session, also when the
\* coordinator has given up waiting for the first (timed_out in _run_turn, and
\* the comparison of ids before a session is freed).
OneRuntimePerSession ==
  \A t, u \in Turns : t # u /\ t.session = u.session => ~(Lives(t) /\ Lives(u))

\* A session is held by a turn that is yet to begin or whose runtime's task
\* is alive: as long as messages are taken, one that is over never keeps them
\* away (_runtime_finished).
HeldByTheLiving ==
  \A s \in Held : task[active[s]] \in {"ready", "cancelled"} \/ Lives(active[s])

\* No runtime task is left behind that was not asked to stop (shutdown's
\* "request runtime cancellation").
NobodyLeftUnasked ==
  closing = "closed" => \A t \in Turns : runtime[t] = "running" => t \in asked

Reported(t) == task[t] \in {"returned", "expired"}

\* A turn that was started is reported, returned or failed, though its runtime
\* never ends (turn_timeout_seconds).
EveryTurnReported ==
  \A t \in Turns : task[t] = "ready" ~> (Reported(t) \/ closing # "open")

\* "The finite coordinator deadline requests cancellation" (the comment in
\* _run_turn): of the turn whose deadline it was.
DeadlineMeetsItsTurn ==
  \A c \in auxiliary : c.kind = "deadline" => c.target = c.by
=============================================================================
