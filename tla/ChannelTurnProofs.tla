-------------------------- MODULE ChannelTurnProofs --------------------------
(* For any sessions, turns and capacities: the runtime works on one turn of  *)
(* a session, no turn that is over holds one, the steers under way have a    *)
(* place each, and shutdown leaves no runtime that was not asked to stop.    *)
EXTENDS ChannelTurn, FiniteSetTheorems, TLAPS

Busy(t) == task[t] = "ready" \/ Lives(t)

Tables ==
  /\ active \in [Sessions -> Turns \cup {NoTurn}]
  /\ task \in [Turns -> TaskState]
  /\ runtime \in [Turns -> {"none", "running", "over"} \cup Outcome]

HeldByOwn == \A s \in Sessions : active[s] # NoTurn => active[s].session = s

\* How far a turn's two tasks can be apart.
InStep ==
  \A t \in Turns : /\ task[t] \in {"new", "ready"} => runtime[t] = "none"
                   /\ task[t] = "waiting" => Lives(t)
                   /\ task[t] \in {"done", "returned"} => runtime[t] = "over"

\* As long as shutdown has cancelled nothing, a busy turn holds its session.
BusyHolds ==
  closing \in {"open", "asking"} => \A t \in Turns : Busy(t) => Owns(t)

OneBusy ==
  \A t, u \in Turns : t # u /\ t.session = u.session => ~(Busy(t) /\ Busy(u))

IInv == /\ Tables /\ HeldByOwn /\ InStep /\ BusyHolds /\ OneBusy
        /\ HeldByTheLiving

\* A turn names a session.
LEMMA TurnsHaveSessions == \A t \in Turns : t.session \in Sessions
  BY DEF Turns

\* Initially nothing is held and nothing is busy.
LEMMA Initially == Init => IInv
  BY NoTurnIsNone DEF Init, IInv, Tables, HeldByOwn, InStep, BusyHolds, OneBusy,
     Busy, Lives, Outcome, HeldByTheLiving, Held, TaskState, Unfinished

\* A session that is free has no busy turn, so a new one is alone.
LEMMA StartKeeps == ASSUME IInv, NEW t \in Turns, Start(t) PROVE IInv'
  <1> USE TurnsHaveSessions, NoTurnIsNone
  <1>1. /\ closing = "open" /\ closing' = closing
        /\ active[t.session] = NoTurn /\ task[t] = "new"
        /\ task' = [task EXCEPT ![t] = "ready"]
        /\ active' = [active EXCEPT ![t.session] = t]
        /\ runtime' = runtime
    <2>1. t.no >= t.no
      BY BoundsAreNumbers DEF Turns
    <2> QED BY <2>1 DEF Start, IsOpen, joins
  <1>2. \A u \in Turns : u.session = t.session => ~Busy(u)
    BY <1>1 DEF IInv, BusyHolds, Owns
  <1>3. Tables'
    BY <1>1 DEF IInv, Tables, TaskState, Unfinished
  <1>4. HeldByOwn'
    BY <1>1 DEF IInv, Tables, HeldByOwn
  <1>5. InStep'
    BY <1>1 DEF IInv, Tables, InStep, Lives
  <1>6. \A u \in Turns : u # t => (Busy(u)' <=> Busy(u))
    BY <1>1 DEF IInv, Tables, Busy, Lives
  <1>7. BusyHolds'
    <2> SUFFICES ASSUME NEW u \in Turns, Busy(u)' PROVE Owns(u)'
      BY DEF BusyHolds
    <2>1. CASE u = t
      BY <1>1, <2>1 DEF IInv, Tables, Owns
    <2>2. CASE u # t
      <3>1. Busy(u) BY <1>6, <2>2
      <3>2. u.session # t.session BY <1>2, <3>1
      <3>3. Owns(u) BY <1>1, <3>1 DEF IInv, BusyHolds
      <3> QED BY <1>1, <3>2, <3>3 DEF IInv, Tables, Owns
    <2> QED BY <2>1, <2>2
  <1>8. OneBusy'
    BY <1>2, <1>6 DEF IInv, OneBusy
  <1>9. HeldByTheLiving'
    BY <1>1 DEF IInv, Tables, HeldByTheLiving, Held, Lives
  <1> QED BY <1>3, <1>4, <1>5, <1>7, <1>8, <1>9 DEF IInv

\* The runtime's task is made by a turn that was busy already.
LEMMA BeginKeeps == ASSUME IInv, NEW t \in Turns, Begin(t) PROVE IInv'
  <1>1. /\ task[t] = "ready" /\ closing' = closing /\ active' = active
        /\ task' = [task EXCEPT ![t] = "waiting"]
        /\ runtime' = [runtime EXCEPT ![t] = "running"]
    BY DEF Begin, joins
  <1>2. Tables'
    BY <1>1 DEF IInv, Tables, TaskState, Unfinished
  <1>3. HeldByOwn' /\ InStep'
    BY <1>1 DEF IInv, Tables, HeldByOwn, InStep, Lives
  <1>4. \A u \in Turns : Busy(u)' <=> Busy(u)
    BY <1>1 DEF IInv, Tables, Busy, Lives
  <1>5. BusyHolds' /\ OneBusy'
    BY <1>1, <1>4 DEF IInv, BusyHolds, OneBusy, Owns
  <1>6. HeldByTheLiving'
    BY <1>1 DEF IInv, Tables, HeldByTheLiving, Held, Lives
  <1> QED BY <1>2, <1>3, <1>5, <1>6 DEF IInv

\* The runtime's task ends, and is alive until the callback has run.
LEMMA RuntimeEndsKeeps ==
  ASSUME IInv, NEW t \in Turns, RuntimeEnds(t) PROVE IInv'
  <1>1. /\ runtime[t] = "running" /\ closing' = closing /\ active' = active
        /\ task' = task
    BY DEF RuntimeEnds, joins
  <1>2. PICK how \in Outcome : runtime' = [runtime EXCEPT ![t] = how]
    BY DEF RuntimeEnds
  <1>3. \A u \in Turns : Lives(u)' <=> Lives(u)
    BY <1>1, <1>2 DEF IInv, Tables, Lives
  <1>4. Tables' /\ HeldByOwn'
    BY <1>1, <1>2 DEF IInv, Tables, HeldByOwn
  <1>5. InStep'
    BY <1>1, <1>2, <1>3 DEF IInv, Tables, InStep, Outcome
  <1>6. BusyHolds' /\ OneBusy'
    BY <1>1, <1>3 DEF IInv, BusyHolds, OneBusy, Busy, Owns
  <1>7. HeldByTheLiving'
    BY <1>1, <1>3 DEF IInv, Tables, HeldByTheLiving, Held
  <1> QED BY <1>4, <1>5, <1>6, <1>7 DEF IInv

\* A step after which no turn is busy that was not before, and the session is
\* free of the turn that acted and of no other.
LEMMA FreeingKeeps ==
  ASSUME IInv, NEW t \in Turns, Tables', InStep',
         active' = Freed(t), closing' = closing, ~Busy(t)',
         \A u \in Turns \ {t} : task'[u] = task[u] /\ runtime'[u] = runtime[u]
  PROVE  IInv'
  <1> USE TurnsHaveSessions, NoTurnIsNone
  <1>1. \A u \in Turns \ {t} : /\ Busy(u)' <=> Busy(u)
                               /\ Lives(u)' <=> Lives(u)
    BY DEF Busy, Lives
  <1>2. \A u \in Turns \ {t} : Owns(u)' <=> Owns(u)
    BY DEF IInv, Tables, HeldByOwn, Freed, Owns
  <1>3. \A s \in Sessions : active'[s] # NoTurn => active'[s] = active[s]
    BY DEF IInv, Tables, Freed
  <1>4. ~Owns(t)'
    BY DEF IInv, Tables, Freed, Owns
  <1>5. HeldByOwn'
    BY <1>3 DEF IInv, HeldByOwn
  <1>6. \A u \in Turns : Busy(u)' => u # t /\ Busy(u)
    BY <1>1 DEF Busy, Lives
  <1>7. BusyHolds'
    BY <1>2, <1>6 DEF IInv, BusyHolds
  <1>8. OneBusy'
    BY <1>6 DEF IInv, OneBusy
  <1>9. HeldByTheLiving'
    <2> SUFFICES ASSUME NEW s \in Sessions, active'[s] # NoTurn
                 PROVE  \/ task'[active'[s]] \in {"ready", "cancelled"}
                        \/ Lives(active[s])'
      BY <1>3 DEF HeldByTheLiving, Held, Lives
    <2>1. active'[s] = active[s] /\ active[s] \in Turns /\ active[s] # t
      BY <1>3, <1>4, <1>5 DEF IInv, Tables, HeldByOwn, Owns
    <2>2. \/ task[active[s]] \in {"ready", "cancelled"}
          \/ Lives(active[s])
      BY <2>1 DEF IInv, HeldByTheLiving, Held
    <2> QED BY <2>1, <2>2 DEF Lives
  <1> QED BY <1>5, <1>7, <1>8, <1>9 DEF IInv

\* A step that leaves what is busy and what holds as it was.
LEMMA QuietKeeps ==
  ASSUME IInv, NEW t \in Turns, Tables', InStep',
         active' = active, runtime' = runtime, closing' = closing,
         \A u \in Turns \ {t} : task'[u] = task[u],
         task[t] # "ready", task'[t] # "ready",
         task[t] = "cancelled" => task'[t] = "cancelled"
  PROVE  IInv'
  <1>1. \A u \in Turns : Busy(u)' <=> Busy(u)
    BY DEF Busy, Lives
  <1>2. HeldByOwn' /\ BusyHolds' /\ OneBusy'
    BY <1>1 DEF IInv, HeldByOwn, BusyHolds, OneBusy, Owns
  <1>3. HeldByTheLiving'
    BY DEF IInv, Tables, HeldByTheLiving, Held, Lives
  <1> QED BY <1>2, <1>3 DEF IInv

\* The callback: what is over is not busy, and does not hold.
LEMMA RuntimeFinishedKeeps ==
  ASSUME IInv, NEW t \in Turns, RuntimeFinished(t) PROVE IInv'
  <1>1. /\ runtime[t] \in Outcome /\ closing' = closing /\ active' = Freed(t)
        /\ runtime' = [runtime EXCEPT ![t] = "over"]
        /\ task' = [task EXCEPT ![t] = IF @ = "waiting" THEN runtime[t] ELSE @]
    BY DEF RuntimeFinished, FreedByCallback, joins
  <1>2. task[t] \notin {"new", "ready", "done", "returned"}
    BY <1>1 DEF IInv, InStep, Outcome
  <1>3. Tables'
    BY <1>1, TurnsHaveSessions
    DEF IInv, Tables, Freed, Outcome, TaskState, Unfinished
  <1>4. InStep'
    BY <1>1, <1>2 DEF IInv, Tables, InStep, Outcome, Lives
  <1>5. ~Busy(t)'
    BY <1>1, <1>2 DEF IInv, Tables, Busy, Lives, Outcome
  <1>6. \A u \in Turns \ {t} : task'[u] = task[u] /\ runtime'[u] = runtime[u]
    BY <1>1 DEF IInv, Tables
  <1> QED BY <1>1, <1>3, <1>4, <1>5, <1>6, FreeingKeeps

\* The finally block of a turn that has its outcome: the callback ran before.
LEMMA ReturnsKeeps == ASSUME IInv, NEW t \in Turns, Returns(t) PROVE IInv'
  <1>1. /\ task[t] = "done" /\ closing' = closing /\ active' = Freed(t)
        /\ task' = [task EXCEPT ![t] = "returned"] /\ runtime' = runtime
    BY DEF Returns, Ends, joins
  <1>2. runtime[t] = "over"
    BY <1>1 DEF IInv, InStep
  <1>3. Tables'
    BY <1>1, TurnsHaveSessions DEF IInv, Tables, Freed, TaskState
  <1>4. InStep'
    BY <1>1, <1>2 DEF IInv, Tables, InStep, Lives
  <1>5. ~Busy(t)'
    BY <1>1, <1>2 DEF IInv, Tables, Busy, Lives, Outcome
  <1>6. \A u \in Turns \ {t} : task'[u] = task[u] /\ runtime'[u] = runtime[u]
    BY <1>1 DEF IInv, Tables
  <1> QED BY <1>1, <1>3, <1>4, <1>5, <1>6, FreeingKeeps

\* The deadline changes what the turn will hear, not what it holds.
LEMMA DeadlineKeeps == ASSUME IInv, NEW t \in Turns, Deadline(t) PROVE IInv'
  <1>1. /\ task[t] = "waiting" /\ closing' = closing /\ active' = active
        /\ task' = [task EXCEPT ![t] = "timeout"] /\ runtime' = runtime
    BY DEF Deadline, IsDue, joins
  <1>2. Tables' /\ InStep'
    BY <1>1 DEF IInv, Tables, InStep, Lives, TaskState, Unfinished, Outcome
  <1>3. /\ \A u \in Turns \ {t} : task'[u] = task[u]
        /\ task'[t] = "timeout"
    BY <1>1 DEF IInv, Tables
  <1> QED BY <1>1, <1>2, <1>3, QuietKeeps

\* The session is kept for the runtime's task.
LEMMA TimesOutKeeps == ASSUME IInv, NEW t \in Turns, TimesOut(t) PROVE IInv'
  <1>1. /\ task[t] = "timeout" /\ closing' = closing /\ active' = active
        /\ task' = [task EXCEPT ![t] = "expired"] /\ runtime' = runtime
    BY DEF TimesOut, Ends, KeptFor, joins
  <1>2. Tables' /\ InStep'
    BY <1>1 DEF IInv, Tables, InStep, Lives, TaskState
  <1>3. /\ \A u \in Turns \ {t} : task'[u] = task[u]
        /\ task'[t] = "expired"
    BY <1>1 DEF IInv, Tables
  <1> QED BY <1>1, <1>2, <1>3, QuietKeeps

\* While shutdown joins, no session is taken; what it frees needs no owner.
LEMMA TurnDiesKeeps == ASSUME IInv, NEW t \in Turns, TurnDies(t) PROVE IInv'
  <1> USE TurnsHaveSessions
  <1>1. /\ closing = "joining" /\ closing' = closing /\ runtime' = runtime
        /\ task' = [task EXCEPT ![t] = "cancelled"]
        /\ active' \in {active, Freed(t)}
    BY DEF TurnDies, Joined, joins
  <1>2. \A s \in Sessions : active'[s] # NoTurn => active'[s] = active[s]
    BY <1>1 DEF IInv, Tables, Freed
  <1>3. Tables'
    BY <1>1 DEF IInv, Tables, Freed, TaskState
  <1>4. HeldByOwn'
    BY <1>2 DEF IInv, HeldByOwn
  <1>5. InStep'
    BY <1>1 DEF IInv, Tables, InStep, Lives
  <1>6. \A u \in Turns : Busy(u)' => Busy(u)
    BY <1>1 DEF IInv, Tables, Busy, Lives
  <1>7. BusyHolds'
    BY <1>1 DEF BusyHolds
  <1>8. OneBusy'
    BY <1>6 DEF IInv, OneBusy
  <1>9. HeldByTheLiving'
    BY <1>1, <1>2 DEF IInv, Tables, HeldByTheLiving, Held, Lives
  <1> QED BY <1>3, <1>4, <1>5, <1>7, <1>8, <1>9 DEF IInv

\* At the end nothing is held.
LEMMA CloseKeeps == ASSUME IInv, Close PROVE IInv'
  <1>1. /\ closing' = "closed" /\ task' = task /\ runtime' = runtime
        /\ active' = [s \in Sessions |-> NoTurn]
    BY DEF Close
  <1>2. Tables' /\ HeldByOwn' /\ InStep' /\ BusyHolds'
    BY <1>1 DEF IInv, Tables, HeldByOwn, InStep, BusyHolds, Lives
  <1>3. OneBusy'
    BY <1>1 DEF IInv, OneBusy, Busy, Lives
  <1>4. HeldByTheLiving'
    BY <1>1 DEF HeldByTheLiving, Held
  <1> QED BY <1>2, <1>3, <1>4 DEF IInv

\* Auxiliary tasks and the first steps of shutdown touch no turn.
LEMMA OthersKeep ==
  ASSUME IInv, active' = active, task' = task, runtime' = runtime,
         closing' \in {"open", "asking"} => closing \in {"open", "asking"}
  PROVE  IInv'
  <1>1. Tables' /\ HeldByOwn' /\ InStep'
    BY DEF IInv, Tables, HeldByOwn, InStep, Lives
  <1>2. BusyHolds' /\ OneBusy'
    BY DEF IInv, BusyHolds, OneBusy, Busy, Lives, Owns
  <1>3. HeldByTheLiving'
    BY DEF IInv, HeldByTheLiving, Held, Lives
  <1> QED BY <1>1, <1>2, <1>3 DEF IInv

-----------------------------------------------------------------------------
\* The inductive invariant holds in every reachable state.
THEOREM Invariance == Spec => []IInv
  <1>1. IInv /\ [Next]_vars => IInv'
    <2> SUFFICES ASSUME IInv, [Next]_vars PROVE IInv'
      OBVIOUS
    <2>1. CASE \E t \in Turns : Start(t) \/ Begin(t)
      BY <2>1, StartKeeps, BeginKeeps
    <2>2. CASE \E t \in Turns : RuntimeEnds(t) \/ RuntimeFinished(t)
      BY <2>2, RuntimeEndsKeeps, RuntimeFinishedKeeps
    <2>3. CASE \E t \in Turns : Deadline(t) \/ Returns(t) \/ TimesOut(t)
      BY <2>3, DeadlineKeeps, ReturnsKeeps, TimesOutKeeps
    <2>4. CASE \E t \in Turns : TurnDies(t)
      BY <2>4, TurnDiesKeeps
    <2>5. CASE \E s \in Sessions : Steer(s) \/ Stop(s)
      BY <2>5, OthersKeep DEF Steer, Stop, joins
    <2>6. CASE \E c \in auxiliary : Send(c) \/ Answered(c) \/ CallDies(c)
      BY <2>6, OthersKeep DEF Send, Answered, CallDies, joins
    <2>7. CASE Shutdown \/ Join
      BY <2>7, OthersKeep DEF Shutdown, Join, IsOpen
    <2>8. CASE Close
      BY <2>8, CloseKeeps
    <2>9. CASE UNCHANGED vars
      BY <2>9, OthersKeep DEF vars
    <2> QED BY <2>1, <2>2, <2>3, <2>4, <2>5, <2>6, <2>7, <2>8, <2>9 DEF Next
  <1> QED BY Initially, <1>1, PTL DEF Spec

\* The runtime never works on two turns of a session: time-outs leave the
\* session with the runtime's task, and a late end frees only its own.
THEOREM OneRuntime == Spec => []OneRuntimePerSession
  <1>1. IInv => OneRuntimePerSession
    BY DEF IInv, OneBusy, Busy, OneRuntimePerSession
  <1> QED BY Invariance, <1>1, PTL

\* Whoever holds a session is yet to begin, alive, or cancelled by shutdown: no
\* turn that is over keeps messages away.
THEOREM SessionsAreFreed == Spec => []HeldByTheLiving
  <1>1. IInv => HeldByTheLiving
    BY DEF IInv
  <1> QED BY Invariance, <1>1, PTL
-----------------------------------------------------------------------------
(* The auxiliary tasks, and shutdown *)

SteersUnderWay == {c \in auxiliary : ~Cancels(c)}

Sorted ==
  /\ requested \subseteq Sessions
  /\ auxiliary \subseteq Calls /\ doomed \subseteq Calls
  /\ closing \in {"open", "asking", "joining", "closed"}
  /\ owned \subseteq Turns /\ asked \subseteq Turns
  /\ stops \in 0..MaxStops /\ steers \in 0..MaxSteers

\* The tasks are counted while steers are taken. Shutdown makes one for every
\* session, and of those there may be any number.
Countable == IsOpen => IsFiniteSet(auxiliary)

Places == /\ IsFiniteSet(SteersUnderWay)
          /\ Cardinality(SteersUnderWay) <= MaxAuxiliary

\* Once shutdown has looked, no turn is busy that it did not see.
BusyAreOwned == ~IsOpen => \A t \in Turns : Busy(t) => t \in owned

Pending(t) ==
  \E c \in auxiliary : c.kind = "shutdown" /\ c.target = t /\ ~c.sent

\* A turn that was seen is asked, or its call is yet to be sent; and none is
\* once tasks are joined.
OwnedAreAsked ==
  /\ closing = "asking" => \A t \in owned : t \in asked \/ Pending(t)
  /\ closing \in {"joining", "closed"} => owned \subseteq asked

Rest == Sorted /\ Countable /\ Places /\ BusyAreOwned /\ OwnedAreAsked

\* Initially there are none.
LEMMA RestInitially == Init => Rest
  <1> SUFFICES ASSUME Init PROVE Rest
    OBVIOUS
  <1>1. auxiliary = {} /\ SteersUnderWay = {}
    BY DEF Init, SteersUnderWay
  <1>2. IsFiniteSet(auxiliary) /\ IsFiniteSet(SteersUnderWay)
    BY <1>1, FS_EmptySet
  <1>3. Cardinality(SteersUnderWay) = 0
    BY <1>1, FS_EmptySet
  <1>4. Sorted
    BY BoundsAreNumbers DEF Init, Sorted
  <1>5. BusyAreOwned /\ OwnedAreAsked
    BY DEF Init, BusyAreOwned, OwnedAreAsked, IsOpen
  <1> QED BY <1>2, <1>3, <1>4, <1>5, BoundsAreNumbers
          DEF Rest, Countable, Places

\* A call that is made is one.
LEMMA CallsAreTyped ==
  ASSUME NEW kind \in {"stop", "deadline", "shutdown", "steer"},
         NEW t \in Turns, NEW u \in Turns, NEW n \in 0..(MaxStops + MaxSteers)
  PROVE  /\ Call(kind, t, u, n) \in Calls
         /\ Call(kind, t, u, n).kind = kind
         /\ Call(kind, t, u, n).target = t /\ ~Call(kind, t, u, n).sent
  BY DEF Call, Calls

\* A step of a turn makes no call and answers none; the turn that becomes busy
\* starts before shutdown.
LEMMA TurnsKeepRest ==
  ASSUME Rest, auxiliary' = auxiliary, closing' = closing, owned' = owned,
         doomed' = doomed, stops' = stops, steers' = steers, asked' = asked,
         requested' \subseteq requested,
         \A t \in Turns : Busy(t)' => Busy(t) \/ IsOpen
  PROVE  Rest'
  <1>1. Sorted'
    BY DEF Rest, Sorted
  <1>2. Countable' /\ Places'
    BY DEF Rest, Countable, Places, SteersUnderWay, IsOpen
  <1>3. BusyAreOwned'
    BY DEF Rest, BusyAreOwned, IsOpen
  <1>4. OwnedAreAsked'
    BY DEF Rest, OwnedAreAsked, Pending
  <1> QED BY <1>1, <1>2, <1>3, <1>4 DEF Rest

\* Calls that cancel, and one at most while they are counted, take no place of a
\* steer.
LEMMA CancelsTakeNoPlace ==
  ASSUME Rest, NEW new, auxiliary' = auxiliary \cup new,
         \A c \in new : Cancels(c), IsOpen' => IsOpen /\ IsFiniteSet(new)
  PROVE  Countable' /\ Places'
  <1>1. SteersUnderWay' = SteersUnderWay
    BY DEF SteersUnderWay, Cancels
  <1>2. Countable'
    BY FS_Union DEF Rest, Countable
  <1> QED BY <1>1, <1>2 DEF Rest, Places

\* What ends gives its place up.
LEMMA FewerHavePlaces ==
  ASSUME Rest, auxiliary' \subseteq auxiliary, IsOpen' => IsOpen
  PROVE  Countable' /\ Places'
  <1>1. SteersUnderWay' \subseteq SteersUnderWay
    BY DEF SteersUnderWay, Cancels
  <1>2. /\ IsFiniteSet(SteersUnderWay')
        /\ Cardinality(SteersUnderWay') <= Cardinality(SteersUnderWay)
    BY <1>1, FS_Subset DEF Rest, Places
  <1>3. /\ Cardinality(SteersUnderWay) \in Nat
        /\ Cardinality(SteersUnderWay') \in Nat
    BY <1>2, FS_CardinalityType DEF Rest, Places
  <1>4. Places'
    BY <1>2, <1>3, BoundsAreNumbers DEF Rest, Places
  <1>5. Countable'
    BY FS_Subset DEF Rest, Countable
  <1> QED BY <1>4, <1>5

\* A turn that runs out of time asks for who holds its session.
LEMMA TimesOutKeepsRest ==
  ASSUME IInv, Rest, NEW t \in Turns, TimesOut(t) PROVE Rest'
  <1> DEFINE holder == {active[t.session]} \ {NoTurn}
             new == {Call("deadline", c, t, 0) : c \in holder}
  <1>1. /\ auxiliary' = auxiliary \cup new
        /\ requested' \subseteq requested
        /\ task[t] = "timeout" /\ task' = [task EXCEPT ![t] = "expired"]
        /\ runtime' = runtime
        /\ closing' = closing /\ owned' = owned /\ doomed' = doomed
        /\ stops' = stops /\ steers' = steers /\ asked' = asked
    BY DEF TimesOut, Ends, joins
  <1>2. holder \subseteq Turns
    BY TurnsHaveSessions DEF IInv, Tables
  <1>3. new \subseteq Calls /\ \A c \in new : Cancels(c)
    <2> SUFFICES ASSUME NEW c \in holder
                 PROVE  /\ Call("deadline", c, t, 0) \in Calls
                        /\ Cancels(Call("deadline", c, t, 0))
      OBVIOUS
    <2>1. 0 \in 0..(MaxStops + MaxSteers)
      BY BoundsAreNumbers
    <2> QED BY <1>2, <2>1, CallsAreTyped DEF Cancels
  <1>4. IsFiniteSet(new)
    <2>1. CASE holder = {}
      <3>1. new = {}
        BY <2>1
      <3> QED BY <3>1, FS_EmptySet
    <2>2. CASE holder # {}
      <3>1. new = {Call("deadline", active[t.session], t, 0)}
        BY <2>2
      <3> HIDE DEF new
      <3> QED BY <3>1, FS_Singleton
    <2> QED BY <2>1, <2>2
  <1>5. Sorted'
    BY <1>1, <1>3 DEF Rest, Sorted
  <1>6. Countable' /\ Places'
    <2> HIDE DEF new
    <2> QED BY <1>1, <1>3, <1>4, CancelsTakeNoPlace DEF IsOpen
  <1>7. BusyAreOwned'
    BY <1>1 DEF Rest, IInv, Tables, BusyAreOwned, IsOpen, Busy, Lives
  <1>8. OwnedAreAsked'
    <2> HIDE DEF new
    <2> QED BY <1>1 DEF Rest, OwnedAreAsked, Pending
  <1> QED BY <1>5, <1>6, <1>7, <1>8 DEF Rest

\* A stop asks for one turn more.
LEMMA StopKeepsRest ==
  ASSUME IInv, Rest, NEW s \in Sessions, Stop(s) PROVE Rest'
  <1> DEFINE call == Call("stop", active[s], active[s], stops + 1)
  <1>1. /\ IsOpen /\ s \in Held /\ stops < MaxStops /\ stops' = stops + 1
        /\ requested' = requested \cup {s}
        /\ auxiliary' = auxiliary \cup {call}
        /\ closing' = closing /\ owned' = owned /\ doomed' = doomed
        /\ steers' = steers /\ asked' = asked
    BY DEF Stop, joins
  <1>2. stops' \in 0..MaxStops
    BY <1>1, BoundsAreNumbers DEF Rest, Sorted
  <1>3. stops' \in 0..(MaxStops + MaxSteers)
    BY <1>2, BoundsAreNumbers
  <1>4. call \in Calls /\ Cancels(call)
    BY <1>1, <1>3 DEF Call, Calls, Cancels, IInv, Tables, Held
  <1>5. Sorted'
    BY <1>1, <1>2, <1>4 DEF Rest, Sorted
  <1>6. IsFiniteSet({call})
    BY FS_Singleton
  <1>7. Countable' /\ Places'
    <2> HIDE DEF call
    <2> QED BY <1>1, <1>4, <1>6, CancelsTakeNoPlace
  <1>8. BusyAreOwned' /\ OwnedAreAsked'
    BY <1>1 DEF BusyAreOwned, OwnedAreAsked, IsOpen
  <1> QED BY <1>5, <1>7, <1>8 DEF Rest

\* A steer takes a place, and there was one.
LEMMA SteerKeepsRest ==
  ASSUME IInv, Rest, NEW s \in Sessions, Steer(s) PROVE Rest'
  <1> DEFINE call == Call("steer", active[s], active[s], steers + 1)
  <1>1. /\ IsOpen /\ s \in Held /\ HasPlace
        /\ steers < MaxSteers /\ steers' = steers + 1
        /\ requested' = requested
        /\ auxiliary' = auxiliary \cup {call}
        /\ closing' = closing /\ owned' = owned /\ doomed' = doomed
        /\ stops' = stops /\ asked' = asked
    BY DEF Steer, joins
  <1>2. steers' \in 0..MaxSteers
    BY <1>1, BoundsAreNumbers DEF Rest, Sorted
  <1>3. steers' \in 0..(MaxStops + MaxSteers)
    BY <1>2, BoundsAreNumbers
  <1>4. call \in Calls /\ ~Cancels(call)
    BY <1>1, <1>3 DEF Call, Calls, Cancels, IInv, Tables, Held
  <1>5. Sorted'
    BY <1>1, <1>2, <1>4 DEF Rest, Sorted
  <1> HIDE DEF call
  <1>6. IsFiniteSet(auxiliary) /\ Cardinality(auxiliary) < MaxAuxiliary
    BY <1>1 DEF Rest, Countable, HasPlace
  <1>7. Cardinality(auxiliary) \in Nat
    BY <1>6, FS_CardinalityType
  <1>8. /\ IsFiniteSet(auxiliary')
        /\ Cardinality(auxiliary') \in Nat
        /\ Cardinality(auxiliary') <= Cardinality(auxiliary) + 1
    <2>1. /\ IsFiniteSet(auxiliary')
          /\ \/ Cardinality(auxiliary') = Cardinality(auxiliary)
             \/ Cardinality(auxiliary') = Cardinality(auxiliary) + 1
      BY <1>1, <1>6, FS_AddElement
    <2> QED BY <1>7, <2>1
  <1>9. SteersUnderWay' \subseteq auxiliary'
    BY DEF SteersUnderWay
  <1>10. /\ IsFiniteSet(SteersUnderWay')
         /\ Cardinality(SteersUnderWay') \in Nat
         /\ Cardinality(SteersUnderWay') <= Cardinality(auxiliary')
    BY <1>8, <1>9, FS_Subset, FS_CardinalityType
  <1>11. Countable'
    BY <1>8 DEF Countable
  <1>12. Places'
    BY <1>6, <1>7, <1>8, <1>10, BoundsAreNumbers DEF Places
  <1>13. BusyAreOwned' /\ OwnedAreAsked'
    BY <1>1 DEF BusyAreOwned, OwnedAreAsked, IsOpen
  <1> QED BY <1>5, <1>11, <1>12, <1>13 DEF Rest

\* What is sent keeps its place, and whom it cancels has been asked.
LEMMA SendKeepsRest ==
  ASSUME Rest, NEW c \in auxiliary, Send(c),
         task' = task, runtime' = runtime
  PROVE  Rest'
  <1> DEFINE sent == [c EXCEPT !.sent = TRUE]
  <1>1. /\ ~c.sent
        /\ auxiliary' = (auxiliary \ {c}) \cup {sent}
        /\ asked' = IF Cancels(c) THEN asked \cup {c.target} ELSE asked
        /\ requested' = requested
        /\ closing' = closing /\ owned' = owned /\ doomed' = doomed
        /\ stops' = stops /\ steers' = steers
    BY DEF Send, joins
  <1>2. c \in Calls
    BY DEF Rest, Sorted
  <1>3. /\ sent \in Calls /\ sent.kind = c.kind
    BY <1>2 DEF Calls
  <1>4. c.target \in Turns
    BY <1>2 DEF Calls
  <1>5. Sorted'
    BY <1>1, <1>3, <1>4 DEF Rest, Sorted
  <1> HIDE DEF sent
  <1>6. Countable'
    <2> SUFFICES ASSUME IsOpen PROVE IsFiniteSet(auxiliary')
      BY <1>1 DEF Countable, IsOpen
    <2>1. IsFiniteSet(auxiliary \ {c})
      BY FS_RemoveElement DEF Rest, Countable
    <2> QED BY <1>1, <2>1, FS_AddElement
  <1>7. Places'
    <2>1. CASE Cancels(c)
      <3>1. SteersUnderWay' = SteersUnderWay
        BY <1>1, <1>3, <2>1 DEF SteersUnderWay, Cancels
      <3> QED BY <3>1 DEF Rest, Places
    <2>2. CASE ~Cancels(c)
      <3> DEFINE others == SteersUnderWay \ {c}
      <3>1. SteersUnderWay' = others \cup {sent}
        BY <1>1, <1>3, <2>2 DEF SteersUnderWay, Cancels
      <3>2. /\ c \in SteersUnderWay /\ IsFiniteSet(SteersUnderWay)
            /\ Cardinality(SteersUnderWay) <= MaxAuxiliary
        BY <2>2 DEF SteersUnderWay, Rest, Places
      <3>3. Cardinality(SteersUnderWay) \in Nat
        BY <3>2, FS_CardinalityType
      <3>4. /\ IsFiniteSet(others)
            /\ Cardinality(others) = Cardinality(SteersUnderWay) - 1
        BY <3>2, FS_RemoveElement
      <3> HIDE DEF others
      <3>5. Cardinality(others) \in Nat
        BY <3>4, FS_CardinalityType
      <3>6. /\ IsFiniteSet(SteersUnderWay')
            /\ \/ Cardinality(SteersUnderWay') = Cardinality(others)
               \/ Cardinality(SteersUnderWay') = Cardinality(others) + 1
        BY <3>1, <3>4, FS_AddElement
      <3> QED BY <3>2, <3>3, <3>4, <3>5, <3>6, BoundsAreNumbers DEF Places
    <2> QED BY <2>1, <2>2
  <1>8. BusyAreOwned'
    BY <1>1 DEF Rest, BusyAreOwned, IsOpen, Busy, Lives
  <1>9. OwnedAreAsked'
    <2>1. CASE closing # "asking"
      BY <1>1, <2>1 DEF Rest, OwnedAreAsked
    <2>2. CASE closing = "asking"
      <3> SUFFICES ASSUME NEW t \in owned, t \notin asked'
                   PROVE  Pending(t)'
        BY <1>1, <2>2 DEF OwnedAreAsked
      <3>1. t \notin asked
        BY <1>1
      <3>2. PICK d \in auxiliary :
              d.kind = "shutdown" /\ d.target = t /\ ~d.sent
        BY <1>1, <2>2, <3>1 DEF Rest, OwnedAreAsked, Pending
      <3>3. d # c
        BY <1>1, <3>2 DEF Cancels
      <3> QED BY <1>1, <3>2, <3>3 DEF Pending
    <2> QED BY <2>1, <2>2
  <1> QED BY <1>5, <1>6, <1>7, <1>8, <1>9 DEF Rest

\* A call that is over was sent, or shutdown has asked already.
LEMMA FinallyKeepsRest ==
  ASSUME Rest, NEW c \in auxiliary, Finally(c),
         c.sent \/ closing = "joining",
         task' = task, runtime' = runtime, closing' = closing,
         owned' = owned, doomed' = doomed,
         stops' = stops, steers' = steers, asked' = asked
  PROVE  Rest'
  <1>1. auxiliary' = auxiliary \ {c} /\ requested' \subseteq requested
    BY DEF Finally
  <1>2. Sorted'
    BY <1>1 DEF Rest, Sorted
  <1>3. Countable' /\ Places'
    BY <1>1, FewerHavePlaces DEF IsOpen
  <1>4. BusyAreOwned'
    BY DEF Rest, BusyAreOwned, IsOpen, Busy, Lives
  <1>5. OwnedAreAsked'
    <2>1. CASE closing # "asking"
      BY <2>1 DEF Rest, OwnedAreAsked
    <2>2. CASE closing = "asking"
      <3> SUFFICES ASSUME NEW t \in owned, t \notin asked
                   PROVE  Pending(t)'
        BY <2>2 DEF OwnedAreAsked
      <3>1. PICK d \in auxiliary :
              d.kind = "shutdown" /\ d.target = t /\ ~d.sent
        BY <2>2 DEF Rest, OwnedAreAsked, Pending
      <3>2. d # c
        BY <2>2, <3>1
      <3> QED BY <1>1, <3>1, <3>2 DEF Pending
    <2> QED BY <2>1, <2>2
  <1> QED BY <1>2, <1>3, <1>4, <1>5 DEF Rest

\* Every busy turn holds its session, so shutdown sees it and makes its call.
LEMMA ShutdownKeepsRest == ASSUME IInv, Rest, Shutdown PROVE Rest'
  <1> DEFINE new == {Call("shutdown", t, t, 0) : t \in OwnedNow}
  <1>1. /\ IsOpen /\ closing' = "asking" /\ owned' = OwnedNow
        /\ auxiliary' = auxiliary \cup new
        /\ requested' = requested /\ task' = task /\ runtime' = runtime
        /\ doomed' = doomed
        /\ stops' = stops /\ steers' = steers /\ asked' = asked
    BY DEF Shutdown, told
  <1>2. OwnedNow \subseteq Turns
    BY DEF OwnedNow
  <1>3. new \subseteq Calls /\ \A c \in new : Cancels(c)
    <2> SUFFICES ASSUME NEW t \in OwnedNow
                 PROVE  /\ Call("shutdown", t, t, 0) \in Calls
                        /\ Cancels(Call("shutdown", t, t, 0))
      OBVIOUS
    <2>1. 0 \in 0..(MaxStops + MaxSteers)
      BY BoundsAreNumbers
    <2> QED BY <1>2, <2>1, CallsAreTyped DEF Cancels
  <1>4. Sorted'
    BY <1>1, <1>2, <1>3 DEF Rest, Sorted
  <1>5. Countable' /\ Places'
    <2> HIDE DEF new
    <2>1. ~IsOpen'
      BY <1>1 DEF IsOpen
    <2> QED BY <1>1, <1>3, <2>1, CancelsTakeNoPlace
  <1>6. BusyAreOwned'
    BY <1>1 DEF IInv, BusyHolds, BusyAreOwned, OwnedNow, IsOpen, Busy, Lives
  <1>7. OwnedAreAsked'
    <2> SUFFICES ASSUME NEW t \in OwnedNow PROVE Pending(t)'
      BY <1>1 DEF OwnedAreAsked
    <2>1. Call("shutdown", t, t, 0) \in auxiliary'
      BY <1>1
    <2>2. /\ Call("shutdown", t, t, 0).kind = "shutdown"
          /\ Call("shutdown", t, t, 0).target = t
          /\ ~Call("shutdown", t, t, 0).sent
      BY DEF Call
    <2> QED BY <2>1, <2>2 DEF Pending
  <1> QED BY <1>4, <1>5, <1>6, <1>7 DEF Rest

\* Tasks are joined when all of shutdown's calls are sent.
LEMMA JoinKeepsRest == ASSUME Rest, Join PROVE Rest'
  <1>1. /\ closing = "asking" /\ closing' = "joining"
        /\ \A c \in Asking : c.sent
        /\ auxiliary' \subseteq auxiliary /\ doomed' = auxiliary'
        /\ requested' \subseteq requested /\ task' = task
        /\ runtime' = runtime /\ owned' = owned
        /\ stops' = stops /\ steers' = steers /\ asked' = asked
    BY DEF Join, told
  <1>2. Sorted'
    BY <1>1 DEF Rest, Sorted
  <1>3. Countable' /\ Places'
    BY <1>1, FewerHavePlaces DEF IsOpen
  <1>4. BusyAreOwned'
    BY <1>1 DEF Rest, BusyAreOwned, IsOpen, Busy, Lives
  <1>5. \A t \in owned : ~Pending(t)
    BY <1>1 DEF Pending, Asking
  <1>6. OwnedAreAsked'
    BY <1>1, <1>5 DEF Rest, OwnedAreAsked
  <1> QED BY <1>2, <1>3, <1>4, <1>6 DEF Rest

\* After the last step nothing is asked any more, and nothing needs to be.
LEMMA CloseKeepsRest == ASSUME Rest, Close PROVE Rest'
  <1>1. /\ closing = "joining" /\ closing' = "closed"
        /\ requested' = requested /\ task' = task /\ runtime' = runtime
        /\ auxiliary' = auxiliary /\ owned' = owned /\ doomed' = doomed
        /\ stops' = stops /\ steers' = steers /\ asked' = asked
    BY DEF Close, told
  <1>2. Sorted'
    BY <1>1 DEF Rest, Sorted
  <1>3. Countable' /\ Places'
    BY <1>1, FewerHavePlaces DEF IsOpen
  <1>4. BusyAreOwned'
    BY <1>1 DEF Rest, BusyAreOwned, IsOpen, Busy, Lives
  <1>5. OwnedAreAsked'
    BY <1>1 DEF Rest, OwnedAreAsked
  <1> QED BY <1>2, <1>3, <1>4, <1>5 DEF Rest

\* A turn's step that is not a time-out leaves the calls alone.
LEMMA TurnStepKeepsRest ==
  ASSUME IInv, Rest, NEW t \in Turns,
         \/ Start(t) \/ Begin(t) \/ Deadline(t) \/ RuntimeEnds(t)
         \/ RuntimeFinished(t) \/ Returns(t) \/ TurnDies(t)
  PROVE  Rest'
  <1>1. /\ auxiliary' = auxiliary /\ closing' = closing /\ owned' = owned
        /\ doomed' = doomed /\ stops' = stops /\ steers' = steers
        /\ asked' = asked /\ requested' \subseteq requested
    BY DEF Start, Begin, Deadline, RuntimeEnds, RuntimeFinished, Returns, Ends,
       TurnDies, joins, told
  <1>2. \A u \in Turns : Busy(u)' => Busy(u) \/ IsOpen
    <2>1. CASE Start(t)
      BY <2>1 DEF Start
    <2>2. CASE Begin(t) \/ Deadline(t)
      BY <2>2 DEF Begin, Deadline, Busy, Lives, IInv, Tables
    <2>3. CASE RuntimeEnds(t)
      BY <2>3 DEF RuntimeEnds, Busy, Lives, IInv, Tables
    <2>4. CASE RuntimeFinished(t)
      BY <2>4 DEF RuntimeFinished, Busy, Lives, Outcome, IInv, Tables
    <2>5. CASE Returns(t) \/ TurnDies(t)
      BY <2>5 DEF Returns, Ends, TurnDies, Busy, Lives, IInv, Tables
    <2> QED BY <2>1, <2>2, <2>3, <2>4, <2>5
  <1> QED BY <1>1, <1>2, TurnsKeepRest

\* The second inductive invariant, on top of the first.
THEOREM CallsInvariance == Spec => []Rest
  <1>1. IInv /\ Rest /\ [Next]_vars => Rest'
    <2> SUFFICES ASSUME IInv, Rest, [Next]_vars PROVE Rest'
      OBVIOUS
    <2>1. CASE \E t \in Turns :
                 \/ Start(t) \/ Begin(t) \/ Deadline(t) \/ RuntimeEnds(t)
                 \/ RuntimeFinished(t) \/ Returns(t) \/ TurnDies(t)
      BY <2>1, TurnStepKeepsRest
    <2>2. CASE \E t \in Turns : TimesOut(t)
      BY <2>2, TimesOutKeepsRest
    <2>3. CASE \E s \in Sessions : Steer(s) \/ Stop(s)
      BY <2>3, SteerKeepsRest, StopKeepsRest
    <2>4. CASE \E c \in auxiliary : Send(c)
      BY <2>4, SendKeepsRest DEF Send
    <2>5. CASE \E c \in auxiliary : Answered(c) \/ CallDies(c)
      BY <2>5, FinallyKeepsRest DEF Answered, CallDies, IsDoomed, joins, told
    <2>6. CASE Shutdown \/ Join \/ Close
      BY <2>6, ShutdownKeepsRest, JoinKeepsRest, CloseKeepsRest
    <2>7. CASE UNCHANGED vars
      BY <2>7, TurnsKeepRest DEF vars, Busy, Lives
    <2> QED BY <2>1, <2>2, <2>3, <2>4, <2>5, <2>6, <2>7 DEF Next
  <1> QED BY Invariance, RestInitially, <1>1, PTL DEF Spec

\* The types hold, sessions are held by turns of their own, and never are more
\* steers under way than auxiliary tasks are allowed.
THEOREM TypesAreCorrect == Spec => []TypeOK
  <1>1. IInv /\ Rest => TypeOK
    BY DEF IInv, Tables, HeldByOwn, Held, Rest, Sorted, Places, SteersUnderWay,
       TypeOK
  <1> QED BY Invariance, CallsInvariance, <1>1, PTL

\* When shutdown is through, every runtime's task that still runs was asked to
\* stop: a turn that had not begun when it looked is asked like the others.
THEOREM ShutdownAsksEveryone == Spec => []NobodyLeftUnasked
  <1>1. Rest => NobodyLeftUnasked
    BY DEF Rest, BusyAreOwned, IsOpen, OwnedAreAsked, Busy, Lives,
       NobodyLeftUnasked
  <1> QED BY CallsInvariance, <1>1, PTL
=============================================================================
