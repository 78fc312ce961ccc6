---------------------------- MODULE TurnAdmission ----------------------------
(***************************************************************************)
(* Who owns a runtime session: the admission, the stopping, the steering   *)
(* and the finishing of turns (AgentRuntimeSessionState and the parts of   *)
(* AgentGateway that drive it).                                            *)
(*                                                                         *)
(* Every message is a thread that queues a turn, sleeps on the gateway's   *)
(* condition until the session is free, runs, spills the input it had no   *)
(* time for into the follow-up queue, publishes its answer and wakes the   *)
(* others.  A step is what happens under one hold of the gateway's lock.   *)
(*                                                                         *)
(* Turns are numbered by arrival; the number stands for the turn id, which *)
(* is drawn fresh, and for the place in the ordered _waiting_turns.        *)
(***************************************************************************)
EXTENDS Naturals, Sequences, FiniteSets

CONSTANTS
  Sessions,
  Clients,          \* client turn ids, which a retry uses again
  Inputs,           \* input ids of steers
  AnswerInputs,     \* the inputs that answer a question: settling them is a
                    \* write to the question log, which may raise
  MaxMailbox,       \* MAX_STEER_MAILBOX
  None              \* an identity that is not given

CONSTANTS           \* bounds of the model, not of the code
  MaxTurns,         \* messages ever sent
  MaxStops          \* stop requests ever made

ASSUME ConstantsFit ==
  /\ AnswerInputs \subseteq Inputs
  /\ MaxMailbox \in Nat /\ MaxTurns \in Nat /\ MaxStops \in Nat
  /\ None \notin Sessions \cup Clients

VARIABLES
  who,              \* the session and client id of each turn
  pc,               \* where the thread of each turn is
  waiting,          \* _waiting_turns
  flagged,          \* the turns whose cancelled event is set
  asleep,           \* the turns blocked in condition.wait()
  active,           \* _active_turns
  finalizing,       \* _finalizing_turns
  exclusive,        \* _exclusive_turns
  cancelled,        \* _cancelled_targets
  mailbox,          \* _steer_mailboxes
  seen,             \* _steer_seen_ids
  late,             \* undrained steers of a finishing turn
  accepting,        \* _runtime_continuation_accepting
  owed,             \* a stop was marked and its notify_all is still to come
  deleting          \* sessions whose chat is being deleted

VARIABLES           \* history
  ran,              \* turns that were admitted
  accepted,         \* <<turn, input>>: steers answered "accepted"
  taken,            \* <<turn, input>>: steers the turn drained
  deferred,         \* <<turn, input>>: steers queued as follow-ups
  rejected,         \* <<turn, input>>: steers reported back as not queued
  dropped,          \* <<turn, input>>: steers thrown away by a stop
  asked,            \* what stop requests named
  stops             \* number of stop requests

threads == <<who, pc, waiting, flagged, asleep>>
owners  == <<active, finalizing, exclusive>>
steers  == <<mailbox, seen, late>>
fates   == <<accepted, taken, deferred, rejected, dropped>>
past    == <<asked, stops>>
host    == <<accepting, owed, deleting>>
vars    == <<threads, owners, cancelled, steers, fates, host, ran, past>>

Turn == DOMAIN who
Key  == [session : Sessions, client : Clients]
Of(i) == who[i]
KeysOf(S) == {Of(i) : i \in S}

Target == [session : Sessions \cup {None}, turn : 0..MaxTurns,
           client : Clients \cup {None}]

SessionWide(t) == t.turn = 0 /\ t.client = None
Exactly(i, k)  == [session |-> k.session, turn |-> i, client |-> k.client]

\* Mutant: one identity in common is enough.
NamesInPart(t, i, k) ==
  t.session = k.session \/ t.turn = i \/ t.client = k.client

\* _cancel_target_matches for a turn that gives its full identity.
Names(t, i, k) ==
  /\ t.session \in {None, k.session}
  /\ t.turn \in {0, i}
  /\ t.client \in {None, k.client}

Ahead(i, s) == {j \in waiting : j < i /\ Of(j).session = s}

\* Mutant: a turn that is still finishing is forgotten.
MayBeginUnlessActive(i, k) ==
  /\ \A o \in KeysOf(active) : o.session # k.session
  /\ Ahead(i, k.session) = {}

\* Mutant: whoever wakes first.
MayBeginInAnyOrder(i, k) ==
  \A o \in KeysOf(active) \cup finalizing \cup exclusive : o.session # k.session

\* begin_turn's conditions, for turn i with identity k.
MayBegin(i, k) ==
  /\ k \notin KeysOf(active)
  /\ \A o \in exclusive : o.session # k.session
  /\ \A o \in KeysOf(active) \cup finalizing : o.session # k.session
  /\ Ahead(i, k.session) = {}

Busy(s) == \E k \in KeysOf(active \cup waiting) \cup finalizing : k.session = s

-----------------------------------------------------------------------------
Init ==
  /\ who = <<>> /\ pc = <<>>
  /\ waiting = {} /\ flagged = {} /\ asleep = {}
  /\ active = {} /\ finalizing = {} /\ exclusive = {}
  /\ cancelled = {}
  /\ mailbox = [k \in Key |-> <<>>] /\ seen = [k \in Key |-> {}]
  /\ late = <<>>
  /\ accepting = TRUE /\ owed = FALSE /\ deleting = {}
  /\ ran = {} /\ asked = {} /\ stops = 0
  /\ accepted = {} /\ taken = {} /\ deferred = {} /\ rejected = {}
  /\ dropped = {}

Arrives(i, k, at) ==
  /\ i = Len(who) + 1 /\ i <= MaxTurns
  /\ who' = Append(who, k)
  /\ pc' = Append(pc, at)
  /\ late' = Append(late, <<>>)

Occupied(k) == k \in KeysOf(active \cup waiting) \cup finalizing

StopsFor(i, k) == {t \in cancelled : Names(t, i, k)}

\* queue_turn returns None: the same turn is already there.
ArriveTwice(i, k) ==
  /\ Arrives(i, k, "refused")
  /\ Occupied(k)
  /\ UNCHANGED <<waiting, flagged, asleep, owners, cancelled, mailbox, seen,
                 fates, host, ran, past>>

\* A stop came before the turn, or the host is shutting down.
ArriveStopped(i, k) ==
  /\ Arrives(i, k, "refused")
  /\ ~Occupied(k)
  /\ StopsFor(i, k) # {} \/ ~accepting
  /\ cancelled' = cancelled \ StopsFor(i, k)
  /\ flagged' = IF StopsFor(i, k) # {} THEN flagged \cup {i} ELSE flagged
  /\ asleep' = {}
  /\ UNCHANGED <<waiting, owners, mailbox, seen, fates, host, ran, past>>

ArriveAndBegin(i, k) ==
  /\ Arrives(i, k, "running")
  /\ ~Occupied(k)
  /\ accepting /\ StopsFor(i, k) = {}
  /\ MayBegin(i, k)
  /\ active' = active \cup {i}
  /\ exclusive' = exclusive \cup {k}
  /\ ran' = ran \cup {i}
  /\ asleep' = {}
  /\ UNCHANGED <<waiting, flagged, finalizing, cancelled, mailbox, seen, fates,
                 host, past>>

ArriveAndWait(i, k) ==
  /\ Arrives(i, k, "waiting")
  /\ ~Occupied(k)
  /\ accepting /\ StopsFor(i, k) = {}
  /\ ~MayBegin(i, k)
  /\ waiting' = waiting \cup {i}
  /\ asleep' = asleep \cup {i}
  /\ UNCHANGED <<flagged, owners, cancelled, mailbox, seen, fates, host, ran,
                 past>>

Awake(i) == pc[i] = "waiting" /\ i \notin asleep
Goes(i, at) == pc' = [pc EXCEPT ![i] = at]

Wanted(i) == i \notin flagged /\ accepting

WakeStopped(i) ==
  /\ Awake(i)
  /\ ~Wanted(i)
  /\ Goes(i, "refused")
  /\ waiting' = waiting \ {i}
  /\ asleep' = {}
  /\ UNCHANGED <<who, flagged, owners, cancelled, steers, fates, host, ran,
                 past>>

WakeAndBegin(i) ==
  /\ Awake(i)
  /\ Wanted(i)
  /\ MayBegin(i, Of(i))
  /\ Goes(i, "running")
  /\ waiting' = waiting \ {i}
  /\ active' = active \cup {i}
  /\ exclusive' = exclusive \cup {Of(i)}
  /\ finalizing' = finalizing \ {Of(i)}
  /\ ran' = ran \cup {i}
  /\ asleep' = {}
  /\ UNCHANGED <<who, flagged, cancelled, steers, fates, host, past>>

WakeAndWait(i) ==
  /\ Awake(i)
  /\ Wanted(i)
  /\ ~MayBegin(i, Of(i))
  /\ asleep' = asleep \cup {i}
  /\ UNCHANGED <<who, pc, waiting, flagged, owners, cancelled, steers, fates,
                 host, ran, past>>

-----------------------------------------------------------------------------
\* consume_cancel_request at a boundary of the turn's loop.
ConsumeStop(i) ==
  /\ pc[i] = "running"
  /\ StopsFor(i, Of(i)) # {}
  /\ cancelled' = cancelled \ StopsFor(i, Of(i))
  /\ Goes(i, "stopping")
  /\ UNCHANGED <<who, waiting, flagged, asleep, owners, steers, fates, host,
                 ran, past>>

Pairs(i, s) == {<<i, s[n]>> : n \in DOMAIN s}

\* drain_steer at a model boundary.
Drain(i) ==
  /\ pc[i] = "running"
  /\ mailbox[Of(i)] # <<>>
  /\ taken' = taken \cup Pairs(i, mailbox[Of(i)])
  /\ mailbox' = [mailbox EXCEPT ![Of(i)] = <<>>]
  /\ UNCHANGED <<threads, owners, cancelled, seen, late, accepted, deferred,
                 rejected, dropped, host, ran, past>>

\* Mutant: one more than the mailbox holds.
HasRoomForOneMore(k) == Len(mailbox[k]) <= MaxMailbox

HasRoom(k) == Len(mailbox[k]) < MaxMailbox

IsNew(k, x) == x \notin seen[k]

\* submit_steer: a new input for the turn of k.
Steer(k, x) ==
  \E i \in active :
    /\ Of(i) = k
    /\ IsNew(k, x)
    /\ HasRoom(k)
    /\ mailbox' = [mailbox EXCEPT ![k] = Append(@, x)]
    /\ seen' = [seen EXCEPT ![k] = @ \cup {x}]
    /\ accepted' = accepted \cup {<<i, x>>}
    /\ UNCHANGED <<threads, owners, cancelled, late, taken, deferred, rejected,
                   dropped, host, ran, past>>

\* Mutant: the mailbox goes with the turn.
NothingUndrained(k) == <<>>

Undrained(k) == mailbox[k]

\* The turn's body returns or raises, and finish_turn runs.
Finish(i) ==
  /\ pc[i] \in {"running", "stopping"}
  /\ Goes(i, "finishing")
  /\ active' = active \ {i}
  /\ finalizing' = finalizing \cup {Of(i)}
  /\ late' = [late EXCEPT ![i] = Undrained(Of(i))]
  /\ mailbox' = [mailbox EXCEPT ![Of(i)] = <<>>]
  /\ seen' = [seen EXCEPT ![Of(i)] = {}]
  /\ cancelled' = {t \in cancelled : SessionWide(t) \/ ~Names(t, i, Of(i))}
  /\ UNCHANGED <<who, waiting, flagged, asleep, exclusive, fates, host, ran,
                 past>>

Spilling(i) == pc[i] = "finishing" /\ late[i] # <<>>
Spilt(i)    == late' = [late EXCEPT ![i] = Tail(@)]

\* A late steer becomes a follow-up.
Defer(i) ==
  /\ Spilling(i)
  /\ Spilt(i)
  /\ deferred' = deferred \cup {<<i, Head(late[i])>>}
  /\ UNCHANGED <<threads, owners, cancelled, mailbox, seen, accepted, taken,
                 rejected, dropped, host, ran, past>>

\* The follow-up queue refuses it, and the turn's answer says so.
DeferFails(i) ==
  /\ Spilling(i)
  /\ Spilt(i)
  /\ rejected' = rejected \cup {<<i, Head(late[i])>>}
  /\ UNCHANGED <<threads, owners, cancelled, mailbox, seen, accepted, taken,
                 deferred, dropped, host, ran, past>>

\* It is queued, but the question it answers cannot be settled: the write of
\* the question log raises, and the rest of the finally block is skipped.
SettleRaises(i) ==
  /\ Spilling(i)
  /\ Head(late[i]) \in AnswerInputs
  /\ Spilt(i)
  /\ deferred' = deferred \cup {<<i, Head(late[i])>>}
  /\ Goes(i, "lost")
  /\ UNCHANGED <<who, waiting, flagged, asleep, owners, cancelled, mailbox,
                 seen, accepted, taken, rejected, dropped, host, ran, past>>

\* record_final_response, or clear_finalizing_turn where that fails.
Record(i) ==
  /\ pc[i] = "finishing" /\ late[i] = <<>>
  /\ Goes(i, "leaving")
  /\ finalizing' = finalizing \ {Of(i)}
  /\ exclusive' = exclusive \ {Of(i)}
  /\ UNCHANGED <<who, waiting, flagged, asleep, active, cancelled, steers,
                 fates, host, ran, past>>

\* finish_turn for a message that was never admitted.
LeaveRefused(i) ==
  /\ pc[i] = "refused"
  /\ Goes(i, "leaving")
  /\ cancelled' = IF Of(i) \in KeysOf(active) THEN cancelled
                  ELSE {t \in cancelled : SessionWide(t) \/ ~Names(t, i, Of(i))}
  /\ UNCHANGED <<who, waiting, flagged, asleep, owners, steers, fates, host,
                 ran, past>>

\* Mutant: nobody is told.
NotifyNobody(i) ==
  /\ pc[i] = "leaving"
  /\ Goes(i, "done")
  /\ UNCHANGED <<who, waiting, flagged, asleep, owners, cancelled, steers,
                 fates, host, ran, past>>

\* The last lines of the finally block: notify_all.
Notify(i) ==
  /\ pc[i] = "leaving"
  /\ Goes(i, "done")
  /\ asleep' = {}
  /\ UNCHANGED <<who, waiting, flagged, owners, cancelled, steers, fates, host,
                 ran, past>>

-----------------------------------------------------------------------------
Admitted == active \cup waiting

Mark(request, targets, hit) ==
  /\ stops < MaxStops
  /\ asked' = asked \cup {request}
  /\ stops' = stops + 1
  /\ cancelled' = cancelled \cup targets
  /\ flagged' = flagged \cup (hit \cap waiting)
  /\ owed' = TRUE

\* mark_cancel_requested with a session only.
MarkSession(s) ==
  LET hit == {i \in Admitted : Of(i).session = s}
      all == [session |-> s, turn |-> 0, client |-> None]
  IN  Mark(all,
           IF hit = {} THEN {all} ELSE {Exactly(i, Of(i)) : i \in hit},
           hit)

StopSession(s) ==
  /\ MarkSession(s)
  /\ UNCHANGED <<who, pc, waiting, asleep, owners, steers, fates, accepting,
                 deleting, ran>>

Matching(t)  == {i \in Admitted : Names(t, i, Of(i))}
Colliding(t) == {i \in Admitted : \/ t.session = Of(i).session
                                  \/ t.turn = i
                                  \/ t.client = Of(i).client}

\* mark_cancel_requested with a turn id or a client id: the one turn that has
\* all it gives, or nothing that has any of it (a turn about to begin).
StopTurn(t) ==
  LET hit == Matching(t)
      box == [session |-> t.session, client |-> t.client]
  IN  /\ ~SessionWide(t) /\ t.turn <= Len(who)
      /\ Colliding(t) = {} \/ Cardinality(hit) = 1
      /\ Mark(t, IF hit = {} THEN {t} ELSE {Exactly(i, Of(i)) : i \in hit}, hit)
      /\ IF box \in Key
         THEN /\ mailbox' = [mailbox EXCEPT ![box] = <<>>]
              /\ dropped' = dropped \cup
                   UNION {Pairs(i, mailbox[box]) :
                            i \in {j \in active : Of(j) = box}}
         ELSE UNCHANGED <<mailbox, dropped>>
      /\ UNCHANGED <<who, pc, waiting, asleep, owners, seen, late, accepted,
                     taken, deferred, rejected, accepting, deleting, ran>>

\* Mutant: the sleepers are left to find out.
StopUnnoticed ==
  /\ owed
  /\ owed' = FALSE
  /\ UNCHANGED <<threads, owners, cancelled, steers, fates, accepting,
                 deleting, ran, past>>

\* request_runtime_cancel takes the lock again to wake the sleepers.
NotifyStop ==
  /\ owed
  /\ owed' = FALSE
  /\ asleep' = {}
  /\ UNCHANGED <<who, pc, waiting, flagged, owners, cancelled, steers, fates,
                 accepting, deleting, ran, past>>

\* Deleting a chat stops its session and waits for it to be idle ...
DeleteChat(s) ==
  /\ s \notin deleting
  /\ MarkSession(s)
  /\ deleting' = deleting \cup {s}
  /\ UNCHANGED <<who, pc, waiting, asleep, owners, steers, fates, accepting,
                 ran>>

\* ... to forget it (discard_session) ...
Discard(s) ==
  /\ s \in deleting /\ ~Busy(s)
  /\ deleting' = deleting \ {s}
  /\ cancelled' = {t \in cancelled : t.session # s}
  /\ UNCHANGED <<threads, owners, steers, fates, accepting, owed, ran, past>>

\* ... or gives up after a while (runtime_session_idle_guard's timeout).
GiveUp(s) ==
  /\ s \in deleting /\ Busy(s)
  /\ deleting' = deleting \ {s}
  /\ UNCHANGED <<threads, owners, cancelled, steers, fates, accepting, owed,
                 ran, past>>

\* shutdown_runtime_continuations: no waiting turn begins any more.
Shutdown ==
  /\ accepting
  /\ accepting' = FALSE
  /\ asleep' = {}
  /\ UNCHANGED <<who, pc, waiting, flagged, owners, cancelled, steers, fates,
                 owed, deleting, ran, past>>

-----------------------------------------------------------------------------
Arrive == \E i \in 1..MaxTurns, k \in Key :
            \/ ArriveTwice(i, k)
            \/ ArriveStopped(i, k)
            \/ ArriveAndBegin(i, k)
            \/ ArriveAndWait(i, k)

\* What the thread of an arrived turn does next.
Step(i) == \/ WakeStopped(i) \/ WakeAndBegin(i) \/ WakeAndWait(i)
           \/ ConsumeStop(i) \/ Drain(i) \/ Finish(i)
           \/ Defer(i) \/ DeferFails(i) \/ SettleRaises(i)
           \/ Record(i) \/ LeaveRefused(i) \/ Notify(i)

Next ==
  \/ Arrive
  \/ \E i \in Turn : Step(i)
  \/ \E k \in Key, x \in Inputs : Steer(k, x)
  \/ \E s \in Sessions : \/ StopSession(s)
                         \/ DeleteChat(s) \/ Discard(s) \/ GiveUp(s)
  \/ \E t \in Target : StopTurn(t)
  \/ NotifyStop
  \/ Shutdown

Spec == Init /\ [][Next]_vars

\* Threads get the processor and turns come to an end: the planner's budgets
\* bound a turn's loop, provider timeouts its requests.
Fairness == /\ \A i \in 1..MaxTurns :
                 WF_vars(i \in Turn /\ (\/ WakeStopped(i) \/ WakeAndBegin(i)
                                        \/ WakeAndWait(i) \/ Finish(i)
                                        \/ Defer(i) \/ Record(i)
                                        \/ LeaveRefused(i) \/ Notify(i)))
            /\ WF_vars(NotifyStop)

FairSpec == Spec /\ Fairness

-----------------------------------------------------------------------------
Place == {"waiting", "refused", "running", "stopping", "finishing", "leaving",
          "lost", "done"}

\* The types of the session state and of the turns' threads.
TypeOK ==
  /\ who \in Seq(Key) /\ Len(who) <= MaxTurns
  /\ pc \in [Turn -> Place]
  /\ waiting \subseteq Turn /\ asleep \subseteq waiting
  /\ flagged \subseteq Turn
  /\ active \subseteq Turn
  /\ finalizing \subseteq Key /\ exclusive \subseteq Key
  /\ cancelled \subseteq Target
  /\ mailbox \in [Key -> Seq(Inputs)]
  /\ \A k \in Key : Len(mailbox[k]) <= MaxMailbox
  /\ seen \in [Key -> SUBSET Inputs]
  /\ late \in [Turn -> Seq(Inputs)]
  /\ accepting \in BOOLEAN /\ owed \in BOOLEAN /\ deleting \subseteq Sessions
  /\ ran \subseteq Turn
  /\ \A fate \in {accepted, taken, deferred, rejected, dropped} :
       fate \subseteq Turn \X Inputs
  /\ asked \subseteq Target
  /\ stops \in 0..MaxStops

Owning(i) == pc[i] \in {"running", "stopping", "finishing"}

\* A session's native conversation has one owner: no two turns of a session
\* run or finish at the same time, so that the late input and the answer of
\* one are dealt with before the next one starts (begin_turn, and the markers
\* that finish_turn and record_final_response hand over).
OneOwner ==
  \A i, j \in Turn :
    (i # j /\ Owning(i) /\ Owning(j)) => Of(i).session # Of(j).session

\* Turns of a session start in the order they came: no turn runs while one
\* that came before it still waits (the order of _waiting_turns).
NoOvertaking ==
  \A i, j \in Turn :
    (i < j /\ j \in ran /\ Of(i).session = Of(j).session) => i \notin waiting

\* A stop hits what it names and nothing else: a turn stopped while it waited,
\* or before it came, never runs, and none is refused or stopped unless every
\* identity of some request is its own (the partial collisions that
\* mark_cancel_requested rejects, _cancel_target_matches, and the stops kept
\* for turns that are still to come).
StopsHitWhatTheyName ==
  /\ flagged \cap ran = {}
  /\ \A i \in Turn : (i \in flagged \/ pc[i] = "stopping") =>
       \E t \in asked : /\ t.session \in {None, Of(i).session}
                        /\ t.turn \in {0, i}
                        /\ t.client \in {None, Of(i).client}

\* Input that was accepted for a turn is in its mailbox, or the turn has taken
\* it in, or it is a follow-up, or the answer says that it is not, or a stop
\* of just that turn threw it away: it does not disappear with the mailbox
\* (finish_turn's undrained steers and the finally block that queues them). A
\* finally block that breaks off keeps what it had not come to in its local
\* list; that it should not break off is FinalizationIsClosed. However often
\* it is sent again, a turn takes it in once, and what it has taken in does
\* not come back as a follow-up (_steer_seen_ids).
SteersAccounted ==
  /\ \A i \in Turn, x \in Inputs : <<i, x>> \in accepted =>
       \/ i \in active /\ x \in {mailbox[Of(i)][n] : n \in DOMAIN mailbox[Of(i)]}
       \/ /\ pc[i] \in {"finishing", "lost"}
          /\ x \in {late[i][n] : n \in DOMAIN late[i]}
       \/ <<i, x>> \in taken \cup deferred \cup rejected \cup dropped
  /\ \A k \in Key : \A m, n \in DOMAIN mailbox[k] :
       m # n => mailbox[k][m] # mailbox[k][n]
  /\ \A i \in active : Pairs(i, mailbox[Of(i)]) \cap taken = {}
  /\ taken \cap (deferred \cup rejected) = {}

\* No turn sleeps for good: one that could start, or is to be refused, is
\* awake or somebody still has its notify_all to do (the condition is shared
\* by every session, and the markers change outside it).
NoLostWakeup ==
  \A i \in asleep :
    (MayBegin(i, Of(i)) \/ i \in flagged \/ ~accepting) =>
      \/ owed
      \/ \E j \in Turn : pc[j] \in {"leaving", "refused"}

\* The finalization marker of a turn is there while its thread is at work on
\* it: it is closed even when bookkeeping cannot be stored
\* (clear_finalizing_turn's docstring).
FinalizationIsClosed ==
  \A k \in finalizing : \E i \in Turn : Of(i) = k /\ pc[i] = "finishing"

\* Every message is answered, however the turns before it end.
EveryTurnEnds ==
  \A i \in 1..MaxTurns : (i \in Turn) ~> (i \in Turn /\ pc[i] = "done")
=============================================================================
