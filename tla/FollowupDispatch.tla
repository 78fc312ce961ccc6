-------------------------- MODULE FollowupDispatch --------------------------
(***************************************************************************)
(* How queued input becomes a turn: the message route of the host          *)
(* (_execute_app_agent_runtime_message) on top of the follow-up queue and  *)
(* of turn admission.                                                      *)
(*                                                                         *)
(* A worker is one request to the route.  It claims an entry, hands it to  *)
(* the runtime, and settles the claim by what the runtime did.  The queue  *)
(* is used through its promise, FollowupLane; of the runtime there is left *)
(* which turns run and what a later request can learn of those that ended. *)
(* A lane is the session its inputs run in, as the route takes it when no  *)
(* lane is given.                                                          *)
(***************************************************************************)
EXTENDS Naturals, FiniteSets

CONSTANTS
  Sessions,
  Turns,            \* client turn ids
  Workers           \* requests under way at the same time

CONSTANTS           \* bounds of the model, not of the code
  MaxNumber,        \* inputs ever queued
  MaxToken          \* claims ever granted

ASSUME BoundsAreNaturals == MaxNumber \in Nat /\ MaxToken \in Nat

VARIABLES
  line,             \* the queue, as FollowupLane has it
  lapsed,           \* inputs whose claim has outlived its lease
  issued,           \* claim tokens drawn
  work,             \* what each worker is at, for which input, with which token
  adrift,           \* inputs waiting for admission with no request behind them
  live,             \* inputs whose turn is active in the runtime
  recent,           \* inputs with an answer among _final_responses
  ledger            \* inputs whose last invocation the run ledger has ended

VARIABLES           \* history
  over,             \* inputs a turn of which came to an end, whatever end
  fine,             \* inputs whose turn returned to its worker
  outrun,           \* inputs whose lease ran out
  torn,             \* inputs a crash or a failed write came in between
  revoked           \* inputs cancelled by the user

runtime == <<adrift, live, recent, ledger>>
history == <<over, fine, outrun, torn, revoked>>
vars    == <<line, lapsed, issued, work, runtime, history>>

Numbers == 1..MaxNumber

Lane == INSTANCE FollowupLane WITH Holders <- 1..MaxToken

Idle == [at |-> "idle", input |-> 0, token |-> 0]

At(w, place)    == work[w].at = place
Moves(w, place) == work' = [work EXCEPT ![w].at = place]
Rests(w)        == work' = [work EXCEPT ![w] = Idle]

\* The claim of worker w is still the one the queue knows.
Holds(w) == LET n == work[w].input IN
              line[n].phase = "held" /\ line[n].holder = work[w].token

\* get_runtime_session's status of the exact turn is completed or failed ...
Ended(n) == n \notin live \cup adrift /\ n \in recent \cup ledger

\* ... unless another request for it may be waiting in the runtime by then.
Pending(n) == \E w \in Workers : At(w, "claimed") /\ work[w].input = n

Init ==
  /\ Lane!Init
  /\ lapsed = {} /\ issued = 0
  /\ work = [w \in Workers |-> Idle]
  /\ adrift = {} /\ live = {} /\ recent = {} /\ ledger = {}
  /\ over = {} /\ fine = {}
  /\ outrun = {} /\ torn = {} /\ revoked = {}

Queue(s, t) ==
  LET n == Cardinality(DOMAIN line) + 1
  IN  /\ n \in Numbers
      /\ Lane!Accept(s, t, n)
      /\ UNCHANGED <<lapsed, issued, work, runtime, history>>

IsUnheld(n) == line[n].phase = "waiting"

\* cancel without a token: an input nobody holds.
UserCancels(n) ==
  /\ IsUnheld(n)
  /\ Lane!Settle(n)
  /\ revoked' = revoked \cup {n}
  /\ UNCHANGED <<lapsed, issued, work, runtime, over, fine, outrun, torn>>

LeaseRunsOut(n) ==
  /\ line[n].phase = "held" /\ n \notin lapsed
  /\ lapsed' = lapsed \cup {n}
  /\ outrun' = outrun \cup {n}
  /\ UNCHANGED <<line, issued, work, runtime, over, fine, torn, revoked>>

-----------------------------------------------------------------------------
Claim(w, n) ==
  /\ At(w, "idle")
  /\ issued < MaxToken
  /\ line[n].phase = "held" => n \in lapsed
  /\ Lane!Hand(n, issued + 1)
  /\ issued' = issued + 1
  /\ lapsed' = lapsed \ {n}
  /\ work' = [work EXCEPT ![w] = [at |-> "claimed", input |-> n,
                                  token |-> issued + 1]]
  /\ UNCHANGED <<runtime, history>>

\* Mutant: the runtime does not look for a turn of the same id.
FreeForOthers(n) == \A m \in live : m = n \/ line[m].session # line[n].session

\* No turn of the session is active (queue_turn and begin_turn).
Free(n) == \A m \in live : line[m].session # line[n].session

\* The runtime admits the turn; a new invocation voids the ledger's last end.
Begins(n) ==
  /\ Free(n)
  /\ live' = live \cup {n}
  /\ ledger' = ledger \ {n}
  /\ UNCHANGED <<line, lapsed, issued, recent, over, fine, outrun, torn, revoked>>

Admit(w) ==
  /\ At(w, "claimed")
  /\ work[w].input \notin adrift
  /\ Begins(work[w].input)
  /\ Moves(w, "turn")
  /\ UNCHANGED adrift

\* runtime_admitted is False: the same turn is there already, the provider is
\* not set up, the turn was stopped while it waited.
Refuse(w) ==
  /\ At(w, "claimed")
  /\ Moves(w, "refused")
  /\ UNCHANGED <<line, lapsed, issued, runtime, history>>

\* It fails before the runtime is asked (desktop control is off), with an error
\* that says nothing of admission.
FailsEarly(w) ==
  /\ At(w, "claimed")
  /\ Moves(w, "raised")
  /\ UNCHANGED <<line, lapsed, issued, runtime, history>>

\* The turn is over, and a later request may or may not find out: an answer is
\* not always kept, and pushes older ones out.
Ends(n, kept) ==
  /\ live' = live \ {n}
  /\ recent' \in SUBSET (recent \cup {n})
  /\ ledger' \in kept
  /\ over' = over \cup {n}
  /\ UNCHANGED adrift

TurnReturns(w) ==
  LET n == work[w].input
  IN  /\ At(w, "turn")
      /\ Moves(w, "returned")
      /\ Ends(n, {ledger \cup {n}})
      /\ fine' = fine \cup {n}
      /\ UNCHANGED <<line, lapsed, issued, outrun, torn, revoked>>

TurnRaises(w) ==
  LET n == work[w].input
  IN  /\ At(w, "turn")
      /\ Moves(w, "raised")
      /\ Ends(n, {ledger, ledger \cup {n}})
      /\ UNCHANGED <<line, lapsed, issued, fine, outrun, torn, revoked>>

\* The request is cancelled; the thread goes on, waiting or with the turn.
Abandon(w) ==
  LET n == work[w].input
  IN  /\ At(w, "claimed") \/ At(w, "turn")
      /\ Moves(w, "raised")
      /\ adrift' = IF At(w, "claimed") THEN adrift \cup {n} ELSE adrift
      /\ torn' = torn \cup {n}
      /\ UNCHANGED <<line, lapsed, issued, live, recent, ledger, over, fine,
                     outrun, revoked>>

AdmitAlone(n) ==
  /\ n \in adrift
  /\ Begins(n)
  /\ adrift' = adrift \ {n}
  /\ UNCHANGED work

RefuseAlone(n) ==
  /\ n \in adrift
  /\ adrift' = adrift \ {n}
  /\ UNCHANGED <<line, lapsed, issued, work, live, recent, ledger, history>>

TurnEndsAlone(n) ==
  /\ n \in live
  /\ \A w \in Workers : ~(At(w, "turn") /\ work[w].input = n)
  /\ Ends(n, {ledger, ledger \cup {n}})
  /\ UNCHANGED <<line, lapsed, issued, work, fine, outrun, torn,
                 revoked>>

-----------------------------------------------------------------------------
\* Mutant: any failure is the end of the input.
AnyEnd(w) == At(w, "returned") \/ At(w, "refused")

\* The turn returned, or it raised and is known to have ended.
IsOver(w) ==
  \/ At(w, "returned")
  \/ At(w, "raised") /\ Ended(work[w].input)

\* Mutant: a turn that returned goes back to the queue.
GoesBack(w) == At(w, "refused") \/ At(w, "returned")

IsRefused(w) == At(w, "refused")

Unlapsed(n) == lapsed \ {n}

\* The queue answers False to a worker whose claim is gone, which nobody reads.
Answers(w, effect) ==
  /\ IF Holds(w) THEN effect /\ lapsed' = Unlapsed(work[w].input)
                 ELSE UNCHANGED <<line, lapsed>>
  /\ Rests(w)
  /\ UNCHANGED <<issued, runtime, history>>

Ack(w)     == IsOver(w) /\ Answers(w, Lane!Settle(work[w].input))
Release(w) == IsRefused(w) /\ Answers(w, Lane!GiveBack(work[w].input))

\* It raised and nothing is known of it: the claim stays until its lease ends.
LeaveClaimed(w) ==
  /\ At(w, "raised")
  /\ ~Ended(work[w].input) \/ Pending(work[w].input)
  /\ Rests(w)
  /\ UNCHANGED <<line, lapsed, issued, runtime, history>>

\* The queue cannot write its file, and the route goes on without.
SettleFails(w) ==
  /\ At(w, "returned") \/ At(w, "refused") \/ At(w, "raised")
  /\ Rests(w)
  /\ torn' = torn \cup {work[w].input}
  /\ UNCHANGED <<line, lapsed, issued, runtime, over, fine, outrun, revoked>>

\* The process dies and comes back; the ledger may close what was running.
Crash ==
  /\ work' = [w \in Workers |-> Idle]
  /\ adrift' = {} /\ live' = {} /\ recent' = {}
  /\ ledger' \in {ledger, ledger \cup live}
  /\ over' = over \cup live
  /\ torn' = torn \cup live
               \cup {work[w].input : w \in {v \in Workers : ~At(v, "idle")}}
  /\ UNCHANGED <<line, lapsed, issued, fine, outrun, revoked>>

Next ==
  \/ \E s \in Sessions, t \in Turns : Queue(s, t)
  \/ \E n \in DOMAIN line : UserCancels(n) \/ LeaseRunsOut(n)
  \/ \E w \in Workers, n \in DOMAIN line : Claim(w, n)
  \/ \E w \in Workers : \/ Admit(w) \/ Refuse(w) \/ FailsEarly(w)
                        \/ TurnReturns(w) \/ TurnRaises(w) \/ Abandon(w)
                        \/ Ack(w) \/ Release(w) \/ LeaveClaimed(w)
                        \/ SettleFails(w)
  \/ \E n \in live : TurnEndsAlone(n)
  \/ \E n \in adrift : AdmitAlone(n) \/ RefuseAlone(n)
  \/ Crash

Spec == Init /\ [][Next]_vars

-----------------------------------------------------------------------------
Place == {"idle", "claimed", "turn", "returned", "refused", "raised"}

\* The types of the queue, the workers and the runtime.
TypeOK ==
  /\ DOMAIN line \subseteq Numbers
  /\ line \in [DOMAIN line -> [session : Sessions, turn : Turns,
                               phase : {"waiting", "held", "settled"},
                               holder : 0..MaxToken]]
  /\ lapsed \subseteq {n \in DOMAIN line : line[n].phase = "held"}
  /\ issued \in 0..MaxToken
  /\ work \in [Workers -> [at : Place, input : {0} \cup DOMAIN line,
                           token : 0..MaxToken]]
  /\ \A set \in {adrift, live, recent, ledger, over, fine, outrun, torn,
                   revoked} :
       set \subseteq DOMAIN line

\* One input is never run by two workers at once, nor two inputs of a session:
\* also when a lease ran out under a turn and a second worker was given the
\* input (the runtime's admission, which the lease leaves it to).
NoParallelRuns ==
  /\ \A v, w \in Workers :
       (v # w /\ At(v, "turn") /\ At(w, "turn"))
         => line[work[v].input].session # line[work[w].input].session
  /\ \A w \in Workers : At(w, "turn") => work[w].input \in live

\* Input is not lost: it leaves the queue because a turn of it came to an end
\* or because the user took it back, never because it was refused
\* (the three ways to settle in the route's finally block).
SettledMeansRan ==
  \A n \in DOMAIN line : line[n].phase = "settled" => n \in over \cup revoked

\* Input whose turn has returned, or that the user has taken back, is begun
\* once more only if its lease ran out under a worker, or a crash, a broken-off
\* request or a failed write came between (a success is settled before anybody
\* else is given the input; cancel is refused while a claim is good, but does
\* not reach a thread that waits for its session with a stale one).
OnlyAccidentsRerun ==
  [][\A n \in live' \ live :
       n \in fine \cup revoked => n \in outrun \cup torn]_vars

\* A successful runtime is consumed: once nobody is at work on an input whose
\* turn returned, the input has left the queue, where no crash and no failed
\* write came in between.
SuccessIsConsumed ==
  \A n \in fine \ torn :
    (\A w \in Workers : work[w].input # n) => line[n].phase = "settled"
=============================================================================
