---------------------------- MODULE GoalDelivery ----------------------------
(***************************************************************************)
(* One background delivery of a goal from its wake to its end: the         *)
(* coordinator (BackgroundGoalDeliveryCoordinator) over the goal store,    *)
(* the lane budget, the approvals and the questions.                       *)
(*                                                                         *)
(* A request is a coroutine of the host with at most one worker thread: it *)
(* executes the woken delivery, or the action that the user has approved.  *)
(* Requests, workers, drain tasks, the monitor and the user interleave     *)
(* between any two calls of the store, each of which is made under its     *)
(* lock.  What the row becomes is GoalStore's.                             *)
(***************************************************************************)
EXTENDS GoalStore, FiniteSets

CONSTANTS           \* bounds of the model, not of the code
  MaxRuns,          \* times the runtime is started for the delivery
  MaxTrouble        \* restarts, failed writes and refusals by the environment

ASSUME BoundsAreNaturals == MaxRuns \in Nat /\ MaxTrouble \in Nat

VARIABLES
  row,              \* the delivery in the store
  result,           \* its result file
  lease,            \* who holds the leases goal:<id> and goal-apply:<id>
  req,              \* what each request is at, with whom its worker is left
  decision,         \* the status of each approval
  asked             \* the status of each question

VARIABLES           \* history
  runs,             \* times the runtime was started
  unpaid,           \* attempts that were made and not counted
  loose,            \* work went on without its lease
  early,            \* questions answered before the delivery waited for them
  reopened,         \* an answer has opened a settled delivery again
  trouble           \* what the environment did against it

outside == <<decision, asked>>
history == <<runs, unpaid, loose, early, reopened, trouble>>
vars    == <<row, result, lease, req, outside, history>>

Requests == Clients

Plain    == {"denied", "failed", "parked", "done"}
Outcomes == Plain \cup Approvals \cup Questions

ASSUME OutcomesDiffer == Plain \cap (Approvals \cup Questions) = {}

\* Who waits for the worker: the request, a drain task or nobody.  A request
\* that is alone runs an approved action outside the coordinator.
Care == {"kept", "drain", "nobody", "alone"}

Idle == [at |-> "idle", for |-> "goal", care |-> "kept", again |-> FALSE,
         out |-> None]

At(r, place)   == req[r].at = place
Goes(r, place) == req' = [req EXCEPT ![r].at = place]
Kept(r)        == req[r].care = "kept"

Working == {"beginning", "calling", "delivering", "linking",
            "approving", "applying", "resolving"}
Between == {"leased", "begun", "returned", "approved"}
Outside == {"idle", "listed", "woken", "refused"}
Place   == Outside \cup Working \cup Between \cup
             {"raised", "overdue", "marking", "restoring", "failing", "over"}

\* The finally block; whoever holds the lease by now, it is gone.
Released(r) == [lease EXCEPT ![req[r].for] = None]

\* Mutant: a way out of the coordinator that keeps its lease.
KeepsLease(r) == req' = [req EXCEPT ![r] = Idle] /\ UNCHANGED lease

Leaves(r) ==
  /\ req' = [req EXCEPT ![r] = Idle]
  /\ lease' = IF req[r].care = "alone" THEN lease ELSE Released(r)

\* The worker is done: the request goes on, or the drain task has its turn.
WorkerEnds(r, place) ==
  /\ req' = [req EXCEPT ![r] =
               CASE req[r].care \in {"kept", "alone"} -> [@ EXCEPT !.at = place]
                 [] req[r].care = "drain" -> [@ EXCEPT !.at = "over"]
                 [] OTHER -> Idle]
  /\ UNCHANGED lease

Raises(r, again) ==
  /\ req' = [req EXCEPT ![r].at = "raised", ![r].again = again]
  /\ UNCHANGED lease

Trouble ==
  /\ trouble < MaxTrouble
  /\ trouble' = trouble + 1
  /\ UNCHANGED <<runs, unpaid, loose, early, reopened>>

\* Beyond MaxRuns it says no more than at it.
OneMore == IF unpaid < MaxRuns THEN unpaid + 1 ELSE unpaid

Init ==
  /\ row = Absent /\ result = "none"
  /\ lease = [t \in {"goal", "apply"} |-> None]
  /\ req = [r \in Requests |-> Idle]
  /\ decision = [a \in Approvals |-> "none"]
  /\ asked = [q \in Questions |-> "none"]
  /\ runs = 0 /\ unpaid = 0 /\ loose = FALSE /\ early = {}
  /\ reopened = FALSE /\ trouble = 0

-----------------------------------------------------------------------------
(* The client: it wakes what was due when it looked, and executes whatever   *)
(* the wake answers.                                                         *)

\* The goal's next wake is this occurrence, still or again.
IsDue == row.wakes = 0 \/ (reopened /\ ~IsSettled(row))

Lists(r) ==
  /\ At(r, "idle")
  /\ IsDue
  /\ row.status \in {"none"} \cup Retryable
  /\ Goes(r, "listed")
  /\ UNCHANGED <<row, result, lease, outside, history>>

Wakes(r) ==
  /\ At(r, "listed")
  /\ IsDue
  /\ row' = [Wake(row, result) EXCEPT !.known = @ \cup {r}]
  /\ Goes(r, "woken")
  /\ UNCHANGED <<result, lease, outside, history>>

NotDue(r) ==
  /\ At(r, "listed")
  /\ ~IsDue
  /\ Goes(r, "idle")
  /\ UNCHANGED <<row, result, lease, outside, history>>

WakeBreaks(r) ==
  /\ At(r, "listed")
  /\ row.status = "none"
  /\ row' = HalfWake(row)
  /\ Goes(r, "idle")
  /\ Trouble
  /\ UNCHANGED <<result, lease, outside>>

\* The wake outlives its time limit, and the host takes the claim back.
WakeTimesOut(r) ==
  /\ At(r, "woken")
  /\ row' = Defer(row)
  /\ Goes(r, "idle")
  /\ UNCHANGED <<result, lease, outside, history>>

Vanishes(r) ==
  /\ At(r, "woken")
  /\ Goes(r, "idle")
  /\ UNCHANGED <<row, result, lease, outside, history>>

\* Mutant: no lease for a delivery.
NobodyChecks(token) == TRUE

IsFree(token) == lease[token] = None

Executes(r) ==
  /\ At(r, "woken")
  /\ IsFree("goal")
  /\ lease' = [lease EXCEPT !["goal"] = r]
  /\ Goes(r, "leased")
  /\ UNCHANGED <<row, result, outside, history>>

AlreadyRuns(r) ==
  /\ At(r, "woken")
  /\ ~IsFree("goal")
  /\ Goes(r, "refused")
  /\ UNCHANGED <<row, result, lease, outside, history>>

HandsBack(r) ==
  /\ At(r, "refused")
  /\ row' = IF r \in row.known THEN Defer(row) ELSE row
  /\ Goes(r, "idle")
  /\ UNCHANGED <<result, lease, outside, history>>

NoRoom(r) ==
  /\ At(r, "woken")
  /\ IsFree("goal")
  /\ row' = Defer(row)
  /\ Goes(r, "idle")
  /\ Trouble
  /\ UNCHANGED <<result, lease, outside>>

\* list_recoverable and mark_materialized: the client shows a result.
Recovers ==
  /\ row' = Recover(row, result) /\ row' # row
  /\ UNCHANGED <<result, lease, req, outside, history>>

FindsCorrupt ==
  /\ row.status = "completed" /\ result # "good"
  /\ row' = Corrupt(row)
  /\ UNCHANGED <<result, lease, req, outside, history>>

Materialize ==
  /\ row.status = "completed"
  /\ row' = Becomes(row, "materialized")
  /\ UNCHANGED <<result, lease, req, outside, history>>

-----------------------------------------------------------------------------
(* execute: preflight, project lock, provider call, delivery.                *)

Unreachable(r) ==
  /\ At(r, "leased")
  /\ trouble < MaxTrouble
  /\ row' = Skip(row)
  /\ Leaves(r)
  /\ unpaid' = IF row.status \in {"pending", "claimed"} THEN unpaid ELSE OneMore
  /\ trouble' = trouble + 1
  /\ UNCHANGED <<result, outside, runs, loose, early, reopened>>

\* A phase is recorded; a row found draining is closed by the request.
Enters(r, place) ==
  /\ row' = MarkPhase(row)
  /\ req' = [req EXCEPT ![r] =
               IF row.status = "draining"
               THEN [@ EXCEPT !.at = "overdue", !.again = TRUE]
               ELSE [@ EXCEPT !.at = place]]
  /\ UNCHANGED <<result, lease, outside>>

EntersProjectLock(r) ==
  At(r, "leased") /\ Enters(r, "beginning") /\ UNCHANGED history

\* begin_delivery, in a worker.
Begins(r) ==
  LET d == Recover(row, result)
  IN  /\ At(r, "beginning")
      /\ d.status \in Startable
      /\ row' = Begin(d)
      /\ unpaid' = IF d.status \in Retryable THEN OneMore ELSE unpaid
      /\ WorkerEnds(r, "begun")
      /\ UNCHANGED <<result, outside, runs, loose, early, reopened, trouble>>

HasEnded(r) ==
  LET d == Recover(row, result)
  IN  /\ At(r, "beginning")
      /\ d.status = "completed" /\ result = "good"
      /\ row' = d
      /\ IF Kept(r) THEN Leaves(r) ELSE WorkerEnds(r, "begun")
      /\ UNCHANGED <<result, outside, history>>

\* begin_delivery raises, and a delivery that others run is failed for it.
MayNotBegin(r) ==
  LET d == Recover(row, result)
  IN  /\ At(r, "beginning")
      /\ d.status \notin Startable
      /\ d.status = "completed" => result # "good"
      /\ row' = IF d.status = "completed" THEN Corrupt(d) ELSE d
      /\ IF Kept(r) THEN Raises(r, FALSE) ELSE WorkerEnds(r, "begun")
      /\ UNCHANGED <<result, outside, history>>

Calls(r) ==
  /\ At(r, "begun")
  /\ row.status # "draining" => runs < MaxRuns
  /\ Enters(r, "calling")
  /\ runs' = IF row.status = "draining" THEN runs ELSE runs + 1
  /\ UNCHANGED <<unpaid, loose, early, reopened, trouble>>

Returns(r, out) ==
  /\ At(r, "calling")
  /\ out \in Approvals => decision[out] = "none"
  /\ out \in Questions => asked[out] = "none"
  /\ decision' = [a \in Approvals |->
                    IF a = out THEN "pending" ELSE decision[a]]
  /\ asked' = [q \in Questions |-> IF q = out THEN "pending" ELSE asked[q]]
  /\ req' = [req EXCEPT ![r] =
               CASE req[r].care = "kept" -> [@ EXCEPT !.at = "returned",
                                                      !.out = out]
                 [] req[r].care = "drain" -> [@ EXCEPT !.at = "over"]
                 [] OTHER -> Idle]
  /\ UNCHANGED <<row, result, lease, history>>

CallRaises(r, again) ==
  /\ At(r, "calling")
  /\ IF Kept(r) THEN Raises(r, again) ELSE WorkerEnds(r, "raised")
  /\ UNCHANGED <<row, result, outside, history>>

EntersDelivery(r) ==
  /\ At(r, "returned")
  /\ row' = MarkPhase(row)
  /\ Goes(r, "delivering")
  /\ UNCHANGED <<result, lease, outside, history>>

\* What persist_outcome answers with decides: a row found draining is closed.
Delivered(r, d) ==
  /\ row' = d
  /\ IF ~Kept(r) THEN WorkerEnds(r, "delivering")
     ELSE IF d.status = "draining"
          THEN /\ req' = [req EXCEPT ![r].at = "overdue", ![r].again = TRUE]
               /\ UNCHANGED lease
          ELSE Leaves(r)

Outcome(d, out) ==
  CASE out \in Questions -> Block(d, "question", out)
    [] out = "denied"    -> Deny(d)
    [] out = "failed"    -> Fail(d, FALSE)
    [] out = "parked"    -> Park(d)

PersistsOutcome(r) ==
  /\ At(r, "delivering")
  /\ req[r].out \in Questions \cup (Plain \ {"done"})
  /\ Delivered(r, Outcome(row, req[r].out))
  /\ UNCHANGED <<result, outside, history>>

\* Mutant: it is not asked again whether the user has decided meanwhile.
BlocksUnasked(r) ==
  /\ At(r, "delivering")
  /\ req[r].out \in Approvals
  /\ Delivered(r, Block(row, "approval", req[r].out))
  /\ UNCHANGED <<result, outside, history>>

PersistsBlock(r) ==
  /\ At(r, "delivering")
  /\ req[r].out \in Approvals
  /\ row' = Block(row, "approval", req[r].out)
  /\ Goes(r, "linking")
  /\ UNCHANGED <<result, lease, outside, history>>

\* Mutant: a row is completed whatever became of it meanwhile.
LetsThrough == Startable \cup {"running", "draining"}

Accepts == {"running"}

\* complete_delivery: a good result file, then the event.
PersistsResult(r) ==
  LET d == Recover(row, result)
  IN  /\ At(r, "delivering") /\ req[r].out = "done"
      /\ IF d.status \in Accepts
         THEN Delivered(r, Complete(d)) /\ result' = "good"
         ELSE /\ IsTerminal(d) \/ d.status \in {"draining", "applying"}
              /\ Delivered(r, d) /\ UNCHANGED result
      /\ UNCHANGED <<outside, history>>

NotItsTurn(r) ==
  /\ At(r, "delivering") /\ req[r].out = "done"
  /\ Recover(row, result) = row
  /\ ~IsTerminal(row) /\ row.status \notin Accepts \cup {"draining", "applying"}
  /\ IF Kept(r) THEN Raises(r, FALSE) ELSE WorkerEnds(r, "raised")
  /\ UNCHANGED <<row, result, outside, history>>

\* The file is written and the event is not.
PersistBreaks(r, again) ==
  /\ At(r, "delivering") /\ req[r].out = "done"
  /\ row.status \in Accepts
  /\ result' = "good"
  /\ IF Kept(r) THEN Raises(r, again) ELSE WorkerEnds(r, "raised")
  /\ Trouble
  /\ UNCHANGED <<row, outside>>

-----------------------------------------------------------------------------
\* reconcile_linked_agent_goal_approval
MayLink(a) == decision[a] \in {"applied", "failed"} => MayResolve(row, a)

Linked(d, a) ==
  CASE decision[a] = "rejected" -> IF d.approval = a THEN Deny(d) ELSE d
    [] decision[a] \in {"applied", "failed"} ->
         ResolveApproval(d, a, decision[a] = "applied")
    [] OTHER -> d

\* Completing writes the result file too.
WritesFile(d) ==
  result' = IF d.status = "completed" /\ row.status # "completed"
            THEN "good" ELSE result

Links(r) ==
  LET d == Linked(row, req[r].out)
  IN  /\ At(r, "linking")
      /\ MayLink(req[r].out)
      /\ Delivered(r, d) /\ WritesFile(d)
      /\ UNCHANGED <<outside, history>>

Fails(r) ==
  /\ At(r, "raised")
  /\ row' = Fail(row, req[r].again)
  /\ Leaves(r)
  /\ UNCHANGED <<result, outside, history>>

\* finish_agent_goal_delivery_drain by the request itself.
ClosesDrain(r) ==
  /\ At(r, "overdue")
  /\ MayFinish(row)
  /\ row' = FinishDrain(row, req[r].again)
  /\ Leaves(r)
  /\ UNCHANGED <<result, outside, history>>

-----------------------------------------------------------------------------
(* execute_approved_action.                                                  *)

UserApproves(r, a) ==
  /\ At(r, "idle")
  /\ decision[a] \in {"pending", "approved"}
  /\ row.approval = a
  /\ IsFree("apply")
  /\ lease' = [lease EXCEPT !["apply"] = r]
  /\ req' = [req EXCEPT ![r] = [Idle EXCEPT !.at = "marking", !.for = "apply",
                                            !.out = a]]
  /\ UNCHANGED <<row, result, outside, history>>

\* The delivery does not wait for it yet: no lane, no phases.
UserApprovesEarly(r, a) ==
  /\ At(r, "idle")
  /\ decision[a] \in {"pending", "approved"}
  /\ row.approval # a
  /\ req' = [req EXCEPT ![r] = [Idle EXCEPT !.at = "approving", !.for = "apply",
                                            !.care = "alone", !.out = a]]
  /\ UNCHANGED <<row, result, lease, outside, history>>

EntersApply(r) ==
  /\ At(r, "marking")
  /\ row' = MarkApply(row, req[r].out)
  /\ Goes(r, "approving")
  /\ UNCHANGED <<result, lease, outside, history>>

\* Cancelled before it knows that it has begun.
CancelledInMark(r) ==
  /\ At(r, "marking")
  /\ row' = MarkApply(row, req[r].out)
  /\ Leaves(r)
  /\ Trouble
  /\ UNCHANGED <<result, outside>>

Approves(r) ==
  /\ At(r, "approving")
  /\ decision[req[r].out] \in {"pending", "approved"}
  /\ decision' = [decision EXCEPT ![req[r].out] = "approved"]
  /\ WorkerEnds(r, "approved")
  /\ UNCHANGED <<row, result, asked, history>>

ApproveFails(r) ==
  /\ At(r, "approving")
  /\ \/ decision[req[r].out] \notin {"pending", "approved"} /\ UNCHANGED history
     \/ decision[req[r].out] \in {"pending", "approved"} /\ Trouble
  /\ IF req[r].care = "alone" THEN Leaves(r) ELSE WorkerEnds(r, "restoring")
  /\ UNCHANGED <<row, result, outside>>

Restores(r) ==
  LET a == req[r].out
      d == IF decision[a] \in {"rejected", "applied", "failed"}
           THEN IF MayLink(a) THEN Linked(row, a) ELSE Fail(row, FALSE)
           ELSE RestoreWait(row, a)
  IN  /\ At(r, "restoring")
      /\ row' = d /\ WritesFile(d)
      /\ Leaves(r)
      /\ UNCHANGED <<outside, history>>

Applies(r) ==
  /\ At(r, "approved")
  /\ IF decision[req[r].out] = "approved"
     THEN /\ decision' = [decision EXCEPT ![req[r].out] = "applying"]
          /\ Goes(r, "applying")
     ELSE UNCHANGED decision /\ Goes(r, "failing")
  /\ UNCHANGED <<row, result, lease, asked, history>>

ActionEnds(r, how) ==
  /\ At(r, "applying")
  /\ decision' = [decision EXCEPT ![req[r].out] = how]
  /\ Goes(r, "resolving")
  /\ UNCHANGED <<row, result, lease, asked, history>>

\* Still in the worker: attach_linked_goal_resolution.
Resolves(r) ==
  LET a == req[r].out
      d == IF MayLink(a) THEN Linked(row, a)
           ELSE IF Kept(r) THEN Fail(row, FALSE) ELSE row
  IN  /\ At(r, "resolving")
      /\ row' = d /\ WritesFile(d)
      /\ IF Kept(r) /\ d.status = "draining"
         THEN /\ req' = [req EXCEPT ![r].at = "overdue", ![r].again = FALSE]
              /\ UNCHANGED lease
         ELSE IF req[r].care \in {"kept", "alone"} THEN Leaves(r)
                                                   ELSE WorkerEnds(r, "over")
      /\ UNCHANGED <<outside, history>>

\* The result of the action cannot be written down, not at the second try.
ResolveBreaks(r) ==
  /\ At(r, "resolving")
  /\ row' = IF Kept(r) THEN Fail(row, FALSE) ELSE row
  /\ IF req[r].care \in {"kept", "alone"} THEN Leaves(r)
                                          ELSE WorkerEnds(r, "over")
  /\ Trouble
  /\ UNCHANGED <<result, outside>>

ApplyFails(r) ==
  /\ At(r, "failing")
  /\ row' = ResolveApproval(row, req[r].out, FALSE)
  /\ Leaves(r)
  /\ UNCHANGED <<result, outside, history>>

-----------------------------------------------------------------------------
(* Time limits, cancellation, and what is left of a request after them.      *)

PhaseOf(r) == IF req[r].for = "apply" THEN "apply" ELSE "run"

TimesOut(r) ==
  /\ req[r].at \in Working /\ Kept(r)
  /\ row' = Drain(row, PhaseOf(r))
  /\ req' = [req EXCEPT ![r].care = "drain",
                        ![r].again = req[r].for = "goal"]
  /\ UNCHANGED <<result, lease, outside, history>>

\* _cancel_delivery, with a worker: it is left alone where the row is not
\* draining, and the lease given back under it.
Cancelled(r) ==
  LET d == Drain(row, PhaseOf(r))
  IN  /\ req[r].at \in Working /\ Kept(r)
      /\ trouble < MaxTrouble
      /\ row' = d
      /\ IF d.status = "draining"
         THEN /\ req' = [req EXCEPT ![r].care = "drain", ![r].again = FALSE]
              /\ UNCHANGED <<lease, loose>>
         ELSE /\ req' = [req EXCEPT ![r].care = "nobody"]
              /\ lease' = Released(r)
              /\ loose' = TRUE
      /\ trouble' = trouble + 1
      /\ UNCHANGED <<result, outside, runs, unpaid, early, reopened>>

CancelledBetween(r) ==
  LET d == Drain(row, PhaseOf(r))
  IN  /\ req[r].at \in Between
      /\ req[r].care = "kept"
      /\ row' = d
      /\ IF d.status = "draining"
         THEN /\ req' = [req EXCEPT ![r].at = "over", ![r].care = "drain",
                                    ![r].again = FALSE]
              /\ UNCHANGED lease
         ELSE Leaves(r)
      /\ Trouble
      /\ UNCHANGED <<result, outside>>

\* _drain_worker
DrainEnds(r) ==
  /\ At(r, "over")
  /\ row' = FinishDrain(row, req[r].again)
  /\ Leaves(r)
  /\ UNCHANGED <<result, outside, history>>

\* acquire_result takes a lease that is too old from its holder.
Retire(token) ==
  /\ trouble < MaxTrouble
  /\ \E r \in Requests : /\ lease[token] = r
                         /\ req[r].care = "drain" \/ At(r, "applying")
  /\ lease' = [lease EXCEPT ![token] = None]
  /\ loose' = TRUE
  /\ trouble' = trouble + 1
  /\ UNCHANGED <<row, result, req, outside, runs, unpaid, early, reopened>>

-----------------------------------------------------------------------------
(* The user, the monitor, and the next process.                              *)

Rejects(a) ==
  /\ decision[a] \in {"pending", "approved"}
  /\ decision' = [decision EXCEPT ![a] = "rejected"]
  /\ row' = IF row.approval = a THEN Deny(row) ELSE row
  /\ UNCHANGED <<result, lease, req, asked, history>>

RejectBreaks(a) ==
  /\ decision[a] \in {"pending", "approved"}
  /\ decision' = [decision EXCEPT ![a] = "rejected"]
  /\ Trouble
  /\ UNCHANGED <<row, result, lease, req, asked>>

Answers(q) ==
  /\ asked[q] = "pending"
  /\ asked' = [asked EXCEPT ![q] = "answered"]
  /\ UNCHANGED <<row, result, lease, req, decision, history>>

\* The answer is handed to the delivery, each time the client sends it.  The
\* delivery may not know the question yet; where it knows it and is at
\* something else, the client is told so and nothing is handed.
HandsOver(q) ==
  /\ asked[q] \in {"answered", "handed"}
  /\ row.question = q => row.answered \/ IsAsked(row, q)
  /\ asked' = [asked EXCEPT ![q] = "handed"]
  /\ row' = ResolveQuestion(row, q)
  /\ early' = IF row.question = q THEN early \ {q} ELSE early \cup {q}
  /\ reopened' = (reopened \/ (IsAsked(row, q) /\ IsSettled(row)))
  /\ UNCHANGED <<result, lease, req, decision, runs, unpaid, loose, trouble>>

WatchdogBarks ==
  /\ IsWatched(row)
  /\ row' = Watchdog(row)
  /\ UNCHANGED <<result, lease, req, outside, history>>

MonitorLinks(a) ==
  LET d == Linked(row, a)
  IN  /\ MayLink(a)
      /\ d # row
      /\ row' = d /\ WritesFile(d)
      /\ UNCHANGED <<lease, req, outside, history>>

Reminds ==
  /\ Remind(row) # row
  /\ row' = Remind(row)
  /\ UNCHANGED <<result, lease, req, outside, history>>

FileSpoils ==
  /\ result = "good" /\ row.status = "completed"
  /\ result' = "bad"
  /\ Trouble
  /\ UNCHANGED <<row, lease, req, outside>>

\* The process dies; the next one keeps the pending approvals if it can read
\* them, and brings the row up to date before it serves anybody.
Restart ==
  LET d == Reconcile(row, result)
  IN  /\ trouble < MaxTrouble
      /\ req' = [r \in Requests |-> Idle]
      /\ lease' = [t \in DOMAIN lease |-> None]
      /\ \E kept \in SUBSET {a \in Approvals : decision[a] = "pending"} :
           /\ decision' = [a \in Approvals |->
                             IF decision[a] = "none" \/ a \in kept
                             THEN decision[a] ELSE "lost"]
           /\ \E e \in {d, CloseOrphan(d)} : row' = MissesApproval(e, kept)
      /\ trouble' = trouble + 1
      /\ loose' = FALSE
      /\ UNCHANGED <<result, asked, runs, unpaid, early, reopened>>

-----------------------------------------------------------------------------
\* The client, and what answers it.
Asks(r) ==
  \/ Lists(r) \/ Wakes(r) \/ NotDue(r) \/ WakeBreaks(r) \/ WakeTimesOut(r)
  \/ Vanishes(r) \/ Executes(r) \/ AlreadyRuns(r) \/ HandsBack(r) \/ NoRoom(r)

\* The coroutine of the request, and what cancels it.
GoesOn(r) ==
  \/ Unreachable(r) \/ EntersProjectLock(r) \/ Calls(r) \/ EntersDelivery(r)
  \/ Fails(r) \/ ClosesDrain(r) \/ EntersApply(r) \/ CancelledInMark(r)
  \/ Restores(r) \/ Applies(r) \/ ApplyFails(r) \/ TimesOut(r) \/ Cancelled(r)
  \/ CancelledBetween(r) \/ DrainEnds(r)

\* Its worker.
Ends(r) ==
  \/ \E out \in Outcomes : Returns(r, out)
  \/ \E again \in BOOLEAN : CallRaises(r, again) \/ PersistBreaks(r, again)
  \/ \E how \in {"applied", "failed"} : ActionEnds(r, how)
  \/ Begins(r) \/ HasEnded(r) \/ MayNotBegin(r)
  \/ PersistsOutcome(r) \/ PersistsBlock(r) \/ PersistsResult(r)
  \/ NotItsTurn(r) \/ Links(r)
  \/ Approves(r) \/ ApproveFails(r) \/ Resolves(r) \/ ResolveBreaks(r)

Decides ==
  \/ \E r \in Requests, a \in Approvals :
       UserApproves(r, a) \/ UserApprovesEarly(r, a)
  \/ \E a \in Approvals : Rejects(a) \/ RejectBreaks(a)
  \/ \E q \in Questions : Answers(q) \/ HandsOver(q)

Host ==
  \/ \E a \in Approvals : MonitorLinks(a)
  \/ \E token \in {"goal", "apply"} : Retire(token)
  \/ Recovers \/ FindsCorrupt \/ Materialize
  \/ WatchdogBarks \/ Reminds \/ FileSpoils \/ Restart

Next ==
  \/ \E r \in Requests : Asks(r) \/ GoesOn(r) \/ Ends(r)
  \/ Decides
  \/ Host

Spec == Init /\ [][Next]_vars

-----------------------------------------------------------------------------
TypeOK ==
  /\ row \in Row
  /\ result \in {"none", "good", "bad"}
  /\ lease \in [{"goal", "apply"} -> Requests \cup {None}]
  /\ req \in [Requests -> [at : Place, for : {"goal", "apply"}, care : Care,
                           again : BOOLEAN, out : Outcomes \cup {None}]]
  /\ decision \in [Approvals -> {"none", "pending", "approved", "applying",
                                 "applied", "failed", "rejected", "lost"}]
  /\ asked \in [Questions -> {"none", "pending", "answered", "handed"}]
  /\ runs \in 0..MaxRuns /\ unpaid \in 0..MaxRuns
  /\ loose \in BOOLEAN /\ early \subseteq Questions
  /\ reopened \in BOOLEAN /\ trouble \in 0..MaxTrouble

\* What a delivery promises for its occurrence of the goal: however clients,
\* late workers, drain tasks, the watchdog, the user and the next process
\* interleave, it is settled once and the goal's schedule moves on with it,
\* once.  Only an answer that comes for a parked delivery opens it again.
Occurrence == INSTANCE GoalOccurrence WITH
  outcome <- IF reopened THEN "reopened"
             ELSE IF IsSettled(row) THEN row.status ELSE "open",
  moves   <- IF reopened THEN 1 ELSE row.wakes

SettlesOnce == Occurrence!Spec

\* Two runs of the runtime never go on at a time for one delivery: the second
\* client is refused, and a worker that nobody waits for any more keeps the
\* lease till it ends.
OneRun ==
  loose \/ Cardinality({r \in Requests : At(r, "calling")}) <= 1

\* A lane comes back: who holds a lease is a request that is still at it, or
\* whose worker is, on every way out of the coordinator.
LaneIsWorkedFor ==
  \A token \in {"goal", "apply"}, r \in Requests :
    lease[token] = r => /\ req[r].for = token
                        /\ req[r].care \in {"kept", "drain"}
                        /\ req[r].at \notin Outside

\* DELIVERY_MAX_ATTEMPTS bounds the runs: each of them was counted as an
\* attempt, or follows an answer of the user, or is one of the two the store
\* does not count.  A client that begins a row nobody has claimed again is not
\* counted, nor is an attempt that somebody else has marked as skipped.
RunsArePaid ==
  runs <= row.attempt + unpaid + (IF row.answered THEN 1 ELSE 0)

\* What a worker brings after its time limit is not delivered any more.
LateResultStaysOut ==
  [][\A r \in Requests :
       /\ At(r, "delivering") /\ req[r].care = "drain"
       /\ req'[r] # req[r] /\ row'.status = "completed"
       => row.status = "completed" \/ result = "good" \/ loose]_vars

\* The answer reached the delivery when it was waiting for it or was later.
Reached(q) == asked[q] = "handed" /\ q \notin early

Awaits(q) ==
  /\ row.status \in {"blocked", "parked"} /\ ~IsSettled(row)
  /\ row.kind = "question" /\ row.question = q
  /\ row.approval = None

\* A delivery that is given the answer to its first question goes on: it does
\* not wait for that question again, whatever client, reminder, time limit or
\* restart comes between the answer and the next run.
FirstAnswerGoesOn ==
  \A q \in Questions :
    /\ Reached(q) /\ Awaits(q)
    => \E p \in Questions \ {q} : asked[p] = "handed"

\* Not so for a later one.  agent_question_service.py says of the handoff that
\* its "resolver is idempotent, so retries must finish that durable handoff",
\* but one answer per delivery is all the resolver ever takes.
HandoffFinishes == \A q \in Questions : Reached(q) => ~Awaits(q)

NobodyWorks == \A r \in Requests : req[r].at \in Outside

\* A user may decide on an approval before the delivery that asked for it is
\* blocked.  The decision is not lost: a delivery that waits, with nobody at
\* work for it, waits for one that can still be given.
DecidedIsHeard ==
  /\ row.status = "blocked" /\ row.kind = "approval"
  /\ NobodyWorks /\ trouble = 0
  => decision[row.approval] \in {"pending", "approved"}
=============================================================================
