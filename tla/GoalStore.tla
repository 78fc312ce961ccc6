------------------------------ MODULE GoalStore ------------------------------
(***************************************************************************)
(* The durable row of one background delivery: what each method of         *)
(* AgentGoalStore makes of it under the store's lock.  A delivery stands   *)
(* for one scheduled occurrence of a goal, and its id is made from both.   *)
(*                                                                         *)
(* The row is the projection of the event log.  An operator here is one    *)
(* method: it returns the row with the events the method appends, or the   *)
(* row itself where the method returns early.  Times are left out: a       *)
(* retryAt or a deadline that is set may have passed whenever it is read.  *)
(***************************************************************************)
EXTENDS Naturals

CONSTANTS
  Clients,          \* who reads the row, and sends back the revision it read
  Approvals,        \* approval ids
  Questions,        \* question ids
  MaxAttempt,       \* DELIVERY_MAX_ATTEMPTS
  None              \* no approval, no question

ASSUME AttemptsArePositive == MaxAttempt \in Nat \ {0}
ASSUME NoneIsNoId == None \notin Clients \cup Approvals \cup Questions

\* "none" is a row not there yet, "retrying" a failed one that is not terminal.
Status == {"none", "pending", "claimed", "running", "draining", "applying",
           "blocked", "parked", "completed", "materialized", "denied",
           "failed", "retrying", "interrupted", "skipped"}

\* project_lock, provider_call and deliver are all "run".
Phase == {"none", "wake", "run", "apply"}

Row == [status   : Status,
        attempt  : 1..MaxAttempt,
        consume  : BOOLEAN,                \* consumeRetry
        phase    : Phase,
        timed    : BOOLEAN,                \* deadlineAt is set
        kind     : {"none", "approval", "question"},    \* blockedKind
        approval : Approvals \cup {None},
        question : Questions \cup {None},
        answered : BOOLEAN,                \* questionAnsweredAt is set
        reminded : BOOLEAN,                \* questionReminderSentAt is set
        advanced : BOOLEAN,                \* scheduleAdvanced
        wakes    : Nat,                    \* what it added to wakeCount
        known    : SUBSET Clients]         \* who holds the current revision

Absent == [status |-> "none", attempt |-> 1, consume |-> FALSE,
           phase |-> "none", timed |-> FALSE, kind |-> "none",
           approval |-> None, question |-> None, answered |-> FALSE,
           reminded |-> FALSE, advanced |-> FALSE, wakes |-> 0, known |-> {}]

Terminal  == {"completed", "materialized", "denied", "blocked", "parked",
              "failed"}
Failed    == {"failed", "retrying"}
Retryable == {"retrying", "interrupted", "skipped"}
Startable == {"pending", "claimed", "retrying", "interrupted"}

IsTerminal(d) == d.status \in Terminal

\* A parked row may still wait for an answer: a reminder has parked it.
IsSettled(d) ==
  \/ d.status \in {"completed", "materialized", "denied", "failed"}
  \/ d.status = "parked" /\ d.wakes > 0

\* An appended event is a new revision.
Becomes(d, status) == [d EXCEPT !.status = status, !.known = {}]
Untimed(d)         == [d EXCEPT !.timed = FALSE]

\* A terminal event moves the goal to its next wake, once.
Settles(d, status) ==
  LET e == Untimed(Becomes(d, status))
  IN  IF d.advanced
      THEN [e EXCEPT !.advanced = FALSE]
      ELSE [e EXCEPT !.advanced = TRUE, !.wakes = @ + 1]

-----------------------------------------------------------------------------
\* _recover_result_if_needed.  It does not ask whether the schedule has moved.
Recover(d, result) ==
  IF ~IsTerminal(d) /\ d.status \notin {"none", "draining", "applying"}
       /\ result = "good"
  THEN LET e == Untimed(Becomes(d, "completed"))
       IN  [e EXCEPT !.advanced = TRUE, !.wakes = @ + 1]
  ELSE d

\* A completed row without its result: the result is corrupt.
Corrupt(d) == [Becomes(d, "failed") EXCEPT !.advanced = FALSE]

\* Mutant: a claim that does not count.
ClaimsFree(d) ==
  [Becomes(d, "claimed") EXCEPT
     !.consume = FALSE, !.phase = "wake", !.timed = TRUE]

Claims(d) ==
  [Becomes(d, "claimed") EXCEPT
     !.attempt = IF d.consume THEN @ + 1 ELSE @, !.consume = FALSE,
     !.phase = "wake", !.timed = TRUE]

\* Mutant: claimed again and again, without DELIVERY_MAX_ATTEMPTS.
ClaimsForEver(d) == d.status \in {"none"} \cup Retryable

MayClaim(d) ==
  /\ d.status \in {"none"} \cup Retryable
  /\ d.consume => d.attempt < MaxAttempt

\* wake answers with the row whatever it is, and the client goes on with it.
Wake(d, result) ==
  LET e == Recover(d, result) IN IF MayClaim(e) THEN Claims(e) ELSE e

\* The first of wake's two events is appended and the second is not.
HalfWake(d) ==
  [Becomes(d, "pending") EXCEPT !.phase = "wake", !.timed = TRUE]

Begin(d) == Becomes(d, "running")

MarkPhase(d) ==
  IF IsTerminal(d) \/ d.status = "draining" THEN d
  ELSE [d EXCEPT !.phase = "run", !.timed = TRUE, !.known = {}]

Complete(d) == Settles(d, "completed")

\* _fail_delivery_locked, where a terminal row may be failed too.
FailAnyway(d, retry) ==
  IF d.status = "retrying" THEN d
  ELSE IF retry /\ d.attempt < MaxAttempt
       THEN [Untimed(Becomes(d, "retrying")) EXCEPT !.consume = TRUE,
                                                    !.advanced = FALSE]
       ELSE [Settles(d, "failed") EXCEPT !.consume = FALSE]

Fail(d, retry) == IF IsTerminal(d) THEN d ELSE FailAnyway(d, retry)

Skip(d) ==
  IF IsTerminal(d) \/ d.status = "skipped" THEN d
  ELSE [Untimed(Becomes(d, "skipped")) EXCEPT !.consume = FALSE]

Defer(d) ==
  IF d.status \in {"pending", "claimed"}
  THEN [Untimed(Becomes(d, "interrupted")) EXCEPT !.consume = FALSE]
  ELSE d

\* _mark_delivery_draining_locked
Drain(d, phase) ==
  IF IsTerminal(d) \/ d.status = "draining" THEN d
  ELSE [Becomes(d, "draining") EXCEPT !.phase = phase]

\* finish_delivery_drain raises on a row that is neither draining nor ended.
MayFinish(d) == d.status = "draining" \/ IsTerminal(d) \/ d.status \in Failed
FinishDrain(d, retry) == IF d.status = "draining" THEN Fail(d, retry) ELSE d

Block(d, kind, ref) ==
  IF IsTerminal(d) \/ d.status = "draining" THEN d
  ELSE LET e == [Untimed(Becomes(d, "blocked")) EXCEPT !.kind = kind,
                                                       !.advanced = FALSE]
       IN  IF kind = "approval"
           THEN [e EXCEPT !.approval = ref]
           ELSE [e EXCEPT !.question = ref, !.reminded = FALSE]

Park(d) == IF IsTerminal(d) THEN d ELSE Settles(d, "parked")

Deny(d) ==
  IF d.status \in {"completed", "materialized", "denied", "parked",
                   "draining"} \cup Failed
  THEN d ELSE Settles(d, "denied")

-----------------------------------------------------------------------------
\* mark_by_approval_phase asks for no particular status.
MarkApply(d, a) ==
  IF d.approval # a \/ d.status \in {"completed", "materialized", "denied",
                                     "parked"} \cup Failed
  THEN d ELSE [Becomes(d, "applying") EXCEPT !.phase = "apply", !.timed = TRUE]

RestoreWait(d, a) ==
  IF d.approval = a /\ d.status = "applying"
  THEN [Untimed(Becomes(d, "blocked")) EXCEPT !.phase = "none"]
  ELSE d

\* resolve_delivery_approval raises on a row that waits for something else.
MayResolve(d, a) ==
  d.approval = a => d.status \in {"completed", "materialized", "denied",
                                  "draining", "parked", "blocked",
                                  "applying"} \cup Failed

ResolveApproval(d, a, ok) ==
  IF d.approval # a \/ d.status \notin {"blocked", "applying"} THEN d
  ELSE IF ok THEN Complete(d) ELSE FailAnyway(d, FALSE)

\* reconcile_missing_approvals, for an approval that is not known any more.
MissesApproval(d, known) ==
  IF d.status = "blocked" /\ d.kind = "approval" /\ d.approval \notin known
  THEN FailAnyway(d, FALSE) ELSE d

\* resolve_delivery_question: a delivery is continued after one answer only.
IsAsked(d, q) == d.question = q /\ ~d.answered
                   /\ d.status \in {"blocked", "parked"} /\ d.kind = "question"

\* Mutant: a delivery parked by a reminder is taken for a settled one.
ResolveBlocked(d, q) ==
  IF IsAsked(d, q) /\ d.status = "blocked"
  THEN [Untimed(Becomes(d, "interrupted")) EXCEPT !.answered = TRUE,
                                                  !.consume = FALSE]
  ELSE d

ResolveQuestion(d, q) ==
  IF IsAsked(d, q)
  THEN [Untimed(Becomes(d, "interrupted")) EXCEPT !.answered = TRUE,
                                                  !.consume = FALSE]
  ELSE d

Remind(d) ==
  IF d.status = "blocked" /\ d.kind = "question" /\ ~d.reminded
  THEN [Becomes(d, "parked") EXCEPT !.reminded = TRUE] ELSE d

-----------------------------------------------------------------------------
\* reconcile_phase_watchdogs, when the deadline of the row has passed.
IsWatched(d) ==
  ~IsTerminal(d) /\ d.status # "draining" /\ d.timed /\ d.phase # "none"

Watchdog(d) ==
  IF ~IsWatched(d) THEN d
  ELSE IF d.phase = "wake" /\ d.status \in {"pending", "claimed"}
       THEN Defer(d) ELSE Drain(d, d.phase)

\* reconcile_stale_running_deliveries, in the process that comes after.
Reconcile(d, result) ==
  CASE d.status \in {"pending", "claimed"} ->
         [Untimed(Becomes(d, "interrupted")) EXCEPT !.consume = FALSE]
    [] d.status = "draining" -> FinishDrain(d, TRUE)
    [] d.status = "applying" -> FinishDrain(Drain(d, "apply"), FALSE)
    [] d.status = "running" ->
         LET e == Recover(d, result)
         IN  IF e.status # "running" THEN e
             ELSE [Becomes(e, "interrupted") EXCEPT !.consume = TRUE]
    [] OTHER -> d

\* reconcile_agent_goal_watchdogs(finalize_orphans=True), at startup.
CloseOrphan(d) ==
  IF IsWatched(d)
  THEN LET e == Watchdog(d) IN FinishDrain(e, e.phase # "apply")
  ELSE d
=============================================================================
