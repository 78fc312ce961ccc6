---------------------------- MODULE GoalStoreProofs ----------------------------
(***************************************************************************)
(* Every operation of the goal store is sound, on every row: it makes a    *)
(* row of it, and where the row was balanced (settled if and only if the   *)
(* goal's schedule has moved on for it, once) the new one is so too and    *)
(* keeps what was settled.  And all but a few are careful: they begin and  *)
(* ask nothing, and let no attempt be used that was not counted.           *)
(***************************************************************************)
EXTENDS GoalStore, TLAPS

Balanced(d) ==
  IF IsSettled(d) THEN d.wakes = 1 ELSE d.wakes = 0 /\ ~d.advanced

\* A completed row may be found without its result.
Keeps(d, e) ==
  IF IsSettled(d)
  THEN /\ IsSettled(e)
       /\ e.status = d.status \/ (d.status = "completed" /\ e.status = "failed")
  ELSE e.status # "materialized"

Sound(d, e) == e \in Row /\ (Balanced(d) => Balanced(e) /\ Keeps(d, e))

\* Sound steps of the store compose.
LEMMA SoundTwice ==
  ASSUME NEW d, NEW e, NEW f, d \in Row, Sound(d, e), Sound(e, f)
  PROVE  Sound(d, f)
<1> QED BY DEF Sound, Balanced, Keeps, IsSettled

\* An early return.
LEMMA SoundStutter == ASSUME NEW d \in Row PROVE Sound(d, d)
<1> QED BY DEF Sound, Balanced, Keeps, IsSettled

\* A change that leaves status and schedule as they are.
LEMMA SoundDetail ==
  ASSUME NEW d \in Row, NEW e \in Row, e.status = d.status,
         e.wakes = d.wakes, e.advanced = d.advanced
  PROVE  Sound(d, e)
<1> QED BY DEF Sound, Balanced, Keeps, IsSettled

Open == {"none", "pending", "claimed", "running", "draining", "applying",
         "blocked", "retrying", "interrupted", "skipped"}

\* An event that ends nothing, on a row that nothing has ended.
LEMMA SoundOpen ==
  ASSUME NEW d \in Row, NEW e \in Row, d.status \in Open \cup {"parked"},
         e.status \in Open \cup {"parked"}, d.status = "parked" => ~IsSettled(d),
         e.wakes = d.wakes, ~d.advanced => ~e.advanced
  PROVE  Sound(d, e)
<1> QED BY DEF Sound, Balanced, Keeps, IsSettled, Open

\* A row that settles an occurrence is a row.
LEMMA AddsOne ==
  ASSUME NEW d \in Row
  PROVE  [d EXCEPT !.advanced = TRUE, !.wakes = @ + 1] \in Row
<1>1. d.wakes + 1 \in Nat
  BY DEF Row
<1>2. ASSUME NEW n \in Nat
      PROVE  [d EXCEPT !.advanced = TRUE, !.wakes = n] \in Row
  BY DEF Row
<1> QED BY <1>1, <1>2

\* A terminal event on a row that is open.
LEMMA SoundSettles ==
  ASSUME NEW d \in Row, NEW s \in {"completed", "denied", "failed", "parked"},
         d.status \in Open
  PROVE  Sound(d, Settles(d, s))
<1>1. Settles(d, s) \in Row
  <2> DEFINE e == Untimed(Becomes(d, s))
  <2>1. e \in Row
    BY DEF Untimed, Becomes, Row, Status
  <2>2. [e EXCEPT !.advanced = TRUE, !.wakes = @ + 1] \in Row
    BY <2>1, AddsOne
  <2>3. [e EXCEPT !.advanced = FALSE] \in Row
    BY <2>1 DEF Row
  <2> QED BY <2>2, <2>3 DEF Settles
<1>2. ASSUME Balanced(d)
      PROVE  Balanced(Settles(d, s)) /\ Keeps(d, Settles(d, s))
  BY <1>2 DEF Settles, Untimed, Becomes, Balanced, Keeps, IsSettled, Open, Row
<1> QED BY <1>1, <1>2 DEF Sound

-----------------------------------------------------------------------------
(* The operations one by one.                                                *)

\* _recover_result_if_needed completes a row that is open.
LEMMA SoundRecover ==
  ASSUME NEW d \in Row, NEW result
  PROVE  Sound(d, Recover(d, result))
<1>1. CASE ~IsTerminal(d) /\ d.status \notin {"none", "draining", "applying"}
             /\ result = "good"
  <2> DEFINE e == Recover(d, result)
  <2> DEFINE f == Untimed(Becomes(d, "completed"))
  <2>0. f \in Row /\ f.status = "completed" /\ f.wakes = d.wakes
    BY DEF Untimed, Becomes, Row, Status
  <2>1. e \in Row /\ e.status = "completed" /\ e.wakes = d.wakes + 1
    <3>1. e = [f EXCEPT !.advanced = TRUE, !.wakes = @ + 1]
      BY <1>1 DEF Recover
    <3>2. e.status = f.status /\ e.wakes = f.wakes + 1
      BY <2>0, <3>1 DEF Row
    <3> QED BY <2>0, <3>1, <3>2, AddsOne
  <2>2. ~IsSettled(d) /\ IsSettled(e)
    BY <1>1, <2>1 DEF IsTerminal, Terminal, IsSettled
  <2> QED BY <2>1, <2>2 DEF Sound, Balanced, Keeps
<1>2. CASE ~(~IsTerminal(d) /\ d.status \notin {"none", "draining", "applying"}
               /\ result = "good")
  BY <1>2, SoundStutter DEF Recover
<1> QED BY <1>1, <1>2

\* A completed row without its result fails.
LEMMA SoundCorrupt ==
  ASSUME NEW d \in Row, d.status = "completed"
  PROVE  Sound(d, Corrupt(d))
<1> QED BY DEF Corrupt, Becomes, Sound, Balanced, Keeps, IsSettled, Row, Status

\* A claim, within DELIVERY_MAX_ATTEMPTS.
LEMMA SoundClaims ==
  ASSUME NEW d \in Row, MayClaim(d)
  PROVE  Sound(d, Claims(d))
<1> DEFINE n == IF d.consume THEN d.attempt + 1 ELSE d.attempt
           e == [Becomes(d, "claimed") EXCEPT
                   !.attempt = n, !.consume = FALSE,
                   !.phase = "wake", !.timed = TRUE]
<1>1. n \in 1..MaxAttempt
  BY AttemptsArePositive DEF MayClaim, Row
<1>2. Claims(d) = e
  BY DEF Claims, Becomes, Row
<1>3. ASSUME NEW k \in 1..MaxAttempt
      PROVE  [Becomes(d, "claimed") EXCEPT
                !.attempt = k, !.consume = FALSE,
                !.phase = "wake", !.timed = TRUE] \in Row
  BY DEF Becomes, Row, Status, Phase
<1>4. e \in Row
  BY <1>1, <1>3
<1>5. e.status = "claimed" /\ e.wakes = d.wakes /\ e.advanced = d.advanced
  BY DEF Becomes, Row
<1>6. d.status \in Open
  BY DEF MayClaim, Retryable, Open
<1> HIDE DEF e
<1> QED BY <1>2, <1>4, <1>5, <1>6, SoundOpen DEF Open

\* wake, after it has recovered the row.
LEMMA SoundWake ==
  ASSUME NEW d \in Row, NEW result
  PROVE  Sound(d, Wake(d, result))
<1> DEFINE e == Recover(d, result)
<1>1. Sound(d, e)
  BY SoundRecover
<1>2. e \in Row
  BY <1>1 DEF Sound
<1> HIDE DEF e
<1>3. CASE MayClaim(e)
  <2>1. Sound(e, Claims(e))
    BY <1>2, <1>3, SoundClaims
  <2>2. Sound(d, Claims(e))
    BY <1>1, <1>2, <2>1, SoundTwice
  <2> QED BY <1>3, <2>2 DEF Wake, e
<1>4. CASE ~MayClaim(e)
  BY <1>1, <1>4 DEF Wake, e
<1> QED BY <1>3, <1>4

\* wake, broken off between its events.
LEMMA SoundHalfWake ==
  ASSUME NEW d \in Row, d.status = "none"
  PROVE  Sound(d, HalfWake(d))
<1>1. HalfWake(d) \in Row
  BY DEF HalfWake, Becomes, Row, Status, Phase
<1> QED BY <1>1, SoundOpen DEF HalfWake, Becomes, Row, Open

\* begin_delivery.
LEMMA SoundBegin ==
  ASSUME NEW d \in Row, d.status \in Startable
  PROVE  Sound(d, Begin(d))
<1>1. Begin(d) \in Row
  BY DEF Begin, Becomes, Row, Status
<1> QED BY <1>1, SoundOpen DEF Begin, Becomes, Row, Open, Startable

\* mark_delivery_phase.
LEMMA SoundMarkPhase ==
  ASSUME NEW d \in Row
  PROVE  Sound(d, MarkPhase(d))
<1>1. [d EXCEPT !.phase = "run", !.timed = TRUE, !.known = {}] \in Row
  BY DEF Row, Phase
<1>2. Sound(d, [d EXCEPT !.phase = "run", !.timed = TRUE, !.known = {}])
  BY <1>1, SoundDetail DEF Row
<1> QED BY <1>2, SoundStutter DEF MarkPhase

\* _fail_delivery_locked, on a row that is open.
LEMMA SoundFailAnyway ==
  ASSUME NEW d \in Row, NEW retry \in BOOLEAN, d.status \in Open
  PROVE  Sound(d, FailAnyway(d, retry))
<1> DEFINE again == [Untimed(Becomes(d, "retrying")) EXCEPT
                       !.consume = TRUE, !.advanced = FALSE]
           over  == [Settles(d, "failed") EXCEPT !.consume = FALSE]
<1>1. Sound(d, again)
  <2>1. again \in Row
    BY DEF Untimed, Becomes, Row, Status
  <2>2. again.status = "retrying" /\ again.wakes = d.wakes /\ ~again.advanced
    BY DEF Untimed, Becomes, Row
  <2> HIDE DEF again
  <2> QED BY <2>1, <2>2, SoundOpen DEF Open
<1>2. Sound(d, over)
  <2> DEFINE e == Settles(d, "failed")
  <2>1. Sound(d, e)
    BY SoundSettles
  <2>2. e \in Row
    BY <2>1 DEF Sound
  <2> HIDE DEF e
  <2>3. [e EXCEPT !.consume = FALSE] \in Row
    BY <2>2 DEF Row
  <2>4. Sound(e, [e EXCEPT !.consume = FALSE])
    BY <2>2, <2>3, SoundDetail DEF Row
  <2>5. Sound(d, [e EXCEPT !.consume = FALSE])
    BY <2>1, <2>2, <2>4, SoundTwice
  <2> QED BY <2>5 DEF e
<1> HIDE DEF again, over
<1> QED BY <1>1, <1>2, SoundStutter DEF FailAnyway, again, over

\* fail_delivery.
LEMMA SoundFail ==
  ASSUME NEW d \in Row, NEW retry \in BOOLEAN
  PROVE  Sound(d, Fail(d, retry))
<1>1. CASE IsTerminal(d)
  BY <1>1, SoundStutter DEF Fail
<1>2. CASE ~IsTerminal(d)
  <2>1. d.status \in Open
    BY <1>2 DEF IsTerminal, Terminal, Open, Row, Status
  <2> QED BY <1>2, <2>1, SoundFailAnyway DEF Fail
<1> QED BY <1>1, <1>2

\* Skip, Defer and Drain take an open row to an open one.
LEMMA SoundSkip ==
  ASSUME NEW d \in Row
  PROVE  Sound(d, Skip(d))
<1> DEFINE e == [Untimed(Becomes(d, "skipped")) EXCEPT !.consume = FALSE]
<1>1. ASSUME ~IsTerminal(d)
      PROVE  Sound(d, e)
  <2>1. e \in Row
    BY DEF Untimed, Becomes, Row, Status
  <2>2. e.status = "skipped" /\ e.wakes = d.wakes /\ e.advanced = d.advanced
    BY DEF Untimed, Becomes, Row
  <2>3. d.status \in Open
    BY <1>1 DEF IsTerminal, Terminal, Open, Row, Status
  <2> HIDE DEF e
  <2> QED BY <2>1, <2>2, <2>3, SoundOpen DEF Open
<1> HIDE DEF e
<1> QED BY <1>1, SoundStutter DEF Skip, e

\* defer_delivery_capacity.
LEMMA SoundDefer ==
  ASSUME NEW d \in Row
  PROVE  Sound(d, Defer(d))
<1> DEFINE e == [Untimed(Becomes(d, "interrupted")) EXCEPT !.consume = FALSE]
<1>1. ASSUME d.status \in {"pending", "claimed"}
      PROVE  Sound(d, e)
  <2>1. e \in Row
    BY DEF Untimed, Becomes, Row, Status
  <2>2. e.status = "interrupted" /\ e.wakes = d.wakes /\ e.advanced = d.advanced
    BY DEF Untimed, Becomes, Row
  <2> HIDE DEF e
  <2> QED BY <1>1, <2>1, <2>2, SoundOpen DEF Open
<1> HIDE DEF e
<1> QED BY <1>1, SoundStutter DEF Defer, e

\* _mark_delivery_draining_locked.
LEMMA SoundDrain ==
  ASSUME NEW d \in Row, NEW phase \in Phase
  PROVE  Sound(d, Drain(d, phase))
<1> DEFINE e == [Becomes(d, "draining") EXCEPT !.phase = phase]
<1>1. ASSUME ~IsTerminal(d)
      PROVE  Sound(d, e)
  <2>1. e \in Row
    BY DEF Becomes, Row, Status
  <2>2. e.status = "draining" /\ e.wakes = d.wakes /\ e.advanced = d.advanced
    BY DEF Becomes, Row
  <2>3. d.status \in Open
    BY <1>1 DEF IsTerminal, Terminal, Open, Row, Status
  <2> HIDE DEF e
  <2> QED BY <2>1, <2>2, <2>3, SoundOpen DEF Open
<1> HIDE DEF e
<1> QED BY <1>1, SoundStutter DEF Drain, e

\* finish_delivery_drain.
LEMMA SoundFinishDrain ==
  ASSUME NEW d \in Row, NEW retry \in BOOLEAN
  PROVE  Sound(d, FinishDrain(d, retry))
<1> QED BY SoundFail, SoundStutter DEF FinishDrain

\* block_delivery.
LEMMA SoundBlock ==
  ASSUME NEW d \in Row, NEW kind \in {"approval", "question"}, NEW ref,
         kind = "approval" => ref \in Approvals,
         kind = "question" => ref \in Questions
  PROVE  Sound(d, Block(d, kind, ref))
<1> DEFINE e == [Untimed(Becomes(d, "blocked")) EXCEPT !.kind = kind,
                                                       !.advanced = FALSE]
           a == [e EXCEPT !.approval = ref]
           q == [e EXCEPT !.question = ref, !.reminded = FALSE]
<1>1. CASE IsTerminal(d) \/ d.status = "draining"
  BY <1>1, SoundStutter DEF Block
<1>2. CASE ~(IsTerminal(d) \/ d.status = "draining")
  <2>1. d.status \in Open
    BY <1>2 DEF IsTerminal, Terminal, Open, Row, Status
  <2>2. e \in Row
    BY DEF Untimed, Becomes, Row, Status
  <2>3. e.status = "blocked" /\ e.wakes = d.wakes /\ ~e.advanced
    BY DEF Untimed, Becomes, Row
  <2>4. Block(d, kind, ref) = IF kind = "approval" THEN a ELSE q
    BY <1>2 DEF Block
  <2> HIDE DEF e
  <2>5. CASE kind = "approval"
    <3>1. a \in Row
      BY <2>2, <2>5 DEF Row
    <3>2. a.status = "blocked" /\ a.wakes = d.wakes /\ ~a.advanced
      BY <2>2, <2>3 DEF Row
    <3> HIDE DEF a
    <3> QED BY <2>1, <2>4, <2>5, <3>1, <3>2, SoundOpen DEF Open
  <2>6. CASE kind = "question"
    <3>1. q \in Row
      BY <2>2, <2>6 DEF Row
    <3>2. q.status = "blocked" /\ q.wakes = d.wakes /\ ~q.advanced
      BY <2>2, <2>3 DEF Row
    <3> HIDE DEF q
    <3> QED BY <2>1, <2>4, <2>6, <3>1, <3>2, SoundOpen DEF Open
  <2> QED BY <2>5, <2>6
<1> QED BY <1>1, <1>2

\* park_delivery.
LEMMA SoundPark ==
  ASSUME NEW d \in Row
  PROVE  Sound(d, Park(d))
<1>1. ASSUME ~IsTerminal(d)
      PROVE  d.status \in Open
  BY <1>1 DEF IsTerminal, Terminal, Open, Row, Status
<1> QED BY <1>1, SoundSettles, SoundStutter DEF Park

\* deny_delivery.
LEMMA SoundDeny ==
  ASSUME NEW d \in Row
  PROVE  Sound(d, Deny(d))
<1>1. ASSUME d.status \notin {"completed", "materialized", "denied", "parked",
                              "draining"} \cup Failed
      PROVE  d.status \in Open
  BY <1>1 DEF Failed, Open, Row, Status
<1> QED BY <1>1, SoundSettles, SoundStutter DEF Deny

\* mark_by_approval_phase.
LEMMA SoundMarkApply ==
  ASSUME NEW d \in Row, NEW a
  PROVE  Sound(d, MarkApply(d, a))
<1> DEFINE e == [Becomes(d, "applying") EXCEPT !.phase = "apply",
                                               !.timed = TRUE]
<1>1. ASSUME d.status \notin {"completed", "materialized", "denied", "parked"}
                               \cup Failed
      PROVE  Sound(d, e)
  <2>1. e \in Row
    BY DEF Becomes, Row, Status, Phase
  <2>2. e.status = "applying" /\ e.wakes = d.wakes /\ e.advanced = d.advanced
    BY DEF Becomes, Row
  <2>3. d.status \in Open
    BY <1>1 DEF Failed, Open, Row, Status
  <2> HIDE DEF e
  <2> QED BY <2>1, <2>2, <2>3, SoundOpen DEF Open
<1> HIDE DEF e
<1> QED BY <1>1, SoundStutter DEF MarkApply, e

\* restore_approval_wait.
LEMMA SoundRestoreWait ==
  ASSUME NEW d \in Row, NEW a
  PROVE  Sound(d, RestoreWait(d, a))
<1> DEFINE e == [Untimed(Becomes(d, "blocked")) EXCEPT !.phase = "none"]
<1>1. ASSUME d.status = "applying"
      PROVE  Sound(d, e)
  <2>1. e \in Row
    BY DEF Untimed, Becomes, Row, Status, Phase
  <2>2. e.status = "blocked" /\ e.wakes = d.wakes /\ e.advanced = d.advanced
    BY DEF Untimed, Becomes, Row
  <2> HIDE DEF e
  <2> QED BY <1>1, <2>1, <2>2, SoundOpen DEF Open
<1> HIDE DEF e
<1> QED BY <1>1, SoundStutter DEF RestoreWait, e

\* resolve_delivery_approval.
LEMMA SoundResolveApproval ==
  ASSUME NEW d \in Row, NEW a, NEW ok \in BOOLEAN
  PROVE  Sound(d, ResolveApproval(d, a, ok))
<1>1. ASSUME d.status \in {"blocked", "applying"}
      PROVE  Sound(d, Complete(d)) /\ Sound(d, FailAnyway(d, FALSE))
  <2>1. d.status \in Open
    BY <1>1 DEF Open
  <2>2. FALSE \in BOOLEAN
    OBVIOUS
  <2>3. Sound(d, FailAnyway(d, FALSE))
    BY <2>1, <2>2, SoundFailAnyway, Zenon
  <2> QED BY <2>1, <2>3, SoundSettles DEF Complete
<1> QED BY <1>1, SoundStutter DEF ResolveApproval

\* reconcile_missing_approvals.
LEMMA SoundMissesApproval ==
  ASSUME NEW d \in Row, NEW known
  PROVE  Sound(d, MissesApproval(d, known))
<1>1. ASSUME d.status = "blocked"
      PROVE  Sound(d, FailAnyway(d, FALSE))
  <2>1. d.status \in Open
    BY <1>1 DEF Open
  <2>2. FALSE \in BOOLEAN
    OBVIOUS
  <2> QED BY <2>1, <2>2, SoundFailAnyway, Zenon
<1> QED BY <1>1, SoundStutter DEF MissesApproval

\* An answer keeps what is settled, except a parked delivery that never had
\* the answer to the question it was once blocked on.
LEMMA SoundResolveQuestion ==
  ASSUME NEW d \in Row, NEW q
  PROVE  /\ ResolveQuestion(d, q) \in Row
         /\ ~(IsAsked(d, q) /\ IsSettled(d)) => Sound(d, ResolveQuestion(d, q))
<1> DEFINE e == [Untimed(Becomes(d, "interrupted")) EXCEPT !.answered = TRUE,
                                                           !.consume = FALSE]
<1>1. e \in Row
  BY DEF Untimed, Becomes, Row, Status
<1>2. ASSUME IsAsked(d, q), ~IsSettled(d)
      PROVE  Sound(d, e)
  <2>1. e.status = "interrupted" /\ e.wakes = d.wakes
          /\ e.advanced = d.advanced
    BY DEF Untimed, Becomes, Row
  <2>2. d.status \in Open \cup {"parked"}
    BY <1>2 DEF IsAsked, Open
  <2> HIDE DEF e
  <2> QED BY <1>1, <1>2, <2>1, <2>2, SoundOpen DEF Open
<1> HIDE DEF e
<1> QED BY <1>1, <1>2, SoundStutter DEF ResolveQuestion, e

\* A reminder parks a blocked row, which stays open.
LEMMA SoundRemind ==
  ASSUME NEW d \in Row
  PROVE  Sound(d, Remind(d))
<1> DEFINE e == [Becomes(d, "parked") EXCEPT !.reminded = TRUE]
<1>1. ASSUME d.status = "blocked"
      PROVE  Sound(d, e)
  <2>1. e \in Row
    BY DEF Becomes, Row, Status
  <2>2. e.status = "parked" /\ e.wakes = d.wakes /\ e.advanced = d.advanced
    BY DEF Becomes, Row
  <2> HIDE DEF e
  <2> QED BY <1>1, <2>1, <2>2, SoundOpen DEF Open
<1> HIDE DEF e
<1> QED BY <1>1, SoundStutter DEF Remind, e

\* reconcile_phase_watchdogs.
LEMMA SoundWatchdog ==
  ASSUME NEW d \in Row
  PROVE  Sound(d, Watchdog(d))
<1>1. d.phase \in Phase
  BY DEF Row
<1> QED BY <1>1, SoundStutter, SoundDefer, SoundDrain DEF Watchdog

\* reconcile_stale_running_deliveries.
LEMMA SoundReconcile ==
  ASSUME NEW d \in Row, NEW result
  PROVE  Sound(d, Reconcile(d, result))
<1> USE SoundStutter
<1> DEFINE w == [Untimed(Becomes(d, "interrupted")) EXCEPT !.consume = FALSE]
<1>1. CASE d.status \in {"pending", "claimed"}
  <2>1. w = Defer(d)
    BY <1>1 DEF Defer
  <2>2. Reconcile(d, result) = w
    BY <1>1 DEF Reconcile
  <2> QED BY <2>1, <2>2, SoundDefer
<1>2. CASE d.status = "draining"
  <2>1. Reconcile(d, result) = FinishDrain(d, TRUE)
    BY <1>2 DEF Reconcile
  <2> QED BY <2>1, SoundFinishDrain
<1>3. CASE d.status = "applying"
  <2>1. Reconcile(d, result) = FinishDrain(Drain(d, "apply"), FALSE)
    BY <1>3 DEF Reconcile
  <2>2. Sound(d, Drain(d, "apply"))
    BY SoundDrain DEF Phase
  <2>3. Drain(d, "apply") \in Row
    BY <2>2 DEF Sound
  <2>4. Sound(Drain(d, "apply"), FinishDrain(Drain(d, "apply"), FALSE))
    BY <2>3, SoundFinishDrain
  <2>5. FinishDrain(Drain(d, "apply"), FALSE) \in Row
    BY <2>4 DEF Sound
  <2> QED BY <2>1, <2>2, <2>3, <2>4, <2>5, SoundTwice
<1>4. CASE d.status = "running"
  <2> DEFINE e == Recover(d, result)
             f == [Becomes(e, "interrupted") EXCEPT !.consume = TRUE]
  <2>1. Reconcile(d, result) = IF e.status # "running" THEN e ELSE f
    BY <1>4 DEF Reconcile
  <2>2. Sound(d, e) /\ e \in Row
    BY SoundRecover DEF Sound
  <2> HIDE DEF e
  <2>3. ASSUME e.status = "running"
        PROVE  Sound(d, f)
    <3>1. f \in Row
      BY <2>2 DEF Becomes, Row, Status
    <3>2. f.status = "interrupted" /\ f.wakes = e.wakes
            /\ f.advanced = e.advanced
      BY <2>2 DEF Becomes, Row
    <3> HIDE DEF f
    <3>3. Sound(e, f)
      BY <2>2, <2>3, <3>1, <3>2, SoundOpen DEF Open
    <3> QED BY <2>2, <3>1, <3>3, SoundTwice
  <2> HIDE DEF f
  <2> QED BY <2>1, <2>2, <2>3
<1>5. CASE d.status \notin {"pending", "claimed", "draining", "applying",
                            "running"}
  <2>1. Reconcile(d, result) = d
    BY <1>5 DEF Reconcile
  <2> QED BY <2>1
<1> QED BY <1>1, <1>2, <1>3, <1>4, <1>5

\* The watchdog at start-up, which closes what it drains.
LEMMA SoundCloseOrphan ==
  ASSUME NEW d \in Row
  PROVE  Sound(d, CloseOrphan(d))
<1> DEFINE e == Watchdog(d)
           f == FinishDrain(e, e.phase # "apply")
<1>1. Sound(d, e) /\ e \in Row
  BY SoundWatchdog DEF Sound
<1> HIDE DEF e
<1>2. Sound(e, f) /\ f \in Row
  BY <1>1, SoundFinishDrain DEF Sound
<1> HIDE DEF f
<1>3. Sound(d, f)
  BY <1>1, <1>2, SoundTwice
<1> QED BY <1>3, SoundStutter DEF CloseOrphan, e, f
-----------------------------------------------------------------------------
(* What an operation leaves alone.                                           *)

\* A row that is to be tried again counts its next claim; a row whose wake was
\* not counted for the goal is not marked as counted.
Sane(d) == /\ d.status = "retrying" => d.consume
           /\ d.wakes = 0 => ~d.advanced

\* The row may be begun without another attempt being counted.
Unused(d) ==
  \/ d.status \in {"none", "pending", "claimed"}
  \/ d.status \in {"interrupted", "skipped"} /\ ~d.consume

WaitsForApproval(d) == d.status = "blocked" /\ d.kind = "approval"

WaitsForAnswer(d) ==
  /\ d.status \in {"blocked", "parked"} /\ ~IsSettled(d)
  /\ d.kind = "question" /\ d.approval = None

\* The step asks and answers nothing, and the row does not begin to wait for
\* an answer.
Mild(d, e) ==
  /\ Sane(e)
  /\ e.attempt >= d.attempt
  /\ e.answered = d.answered
  /\ e.question = d.question /\ e.approval = d.approval
  /\ WaitsForAnswer(e) => WaitsForAnswer(d)

\* Nor does it begin to run or to wait for an approval.
Tame(d, e) ==
  /\ Mild(d, e)
  /\ e.status = "running" => d.status = "running"
  /\ WaitsForApproval(e) => WaitsForApproval(d)

\* An attempt that can be used was there before, or has been counted.
Thrifty(d, e) ==
  Unused(e) => Unused(d) \/ e.attempt > d.attempt

Careful(d, e) == Tame(d, e) /\ Thrifty(d, e)

\* Careful steps of the store compose.
LEMMA CarefulTwice ==
  ASSUME NEW d \in Row, NEW e \in Row, NEW f \in Row,
         Careful(d, e), Careful(e, f)
  PROVE  Careful(d, f)
<1>1. d.attempt \in Nat /\ e.attempt \in Nat /\ f.attempt \in Nat
  BY DEF Row
<1> QED BY <1>1 DEF Careful, Tame, Mild, Thrifty

\* An early return.
LEMMA CarefulStutter ==
  ASSUME NEW d \in Row, Sane(d) PROVE Careful(d, d)
<1>1. d.attempt \in Nat
  BY DEF Row
<1> QED BY <1>1 DEF Careful, Tame, Mild, Thrifty

Rests == {"draining", "applying", "completed", "materialized", "denied",
          "failed"}

\* Nothing is owed to a row that is at work for an approval, drained or ended.
LEMMA CarefulRests ==
  ASSUME NEW d \in Row, NEW e, e.status \in Rests,
         e.attempt = d.attempt, e.answered = d.answered,
         e.question = d.question, e.approval = d.approval,
         e.wakes = 0 => ~e.advanced
  PROVE  Careful(d, e)
<1>1. d.attempt \in Nat
  BY DEF Row
<1> QED BY <1>1 DEF Careful, Tame, Mild, Thrifty, Sane, Rests, Unused,
           WaitsForApproval, WaitsForAnswer

\* A terminal event.
LEMMA CarefulSettles ==
  ASSUME NEW d \in Row, Sane(d),
         NEW s \in {"completed", "denied", "failed", "parked"}
  PROVE  Careful(d, Settles(d, s))
<1> DEFINE e == Untimed(Becomes(d, s))
           f == Settles(d, s)
<1>1. e \in Row /\ e.status = s /\ e.wakes = d.wakes
        /\ e.advanced = d.advanced /\ e.attempt = d.attempt
        /\ e.answered = d.answered /\ e.question = d.question
        /\ e.approval = d.approval
  BY DEF Untimed, Becomes, Row, Status
<1>2. f = IF d.advanced THEN [e EXCEPT !.advanced = FALSE]
          ELSE [e EXCEPT !.advanced = TRUE, !.wakes = @ + 1]
  BY DEF Settles
<1> HIDE DEF e, f
<1>3. /\ f.status = s /\ f.attempt = d.attempt /\ f.answered = d.answered
      /\ f.question = d.question /\ f.approval = d.approval
      /\ f.wakes = IF d.advanced THEN d.wakes ELSE d.wakes + 1
      /\ f.advanced = ~d.advanced
  BY <1>1, <1>2 DEF Row
<1>4. d.wakes \in Nat /\ d.attempt \in Nat
  BY DEF Row
<1>5. f.wakes # 0
  BY <1>3, <1>4 DEF Sane
<1> QED BY <1>3, <1>4, <1>5 DEF f, Careful, Tame, Mild, Thrifty, Sane, Unused,
           WaitsForApproval, WaitsForAnswer, IsSettled

\* _recover_result_if_needed.
LEMMA CarefulRecover ==
  ASSUME NEW d \in Row, Sane(d), NEW result
  PROVE  Careful(d, Recover(d, result))
<1> DEFINE e == Untimed(Becomes(d, "completed"))
           f == [e EXCEPT !.advanced = TRUE, !.wakes = @ + 1]
<1>1. e \in Row /\ e.status = "completed" /\ e.wakes = d.wakes
        /\ e.attempt = d.attempt
        /\ e.answered = d.answered /\ e.question = d.question
        /\ e.approval = d.approval
  BY DEF Untimed, Becomes, Row, Status
<1>2. Recover(d, result) \in {d, f}
  BY DEF Recover
<1> HIDE DEF e
<1>3. /\ f.status = "completed" /\ f.attempt = d.attempt
      /\ f.answered = d.answered
      /\ f.question = d.question /\ f.approval = d.approval
      /\ f.wakes = d.wakes + 1
  BY <1>1 DEF Row
<1>4. f.wakes # 0
  BY <1>3 DEF Row
<1> HIDE DEF f
<1>5. Careful(d, f)
  BY <1>3, <1>4, CarefulRests DEF Rests
<1> QED BY <1>2, <1>5, CarefulStutter

\* A completed row without its result.
LEMMA CarefulCorrupt ==
  ASSUME NEW d \in Row PROVE Careful(d, Corrupt(d))
<1> DEFINE e == Corrupt(d)
<1>1. /\ e.status = "failed" /\ e.attempt = d.attempt
      /\ e.answered = d.answered /\ e.question = d.question
      /\ e.approval = d.approval /\ ~e.advanced
  BY DEF Corrupt, Becomes, Row
<1> HIDE DEF e
<1> QED BY <1>1, CarefulRests DEF Rests, e

\* A claim counts an attempt, unless the last one has not been used.
LEMMA CarefulClaims ==
  ASSUME NEW d \in Row, Sane(d), MayClaim(d)
  PROVE  Careful(d, Claims(d))
<1> DEFINE n == IF d.consume THEN d.attempt + 1 ELSE d.attempt
           e == Claims(d)
<1>1. /\ e.status = "claimed" /\ e.attempt = n
      /\ e.answered = d.answered /\ e.question = d.question
      /\ e.approval = d.approval /\ e.wakes = d.wakes
      /\ e.advanced = d.advanced
  BY DEF Claims, Becomes, Row
<1>2. d.attempt \in Nat /\ n \in Nat /\ n >= d.attempt
        /\ (d.consume => n > d.attempt)
  BY DEF Row
<1>3. ~d.consume => Unused(d)
  BY DEF MayClaim, Retryable, Sane, Unused
<1> HIDE DEF e, n
<1> QED BY <1>1, <1>2, <1>3
        DEF e, Careful, Tame, Mild, Thrifty, Sane, WaitsForApproval,
            WaitsForAnswer

\* wake, after it has recovered the row.
LEMMA CarefulWake ==
  ASSUME NEW d \in Row, Sane(d), NEW result
  PROVE  Careful(d, Wake(d, result))
<1> DEFINE e == Recover(d, result)
<1>1. Careful(d, e) /\ e \in Row /\ Sane(e)
  BY CarefulRecover, SoundRecover DEF Sound, Careful, Tame, Mild
<1> HIDE DEF e
<1>2. CASE MayClaim(e)
  <2>1. Careful(e, Claims(e)) /\ Claims(e) \in Row
    BY <1>1, <1>2, CarefulClaims, SoundClaims DEF Sound
  <2>2. Careful(d, Claims(e))
    BY <1>1, <2>1, CarefulTwice
  <2> QED BY <1>2, <2>2 DEF Wake, e
<1>3. CASE ~MayClaim(e)
  BY <1>1, <1>3 DEF Wake, e
<1> QED BY <1>2, <1>3

\* wake, broken off between its events.
LEMMA CarefulHalfWake ==
  ASSUME NEW d \in Row, Sane(d), d.status = "none"
  PROVE  Careful(d, HalfWake(d))
<1>1. d.attempt \in Nat
  BY DEF Row
<1> QED BY <1>1 DEF HalfWake, Becomes, Row, Careful, Tame, Mild, Thrifty, Sane,
           Unused, WaitsForApproval, WaitsForAnswer

\* mark_delivery_phase.
LEMMA CarefulMarkPhase ==
  ASSUME NEW d \in Row, Sane(d) PROVE Careful(d, MarkPhase(d))
<1>1. d.attempt \in Nat
  BY DEF Row
<1>2. Careful(d, [d EXCEPT !.phase = "run", !.timed = TRUE, !.known = {}])
  BY <1>1 DEF Row, Careful, Tame, Mild, Thrifty, Sane, Unused,
     WaitsForApproval,
     WaitsForAnswer, IsSettled
<1> QED BY <1>2, CarefulStutter DEF MarkPhase

\* _fail_delivery_locked: what is tried again is not begun for nothing.
LEMMA CarefulFailAnyway ==
  ASSUME NEW d \in Row, Sane(d), NEW retry \in BOOLEAN
  PROVE  Careful(d, FailAnyway(d, retry))
<1> DEFINE again == [Untimed(Becomes(d, "retrying")) EXCEPT
                       !.consume = TRUE, !.advanced = FALSE]
           over  == [Settles(d, "failed") EXCEPT !.consume = FALSE]
<1>1. Careful(d, again)
  <2>1. d.attempt \in Nat
    BY DEF Row
  <2>2. /\ again.status = "retrying" /\ again.consume /\ ~again.advanced
        /\ again.attempt = d.attempt /\ again.answered = d.answered
        /\ again.question = d.question /\ again.approval = d.approval
    BY DEF Untimed, Becomes, Row
  <2> HIDE DEF again
  <2> QED BY <2>1, <2>2 DEF Careful, Tame, Mild, Thrifty, Sane, Unused,
             WaitsForApproval, WaitsForAnswer
<1>2. Careful(d, over)
  <2> DEFINE e == Settles(d, "failed")
             f == Untimed(Becomes(d, "failed"))
  <2>1. Careful(d, e)
    BY CarefulSettles
  <2>2. f \in Row /\ f.status = "failed" /\ f.attempt = d.attempt
          /\ f.answered = d.answered /\ f.question = d.question
          /\ f.approval = d.approval
    BY DEF Untimed, Becomes, Row, Status
  <2>3. e = IF d.advanced THEN [f EXCEPT !.advanced = FALSE]
            ELSE [f EXCEPT !.advanced = TRUE, !.wakes = @ + 1]
    BY DEF Settles
  <2> HIDE DEF e, f
  <2>4. /\ over.status = "failed" /\ over.attempt = d.attempt
        /\ over.answered = d.answered /\ over.question = d.question
        /\ over.approval = d.approval /\ over.wakes = e.wakes
        /\ over.advanced = e.advanced
    BY <2>2, <2>3 DEF Row, e
  <2>5. over.wakes = 0 => ~over.advanced
    BY <2>1, <2>4 DEF Careful, Tame, Mild, Sane
  <2> HIDE DEF over
  <2> QED BY <2>4, <2>5, CarefulRests DEF Rests
<1> HIDE DEF again, over
<1> QED BY <1>1, <1>2, CarefulStutter DEF FailAnyway, again, over

\* fail_delivery.
LEMMA CarefulFail ==
  ASSUME NEW d \in Row, Sane(d), NEW retry \in BOOLEAN
  PROVE  Careful(d, Fail(d, retry))
<1> QED BY CarefulFailAnyway, CarefulStutter DEF Fail

\* skip_delivery may leave an attempt that was used to be used again.
LEMMA TameSkip ==
  ASSUME NEW d \in Row, Sane(d)
  PROVE  /\ Tame(d, Skip(d))
         /\ d.status \in {"pending", "claimed"} => Thrifty(d, Skip(d))
<1> DEFINE e == [Untimed(Becomes(d, "skipped")) EXCEPT !.consume = FALSE]
<1>1. d.attempt \in Nat
  BY DEF Row
<1>2. /\ e.status = "skipped" /\ e.attempt = d.attempt
      /\ e.answered = d.answered /\ e.question = d.question
      /\ e.approval = d.approval /\ e.wakes = d.wakes
      /\ e.advanced = d.advanced
  BY DEF Untimed, Becomes, Row
<1> HIDE DEF e
<1>3. Tame(d, e) /\ (d.status \in {"pending", "claimed"} => Thrifty(d, e))
  BY <1>1, <1>2 DEF Tame, Mild, Thrifty, Sane, Unused, WaitsForApproval,
     WaitsForAnswer
<1> QED BY <1>3, CarefulStutter DEF Skip, e, Careful

\* defer_delivery_capacity: the claim was not used.
LEMMA CarefulDefer ==
  ASSUME NEW d \in Row, Sane(d) PROVE Careful(d, Defer(d))
<1> DEFINE e == [Untimed(Becomes(d, "interrupted")) EXCEPT !.consume = FALSE]
<1>1. d.attempt \in Nat
  BY DEF Row
<1>2. /\ e.status = "interrupted" /\ e.attempt = d.attempt
      /\ e.answered = d.answered /\ e.question = d.question
      /\ e.approval = d.approval /\ e.wakes = d.wakes
      /\ e.advanced = d.advanced
  BY DEF Untimed, Becomes, Row
<1> HIDE DEF e
<1>3. d.status \in {"pending", "claimed"} => Careful(d, e)
  BY <1>1, <1>2 DEF Careful, Tame, Mild, Thrifty, Sane, Unused,
     WaitsForApproval,
     WaitsForAnswer
<1> QED BY <1>3, CarefulStutter DEF Defer, e

\* _mark_delivery_draining_locked.
LEMMA CarefulDrain ==
  ASSUME NEW d \in Row, Sane(d), NEW phase
  PROVE  Careful(d, Drain(d, phase))
<1> DEFINE e == [Becomes(d, "draining") EXCEPT !.phase = phase]
<1>1. /\ e.status = "draining" /\ e.attempt = d.attempt
      /\ e.answered = d.answered /\ e.question = d.question
      /\ e.approval = d.approval /\ e.wakes = d.wakes
      /\ e.advanced = d.advanced
  BY DEF Becomes, Row
<1> HIDE DEF e
<1>2. Careful(d, e)
  BY <1>1, CarefulRests DEF Rests, Sane
<1> QED BY <1>2, CarefulStutter DEF Drain, e

\* finish_delivery_drain.
LEMMA CarefulFinishDrain ==
  ASSUME NEW d \in Row, Sane(d), NEW retry \in BOOLEAN
  PROVE  Careful(d, FinishDrain(d, retry))
<1> QED BY CarefulFail, CarefulStutter DEF FinishDrain

\* park_delivery and deny_delivery.
LEMMA CarefulParkDeny ==
  ASSUME NEW d \in Row, Sane(d)
  PROVE  Careful(d, Park(d)) /\ Careful(d, Deny(d))
<1> QED BY CarefulSettles, CarefulStutter DEF Park, Deny

\* mark_by_approval_phase.
LEMMA CarefulMarkApply ==
  ASSUME NEW d \in Row, Sane(d), NEW a PROVE Careful(d, MarkApply(d, a))
<1> DEFINE e == [Becomes(d, "applying") EXCEPT !.phase = "apply",
                                               !.timed = TRUE]
<1>1. /\ e.status = "applying" /\ e.attempt = d.attempt
      /\ e.answered = d.answered /\ e.question = d.question
      /\ e.approval = d.approval /\ e.wakes = d.wakes
      /\ e.advanced = d.advanced
  BY DEF Becomes, Row
<1> HIDE DEF e
<1>2. Careful(d, e)
  BY <1>1, CarefulRests DEF Rests, Sane
<1> QED BY <1>2, CarefulStutter DEF MarkApply, e

\* resolve_delivery_approval.
LEMMA CarefulResolveApproval ==
  ASSUME NEW d \in Row, Sane(d), NEW a, NEW ok \in BOOLEAN
  PROVE  Careful(d, ResolveApproval(d, a, ok))
<1>1. Careful(d, FailAnyway(d, FALSE))
  <2>1. FALSE \in BOOLEAN
    OBVIOUS
  <2> QED BY <2>1, CarefulFailAnyway, Zenon
<1>2. Careful(d, Complete(d))
  BY CarefulSettles DEF Complete
<1> QED BY <1>1, <1>2, CarefulStutter DEF ResolveApproval

\* reconcile_missing_approvals.
LEMMA CarefulMissesApproval ==
  ASSUME NEW d \in Row, Sane(d), NEW known
  PROVE  Careful(d, MissesApproval(d, known))
<1>1. Careful(d, FailAnyway(d, FALSE))
  <2>1. FALSE \in BOOLEAN
    OBVIOUS
  <2> QED BY <2>1, CarefulFailAnyway, Zenon
<1> QED BY <1>1, CarefulStutter DEF MissesApproval

\* A reminder parks a row that waited.
LEMMA CarefulRemind ==
  ASSUME NEW d \in Row, Sane(d) PROVE Careful(d, Remind(d))
<1> DEFINE e == [Becomes(d, "parked") EXCEPT !.reminded = TRUE]
<1>1. d.attempt \in Nat
  BY DEF Row
<1>2. /\ e.status = "parked" /\ e.attempt = d.attempt
      /\ e.answered = d.answered /\ e.question = d.question
      /\ e.approval = d.approval /\ e.wakes = d.wakes
      /\ e.advanced = d.advanced /\ e.kind = d.kind
  BY DEF Becomes, Row
<1> HIDE DEF e
<1>3. d.status = "blocked" => Careful(d, e)
  BY <1>1, <1>2 DEF Careful, Tame, Mild, Thrifty, Sane, Unused,
     WaitsForApproval,
     WaitsForAnswer, IsSettled
<1> QED BY <1>3, CarefulStutter DEF Remind, e

\* reconcile_phase_watchdogs.
LEMMA CarefulWatchdog ==
  ASSUME NEW d \in Row, Sane(d) PROVE Careful(d, Watchdog(d))
<1> QED BY CarefulDefer, CarefulDrain, CarefulStutter DEF Watchdog

\* reconcile_stale_running_deliveries: what ran is counted when it is claimed.
LEMMA CarefulReconcile ==
  ASSUME NEW d \in Row, Sane(d), NEW result
  PROVE  Careful(d, Reconcile(d, result))
<1> USE CarefulStutter
<1> DEFINE w == [Untimed(Becomes(d, "interrupted")) EXCEPT !.consume = FALSE]
<1>1. CASE d.status \in {"pending", "claimed"}
  <2>1. w = Defer(d)
    BY <1>1 DEF Defer
  <2>2. Reconcile(d, result) = w
    BY <1>1 DEF Reconcile
  <2> QED BY <2>1, <2>2, CarefulDefer
<1>2. CASE d.status = "draining"
  <2>1. Reconcile(d, result) = FinishDrain(d, TRUE)
    BY <1>2 DEF Reconcile
  <2> QED BY <2>1, CarefulFinishDrain
<1>3. CASE d.status = "applying"
  <2> DEFINE e == Drain(d, "apply")
  <2>1. Reconcile(d, result) = FinishDrain(e, FALSE)
    BY <1>3 DEF Reconcile
  <2>2. Careful(d, e) /\ e \in Row /\ Sane(e)
    BY CarefulDrain, SoundDrain DEF Phase, Sound, Careful, Tame, Mild
  <2> HIDE DEF e
  <2>3. Careful(e, FinishDrain(e, FALSE)) /\ FinishDrain(e, FALSE) \in Row
    BY <2>2, CarefulFinishDrain, SoundFinishDrain DEF Sound
  <2> QED BY <2>1, <2>2, <2>3, CarefulTwice
<1>4. CASE d.status = "running"
  <2> DEFINE e == Recover(d, result)
             f == [Becomes(e, "interrupted") EXCEPT !.consume = TRUE]
  <2>1. Reconcile(d, result) = IF e.status # "running" THEN e ELSE f
    BY <1>4 DEF Reconcile
  <2>2. Careful(d, e) /\ e \in Row /\ Sane(e)
    BY CarefulRecover, SoundRecover DEF Sound, Careful, Tame, Mild
  <2> HIDE DEF e
  <2>3. f \in Row
    BY <2>2 DEF Becomes, Row, Status
  <2>4. Careful(e, f)
    <3>1. e.attempt \in Nat
      BY <2>2 DEF Row
    <3>2. /\ f.status = "interrupted" /\ f.consume /\ f.attempt = e.attempt
          /\ f.answered = e.answered /\ f.question = e.question
          /\ f.approval = e.approval /\ f.wakes = e.wakes
          /\ f.advanced = e.advanced
      BY <2>2 DEF Becomes, Row
    <3> HIDE DEF f
    <3> QED BY <2>2, <3>1, <3>2 DEF Careful, Tame, Mild, Thrifty, Sane, Unused,
               WaitsForApproval, WaitsForAnswer
  <2>5. Careful(d, f)
    BY <2>2, <2>3, <2>4, CarefulTwice
  <2> HIDE DEF f
  <2> QED BY <2>1, <2>2, <2>5
<1>5. CASE d.status \notin {"pending", "claimed", "draining", "applying",
                            "running"}
  <2>1. Reconcile(d, result) = d
    BY <1>5 DEF Reconcile
  <2> QED BY <2>1
<1> QED BY <1>1, <1>2, <1>3, <1>4, <1>5

\* The watchdog at start-up, which closes what it drains.
LEMMA CarefulCloseOrphan ==
  ASSUME NEW d \in Row, Sane(d) PROVE Careful(d, CloseOrphan(d))
<1> DEFINE e == Watchdog(d)
           f == FinishDrain(e, e.phase # "apply")
<1>1. Careful(d, e) /\ e \in Row /\ Sane(e)
  BY CarefulWatchdog, SoundWatchdog DEF Sound, Careful, Tame, Mild
<1> HIDE DEF e
<1>2. Careful(e, f) /\ f \in Row
  BY <1>1, CarefulFinishDrain, SoundFinishDrain DEF Sound
<1> HIDE DEF f
<1>3. Careful(d, f)
  BY <1>1, <1>2, CarefulTwice
<1> QED BY <1>3, CarefulStutter DEF CloseOrphan, e, f
===============================================================================
