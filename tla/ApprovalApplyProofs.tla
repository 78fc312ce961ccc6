------------------------ MODULE ApprovalApplyProofs ------------------------
(* For any operations, projects and bounds: a decision is carried out once,  *)
(* a writer has its project alone, nothing goes on top of a torn write, and  *)
(* a torn write can be undone, in attempts that are counted.  A restore or a *)
(* resolve may come from any session or client and hold any project's lock.  *)
EXTENDS ApprovalApply, TLAPS

--------------------------------------------------------------------------------
(* The inductive invariant.                                                   *)

\* An operation that has not begun.
Fresh(o) == IF o \in Approvals THEN approval[o] \in {"none", "pending", "approved"}
            ELSE at[o] = "idle"

\* Memory and file agree on what is pending, and what is fresh is at rest.
Decisions == /\ snapshot \subseteq Pending(approval)
             /\ \A a \in Approvals : Fresh(a) => at[a] = "idle"

\* What has not reached its handler has not been called.
Once == /\ AppliedOnce
        /\ \A o \in Op : Fresh(o) \/ at[o] \in {"begun", "ready"} => called[o] = 0

\* The storage lock admits one restore.
OneRestore ==
  \A r, s \in Op : (/\ Kind[r] = "restore" /\ at[r] \in {"picked", "writing"}
                    /\ Kind[s] = "restore" /\ at[s] \in {"picked", "writing"}) => r = s

\* A write whose transaction has not yet written its end.
Open(w) == at[w] \notin {"idle", "leaving", "over"}

\* What the end of a write has struck from the count for good: while the write
\* is open, the count is either whole or that of a settled record.
Struck(w) == IF Open(w) THEN 0 ELSE lost[w]

\* Where a record stands before there is a write that it is about.
Records ==
  \A w \in Writes : /\ Fresh(w) \/ at[w] = "begun" => log[w] = "none"
                    /\ log[w] = "none" => touched[w] = 0

\* TriesAreCounted, with what is true of it before the write's end.
Counted ==
  \A w \in Writes : /\ touched[w] <= Limit + Struck(w) /\ lost[w] <= Limit
                    /\ log[w] \in Active => touched[w] <= tries[w] + Struck(w)

\* What a restore has read still bounds what was tried.
HasRead(o) ==
  /\ at[o] \in {"idle", "begun", "ready"} => seen[o] = None
  /\ at[o] = "picked" =>
       /\ Kind[o] \in Exempt /\ seen[o] \in Nat /\ log[Target[o]] # "none"
       /\ Kind[o] = "restore" =>
            /\ touched[Target[o]] <= seen[o] + Struck(Target[o])
            /\ seen[o] < Limit
  /\ (Kind[o] = "restore" /\ at[o] = "writing" /\ seen[o] # None) =>
       touched[Target[o]] > 0

Attempts == \A o \in Op : HasRead(o)

\* A restore that writes together with the write that it restores crosses it.
Crossings ==
  \A r \in Op : (Kind[r] = "restore" /\ at[r] = "writing") =>
    \/ at[Target[r]] \notin {"ready", "writing"}
    \/ Target[r] \in crossed

\* A write is torn only between its call and its end; from the moment it may be
\* called it can be undone.
Undoable ==
  \A w \in Writes :
    /\ called[w] = 0 => w \notin torn
    /\ at[w] \in {"wrote", "committed"} => w \notin torn \ crossed
    /\ at[w] \in {"failing", "failed"} /\ end[w] = "harmless" => w \notin torn \ crossed
    /\ (w \in torn \/ at[w] = "ready") /\ w \notin vouched \cup crossed =>
         log[w] \in Active /\ w \in archive

\* Nothing torn lies under a write that is about to be called.
ClearBelow ==
  \A o \in Op : (at[o] \in {"begun", "ready"} /\ Kind[o] \in {"write", "plain"}) =>
    \A w \in Unsettled : ~Overlap(Root[w], Root[o])

IInv == /\ TypeOK /\ Alone /\ Decisions /\ Once /\ OneRestore /\ Records
        /\ Attempts /\ Counted /\ Crossings /\ Undoable /\ ClearBelow

\* What restores, resolves and dialogs refer to is a write.
LEMMA Targets == \A o \in Op : Kind[o] \notin {"write", "plain"} => Target[o] \in Writes
  BY OpAssumption

\* What the type and the limit say of one record's counts.
LEMMA Numbers ==
  ASSUME TypeOK, Counted, NEW w \in Writes
  PROVE  /\ touched[w] \in Nat /\ tries[w] \in Nat /\ lost[w] \in Nat
         /\ Struck(w) \in Nat /\ Limit \in Nat
         /\ touched[w] <= Limit + Struck(w) /\ lost[w] <= Limit
         /\ log[w] \in Active => touched[w] <= tries[w] + Struck(w)
  BY OpAssumption DEF TypeOK, Counted, Struck

\* Nothing is requested, called or recorded at the start.
LEMMA Initially == Init => IInv
  BY OpAssumption DEF Init, IInv, TypeOK, Alone, Decisions, Once, OneRestore,
     Records, Attempts, HasRead, Counted, Struck, Open, Crossings, Undoable,
     ClearBelow, Unsettled, Fresh, Pending, InFlight, AppliedOnce, Stage, Active,
     Exempt, Op, Writes, Keys

\* Every step stays in the types; a count that was read is a number.
LEMMA TypesKept ==
  ASSUME TypeOK, OneRestore, Attempts, [Next]_vars
  PROVE  TypeOK'
  <1> USE OpAssumption, Targets DEF TypeOK, InFlight, Stage, Active, memory,
      disk, history, bounds
  <1>1. ASSUME NEW a \in Approvals, Request(a) \/ Approve(a) \/ Refuse(a)
       PROVE  TypeOK'
    BY <1>1 DEF Request, Approve, Refuse, Decide, Pending
  <1>2. ASSUME NEW a \in Approvals, LeakLock(a) PROVE TypeOK'
    BY <1>2 DEF LeakLock, Fault, MayTry, Keys, Op
  <1>3. ASSUME NEW a \in Approvals, Commit(a) \/ Fail(a) PROVE TypeOK'
    BY <1>3 DEF Commit, Fail, Failing, Fault, Op
  <1>4. ASSUME NEW o \in Op, Begin(o) PROVE TypeOK'
    BY <1>4 DEF Begin, MayTry, Keys, Op
  <1>5. ASSUME NEW o \in Op, Guard(o) PROVE TypeOK'
    BY <1>5 DEF Guard, Fault, Writes
  <1>6. ASSUME NEW o \in Op, Call(o) \/ Return(o) PROVE TypeOK'
    BY <1>6 DEF Call, Return, Failing, Writes
  <1>7. ASSUME NEW o \in Op, Settle(o) \/ SettleFailed(o) PROVE TypeOK'
    BY <1>7 DEF Settle, SettleFailed, Record, Failing, Fault, Writes
  <1>8. ASSUME NEW o \in Op, Leave(o) PROVE TypeOK'
    BY <1>8 DEF Leave
  <1>9. ASSUME NEW r \in Op, PickRestore(r) \/ PrepareRestore(r) PROVE TypeOK'
    BY <1>9 DEF PickRestore, PrepareRestore, Crosses, Failing, Attempts, HasRead
  <1>10. ASSUME NEW r \in Op, EndRestore(r) PROVE TypeOK'
    BY <1>10 DEF EndRestore, Failing, Attempts, HasRead
  <1>11. ASSUME NEW v \in Op, PickResolve(v) \/ EndResolve(v) PROVE TypeOK'
    BY <1>11 DEF PickResolve, EndResolve, Attempts, HasRead
  <1>12. CASE (\E t \in Writes : Delete(t)) \/ (\E k \in Keys : TakeRead(k) \/ EndRead(k))
    BY <1>12 DEF Delete, TakeRead, EndRead
  <1>13. CASE Crash
    BY <1>13 DEF Crash
  <1>14. CASE UNCHANGED vars
    BY <1>14 DEF vars
  <1> QED
    BY <1>1, <1>2, <1>3, <1>4, <1>5, <1>6, <1>7, <1>8, <1>9, <1>10, <1>11,
       <1>12, <1>13, <1>14 DEF Next

\* An operation is alone when it begins, and only beginning and reading add to
\* who is there.
LEMMA AloneKept == ASSUME TypeOK, Alone, [Next]_vars PROVE Alone'
  <1> USE OpAssumption DEF TypeOK, Alone, InFlight, Overlap, memory, disk,
      history, bounds
  <1>1. ASSUME NEW a \in Approvals, Request(a) \/ Approve(a) \/ Refuse(a)
       PROVE  Alone'
    BY <1>1 DEF Request, Decide, Approve, Refuse
  <1>2. ASSUME NEW a \in Approvals, LeakLock(a) PROVE Alone'
    BY <1>2 DEF LeakLock, Fault
  <1>3. ASSUME NEW a \in Approvals, Commit(a) \/ Fail(a) PROVE Alone'
    BY <1>3 DEF Commit, Failing, Fault, Fail
  <1>4. ASSUME NEW o \in Op, Begin(o) PROVE Alone'
    BY <1>4 DEF Begin, MayTry, NobodyReads, NobodyWrites, Parent, Rides
  <1>5. ASSUME NEW o \in Op, Guard(o) PROVE Alone'
    BY <1>5 DEF Guard, Fault
  <1>6. ASSUME NEW o \in Op, Call(o) \/ Return(o) PROVE Alone'
    BY <1>6 DEF Call, Return, Failing
  <1>7. ASSUME NEW o \in Op, Settle(o) \/ SettleFailed(o) PROVE Alone'
    BY <1>7 DEF Settle, Failing, Fault, SettleFailed
  <1>8. ASSUME NEW o \in Op, Leave(o) PROVE Alone'
    BY <1>8 DEF Leave
  <1>9. ASSUME NEW o \in Op, PickRestore(o) \/ PrepareRestore(o) PROVE Alone'
    BY <1>9 DEF PickRestore, Failing, PrepareRestore
  <1>10. ASSUME NEW o \in Op, EndRestore(o) PROVE Alone'
    BY <1>10 DEF EndRestore, Failing
  <1>11. ASSUME NEW o \in Op, PickResolve(o) \/ EndResolve(o) PROVE Alone'
    BY <1>11 DEF PickResolve, EndResolve
  <1>12. CASE (\E t \in Writes : Delete(t)) \/ (\E k \in Keys : TakeRead(k) \/ EndRead(k))
    BY <1>12 DEF Delete, TakeRead, EndRead, NobodyReads
  <1>13. CASE Crash
    BY <1>13 DEF Crash
  <1>14. CASE UNCHANGED vars
    BY <1>14 DEF vars
  <1> QED
    BY <1>1, <1>2, <1>3, <1>4, <1>5, <1>6, <1>7, <1>8, <1>9, <1>10, <1>11,
       <1>12, <1>13, <1>14 DEF Next

\* What is pending is stored before anybody hears of it.
LEMMA DecisionsKept == ASSUME TypeOK, Decisions, [Next]_vars PROVE Decisions'
  <1> USE OpAssumption DEF TypeOK, Decisions, Fresh, Pending, Op, memory, disk,
      history, bounds
  <1>1. ASSUME NEW a \in Approvals, Request(a) \/ Approve(a) \/ Refuse(a)
       PROVE  Decisions'
    BY <1>1 DEF Request, Decide, Approve, Refuse
  <1>2. ASSUME NEW a \in Approvals, LeakLock(a) PROVE Decisions'
    BY <1>2 DEF LeakLock, Fault
  <1>3. ASSUME NEW a \in Approvals, Commit(a) \/ Fail(a) PROVE Decisions'
    BY <1>3 DEF Commit, Failing, Fault, Fail
  <1>4. ASSUME NEW o \in Op, Begin(o) PROVE Decisions'
    BY <1>4 DEF Begin, MayTry
  <1>5. ASSUME NEW o \in Op, Guard(o) PROVE Decisions'
    BY <1>5 DEF Guard, Fault
  <1>6. ASSUME NEW o \in Op, Call(o) \/ Return(o) PROVE Decisions'
    BY <1>6 DEF Call, Return, Failing
  <1>7. ASSUME NEW o \in Op, Settle(o) \/ SettleFailed(o) PROVE Decisions'
    BY <1>7 DEF Settle, Failing, Fault, SettleFailed
  <1>8. ASSUME NEW o \in Op, Leave(o) PROVE Decisions'
    BY <1>8 DEF Leave
  <1>9. ASSUME NEW o \in Op, PickRestore(o) \/ PrepareRestore(o)
       PROVE  Decisions'
    BY <1>9 DEF PickRestore, Failing, PrepareRestore
  <1>10. ASSUME NEW o \in Op, EndRestore(o) PROVE Decisions'
    BY <1>10 DEF EndRestore, Failing
  <1>11. ASSUME NEW o \in Op, PickResolve(o) \/ EndResolve(o) PROVE Decisions'
    BY <1>11 DEF PickResolve, EndResolve
  <1>12. CASE (\E t \in Writes : Delete(t)) \/ (\E k \in Keys : TakeRead(k) \/ EndRead(k))
    BY <1>12 DEF Delete, TakeRead, EndRead
  <1>13. CASE Crash
    BY <1>13 DEF Crash
  <1>14. CASE UNCHANGED vars
    BY <1>14 DEF vars
  <1> QED
    BY <1>1, <1>2, <1>3, <1>4, <1>5, <1>6, <1>7, <1>8, <1>9, <1>10, <1>11,
       <1>12, <1>13, <1>14 DEF Next

\* The handler is called on the way through ready, and nothing leads back.
LEMMA OnceKept == ASSUME TypeOK, Decisions, Once, [Next]_vars PROVE Once'
  <1> USE OpAssumption DEF TypeOK, Decisions, Once, AppliedOnce, Fresh, Pending,
      Op, Writes, memory, disk, history, bounds
  <1>1. ASSUME NEW a \in Approvals, Request(a) \/ Approve(a) \/ Refuse(a)
       PROVE  Once'
    BY <1>1 DEF Request, Decide, Approve, Refuse
  <1>2. ASSUME NEW a \in Approvals, LeakLock(a) PROVE Once'
    BY <1>2 DEF LeakLock, Fault
  <1>3. ASSUME NEW a \in Approvals, Commit(a) \/ Fail(a) PROVE Once'
    BY <1>3 DEF Commit, Failing, Fault, Fail
  <1>4. ASSUME NEW o \in Op, Begin(o) PROVE Once'
    BY <1>4 DEF Begin, MayTry
  <1>5. ASSUME NEW o \in Op, Guard(o) PROVE Once'
    BY <1>5 DEF Guard, Fault
  <1>6. ASSUME NEW o \in Op, Call(o) \/ Return(o) PROVE Once'
    BY <1>6 DEF Call, Return, Failing
  <1>7. ASSUME NEW o \in Op, Settle(o) \/ SettleFailed(o) PROVE Once'
    BY <1>7 DEF Settle, Failing, Fault, SettleFailed
  <1>8. ASSUME NEW o \in Op, Leave(o) PROVE Once'
    BY <1>8 DEF Leave
  <1>9. ASSUME NEW o \in Op, PickRestore(o) \/ PrepareRestore(o) PROVE Once'
    BY <1>9 DEF PickRestore, Failing, PrepareRestore
  <1>10. ASSUME NEW o \in Op, EndRestore(o) PROVE Once'
    BY <1>10 DEF EndRestore, Failing
  <1>11. ASSUME NEW o \in Op, PickResolve(o) \/ EndResolve(o) PROVE Once'
    BY <1>11 DEF PickResolve, EndResolve
  <1>12. CASE (\E t \in Writes : Delete(t)) \/ (\E k \in Keys : TakeRead(k) \/ EndRead(k))
    BY <1>12 DEF Delete, TakeRead, EndRead
  <1>13. CASE Crash
    BY <1>13 DEF Crash
  <1>14. CASE UNCHANGED vars
    BY <1>14 DEF vars
  <1> QED
    BY <1>1, <1>2, <1>3, <1>4, <1>5, <1>6, <1>7, <1>8, <1>9, <1>10, <1>11,
       <1>12, <1>13, <1>14 DEF Next

\* A restore enters the storage lock when there is no other in it.
LEMMA OneRestoreKept == ASSUME TypeOK, OneRestore, [Next]_vars PROVE OneRestore'
  <1> USE OpAssumption DEF TypeOK, OneRestore, memory, disk, history, bounds
  <1>1. ASSUME NEW a \in Approvals, Request(a) \/ Approve(a) \/ Refuse(a)
       PROVE  OneRestore'
    BY <1>1 DEF Request, Decide, Approve, Refuse
  <1>2. ASSUME NEW a \in Approvals, LeakLock(a) PROVE OneRestore'
    BY <1>2 DEF LeakLock, Fault
  <1>3. ASSUME NEW a \in Approvals, Commit(a) \/ Fail(a) PROVE OneRestore'
    BY <1>3 DEF Commit, Failing, Fault, Fail
  <1>4. ASSUME NEW o \in Op, Begin(o) PROVE OneRestore'
    BY <1>4 DEF Begin
  <1>5. ASSUME NEW o \in Op, Guard(o) PROVE OneRestore'
    BY <1>5 DEF Guard, Fault
  <1>6. ASSUME NEW o \in Op, Call(o) \/ Return(o) PROVE OneRestore'
    BY <1>6 DEF Call, Return, Failing
  <1>7. ASSUME NEW o \in Op, Settle(o) \/ SettleFailed(o) PROVE OneRestore'
    BY <1>7 DEF Settle, Failing, Fault, SettleFailed
  <1>8. ASSUME NEW o \in Op, Leave(o) PROVE OneRestore'
    BY <1>8 DEF Leave
  <1>9. ASSUME NEW o \in Op, PickRestore(o) \/ PrepareRestore(o)
       PROVE  OneRestore'
    BY <1>9 DEF PickRestore, Failing, PrepareRestore, StorageFree
  <1>10. ASSUME NEW o \in Op, EndRestore(o) PROVE OneRestore'
    BY <1>10 DEF EndRestore, Failing
  <1>11. ASSUME NEW o \in Op, PickResolve(o) \/ EndResolve(o) PROVE OneRestore'
    BY <1>11 DEF PickResolve, EndResolve
  <1>12. CASE (\E t \in Writes : Delete(t)) \/ (\E k \in Keys : TakeRead(k) \/ EndRead(k))
    BY <1>12 DEF Delete, TakeRead, EndRead
  <1>13. CASE Crash
    BY <1>13 DEF Crash
  <1>14. CASE UNCHANGED vars
    BY <1>14 DEF vars
  <1> QED
    BY <1>1, <1>2, <1>3, <1>4, <1>5, <1>6, <1>7, <1>8, <1>9, <1>10, <1>11,
       <1>12, <1>13, <1>14 DEF Next

\* A record is made by its write, and restored when it is there.
LEMMA RecordsKept ==
  ASSUME TypeOK, Decisions, Records, Attempts, [Next]_vars
  PROVE  Records'
  <1> USE OpAssumption, Targets DEF TypeOK, Decisions, Records, Fresh, InFlight,
      Active, Pending, Op, Writes, memory, disk, history, bounds
  <1>1. ASSUME NEW a \in Approvals, Request(a) \/ Approve(a) \/ Refuse(a)
       PROVE  Records'
    BY <1>1 DEF Request, Decide, Approve, Refuse
  <1>2. ASSUME NEW a \in Approvals, LeakLock(a) PROVE Records'
    BY <1>2 DEF LeakLock, Fault
  <1>3. ASSUME NEW a \in Approvals, Commit(a) \/ Fail(a) PROVE Records'
    BY <1>3 DEF Commit, Failing, Fault, Fail
  <1>4. ASSUME NEW o \in Op, Begin(o) PROVE Records'
    BY <1>4 DEF Begin, MayTry
  <1>5. ASSUME NEW o \in Op, Guard(o) PROVE Records'
    BY <1>5 DEF Guard, Fault
  <1>6. ASSUME NEW o \in Op, Call(o) \/ Return(o) PROVE Records'
    BY <1>6 DEF Call, Return, Failing
  <1>7. ASSUME NEW o \in Op, Settle(o) \/ SettleFailed(o) PROVE Records'
    BY <1>7 DEF Settle, Record, Failing, Fault, SettleFailed
  <1>8. ASSUME NEW o \in Op, Leave(o) PROVE Records'
    BY <1>8 DEF Leave
  <1>9. ASSUME NEW o \in Op, PickRestore(o) \/ PrepareRestore(o) PROVE Records'
    BY <1>9 DEF PickRestore, Failing, PrepareRestore, Attempts, HasRead
  <1>10. ASSUME NEW o \in Op, EndRestore(o) PROVE Records'
    BY <1>10 DEF EndRestore, Failing, Attempts, HasRead
  <1>11. ASSUME NEW o \in Op, PickResolve(o) \/ EndResolve(o) PROVE Records'
    BY <1>11 DEF PickResolve, EndResolve, Attempts, HasRead
  <1>12. CASE (\E t \in Writes : Delete(t)) \/ (\E k \in Keys : TakeRead(k) \/ EndRead(k))
    BY <1>12 DEF Delete, TakeRead, EndRead
  <1>13. CASE Crash
    BY <1>13 DEF Crash
  <1>14. CASE UNCHANGED vars
    BY <1>14 DEF vars
  <1> QED
    BY <1>1, <1>2, <1>3, <1>4, <1>5, <1>6, <1>7, <1>8, <1>9, <1>10, <1>11,
       <1>12, <1>13, <1>14 DEF Next

\* A count that was read stays a bound: no other restore is in the storage lock.
LEMMA AttemptsKept ==
  ASSUME TypeOK, Decisions, OneRestore, Records, Attempts, Counted, [Next]_vars
  PROVE  Attempts'
  <1> USE OpAssumption, Targets DEF TypeOK, Attempts, HasRead, OneRestore,
      Struck, Open, Active, Exempt, Writes, memory, disk, history, bounds
  <1>1. ASSUME NEW a \in Approvals, Request(a) \/ Approve(a) \/ Refuse(a)
       PROVE  Attempts'
    BY <1>1 DEF Request, Decide, Approve, Refuse
  <1>2. ASSUME NEW a \in Approvals, LeakLock(a) PROVE Attempts'
    BY <1>2 DEF LeakLock, Fault
  <1>3. ASSUME NEW a \in Approvals, Commit(a) \/ Fail(a) PROVE Attempts'
    BY <1>3 DEF Commit, Failing, Fault, Fail
  <1>4. ASSUME NEW o \in Op, Begin(o) PROVE Attempts'
    BY <1>4 DEF Begin, MayTry, Decisions, Records, Fresh
  <1>5. ASSUME NEW o \in Op, Guard(o) PROVE Attempts'
    BY <1>5 DEF Guard, Fault
  <1>6. ASSUME NEW o \in Op, Call(o) \/ Return(o) PROVE Attempts'
    BY <1>6 DEF Call, Return, Failing
  <1>7. ASSUME NEW o \in Op, Settle(o) \/ SettleFailed(o) PROVE Attempts'
    BY <1>7 DEF Settle, Record, Failing, Fault, SettleFailed
  <1>8. ASSUME NEW o \in Op, Leave(o) PROVE Attempts'
    BY <1>8 DEF Leave
  <1>9. ASSUME NEW o \in Op, PickRestore(o) PROVE Attempts'
    <2>1. \A p \in Op : p # o => at'[p] = at[p] /\ seen'[p] = seen[p]
      BY <1>9 DEF PickRestore, Failing
    <2>2. \A p \in Op : p # o => HasRead(p)'
      BY <1>9, <2>1 DEF PickRestore
    <2>3. HasRead(o)'
      <3>1. /\ Kind[o] = "restore" /\ at[o] = "ready" /\ seen[o] = None
            /\ Target[o] \in Writes /\ log' = log /\ touched' = touched
            /\ Struck(Target[o])' = Struck(Target[o])
        BY <1>9 DEF PickRestore, Failing
      <3>2. \/ at'[o] = "failing"
            \/ /\ at'[o] = "picked" /\ seen'[o] = tries[Target[o]]
               /\ log[Target[o]] \in Active /\ tries[Target[o]] < Limit
            \/ at'[o] = "writing" /\ seen'[o] = seen[o]
        BY <1>9 DEF PickRestore, Failing
      <3>3. CASE at'[o] = "picked"
        <4>1. /\ tries[Target[o]] \in Nat
              /\ log[Target[o]] \in Active =>
                   touched[Target[o]] <= tries[Target[o]] + Struck(Target[o])
          BY <3>1, Numbers
        <4>2. /\ seen'[o] = tries[Target[o]] /\ tries[Target[o]] < Limit
              /\ log'[Target[o]] \in Active
              /\ touched'[Target[o]] <= tries[Target[o]] + Struck(Target[o])'
          BY <3>1, <3>2, <3>3, <4>1
        <4> QED BY <3>1, <3>3, <4>1, <4>2
      <3>4. CASE at'[o] # "picked"
        BY <3>1, <3>2, <3>4
      <3> QED BY <3>3, <3>4
    <2> QED BY <2>2, <2>3
  <1>10. ASSUME NEW o \in Op, PrepareRestore(o) PROVE Attempts'
    <2>1. /\ Kind[o] = "restore" /\ at[o] = "picked" /\ seen' = seen
          /\ Target[o] \in Writes
      BY <1>10 DEF PrepareRestore
    <2>2. \/ at' = [at EXCEPT ![o] = "writing"] /\ touched'[Target[o]] > 0
             /\ log' = [log EXCEPT ![Target[o]] = "needs_recovery"]
          \/ at' = [at EXCEPT ![o] = "failing"] /\ log' = log /\ touched' = touched
      BY <1>10, <2>1 DEF PrepareRestore, Failing
    <2>3. \A p \in Op : p # o => HasRead(p)'
      BY <1>10, <2>1, <2>2 DEF PrepareRestore
    <2>4. HasRead(o)'
      BY <2>1, <2>2
    <2> QED BY <2>3, <2>4
  <1>11. ASSUME NEW o \in Op, EndRestore(o) PROVE Attempts'
    BY <1>11 DEF EndRestore, Failing
  <1>12. ASSUME NEW o \in Op, PickResolve(o) \/ EndResolve(o) PROVE Attempts'
    BY <1>12 DEF PickResolve, EndResolve
  <1>13. CASE (\E t \in Writes : Delete(t)) \/ (\E k \in Keys : TakeRead(k) \/ EndRead(k))
    BY <1>13 DEF Delete, TakeRead, EndRead
  <1>14. CASE Crash
    BY <1>14 DEF Crash
  <1>15. CASE UNCHANGED vars
    BY <1>15 DEF vars
  <1> QED
    BY <1>1, <1>2, <1>3, <1>4, <1>5, <1>6, <1>7, <1>8, <1>9, <1>10, <1>11,
       <1>12, <1>13, <1>14, <1>15 DEF Next

\* An attempt is counted before it is made, and given back together with it.
LEMMA CountedKept ==
  ASSUME TypeOK, Decisions, Records, Attempts, Counted, [Next]_vars
  PROVE  Counted'
  <1> USE OpAssumption, Targets DEF TypeOK, Attempts, HasRead, Counted,
      Struck, Open, Active, Writes, memory, disk, history, bounds
  <1>1. ASSUME NEW a \in Approvals, Request(a) \/ Approve(a) \/ Refuse(a)
       PROVE  Counted'
    BY <1>1 DEF Request, Decide, Approve, Refuse
  <1>2. ASSUME NEW a \in Approvals, LeakLock(a) PROVE Counted'
    BY <1>2 DEF LeakLock, Fault
  <1>3. ASSUME NEW a \in Approvals, Commit(a) \/ Fail(a) PROVE Counted'
    BY <1>3 DEF Commit, Failing, Fault, Fail
  <1>4. ASSUME NEW o \in Op, Begin(o) PROVE Counted'
    BY <1>4 DEF Begin, MayTry, Records, Fresh
  <1>5. ASSUME NEW o \in Op, Guard(o) PROVE Counted'
    BY <1>5 DEF Guard, Fault, Records
  <1>6. ASSUME NEW o \in Op, Call(o) \/ Return(o) PROVE Counted'
    BY <1>6 DEF Call, Return, Failing
  <1>7. ASSUME NEW o \in Op, Settle(o) \/ SettleFailed(o) PROVE Counted'
    BY <1>7 DEF Settle, Record, Failing, Fault, SettleFailed
  <1>8. ASSUME NEW o \in Op, Leave(o) PROVE Counted'
    BY <1>8 DEF Leave
  <1>9. ASSUME NEW o \in Op, PickRestore(o) \/ PrepareRestore(o)
       PROVE  Counted'
    BY <1>9 DEF PickRestore, Failing, PrepareRestore
  <1>10. ASSUME NEW o \in Op, EndRestore(o) PROVE Counted'
    <2>1. Kind[o] = "restore" /\ at[o] = "writing" /\ Target[o] \in Writes
      BY <1>10 DEF EndRestore
    <2>2. ASSUME NEW w \in Writes, w # Target[o]
          PROVE  touched'[w] = touched[w] /\ tries'[w] = tries[w] /\ log'[w] = log[w]
      BY <1>10, <2>1, <2>2 DEF EndRestore, Failing
    <2> DEFINE struck == Struck(Target[o])
    <2>3. /\ touched[Target[o]] \in Nat /\ tries[Target[o]] \in Nat
          /\ struck \in Nat /\ touched[Target[o]] <= Limit + struck
          /\ log[Target[o]] \in Active => touched[Target[o]] <= tries[Target[o]] + struck
          /\ seen[o] # None => touched[Target[o]] > 0
      <3>1. seen[o] # None => touched[Target[o]] > 0
        BY <2>1
      <3> QED BY <2>1, <3>1, Numbers
    <2>4. \/ log'[Target[o]] \notin Active /\ touched' = touched
          \/ /\ log' = log /\ touched' = touched
             /\ tries' = tries \/ tries'[Target[o]] = tries[Target[o]] + 1
          \/ /\ seen[o] # None /\ log' = log
             /\ tries'[Target[o]] = IF tries[Target[o]] > 0 THEN tries[Target[o]] - 1
                                    ELSE tries[Target[o]]
             /\ touched'[Target[o]] = touched[Target[o]] - 1
      BY <1>10, <2>1 DEF EndRestore, Failing
    <2> HIDE DEF struck
    <2>5. /\ touched'[Target[o]] <= Limit + struck
          /\ log'[Target[o]] \in Active => touched'[Target[o]] <= tries'[Target[o]] + struck
      BY <2>3, <2>4
    <2>6. lost' = lost /\ \A w \in Writes : Struck(w)' = Struck(w)
      BY <1>10, <2>1 DEF EndRestore, Failing
    <2> QED BY <2>1, <2>2, <2>5, <2>6 DEF struck
  <1>11. ASSUME NEW o \in Op, PickResolve(o) \/ EndResolve(o)
       PROVE  Counted'
    BY <1>11 DEF PickResolve, EndResolve
  <1>12. CASE (\E t \in Writes : Delete(t)) \/ (\E k \in Keys : TakeRead(k) \/ EndRead(k))
    BY <1>12 DEF Delete, TakeRead, EndRead
  <1>13. CASE Crash
    BY <1>13 DEF Crash
  <1>14. CASE UNCHANGED vars
    BY <1>14 DEF vars
  <1> QED
    BY <1>1, <1>2, <1>3, <1>4, <1>5, <1>6, <1>7, <1>8, <1>9, <1>10, <1>11,
       <1>12, <1>13, <1>14 DEF Next

\* A write is ready for its call only when no restore writes, and a restore that
\* begins to write looks at the write that it restores.
LEMMA CrossingsKept == ASSUME TypeOK, Crossings, [Next]_vars PROVE Crossings'
  <1> USE OpAssumption, Targets DEF TypeOK, Crossings, Writes, memory,
      disk, history, bounds
  <1>1. ASSUME NEW a \in Approvals, Request(a) \/ Approve(a) \/ Refuse(a)
       PROVE  Crossings'
    BY <1>1 DEF Request, Decide, Approve, Refuse
  <1>2. ASSUME NEW a \in Approvals, LeakLock(a) PROVE Crossings'
    BY <1>2 DEF LeakLock, Fault
  <1>3. ASSUME NEW a \in Approvals, Commit(a) \/ Fail(a) PROVE Crossings'
    BY <1>3 DEF Commit, Failing, Fault, Fail
  <1>4. ASSUME NEW o \in Op, Begin(o) PROVE Crossings'
    BY <1>4 DEF Begin
  <1>5. ASSUME NEW o \in Op, Guard(o) PROVE Crossings'
    BY <1>5 DEF Guard, Fault, StorageFree
  <1>6. ASSUME NEW o \in Op, Call(o) \/ Return(o) PROVE Crossings'
    BY <1>6 DEF Call, Return, Failing
  <1>7. ASSUME NEW o \in Op, Settle(o) \/ SettleFailed(o) PROVE Crossings'
    BY <1>7 DEF Settle, Failing, Fault, SettleFailed
  <1>8. ASSUME NEW o \in Op, Leave(o) PROVE Crossings'
    BY <1>8 DEF Leave
  <1>9. ASSUME NEW o \in Op, PickRestore(o) \/ PrepareRestore(o)
       PROVE  Crossings'
    BY <1>9 DEF PickRestore, Failing, PrepareRestore, Crosses
  <1>10. ASSUME NEW o \in Op, EndRestore(o) PROVE Crossings'
    BY <1>10 DEF EndRestore, Failing
  <1>11. ASSUME NEW o \in Op, PickResolve(o) \/ EndResolve(o) PROVE Crossings'
    BY <1>11 DEF PickResolve, EndResolve
  <1>12. CASE (\E t \in Writes : Delete(t)) \/ (\E k \in Keys : TakeRead(k) \/ EndRead(k))
    BY <1>12 DEF Delete, TakeRead, EndRead
  <1>13. CASE Crash
    BY <1>13 DEF Crash
  <1>14. CASE UNCHANGED vars
    BY <1>14 DEF vars
  <1> QED
    BY <1>1, <1>2, <1>3, <1>4, <1>5, <1>6, <1>7, <1>8, <1>9, <1>10, <1>11,
       <1>12, <1>13, <1>14 DEF Next

\* The record is there before the call, and goes when the write is whole.
LEMMA UndoableKept ==
  ASSUME TypeOK, Decisions, Once, Records, Attempts, Crossings, Undoable,
         [Next]_vars
  PROVE  Undoable'
  <1> USE OpAssumption, Targets DEF TypeOK, Once, Undoable, Active, Exempt,
      Writes, memory, disk, history, bounds
  <1>1. ASSUME NEW a \in Approvals, Request(a) \/ Approve(a) \/ Refuse(a)
       PROVE  Undoable'
    BY <1>1 DEF Request, Decide, Approve, Refuse
  <1>2. ASSUME NEW a \in Approvals, LeakLock(a) PROVE Undoable'
    BY <1>2 DEF LeakLock, Fault
  <1>3. ASSUME NEW a \in Approvals, Commit(a) \/ Fail(a) PROVE Undoable'
    BY <1>3 DEF Commit, Failing, Fault, Fail
  <1>4. ASSUME NEW o \in Op, Begin(o) PROVE Undoable'
    BY <1>4 DEF Begin, MayTry
  <1>5. ASSUME NEW o \in Op, Guard(o) PROVE Undoable'
    BY <1>5 DEF Guard, Fault
  <1>6. ASSUME NEW o \in Op, Call(o) \/ Return(o) PROVE Undoable'
    BY <1>6 DEF Call, Return, Failing
  <1>7. ASSUME NEW o \in Op, Settle(o) \/ SettleFailed(o) PROVE Undoable'
    BY <1>7 DEF Settle, Record, Failing, Fault, SettleFailed
  <1>8. ASSUME NEW o \in Op, Leave(o) PROVE Undoable'
    BY <1>8 DEF Leave
  <1>9. ASSUME NEW o \in Op, PickRestore(o) \/ PrepareRestore(o) PROVE Undoable'
    BY <1>9 DEF PickRestore, Failing, PrepareRestore, Crosses
  <1>10. ASSUME NEW o \in Op, EndRestore(o) PROVE Undoable'
    BY <1>10 DEF EndRestore, Failing, Crossings
  <1>11. ASSUME NEW o \in Op, PickResolve(o) \/ EndResolve(o) PROVE Undoable'
    BY <1>11 DEF PickResolve, EndResolve
  <1>12. CASE (\E t \in Writes : Delete(t)) \/ (\E k \in Keys : TakeRead(k) \/ EndRead(k))
    BY <1>12 DEF Delete, TakeRead, EndRead
  <1>13. CASE Crash
    BY <1>13 DEF Crash
  <1>14. CASE UNCHANGED vars
    BY <1>14 DEF vars
  <1> QED
    BY <1>1, <1>2, <1>3, <1>4, <1>5, <1>6, <1>7, <1>8, <1>9, <1>10, <1>11,
       <1>12, <1>13, <1>14 DEF Next

\* What is torn when a write begins blocks it; what becomes torn is beside it.
LEMMA ClearBelowKept ==
  ASSUME TypeOK, Alone, Undoable, ClearBelow, [Next]_vars
  PROVE  ClearBelow'
  <1> USE OpAssumption, Targets DEF TypeOK, ClearBelow, Unsettled, Writes, memory,
      disk, history, bounds
  <1>1. ASSUME NEW a \in Approvals, Request(a) \/ Approve(a) \/ Refuse(a)
       PROVE  ClearBelow'
    BY <1>1 DEF Request, Decide, Approve, Refuse
  <1>2. ASSUME NEW a \in Approvals, LeakLock(a) PROVE ClearBelow'
    BY <1>2 DEF LeakLock, Fault
  <1>3. ASSUME NEW a \in Approvals, Commit(a) \/ Fail(a) PROVE ClearBelow'
    BY <1>3 DEF Commit, Failing, Fault, Fail
  <1>4. ASSUME NEW o \in Op, Begin(o) PROVE ClearBelow'
    BY <1>4 DEF Begin, MayTry, Parent, Rides, Blocking, Exempt, Undoable
  <1>5. ASSUME NEW o \in Op, Guard(o) PROVE ClearBelow'
    BY <1>5 DEF Guard, Fault
  <1>6. ASSUME NEW o \in Op, Call(o) \/ Return(o) PROVE ClearBelow'
    BY <1>6 DEF Call, Return, Failing, Alone, InFlight, Overlap
  <1>7. ASSUME NEW o \in Op, Settle(o) \/ SettleFailed(o) PROVE ClearBelow'
    BY <1>7 DEF Settle, Failing, Fault, SettleFailed
  <1>8. ASSUME NEW o \in Op, Leave(o) PROVE ClearBelow'
    BY <1>8 DEF Leave
  <1>9. ASSUME NEW o \in Op, PickRestore(o) \/ PrepareRestore(o)
       PROVE  ClearBelow'
    BY <1>9 DEF PickRestore, Failing, PrepareRestore, Crosses
  <1>10. ASSUME NEW o \in Op, EndRestore(o) PROVE ClearBelow'
    BY <1>10 DEF EndRestore, Failing
  <1>11. ASSUME NEW o \in Op, PickResolve(o) \/ EndResolve(o) PROVE ClearBelow'
    BY <1>11 DEF PickResolve, EndResolve
  <1>12. CASE (\E t \in Writes : Delete(t)) \/ (\E k \in Keys : TakeRead(k) \/ EndRead(k))
    BY <1>12 DEF Delete, TakeRead, EndRead
  <1>13. CASE Crash
    BY <1>13 DEF Crash
  <1>14. CASE UNCHANGED vars
    BY <1>14 DEF vars
  <1> QED
    BY <1>1, <1>2, <1>3, <1>4, <1>5, <1>6, <1>7, <1>8, <1>9, <1>10, <1>11,
       <1>12, <1>13, <1>14 DEF Next

\* The parts together.
LEMMA Inductive == ASSUME IInv, [Next]_vars PROVE IInv'
  BY TypesKept, AloneKept, DecisionsKept, OnceKept, OneRestoreKept, RecordsKept,
     AttemptsKept, CountedKept, CrossingsKept, UndoableKept, ClearBelowKept DEF IInv

\* The handler of a write is called by Call, from ready.
LEMMA CallsAreClear ==
  ASSUME IInv, [Next]_vars, NEW o \in Op, called'[o] # called[o],
         Kind[o] \in {"write", "plain"}
  PROVE  \A w \in Unsettled : ~Overlap(Root[w], Root[o])
  <1> USE DEF memory, disk, history, bounds
  <1>1. Call(o)
    <2>1. ASSUME NEW p \in Op, Call(p) PROVE p = o
      BY <2>1 DEF Call, IInv, TypeOK
    <2>2. ASSUME NEW p \in Op, PickRestore(p) \/ PickResolve(p) PROVE FALSE
      BY <2>2 DEF PickRestore, PickResolve, IInv, TypeOK
    <2>3. ASSUME NEW p \in Op, \/ Begin(p) \/ Guard(p) \/ Return(p) \/ Settle(p)
                               \/ SettleFailed(p) \/ Leave(p) \/ PrepareRestore(p)
                               \/ EndRestore(p) \/ EndResolve(p)
          PROVE  FALSE
      BY <2>3 DEF Begin, Guard, Return, Settle, SettleFailed, Leave,
         PrepareRestore, EndRestore, EndResolve
    <2>4. ASSUME NEW a \in Approvals, \/ Request(a) \/ Approve(a) \/ Refuse(a)
                                      \/ LeakLock(a) \/ Commit(a) \/ Fail(a)
          PROVE  FALSE
      BY <2>4 DEF Request, Approve, Refuse, Decide, LeakLock, Commit, Fail
    <2>5. ASSUME \/ \E t \in Writes : Delete(t)
                 \/ \E k \in Keys : TakeRead(k) \/ EndRead(k)
                 \/ Crash \/ UNCHANGED vars
          PROVE  FALSE
      BY <2>5 DEF Delete, TakeRead, EndRead, Crash, vars
    <2> QED BY <2>1, <2>2, <2>3, <2>4, <2>5 DEF Next
  <1> QED BY <1>1 DEF Call, IInv, ClearBelow

--------------------------------------------------------------------------------
(* The theorems.                                                              *)

\* The inductive invariant holds in every reachable state.
THEOREM Invariance == Spec => []IInv
  BY Initially, Inductive, PTL DEF Spec

\* Types, and locks that are held for operations in flight (try_acquire and the
\* finally block of apply_approved).
THEOREM TypeCorrect == Spec => []TypeOK
  <1>1. IInv => TypeOK
    BY DEF IInv
  <1> QED BY <1>1, Invariance, PTL

\* However writes fail, are retried and crash, no decision reaches a handler
\* twice (the status and the snapshot of pending requests).
THEOREM DecisionsActOnce == Spec => []AppliedOnce
  <1>1. IInv => AppliedOnce
    BY DEF IInv, Once
  <1> QED BY <1>1, Invariance, PTL

\* Operations whose projects overlap are never in flight together, except a
\* dialog's answer with the write that opened it, and no reader is there
\* (the guards of apply_approved and try_acquire_background_project_read).
THEOREM WritersAreAlone == Spec => []Alone
  <1>1. IInv => Alone
    BY DEF IInv
  <1> QED BY <1>1, Invariance, PTL

\* A torn write keeps an active record and its checkpoint, unless a user has
\* dismissed the record or a restore was at work before the write had ended (the
\* order of checkpoint, record, call and settlement, and the protection of
\* archives; restores and resolves under whatever project's lock).
THEOREM TornWritesCanBeUndone == Spec => []UndoIsKept
  <1>1. IInv => UndoIsKept
    BY DEF IInv, TypeOK, Undoable, UndoIsKept, Unsettled
  <1> QED BY <1>1, Invariance, PTL

\* Attempts that name a record are limited, also when they break off, and
\* whatever the end of the write has struck from their count: that happens once,
\* and is no more than the limit (_prepare_restore_attempt, the failure policy of
\* a restore, and the record as _finish_apply_recovery writes it).
THEOREM AttemptsAreLimited == Spec => []TriesAreCounted
  <1>1. ASSUME IInv, NEW w \in Writes
       PROVE  /\ touched[w] <= Limit + lost[w] /\ lost[w] <= Limit
              /\ log[w] \in Active => touched[w] <= tries[w] + lost[w]
    BY <1>1, Numbers DEF IInv, Struck
  <1>2. IInv => TriesAreCounted
    BY <1>1 DEF TriesAreCounted
  <1> QED BY <1>2, Invariance, PTL

\* No write is called while a write below it is torn, and neither dismissed by
\* a user nor restored before its end (active_apply_recoveries and the exclusion
\* of writers, though a restore under another lock may settle a record at work).
THEOREM NothingOnTopOfTorn == Spec => NothingOnTop
  <1>1. IInv /\ [Next]_vars =>
          [\A o \in Op : (called'[o] # called[o] /\ Kind[o] \in {"write", "plain"}) =>
             \A w \in Unsettled : ~Overlap(Root[w], Root[o])]_vars
    BY CallsAreClear
  <1> QED BY <1>1, Invariance, PTL DEF Spec, NothingOnTop
=============================================================================
