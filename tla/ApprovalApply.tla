----------------------------- MODULE ApprovalApply -----------------------------
(* Approved writes: how AgentApprovalTransactionService decides, starts, runs *)
(* and settles a write to a project, how CheckpointRecoveryService undoes one *)
(* that did not finish, and what of it is left after a crash.  An operation   *)
(* is a write with a checkpoint, a plain write, a restore of another one's    *)
(* checkpoint, a resolve that declares another one's trouble dealt with, or   *)
(* the answer to an editor dialog that another one has opened.  It belongs to *)
(* an approval, or comes from an external client without one.                 *)
EXTENDS Naturals, FiniteSets

CONSTANTS
  Approvals,    \* operations that wait for the user's decision
  Externals,    \* operations of external clients (execute_prepared_...)
  Kind,         \* what each operation is
  Root,         \* the lock key of its project, or Global
  Target,       \* what a restore, a resolve or a dialog refers to, or None
  Global, None,
  Leaked,       \* holder of a lock that nobody gives back
  Limit,        \* RESTORE_ATTEMPT_LIMIT
  MaxCrashes,   \* bound: ends of the process
  MaxFaults,    \* bound: failures of the audit and of the log
  MaxReads      \* bound: background reads of projects

Op     == Approvals \cup Externals
Writes == {o \in Op : Kind[o] = "write"}
Keys   == {Root[o] : o \in Op}

Overlap(k, l) == k = l \/ k = Global \/ l = Global

\* A restore or a resolve may hold the lock of another project than that of the
\* write it refers to: only a project that its arguments name is compared with
\* the checkpoint's (_checkpoint_requested_project_error), and when they name
\* none the lock is the task's (_approval_project_root).
ASSUME OpAssumption ==
  /\ Approvals \cap Externals = {} /\ {None, Leaked} \cap Op = {}
  /\ Kind \in [Op -> {"write", "plain", "restore", "resolve", "dialog"}]
  /\ \A o \in Op : IF Kind[o] \in {"write", "plain"} THEN Target[o] = None
                   ELSE Target[o] \in Writes
  /\ \A o \in Op : Kind[o] = "dialog" => Target[o] \in Approvals
  /\ Limit \in Nat \ {0} /\ MaxCrashes \in Nat /\ MaxFaults \in Nat /\ MaxReads \in Nat

VARIABLES
  approval,   \* status of each request in memory; closed is applied, failed,
              \* rejected, sent back for changes, or lost with the process
  snapshot,   \* the pending requests in pending-approvals.json
  at,         \* how far the transaction of each operation has come
  holder,     \* who holds each project's write lock
  log,        \* status of each write's record in the recovery log
  archive,    \* the writes whose checkpoint is on disk
  tries,      \* restoreAttemptCount of each record
  seen,       \* the count that a restore or a resolve has read, or None
  end,        \* what the end of a write's handler says of its effects
  leases,     \* keys with a background read
  called,     \* history: how often each handler was called
  torn,       \* history: writes that are neither whole nor undone
  vouched,    \* history: writes that a user has declared dealt with
  crossed,    \* history: writes that were restored while they could still write
  touched,    \* history: restores of each record that may have changed files
  lost,       \* history: how many of these a write's end has struck from the count
  crashes, faults, reads

memory  == <<approval, at, holder, seen, end, leases>>
disk    == <<snapshot, log, archive, tries>>
history == <<called, torn, vouched, crossed, touched, lost>>
bounds  == <<crashes, faults, reads>>
vars    == <<memory, disk, history, bounds>>

Active   == {"applying", "needs_recovery"}
Exempt   == {"restore", "resolve"}

InFlight == {o \in Op : at[o] \notin {"idle", "over"}}

\* Mutant: a record that the last process left at work does not block.
BlockingOnceFailed(o) ==
  {w \in Writes : log[w] = "needs_recovery" /\ Overlap(Root[w], Root[o])}

\* The records that forbid o to start (_apply_recovery_blocks_writes).
Blocking(o) == {w \in Writes : log[w] \in Active /\ Overlap(Root[w], Root[o])}

\* get_native_dialog_source_approval: o is at work, with its checkpoint.
Live(o) == /\ approval[o] = "applying" /\ o \in InFlight
           /\ at[o] \notin {"begun", "broken"}

\* The storage lock is held over the whole of a restore.
StorageFree ==
  \A o \in Op : Kind[o] = "restore" => at[o] \notin {"picked", "writing"}

Fault == faults < MaxFaults /\ faults' = faults + 1
Pending(status) == {a \in Approvals : status[a] = "pending"}

Init ==
  /\ approval = [a \in Approvals |-> "none"] /\ snapshot = {}
  /\ at = [o \in Op |-> "idle"] /\ holder = [k \in Keys |-> None]
  /\ log = [w \in Writes |-> "none"] /\ archive = {}
  /\ tries = [w \in Writes |-> 0] /\ touched = [w \in Writes |-> 0]
  /\ seen = [o \in Op |-> None] /\ end = [o \in Op |-> "none"] /\ leases = {}
  /\ called = [o \in Op |-> 0] /\ torn = {} /\ vouched = {} /\ crossed = {}
  /\ lost = [w \in Writes |-> 0]
  /\ crashes = 0 /\ faults = 0 /\ reads = 0

--------------------------------------------------------------------------------
(* The user's decision.                                                       *)

\* A decision is stored together with the pending requests; when that fails,
\* memory is put back as it was, and nothing has happened.
Decide(a, from, to) ==
  /\ approval[a] \in from
  /\ approval' = [approval EXCEPT ![a] = to]
  /\ snapshot' = Pending(approval')
  /\ UNCHANGED <<at, holder, log, archive, tries, seen, end, leases, history, bounds>>

\* A restore or a resolve is asked for when there is a record, a dialog's
\* answer while its parent is at work.
Request(a) ==
  /\ Kind[a] \in Exempt => log[Target[a]] # "none"
  /\ Kind[a] = "dialog" => Live(Target[a])
  /\ Decide(a, {"none"}, "pending")

\* Mutant: the decision is not stored.
ApproveInMemory(a) ==
  /\ approval[a] = "pending"
  /\ approval' = [approval EXCEPT ![a] = "approved"]
  /\ UNCHANGED <<at, holder, seen, end, leases, disk, history, bounds>>

Approve(a) == Decide(a, {"pending"}, "approved")
Refuse(a)  == Decide(a, {"pending", "approved"}, "closed")

--------------------------------------------------------------------------------
(* apply_approved and execute_prepared_external_mcp_write.                    *)

\* An answer to a dialog continues the operation that opened it.
Rides(o) == Kind[o] = "dialog" /\ Live(Target[o])

\* Whoever stands in o's way: a reader, a writer, the lock.
Parent(o) == IF Rides(o) THEN {Target[o]} ELSE {}
NobodyReads(key)    == \A k \in leases : ~Overlap(k, key)

\* Mutant: only writers of the same key are looked for.
NobodyElseHere(o, but) == \A p \in InFlight \ but : Root[p] # Root[o]

NobodyWrites(o, but) == \A p \in InFlight \ but : ~Overlap(Root[p], Root[o])

MayTry(o) ==
  /\ IF o \in Approvals THEN approval[o] = "approved" ELSE at[o] = "idle"
  /\ NobodyReads(Root[o]) /\ NobodyWrites(o, Parent(o))
  /\ Rides(o) \/ holder[Root[o]] = None

\* All guards pass and the operation is in flight.  Raising here puts the
\* approval back, and nothing has happened.
Begin(o) ==
  /\ MayTry(o)
  /\ Kind[o] \in Exempt \/ Blocking(o) \subseteq Parent(o)
  /\ at' = [at EXCEPT ![o] = "begun"]
  /\ approval' = IF o \in Approvals THEN [approval EXCEPT ![o] = "applying"]
                 ELSE approval
  /\ holder' = IF Rides(o) THEN holder ELSE [holder EXCEPT ![Root[o]] = o]
  /\ UNCHANGED <<seen, end, leases, disk, history, bounds>>

\* The recovery log cannot be read, or the audit of a refusal not be written,
\* after the lock was taken and before anything would give it back.
LeakLock(a) ==
  /\ MayTry(a) /\ ~Rides(a) /\ Fault
  /\ holder' = [holder EXCEPT ![Root[a]] = Leaked]
  /\ UNCHANGED <<approval, at, seen, end, leases, disk, history, crashes, reads>>

\* The verifier's baseline; the checkpoint of a write and its record, under the
\* storage lock.  What raises before the caller has the record leaves nothing
\* ("broken"), or the checkpoint without or with the record ("raised").
Guard(o) ==
  /\ at[o] = "begun"
  /\ \/ /\ at' = [at EXCEPT ![o] = "broken"] /\ Fault
        /\ UNCHANGED <<archive, log>>
     \/ /\ Kind[o] = "write" /\ StorageFree /\ archive' = archive \cup {o}
        /\ \/ /\ at' = [at EXCEPT ![o] = "raised"] /\ Fault
              /\ log' \in {log, [log EXCEPT ![o] = "applying"]}
           \/ /\ at' = [at EXCEPT ![o] = "ready"] /\ UNCHANGED faults
              /\ log' = [log EXCEPT ![o] = "applying"]
     \/ /\ Kind[o] # "write" /\ at' = [at EXCEPT ![o] = "ready"]
        /\ UNCHANGED <<archive, log, faults>>
  /\ UNCHANGED <<approval, snapshot, holder, tries, seen, end, leases, history,
                 crashes, reads>>

\* The handler of a write is called; it may change the project from here on.
Call(o) ==
  /\ at[o] = "ready" /\ Kind[o] \in {"write", "plain", "dialog"}
  /\ Kind[o] = "dialog" => Live(Target[o])
  /\ at' = [at EXCEPT ![o] = "writing"]
  /\ called' = [called EXCEPT ![o] = @ + 1]
  /\ torn' = IF Kind[o] = "write" THEN torn \cup {o} ELSE torn
  /\ UNCHANGED <<approval, holder, seen, end, leases, disk, vouched, crossed, touched,
                 lost, bounds>>

Failing(o, how) ==
  /\ at' = [at EXCEPT ![o] = "failing"]
  /\ end' = IF Kind[o] = "write" THEN [end EXCEPT ![o] = how] ELSE end

\* The handler ends well, or says that it has changed nothing or undone it, or
\* leaves that open; or it is not called, for its plan or its dialog has changed.
\* What a restore has written in between is neither one thing nor the other.
Return(o) ==
  /\ Kind[o] \in {"write", "plain", "dialog"}
  /\ \/ /\ at[o] = "writing" /\ at' = [at EXCEPT ![o] = "wrote"]
        /\ torn' = torn \ ({o} \ crossed) /\ UNCHANGED end
     \/ /\ at[o] = "writing" /\ Failing(o, "harmless")
        /\ torn' = torn \ ({o} \ crossed)
     \/ at[o] = "writing" /\ Failing(o, "unknown") /\ UNCHANGED torn
     \/ /\ at[o] = "ready" /\ UNCHANGED torn
        /\ \E how \in {"harmless", "unknown"} : Failing(o, how)
  /\ UNCHANGED <<approval, holder, seen, leases, disk, called, vouched, crossed, touched,
                 lost, bounds>>

\* The approval's end is written down; the audit may fail to take it.
Commit(a) ==
  /\ at[a] = "wrote" /\ a \in Approvals
  /\ approval' = [approval EXCEPT ![a] = "closed"]
  /\ \/ at' = [at EXCEPT ![a] = "committed"] /\ UNCHANGED <<end, faults>>
     \/ Failing(a, "unknown") /\ Fault
  /\ UNCHANGED <<holder, seen, leases, disk, history, crashes, reads>>

\* _finish_apply_recovery writes the record as the transaction knows it, which
\* is without the attempts that restores have counted in the meantime.
Record(o, status) ==
  IF Kind[o] = "write"
  THEN /\ log' = [log EXCEPT ![o] = status] /\ tries' = [tries EXCEPT ![o] = 0]
       /\ lost' = [lost EXCEPT ![o] = touched[o]]
  ELSE UNCHANGED <<log, tries, lost>>

\* The end of a success.  An external write does this first and its audit
\* afterwards.  When either raises, the write counts as failed.
Settle(o) ==
  /\ at[o] = IF o \in Approvals THEN "committed" ELSE "wrote"
  /\ \/ /\ at' = [at EXCEPT ![o] = "leaving"] /\ UNCHANGED <<end, faults>>
        /\ Record(o, "settled")
     \/ /\ Failing(o, "unknown") /\ Fault
        /\ Record(o, "settled") \/ UNCHANGED <<log, tries, lost>>
  /\ UNCHANGED <<approval, snapshot, holder, archive, seen, leases, called, torn,
                 vouched, crossed, touched, crashes, reads>>

\* The approval has failed.  What raised before the record was there leaves the
\* record as it is, and so does an audit that fails now.
Fail(a) ==
  /\ at[a] \in {"failing", "broken", "raised"} /\ a \in Approvals
  /\ approval' = [approval EXCEPT ![a] = "closed"]
  /\ \/ /\ at[a] = "failing" /\ at' = [at EXCEPT ![a] = "failed"] /\ UNCHANGED faults
     \/ /\ at[a] # "failing" /\ at' = [at EXCEPT ![a] = "leaving"] /\ UNCHANGED faults
     \/ at' = [at EXCEPT ![a] = "leaving"] /\ Fault
  /\ UNCHANGED <<holder, seen, end, leases, disk, history, crashes, reads>>

\* The end of a failure: settled when it is known to be harmless.
SettleFailed(o) ==
  /\ at[o] = IF o \in Approvals THEN "failed" ELSE "failing"
  /\ at' = [at EXCEPT ![o] = "leaving"]
  /\ \/ /\ Record(o, IF end[o] = "harmless" THEN "settled" ELSE "needs_recovery")
        /\ UNCHANGED faults
     \/ UNCHANGED <<log, tries, lost>> /\ Fault
  /\ UNCHANGED <<approval, snapshot, holder, archive, seen, end, leases, called, torn,
                 vouched, crossed, touched, crashes, reads>>

\* Mutant: the lock is not given back.
LeavesLocked(o) ==
  /\ at[o] = "leaving" \/ (at[o] \in {"broken", "raised"} /\ o \in Externals)
  /\ at' = [at EXCEPT ![o] = IF o \in Approvals THEN "idle" ELSE "over"]
  /\ end' = [end EXCEPT ![o] = "none"] /\ seen' = [seen EXCEPT ![o] = None]
  /\ UNCHANGED <<approval, holder, leases, disk, history, bounds>>

\* The finally block.  The entry goes and then the lock; whoever comes between
\* the two is turned away by the one as by the other.
Leave(o) ==
  /\ at[o] = "leaving" \/ (at[o] \in {"broken", "raised"} /\ o \in Externals)
  /\ at' = [at EXCEPT ![o] = IF o \in Approvals THEN "idle" ELSE "over"]
  /\ holder' = [k \in Keys |-> IF holder[k] = o THEN None ELSE holder[k]]
  /\ end' = [end EXCEPT ![o] = "none"] /\ seen' = [seen EXCEPT ![o] = None]
  /\ UNCHANGED <<approval, leases, disk, history, bounds>>

--------------------------------------------------------------------------------
(* Restore and resolve: the handlers of the exempt targets.                   *)

\* The files of t are about to be put back, whatever t itself is doing.
Crosses(t) == crossed' = IF at[t] \in {"ready", "writing"} THEN crossed \cup {t}
                         ELSE crossed

\* restore_checkpoint takes the storage lock and finds the active record.  An
\* attempt that names the record is counted, and refused at the limit; one
\* that names the checkpoint only, or finds no active record, goes ahead.
PickRestore(r) ==
  LET t == Target[r] IN
  /\ Kind[r] = "restore" /\ at[r] = "ready" /\ StorageFree
  /\ called' = [called EXCEPT ![r] = @ + 1]
  /\ \/ /\ t \notin archive \/ (log[t] \in Active /\ tries[t] >= Limit)
        /\ Failing(r, "harmless") /\ UNCHANGED <<seen, crossed>>
     \/ /\ t \in archive /\ log[t] \in Active /\ tries[t] < Limit
        /\ at' = [at EXCEPT ![r] = "picked"]
        /\ seen' = [seen EXCEPT ![r] = tries[t]] /\ UNCHANGED <<end, crossed>>
     \/ /\ t \in archive /\ Crosses(t)
        /\ at' = [at EXCEPT ![r] = "writing"] /\ UNCHANGED <<seen, end>>
  /\ UNCHANGED <<approval, holder, leases, disk, torn, vouched, touched, lost, bounds>>

\* Mutant: an attempt is counted when it is over.
PrepareUncounted(r) ==
  LET t == Target[r] IN
  /\ Kind[r] = "restore" /\ at[r] = "picked" /\ Crosses(t)
  /\ at' = [at EXCEPT ![r] = "writing"]
  /\ log' = [log EXCEPT ![t] = "needs_recovery"]
  /\ touched' = [touched EXCEPT ![t] = @ + 1]
  /\ UNCHANGED <<approval, snapshot, holder, archive, tries, seen, end, leases, called,
                 torn, vouched, lost, bounds>>

\* _prepare_restore_attempt counts the attempt before a file is touched.  The
\* preparation in Unity or the safety backup may fail before that; it is
\* counted afterwards unless nothing can have changed.
PrepareRestore(r) ==
  LET t == Target[r] IN
  /\ Kind[r] = "restore" /\ at[r] = "picked"
  /\ \/ /\ at' = [at EXCEPT ![r] = "writing"] /\ Crosses(t) /\ UNCHANGED end
        /\ log' = [log EXCEPT ![t] = "needs_recovery"]
        /\ tries' = [tries EXCEPT ![t] = seen[r] + 1]
        /\ touched' = [touched EXCEPT ![t] = @ + 1]
     \/ /\ Failing(r, "harmless") /\ UNCHANGED <<log, tries, touched, crossed>>
     \/ /\ Failing(r, "unknown") /\ UNCHANGED <<log, touched, crossed>>
        /\ tries' = [tries EXCEPT ![t] = @ + 1]
  /\ UNCHANGED <<approval, snapshot, holder, archive, seen, leases, called, torn,
                 vouched, lost, bounds>>

\* The files are back and every active record of the checkpoint is settled,
\* though the write itself may go on (then it stays torn); or
\* the restore failed.  Then an attempt that was counted and provably changed
\* nothing is given back, and one that was not counted and did is counted.
EndRestore(r) ==
  LET t == Target[r]
      counted == seen[r] # None IN
  /\ Kind[r] = "restore" /\ at[r] = "writing"
  /\ \/ /\ at' = [at EXCEPT ![r] = "wrote"]
        /\ torn' = IF at[t] = "writing" THEN torn ELSE torn \ {t}
        /\ log' = IF log[t] \in Active THEN [log EXCEPT ![t] = "settled"] ELSE log
        /\ UNCHANGED <<tries, touched, end>>
     \/ /\ Failing(r, "unknown") /\ UNCHANGED <<log, touched, torn>>
        /\ tries' = IF counted \/ log[t] \notin Active THEN tries
                    ELSE [tries EXCEPT ![t] = @ + 1]
     \/ /\ Failing(r, "harmless") /\ UNCHANGED <<log, torn>>
        /\ tries' = IF counted /\ tries[t] > 0 THEN [tries EXCEPT ![t] = @ - 1]
                    ELSE tries
        /\ touched' = IF counted THEN [touched EXCEPT ![t] = @ - 1] ELSE touched
  /\ UNCHANGED <<approval, snapshot, holder, archive, seen, leases, called, vouched,
                 crossed, lost, bounds>>

\* resolve_interrupted_apply_recovery reads the record ...
PickResolve(v) ==
  LET t == Target[v] IN
  /\ Kind[v] = "resolve" /\ at[v] = "ready"
  /\ called' = [called EXCEPT ![v] = @ + 1]
  /\ IF log[t] \in Active
     THEN /\ at' = [at EXCEPT ![v] = "picked"]
          /\ seen' = [seen EXCEPT ![v] = tries[t]]
     ELSE at' = [at EXCEPT ![v] = "wrote"] /\ UNCHANGED seen
  /\ UNCHANGED <<approval, holder, end, leases, disk, torn, vouched, crossed, touched,
                 lost, bounds>>

\* ... and writes it back as dismissed, with the count that it has read.
EndResolve(v) ==
  LET t == Target[v] IN
  /\ Kind[v] = "resolve" /\ at[v] = "picked"
  /\ at' = [at EXCEPT ![v] = "wrote"]
  /\ log' = [log EXCEPT ![t] = "dismissed"] /\ vouched' = vouched \cup {t}
  /\ tries' = [tries EXCEPT ![t] = seen[v]]
  /\ UNCHANGED <<approval, snapshot, holder, archive, seen, end, leases, called, torn,
                 crossed, touched, lost, bounds>>

--------------------------------------------------------------------------------
(* Beside the transactions.                                                   *)

\* Mutant: only checkpoints of failed writes are protected.
DeleteUnlessFailed(t) ==
  /\ t \in archive /\ StorageFree /\ log[t] # "needs_recovery"
  /\ archive' = archive \ {t}
  /\ UNCHANGED <<memory, snapshot, log, tries, history, bounds>>

\* delete_checkpoint_archives and the automatic clean-up.
Delete(t) ==
  /\ t \in archive /\ StorageFree /\ log[t] \notin Active
  /\ archive' = archive \ {t}
  /\ UNCHANGED <<memory, snapshot, log, tries, history, bounds>>

TakeRead(k) ==
  /\ reads < MaxReads /\ reads' = reads + 1
  /\ NobodyReads(k) /\ \A o \in InFlight : ~Overlap(Root[o], k)
  /\ leases' = leases \cup {k}
  /\ UNCHANGED <<approval, at, holder, seen, end, disk, history, crashes, faults>>

EndRead(k) ==
  /\ k \in leases /\ leases' = leases \ {k}
  /\ UNCHANGED <<approval, at, holder, seen, end, disk, history, bounds>>

\* The next process knows the pending requests, the log and the archives.
Crash ==
  /\ crashes < MaxCrashes /\ crashes' = crashes + 1
  /\ approval' = [a \in Approvals |->
       IF a \in snapshot THEN "pending"
       ELSE IF approval[a] = "none" THEN "none" ELSE "closed"]
  /\ at' = [o \in Op |-> IF o \in Externals /\ at[o] # "idle" THEN "over" ELSE "idle"]
  /\ holder' = [k \in Keys |-> None] /\ leases' = {}
  /\ seen' = [o \in Op |-> None] /\ end' = [o \in Op |-> "none"]
  /\ UNCHANGED <<disk, history, faults, reads>>

Next ==
  \/ \E a \in Approvals : \/ Request(a) \/ Approve(a) \/ Refuse(a)
                          \/ LeakLock(a) \/ Commit(a) \/ Fail(a)
  \/ \E o \in Op : \/ Begin(o) \/ Guard(o) \/ Call(o) \/ Return(o)
                   \/ Settle(o) \/ SettleFailed(o) \/ Leave(o)
                   \/ PickRestore(o) \/ PrepareRestore(o) \/ EndRestore(o)
                   \/ PickResolve(o) \/ EndResolve(o)
  \/ \E t \in Writes : Delete(t)
  \/ \E k \in Keys : TakeRead(k) \/ EndRead(k)
  \/ Crash

Spec == Init /\ [][Next]_vars

--------------------------------------------------------------------------------
Stage == {"idle", "begun", "ready", "picked", "writing", "wrote", "committed",
          "failing", "broken", "raised", "failed", "leaving", "over"}

\* Types; and a lock is held for an operation that is in flight, or leaked.
TypeOK ==
  /\ approval \in [Approvals -> {"none", "pending", "approved", "applying", "closed"}]
  /\ snapshot \subseteq Approvals /\ at \in [Op -> Stage]
  /\ holder \in [Keys -> Op \cup {None, Leaked}]
  /\ \A k \in Keys : holder[k] \in Op => holder[k] \in InFlight
  /\ log \in [Writes -> Active \cup {"none", "settled", "dismissed"}]
  /\ archive \subseteq Writes /\ tries \in [Writes -> Nat]
  /\ seen \in [Op -> Nat \cup {None}]
  /\ end \in [Op -> {"none", "harmless", "unknown"}] /\ leases \subseteq Keys
  /\ called \in [Op -> Nat]
  /\ torn \subseteq Writes /\ vouched \subseteq Writes /\ crossed \subseteq Writes
  /\ touched \in [Writes -> Nat] /\ lost \in [Writes -> Nat]
  /\ crashes \in 0..MaxCrashes /\ faults \in 0..MaxFaults /\ reads \in 0..MaxReads

\* A decision is carried out once: whatever fails, is tried again or crashes,
\* the handler of an operation is called at most once (applying and its ends
\* never lead back to approved; a decision outlives the process before it can
\* be used, and what was decided is not pending for the next process).
AppliedOnce == \A o \in Op : called[o] <= 1

\* Whoever holds a project's lock has it alone: no other operation under the
\* lock of that project or of all projects, and no background reader; except for
\* the answer to a dialog that the holder itself has opened (the lock of the exact
\* project, the entries of writes in flight, and the leases of readers together).
Alone ==
  /\ \A o, p \in InFlight :
       (o # p /\ Overlap(Root[o], Root[p])) =>
         \/ Kind[o] = "dialog" /\ Target[o] = p
         \/ Kind[p] = "dialog" /\ Target[p] = o
  /\ \A k \in leases, o \in InFlight : ~Overlap(k, Root[o])

\* Of a torn write nobody has said that it is dealt with: neither a user, nor a
\* restore that wrote under another project's lock while the write itself could.
Unsettled == torn \ (vouched \cup crossed)

\* Nothing is written on top of a write that is neither whole nor undone,
\* unless somebody has said that it is dealt with ("A previous write did not
\* finish cleanly.  Restore or resolve the interrupted apply recovery before
\* running another write.").
NothingOnTop ==
  [][\A o \in Op : (called'[o] # called[o] /\ Kind[o] \in {"write", "plain"}) =>
       \A w \in Unsettled : ~Overlap(Root[w], Root[o])]_vars

\* As long as a write is neither whole nor undone, and nobody has said that it
\* is dealt with, its record is active and its checkpoint is on disk: it can
\* be undone, by this process or the next (the record is there before the
\* handler is called, and protects the archive from every deletion; a restore
\* that comes after the handler's end, from whatever session, leaves no less).
UndoIsKept == \A w \in Unsettled : log[w] \in Active /\ w \in archive

\* Attempts to restore a record by its name are limited, also when they break
\* off: what an active record counts is never less than what was tried, but for
\* what the end of the write has struck from the count.  So no more than twice
\* the limit are made, and no more than the limit when none came too early.
TriesAreCounted ==
  \A w \in Writes : /\ touched[w] <= Limit + lost[w] /\ lost[w] <= Limit
                    /\ log[w] \in Active => touched[w] <= tries[w] + lost[w]
================================================================================
