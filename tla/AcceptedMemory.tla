--------------------------- MODULE AcceptedMemory ---------------------------
(***************************************************************************)
(* The memories the user has accepted and the audit of how they came and   *)
(* went (AgentMemoryStore over DurableMetadataAudit).                      *)
(*                                                                         *)
(* Four kinds of file are changed one after the other: the log of          *)
(* memories, its backups, the outbox in which an audit row is staged       *)
(* before the memory changes, and the ledger to which it is committed      *)
(* after.  One lock covers a whole operation, so operations never overlap; *)
(* what can go wrong is that one ends in the middle.  An operation is the  *)
(* list of tasks it still has to do, each a file access or a loop of them, *)
(* one step per access.  An exception and the death of the process are the *)
(* same here: the rest of the list is not done.                            *)
(*                                                                         *)
(* The id of an audit row is a digest of what it says, so a row is what it *)
(* says.  Of a file's rows it matters which there are, not their order.    *)
(***************************************************************************)
EXTENDS Naturals, Sequences, FiniteSets

CONSTANTS
  Memories,
  Reviewed,         \* memories promoted from a review; the user makes others
  Log,              \* the log of memories
  Backups,          \* copies of it in the same directory
  MaxRows           \* MAX_AUDIT_ROWS

CONSTANT            \* bound of the model, not of the code
  MaxFaults         \* operations that end in the middle

ASSUME ConstantsFit ==
  /\ Reviewed \subseteq Memories
  /\ Log \notin Backups
  /\ MaxRows \in Nat /\ MaxFaults \in Nat

VARIABLES
  kept,             \* the memories each file has a readable row of
  scraps,           \* the memories each file has a broken row of
  buried,           \* the memories whose last row in the log says deleted
  scratch,          \* the memories in what a crash left of a rewrite
  outbox,           \* staged audit rows
  ledger,           \* how often each row is in the audit ledger
  broken,           \* which of the two end in a broken row
  job,              \* what the operation under way has still to do
  faults

VARIABLES           \* history
  known,            \* memories that were written, if in part, at some time
  assured           \* memories an erase has reported gone, not made again since

files   == <<kept, scraps, buried, scratch>>
audit   == <<outbox, ledger, broken>>
history == <<known, assured>>
vars    == <<files, audit, job, faults, history>>

Files == {Log} \cup Backups
Kind  == {"promoted", "erased", "purged"}
Event == [kind : Kind, mem : Memories]

Promoted(m) == [kind |-> "promoted", mem |-> m]

\* A memory of which there are only broken rows is erased under another digest.
Erased(m) ==
  [kind |-> IF \E f \in Files : m \in kept[f] THEN "erased" ELSE "purged",
   mem  |-> m]

Traces(f) == kept[f] \cup scraps[f]

\* Mutant: the backups are not looked for.
LogOnly == {Log}

Targets == Files

Nowhere(m) == \A f \in Targets : m \notin Traces(f)

\* Mutant: the backups are not looked at.
DoneInLog(e) ==
  IF e.kind = "promoted" THEN e.mem \in kept[Log] ELSE e.mem \notin kept[Log]

\* What the row says has happened (_reconcile_metadata_audit); the remains of
\* rewrites are gone when it asks.
Done(e) ==
  IF e.kind = "promoted" THEN e.mem \in kept[Log]
  ELSE e.mem \notin kept[Log] /\ Nowhere(e.mem)

-----------------------------------------------------------------------------
(* Tasks, with the memories, audit rows and files they are about.  A loop  *)
(* has those in it that are still to come.                                 *)

Task(do, of, row, events, paths) ==
  [do |-> do, of |-> of, row |-> row, events |-> events, files |-> paths]

Project       == Task("project", {}, "", {}, {})
Ask(what, S)  == Task(what, S, "", {}, {})
Write(row, m) == Task("write", {m}, row, {}, {})
Rewrite(S)    == Task("rewrite", S, "", {}, Targets)
Stage(es)     == Task("stage", {}, "", es, {})
Commit(es)    == Task("commit", {}, "", es, {})
Trim(e)       == Task("trim", {}, "", {e}, {})

\* Mutant: the row is staged when the memory is there.
AuditAfterwards(m) ==
  <<Write("created", m), Stage({Promoted(m)}), Commit({Promoted(m)}), Project>>

Promotion(m) ==
  <<Stage({Promoted(m)}), Write("created", m), Commit({Promoted(m)}), Project>>

\* physical_erase_many: stage, rewrite the log and the backups, look, commit.
Erasure(S) ==
  LET es == {Erased(m) : m \in S}
  IN  <<Stage(es), Rewrite(S), Ask("verify", S), Commit(es), Ask("report", S)>>

-----------------------------------------------------------------------------
Init ==
  /\ kept = [f \in Files |-> {}] /\ scraps = [f \in Files |-> {}]
  /\ buried = {} /\ scratch = {}
  /\ outbox = {} /\ ledger = [e \in Event |-> 0] /\ broken = {}
  /\ job = <<>> /\ faults = 0
  /\ known = {} /\ assured = {}

Begins(tasks) ==
  /\ job = <<>>
  /\ job' = tasks
  /\ UNCHANGED <<files, audit, faults, history>>

List       == Begins(<<Project>>)
Promote(m) == m \in Reviewed /\ Begins(<<Project, Ask("promote", {m})>>)
Delete(m)  == Begins(<<Project, Ask("delete", {m})>>)
Clear(S)   == S # {} /\ Begins(<<Project, Ask("clear", S)>>)
Restore(m) == Begins(<<Project, Ask("restore", {m})>>)
Erase(S)   == S # {} /\ Begins(<<Project, Ask("erase", S)>>)

\* The id of a memory the user makes is drawn fresh.
Create(m) == /\ m \notin Reviewed \cup known
             /\ Begins(<<Write("created", m), Project>>)

\* Somebody copies the log to a backup's name.
Copy(b) ==
  /\ job = <<>>
  /\ kept' = [kept EXCEPT ![b] = kept[Log]]
  /\ scraps' = [scraps EXCEPT ![b] = scraps[Log]]
  /\ UNCHANGED <<buried, scratch, audit, job, faults, history>>

-----------------------------------------------------------------------------
Due(do)     == job # <<>> /\ Head(job).do = do
About(task) == CHOOSE m \in task.of : TRUE

Goes        == job' = Tail(job)
Stops       == job' = <<>>
Runs(tasks) == job' = tasks \o Tail(job)

Without(e) == [Head(job) EXCEPT !.events = @ \ {e}]

\* _project: leftovers are removed, and rows staged for what has happened
\* since are committed.
Projects ==
  /\ Due("project")
  /\ scratch' = {}
  /\ IF "outbox" \in broken THEN Stops
     ELSE Runs(<<Commit({e \in outbox : Done(e)})>>)
  /\ UNCHANGED <<kept, scraps, buried, audit, faults, history>>

Promotes ==
  /\ Due("promote")
  /\ LET m == About(Head(job))
     IN  IF m \in kept[Log] THEN Stops ELSE Runs(Promotion(m))
  /\ UNCHANGED <<files, audit, faults, history>>

Deletes ==
  /\ Due("delete")
  /\ LET m == About(Head(job))
     IN  IF m \in kept[Log] \ buried THEN Runs(<<Write("deleted", m), Project>>)
         ELSE Stops
  /\ UNCHANGED <<files, audit, faults, history>>

\* Each memory of a scope that is not deleted yet, in some order.
Clears ==
  /\ Due("clear")
  /\ Runs(<<Ask("each", (kept[Log] \ buried) \cap Head(job).of)>>)
  /\ UNCHANGED <<files, audit, faults, history>>

DeletesNext ==
  /\ Due("each")
  /\ \E m \in Head(job).of :
       Runs(<<Project, Ask("delete", {m}), Ask("each", Head(job).of \ {m})>>)
  /\ UNCHANGED <<files, audit, faults, history>>

Restores ==
  /\ Due("restore")
  /\ LET m == About(Head(job))
     IN  IF m \in buried THEN Runs(<<Write("restored", m), Project>>) ELSE Stops
  /\ UNCHANGED <<files, audit, faults, history>>

Erases ==
  /\ Due("erase")
  /\ LET S == {m \in Head(job).of : ~Nowhere(m)}
     IN  IF S = {} THEN Stops
         ELSE Runs(Erasure(S))
  /\ UNCHANGED <<files, audit, faults, history>>

Writes ==
  /\ Due("write")
  /\ LET m == About(Head(job))
     IN  /\ kept' = [kept EXCEPT ![Log] = @ \cup {m}]
         /\ buried' = IF Head(job).row = "deleted" THEN buried \cup {m}
                      ELSE buried \ {m}
         /\ known' = known \cup {m}
         /\ assured' = assured \ {m}
  /\ Goes
  /\ UNCHANGED <<scraps, scratch, audit, faults>>

\* The log is rewritten before its backups.
IsNext(f) == f \in Head(job).files /\ (f = Log \/ Log \notin Head(job).files)

Rewrites ==
  /\ Due("rewrite")
  /\ \E f \in Files :
       LET S == Head(job).of
       IN  /\ IsNext(f)
           /\ kept' = [kept EXCEPT ![f] = @ \ S]
           /\ scraps' = [scraps EXCEPT ![f] = @ \ S]
           /\ buried' = IF f = Log THEN buried \ S ELSE buried
           /\ Runs(<<[Head(job) EXCEPT !.files = @ \ {f}]>>)
  /\ UNCHANGED <<scratch, audit, faults, history>>

\* Any trace that is left is an error.
Verifies ==
  /\ Due("verify")
  /\ scratch' = {}
  /\ IF \A m \in Head(job).of : Nowhere(m) THEN Goes ELSE Stops
  /\ UNCHANGED <<kept, scraps, buried, audit, faults, history>>

Reports ==
  /\ Due("report")
  /\ assured' = assured \cup Head(job).of
  /\ Goes
  /\ UNCHANGED <<files, audit, faults, known>>

\* A loop ends when nothing is left in it.
LoopEnds ==
  /\ \/ (Due("stage") \/ Due("commit")) /\ Head(job).events = {}
     \/ Due("rewrite") /\ Head(job).files = {}
     \/ Due("each") /\ Head(job).of = {}
  /\ Goes
  /\ UNCHANGED <<files, audit, faults, history>>

-----------------------------------------------------------------------------
(* DurableMetadataAudit.                                                   *)

\* Mutant: one more than the file may have.
RoomForOneMore(rows) == rows <= MaxRows

HasRoom(rows) == rows < MaxRows

IsRecorded(e) == ledger[e] > 0

\* The rows of the ledger, a row that is in it twice as two.
Lines == UNION {{e} \X (1..ledger[e]) : e \in Event}

LedgerRows == Cardinality(Lines)

\* stage
StagesRow ==
  /\ Due("stage")
  /\ \E e \in Head(job).events :
       IF \/ "outbox" \in broken
          \/ e \notin outbox /\ ~HasRoom(Cardinality(outbox))
       THEN Stops /\ UNCHANGED outbox
       ELSE Runs(<<Without(e)>>) /\ outbox' = outbox \cup {e}
  /\ UNCHANGED <<files, ledger, broken, faults, history>>

CanCommit(e) == "ledger" \notin broken /\ (IsRecorded(e) \/ HasRoom(LedgerRows))

\* append_prepared; where it fails the outbox is left alone.
CommitsRow ==
  /\ Due("commit")
  /\ \E e \in Head(job).events :
       /\ CanCommit(e)
       /\ ledger' = IF IsRecorded(e) THEN ledger
                    ELSE [ledger EXCEPT ![e] = @ + 1]
       /\ Runs(<<Trim(e), Without(e)>>)
  /\ UNCHANGED <<files, outbox, broken, faults, history>>

CannotCommit ==
  /\ Due("commit")
  /\ \E e \in Head(job).events : ~CanCommit(e) /\ Runs(<<Without(e)>>)
  /\ UNCHANGED <<files, audit, faults, history>>

Trimmed == outbox \ Head(job).events

\* The rest of commit_staged.
TrimsOutbox ==
  /\ Due("trim")
  /\ outbox' = IF "outbox" \in broken THEN outbox ELSE Trimmed
  /\ Goes
  /\ UNCHANGED <<files, ledger, broken, faults, history>>

-----------------------------------------------------------------------------
Fault == faults < MaxFaults /\ job # <<>> /\ faults' = faults + 1

\* The operation raises or the process dies before its next access.
Breaks ==
  /\ Fault
  /\ Stops
  /\ UNCHANGED <<files, audit, history>>

\* An access of the audit fails, which commit_staged does not pass on.
CommitFails ==
  /\ Fault
  /\ \/ Due("commit") /\ \E e \in Head(job).events : Runs(<<Without(e)>>)
     \/ Due("trim") /\ Goes
  /\ UNCHANGED <<files, audit, history>>

\* A row is written in part.
TearsLog ==
  /\ Fault
  /\ Due("write")
  /\ scraps' = [scraps EXCEPT ![Log] = @ \cup Head(job).of]
  /\ known' = known \cup Head(job).of
  /\ assured' = assured \ Head(job).of
  /\ Stops
  /\ UNCHANGED <<kept, buried, scratch, audit>>

TearsOutbox ==
  /\ Fault
  /\ Due("stage") /\ ~(Head(job).events \subseteq outbox)
  /\ broken' = broken \cup {"outbox"}
  /\ Stops
  /\ UNCHANGED <<files, outbox, ledger, history>>

TearsLedger ==
  /\ Fault
  /\ Due("commit")
  /\ \E e \in Head(job).events : ~IsRecorded(e) /\ (Stops \/ Runs(<<Without(e)>>))
  /\ broken' = broken \cup {"ledger"}
  /\ UNCHANGED <<files, outbox, ledger, history>>

\* The process dies before a rewritten file takes its place.
LeavesScratch ==
  /\ Fault
  /\ Due("rewrite")
  /\ \E f \in Files : /\ IsNext(f)
                      /\ scratch' = scratch \cup (Traces(f) \ Head(job).of)
  /\ Stops
  /\ UNCHANGED <<kept, scraps, buried, audit, history>>

Next ==
  \/ List
  \/ \E m \in Memories : Promote(m) \/ Create(m) \/ Delete(m) \/ Restore(m)
  \/ \E S \in SUBSET Memories : Erase(S) \/ Clear(S)
  \/ \E b \in Backups : Copy(b)
  \/ Projects \/ Promotes \/ Deletes \/ Clears \/ DeletesNext \/ Restores
  \/ Erases \/ Writes \/ Rewrites \/ Verifies \/ Reports \/ LoopEnds
  \/ StagesRow \/ CommitsRow \/ CannotCommit \/ TrimsOutbox
  \/ Breaks \/ CommitFails
  \/ TearsLog \/ TearsOutbox \/ TearsLedger \/ LeavesScratch

Spec == Init /\ [][Next]_vars

-----------------------------------------------------------------------------
Tasks ==
  [do     : {"project", "promote", "delete", "clear", "each", "restore", "erase",
             "write", "rewrite", "verify", "report", "stage", "commit", "trim"},
   of     : SUBSET Memories,
   row    : {"", "created", "deleted", "restored"},
   events : SUBSET Event,
   files  : SUBSET Files]

\* The types of the files and of the operation under way.
TypeOK ==
  /\ kept \in [Files -> SUBSET Memories]
  /\ scraps \in [Files -> SUBSET Memories]
  /\ buried \subseteq kept[Log] /\ scratch \subseteq Memories
  /\ outbox \subseteq Event /\ Cardinality(outbox) <= MaxRows
  /\ ledger \in [Event -> Nat] /\ LedgerRows <= MaxRows
  /\ broken \subseteq {"outbox", "ledger"}
  /\ job \in Seq(Tasks)
  /\ faults \in 0..MaxFaults
  /\ known \subseteq Memories /\ assured \subseteq Memories

\* Neither in a file nor in the remains of a rewrite.
Gone(m) == /\ \A f \in Files : m \notin kept[f] \cup scraps[f]
           /\ m \notin scratch

OnRecord(e) == e \in outbox \/ IsRecorded(e)

\* No memory comes out of a review, and none is erased, without a row that
\* says so: it was staged before the memory changed, and stays until it is
\* committed, wherever the operation ended (stage before _append_jsonl, and
\* before the first rewrite).
NothingOffTheRecord ==
  /\ \A m \in Reviewed \cap kept[Log] : OnRecord(Promoted(m))
  /\ \A m \in known : Gone(m) =>
       \E kind \in {"erased", "purged"} : OnRecord([kind |-> kind, mem |-> m])

\* What the audit promises for each row: it is committed once, while what it
\* says is so (the promoted memory is in the log, the erased one in no file, be
\* it a backup or the remains of a rewrite), and a staged row leaves the outbox
\* only for the ledger, however often a commit breaks off and is tried again
\* (_reconcile_metadata_audit's tests, append_prepared's look-up by event id,
\* the rewrite of the outbox in commit_staged).
Trail == INSTANCE AuditTrail WITH
  Rows    <- Event,
  staged  <- outbox,
  entries <- ledger,
  so      <- {e \in Event : IF e.kind = "promoted" THEN e.mem \in kept[Log]
                                                   ELSE Gone(e.mem)}

KeepsTheTrail == Trail!Spec

\* A memory reported erased is in no file, nor in what a crash left behind,
\* until somebody makes it again (physical_erase_many's verification).
ErasedIsGone == \A m \in assured : Gone(m)
=============================================================================
