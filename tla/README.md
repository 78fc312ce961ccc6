# VRCForge in TLA+

VRCForge is a Windows desktop application that lets a language model work on a Unity project. Its Python backend
(the modules at the root of the repository) runs the turns of a conversation, queues what the user types
meanwhile, drives goals in the background and keeps records on disk. This directory models the parts of that
backend where threads, leases, crashes and stops meet. Every module is translated from the code; `PROJECT.json`
names, for each definition, the lines it stands for.

## 1. Inventory

What each part keeps, does, and must get right. *Modelled* parts come first.

### Follow-up queue — `agent_runtime_followup_queue.py`
- State: a list of entries (session, client turn id, sequence, status, claim token, lease), the last sequence
  number, a flag for an unreadable file; one JSON file that is replaced as a whole.
- Operations: `enqueue`, `claim`, `ack`, `release`, `cancel`, `list`; load at start. Each one changes memory,
  writes the file, and puts memory back if the write fails.
- Hard: a crash on either side of the replacement, failed writes, an unreadable file, sequence numbers recounted
  from the file, leases that run out under a worker, a clock read before the lock.
- Correct when: input that was accepted is never lost and is handed out in order, once settled stays settled,
  ids are never shared, only the latest holder can settle, an unreadable file is not overwritten.

### Turn admission and steering — `agent_runtime_session_state.py` with parts of `agent_gateway.py`
- State: active, waiting, finalizing and exclusive turns by (session, client turn id); stop markers; a mailbox
  of steered input and the set of ids seen, per turn; the last answers.
- Operations: `_admit_runtime_turn` (queue, begin, sleep on the gateway's condition, give up), `submit_steer`,
  `drain_steer`, `mark_cancel_requested`, `consume_cancel_request`, `finish_turn`, the finally block of a turn
  (late steers, answer, notify), deleting a chat, shutdown.
- Hard: one condition variable for all sessions; markers change in one hold of the lock and the notification
  comes in another; stops that come before or after their turn or name only a part of it.
- Correct when: one turn owns a session; turns start in order; nobody sleeps for ever; accepted input is
  accounted for; a stop reaches what it names and nothing else.

### Message route — `dashboard_server.py` with `runtime_queue_port.py`
- State: per request, a claim token and what the runtime did.
- Operations: claim an input, run it, acknowledge it, release it or leave it claimed; queue; cancel.
- Interacts: calls the queue and the runtime from worker threads; asks `get_runtime_session`, that is the kept
  answers and the run ledger, what became of a turn that raised.
- Hard: turns longer than the lease, requests that are cancelled while their thread goes on, a process that dies
  between the end of a turn and its acknowledgement.
- Correct when: an input does not leave the queue unless it was run or taken back, and is not run twice without
  an accident.

### Accepted memory and durable audit (`agent_memory_store.py`, `durable_audit_outbox.py`)
- State: the log of memories, its backups, what a crash leaves of a rewrite; the outbox of staged audit rows and
  the ledger of committed ones.
- Operations: create, promote (from a review), delete, restore, clear, erase for good; each read of the store
  first removes left-overs and reconciles the outbox with the log.
- Hard: four kinds of file changed one after the other, any of which may fail or be cut short; rows written in
  part; a full ledger; a memory that has gone from the log and not from a backup.
- Correct when: what the ledger says has happened, what has happened is on record, and only once; an erased
  memory is in no file.

### Channel turns (`channel_turn_coordinator.py`)
- State: the turn that holds each session, sessions with a stop under way, the tasks of the event loop.
- Operations: submit (start, or steer into the turn that runs), stop, shutdown; each turn has a task here and
  one in the runtime, with a deadline on the waiting only.
- Hard: the runtime's task ends, a callback frees the session, and only then does the waiting task run on: a new
  turn may be there already; time-outs that meet a late end; shutdown in between.
- Correct when: the runtime works on one turn of a session; a session is freed exactly with the runtime's task;
  cancellations reach the turn they are for; every turn is reported.

### Goal deliveries (`agent_goal_store.py`, `background_goal_delivery.py`, `background_goal_runtime.py`, with routes of `dashboard_server.py` and the tick of `src/hooks/use-goal-wake.ts`)
- State: one row per scheduled occurrence of a goal, projected from a log of events, with thirteen statuses, a
  phase, a deadline, an attempt count, what it waits for; a result file; leases of the lanes `goal:<id>` and
  `goal-apply:<id>`; worker threads, drain tasks.
- Operations: wake, execute through preflight, project lock, provider call and delivery; draining, skipping,
  deferring, failing with and without retry; the user's approval or rejection and the approved action; question,
  answer, reminder; watchdog; the reconciliation at start-up.
- Interacts: asks the approvals and the question service, which hand their outcome back; the client decides when
  to call.
- Hard: threads that cannot be stopped at their time limit; cancellation at each await; two clients with the
  same list of due goals; a decision before the delivery waits for it; a result file without its event.
- Correct when: the runtime runs once at a time, its attempts are bounded, leases come back, what the user
  decides is heard, an occurrence is settled once and moves the schedule once.

### Approved writes and their recovery (`agent_approval_transactions.py`, `agent_checkpoint_recovery.py`)
- State: requests and their snapshot on disk; write locks per project, the register of writes in flight, leases
  of background readers; checkpoint archives; the recovery log with a count of restore attempts.
- Operations: request, approve, reject; apply with its guards, checkpoint, record, call of the tool's handler,
  ends; the same for external clients; restore, resolve; deletion of archives; a read; restart.
- Interacts: handlers change Unity's project; the answer to an editor dialog is an operation inside another one.
- Hard: every step may raise, and each is cleaned up elsewhere; the process may die with the project half
  changed; a restore may die as well; a resolve comes from any session.
- Correct when: a decision acts once, writers of a project exclude each other, nothing is written on top of a
  half-done write, and such a write can be undone, in a bounded number of tries.

### Parts that are not modelled
| Part | State | What is hard | What makes it correct |
|---|---|---|---|
| Channel adapter and recovery (`channel_runtime_adapter.py`, `channel_runtime_recovery.py`, `telegram_bot_store.py`) | chats and their transcript, submissions under way | stops that overtake a submission; saves that race | nothing stopped is started; no message twice |
| Run ledger (`agent_runtime_run_ledger.py`) | log of turns and continuations | rotation, reused client ids | the latest invocation owns recovery |
| Question service, beyond the goal deliveries (`agent_question_service.py`) | questions, answers, continuations | answers that race the turn's end | an answer continues its task once |
| Sub-agents (`sub_agent_tasks.py`) | child tasks and their cancellation | a parent that ends first | children end with a recorded result |
| Backend ownership (`backend_owner_lease.py`, `backend_listener_adoption.py`) | lease file, port | two backends starting together | one owner of the data root |
| Shell supervisor, session integrity, memory review, transcripts, provider ledger | files and processes | mostly input and output | see `PROJECT.json` |
| Task loop and planner | what the model answers | not a protocol of this code | — |
| Unity plugin (C#), desktop shell (Rust), user interface (React) | Unity's objects, windows | outside the backend's protocols | — |

The larger part of the repository's lines is tool handlers that read and change Unity assets, previews, schemas
and the payloads of the interface: functions of one request, with no state that two actors share. They stay
outside on purpose. The models cover the parts that hold shared or durable state, which are a small share of the
lines.

## 2. Modules

| Module | Models | Used by |
|---|---|---|
| `FollowupLane` | what the queue promises: per session, inputs in order, at most one handed out, settled for good | `FollowupQueue` (refinement), `FollowupDispatch` (as the queue) |
| `FollowupQueue` | the queue, its memory, its file, its writes, crashes and leases | `MCFollowupQueue`, `FollowupQueueProofs` |
| `FollowupQueueProofs` | the inductive invariant and the theorems | — |
| `TurnAdmission` | the turns of the sessions, from arrival to the last notification | `MCTurnAdmission`, `TurnAdmissionProofs` |
| `TurnAdmissionProofs` | the inductive invariant and the theorems | — |
| `FollowupDispatch` | requests that run queued input, over `FollowupLane` | `MCFollowupDispatch`, `FollowupDispatchProofs` |
| `FollowupDispatchProofs` | the inductive invariant and the theorems | — |
| `AuditTrail` | what the audit promises: staged, then recorded once and while it is so | `AcceptedMemory` (refinement) |
| `AcceptedMemory` | the store of memories and its audit, file access by file access | `MCAcceptedMemory`, `AcceptedMemoryProofs` |
| `AcceptedMemoryProofs` | the inductive invariant and the theorems, the refinement among them | — |
| `ChannelTurn` | the coordinator of turns from chat channels, step by step of its event loop | `MCChannelTurn`, `ChannelTurnProofs` |
| `ChannelTurnProofs` | its inductive invariants and theorems | — |
| `GoalStore` | the row of a delivery: one operator per method of the store | `GoalDelivery`, `GoalStoreProofs` |
| `GoalOccurrence` | what a delivery promises: settled once, with one move of the schedule | `GoalDelivery` (refinement) |
| `GoalDelivery` | coordinator, workers, clients, user, monitor and restart over that row | `MCGoalDelivery`, `GoalDeliveryProofs` |
| `GoalStoreProofs` | a lemma per operation of the store | `GoalDeliveryProofs` |
| `GoalDeliveryProofs` | the inductive invariant and the theorems, the refinement among them | — |
| `ApprovalApply` | approved writes, their locks, checkpoints, recovery records, restores and resolves | `MCApprovalApply`, `ApprovalApplyProofs` |
| `ApprovalApplyProofs` | the inductive invariant and the theorems | — |

### FollowupQueue
`entries`, `sequence` and `loadError` are the object's fields, `disk` the file, `up` whether the process runs.
An operation is two steps, as in the code, where the write of the file comes between the change of memory and
the answer: `Enqueue`, `Claim`, `Ack`, `Release`, `CancelClaimed`, `CancelWaiting` change memory and open `txn`,
which keeps what the roll-back restores; `Persist` replaces the file and answers; `PersistFails` restores memory
and answers no. A `Crash` may come at any time, so before or after the replacement; `Load` reads the file again,
`LoadFails` finds it unreadable. The lock is the guard `Ready`: no operation starts while one is open. A claim's
reading of the clock, which the code takes before the lock, is any time from `MaxLockWait` ago to now. The
length of the file is counted in units per live entry, lease and tombstone. `EnqueueAgain` is the caller that
was not answered and asks again: it is told the entry that is there, and nothing is written. `accepted`,
`receipts` and `settled` are history: what callers have been told.

A failed enqueue puts the sequence number back, so that a number can be given to two inputs one after the other;
`OneIdPerInput` says that no caller has ever been told the same id for two inputs.

### TurnAdmission
A step is what one thread does under one hold of the gateway's lock. A turn is numbered by its arrival; the
number is its turn id, which the code draws fresh. `asleep` is the wait set of the condition: `notify_all`
empties it, and a turn that woke re-tests, as the loop in `_admit_runtime_turn` does. Arrival and the first test
are one step because the code holds the lock across them. The finally block of a turn is several steps, because
it takes and leaves the lock: `Finish` (`finish_turn`), one step per late steer (`Defer`, `DeferFails`,
`SettleRaises`), `Record` (markers cleared), `Notify`. A stop is two steps for the same reason: the marker, and
`NotifyStop`, owed until it is done. `request_runtime_cancel` then stops children, shells and approvals of the
turn; they are not part of this state.

Late steers go to the follow-up queue; `Defer` and `DeferFails` stand for the queue's two answers, whose state
is the other module's business. The body of a turn is reduced to the points where it looks at shared state: it
takes stops (`ConsumeStop`), takes steered input (`Drain`), and ends.

### FollowupDispatch
A worker is one request to the message route. `Claim`, `Admit`, `TurnReturns` or `TurnRaises` and `Ack`,
`Release` or `LeaveClaimed` are its way through the route; `Refuse` is an error that carries `runtime_admitted =
False`, `FailsEarly` one that carries nothing, `Abandon` a request that is cancelled while its thread goes on
(`adrift` while it waits, `TurnEndsAlone` later). `SettleFails` is the `except (OSError, AgentGatewayError):
pass`. The queue is an instance of `FollowupLane`, the specification that `FollowupQueue` is shown to implement;
a lease that ran out is membership in `lapsed`. The runtime is reduced to one active turn per session,
`OneOwner` of `TurnAdmission`. `recent` and `ledger` are what `get_runtime_session` can find out; an answer that
is not kept or was pushed out by later ones is a choice. Admission is allowed in any order among waiting
requests: fewer assumptions than the code gives, as the properties here do not need the order. The lane of an
input is taken to be the session its turn runs in, which is what the route does when a request names no lane of
its own.

### AcceptedMemory
One lock covers an operation, so operations do not overlap and the hard part is where one ends. `job` is the
list of tasks the operation under way has still to do; `Begins` puts a list there, a step works at the first
task, and one that decides (`Promotes`, `Deletes`, `Clears`, `Restores`, `Erases`, `Projects`) puts what follows
in its place, as the code does after it has read the files. A loop of the code is one task that holds what is
still to come: each step of it is one file access. An erase rewrites the log before the backups; otherwise the
order within a loop is left open, which allows what the code does and more. `LoopEnds` takes a loop off the
list. `DeletesNext` is the loop of `clear`, each round of which reads the files again. A row that a commit
has recorded is taken from the outbox (`Trim`) before the loop goes on. An exception and the death of the
process both drop the rest of the list (`Breaks`); the audit's own failures are swallowed by `commit_staged`
(`CommitFails`, `CannotCommit`) and the operation goes on. `TearsLog`, `TearsOutbox` and `TearsLedger` write a
row in part, `LeavesScratch` dies before the rename. A torn row in the log (`scraps`) is skipped by readers and
found by an erase; a torn row in the outbox or ledger makes that file unreadable (`broken`), which the code
refuses to go past. A memory written in part so short that its id is missing is the same as one not written: the
text comes after the id. An audit row is identified by a digest of its content, so a row is a kind and a memory;
an erase that finds no readable row has another content (`purged`). `Copy` is external: somebody puts a copy of
the log under one of the names that `managed_backup_paths` recognizes; it happens between operations only.
`Trail` maps the outbox to what is staged and the ledger to what is recorded; "so" is a promoted memory in the
log or an erased one in no file, evaluated on the files as they are in that step.

### ChannelTurn
`active` and `requested` are `_active` and `_cancel_requested`; `task` is how far the coordinator's task of a
turn is, `runtime` its entry in `_runtime_tasks`, `auxiliary` the tasks that carry a stop, a steer or a
deadline's cancellation. A step is what runs between two awaits: `Begin`, `Returns` and `TimesOut` are pieces of
`_run_turn`, `RuntimeFinished` is the callback, `Deadline` the timer, `Send` and `Answered` the pieces of
`_submit_cancel` and `_submit_steer`. `Shutdown`, `Join` and `Close` are the pieces of `shutdown`; a task it has
cancelled can only end (`TurnDies`, `CallDies`). `RuntimeEnds` is the injected runtime, which may end at any
time by returning or raising, with a `TimeoutError` too, or never. The event loop's queue is first in, first out; the
model lets ready tasks run in any order, which can only add behaviours: what holds here holds there. The
counterexample of its violation run needs nothing but steps that follow each other directly, and calls made at
that moment.

### GoalStore and GoalDelivery
`GoalStore` has no variables: each operator takes the row and returns it with the events of one method appended
(`Wake`, `Begin`, `MarkPhase`, `Complete`, `Fail`, `Drain`, `FinishDrain`, `Block`, `Park`, `Deny`, `Skip`,
`Defer`, `MarkApply`, `ResolveApproval`, `ResolveQuestion`, `Remind`, `Watchdog`, `Reconcile`, ...), early
returns included. Statuses are the code's, but a `failed` row with a `retryAt` is "retrying". A deadline that is
set may have passed whenever it is read. `known` is who still holds the current revision, which a refused client
has to name to give the row back. `wakes` is what the row has added to the goal's `wakeCount`, `advanced` the
event's `scheduleAdvanced`.

In `GoalDelivery` a step is what happens between two awaits, or one call of the store by a worker thread, which
the store's lock makes atomic. `req[r].at` is the place of a request in the coroutine, or of its worker; `care`
is who waits for the worker: the request (`kept`), a drain task (`drain`), nobody (a cancellation that found the
row ended: `nobody`), or a request outside the lanes (`alone`, an approval whose delivery does not wait for it
yet). `Lists`, `Wakes` and `Executes` are the tick of the interface and the two routes it calls; `Vanishes` is a
client that goes away between them. `EntersProjectLock`, `Begins`, `Calls`, `Returns`, `EntersDelivery` and the
`Persists...` actions are `execute`; `TimesOut` and `Cancelled` its `asyncio.wait` and `_cancel_delivery`;
`DrainEnds` is `_drain_worker`. `UserApproves` to `ApplyFails` are `execute_approved_action`, `Restores` its way
back. `HandsOver` is the question's resolver, called each time the client sends the answer. `Retire` is a lease
that `acquire_result` takes away for its age: from a drain task or from an applied action, the two that can last
that long. `Restart` keeps any part of the pending approvals (the snapshot may be unreadable), and then does
what start-up does in the code's order, `Reconcile` before the orphans and the missing approvals.

History variables: `runs` counts starts of the runtime, `unpaid` those the store does not count, `loose` that a
lease was lost under its worker, `early` the answers that came before the row knew their question, `reopened`
that an answer has opened a delivery that was settled as parked.

### ApprovalApply
An operation has a kind (a write with a checkpoint, a plain write, a restore, a resolve, the answer to a dialog
of another operation), a root (the lock key of its project, or `Global` for all of them) and a target.
`approval`, `at`, `holder`, `seen`, `end` and `leases` die with the process; `snapshot`, `log`, `archive` and
`tries` are files. `at` follows `apply_approved`, or `execute_prepared_external_mcp_write` for an operation of
`Externals`: `Begin` (the guards, lock and register), `Guard` (baseline, checkpoint, record), `Call`, `Return`,
`Commit`, `Settle`, or `Fail` and `SettleFailed`, and `Leave` (the finally block). `broken` and `raised` are an
exception before the caller has its record in hand, without and with a checkpoint on disk. Restore and resolve
are the two handlers whose own steps matter: `PickRestore`, `PrepareRestore` (count, then touch), `EndRestore`;
`PickResolve`, `EndResolve` (read, then write back). `Limit` is `RESTORE_ATTEMPT_LIMIT`. A decision is stored
before it is answered, so `Decide` is one step. `Delete` is every deletion of an archive, automatic or not.

A restore or a resolve may hold any lock: `_checkpoint_requested_project_error` compares only a project that the
arguments name, and when they name none the lock is the task's own project (`_approval_project_root`). External
clients may send them too. So both can run beside the write they refer to, and `Record` writes what
`_finish_apply_recovery` writes: the record as the transaction holds it, with no attempt counted.

`torn` is history: a write whose handler was called and that is neither known to be whole nor undone. `vouched`
are the records that a user has dismissed, `crossed` the writes whose files a restore put back while they could
still write, `touched` the restores that may have changed files, `lost` how many of these a write's end has
struck from the count, `called` the calls of each handler. A crossed write stays torn, as what came of it is
neither the one state nor the other, but no property promises anything of it (`Unsettled`). Settling a success,
writing a record's end, the approval's end and the audit may each fail, at most `MaxFaults` times; appends to
the recovery log are whole or absent. What the handler does to Unity, what the checkpoint copies and what the
verifier reads are external.

## 3. Runs

| Run | Configuration | Question |
|---|---|---|
| `followup_queue` | 2 sessions, 2 client ids, 3 entries, 2 claims, lease of 1, clock to 1, file of 5 units | is input kept, ordered, settled once, and is the lane implemented? |
| `turn_owners` | 1 session, 2 client ids, 3 turns, 1 stop, no steers, fair threads | one owner, arrival order, no lost wake-up; is every message answered? |
| `turn_steers_stops` | 2 turns; either 2 sessions sharing 2 client ids and 2 stops, or 3 inputs that answer questions, a mailbox of 2, one client id and 1 stop | is steered input accounted for and taken once, and do stops meet what they name? |
| `followup_dispatch` | 2 sessions, 2 client ids, 2 inputs, 2 requests, 3 claims | is input run, settled and cancelled consistently? |
| `accepted_memory` | 2 memories, 1 of them from a review, 1 backup, 3 audit rows, 2 faults | does the audit say what happened, once, and is erased memory gone? Is the abstract trail implemented? |
| `channel_turns` | 1 session, 2 turns, 1 stop, 2 steers, 1 auxiliary place, fair loop | does the runtime work on one turn, is the session freed with it, is every turn reported? |
| `goal_delivery` | 2 clients, 1 approval, 1 question, 2 attempts, 2 runs, 1 accident | does the delivery run once at a time and a bounded number of times, do its lanes come back, is the user heard, is the occurrence settled once? |
| `approval_apply` | a write, its dialog, a restore and a resolve from another project's session, an external client's restore and its plain write to all projects; limit of 1, 1 crash, 1 fault or 1 reader | does a decision act once, is a writer alone, can a torn write be undone and does it block what comes on top? |
| `turn_finalize` | 1 turn, 1 steer | *violated*: see findings |
| `followup_consumed` | 1 input, 2 requests, 2 claims | *violated*: see findings |
| `channel_stray_cancel` | 2 turns | *violated*: see findings |
| `goal_question` | 1 client, 2 questions, nothing goes wrong | *violated*: see findings |

Why these bounds are enough. In the queue, three entries make a lane of two with a bystander, two claims let a
lease pass from one worker to the next with the first still talking, and five units fit two live entries and a
tombstone but not three. In admission, three turns are an owner and two that wait for it, the least in which
order and wake-ups can go wrong, and two client ids make one be used again. In the run of steers and stops a
mailbox of two meets three inputs, and a second turn follows under the same id; or every request of one, two or
three identities is tried against every pair of turns. Its constraint keeps the two apart, as their product is
too large. In dispatch three claims let an input be run, taken over, and run again. In the memory run two
memories make an erase of one leave the other in what is rewritten, five possible audit rows meet files of
three, and two faults allow an operation and the retry of it to break off. In the channel runs the late end of a
turn meets the next one, and two steers ask for one place; that any number of turns and sessions behaves no
worse is the theorem below. In `goal_delivery` the second client makes all races of two requests, two runs a
retry and a run after an answer, and one accident (a restart, a failed write, a refusal, a cancellation, a
retired lease) can fall between any two steps. In `approval_apply` the limit of one lets a second restore be
refused, two restores compete for the storage lock, and one of them and the resolve hold another project's lock,
so that they can meet the write at any point; the other restore holds the write's. Its constraint lets the
dialog meet at most one of the restores and the resolve, which otherwise meet each other, and allows a reader or
a failure; that everything together behaves no worse is what the theorems say. The capacity across sessions is a
single guard (`HasRoom`) and not checked on its own. Symmetry is used where only safety is checked: sessions,
client ids, inputs and workers are told apart by no definition; the runs with a liveness property use none.

`CHECK_DEADLOCK FALSE` stands in the runs of `TurnAdmission`, `FollowupDispatch`, `ChannelTurn`, `GoalDelivery`
and `ApprovalApply`: once the messages, stops, claims, runs and operations the bounds allow are used up and
answered, the system rests. `followup_queue` and `accepted_memory` check deadlock.

In `channel_turns` the event loop is fair to ready tasks, callbacks and timers, as asyncio's is; nothing is
assumed of the runtime, and after shutdown nothing is promised.

Fairness in `turn_owners`: a thread that can go on does, and the body of a turn ends. The first is what the
operating system's scheduler and the gateway's lock give; the second is justified by the step and time budgets
of the task loop and the provider time-outs. Steers, stops, deletion and shutdown are not assumed to happen, but
a stop that was marked is notified, by the same thread.

### Findings
1. `turn_finalize`. In the finally block of a turn the call that settles a question for a deferred late steer
   (`agent_gateway.py:5508`) is outside every `try`. It appends to the question log and may raise; then neither
   `record_final_response` nor `clear_finalizing_turn` runs and nobody is notified. The session keeps its
   finalizing and exclusive markers, and each later turn of it waits until it is stopped or the process ends.
   `clear_finalizing_turn` says it is there for bookkeeping that cannot be stored.
2. `followup_consumed`. The lease of 300 s is not renewed while a turn runs. A retry after that claims the
   input, is refused because the turn is active, and pauses the input; the acknowledgement of the first request
   is answered False and ignored (`dashboard_server.py:3275`). The test
   `test_successful_runtime_is_consumed_even_if_response_projection_fails` expects a successful turn to be
   consumed.
3. `channel_stray_cancel`. The handler of a turn's time-out cancels the turn that holds the session when it runs
   (`channel_turn_coordinator.py:247`), which need not be its own: the runtime's task may have ended meanwhile,
   or have raised the `TimeoutError` itself, and `_runtime_finished` has freed the session for the next turn.
4. `goal_question`. `resolve_delivery_question` returns early on `questionAnsweredAt`
   (`agent_goal_store.py:2262`), which a second question does not clear: a delivery that goes on after its first
   answer and asks again stays blocked, however often the second answer is sent. `agent_question_service.py:465`
   says that the resolver is idempotent, so that retries finish the handoff.

### Met while modelling
These follow from the code and are part of the models' behaviour; no line of the repository says otherwise, so
they are not findings.
- Turns: a stop that names a turn by session and client id while it is in finalization is kept
  (`agent_runtime_session_state.py:1192`) and meets the next turn with that client id. The property
  `StopsHitWhatTheyName` allows it.
- Channels: the mark of a stop under way belongs to the session, and the end of any turn or cancellation of it
  removes the mark (`channel_turn_coordinator.py:279` and `351`), so a repeated stop can be sent twice.
  `shutdown` joins the turns in `_active`; one that has just been freed is not there, and its final event may be
  lost with the loop.
- Goals: a row interrupted at its last attempt is run again at each restart (`unpaid`). An answer given before
  the row is blocked is lost unless the client sends it again (`early`). A client with an old list that executes
  a row that is being applied fails it though it does not own it. A rejection between the beginning of a run and
  its call does not stop the run. With two clients a draining row can be left without a drain task, until the
  next process closes it; so no property says that a drain is attended. A delivery parked by its own outcome can
  be opened again by the answer to an earlier question (`reopened`), which needs three runs and is covered by
  the theorem only.
- Approvals: when the recovery log cannot be read, or the audit of a refusal not be written, between the
  acquisition of the project's lock and the `try` of `apply_approved`, the lock stays taken until the process
  ends (`LeakLock`). A resolve can dismiss the record of a write that is still at work, since it may hold
  another project's lock; what protects the write's checkpoint is then gone (`vouched`). So can a restore whose
  arguments name no project, sent from another project's session: it puts files back under the running write and
  settles its record, and after a crash nothing stops the next write (`crossed`). The end of a write takes the
  attempts counted meanwhile out of its record (`lost`), so that up to twice the limit can be made. A restore of
  a settled write that fails half-way leaves no record. A restore that does not name a record is not counted
  beforehand.

## 4. Proofs

`FollowupQueueProofs` proves, for any sets of sessions and client ids, any lease and any bounds (the named
assumptions in `FollowupQueue`: the constants are naturals and a live entry is at least as long as a tombstone):
- `TypeCorrect`, `AcceptedInputSurvives`, `SettlementSurvives`, `IdsNameInputs`, `LaneIsFifo`,
  `StaleWorkersCannotAck`, `RollbackIsExact`, `UnreadableFileIsKept`: the safety properties as theorems of
  `Spec`. `HandedOutInOrder`, `MemoryIsDurable` and `UnreadableStoreKept`, which the run's other properties
  would break with, are proved and not run;
- `LeasesAreHonoured`: the action property `LeaseHonoured`;
- `QueueKeepsTheLane`: the queue implements `FollowupLane`, by initial states and steps.

The argument. None of these is inductive: that an accepted input is on disk needs that memory and file agree
between operations, that an open operation keeps exactly what it must restore, and that the next sequence number
is above all stored ones. `IInv` is their conjunction, with the relation between receipts and entries: a token
names one holder of one entry, and an id told to a caller names one input. One lemma per action shows that it
keeps `IInv`; `Invariance` puts them together, and each theorem follows from it. The refinement uses `IInv` to
see that what `Persist` writes differs from the file in the one entry the open operation is about.
`LeaseHonoured` speaks of the step that replaces the file, and the comparison with the clock came earlier: a
second invariant, `ClaimIsDue`, carries it over, for an open claim whatever the clock does until it is written.

`TurnAdmissionProofs` proves, for any sessions, client ids, inputs, turns and stops (the bounds are naturals),
`TypesAreCorrect`, `SessionsHaveOneOwner`, `TurnsStartInOrder`, `WakeupsAreNotLost`, `StopsHitTheirTurns` and
`SteersAreAccounted`. The invariant ties the sets a thread looks at to where the threads are (`Places`), says
that an owner keeps its markers up to the end (`Markers`: this is what keeps the next one out between
`finish_turn` and `Record`), that whatever is kept of a stop goes back to a request that names the turn
(`StopsAreMeant`), and follows steered input: what is in a mailbox was seen (`Mailboxes`), what was taken in was
seen and is neither in the mailbox nor with the finally block (`TakenOnce`), what is decided belongs to turns
that ran (`FatesAreOfTurns`). `NoLostWakeup` is part of it as it stands: a step that lets a sleeper go on
empties the wait set, owes a notification, or leaves a thread in a place from which one comes.

`FollowupDispatchProofs` proves `NothingRunsInParallel`, `NothingIsLost` and `FinishedInputRests`, for any
requests, inputs and claims. Tokens of two requests differ (`Claims`), the runtime has one turn of a session
(`Runs`), what counts as ended has ended (`Endings`). The last property needs `AllOrderly`: as long as nothing
came between the steps of the route (no lease that ran out under a worker, no crash, no broken-off request, no
failed write), the worker of an input is the one the queue knows, and finished input is settled or in the hands
of the worker that is about to settle it. The queue enters by `FollowupLane`'s steps only, which is what
`QueueKeepsTheLane` proves of it.

`AcceptedMemoryProofs` proves, for any memories, backups, limits and faults, `TypesAreCorrect`,
`NothingGoesUnrecorded`, `TheErasedAreGone` and `AuditKeepsTheTrail`, the refinement of `AuditTrail`. What the
files owe at a moment depends on what the operation has still to do, so the invariant goes through the list of
tasks (`Tasked`): which task may come before which (`MayPrecede`), and for each task what it relies on, which
holds already or has a task before it that sees to it (`Duty`): a write relies on its row being staged, a
rewrite too, a commit on the memory being where the row says, a report on the search of all files. One lemma
says that a list keeps its duties when its head makes way for tasks that take over what the head still owed
(`TailDuties`), and each action shows that it does. An operation that breaks off drops list and duties; what
must be right without them is `Promotions` and `Remembered`: each promoted memory in the log and each known
memory that has left it has a row. A step on the ledger is then a step of the trail, as the duty of a commit is
the abstract guard.

`ChannelTurnProofs` proves `OneRuntime` and `SessionsAreFreed` for any sessions, capacity and number of turns,
from the assumptions that the bounds are naturals and `NoTurn` is not a turn. A turn is busy from its submission
to the callback that ends its runtime's task. The invariant says that a busy turn holds its session as long as
shutdown has cancelled nothing, that two turns of a session are never busy, and how far a turn's two tasks can
be apart (`InStep`: an outcome that is a result is known only after the callback). The last is why the finally
block may free the session by its turn's id: what it frees is over. Steps are of three kinds, each with its
lemma: those that free a session, those that change neither who is busy nor who holds, and those that touch no
turn. A second invariant, `Rest`, is about the other tasks and shutdown and gives `TypesAreCorrect` and
`ShutdownAsksEveryone`: once shutdown has looked, no turn is busy that it did not see (`BusyAreOwned`), and one
it saw is asked or its call is still to be sent, and asked for certain once tasks are joined (`OwnedAreAsked`).
The limit on auxiliary tasks counts the steers only (`Places`), as a shutdown makes a task for every session.

`GoalStoreProofs` has a lemma for each operation of the store, on every row. `Balanced` says that a row is
settled if and only if the goal's schedule has moved on for it, once; `Sound` that an operation returns a row,
and, where the row was balanced, one that is balanced too and keeps what was settled. `GoalDeliveryProofs`
proves, for any clients, approvals, questions and bounds, with named assumptions that ids differ and
`MaxAttempt` is positive: `TypeCorrect`, `LanesAreWorkedFor`, `OneRunAtATime` and `OccurrenceSettlesOnce`, the
refinement. The invariant is the row's type and, unless reopened, its balance, the types of the rest, and
`Lanes`: the shape of a request at each place, that a lease's holder must have it, and that whoever must have it
does, unless one was lost. Lemmas say what a request does to the lanes (goes on, gives back, takes), so that
each action needs only its place named.

A second invariant, `Deals`, is about what is owed, and gives `EachRunIsPaid`, `TheFirstAnswerCounts`,
`DecisionsAreHeard` and `LateResultsComeToNothing`. `Paid` adds to the runs made those that a request is about
to make and one for a row that may still be begun on its last claim; without these the count of attempts is not
inductive. `LateFindNothing`: a late worker finds no running row, as whoever begins it needs the lease the drain
still has. `AskedFirst` and `BroughtOnce` follow a question or approval from the run that asked it to the row;
`DecisionsArrive` says of an approval the row waits for that it can be decided on, or that who decided or
blocked meanwhile has yet to tell the row. Most steps owe nothing: `GoalStoreProofs` shows which operations of
the store are `Careful` (ask and answer nothing, begin nothing, spend no attempt) and the exceptions, and a step
made of careful operations keeps `Deals` by one lemma.

`ApprovalApplyProofs` proves, for any operations, projects and bounds, `TypeCorrect`, `DecisionsActOnce`,
`WritersAreAlone`, `TornWritesCanBeUndone`, `AttemptsAreLimited` and `NothingOnTopOfTorn`. `OpAssumption` says
that approvals and externals are different operations, targets are writes, the source of a dialog is an approval
and the bounds are naturals; it says nothing of the lock under which a restore or a resolve runs, nor of who
sends it. None of the properties is inductive alone. That a decision acts once needs that what is pending in the
file is pending in memory and at rest (`Decisions`), and that nothing leads back to `ready` (`Once`). That
attempts are limited needs that the count a restore has read still bounds what was tried (`Attempts`), which
holds because the storage lock admits one restore (`OneRestore`). The write's end may strike the count while a
restore holds what it has read: until then nothing is struck for good (`Struck`), at that moment no more than
the limit was tried, and afterwards the write does not end again (`Counted`). That a torn write can be undone is
followed from the record before the call to whichever end (`Undoable`); a restore that settles the record of a
write which can still write must have started beside it, and then the write is crossed (`Crossings`).
`ClearBelow` says that what is torn when a write begins blocks it and what becomes torn later is beside it; with
it `NothingOnTopOfTorn` is a statement about one step. There is one lemma per part, with one step per action.

With this every invariant, every action property and every refinement that a passing run checks is a theorem.
Only model-checked are the liveness properties (`EveryTurnEnds` and `EveryTurnReported`): temporal reasoning
under fairness is outside what the prover does. The properties of the four violation runs are false of the code
and so of the models. Assumed are only the named assumptions on the constants, which TLC evaluates on each run;
nothing about reachable states is assumed.

## 5. What is left out, and why

- In the queue: message text, attachments and their limits, which reject a request before state is touched; the
  descriptor that `_persist` closes twice on a failed write; a write that raises something other than `OSError`.
- In admission: native conversation history, desktop tallies and stream context, which one turn uses at a time
  (`OneOwner` is why that is safe); the continuation of tasks from shells and questions, which enter as
  messages.
- In dispatch: goal deliveries, which take the other branch of the route and are `GoalDelivery`'s, and the
  payload of the answer. Also the routes `/runs/queue/claim` and `/runs/queue/{id}/ack`
  (`dashboard_server.py:3623`), through which a client may claim and acknowledge without running anything: the
  repository's interface (`src/lib/api/agent-runtime.ts`) queues, lists and cancels only, and `SettledMeansRan`
  is about input that the message route handles. And the claim that stays behind when a request names another
  client turn id than the input it claimed (`dashboard_server.py:3227`), which runs out like any other lease.
- In the memory store: the limits in bytes, the refusal of links and other unsafe paths, a backup that is copied
  while an erase is under way, and `DurableMetadataAudit.flush` and `append`, which only the tests call.
- In the channel coordinator: a runtime task that ends cancelled (`channel_turn_coordinator.py:238`, `389`), as
  nothing in the coordinator cancels one and the injected runtime is taken to return or raise; the texts, the
  events other than the final ones, and the client id that is used twice, which the adapter turns away.
- In the goal deliveries: a question that `call_user` finds asked already and still pending, and returns instead
  of a new one (`agent_question_service.py:284`), so that two results refer to one question; the goals' own rows
  (creation, edits, limits, owners) but for the schedule a settled delivery moves on; a user's rescheduling,
  which completion overwrites; notices and usage counts; lanes other than the two of the delivery, and the
  preflight's cache.
- In the approvals: asynchronous jobs of Unity, whose record is settled when the job is scheduled
  (`agent_approval_transactions.py:5041`) and whose lock is given back while it goes on: `Return` takes a
  scheduled job for a whole write, so nothing here speaks of what such a job does later. The preparation of a
  restore and its bookkeeping are one step beside the write's end, though both read the record, change it and
  append it. Also left out are the checks of a tool's arguments, batches and previews; external imports, whose
  journal is appended to their record as they go on, and gesture-manager entries: their records stay open until
  their own reconciliation settles them; `_persist_restore_policy`, which may write back a record dismissed
  meanwhile; torn lines in the recovery log; the storage lock that writes to local state hold over their call
  (the model allows more). A write whose checkpoint the user has skipped is of kind "plain".

## 6. Plan

1. *Done.* Follow-up queue: abstract lane, detailed queue, refinement, proofs.
2. *Done.* Turn admission, steering and stops; dispatch of queued input; proofs.
3. *Done.* Accepted memory with its durable audit, and the abstract trail it implements; proofs, the refinement
   among them.
4. *Done.* Channel turns; proofs. Left: the adapter above them (submissions that are stopped while they wait for
   storage).
5. *Done.* Goal deliveries over the goal store, with approvals and questions; proofs.
6. *Done.* Approved writes, restores and resolves; proofs. Left: reconciliation of imports, which settles
   records from another side.
7. Run ledger and shell continuations, the question service's continuations, sub-agents, backend ownership.
