--------------------------- MODULE FollowupQueue ---------------------------
(***************************************************************************)
(* The durable follow-up queue of one AgentGateway                         *)
(* (agent_runtime_followup_queue.py).                                      *)
(*                                                                         *)
(* The queue is one list of entries, kept in memory and rewritten as a     *)
(* whole to one file (temporary file, fsync, replace) by every operation   *)
(* that changes it.  All operations run under the gateway's lock, so an    *)
(* operation is two steps here: it changes memory and prepares its reply   *)
(* (txn opens), and then the file is replaced and the reply is given, or   *)
(* the write fails and memory is put back.  The process may die at any     *)
(* point, also between the replace and the reply.                          *)
(*                                                                         *)
(* Data abstraction: an entry is keyed by its sequence number, of which    *)
(* queueId is a one-to-one formatting; messages and attachments are left   *)
(* out except for the bytes they take.  A claim token is a fresh number.   *)
(***************************************************************************)
EXTENDS Naturals, FiniteSets

CONSTANTS
  Sessions,         \* session lanes
  Turns,            \* client turn ids
  LeaseSeconds,     \* LEASE_SECONDS
  MaxStoreBytes,    \* MAX_STORE_BYTES, in the units below
  LiveBytes,        \* bytes of an entry that still has its message
  LeaseBytes,       \* bytes a claim adds to an entry
  TombstoneBytes    \* bytes of a terminal entry

CONSTANTS           \* bounds of the model, not of the code
  MaxSequence,      \* entries ever queued
  MaxToken,         \* claims ever granted
  MaxTime,          \* clock
  MaxLockWait       \* how old claim's clock reading is once it has the lock

ASSUME ConstantsAreNaturals ==
  /\ LeaseSeconds \in Nat /\ MaxStoreBytes \in Nat
  /\ LiveBytes \in Nat /\ LeaseBytes \in Nat /\ TombstoneBytes \in Nat
  /\ MaxSequence \in Nat /\ MaxToken \in Nat
  /\ MaxTime \in Nat /\ MaxLockWait \in Nat

VARIABLES
  up,               \* the process runs
  entries,          \* self._entries, by sequence number
  sequence,         \* self._sequence
  loadError,        \* self._load_error
  txn,              \* the operation holding the lock, with what undoes it
  disk,             \* the file
  now,              \* the wall clock
  issued            \* claim tokens drawn so far

VARIABLES           \* what callers were told
  accepted,         \* replies to enqueue
  receipts,         \* claims handed out
  settled           \* acks and cancels answered True

memory == <<up, entries, sequence, loadError, txn>>
told   == <<accepted, receipts, settled>>
vars   == <<memory, disk, now, issued, told>>

Terminal == {"acked", "cancelled"}
Status   == Terminal \cup {"pending", "claimed", "paused"}
NoToken  == 0

Entry == [session : Sessions, turn : Turns, status : Status,
          token : Nat, leaseUntil : Nat]

EmptyStore == [q \in {} |-> {}]

Put(store, q, e) ==
  [x \in DOMAIN store \cup {q} |-> IF x = q THEN e ELSE store[x]]

IsStore(store) ==
  /\ DOMAIN store \subseteq 1..MaxSequence
  /\ store = [q \in DOMAIN store |-> store[q]]
  /\ \A q \in DOMAIN store : store[q] \in Entry

With(store, wanted) == {q \in DOMAIN store : store[q].status \in wanted}

StoreBytes(store) ==
    LiveBytes * Cardinality(With(store, Status \ Terminal))
  + LeaseBytes * Cardinality(With(store, {"claimed"}))
  + TombstoneBytes * Cardinality(With(store, Terminal))

Fits(store) == StoreBytes(store) <= MaxStoreBytes

\* Mutant: the number to give next instead of the last one given.
NextSequence(store) == Cardinality(DOMAIN store) + 1

HighestSequence(store) ==
  IF DOMAIN store = {} THEN 0
  ELSE CHOOSE q \in DOMAIN store : \A x \in DOMAIN store : x <= q

\* Mutant: tombstones are not looked at.
KnownAndOpen(store, s, t) ==
  \E q \in With(store, Status \ Terminal) :
    store[q].session = s /\ store[q].turn = t

Known(store, s, t) ==
  \E q \in DOMAIN store : store[q].session = s /\ store[q].turn = t

\* q is the oldest unfinished entry of its session.
IsLaneHead(store, q) ==
  /\ store[q].status \notin Terminal
  /\ \A x \in DOMAIN store :
       (x < q /\ store[x].session = store[q].session)
         => store[x].status \in Terminal

\* Mutant: a lease that is about to run out is free already.
SoonUnleased(e, seen) == e.status = "claimed" => e.leaseUntil <= seen + 1

\* Nobody works on it, as far as the clock reading tells.
Claimable(e, seen) == e.status = "claimed" => e.leaseUntil <= seen

\* Mutant: whoever had the entry may finish it.
HeldByAnyone(store, r) ==
  /\ r.queueId \in DOMAIN store
  /\ store[r.queueId].status = "claimed"

HoldsClaim(store, r) ==
  /\ r.queueId \in DOMAIN store
  /\ store[r.queueId].status = "claimed"
  /\ store[r.queueId].token = r.token

-----------------------------------------------------------------------------
NoReply == [op |-> "none", queueId |-> 0, token |-> NoToken]
Closed  == [open |-> FALSE, entries |-> EmptyStore, sequence |-> 0,
            reply |-> NoReply]

Ready == up /\ ~txn.open

\* An operation changes memory; what it needs to roll back is kept in txn.
Begin(store, seq, op, q, token) ==
  /\ entries' = store
  /\ sequence' = seq
  /\ txn' = [open |-> TRUE, entries |-> entries, sequence |-> sequence,
             reply |-> [op |-> op, queueId |-> q, token |-> token]]
  /\ UNCHANGED <<up, loadError, disk, now, told>>

Init ==
  /\ up = TRUE
  /\ entries = EmptyStore
  /\ sequence = 0
  /\ loadError = FALSE
  /\ txn = Closed
  /\ disk = EmptyStore
  /\ now = 0
  /\ issued = 0
  /\ accepted = {}
  /\ receipts = {}
  /\ settled = {}

\* Refusals (store unavailable, over capacity) change nothing.
Enqueue(s, t) ==
  /\ Ready
  /\ ~loadError
  /\ ~Known(entries, s, t)
  /\ sequence < MaxSequence
  /\ LET q    == sequence + 1
         item == [session |-> s, turn |-> t, status |-> "pending",
                  token |-> NoToken, leaseUntil |-> 0]
         grown == Put(entries, q, item)
     IN  /\ Fits(grown)
         /\ Begin(grown, q, "enqueue", q, NoToken)
  /\ UNCHANGED issued

\* An input that is there already, in whatever status, is answered with the
\* entry it has: so learns a caller that was not answered the first time.
EnqueueAgain(s, t) ==
  /\ Ready
  /\ ~loadError
  /\ \E q \in DOMAIN entries :
       /\ entries[q].session = s /\ entries[q].turn = t
       /\ accepted' = accepted \cup {[queueId |-> q, session |-> s, turn |-> t]}
  /\ UNCHANGED <<memory, disk, now, issued, receipts, settled>>

\* The clock is read before the lock is taken: seen may be behind now.
Claim(s) ==
  /\ Ready
  /\ issued < MaxToken
  /\ \E q \in DOMAIN entries, seen \in 0..now :
       /\ seen + MaxLockWait >= now
       /\ entries[q].session = s
       /\ IsLaneHead(entries, q)
       /\ Claimable(entries[q], seen)
       /\ Begin(Put(entries, q,
                    [entries[q] EXCEPT !.status = "claimed",
                                       !.token = issued + 1,
                                       !.leaseUntil = seen + LeaseSeconds]),
                sequence, "claim", q, issued + 1)
  /\ issued' = issued + 1

\* Mutant: the token is left behind.
UnleasedButNamed(e, status) == [e EXCEPT !.status = status, !.leaseUntil = 0]

Unleased(e, status) ==
  [e EXCEPT !.status = status, !.token = NoToken, !.leaseUntil = 0]

Ack(r) ==
  /\ Ready
  /\ HoldsClaim(entries, r)
  /\ Begin(Put(entries, r.queueId, Unleased(entries[r.queueId], "acked")),
           sequence, "ack", r.queueId, r.token)
  /\ UNCHANGED issued

Release(r) ==
  /\ Ready
  /\ HoldsClaim(entries, r)
  /\ Begin(Put(entries, r.queueId, Unleased(entries[r.queueId], "paused")),
           sequence, "release", r.queueId, r.token)
  /\ UNCHANGED issued

CancelClaimed(r) ==
  /\ Ready
  /\ HoldsClaim(entries, r)
  /\ Begin(Put(entries, r.queueId, Unleased(entries[r.queueId], "cancelled")),
           sequence, "cancel", r.queueId, r.token)
  /\ UNCHANGED issued

\* Mutant: cancel of an entry in any state.
CancelAny(q) ==
  /\ Ready
  /\ Begin(Put(entries, q, Unleased(entries[q], "cancelled")),
           sequence, "cancel", q, NoToken)
  /\ UNCHANGED issued

\* cancel without a token: only what no worker holds.
CancelWaiting(q) ==
  /\ Ready
  /\ entries[q].status \in {"pending", "paused"}
  /\ Begin(Put(entries, q, Unleased(entries[q], "cancelled")),
           sequence, "cancel", q, NoToken)
  /\ UNCHANGED issued

-----------------------------------------------------------------------------
\* The file is replaced and the operation returns to its caller.
Persist ==
  /\ up /\ txn.open
  /\ disk' = entries
  /\ txn' = Closed
  /\ LET rep == txn.reply IN
       /\ accepted' = IF rep.op = "enqueue"
                      THEN accepted \cup {[queueId |-> rep.queueId,
                                           session |-> entries[rep.queueId].session,
                                           turn |-> entries[rep.queueId].turn]}
                      ELSE accepted
       /\ receipts' = IF rep.op = "claim"
                      THEN receipts \cup {[queueId |-> rep.queueId,
                                           token |-> rep.token]}
                      ELSE receipts
       /\ settled' = IF rep.op \in {"ack", "cancel"}
                     THEN settled \cup {[queueId |-> rep.queueId,
                                         status |-> entries[rep.queueId].status,
                                         token |-> rep.token]}
                     ELSE settled
  /\ UNCHANGED <<up, entries, sequence, loadError, now, issued>>

\* The write raises OSError: memory is rolled back and the caller is told so.
PersistFails ==
  /\ up /\ txn.open
  /\ entries' = txn.entries
  /\ sequence' = txn.sequence
  /\ txn' = Closed
  /\ UNCHANGED <<up, loadError, disk, now, issued, told>>

\* The process dies; a write under way has or has not replaced the file.
Crash ==
  /\ up
  /\ disk' \in IF txn.open THEN {disk, entries} ELSE {disk}
  /\ up' = FALSE
  /\ entries' = EmptyStore
  /\ sequence' = 0
  /\ loadError' = FALSE
  /\ txn' = Closed
  /\ UNCHANGED <<now, issued, told>>

Load ==
  /\ ~up
  /\ up' = TRUE
  /\ entries' = disk
  /\ sequence' = HighestSequence(disk)
  /\ UNCHANGED <<loadError, txn, disk, now, issued, told>>

\* Mutant: the error is swallowed.
LoadFailsQuietly ==
  /\ ~up
  /\ up' = TRUE
  /\ UNCHANGED <<entries, sequence, loadError, txn, disk, now, issued, told>>

\* The file cannot be read or parsed: an empty queue that refuses new input.
LoadFails ==
  /\ ~up
  /\ up' = TRUE
  /\ loadError' = TRUE
  /\ UNCHANGED <<entries, sequence, txn, disk, now, issued, told>>

Tick ==
  /\ now < MaxTime
  /\ now' = now + 1
  /\ UNCHANGED <<memory, disk, issued, told>>

Next ==
  \/ \E s \in Sessions, t \in Turns : Enqueue(s, t) \/ EnqueueAgain(s, t)
  \/ \E s \in Sessions : Claim(s)
  \/ \E r \in receipts : Ack(r)
  \/ \E r \in receipts : Release(r)
  \/ \E r \in receipts : CancelClaimed(r)
  \/ \E q \in DOMAIN entries : CancelWaiting(q)
  \/ Persist
  \/ PersistFails
  \/ Crash
  \/ Load
  \/ LoadFails
  \/ Tick

Spec == Init /\ [][Next]_vars

-----------------------------------------------------------------------------
Reply == [op : {"none", "enqueue", "claim", "ack", "release", "cancel"},
          queueId : Nat, token : Nat]

\* The types of the queue's state and of what callers were told.
TypeOK ==
  /\ up \in BOOLEAN
  /\ IsStore(entries)
  /\ sequence \in 0..MaxSequence
  /\ loadError \in BOOLEAN
  /\ txn.open \in BOOLEAN /\ IsStore(txn.entries)
  /\ txn.sequence \in 0..MaxSequence /\ txn.reply \in Reply
  /\ IsStore(disk)
  /\ now \in 0..MaxTime
  /\ issued \in 0..MaxToken
  /\ accepted \subseteq [queueId : Nat, session : Sessions, turn : Turns]
  /\ receipts \subseteq [queueId : Nat, token : Nat]
  /\ settled \subseteq [queueId : Nat, status : Terminal, token : Nat]

\* Input the caller was told is queued is in the file from then on, whatever
\* crashes, failed writes and restarts follow (enqueue replies only after
\* _persist; nothing ever removes an entry).
AcceptedSurvives ==
  \A a \in accepted :
    /\ a.queueId \in DOMAIN disk
    /\ disk[a.queueId].session = a.session
    /\ disk[a.queueId].turn = a.turn

\* An ack or cancel answered True is never undone: the tombstone in the file
\* keeps that status, also after a restart (_make_terminal_tombstone).
SettledSurvives ==
  \A d \in settled : /\ d.queueId \in DOMAIN disk
                     /\ disk[d.queueId].status = d.status

\* One input has one queue id and one queue id names one input, over failed
\* writes that give numbers back and restarts that recount them (the dedupe
\* scan of enqueue and the sequence computed by _load).
OneIdPerInput ==
  \A a, b \in accepted :
    (a.queueId = b.queueId) <=> (a.session = b.session /\ a.turn = b.turn)

\* A session's input is handed out in order: once a worker has been given an
\* entry, everything queued before it in that session is settled (claim takes
\* the lane's head only; paused and expired heads keep their place).
HandedOutInOrder ==
  \A r \in receipts : \A q \in DOMAIN disk :
    (q < r.queueId /\ disk[q].session = disk[r.queueId].session)
      => disk[q].status \in Terminal

\* Only the latest worker given an entry can have acknowledged it: a worker
\* that lost its lease to another cannot (the token compare of _transition).
AckedByLatestHolder ==
  \A d \in settled : d.status = "acked" =>
    \A r \in receipts : r.queueId = d.queueId => r.token <= d.token

\* Between operations memory is what the file holds and no number in use is
\* ahead of the counter: a failed write leaves no trace (the rollbacks).
MemoryIsDurable ==
  (Ready /\ ~loadError) => /\ entries = disk
                           /\ \A q \in DOMAIN disk : q <= sequence

\* A queue that could not read its file never writes it, so what is in it
\* waits for the next restart (_load_error and the empty list it leaves).
UnreadableStoreKept == [][loadError => UNCHANGED disk]_vars

\* A worker is not replaced before its lease is over: neither a clock reading
\* that grew old waiting for the lock, nor a restart, nor a failed write gives
\* an entry to a second worker early (claim's comparison with claimedUntil).
LeaseHonoured ==
  [][\A q \in DOMAIN disk :
       (disk[q].status = "claimed" /\ disk'[q].token \notin {NoToken, disk[q].token})
         => disk[q].leaseUntil <= now]_vars

\* The file, seen as the promise of FollowupLane.
Phase(e) == CASE e.status \in {"pending", "paused"} -> "waiting"
              [] e.status = "claimed" -> "held"
              [] OTHER -> "settled"

LaneView == [q \in DOMAIN disk |->
               [session |-> disk[q].session, turn |-> disk[q].turn,
                phase |-> Phase(disk[q]), holder |-> disk[q].token]]

Lane == INSTANCE FollowupLane WITH
  Numbers <- 1..MaxSequence,
  Holders <- 1..MaxToken,
  line <- LaneView

\* What is in the file keeps the promise at every step: lost leases, failed
\* writes, crashes and restarts never show as more than a change of holder.
KeepsTheLane == Lane!Spec
=============================================================================
