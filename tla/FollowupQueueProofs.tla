------------------------ MODULE FollowupQueueProofs ------------------------
(***************************************************************************)
(* The promises of the follow-up queue, for every number of sessions,      *)
(* turns, entries, claims and clock readings.                              *)
(***************************************************************************)
EXTENDS FollowupQueue, WellFoundedInduction, TLAPS

\* The new value that an operation under way gives to its entry, and what it
\* found there, depend on the operation.
Started(op, q, token) ==
  \/ /\ op = "enqueue"
     /\ q \notin DOMAIN disk
     /\ \A x \in DOMAIN disk : x < q
     /\ ~Known(disk, entries[q].session, entries[q].turn)
     /\ entries[q].status = "pending" /\ entries[q].token = NoToken
  \/ /\ q \in DOMAIN disk
     /\ entries[q].session = disk[q].session /\ entries[q].turn = disk[q].turn
     /\ \/ /\ op = "claim"
           /\ IsLaneHead(disk, q)
           /\ entries[q].status = "claimed"
           /\ entries[q].token = token
           /\ token = issued /\ issued > disk[q].token
        \/ /\ op = "ack"
           /\ HoldsClaim(disk, [queueId |-> q, token |-> token])
           /\ entries[q].status = "acked" /\ entries[q].token = NoToken
        \/ /\ op = "release"
           /\ disk[q].status = "claimed"
           /\ entries[q].status = "paused" /\ entries[q].token = NoToken
        \/ /\ op = "cancel"
           /\ disk[q].status \notin Terminal
           /\ entries[q].status = "cancelled" /\ entries[q].token = NoToken

\* While an operation is under way, memory differs from the file in the one
\* entry the operation is about, and what it would restore is the file.
OneEntryAhead ==
  txn.open =>
    LET q == txn.reply.queueId IN
    /\ up /\ ~loadError
    /\ txn.entries = disk
    /\ \A x \in DOMAIN disk : x <= txn.sequence
    /\ DOMAIN entries = DOMAIN disk \cup {q}
    /\ \A x \in DOMAIN disk : x # q => entries[x] = disk[x]
    /\ Started(txn.reply.op, q, txn.reply.token)

\* Memory is empty when nothing could be loaded, and otherwise the counter
\* covers every entry.
MemoryLoaded ==
  /\ (~up \/ loadError) => entries = EmptyStore /\ ~txn.open
  /\ ~up => ~loadError
  /\ up => \A x \in DOMAIN entries : x <= sequence
  /\ (Ready /\ ~loadError) => entries = disk

\* No two entries of the file are the same input, and only a claimed entry
\* carries a token, one that was drawn.
DiskOrdered ==
  /\ \A x, y \in DOMAIN disk :
       (disk[x].session = disk[y].session /\ disk[x].turn = disk[y].turn) => x = y
  /\ \A x \in DOMAIN disk :
       /\ disk[x].token <= issued
       /\ disk[x].status # "claimed" => disk[x].token = NoToken

\* A worker's receipt is for an entry of the file and is not newer than the
\* claim that entry is under.
ReceiptsBehind ==
  \A r \in receipts :
    /\ r.queueId \in DOMAIN disk
    /\ r.token <= issued
    /\ disk[r.queueId].status = "claimed" => r.token <= disk[r.queueId].token
    \* and what an operation under way draws is newer than any receipt
    /\ (txn.open /\ txn.reply.op = "claim") => r.token < issued

IInv ==
  /\ TypeOK
  /\ OneEntryAhead
  /\ MemoryLoaded
  /\ DiskOrdered
  /\ ReceiptsBehind
  /\ AcceptedSurvives
  /\ SettledSurvives
  /\ HandedOutInOrder
  /\ AckedByLatestHolder

-----------------------------------------------------------------------------
\* A nonempty set of numbers below a bound has a greatest element.
LEMMA GreatestElement ==
  ASSUME NEW N \in Nat, NEW S \in SUBSET (0..N), S # {}
  PROVE  \E m \in S : \A x \in S : x <= m
<1> DEFINE T == {N - x : x \in S}
<1>0. \A x \in S : x \in 0..N /\ N - x \in Nat
  OBVIOUS
<1>1. T \subseteq Nat /\ T # {}
  BY <1>0
<1>2. \E d \in T : \A y \in T : ~(<<y, d>> \in OpToRel(<, Nat))
  <2> HIDE DEF T
  <2> QED BY <1>1, WFMin, NatLessThanWellFounded, Zenon
<1>3. PICK d \in T : \A y \in T : ~(<<y, d>> \in OpToRel(<, Nat))
  BY <1>2
<1>4. \A y \in T : d <= y
  <2> SUFFICES ASSUME NEW y \in T, ~(d <= y) PROVE FALSE
    OBVIOUS
  <2>1. y \in Nat /\ d \in Nat /\ y < d
    BY <1>1
  <2>2. <<y, d>> \in OpToRel(<, Nat)
    BY <2>1 DEF OpToRel
  <2> QED BY <2>2, <1>3
<1>5. PICK m \in S : d = N - m
  OBVIOUS
<1>6. \A x \in S : N - m <= N - x
  BY <1>4, <1>5
<1>7. QED
  BY <1>6, <1>0

\* The counter recomputed by a restart covers every entry of the file.
LEMMA HighestCovers ==
  ASSUME NEW store, IsStore(store)
  PROVE  /\ HighestSequence(store) \in 0..MaxSequence
         /\ \A x \in DOMAIN store : x <= HighestSequence(store)
<1>1. CASE DOMAIN store = {}
  BY <1>1, ConstantsAreNaturals DEF HighestSequence
<1>2. CASE DOMAIN store # {}
  <2>1. \E m \in DOMAIN store : \A x \in DOMAIN store : x <= m
    BY <1>2, GreatestElement, ConstantsAreNaturals DEF IsStore
  <2>2. /\ HighestSequence(store) \in DOMAIN store
        /\ \A x \in DOMAIN store : x <= HighestSequence(store)
    BY <1>2, <2>1 DEF HighestSequence
  <2>3. QED
    BY <2>2, ConstantsAreNaturals DEF IsStore
<1>3. QED
  BY <1>1, <1>2

\* Writing one entry of a store gives a store.
LEMMA PutGivesStore ==
  ASSUME NEW store, IsStore(store),
         NEW q \in 1..MaxSequence, NEW e \in Entry
  PROVE  /\ IsStore(Put(store, q, e))
         /\ DOMAIN Put(store, q, e) = DOMAIN store \cup {q}
         /\ Put(store, q, e)[q] = e
         /\ \A x \in DOMAIN store : x # q => Put(store, q, e)[x] = store[x]
BY DEF Put, IsStore

\* An empty store is a store.
LEMMA EmptyIsStore == IsStore(EmptyStore) /\ DOMAIN EmptyStore = {}
BY DEF IsStore, EmptyStore

\* The queue starts out with its invariant.
LEMMA InitEstablishes == Init => IInv
<1> SUFFICES ASSUME Init PROVE IInv
  OBVIOUS
<1> USE EmptyIsStore, ConstantsAreNaturals
<1>1. TypeOK
  <2>1. /\ txn.open \in BOOLEAN /\ IsStore(txn.entries)
        /\ txn.sequence \in 0..MaxSequence /\ txn.reply \in Reply
    <3>1. NoReply \in Reply
      BY DEF NoReply, Reply, NoToken
    <3>2. QED
      BY <3>1 DEF Init, Closed
  <2>2. accepted = {} /\ receipts = {} /\ settled = {}
    BY DEF Init
  <2>3. /\ accepted \subseteq [queueId : Nat, session : Sessions, turn : Turns]
        /\ receipts \subseteq [queueId : Nat, token : Nat]
        /\ settled \subseteq [queueId : Nat, status : Terminal, token : Nat]
    BY <2>2, Zenon
  <2>4. /\ up \in BOOLEAN /\ IsStore(entries) /\ sequence \in 0..MaxSequence
        /\ loadError \in BOOLEAN /\ IsStore(disk)
        /\ now \in 0..MaxTime /\ issued \in 0..MaxToken
    <3>1. up \in BOOLEAN /\ loadError \in BOOLEAN
      BY Zenon DEF Init
    <3>2. QED
      BY <3>1 DEF Init
  <2>5. QED
    BY <2>1, <2>3, <2>4 DEF TypeOK
<1>2. OneEntryAhead /\ MemoryLoaded
  BY DEF Init, OneEntryAhead, MemoryLoaded, Closed
<1>3. DiskOrdered /\ ReceiptsBehind /\ AcceptedSurvives
  BY DEF Init, DiskOrdered, ReceiptsBehind, AcceptedSurvives
<1>4. SettledSurvives /\ HandedOutInOrder /\ AckedByLatestHolder
  BY DEF Init, SettledSurvives, HandedOutInOrder, AckedByLatestHolder
<1>5. QED
  BY <1>1, <1>2, <1>3, <1>4 DEF IInv

-----------------------------------------------------------------------------
\* An operation that is entitled to its change keeps the invariant: nothing
\* in the file moves, and memory runs one entry ahead of it.
LEMMA BeginKeeps ==
  ASSUME IInv, Ready, ~loadError,
         NEW q \in 1..MaxSequence, NEW e \in Entry, NEW seq \in 0..MaxSequence,
         NEW op, NEW token, [op |-> op, queueId |-> q, token |-> token] \in Reply,
         Begin(Put(entries, q, e), seq, op, q, token),
         issued' \in 0..MaxToken, issued <= issued',
         op = "claim" => issued < issued',
         \A x \in DOMAIN entries \cup {q} : x <= seq,
         Started(op, q, token)'
  PROVE  IInv'
<1> DEFINE grown == Put(entries, q, e)
<1>1. /\ entries = disk /\ IsStore(disk)
      /\ \A x \in DOMAIN disk : x <= sequence
  <2>1. entries = disk
    BY DEF IInv, MemoryLoaded
  <2>2. IsStore(disk)
    BY DEF IInv, TypeOK
  <2>3. QED
    BY <2>1, <2>2 DEF IInv, MemoryLoaded, Ready
<1>2. /\ entries' = grown /\ sequence' = seq
      /\ txn' = [open |-> TRUE, entries |-> disk, sequence |-> sequence,
                 reply |-> [op |-> op, queueId |-> q, token |-> token]]
      /\ up' /\ ~loadError' /\ disk' = disk /\ now' = now
      /\ accepted' = accepted /\ receipts' = receipts /\ settled' = settled
  BY <1>1 DEF Begin, Ready, told
<1>3. /\ IsStore(grown) /\ DOMAIN grown = DOMAIN disk \cup {q}
      /\ \A x \in DOMAIN disk : x # q => grown[x] = disk[x]
  BY <1>1, PutGivesStore
<1> HIDE DEF grown
<1>4. TypeOK'
  <2>1. /\ txn'.open \in BOOLEAN /\ IsStore(txn'.entries)
        /\ txn'.sequence \in 0..MaxSequence /\ txn'.reply \in Reply
    BY <1>1, <1>2 DEF IInv, TypeOK
  <2>2. /\ up' \in BOOLEAN /\ IsStore(entries') /\ sequence' \in 0..MaxSequence
        /\ loadError' \in BOOLEAN /\ IsStore(disk') /\ now' \in 0..MaxTime
    BY <1>1, <1>2, <1>3 DEF IInv, TypeOK, Begin
  <2>3. QED
    BY <1>2, <2>1, <2>2 DEF IInv, TypeOK
<1>5. OneEntryAhead'
  BY <1>1, <1>2, <1>3 DEF OneEntryAhead
<1>6. MemoryLoaded'
  BY <1>1, <1>2, <1>3 DEF MemoryLoaded, Ready
<1>7. DiskOrdered'
  <2>1. \A x \in DOMAIN disk : disk[x].token <= issued'
    <3>1. \A x \in DOMAIN disk : disk[x].token \in Nat
      BY <1>1 DEF IsStore, Entry
    <3>2. QED
      BY <3>1 DEF IInv, DiskOrdered, TypeOK
  <2>2. QED
    BY <1>2, <2>1 DEF IInv, DiskOrdered
<1>8. ReceiptsBehind'
  <2>1. \A r \in receipts : r.token <= issued' /\ (op = "claim" => r.token < issued')
    <3>1. \A r \in receipts : r.token \in Nat
      BY DEF IInv, TypeOK
    <3>2. issued \in Nat
      BY DEF IInv, TypeOK
    <3>3. QED
      BY <3>1, <3>2 DEF IInv, ReceiptsBehind
  <2>2. QED
    BY <1>2, <2>1 DEF IInv, ReceiptsBehind
<1>9. /\ AcceptedSurvives' /\ SettledSurvives'
      /\ HandedOutInOrder' /\ AckedByLatestHolder'
  BY <1>2 DEF IInv, AcceptedSurvives, SettledSurvives, HandedOutInOrder,
              AckedByLatestHolder
<1>10. QED
  BY <1>4, <1>5, <1>6, <1>7, <1>8, <1>9 DEF IInv

-----------------------------------------------------------------------------
\* A claimed entry that a receipt is for is an entry of the file.
LEMMA HeldEntry ==
  ASSUME IInv, Ready, NEW r \in receipts, HoldsClaim(entries, r)
  PROVE  /\ ~loadError /\ entries = disk
         /\ r.queueId \in 1..MaxSequence /\ r.queueId \in DOMAIN disk
         /\ entries[r.queueId] \in Entry /\ r.token \in Nat
         /\ r = [queueId |-> r.queueId, token |-> r.token]
<1>1. r.queueId \in DOMAIN entries
  BY DEF HoldsClaim
<1>2. ~loadError
  BY <1>1, EmptyIsStore DEF IInv, MemoryLoaded
<1>3. IsStore(entries) /\ r \in [queueId : Nat, token : Nat]
  BY DEF IInv, TypeOK
<1>4. QED
  BY <1>1, <1>2, <1>3 DEF IInv, MemoryLoaded, IsStore

\* Taking the lease off an entry changes its status and holder only.
LEMMA UnleasedIsEntry ==
  ASSUME NEW e \in Entry, NEW status \in Status
  PROVE  /\ Unleased(e, status) \in Entry
         /\ Unleased(e, status).session = e.session
         /\ Unleased(e, status).turn = e.turn
         /\ Unleased(e, status).status = status
         /\ Unleased(e, status).token = NoToken
BY DEF Unleased, Entry, NoToken

\* A new input gets a number above all stored ones.
LEMMA EnqueueKeeps ==
  ASSUME IInv, NEW s \in Sessions, NEW t \in Turns, Enqueue(s, t)
  PROVE  IInv'
<1>1. PICK q, item :
        /\ q = sequence + 1
        /\ item = [session |-> s, turn |-> t, status |-> "pending",
                   token |-> NoToken, leaseUntil |-> 0]
  OBVIOUS
<1>2. Begin(Put(entries, q, item), q, "enqueue", q, NoToken) /\ issued' = issued
  BY <1>1 DEF Enqueue
<1>3. /\ Ready /\ ~loadError /\ IsStore(entries)
      /\ \A x \in DOMAIN entries : x <= sequence
      /\ sequence \in Nat /\ sequence < MaxSequence
  BY DEF Enqueue, IInv, MemoryLoaded, TypeOK, Ready
<1>4. entries = disk
  BY <1>3 DEF IInv, MemoryLoaded
<1>5. /\ q \in 1..MaxSequence /\ q \in Nat
      /\ \A x \in DOMAIN entries : x \in Nat /\ x < q
  BY <1>1, <1>3, ConstantsAreNaturals DEF IsStore
<1>6. item \in Entry
  BY <1>1 DEF Entry, Status, NoToken
<1>7. item.session = s /\ item.turn = t /\ item.status = "pending"
      /\ item.token = NoToken
  BY <1>1
<1>8. ~Known(disk, s, t) /\ disk' = disk /\ entries' = Put(entries, q, item)
  BY <1>2, <1>4 DEF Enqueue, Begin
<1>9. Put(entries, q, item)[q] = item
  BY <1>3, <1>5, <1>6, PutGivesStore
<1>10. Started("enqueue", q, NoToken)'
  <2>1. q \notin DOMAIN disk /\ \A x \in DOMAIN disk : x < q
    BY <1>4, <1>5
  <2>2. QED
    BY <2>1, <1>7, <1>8, <1>9 DEF Started, Known
<1>11. [op |-> "enqueue", queueId |-> q, token |-> NoToken] \in Reply
  BY <1>5 DEF Reply, NoToken
<1>12. q \in 0..MaxSequence /\ \A x \in DOMAIN entries \cup {q} : x <= q
  BY <1>3, <1>5
<1>13. issued <= issued' /\ issued' \in 0..MaxToken
  BY <1>2, ConstantsAreNaturals DEF IInv, TypeOK
<1>14. QED
  BY <1>2, <1>3, <1>5, <1>6, <1>10, <1>11, <1>12, <1>13, BeginKeeps

\* An input that is there already is answered with its entry, which is in the
\* file too: memory and file agree when no operation is open.
LEMMA EnqueueAgainKeeps ==
  ASSUME IInv, NEW s \in Sessions, NEW t \in Turns, EnqueueAgain(s, t)
  PROVE  IInv'
<1>1. PICK q \in DOMAIN entries :
        /\ entries[q].session = s /\ entries[q].turn = t
        /\ accepted' = accepted \cup {[queueId |-> q, session |-> s, turn |-> t]}
  BY DEF EnqueueAgain
<1>2. /\ up' = up /\ entries' = entries /\ sequence' = sequence
      /\ loadError' = loadError /\ txn' = txn /\ disk' = disk /\ now' = now
      /\ issued' = issued /\ receipts' = receipts /\ settled' = settled
  BY DEF EnqueueAgain, memory
<1>3. entries = disk
  BY DEF EnqueueAgain, IInv, MemoryLoaded
<1>4. q \in Nat
  BY DEF IInv, TypeOK, IsStore
<1>5. TypeOK'
  BY <1>1, <1>2, <1>4 DEF IInv, TypeOK
<1>6. OneEntryAhead' /\ MemoryLoaded'
  BY <1>2 DEF IInv, OneEntryAhead, MemoryLoaded, Ready, Started
<1>7. AcceptedSurvives'
  BY <1>1, <1>2, <1>3 DEF IInv, AcceptedSurvives
<1>8. /\ DiskOrdered' /\ ReceiptsBehind' /\ SettledSurvives'
      /\ HandedOutInOrder' /\ AckedByLatestHolder'
  BY <1>2 DEF IInv, DiskOrdered, ReceiptsBehind, SettledSurvives,
              HandedOutInOrder, AckedByLatestHolder
<1> QED
  BY <1>5, <1>6, <1>7, <1>8 DEF IInv

\* The head of a lane gets a new token.
LEMMA ClaimKeeps ==
  ASSUME IInv, NEW s \in Sessions, Claim(s)
  PROVE  IInv'
<1>1. PICK q \in DOMAIN entries, seen \in 0..now :
        /\ IsLaneHead(entries, q)
        /\ Begin(Put(entries, q,
                     [entries[q] EXCEPT !.status = "claimed",
                                        !.token = issued + 1,
                                        !.leaseUntil = seen + LeaseSeconds]),
                 sequence, "claim", q, issued + 1)
  BY DEF Claim
<1>2. PICK e, token :
        /\ token = issued + 1
        /\ e = [entries[q] EXCEPT !.status = "claimed",
                                  !.token = token,
                                  !.leaseUntil = seen + LeaseSeconds]
  OBVIOUS
<1>3. Begin(Put(entries, q, e), sequence, "claim", q, token)
  BY <1>1, <1>2
<1>4. /\ Ready /\ issued \in Nat /\ issued < MaxToken /\ issued' = token
      /\ IsStore(entries) /\ sequence \in 0..MaxSequence /\ seen \in Nat
  BY <1>2 DEF Claim, IInv, TypeOK
<1>5. ~loadError /\ entries = disk
  BY <1>4, EmptyIsStore DEF IInv, MemoryLoaded
<1>6. q \in 1..MaxSequence /\ entries[q] \in Entry
  BY <1>4 DEF IsStore
<1>7. token \in Nat /\ seen + LeaseSeconds \in Nat /\ "claimed" \in Status
  BY <1>2, <1>4, ConstantsAreNaturals DEF Status
<1>8. /\ e \in Entry
      /\ e.session = entries[q].session /\ e.turn = entries[q].turn
      /\ e.status = "claimed" /\ e.token = token
  BY <1>2, <1>6, <1>7 DEF Entry
<1>9. Put(entries, q, e)[q] = e
  BY <1>4, <1>6, <1>8, PutGivesStore
<1>10. disk' = disk /\ entries' = Put(entries, q, e)
  BY <1>3 DEF Begin
<1>11. disk[q].token \in Nat /\ disk[q].token <= issued
  BY <1>5, <1>6 DEF IInv, DiskOrdered, Entry
<1>12. token > disk[q].token
  BY <1>2, <1>4, <1>11
<1>13. Started("claim", q, token)'
  <2>1. IsLaneHead(disk, q)'
    BY <1>1, <1>5, <1>10 DEF IsLaneHead
  <2>2. QED
    BY <2>1, <1>4, <1>5, <1>8, <1>9, <1>10, <1>12 DEF Started
<1>14. [op |-> "claim", queueId |-> q, token |-> token] \in Reply
  BY <1>6, <1>7 DEF Reply
<1>15. \A x \in DOMAIN entries \cup {q} : x <= sequence
  BY <1>4 DEF IInv, MemoryLoaded, Ready
<1>16. issued' \in 0..MaxToken /\ issued <= issued' /\ issued < issued'
  BY <1>2, <1>4, ConstantsAreNaturals
<1>17. QED
  BY <1>3, <1>4, <1>5, <1>6, <1>8, <1>13, <1>14, <1>15, <1>16, BeginKeeps

\* What ack, release and cancel have in common.
LEMMA UnleaseKeeps ==
  ASSUME IInv, Ready, ~loadError, NEW q \in DOMAIN entries,
         NEW op, NEW token, [op |-> op, queueId |-> q, token |-> token] \in Reply,
         op # "claim", NEW status \in Status,
         Begin(Put(entries, q, Unleased(entries[q], status)),
               sequence, op, q, token),
         UNCHANGED issued,
         \/ op = "ack" /\ status = "acked"
              /\ HoldsClaim(disk, [queueId |-> q, token |-> token])
         \/ op = "release" /\ status = "paused" /\ disk[q].status = "claimed"
         \/ op = "cancel" /\ status = "cancelled" /\ disk[q].status \notin Terminal
  PROVE  IInv'
<1> DEFINE e == Unleased(entries[q], status)
<1>1. /\ entries = disk /\ IsStore(entries) /\ sequence \in 0..MaxSequence
      /\ issued \in 0..MaxToken
  BY DEF IInv, MemoryLoaded, TypeOK
<1>2. q \in 1..MaxSequence /\ entries[q] \in Entry
  BY <1>1 DEF IsStore
<1>3. /\ e \in Entry /\ e.session = entries[q].session /\ e.turn = entries[q].turn
      /\ e.status = status /\ e.token = NoToken
  BY <1>2, UnleasedIsEntry
<1> HIDE DEF e
<1>4. Begin(Put(entries, q, e), sequence, op, q, token)
  BY DEF e
<1>5. /\ disk' = disk /\ entries' = Put(entries, q, e) /\ issued' = issued
  BY <1>4 DEF Begin
<1>6. Put(entries, q, e)[q] = e
  BY <1>1, <1>2, <1>3, PutGivesStore
<1>7. Started(op, q, token)'
  BY <1>1, <1>3, <1>5, <1>6 DEF Started, HoldsClaim
<1>8. \A x \in DOMAIN entries \cup {q} : x <= sequence
  BY DEF IInv, MemoryLoaded, Ready
<1>9. issued' \in 0..MaxToken /\ issued <= issued'
  BY <1>1, <1>5
<1>10. QED
  BY <1>1, <1>2, <1>3, <1>4, <1>7, <1>8, <1>9, BeginKeeps

\* An acknowledgement needs the token that the entry has.
LEMMA AckKeeps ==
  ASSUME IInv, NEW r \in receipts, Ack(r)
  PROVE  IInv'
<1>1. Ready /\ HoldsClaim(entries, r)
  BY DEF Ack
<1>2. /\ [op |-> "ack", queueId |-> r.queueId, token |-> r.token] \in Reply
      /\ "acked" \in Status
  BY <1>1, HeldEntry DEF Reply, Status, Terminal
<1>3. HoldsClaim(disk, [queueId |-> r.queueId, token |-> r.token])
  BY <1>1, HeldEntry DEF HoldsClaim
<1>4. QED
  BY <1>1, <1>2, <1>3, HeldEntry, UnleaseKeeps DEF Ack

\* So does a release, which pauses the entry.
LEMMA ReleaseKeeps ==
  ASSUME IInv, NEW r \in receipts, Release(r)
  PROVE  IInv'
<1>1. Ready /\ HoldsClaim(entries, r)
  BY DEF Release
<1>2. /\ [op |-> "release", queueId |-> r.queueId, token |-> r.token] \in Reply
      /\ "paused" \in Status
  BY <1>1, HeldEntry DEF Reply, Status
<1>3. disk[r.queueId].status = "claimed"
  BY <1>1, HeldEntry DEF HoldsClaim
<1>4. QED
  BY <1>1, <1>2, <1>3, HeldEntry, UnleaseKeeps DEF Release

\* The holder may cancel what it has claimed.
LEMMA CancelClaimedKeeps ==
  ASSUME IInv, NEW r \in receipts, CancelClaimed(r)
  PROVE  IInv'
<1>1. Ready /\ HoldsClaim(entries, r)
  BY DEF CancelClaimed
<1>2. /\ [op |-> "cancel", queueId |-> r.queueId, token |-> r.token] \in Reply
      /\ "cancelled" \in Status
  BY <1>1, HeldEntry DEF Reply, Status, Terminal
<1>3. disk[r.queueId].status \notin Terminal
  BY <1>1, HeldEntry DEF HoldsClaim, Terminal
<1>4. QED
  BY <1>1, <1>2, <1>3, HeldEntry, UnleaseKeeps DEF CancelClaimed

\* Anybody may cancel what nobody holds.
LEMMA CancelWaitingKeeps ==
  ASSUME IInv, NEW q \in DOMAIN entries, CancelWaiting(q)
  PROVE  IInv'
<1>1. Ready /\ ~loadError /\ entries = disk /\ IsStore(entries)
  BY EmptyIsStore DEF CancelWaiting, IInv, MemoryLoaded, TypeOK
<1>2. /\ [op |-> "cancel", queueId |-> q, token |-> NoToken] \in Reply
      /\ "cancelled" \in Status
  BY <1>1 DEF Reply, Status, Terminal, NoToken, IsStore
<1>3. disk[q].status \notin Terminal
  BY <1>1 DEF CancelWaiting, Terminal
<1>4. QED
  BY <1>1, <1>2, <1>3, UnleaseKeeps DEF CancelWaiting

-----------------------------------------------------------------------------
\* The file an operation under way is about to write: every entry keeps whose
\* it is, what is settled stays as it is, and new entries come last.
LEMMA WhatGetsWritten ==
  ASSUME IInv, txn.open
  PROVE  /\ IsStore(entries)
         /\ \A x \in DOMAIN disk : /\ x \in DOMAIN entries
                                   /\ entries[x].session = disk[x].session
                                   /\ entries[x].turn = disk[x].turn
         /\ \A x \in DOMAIN disk : disk[x].status \in Terminal => entries[x] = disk[x]
         /\ \A x \in DOMAIN entries \ DOMAIN disk : \A y \in DOMAIN disk : y < x
         /\ \A x, y \in DOMAIN entries :
              (entries[x].session = entries[y].session
                 /\ entries[x].turn = entries[y].turn) => x = y
         /\ \A x \in DOMAIN entries :
              /\ entries[x].token <= issued
              /\ entries[x].status # "claimed" => entries[x].token = NoToken
         /\ \A r \in receipts : entries[r.queueId].status = "claimed"
                                  => r.token <= entries[r.queueId].token
         /\ up /\ ~loadError /\ \A x \in DOMAIN entries : x <= sequence
<1> DEFINE q == txn.reply.queueId
<1>1. IsStore(entries) /\ IsStore(disk) /\ issued \in Nat
  BY DEF IInv, TypeOK
<1>2. /\ up /\ ~loadError
      /\ DOMAIN entries = DOMAIN disk \cup {q}
      /\ \A x \in DOMAIN disk : x # q => entries[x] = disk[x]
      /\ Started(txn.reply.op, q, txn.reply.token)
  BY DEF IInv, OneEntryAhead
<1> HIDE DEF q
<1>3. \A x \in DOMAIN disk : /\ x \in DOMAIN entries
                             /\ entries[x].session = disk[x].session
                             /\ entries[x].turn = disk[x].turn
  BY <1>2 DEF Started
<1>4. \A x \in DOMAIN disk : disk[x].status \in Terminal => entries[x] = disk[x]
  BY <1>2 DEF Started, IsLaneHead, HoldsClaim, Terminal
<1>5. \A x \in DOMAIN entries \ DOMAIN disk : \A y \in DOMAIN disk : y < x
  BY <1>2 DEF Started
<1>6. ASSUME NEW x \in DOMAIN entries, NEW y \in DOMAIN entries,
             entries[x].session = entries[y].session,
             entries[x].turn = entries[y].turn
      PROVE  x = y
  <2>1. CASE q \in DOMAIN disk
    BY <1>2, <1>3, <1>6, <2>1 DEF IInv, DiskOrdered
  <2>2. CASE q \notin DOMAIN disk
    <3>1. ~Known(disk, entries[q].session, entries[q].turn)
      BY <1>2, <2>2 DEF Started
    <3>2. QED
      BY <1>2, <1>3, <1>6, <2>2, <3>1 DEF IInv, DiskOrdered, Known
  <2>3. QED
    BY <2>1, <2>2
<1>7. ASSUME NEW x \in DOMAIN entries
      PROVE  /\ entries[x].token <= issued
             /\ entries[x].status # "claimed" => entries[x].token = NoToken
  <2>1. CASE x = q
    BY <1>1, <1>2, <2>1 DEF Started, NoToken
  <2>2. CASE x # q
    BY <1>2, <2>2 DEF IInv, DiskOrdered
  <2>3. QED
    BY <2>1, <2>2
<1>8. ASSUME NEW r \in receipts, entries[r.queueId].status = "claimed"
      PROVE  r.token <= entries[r.queueId].token
  <2>1. r.queueId \in DOMAIN disk /\ r.token <= issued
    BY DEF IInv, ReceiptsBehind
  <2>2. CASE r.queueId = q
    BY <1>2, <1>8, <2>1, <2>2 DEF Started
  <2>3. CASE r.queueId # q
    BY <1>2, <1>8, <2>1, <2>3 DEF IInv, ReceiptsBehind
  <2>4. QED
    BY <2>2, <2>3
<1>9. \A x \in DOMAIN entries : x <= sequence
  BY <1>2 DEF IInv, MemoryLoaded
<1>10. QED
  BY <1>1, <1>2, <1>3, <1>4, <1>5, <1>6, <1>7, <1>8, <1>9

\* Once written, with nothing said to anyone, what callers were told holds.
LEMMA WrittenKeepsPromises ==
  ASSUME IInv, txn.open, disk' = entries, UNCHANGED told
  PROVE  /\ AcceptedSurvives' /\ SettledSurvives'
         /\ HandedOutInOrder' /\ AckedByLatestHolder'
         /\ \A r \in receipts : r.queueId \in DOMAIN entries
<1>1. accepted' = accepted /\ receipts' = receipts /\ settled' = settled
  BY DEF told
<1>2. AcceptedSurvives'
  BY <1>1, WhatGetsWritten DEF IInv, AcceptedSurvives
<1>3. SettledSurvives'
  <2>1. \A d \in settled : d.status \in Terminal
    BY DEF IInv, TypeOK
  <2>2. QED
    BY <1>1, <2>1, WhatGetsWritten DEF IInv, SettledSurvives
<1>4. HandedOutInOrder'
  <2> SUFFICES ASSUME NEW r \in receipts, NEW x \in DOMAIN entries,
                      x < r.queueId, entries[x].session = entries[r.queueId].session
               PROVE  entries[x].status \in Terminal
    BY <1>1 DEF HandedOutInOrder
  <2>1. r.queueId \in DOMAIN disk
    BY DEF IInv, ReceiptsBehind
  <2>2. r.queueId \in Nat /\ x \in Nat
    BY <2>1 DEF IInv, TypeOK, IsStore
  <2>3. x \in DOMAIN disk
    BY <2>1, <2>2, WhatGetsWritten
  <2>4. disk[x].session = disk[r.queueId].session
    BY <2>1, <2>3, WhatGetsWritten
  <2>5. disk[x].status \in Terminal
    BY <2>3, <2>4 DEF IInv, HandedOutInOrder
  <2>6. QED
    BY <2>3, <2>5, WhatGetsWritten
<1>5. AckedByLatestHolder'
  BY <1>1 DEF IInv, AckedByLatestHolder
<1>6. QED
  BY <1>2, <1>3, <1>4, <1>5, WhatGetsWritten DEF IInv, ReceiptsBehind

\* The file is replaced: what the caller is told is in it.
LEMMA PersistKeeps ==
  ASSUME IInv, Persist
  PROVE  IInv'
<1> DEFINE q     == txn.reply.queueId
           op    == txn.reply.op
           token == txn.reply.token
<1>1. /\ up /\ txn.open /\ disk' = entries /\ txn' = Closed
      /\ up' = up /\ entries' = entries /\ sequence' = sequence
      /\ loadError' = loadError /\ now' = now /\ issued' = issued
  BY DEF Persist
<1>2. /\ accepted' = IF op = "enqueue"
                     THEN accepted \cup {[queueId |-> q,
                                          session |-> entries[q].session,
                                          turn |-> entries[q].turn]}
                     ELSE accepted
      /\ receipts' = IF op = "claim"
                     THEN receipts \cup {[queueId |-> q, token |-> token]}
                     ELSE receipts
      /\ settled' = IF op \in {"ack", "cancel"}
                    THEN settled \cup {[queueId |-> q, status |-> entries[q].status,
                                        token |-> token]}
                    ELSE settled
  BY DEF Persist
<1>3. /\ q \in DOMAIN entries /\ Started(op, q, token)
      /\ DOMAIN entries = DOMAIN disk \cup {q}
      /\ \A x \in DOMAIN disk : x # q => entries[x] = disk[x]
  BY <1>1 DEF IInv, OneEntryAhead
<1>4. /\ q \in Nat /\ token \in Nat /\ issued \in 0..MaxToken
      /\ entries[q] \in Entry /\ IsStore(entries)
  BY <1>3 DEF IInv, TypeOK, Reply, IsStore
<1> HIDE DEF q, op, token
<1>5. TypeOK'
  <2>1. accepted' \subseteq [queueId : Nat, session : Sessions, turn : Turns]
    <3>1. [queueId |-> q, session |-> entries[q].session, turn |-> entries[q].turn]
            \in [queueId : Nat, session : Sessions, turn : Turns]
      BY <1>4 DEF Entry
    <3>2. accepted \subseteq [queueId : Nat, session : Sessions, turn : Turns]
      BY DEF IInv, TypeOK
    <3>3. QED
      BY <1>2, <3>1, <3>2
  <2>2. receipts' \subseteq [queueId : Nat, token : Nat]
    <3>1. [queueId |-> q, token |-> token] \in [queueId : Nat, token : Nat]
      BY <1>4
    <3>2. receipts \subseteq [queueId : Nat, token : Nat]
      BY DEF IInv, TypeOK
    <3>3. QED
      BY <1>2, <3>1, <3>2
  <2>3. settled' \subseteq [queueId : Nat, status : Terminal, token : Nat]
    <3>1. settled \subseteq [queueId : Nat, status : Terminal, token : Nat]
      BY DEF IInv, TypeOK
    <3>2. CASE op \in {"ack", "cancel"}
      <4>1. entries[q].status \in Terminal
        BY <1>3, <3>2 DEF Started, Terminal
      <4>2. [queueId |-> q, status |-> entries[q].status, token |-> token]
              \in [queueId : Nat, status : Terminal, token : Nat]
        BY <1>4, <4>1
      <4>3. QED
        BY <1>2, <3>1, <4>2
    <3>3. CASE op \notin {"ack", "cancel"}
      BY <1>2, <3>1, <3>3
    <3>4. QED
      BY <3>2, <3>3
  <2>4. /\ txn'.open \in BOOLEAN /\ IsStore(txn'.entries)
        /\ txn'.sequence \in 0..MaxSequence /\ txn'.reply \in Reply
    <3>1. NoReply \in Reply
      BY DEF NoReply, Reply, NoToken
    <3>2. QED
      BY <1>1, <3>1, EmptyIsStore, ConstantsAreNaturals DEF Closed
  <2>5. /\ up' \in BOOLEAN /\ IsStore(entries') /\ sequence' \in 0..MaxSequence
        /\ loadError' \in BOOLEAN /\ IsStore(disk')
        /\ now' \in 0..MaxTime /\ issued' \in 0..MaxToken
    BY <1>1 DEF IInv, TypeOK
  <2>6. QED
    BY <2>1, <2>2, <2>3, <2>4, <2>5 DEF TypeOK
<1>6. OneEntryAhead'
  BY <1>1 DEF OneEntryAhead, Closed
<1>7. MemoryLoaded'
  BY <1>1, WhatGetsWritten DEF MemoryLoaded
<1>8. DiskOrdered'
  BY <1>1, WhatGetsWritten DEF DiskOrdered
<1>9. ReceiptsBehind'
  <2> SUFFICES ASSUME NEW r \in receipts'
               PROVE  /\ r.queueId \in DOMAIN entries
                      /\ r.token <= issued
                      /\ entries[r.queueId].status = "claimed"
                           => r.token <= entries[r.queueId].token
    BY <1>1 DEF ReceiptsBehind, Closed
  <2>1. CASE r \in receipts
    BY <1>1, <2>1, WhatGetsWritten DEF IInv, ReceiptsBehind
  <2>2. CASE r \notin receipts
    <3>1. op = "claim" /\ r.queueId = q /\ r.token = token
      BY <1>2, <2>2
    <3>2. token = issued /\ entries[q].token = token
      BY <1>3, <3>1 DEF Started
    <3>3. QED
      BY <1>3, <1>4, <3>1, <3>2
  <2>3. QED
    BY <2>1, <2>2
<1>10. AcceptedSurvives'
  <2> SUFFICES ASSUME NEW a \in accepted'
               PROVE  /\ a.queueId \in DOMAIN entries
                      /\ entries[a.queueId].session = a.session
                      /\ entries[a.queueId].turn = a.turn
    BY <1>1 DEF AcceptedSurvives
  <2>1. CASE a \in accepted
    BY <1>1, <2>1, WhatGetsWritten DEF IInv, AcceptedSurvives
  <2>2. CASE a \notin accepted
    BY <1>2, <1>3, <2>2
  <2>3. QED
    BY <2>1, <2>2
<1>11. SettledSurvives'
  <2> SUFFICES ASSUME NEW d \in settled'
               PROVE  /\ d.queueId \in DOMAIN entries
                      /\ entries[d.queueId].status = d.status
    BY <1>1 DEF SettledSurvives
  <2>1. CASE d \in settled
    <3>1. d.status \in Terminal
      BY <2>1 DEF IInv, TypeOK
    <3>2. QED
      BY <1>1, <2>1, <3>1, WhatGetsWritten DEF IInv, SettledSurvives
  <2>2. CASE d \notin settled
    BY <1>2, <1>3, <2>2
  <2>3. QED
    BY <2>1, <2>2
<1>12. HandedOutInOrder'
  <2> SUFFICES ASSUME NEW r \in receipts', NEW x \in DOMAIN entries,
                      x < r.queueId, entries[x].session = entries[r.queueId].session
               PROVE  entries[x].status \in Terminal
    BY <1>1 DEF HandedOutInOrder
  <2>1. r.queueId \in DOMAIN disk
    <3>1. CASE r \in receipts
      BY <3>1 DEF IInv, ReceiptsBehind
    <3>2. CASE r \notin receipts
      BY <1>2, <1>3, <3>2 DEF Started
    <3>3. QED
      BY <3>1, <3>2
  <2>2. r.queueId \in Nat /\ x \in Nat
    BY <1>4, <2>1 DEF IInv, TypeOK, IsStore
  <2>3. x \in DOMAIN disk
    BY <1>1, <2>1, <2>2, WhatGetsWritten
  <2>4. disk[x].session = disk[r.queueId].session
    BY <1>1, <2>1, <2>3, WhatGetsWritten
  <2>5. disk[x].status \in Terminal
    <3>1. CASE r \in receipts
      BY <2>3, <2>4, <3>1 DEF IInv, HandedOutInOrder
    <3>2. CASE r \notin receipts
      <4>1. IsLaneHead(disk, q) /\ r.queueId = q
        BY <1>2, <1>3, <3>2 DEF Started
      <4>2. QED
        BY <2>3, <2>4, <4>1 DEF IsLaneHead
    <3>3. QED
      BY <3>1, <3>2
  <2>6. QED
    BY <1>1, <2>3, <2>5, WhatGetsWritten
<1>13. AckedByLatestHolder'
  <2> SUFFICES ASSUME NEW d \in settled', d.status = "acked",
                      NEW r \in receipts', r.queueId = d.queueId
               PROVE  r.token <= d.token
    BY DEF AckedByLatestHolder
  <2>1. CASE d \in settled
    <3>1. disk[d.queueId].status = "acked"
      BY <2>1 DEF IInv, SettledSurvives
    <3>2. r \in receipts
      <4>1. CASE op = "claim"
        BY <1>2, <1>3, <3>1, <4>1 DEF Started, IsLaneHead, Terminal
      <4>2. CASE op # "claim"
        BY <1>2, <4>2
      <4>3. QED
        BY <4>1, <4>2
    <3>3. QED
      BY <2>1, <3>2 DEF IInv, AckedByLatestHolder
  <2>2. CASE d \notin settled
    <3>1. /\ op \in {"ack", "cancel"} /\ d.queueId = q /\ d.token = token
          /\ entries[q].status = "acked"
      BY <1>2, <2>2
    <3>2. op = "ack" /\ HoldsClaim(disk, [queueId |-> q, token |-> token])
      BY <1>3, <3>1 DEF Started
    <3>3. r \in receipts
      BY <1>2, <3>2
    <3>4. QED
      BY <3>1, <3>2, <3>3 DEF IInv, ReceiptsBehind, HoldsClaim
  <2>3. QED
    BY <2>1, <2>2
<1>14. QED
  BY <1>5, <1>6, <1>7, <1>8, <1>9, <1>10, <1>11, <1>12, <1>13 DEF IInv

\* The write fails: memory is as the file again.
LEMMA PersistFailsKeeps ==
  ASSUME IInv, PersistFails
  PROVE  IInv'
<1>1. /\ up /\ txn.open /\ entries' = disk /\ sequence' = txn.sequence
      /\ txn' = Closed /\ up' = up /\ loadError' = loadError /\ disk' = disk
      /\ now' = now /\ issued' = issued /\ accepted' = accepted
      /\ receipts' = receipts /\ settled' = settled
      /\ ~loadError /\ \A x \in DOMAIN disk : x <= txn.sequence
  BY DEF PersistFails, IInv, OneEntryAhead, told
<1>2. TypeOK'
  <2>1. NoReply \in Reply
    BY DEF NoReply, Reply, NoToken
  <2>2. /\ txn'.open \in BOOLEAN /\ IsStore(txn'.entries)
        /\ txn'.sequence \in 0..MaxSequence /\ txn'.reply \in Reply
    BY <1>1, <2>1, EmptyIsStore, ConstantsAreNaturals DEF Closed
  <2>3. IsStore(entries') /\ sequence' \in 0..MaxSequence
    BY <1>1 DEF IInv, TypeOK
  <2>4. QED
    BY <1>1, <2>2, <2>3 DEF IInv, TypeOK
<1>3. OneEntryAhead' /\ MemoryLoaded'
  BY <1>1 DEF OneEntryAhead, MemoryLoaded, Closed
<1>4. DiskOrdered' /\ ReceiptsBehind'
  BY <1>1 DEF IInv, DiskOrdered, ReceiptsBehind, Closed
<1>5. /\ AcceptedSurvives' /\ SettledSurvives'
      /\ HandedOutInOrder' /\ AckedByLatestHolder'
  BY <1>1 DEF IInv, AcceptedSurvives, SettledSurvives, HandedOutInOrder,
              AckedByLatestHolder
<1>6. QED
  BY <1>2, <1>3, <1>4, <1>5 DEF IInv

\* A crash loses memory; the file is as before or after the open write.
LEMMA CrashKeeps ==
  ASSUME IInv, Crash
  PROVE  IInv'
<1>1. /\ up' = FALSE /\ entries' = EmptyStore /\ sequence' = 0
      /\ loadError' = FALSE /\ txn' = Closed /\ now' = now /\ issued' = issued
      /\ accepted' = accepted /\ receipts' = receipts /\ settled' = settled
      /\ disk' = disk \/ (txn.open /\ disk' = entries)
  BY DEF Crash, told
<1>2. IsStore(disk')
  BY <1>1, WhatGetsWritten DEF IInv, TypeOK
<1>3. TypeOK'
  <2>1. NoReply \in Reply
    BY DEF NoReply, Reply, NoToken
  <2>2. /\ txn'.open \in BOOLEAN /\ IsStore(txn'.entries)
        /\ txn'.sequence \in 0..MaxSequence /\ txn'.reply \in Reply
    BY <1>1, <2>1, EmptyIsStore, ConstantsAreNaturals DEF Closed
  <2>3. /\ up' \in BOOLEAN /\ IsStore(entries') /\ sequence' \in 0..MaxSequence
        /\ loadError' \in BOOLEAN
    <3>1. up' \in BOOLEAN /\ loadError' \in BOOLEAN
      BY <1>1, Zenon
    <3>2. QED
      BY <1>1, <3>1, EmptyIsStore, ConstantsAreNaturals
  <2>4. QED
    BY <1>1, <1>2, <2>2, <2>3 DEF IInv, TypeOK
<1>4. OneEntryAhead' /\ MemoryLoaded'
  BY <1>1 DEF OneEntryAhead, MemoryLoaded, Closed, Ready
<1>5. CASE disk' = disk
  <2>1. DiskOrdered' /\ ReceiptsBehind'
    BY <1>1, <1>5 DEF IInv, DiskOrdered, ReceiptsBehind, Closed
  <2>2. /\ AcceptedSurvives' /\ SettledSurvives'
        /\ HandedOutInOrder' /\ AckedByLatestHolder'
    BY <1>1, <1>5 DEF IInv, AcceptedSurvives, SettledSurvives, HandedOutInOrder,
                      AckedByLatestHolder
  <2>3. QED
    BY <1>3, <1>4, <2>1, <2>2 DEF IInv
<1>6. CASE txn.open /\ disk' = entries
  <2>1. DiskOrdered'
    BY <1>1, <1>6, WhatGetsWritten DEF DiskOrdered
  <2>2. UNCHANGED told
    BY <1>1 DEF told
  <2>3. ReceiptsBehind'
    BY <1>1, <1>6, <2>2, WhatGetsWritten, WrittenKeepsPromises
       DEF IInv, ReceiptsBehind, Closed
  <2>4. QED
    BY <1>3, <1>4, <1>6, <2>1, <2>2, <2>3, WrittenKeepsPromises DEF IInv
<1>7. QED
  BY <1>1, <1>5, <1>6

\* Restarts and the clock touch neither the file nor what callers know.
LEMMA RestartKeeps ==
  ASSUME IInv, Load \/ LoadFails \/ Tick \/ UNCHANGED vars
  PROVE  IInv'
<1>1. /\ disk' = disk /\ issued' = issued /\ txn' = txn /\ accepted' = accepted
      /\ receipts' = receipts /\ settled' = settled
  BY DEF Load, LoadFails, Tick, vars, memory, told
<1>2. DiskOrdered' /\ ReceiptsBehind'
  BY <1>1 DEF IInv, DiskOrdered, ReceiptsBehind
<1>3. /\ AcceptedSurvives' /\ SettledSurvives'
      /\ HandedOutInOrder' /\ AckedByLatestHolder'
  BY <1>1 DEF IInv, AcceptedSurvives, SettledSurvives, HandedOutInOrder,
              AckedByLatestHolder
<1>4. CASE Load
  <2>1. /\ ~up /\ ~loadError /\ ~txn.open
        /\ up' = TRUE /\ entries' = disk /\ sequence' = HighestSequence(disk)
        /\ loadError' = loadError /\ now' = now
    BY <1>4 DEF Load, IInv, MemoryLoaded
  <2>2. IsStore(disk)
    BY DEF IInv, TypeOK
  <2>3. TypeOK'
    BY <1>1, <2>1, <2>2, HighestCovers DEF IInv, TypeOK
  <2>4. OneEntryAhead' /\ MemoryLoaded'
    BY <1>1, <2>1, <2>2, HighestCovers DEF OneEntryAhead, MemoryLoaded, Ready
  <2>5. QED
    BY <1>2, <1>3, <2>3, <2>4 DEF IInv
<1>5. CASE LoadFails
  <2>1. /\ ~up /\ ~txn.open /\ entries = EmptyStore
        /\ up' = TRUE /\ loadError' = TRUE /\ entries' = entries
        /\ sequence' = sequence /\ now' = now
    BY <1>5 DEF LoadFails, IInv, MemoryLoaded
  <2>2. TypeOK'
    BY <1>1, <2>1 DEF IInv, TypeOK
  <2>3. OneEntryAhead' /\ MemoryLoaded'
    BY <1>1, <2>1, EmptyIsStore DEF OneEntryAhead, MemoryLoaded, Ready
  <2>4. QED
    BY <1>2, <1>3, <2>2, <2>3 DEF IInv
<1>6. CASE Tick \/ UNCHANGED vars
  <2>1. /\ up' = up /\ entries' = entries /\ sequence' = sequence
        /\ loadError' = loadError
    BY <1>6 DEF Tick, vars, memory
  <2>2. now' \in 0..MaxTime
    BY <1>6, ConstantsAreNaturals DEF Tick, vars, IInv, TypeOK
  <2>3. TypeOK'
    BY <1>1, <2>1, <2>2 DEF IInv, TypeOK
  <2>4. OneEntryAhead' /\ MemoryLoaded'
    BY <1>1, <2>1 DEF IInv, OneEntryAhead, MemoryLoaded, Ready, Started
  <2>5. QED
    BY <1>2, <1>3, <2>3, <2>4 DEF IInv
<1>7. QED
  BY <1>4, <1>5, <1>6

-----------------------------------------------------------------------------
\* The invariant of the queue: whatever operations, failed writes, crashes and
\* restarts come in whatever order, memory and file stay one entry apart at
\* most and every promise below holds.
THEOREM Invariance == Spec => []IInv
<1>1. IInv /\ [Next]_vars => IInv'
  <2> SUFFICES ASSUME IInv, [Next]_vars PROVE IInv'
    OBVIOUS
  <2>1. ASSUME NEW s \in Sessions, NEW t \in Turns, Enqueue(s, t) PROVE IInv'
    BY <2>1, EnqueueKeeps
  <2>2. ASSUME NEW s \in Sessions, Claim(s) PROVE IInv'
    BY <2>2, ClaimKeeps
  <2>3. ASSUME NEW r \in receipts, Ack(r) PROVE IInv'
    BY <2>3, AckKeeps
  <2>4. ASSUME NEW r \in receipts, Release(r) PROVE IInv'
    BY <2>4, ReleaseKeeps
  <2>5. ASSUME NEW r \in receipts, CancelClaimed(r) PROVE IInv'
    BY <2>5, CancelClaimedKeeps
  <2>6. ASSUME NEW q \in DOMAIN entries, CancelWaiting(q) PROVE IInv'
    BY <2>6, CancelWaitingKeeps
  <2>7. CASE Persist
    BY <2>7, PersistKeeps
  <2>8. CASE PersistFails
    BY <2>8, PersistFailsKeeps
  <2>9. CASE Crash
    BY <2>9, CrashKeeps
  <2>10. CASE Load \/ LoadFails \/ Tick \/ UNCHANGED vars
    BY <2>10, RestartKeeps
  <2>11. ASSUME NEW s \in Sessions, NEW t \in Turns, EnqueueAgain(s, t) PROVE IInv'
    BY <2>11, EnqueueAgainKeeps
  <2>12. QED
    BY <2>1, <2>2, <2>3, <2>4, <2>5, <2>6, <2>7, <2>8, <2>9, <2>10, <2>11 DEF Next
<1>2. QED
  BY InitEstablishes, <1>1, PTL DEF Spec

\* The state of the queue is well typed.
THEOREM TypeCorrect == Spec => []TypeOK
<1>1. IInv => TypeOK
  BY DEF IInv
<1>2. QED
  BY Invariance, <1>1, PTL

\* Input that was accepted is in the file from then on.
THEOREM AcceptedInputSurvives == Spec => []AcceptedSurvives
<1>1. IInv => AcceptedSurvives
  BY DEF IInv
<1>2. QED
  BY Invariance, <1>1, PTL

\* An ack or cancel that was confirmed is never undone.
THEOREM SettlementSurvives == Spec => []SettledSurvives
<1>1. IInv => SettledSurvives
  BY DEF IInv
<1>2. QED
  BY Invariance, <1>1, PTL

\* Accepted inputs and queue ids correspond one to one.
THEOREM IdsNameInputs == Spec => []OneIdPerInput
<1>1. IInv => OneIdPerInput
  BY DEF IInv, AcceptedSurvives, DiskOrdered, OneIdPerInput
<1>2. QED
  BY Invariance, <1>1, PTL

\* Every session's input is handed out in the order it was queued.
THEOREM LaneIsFifo == Spec => []HandedOutInOrder
<1>1. IInv => HandedOutInOrder
  BY DEF IInv
<1>2. QED
  BY Invariance, <1>1, PTL

\* A worker that lost its lease to another one cannot acknowledge.
THEOREM StaleWorkersCannotAck == Spec => []AckedByLatestHolder
<1>1. IInv => AckedByLatestHolder
  BY DEF IInv
<1>2. QED
  BY Invariance, <1>1, PTL

\* A failed write leaves no trace in memory.
THEOREM RollbackIsExact == Spec => []MemoryIsDurable
<1>1. IInv => MemoryIsDurable
  BY DEF IInv, MemoryLoaded, MemoryIsDurable, Ready
<1>2. QED
  BY Invariance, <1>1, PTL

\* A queue that could not read its file does not write it.
THEOREM UnreadableFileIsKept == Spec => UnreadableStoreKept
<1>1. IInv /\ [Next]_vars => [loadError => UNCHANGED disk]_vars
  <2> SUFFICES ASSUME IInv, Next, loadError PROVE disk' = disk
    BY DEF vars
  <2>1. ~txn.open
    BY DEF IInv, MemoryLoaded
  <2>2. QED
    BY <2>1 DEF Next, Enqueue, EnqueueAgain, Claim, Ack, Release, CancelClaimed,
                CancelWaiting, Begin, Persist, PersistFails, Crash, Load, LoadFails, Tick
<1>2. QED
  BY Invariance, <1>1, PTL DEF Spec, UnreadableStoreKept

-----------------------------------------------------------------------------
\* A claim under way takes only what no lease protects any more.  The clock was
\* read before the lock was taken, and has only gone on since.
ClaimIsDue ==
  txn.open =>
    \A q \in DOMAIN disk :
      (disk[q].status = "claimed" /\ entries[q].token \notin {NoToken, disk[q].token})
        => disk[q].leaseUntil <= now

\* What an operation does to the one entry it begins with.
LEMMA BeginIsDue ==
  ASSUME IInv, entries = disk, NEW q, NEW e, NEW op, NEW token,
         Begin(Put(entries, q, e), sequence', op, q, token),
         \/ q \notin DOMAIN disk
         \/ e.token = NoToken
         \/ disk[q].status = "claimed" => disk[q].leaseUntil <= now
  PROVE  ClaimIsDue'
<1>1. /\ disk' = disk /\ now' = now
      /\ \A x \in DOMAIN disk : entries'[x] = IF x = q THEN e ELSE disk[x]
  BY DEF Begin, Put
<1> QED
  BY <1>1 DEF ClaimIsDue

\* A claim's reading of the clock is not ahead of it, and it is compared with
\* the lease in the file: memory and file agree when no operation is open.
LEMMA DueKept ==
  ASSUME IInv, ClaimIsDue, [Next]_vars
  PROVE  ClaimIsDue'
<1>1. (Ready /\ ~loadError) => entries = disk
  BY DEF IInv, MemoryLoaded
<1>2. loadError => entries = EmptyStore
  BY DEF IInv, MemoryLoaded
<1>3. ASSUME NEW s \in Sessions, NEW t \in Turns, Enqueue(s, t)
      PROVE  ClaimIsDue'
  <2>1. PICK q, e : /\ e.token = NoToken
                    /\ Begin(Put(entries, q, e), q, "enqueue", q, NoToken)
    BY <1>3 DEF Enqueue
  <2>2. entries = disk /\ sequence' = q
    BY <1>1, <1>3, <2>1 DEF Enqueue, Begin
  <2> QED
    BY <2>1, <2>2, BeginIsDue
<1>4. ASSUME NEW s \in Sessions, Claim(s)
      PROVE  ClaimIsDue'
  <2>1. PICK q, seen, e :
          /\ q \in DOMAIN entries /\ seen \in 0..now
          /\ Claimable(entries[q], seen)
          /\ Begin(Put(entries, q, e), sequence, "claim", q, issued + 1)
    BY <1>4 DEF Claim
  <2>2. entries = disk /\ sequence' = sequence
    BY <1>1, <1>2, <1>4, <2>1, EmptyIsStore DEF Claim, Begin
  <2>3. disk[q].leaseUntil \in Nat /\ now \in Nat /\ seen \in Nat /\ seen <= now
    BY <2>1, <2>2, ConstantsAreNaturals DEF IInv, TypeOK, IsStore, Entry
  <2>4. disk[q].status = "claimed" => disk[q].leaseUntil <= now
    BY <2>1, <2>2, <2>3 DEF Claimable
  <2> QED
    BY <2>1, <2>2, <2>4, BeginIsDue
<1>5. ASSUME NEW r, Ack(r) \/ Release(r) \/ CancelClaimed(r)
      PROVE  ClaimIsDue'
  <2>1. PICK status, op :
          Begin(Put(entries, r.queueId, Unleased(entries[r.queueId], status)),
                sequence, op, r.queueId, r.token)
    BY <1>5 DEF Ack, Release, CancelClaimed
  <2>2. r.queueId \in DOMAIN entries /\ Ready
    BY <1>5 DEF Ack, Release, CancelClaimed, HoldsClaim
  <2>3. entries = disk /\ sequence' = sequence
    BY <1>1, <1>2, <2>1, <2>2, EmptyIsStore DEF Begin
  <2>4. entries[r.queueId] \in Entry
    BY <2>2 DEF IInv, TypeOK, IsStore
  <2>5. Unleased(entries[r.queueId], status).token = NoToken
    BY <2>4 DEF Unleased, Entry
  <2> QED
    BY <2>1, <2>3, <2>5, BeginIsDue
<1>6. ASSUME NEW q \in DOMAIN entries, CancelWaiting(q)
      PROVE  ClaimIsDue'
  <2>1. /\ Ready
        /\ Begin(Put(entries, q, Unleased(entries[q], "cancelled")),
                 sequence, "cancel", q, NoToken)
    BY <1>6 DEF CancelWaiting
  <2>2. entries = disk /\ sequence' = sequence
    BY <1>1, <1>2, <1>6, <2>1, EmptyIsStore DEF Begin
  <2>3. entries[q] \in Entry
    BY <1>6 DEF IInv, TypeOK, IsStore
  <2>4. Unleased(entries[q], "cancelled").token = NoToken
    BY <2>3 DEF Unleased, Entry
  <2> QED
    BY <2>1, <2>2, <2>4, BeginIsDue
<1>7. CASE Persist \/ PersistFails \/ Crash
  BY <1>7 DEF Persist, PersistFails, Crash, Closed, ClaimIsDue
<1>8. CASE Load \/ LoadFails
  <2>1. ~txn.open
    BY <1>8 DEF IInv, MemoryLoaded, Load, LoadFails
  <2> QED
    BY <1>8, <2>1 DEF Load, LoadFails, ClaimIsDue
<1>9. CASE Tick
  <2>1. txn' = txn /\ entries' = entries /\ disk' = disk /\ now' = now + 1
    BY <1>9 DEF Tick, memory
  <2>2. now \in Nat /\ \A q \in DOMAIN disk : disk[q].leaseUntil \in Nat
    BY ConstantsAreNaturals DEF IInv, TypeOK, IsStore, Entry
  <2> QED
    BY <2>1, <2>2 DEF ClaimIsDue
<1>10. CASE UNCHANGED vars
  BY <1>10 DEF vars, memory, ClaimIsDue
<1>11. ASSUME NEW s \in Sessions, NEW t \in Turns, EnqueueAgain(s, t)
       PROVE  ClaimIsDue'
  BY <1>11 DEF EnqueueAgain, memory, ClaimIsDue
<1> QED
  BY <1>3, <1>4, <1>5, <1>6, <1>7, <1>8, <1>9, <1>10, <1>11 DEF Next

\* No worker is given an entry before the lease of the one before it is over:
\* only a claim draws a token, and nothing but a write shows it in the file.
THEOREM LeasesAreHonoured == Spec => LeaseHonoured
<1>1. Init => ClaimIsDue
  BY DEF Init, Closed, ClaimIsDue
<1>2. IInv /\ ClaimIsDue /\ [Next]_vars
        => [\A q \in DOMAIN disk :
              (disk[q].status = "claimed" /\ disk'[q].token \notin {NoToken, disk[q].token})
                => disk[q].leaseUntil <= now]_vars
  <2> SUFFICES ASSUME IInv, ClaimIsDue, Next, NEW q \in DOMAIN disk,
                      disk[q].status = "claimed",
                      disk'[q].token \notin {NoToken, disk[q].token}
               PROVE  disk[q].leaseUntil <= now
    BY DEF vars
  <2>1. CASE Persist \/ Crash
    <3>1. disk' = disk \/ (txn.open /\ disk' = entries)
      BY <2>1 DEF Persist, Crash
    <3> QED
      BY <3>1 DEF ClaimIsDue
  <2>2. CASE ~(Persist \/ Crash)
    <3>1. disk' = disk
      BY <2>2 DEF Next, Enqueue, EnqueueAgain, Claim, Ack, Release, CancelClaimed,
                  CancelWaiting, Begin, PersistFails, Load, LoadFails, Tick
    <3> QED
      BY <3>1
  <2> QED
    BY <2>1, <2>2
<1>3. Spec => []ClaimIsDue
  BY Invariance, <1>1, DueKept, PTL DEF Spec
<1> QED
  BY Invariance, <1>2, <1>3, PTL DEF Spec, LeaseHonoured

-----------------------------------------------------------------------------
\* The write of an operation is one step of the promised line.
LEMMA WriteIsLaneStep ==
  ASSUME IInv, txn.open, disk' = entries
  PROVE  Lane!Next
<1>1. PICK q, op, token : q = txn.reply.queueId /\ op = txn.reply.op
                          /\ token = txn.reply.token
  OBVIOUS
<1>2. /\ DOMAIN entries = DOMAIN disk \cup {q}
      /\ \A x \in DOMAIN disk : x # q => entries[x] = disk[x]
      /\ Started(op, q, token)
  BY <1>1 DEF IInv, OneEntryAhead
<1>3. /\ IsStore(entries) /\ IsStore(disk) /\ issued \in 0..MaxToken
      /\ q \in 1..MaxSequence /\ entries[q] \in Entry
  BY <1>2 DEF IInv, TypeOK, IsStore
<1> DEFINE Shown(e) == [session |-> e.session, turn |-> e.turn,
                        phase |-> Phase(e), holder |-> e.token]
<1>4. /\ LaneView = [x \in DOMAIN disk |-> Shown(disk[x])]
      /\ LaneView' = [x \in DOMAIN entries |-> Shown(entries[x])]
  BY DEF LaneView
<1>5. /\ DOMAIN LaneView = DOMAIN disk
      /\ \A x \in DOMAIN disk : /\ LaneView[x].session = disk[x].session
                                /\ LaneView[x].turn = disk[x].turn
                                /\ LaneView[x].phase = Phase(disk[x])
                                /\ LaneView[x].holder = disk[x].token
  BY <1>4
<1>6. CASE op = "enqueue"
  <2>1. /\ q \notin DOMAIN disk /\ \A x \in DOMAIN disk : x < q
        /\ ~Known(disk, entries[q].session, entries[q].turn)
        /\ Phase(entries[q]) = "waiting" /\ entries[q].token = 0
    BY <1>2, <1>6 DEF Started, Phase, NoToken
  <2>2. PICK s, t : s = entries[q].session /\ t = entries[q].turn
    OBVIOUS
  <2>3. s \in Sessions /\ t \in Turns
    BY <1>3, <2>2 DEF Entry
  <2>4. \A m \in DOMAIN LaneView :
          m < q /\ ~(LaneView[m].session = s /\ LaneView[m].turn = t)
    BY <1>5, <2>1, <2>2 DEF Known
  <2>5. LaneView' = [m \in DOMAIN LaneView \cup {q} |->
                       IF m = q THEN [session |-> s, turn |-> t,
                                      phase |-> "waiting", holder |-> 0]
                       ELSE LaneView[m]]
    <3>1. Shown(entries[q]) = [session |-> s, turn |-> t,
                               phase |-> "waiting", holder |-> 0]
      BY <2>1, <2>2
    <3>2. \A m \in DOMAIN disk : m # q /\ Shown(entries[m]) = LaneView[m]
      BY <1>2, <1>4, <2>1
    <3> HIDE DEF Shown
    <3>3. QED
      BY <1>2, <1>4, <1>5, <3>1, <3>2
  <2>6. Lane!Accept(s, t, q)
    BY <2>4, <2>5 DEF Lane!Accept, Lane!Nobody
  <2>7. QED
    BY <1>3, <2>3, <2>6 DEF Lane!Next
<1>7. CASE op # "enqueue"
  <2>1. /\ q \in DOMAIN disk /\ DOMAIN entries = DOMAIN disk
        /\ entries[q].session = disk[q].session /\ entries[q].turn = disk[q].turn
    BY <1>2, <1>7 DEF Started
  <2>2. PICK phase, holder : phase = Phase(entries[q]) /\ holder = entries[q].token
    OBVIOUS
  <2>3. Lane!Becomes(q, phase, holder)
    <3>1. [session |-> LaneView[q].session, turn |-> LaneView[q].turn,
           phase |-> phase, holder |-> holder] = Shown(entries[q])
      BY <1>5, <2>1, <2>2
    <3>2. \A m \in DOMAIN disk : m # q => Shown(entries[m]) = LaneView[m]
      BY <1>2, <1>4
    <3> HIDE DEF Shown
    <3>3. QED
      BY <1>4, <1>5, <2>1, <3>1, <3>2 DEF Lane!Becomes
  <2>4. CASE op = "claim"
    <3>1. /\ IsLaneHead(disk, q) /\ phase = "held"
          /\ holder = issued /\ issued > disk[q].token
      BY <1>2, <2>2, <2>4 DEF Started, Phase
    <3>2. \A x \in DOMAIN disk :
            /\ disk[x].status \in Terminal => Phase(disk[x]) = "settled"
            /\ disk[x].status \notin Terminal => Phase(disk[x]) \in {"waiting", "held"}
      BY <1>3 DEF Phase, Terminal, IsStore, Entry, Status
    <3>3. Lane!IsNext(q)
      BY <1>5, <2>1, <3>1, <3>2 DEF Lane!IsNext, Lane!Open, IsLaneHead
    <3>4. holder \in 1..MaxToken /\ holder # disk[q].token
      BY <1>3, <2>1, <3>1 DEF IsStore, Entry
    <3>5. Lane!Hand(q, holder)
      BY <1>5, <2>1, <2>3, <3>1, <3>3, <3>4 DEF Lane!Hand
    <3>6. QED
      BY <1>5, <2>1, <3>4, <3>5 DEF Lane!Next
  <2>5. CASE op = "release"
    <3>1. Phase(disk[q]) = "held" /\ phase = "waiting" /\ holder = 0
      BY <1>2, <2>2, <2>5 DEF Started, Phase, NoToken
    <3>2. Lane!GiveBack(q)
      BY <1>5, <2>1, <2>3, <3>1 DEF Lane!GiveBack, Lane!Nobody
    <3>3. QED
      BY <1>5, <2>1, <3>2 DEF Lane!Next
  <2>6. CASE op \in {"ack", "cancel"}
    <3>1. /\ disk[q].status \notin Terminal /\ entries[q].status \in Terminal
          /\ holder = 0
      BY <1>2, <2>2, <2>6 DEF Started, HoldsClaim, Terminal, NoToken
    <3>2. Phase(disk[q]) \in {"waiting", "held"} /\ phase = "settled"
      BY <1>3, <2>1, <2>2, <3>1 DEF Phase, Terminal, IsStore, Entry, Status
    <3>3. Lane!Settle(q)
      BY <1>5, <2>1, <2>3, <3>1, <3>2 DEF Lane!Settle, Lane!Open, Lane!Nobody
    <3>4. QED
      BY <1>5, <2>1, <3>3 DEF Lane!Next
  <2>7. QED
    BY <1>2, <1>7, <2>4, <2>5, <2>6 DEF Started
<1>8. QED
  BY <1>6, <1>7

\* The queue keeps the promise of FollowupLane.
THEOREM QueueKeepsTheLane == Spec => KeepsTheLane
<1>1. Init => Lane!Init
  BY EmptyIsStore DEF Init, Lane!Init, LaneView
<1>2. IInv /\ [Next]_vars => [Lane!Next]_LaneView
  <2> SUFFICES ASSUME IInv, [Next]_vars PROVE Lane!Next \/ UNCHANGED LaneView
    OBVIOUS
  <2>1. CASE Persist \/ Crash
    <3>1. disk' = disk \/ (txn.open /\ disk' = entries)
      BY <2>1 DEF Persist, Crash
    <3>2. QED
      BY <3>1, WriteIsLaneStep DEF LaneView
  <2>2. CASE ~(Persist \/ Crash)
    <3>1. disk' = disk
      BY <2>2 DEF Next, vars, Enqueue, EnqueueAgain, Claim, Ack, Release, CancelClaimed,
                  CancelWaiting, Begin, PersistFails, Load, LoadFails, Tick
    <3>2. QED
      BY <3>1 DEF LaneView
  <2>3. QED
    BY <2>1, <2>2
<1>3. QED
  BY Invariance, <1>1, <1>2, PTL DEF Spec, KeepsTheLane, Lane!Spec
=============================================================================
