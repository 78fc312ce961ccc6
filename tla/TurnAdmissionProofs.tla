------------------------ MODULE TurnAdmissionProofs ------------------------
(* For any number of turns, sessions, inputs and stops: a session has one    *)
(* owner, in the order of arrival; nobody oversleeps; a stop hits what it    *)
(* names; accepted input is accounted for.                                   *)
EXTENDS TurnAdmission, SequenceTheorems, TLAPS

--------------------------------------------------------------------------------
(* The inductive invariant.                                                   *)

\* The sets of waiting and of active turns say where the threads are.
Places ==
  /\ \A i \in Turn : /\ i \in waiting <=> pc[i] = "waiting"
                     /\ i \in active <=> pc[i] \in {"running", "stopping"}
  /\ \A i \in ran : pc[i] \notin {"waiting", "refused"}
  /\ \A i \in Turn : pc[i] \in {"running", "stopping", "finishing", "lost"} => i \in ran

\* An owner has put up the markers that keep the others out.
Markers ==
  \A i \in Turn : /\ Owning(i) => Of(i) \in exclusive
                  /\ pc[i] = "finishing" => Of(i) \in finalizing

\* A request that was made names the turn.
Meant(i) == \E t \in asked : Names(t, i, Of(i))

\* What is kept of a stop is the request, or the whole identity of a turn that
\* the request names.
StopsAreMeant ==
  /\ \A t \in cancelled : \/ t \in asked
                          \/ \E i \in Turn : t = Exactly(i, Of(i)) /\ Meant(i)
  /\ \A i \in Turn : i \in flagged \/ pc[i] = "stopping" => Meant(i)

Entries(s) == {s[n] : n \in DOMAIN s}
Distinct(s) == \A m, n \in DOMAIN s : m # n => s[m] # s[n]

\* A mailbox belongs to an active turn, and holds what was seen, once.
Mailboxes ==
  \A k \in Key :
    /\ Entries(mailbox[k]) \subseteq seen[k]
    /\ Distinct(mailbox[k])
    /\ seen[k] # {} => \E i \in active : Of(i) = k

\* What an active turn has taken in was seen, and is not in its mailbox; what a
\* finishing one has left was not taken in.
TakenOnce ==
  /\ \A i \in active, x \in Inputs : <<i, x>> \in taken =>
       x \in seen[Of(i)] /\ x \notin Entries(mailbox[Of(i)])
  /\ \A i \in Turn : \A x \in Entries(late[i]) : <<i, x>> \notin taken

\* Only turns that ran have had input, and it is dealt with when they are over.
FatesAreOfTurns ==
  /\ \A i \in Turn, x \in Inputs :
       /\ <<i, x>> \in accepted \cup taken \cup deferred \cup rejected => i \in ran
       /\ <<i, x>> \in deferred \cup rejected =>
            i \notin active /\ <<i, x>> \notin taken
  /\ \A i \in Turn : late[i] # <<>> => pc[i] \in {"finishing", "lost"}

\* Where accepted input is.
Accounted ==
  \A i \in Turn, x \in Inputs : <<i, x>> \in accepted =>
    \/ i \in active /\ x \in Entries(mailbox[Of(i)])
    \/ pc[i] \in {"finishing", "lost"} /\ x \in Entries(late[i])
    \/ <<i, x>> \in taken \cup deferred \cup rejected \cup dropped

IInv == /\ TypeOK /\ Places /\ OneOwner /\ Markers /\ NoOvertaking
        /\ NoLostWakeup /\ flagged \cap ran = {} /\ StopsAreMeant
        /\ Mailboxes /\ TakenOnce /\ FatesAreOfTurns /\ Accounted

--------------------------------------------------------------------------------
(* What sequences do.                                                         *)

\* Appending adds one entry.
LEMMA EntriesOfAppend ==
  ASSUME NEW S, NEW s \in Seq(S), NEW x \in S
  PROVE  /\ Append(s, x) \in Seq(S) /\ Len(Append(s, x)) = Len(s) + 1
         /\ Entries(Append(s, x)) = Entries(s) \cup {x}
         /\ x \notin Entries(s) /\ Distinct(s) => Distinct(Append(s, x))
  <1>1. /\ DOMAIN s = 1..Len(s) /\ Len(s) \in Nat
        /\ DOMAIN Append(s, x) = 1..Len(s) + 1
    BY AppendProperties, LenProperties
  <1>2. /\ \A n \in 1..Len(s) : Append(s, x)[n] = s[n]
        /\ Append(s, x)[Len(s) + 1] = x
    BY AppendProperties
  <1>3. Entries(Append(s, x)) = Entries(s) \cup {x}
    BY <1>1, <1>2 DEF Entries
  <1>4. x \notin Entries(s) /\ Distinct(s) => Distinct(Append(s, x))
    BY <1>1, <1>2 DEF Entries, Distinct
  <1> QED  BY <1>3, <1>4, AppendProperties

\* The head is an entry, and the entries are the head and those of the tail.
LEMMA EntriesOfTail ==
  ASSUME NEW S, NEW s \in Seq(S), s # <<>>
  PROVE  /\ Head(s) \in S /\ Tail(s) \in Seq(S)
         /\ Entries(s) = Entries(Tail(s)) \cup {Head(s)}
  <1>1. /\ DOMAIN s = 1..Len(s) /\ Len(s) \in Nat \ {0} /\ Head(s) = s[1]
        /\ DOMAIN Tail(s) = 1..Len(s) - 1
    BY HeadTailProperties, LenProperties, EmptySeq
  <1>2. \A n \in 1..Len(s) - 1 : Tail(s)[n] = s[n + 1]
    BY HeadTailProperties
  <1>3. ASSUME NEW n \in 1..Len(s), n # 1
        PROVE  n - 1 \in 1..Len(s) - 1 /\ s[n] = Tail(s)[n - 1]
    BY <1>1, <1>2, <1>3
  <1>4. ASSUME NEW n \in 1..Len(s)
        PROVE  s[n] \in Entries(Tail(s)) \cup {Head(s)}
    BY <1>1, <1>3 DEF Entries
  <1>5. ASSUME NEW n \in 1..Len(s) - 1
        PROVE  n + 1 \in 1..Len(s) /\ Tail(s)[n] = s[n + 1]
    BY <1>1, <1>2, <1>5
  <1>6. 1 \in 1..Len(s)
    BY <1>1
  <1>7. Entries(Tail(s)) \cup {Head(s)} \subseteq Entries(s)
    BY <1>1, <1>5, <1>6 DEF Entries
  <1>8. Entries(s) \subseteq Entries(Tail(s)) \cup {Head(s)}
    BY <1>1, <1>4 DEF Entries
  <1> QED  BY <1>7, <1>8, HeadTailProperties

\* The empty sequence has no entries.
LEMMA EntriesOfEmpty ==
  Entries(<<>>) = {} /\ Distinct(<<>>)
  BY DEF Entries, Distinct

\* The entries of a sequence are of its kind.
LEMMA EntriesAreElements ==
  ASSUME NEW S, NEW s \in Seq(S)
  PROVE  Entries(s) \subseteq S /\ (s # <<>> => Entries(s) # {})
  <1>1. s # <<>> => 1 \in DOMAIN s
    BY LenProperties, EmptySeq
  <1> QED  BY <1>1, ElementOfSeq, LenProperties DEF Entries

\* The pairs of a turn with the entries of its mailbox.
LEMMA PairsAreEntries ==
  ASSUME NEW i, NEW s PROVE Pairs(i, s) = {<<i, x>> : x \in Entries(s)}
  BY DEF Pairs, Entries

--------------------------------------------------------------------------------
(* What steps do to the threads.                                              *)

\* Turns are numbered from one.
LEMMA Numbered ==
  ASSUME TypeOK
  PROVE  /\ Len(who) \in Nat /\ Turn = 1..Len(who) /\ Turn \subseteq 1..MaxTurns
         /\ Turn \subseteq Nat \ {0} /\ \A i \in Turn : Of(i) \in Key
  BY ConstantsFit, LenProperties, ElementOfSeq DEF TypeOK, Turn, Of

\* A function on the first n numbers gets one more value.
LEMMA Appended ==
  ASSUME NEW S, NEW n \in Nat, NEW s \in [1..n -> S], NEW x \in S
  PROVE  /\ Append(s, x) \in [1..n + 1 -> S] /\ Append(s, x)[n + 1] = x
         /\ \A j \in 1..n : Append(s, x)[j] = s[j]
  <1>1. s \in Seq(S) /\ Len(s) = n
    BY IsASeq, LenProperties
  <1>2. Append(s, x) \in Seq(S) /\ Len(Append(s, x)) = n + 1
    BY <1>1, AppendProperties
  <1>3. Append(s, x) \in [1..Len(Append(s, x)) -> S]
    BY <1>2, LenProperties
  <1>4. Append(s, x)[n + 1] = x /\ \A j \in 1..n : Append(s, x)[j] = s[j]
    BY <1>1, AppendProperties
  <1> QED  BY <1>2, <1>3, <1>4

\* A turn that arrives has the next number; the others stay what they are.
LEMMA Arrival ==
  ASSUME TypeOK, NEW i, NEW k \in Key, NEW at \in Place, Arrives(i, k, at)
  PROVE  /\ i \in Nat \ {0} /\ i \notin Turn /\ Turn' = Turn \cup {i}
         /\ \A j \in Turn : j < i
         /\ who' \in Seq(Key) /\ Len(who)' <= MaxTurns
         /\ pc' \in [Turn' -> Place] /\ late' \in [Turn' -> Seq(Inputs)]
         /\ Of(i)' = k /\ pc'[i] = at /\ late'[i] = <<>>
         /\ \A j \in Turn : Of(j)' = Of(j) /\ pc'[j] = pc[j] /\ late'[j] = late[j]
  <1> DEFINE n == Len(who)
  <1>1. /\ n \in Nat /\ i = n + 1 /\ Turn = 1..n /\ n + 1 <= MaxTurns
        /\ pc \in [1..n -> Place] /\ late \in [1..n -> Seq(Inputs)]
        /\ who \in Seq(Key)
    BY Numbered DEF Arrives, TypeOK
  <1>2. who' = Append(who, k) /\ pc' = Append(pc, at) /\ late' = Append(late, <<>>)
    BY DEF Arrives
  <1>3. who \in [1..n -> Key]
    BY <1>1, LenProperties
  <1> HIDE DEF n
  <1>4. Append(who, k)[n + 1] = k
    BY <1>1, <1>3, Appended
  <1>5. \A j \in 1..n : Append(who, k)[j] = who[j]
    BY <1>1, <1>3, Appended
  <1>6. who' \in Seq(Key) /\ Len(who)' = n + 1
    BY <1>1, <1>2, AppendProperties DEF n
  <1>7. Append(pc, at) \in [1..n + 1 -> Place]
    BY <1>1, Appended
  <1>8. Append(pc, at)[n + 1] = at
    BY <1>1, Appended
  <1>9. \A j \in 1..n : Append(pc, at)[j] = pc[j]
    BY <1>1, Appended
  <1>10. <<>> \in Seq(Inputs)
    BY EmptySeq
  <1>11. Append(late, <<>>) \in [1..n + 1 -> Seq(Inputs)]
    BY <1>1, <1>10, Appended
  <1>12. Append(late, <<>>)[n + 1] = <<>>
    BY <1>1, <1>10, Appended
  <1>13. \A j \in 1..n : Append(late, <<>>)[j] = late[j]
    BY <1>1, <1>10, Appended
  <1>14. Turn' = 1..n + 1
    BY <1>6, LenProperties DEF Turn
  <1> QED
    BY <1>1, <1>2, <1>4, <1>5, <1>6, <1>7, <1>8, <1>9, <1>11, <1>12, <1>13,
       <1>14 DEF Of

\* A thread that goes on leaves the others where they are.
LEMMA Moved ==
  ASSUME TypeOK, NEW i \in Turn, NEW at \in Place, Goes(i, at), who' = who
  PROVE  /\ pc' \in [Turn' -> Place] /\ pc'[i] = at
         /\ \A j \in Turn : j # i => pc'[j] = pc[j]
         /\ Turn' = Turn /\ \A j \in Turn : Of(j)' = Of(j)
  BY DEF TypeOK, Goes, Turn, Of

--------------------------------------------------------------------------------
(* Types.                                                                     *)

\* The histories of input, one by one.
LEMMA FateTypes ==
  /\ TypeOK => \A i, x : (<<i, x>> \in accepted \cup taken \cup deferred
                            \cup rejected \cup dropped) => i \in Turn /\ x \in Inputs
  /\ TypeOK => /\ accepted \subseteq Turn \X Inputs /\ taken \subseteq Turn \X Inputs
               /\ deferred \subseteq Turn \X Inputs
               /\ rejected \subseteq Turn \X Inputs
               /\ dropped \subseteq Turn \X Inputs
  BY DEF TypeOK

\* A turn's mailbox gives pairs of the turn and inputs.
LEMMA PairTypes ==
  ASSUME NEW i \in Turn, NEW s \in Seq(Inputs)
  PROVE  Pairs(i, s) \subseteq Turn \X Inputs
  BY EntriesAreElements, PairsAreEntries

\* A stop request that is made is typed with what it marks.
LEMMA TypesOfMark ==
  ASSUME TypeOK, NEW request \in Target, NEW targets \in SUBSET Target, NEW hit,
         Mark(request, targets, hit)
  PROVE  /\ asked' \subseteq Target /\ stops' \in 0..MaxStops
         /\ cancelled' \subseteq Target /\ flagged' \subseteq Turn
         /\ owed' \in BOOLEAN
  BY ConstantsFit DEF TypeOK, Mark

\* The full identity of an admitted turn is a target.
LEMMA ExactTargets ==
  ASSUME TypeOK, NEW i \in Turn
  PROVE  Exactly(i, Of(i)) \in Target
  BY Numbered DEF Exactly, Target, Key

\* What a session stop marks is typed.
LEMMA TypesOfSessionStop ==
  ASSUME TypeOK, NEW s \in Sessions, MarkSession(s)
  PROVE  /\ asked' \subseteq Target /\ stops' \in 0..MaxStops
         /\ cancelled' \subseteq Target /\ flagged' \subseteq Turn
         /\ owed' \in BOOLEAN
  <1> DEFINE hit == {i \in Admitted : Of(i).session = s}
             all == [session |-> s, turn |-> 0, client |-> None]
             marked == IF hit = {} THEN {all} ELSE {Exactly(i, Of(i)) : i \in hit}
  <1>1. all \in Target
    BY ConstantsFit DEF Target
  <1>2. hit \subseteq Turn
    BY DEF Admitted, TypeOK
  <1>3. marked \in SUBSET Target
    BY <1>1, <1>2, ExactTargets
  <1>4. Mark(all, marked, hit)
    BY DEF MarkSession
  <1> QED  BY <1>1, <1>3, <1>4, TypesOfMark

\* Every arrival stays in the types.
LEMMA TypesOfArrivals ==
  ASSUME TypeOK, NEW i \in 1..MaxTurns, NEW k \in Key,
         \/ ArriveTwice(i, k) \/ ArriveStopped(i, k)
         \/ ArriveAndBegin(i, k) \/ ArriveAndWait(i, k)
  PROVE  TypeOK'
  <1>1. PICK at \in Place : Arrives(i, k, at)
    BY DEF ArriveTwice, ArriveStopped, ArriveAndBegin, ArriveAndWait, Place
  <1>2. /\ who' \in Seq(Key) /\ Len(who)' <= MaxTurns /\ pc' \in [Turn' -> Place]
        /\ late' \in [Turn' -> Seq(Inputs)] /\ Turn' = Turn \cup {i}
    BY <1>1, Arrival
  <1>3. UNCHANGED <<finalizing, mailbox, seen, fates, host, past>>
    BY DEF ArriveTwice, ArriveStopped, ArriveAndBegin, ArriveAndWait, owners
  <1>4. /\ waiting' \subseteq Turn' /\ asleep' \subseteq waiting'
        /\ flagged' \subseteq Turn' /\ active' \subseteq Turn'
        /\ exclusive' \subseteq Key /\ cancelled' \subseteq Target
        /\ ran' \subseteq Turn'
    BY <1>2 DEF ArriveTwice, ArriveStopped, ArriveAndBegin, ArriveAndWait,
       owners, TypeOK
  <1>5. \A fate \in {accepted, taken, deferred, rejected, dropped}' :
          fate \subseteq Turn' \X Inputs
    BY <1>2, <1>3, FateTypes DEF fates
  <1> QED  BY <1>2, <1>3, <1>4, <1>5 DEF TypeOK, fates, host, past

\* Every step of a thread stays in the types.
LEMMA TypesOfSteps ==
  ASSUME TypeOK, Places, NEW i \in Turn, Step(i)
  PROVE  TypeOK'
  <1> USE DEF TypeOK, threads, owners, steers, fates, past, host
  <1>1. Of(i) \in Key /\ Turn \subseteq Nat
    BY Numbered
  <1>2. CASE WakeStopped(i) \/ WakeAndBegin(i) \/ WakeAndWait(i)
    <2>1. UNCHANGED <<who, flagged, cancelled, steers, fates, host, past>>
      BY <1>2 DEF WakeStopped, WakeAndBegin, WakeAndWait
    <2>2. pc' \in [Turn -> Place] /\ Turn' = Turn
      BY <1>2, <2>1 DEF WakeStopped, WakeAndBegin, WakeAndWait, Goes, Place, Turn
    <2>3. CASE WakeStopped(i)
      BY <2>1, <2>2, <2>3 DEF WakeStopped
    <2>4. CASE WakeAndBegin(i)
      BY <1>1, <2>1, <2>2, <2>4 DEF WakeAndBegin
    <2>5. CASE WakeAndWait(i)
      <3>1. i \in waiting
        BY <2>5 DEF WakeAndWait, Awake, Places
      <3> QED  BY <2>1, <2>2, <2>5, <3>1 DEF WakeAndWait
    <2> QED  BY <1>2, <2>3, <2>4, <2>5
  <1>3. CASE ConsumeStop(i) \/ Record(i) \/ LeaveRefused(i) \/ Notify(i)
    <2>1. pc' \in [Turn -> Place] /\ Turn' = Turn
      BY <1>3 DEF ConsumeStop, Record, LeaveRefused, Notify, Goes, Place, Turn
    <2>2. UNCHANGED <<who, waiting, flagged, active, steers, fates, host, ran, past>>
      BY <1>3 DEF ConsumeStop, Record, LeaveRefused, Notify
    <2>3. /\ asleep' \subseteq asleep /\ finalizing' \subseteq finalizing
          /\ exclusive' \subseteq exclusive /\ cancelled' \subseteq cancelled
      BY <1>3 DEF ConsumeStop, Record, LeaveRefused, Notify
    <2> QED  BY <2>1, <2>2, <2>3
  <1>4. CASE Drain(i)
    <2>1. Pairs(i, mailbox[Of(i)]) \subseteq Turn \X Inputs
      BY <1>1, PairTypes
    <2>2. <<>> \in Seq(Inputs) /\ Len(<<>>) <= MaxMailbox
      BY ConstantsFit, EmptySeq
    <2>3. mailbox' \in [Key -> Seq(Inputs)]
      BY <1>1, <1>4, <2>2 DEF Drain
    <2>4. \A k \in Key : Len(mailbox'[k]) <= MaxMailbox
      BY <1>1, <1>4, <2>2 DEF Drain
    <2>5. taken' \subseteq Turn \X Inputs
      BY <1>4, <2>1 DEF Drain
    <2> QED  BY <1>4, <2>3, <2>4, <2>5 DEF Drain, Turn
  <1>5. CASE Finish(i)
    <2>1. <<>> \in Seq(Inputs) /\ Len(<<>>) <= MaxMailbox
      BY ConstantsFit, EmptySeq
    <2>2. mailbox' \in [Key -> Seq(Inputs)]
      BY <1>1, <1>5, <2>1 DEF Finish
    <2>3. \A k \in Key : Len(mailbox'[k]) <= MaxMailbox
      BY <1>1, <1>5, <2>1 DEF Finish
    <2>4. late' \in [Turn -> Seq(Inputs)]
      BY <1>1, <1>5 DEF Finish, Undrained
    <2> QED  BY <1>1, <1>5, <2>2, <2>3, <2>4 DEF Finish, Turn, Goes, Place
  <1>6. CASE Defer(i) \/ DeferFails(i) \/ SettleRaises(i)
    <2>1. late[i] \in Seq(Inputs) /\ late[i] # <<>>
      BY <1>6 DEF Defer, DeferFails, SettleRaises, Spilling
    <2>2. Head(late[i]) \in Inputs /\ Tail(late[i]) \in Seq(Inputs)
      BY <2>1, EntriesOfTail
    <2>3. late' \in [Turn -> Seq(Inputs)]
      BY <1>6, <2>2 DEF Defer, DeferFails, SettleRaises, Spilt
    <2>4. pc' \in [Turn -> Place] /\ who' = who
      BY <1>6 DEF Defer, DeferFails, SettleRaises, Goes, Place
    <2>5. deferred' \subseteq Turn \X Inputs /\ rejected' \subseteq Turn \X Inputs
      BY <1>6, <2>2 DEF Defer, DeferFails, SettleRaises
    <2> QED
      BY <1>6, <2>3, <2>4, <2>5 DEF Defer, DeferFails, SettleRaises, Turn
  <1> QED
    BY <1>2, <1>3, <1>4, <1>5, <1>6 DEF Step

\* Every step of a user and of the host stays in the types.
LEMMA TypesOfRequests ==
  ASSUME TypeOK, [Next]_vars,
         ~Arrive, \A i \in Turn : ~Step(i)
  PROVE  TypeOK'
  <1> USE DEF TypeOK, threads, owners, steers, fates, past, host
  <1>1. ASSUME NEW k \in Key, NEW x \in Inputs, Steer(k, x) PROVE TypeOK'
    <2>1. PICK i \in active :
            /\ HasRoom(k) /\ mailbox' = [mailbox EXCEPT ![k] = Append(@, x)]
            /\ seen' = [seen EXCEPT ![k] = @ \cup {x}]
            /\ accepted' = accepted \cup {<<i, x>>}
            /\ UNCHANGED <<threads, owners, cancelled, late, taken, deferred,
                           rejected, dropped, host, ran, past>>
      BY <1>1 DEF Steer
    <2>2. /\ Append(mailbox[k], x) \in Seq(Inputs)
          /\ Len(Append(mailbox[k], x)) = Len(mailbox[k]) + 1
          /\ Len(mailbox[k]) \in Nat
      BY EntriesOfAppend, LenProperties
    <2>3. mailbox' \in [Key -> Seq(Inputs)]
      BY <2>1, <2>2
    <2>4. \A j \in Key : Len(mailbox'[j]) <= MaxMailbox
      BY <2>1, <2>2, ConstantsFit DEF HasRoom
    <2>5. seen' \in [Key -> SUBSET Inputs] /\ accepted' \subseteq Turn \X Inputs
      BY <2>1
    <2> QED  BY <2>1, <2>3, <2>4, <2>5 DEF Turn
  <1>2. ASSUME NEW s \in Sessions, StopSession(s) \/ DeleteChat(s) PROVE TypeOK'
    <2>1. /\ asked' \subseteq Target /\ stops' \in 0..MaxStops
          /\ cancelled' \subseteq Target /\ flagged' \subseteq Turn
          /\ owed' \in BOOLEAN
      BY <1>2, TypesOfSessionStop DEF StopSession, DeleteChat
    <2> QED  BY <1>2, <2>1 DEF StopSession, DeleteChat, Turn
  <1>3. ASSUME NEW s \in Sessions, Discard(s) \/ GiveUp(s) PROVE TypeOK'
    BY <1>3 DEF Discard, GiveUp, Turn
  <1>4. ASSUME NEW t \in Target, StopTurn(t) PROVE TypeOK'
    <2> DEFINE hit == Matching(t)
               box == [session |-> t.session, client |-> t.client]
               marked == IF hit = {} THEN {t} ELSE {Exactly(i, Of(i)) : i \in hit}
    <2>1. hit \subseteq Turn
      BY DEF Matching, Admitted
    <2>2. marked \in SUBSET Target
      BY <2>1, ExactTargets
    <2>3. Mark(t, marked, hit)
      BY <1>4 DEF StopTurn
    <2>4. /\ asked' \subseteq Target /\ stops' \in 0..MaxStops
          /\ cancelled' \subseteq Target /\ flagged' \subseteq Turn
          /\ owed' \in BOOLEAN
      BY <2>2, <2>3, TypesOfMark
    <2>5. /\ mailbox' \in [Key -> Seq(Inputs)]
          /\ \A k \in Key : Len(mailbox'[k]) <= MaxMailbox
          /\ dropped' \subseteq Turn \X Inputs
      <3>1. <<>> \in Seq(Inputs) /\ Len(<<>>) <= MaxMailbox
        BY ConstantsFit, EmptySeq
      <3>2. CASE box \in Key
        <4>1. mailbox' = [mailbox EXCEPT ![box] = <<>>]
          BY <1>4, <3>2 DEF StopTurn
        <4>2. dropped' = dropped \cup UNION {Pairs(i, mailbox[box]) :
                                              i \in {j \in active : Of(j) = box}}
          BY <1>4, <3>2 DEF StopTurn
        <4>3. mailbox[box] \in Seq(Inputs)
          BY <3>2
        <4>4. \A i \in active : Pairs(i, mailbox[box]) \subseteq Turn \X Inputs
          BY <4>3, PairTypes
        <4>5. dropped' \subseteq Turn \X Inputs
          BY <4>2, <4>4
        <4>6. mailbox' \in [Key -> Seq(Inputs)]
          BY <3>1, <4>1
        <4>7. \A k \in Key : Len(mailbox'[k]) <= MaxMailbox
          BY <3>1, <4>1
        <4> QED  BY <4>5, <4>6, <4>7
      <3>3. CASE box \notin Key
        BY <1>4, <3>3 DEF StopTurn
      <3> QED  BY <3>2, <3>3
    <2> QED  BY <1>4, <2>4, <2>5 DEF StopTurn, Turn
  <1>5. CASE NotifyStop \/ Shutdown
    BY <1>5 DEF NotifyStop, Shutdown, Turn
  <1>6. CASE UNCHANGED vars
    BY <1>6 DEF vars, Turn
  <1> QED
    BY <1>1, <1>2, <1>3, <1>4, <1>5, <1>6 DEF Next

\* Every step stays in the types.
LEMMA TypesKept == ASSUME TypeOK, Places, [Next]_vars PROVE TypeOK'
  <1>1. CASE Arrive
    BY <1>1, TypesOfArrivals DEF Arrive
  <1> QED  BY <1>1, TypesOfSteps, TypesOfRequests

--------------------------------------------------------------------------------
(* Where threads are and who owns a session.                                  *)

\* What no user and no shutdown changes.
LEMMA Elsewhere ==
  ASSUME [Next]_vars, ~Arrive, \A i \in Turn : ~Step(i)
  PROVE  UNCHANGED <<who, pc, waiting, owners, late, taken, deferred, rejected, ran>>
  BY DEF Next, vars, threads, owners, steers, fates, host, Steer, StopSession,
     DeleteChat, Discard, GiveUp, StopTurn, NotifyStop, Shutdown

\* A turn keeps its number and its identity.
LEMMA Stable ==
  ASSUME TypeOK, [Next]_vars
  PROVE  Turn \subseteq Turn' /\ \A i \in Turn : Of(i)' = Of(i)
  <1>1. CASE Arrive
    <2>1. PICK i \in 1..MaxTurns, k \in Key, at \in Place : Arrives(i, k, at)
      BY <1>1 DEF Arrive, ArriveTwice, ArriveStopped, ArriveAndBegin,
         ArriveAndWait, Place
    <2> QED  BY <2>1, Arrival
  <1>2. ASSUME NEW i \in Turn, Step(i) PROVE who' = who
    BY <1>2 DEF Step, WakeStopped, WakeAndBegin, WakeAndWait, ConsumeStop, Drain,
       Finish, Defer, DeferFails, SettleRaises, Record, LeaveRefused, Notify, threads
  <1> QED  BY <1>1, <1>2, Elsewhere DEF Turn, Of

\* A newcomer is in the sets that its place is about, and the others stay.
LEMMA PlacesAfterArrival ==
  ASSUME TypeOK, Places, NEW i, NEW k \in Key, NEW at \in {"waiting", "running", "refused"},
         Arrives(i, k, at),
         waiting' = IF at = "waiting" THEN waiting \cup {i} ELSE waiting,
         active' = IF at = "running" THEN active \cup {i} ELSE active,
         ran' = IF at = "running" THEN ran \cup {i} ELSE ran
  PROVE  Places'
  <1>1. waiting \subseteq Turn /\ active \subseteq Turn /\ ran \subseteq Turn
    BY DEF TypeOK
  <1>2. /\ i \notin Turn /\ Turn' = Turn \cup {i} /\ pc'[i] = at
        /\ \A j \in Turn : pc'[j] = pc[j]
    BY Arrival DEF Place
  <1>3. ASSUME NEW j \in Turn'
        PROVE  /\ j \in waiting' <=> pc'[j] = "waiting"
               /\ j \in active' <=> pc'[j] \in {"running", "stopping"}
               /\ j \in ran' => pc'[j] \notin {"waiting", "refused"}
               /\ pc'[j] \in {"running", "stopping", "finishing", "lost"} => j \in ran'
    <2>1. CASE j = i
      BY <1>1, <1>2, <2>1
    <2>2. CASE j # i
      BY <1>2, <2>2 DEF Places
    <2> QED  BY <2>1, <2>2
  <1>4. ran' \subseteq Turn'
    BY <1>1, <1>2
  <1> QED  BY <1>3, <1>4 DEF Places

\* Threads move with the sets they are in.
LEMMA PlacesKept == ASSUME TypeOK, Places, [Next]_vars PROVE Places'
  <1> USE DEF Places
  <1>1. waiting \subseteq Turn /\ active \subseteq Turn /\ ran \subseteq Turn
    BY DEF TypeOK
  <1>2. ASSUME NEW i \in 1..MaxTurns, NEW k \in Key,
               ArriveTwice(i, k) \/ ArriveStopped(i, k)
        PROVE  Places'
    <2>1. Arrives(i, k, "refused") /\ UNCHANGED <<waiting, active, ran>>
      BY <1>2 DEF ArriveTwice, ArriveStopped, owners
    <2> QED  BY <2>1, PlacesAfterArrival
  <1>3. ASSUME NEW i \in 1..MaxTurns, NEW k \in Key, ArriveAndBegin(i, k)
        PROVE  Places'
    <2>1. /\ Arrives(i, k, "running") /\ UNCHANGED waiting
          /\ active' = active \cup {i} /\ ran' = ran \cup {i}
      BY <1>3 DEF ArriveAndBegin
    <2> QED  BY <2>1, PlacesAfterArrival
  <1>4. ASSUME NEW i \in 1..MaxTurns, NEW k \in Key, ArriveAndWait(i, k)
        PROVE  Places'
    <2>1. /\ Arrives(i, k, "waiting") /\ waiting' = waiting \cup {i}
          /\ UNCHANGED <<active, ran>>
      BY <1>4 DEF ArriveAndWait, owners
    <2> QED  BY <2>1, PlacesAfterArrival
  <1>5. ASSUME NEW i \in Turn, WakeStopped(i) PROVE Places'
    <2>1. /\ Goes(i, "refused") /\ who' = who /\ waiting' = waiting \ {i}
          /\ UNCHANGED <<active, ran>> /\ pc[i] = "waiting"
      BY <1>5 DEF WakeStopped, Awake, owners
    <2> QED  BY <1>1, <2>1, Moved DEF Place
  <1>6. ASSUME NEW i \in Turn, WakeAndBegin(i) PROVE Places'
    BY <1>1, <1>6, Moved DEF WakeAndBegin, Place
  <1>7. ASSUME NEW i \in Turn, WakeAndWait(i) \/ Drain(i) \/ Defer(i) \/ DeferFails(i)
        PROVE  Places'
    BY <1>7 DEF WakeAndWait, Drain, Defer, DeferFails, owners, threads, Turn
  <1>8. ASSUME NEW i \in Turn, ConsumeStop(i) PROVE Places'
    BY <1>1, <1>8, Moved DEF ConsumeStop, Place, owners
  <1>9. ASSUME NEW i \in Turn, Finish(i) PROVE Places'
    BY <1>1, <1>9, Moved DEF Finish, Place
  <1>10. ASSUME NEW i \in Turn, SettleRaises(i) PROVE Places'
    BY <1>1, <1>10, Moved DEF SettleRaises, Spilling, Place, owners
  <1>11. ASSUME NEW i \in Turn, Record(i) PROVE Places'
    BY <1>1, <1>11, Moved DEF Record, Place
  <1>12. ASSUME NEW i \in Turn, LeaveRefused(i) \/ Notify(i) PROVE Places'
    BY <1>1, <1>12, Moved DEF LeaveRefused, Notify, Place, owners
  <1>13. CASE ~Arrive /\ \A i \in Turn : ~Step(i)
    BY <1>13, Elsewhere DEF owners, Turn
  <1> QED
    BY <1>2, <1>3, <1>4, <1>5, <1>6, <1>7, <1>8, <1>9, <1>10, <1>11, <1>12,
       <1>13 DEF Arrive, Step

\* A turn that may begin has its session to itself.
LEMMA BeginsAlone ==
  ASSUME Markers, NEW i, NEW k \in Key, MayBegin(i, k)
  PROVE  \A j \in Turn : Owning(j) => Of(j).session # k.session
  BY DEF Markers, MayBegin

\* One owner at a time: who begins finds no marker of its session, and who
\* leaves takes away its own.
LEMMA OwnersKept ==
  ASSUME TypeOK, Places, OneOwner, Markers, [Next]_vars
  PROVE  OneOwner' /\ Markers'
  <1> USE DEF OneOwner, Markers, Owning
  <1>1. active \subseteq Turn
    BY DEF TypeOK
  <1>2. ASSUME NEW i \in 1..MaxTurns, NEW k \in Key, NEW at \in {"refused", "waiting"},
               Arrives(i, k, at), UNCHANGED owners
        PROVE  OneOwner' /\ Markers'
    <2>1. /\ i \notin Turn /\ Turn' = Turn \cup {i} /\ pc'[i] = at
          /\ \A j \in Turn : Of(j)' = Of(j) /\ pc'[j] = pc[j]
      BY <1>2, Arrival DEF Place
    <2>2. at \notin {"running", "stopping", "finishing"}
      OBVIOUS
    <2> QED  BY <1>2, <2>1, <2>2 DEF owners
  <1>3. ASSUME NEW i \in 1..MaxTurns, NEW k \in Key, ArriveAndBegin(i, k)
        PROVE  OneOwner' /\ Markers'
    <2>1. Arrives(i, k, "running")
      BY <1>3 DEF ArriveAndBegin
    <2>2. \A j \in Turn : Owning(j) => Of(j).session # k.session
      BY <1>3, BeginsAlone DEF ArriveAndBegin
    <2>3. exclusive' = exclusive \cup {k} /\ finalizing' = finalizing
      BY <1>3 DEF ArriveAndBegin
    <2>4. /\ i \notin Turn /\ Turn' = Turn \cup {i} /\ pc'[i] = "running"
          /\ Of(i)' = k /\ \A j \in Turn : Of(j)' = Of(j) /\ pc'[j] = pc[j]
      BY <2>1, Arrival DEF Place
    <2>5. \A j \in Turn : Owning(j)' <=> Owning(j)
      BY <2>4
    <2>6. OneOwner'
      BY <2>2, <2>4, <2>5
    <2> QED  BY <2>3, <2>4, <2>6
  <1>4. ASSUME NEW i \in Turn, WakeAndBegin(i) PROVE OneOwner' /\ Markers'
    <2>1. \A j \in Turn : Owning(j) => Of(j).session # Of(i).session
      BY <1>4, Numbered, BeginsAlone DEF WakeAndBegin
    <2>2. /\ Goes(i, "running") /\ who' = who /\ exclusive' = exclusive \cup {Of(i)}
          /\ finalizing' = finalizing \ {Of(i)}
      BY <1>4 DEF WakeAndBegin
    <2> QED  BY <2>1, <2>2, Moved DEF Place
  <1>5. ASSUME NEW i \in Turn, NEW at \in Place,
               Goes(i, at), who' = who, UNCHANGED owners,
               at \in {"running", "stopping", "finishing"} =>
                 Owning(i) /\ (at = "finishing" => pc[i] = "finishing")
        PROVE  OneOwner' /\ Markers'
    BY <1>5, Moved DEF owners
  <1>6. ASSUME NEW i \in Turn, Finish(i) PROVE OneOwner' /\ Markers'
    <2>1. /\ Goes(i, "finishing") /\ who' = who /\ Owning(i)
          /\ finalizing' = finalizing \cup {Of(i)} /\ exclusive' = exclusive
      BY <1>6 DEF Finish
    <2> QED  BY <2>1, Moved DEF Place
  <1>7. ASSUME NEW i \in Turn, Record(i) PROVE OneOwner' /\ Markers'
    <2>1. /\ Goes(i, "leaving") /\ who' = who /\ Owning(i)
          /\ finalizing' = finalizing \ {Of(i)} /\ exclusive' = exclusive \ {Of(i)}
      BY <1>7 DEF Record
    <2> QED  BY <2>1, Moved DEF Place
  <1>8. CASE UNCHANGED <<who, pc, owners>>
    BY <1>8 DEF owners, Turn, Of
  <1>9. ASSUME NEW i \in Turn,
               WakeAndWait(i) \/ Drain(i) \/ Defer(i) \/ DeferFails(i)
        PROVE  UNCHANGED <<who, pc, owners>>
    BY <1>9 DEF WakeAndWait, Drain, Defer, DeferFails, threads
  <1>10. ASSUME NEW i \in Turn, WakeStopped(i) \/ ConsumeStop(i)
                  \/ SettleRaises(i) \/ LeaveRefused(i) \/ Notify(i)
         PROVE  OneOwner' /\ Markers'
    BY <1>5, <1>10 DEF WakeStopped, ConsumeStop, SettleRaises, LeaveRefused,
       Notify, Spilling, Place
  <1>11. ASSUME NEW i \in 1..MaxTurns, NEW k \in Key,
                ArriveTwice(i, k) \/ ArriveStopped(i, k) \/ ArriveAndWait(i, k)
         PROVE  OneOwner' /\ Markers'
    BY <1>2, <1>11 DEF ArriveTwice, ArriveStopped, ArriveAndWait
  <1>12. CASE ~Arrive /\ \A i \in Turn : ~Step(i)
    BY <1>8, <1>12, Elsewhere
  <1> QED
    BY <1>3, <1>4, <1>6, <1>7, <1>8, <1>9, <1>10, <1>11, <1>12 DEF Arrive, Step

--------------------------------------------------------------------------------
(* Order and wake-ups.                                                        *)

\* What an arrival says of the turns, for the steps below.
LEMMA Newcomer ==
  ASSUME TypeOK, NEW i \in 1..MaxTurns, NEW k \in Key,
         \/ ArriveTwice(i, k) \/ ArriveStopped(i, k)
         \/ ArriveAndBegin(i, k) \/ ArriveAndWait(i, k)
  PROVE  /\ i \notin Turn /\ Turn' = Turn \cup {i} /\ \A j \in Turn : j < i
         /\ Of(i)' = k /\ late'[i] = <<>>
         /\ \A j \in Turn : Of(j)' = Of(j) /\ pc'[j] = pc[j] /\ late'[j] = late[j]
  <1>1. PICK at \in Place : Arrives(i, k, at)
    BY DEF ArriveTwice, ArriveStopped, ArriveAndBegin, ArriveAndWait, Place
  <1> QED  BY <1>1, Arrival

\* Who begins has nobody ahead, and who arrives comes last.
LEMMA NoOvertakingKept ==
  ASSUME TypeOK, Places, NoOvertaking, [Next]_vars
  PROVE  NoOvertaking'
  <1> USE DEF NoOvertaking
  <1>1. waiting \subseteq Turn /\ ran \subseteq Turn /\ Turn \subseteq Nat
    BY Numbered DEF TypeOK
  <1>2. ASSUME NEW i \in 1..MaxTurns, NEW k \in Key,
               ArriveTwice(i, k) \/ ArriveStopped(i, k)
        PROVE  NoOvertaking'
    BY <1>1, <1>2, Newcomer DEF ArriveTwice, ArriveStopped
  <1>3. ASSUME NEW i \in 1..MaxTurns, NEW k \in Key, ArriveAndBegin(i, k)
        PROVE  NoOvertaking'
    <2>1. /\ i \notin Turn /\ Turn' = Turn \cup {i} /\ \A j \in Turn : j < i
          /\ Of(i)' = k /\ \A j \in Turn : Of(j)' = Of(j)
      BY <1>3, Newcomer
    <2>2. ran' = ran \cup {i} /\ waiting' = waiting /\ Ahead(i, k.session) = {}
      BY <1>3 DEF ArriveAndBegin, MayBegin
    <2> QED  BY <1>1, <2>1, <2>2 DEF Ahead
  <1>4. ASSUME NEW i \in 1..MaxTurns, NEW k \in Key, ArriveAndWait(i, k)
        PROVE  NoOvertaking'
    <2>1. /\ i \notin Turn /\ Turn' = Turn \cup {i} /\ \A j \in Turn : j < i
          /\ \A j \in Turn : Of(j)' = Of(j)
      BY <1>4, Newcomer
    <2>2. ran' = ran /\ waiting' = waiting \cup {i}
      BY <1>4 DEF ArriveAndWait
    <2> QED  BY <1>1, <2>1, <2>2
  <1>5. ASSUME NEW i \in Turn, WakeAndBegin(i) PROVE NoOvertaking'
    <2>1. /\ ran' = ran \cup {i} /\ waiting' = waiting \ {i} /\ who' = who
          /\ Ahead(i, Of(i).session) = {}
      BY <1>5 DEF WakeAndBegin, MayBegin
    <2> QED  BY <1>1, <2>1 DEF Ahead, Turn, Of
  <1>6. ASSUME NEW i \in Turn, Step(i), ~WakeAndBegin(i)
        PROVE  waiting' \subseteq waiting /\ UNCHANGED <<who, ran>>
    BY <1>6 DEF Step, WakeStopped, WakeAndWait, ConsumeStop, Drain, Finish, Defer,
       DeferFails, SettleRaises, Record, LeaveRefused, Notify, threads
  <1>7. CASE waiting' \subseteq waiting /\ UNCHANGED <<who, ran>>
    BY <1>7 DEF Turn, Of
  <1> QED
    BY <1>2, <1>3, <1>4, <1>5, <1>6, <1>7, Elsewhere DEF Arrive

\* A sleeper that could go on has a notify_all to come.
LEMMA NoLostWakeupKept ==
  ASSUME TypeOK, Places, NoLostWakeup, [Next]_vars
  PROVE  NoLostWakeup'
  <1> USE DEF NoLostWakeup
  <1>1. /\ asleep \subseteq waiting /\ waiting \subseteq Turn /\ active \subseteq Turn
        /\ flagged \subseteq Turn
    BY DEF TypeOK
  <1>2. CASE asleep' = {}
    BY <1>2
  <1>3. ASSUME NEW j \in Turn', pc'[j] \in {"leaving", "refused"}
        PROVE  NoLostWakeup'
    BY <1>3
  <1>4. ASSUME NEW i \in 1..MaxTurns, NEW k \in Key,
               ArriveTwice(i, k) \/ ArriveStopped(i, k)
        PROVE  NoLostWakeup'
    <2>1. Arrives(i, k, "refused")
      BY <1>4 DEF ArriveTwice, ArriveStopped
    <2>2. i \in Turn' /\ pc'[i] = "refused"
      BY <2>1, Arrival DEF Place
    <2> QED  BY <1>3, <2>2
  <1>5. ASSUME NEW i \in 1..MaxTurns, NEW k \in Key, ArriveAndWait(i, k)
        PROVE  NoLostWakeup'
    <2>1. /\ i \notin Turn /\ Turn' = Turn \cup {i} /\ \A j \in Turn : j < i
          /\ Of(i)' = k /\ \A j \in Turn : Of(j)' = Of(j) /\ pc'[j] = pc[j]
      BY <1>5, Newcomer
    <2>2. /\ accepting /\ ~MayBegin(i, k) /\ waiting' = waiting \cup {i}
          /\ asleep' = asleep \cup {i}
          /\ UNCHANGED <<flagged, active, finalizing, exclusive, owed, accepting>>
      BY <1>5 DEF ArriveAndWait, owners, host
    <2>3. KeysOf(active)' = KeysOf(active)
      BY <1>1, <2>1, <2>2 DEF KeysOf
    <2>4. \A j \in Turn \cup {i} : \A s : Ahead(j, s)' = Ahead(j, s)
      BY <1>1, <2>1, <2>2, Numbered DEF Ahead
    <2>5. \A j \in Turn \cup {i} : MayBegin(j, Of(j))' => MayBegin(j, Of(j)')
      BY <2>2, <2>3, <2>4 DEF MayBegin
    <2> QED  BY <1>1, <2>1, <2>2, <2>5
  <1>6. ASSUME NEW i \in Turn, WakeAndWait(i) PROVE NoLostWakeup'
    <2>1. /\ Wanted(i) /\ ~MayBegin(i, Of(i)) /\ asleep' = asleep \cup {i}
          /\ UNCHANGED <<who, pc, waiting, flagged, active, finalizing, exclusive,
                         owed, accepting>>
      BY <1>6 DEF WakeAndWait, owners, host
    <2>2. \A j : MayBegin(j, Of(j))' <=> MayBegin(j, Of(j))
      BY <2>1 DEF MayBegin, Of, KeysOf, Ahead
    <2> QED  BY <2>1, <2>2 DEF Wanted, Turn
  <1>7. ASSUME NEW i \in Turn, Finish(i) PROVE NoLostWakeup'
    <2>1. /\ active' = active \ {i} /\ finalizing' = finalizing \cup {Of(i)}
          /\ pc[i] \notin {"leaving", "refused"} /\ Goes(i, "finishing")
          /\ UNCHANGED <<who, waiting, flagged, asleep, exclusive, owed, accepting>>
      BY <1>7 DEF Finish, host
    <2>2. KeysOf(active) \cup finalizing \subseteq (KeysOf(active) \cup finalizing)'
      BY <2>1 DEF KeysOf, Of
    <2>3. \A j : MayBegin(j, Of(j))' => MayBegin(j, Of(j))
      BY <2>1, <2>2 DEF MayBegin, Of, Ahead
    <2>4. Turn' = Turn /\ \A j \in Turn : j # i => pc'[j] = pc[j]
      BY <2>1, Moved DEF Place
    <2> QED  BY <2>1, <2>3, <2>4
  <1>8. ASSUME NEW i \in Turn, NEW at \in Place, Goes(i, at),
               pc[i] \notin {"leaving", "refused"},
               UNCHANGED <<who, waiting, flagged, asleep, active, finalizing,
                           exclusive, owed, accepting>>
        PROVE  NoLostWakeup'
    <2>1. \A j : MayBegin(j, Of(j))' <=> MayBegin(j, Of(j))
      BY <1>8 DEF MayBegin, Of, KeysOf, Ahead
    <2>2. Turn' = Turn /\ \A j \in Turn : j # i => pc'[j] = pc[j]
      BY <1>8, Moved
    <2> QED  BY <1>8, <2>1, <2>2
  <1>9. ASSUME NEW i \in Turn, ConsumeStop(i) \/ SettleRaises(i)
        PROVE  NoLostWakeup'
    BY <1>8, <1>9 DEF ConsumeStop, SettleRaises, Spilling, Place, owners, host
  <1>10. ASSUME NEW i \in Turn, Record(i) \/ LeaveRefused(i)
         PROVE  NoLostWakeup'
    <2>1. Goes(i, "leaving") /\ who' = who
      BY <1>10 DEF Record, LeaveRefused
    <2>2. i \in Turn' /\ pc'[i] = "leaving"
      BY <2>1, Moved DEF Place
    <2> QED  BY <1>3, <2>2
  <1>11. CASE owed'
    BY <1>11
  <1>12. CASE UNCHANGED <<who, pc, waiting, flagged, asleep, active, finalizing,
                          exclusive, owed, accepting>>
    <2>1. \A j : MayBegin(j, Of(j))' <=> MayBegin(j, Of(j))
      BY <1>12 DEF MayBegin, Of, KeysOf, Ahead
    <2> QED  BY <1>12, <2>1 DEF Turn
  <1>13. ASSUME NEW i \in Turn, WakeStopped(i) \/ WakeAndBegin(i) \/ Notify(i)
         PROVE  asleep' = {}
    BY <1>13 DEF WakeStopped, WakeAndBegin, Notify
  <1>14. ASSUME NEW i \in Turn, Drain(i) \/ Defer(i) \/ DeferFails(i)
         PROVE  NoLostWakeup'
    BY <1>12, <1>14 DEF Drain, Defer, DeferFails, threads, owners, host
  <1>15. ASSUME NEW s \in Sessions, StopSession(s) \/ DeleteChat(s)
         PROVE  owed'
    BY <1>15 DEF StopSession, DeleteChat, MarkSession, Mark
  <1>16. ASSUME NEW t \in Target, StopTurn(t) PROVE owed'
    BY <1>16 DEF StopTurn, Mark
  <1>17. ASSUME NEW s \in Sessions, Discard(s) \/ GiveUp(s)
         PROVE  NoLostWakeup'
    BY <1>12, <1>17 DEF Discard, GiveUp, threads, owners
  <1>18. ASSUME NEW k \in Key, NEW x \in Inputs, Steer(k, x)
         PROVE  NoLostWakeup'
    BY <1>12, <1>18 DEF Steer, threads, owners, host
  <1>19. CASE NotifyStop \/ Shutdown
    BY <1>2, <1>19 DEF NotifyStop, Shutdown
  <1>20. CASE UNCHANGED vars
    BY <1>12, <1>20 DEF vars, threads, owners, host
  <1>21. ASSUME NEW i \in 1..MaxTurns, NEW k \in Key, ArriveAndBegin(i, k)
         PROVE  asleep' = {}
    BY <1>21 DEF ArriveAndBegin
  <1> QED
    BY <1>2, <1>4, <1>5, <1>6, <1>7, <1>9, <1>10, <1>11, <1>13, <1>14, <1>15,
       <1>16, <1>17, <1>18, <1>19, <1>20, <1>21 DEF Next, Arrive, Step

--------------------------------------------------------------------------------
(* Stops.                                                                     *)

\* A turn that was stopped while it waited does not run.
LEMMA StoppedStayOut ==
  ASSUME TypeOK, Places, flagged \cap ran = {}, [Next]_vars
  PROVE  (flagged \cap ran)' = {}
  <1>1. /\ waiting \subseteq Turn /\ flagged \subseteq Turn /\ ran \subseteq Turn
        /\ waiting \cap ran = {}
    BY DEF TypeOK, Places
  <1>2. ASSUME NEW i \in 1..MaxTurns, NEW k \in Key,
               \/ ArriveTwice(i, k) \/ ArriveStopped(i, k)
               \/ ArriveAndBegin(i, k) \/ ArriveAndWait(i, k)
        PROVE  (flagged \cap ran)' = {}
    BY <1>1, <1>2, Newcomer DEF ArriveTwice, ArriveStopped, ArriveAndBegin,
       ArriveAndWait
  <1>3. ASSUME NEW i \in Turn, WakeAndBegin(i) PROVE (flagged \cap ran)' = {}
    BY <1>3 DEF WakeAndBegin, Wanted
  <1>4. ASSUME NEW i \in Turn, Step(i), ~WakeAndBegin(i)
        PROVE  UNCHANGED <<flagged, ran>>
    BY <1>4 DEF Step, WakeStopped, WakeAndWait, ConsumeStop, Drain, Finish, Defer,
       DeferFails, SettleRaises, Record, LeaveRefused, Notify, threads
  <1>5. CASE ~Arrive /\ \A i \in Turn : ~Step(i)
    <2>1. flagged' \subseteq flagged \cup waiting
      BY <1>5 DEF Next, vars, threads, Steer, StopSession, DeleteChat, MarkSession,
         Mark, Discard, GiveUp, StopTurn, NotifyStop, Shutdown
    <2> QED  BY <1>1, <1>5, <2>1, Elsewhere
  <1> QED
    BY <1>2, <1>3, <1>4, <1>5 DEF Arrive

\* A stop that is kept and names a turn was meant for it: requests name it, and
\* a full identity is its own.
LEMMA KeptStopIsMeant ==
  ASSUME TypeOK, StopsAreMeant, NEW i \in Nat \ {0}, NEW k \in Key,
         i \in Turn => k = Of(i), NEW t \in cancelled, Names(t, i, k)
  PROVE  \E u \in asked : Names(u, i, k)
  <1>1. CASE t \in asked
    BY <1>1
  <1>2. ASSUME NEW j \in Turn, t = Exactly(j, Of(j)), Meant(j)
        PROVE  \E u \in asked : Names(u, i, k)
    <2>1. Turn \subseteq Nat \ {0} /\ i = j
      BY <1>2, Numbered DEF Names, Exactly
    <2> QED  BY <1>2, <2>1 DEF Meant
  <1> QED  BY <1>1, <1>2 DEF StopsAreMeant

\* A turn that was named stays named.
LEMMA MeantStays ==
  ASSUME TypeOK, [Next]_vars, asked \subseteq asked', NEW i \in Turn, Meant(i)
  PROVE  Meant(i)'
  BY Stable DEF Meant, Names

\* Requests are not forgotten.
LEMMA AskedGrows == ASSUME [Next]_vars PROVE asked \subseteq asked'
  <1>1. CASE Arrive
    BY <1>1 DEF Arrive, ArriveTwice, ArriveStopped, ArriveAndBegin, ArriveAndWait, past
  <1>2. ASSUME NEW i \in Turn, Step(i) PROVE UNCHANGED past
    BY <1>2 DEF Step, WakeStopped, WakeAndBegin, WakeAndWait, ConsumeStop, Drain,
       Finish, Defer, DeferFails, SettleRaises, Record, LeaveRefused, Notify
  <1>3. CASE ~Arrive /\ \A i \in Turn : ~Step(i)
    BY <1>3 DEF Next, vars, past, Steer, StopSession, DeleteChat, MarkSession, Mark,
       Discard, GiveUp, StopTurn, NotifyStop, Shutdown
  <1> QED  BY <1>1, <1>2, <1>3 DEF past

\* Marking a stop for turns that the request names leaves every stop meant.
LEMMA MarkIsMeant ==
  ASSUME TypeOK, StopsAreMeant, [Next]_vars, UNCHANGED <<who, pc>>,
         NEW t, NEW hit \in SUBSET Turn, \A i \in hit : Names(t, i, Of(i)),
         Mark(t, IF hit = {} THEN {t} ELSE {Exactly(i, Of(i)) : i \in hit}, hit)
  PROVE  StopsAreMeant'
  <1>1. /\ asked' = asked \cup {t} /\ flagged' = flagged \cup (hit \cap waiting)
        /\ cancelled' = cancelled \cup
             IF hit = {} THEN {t} ELSE {Exactly(i, Of(i)) : i \in hit}
    BY DEF Mark
  <1>2. Turn' = Turn /\ \A i : Of(i)' = Of(i) /\ Exactly(i, Of(i))' = Exactly(i, Of(i))
    BY DEF Turn, Of, Exactly
  <1>3. \A i : Meant(i) => Meant(i)'
    BY <1>1, <1>2 DEF Meant, Names
  <1>4. \A i \in hit : Meant(i)'
    BY <1>1, <1>2 DEF Meant, Names
  <1>5. \A u \in cancelled' : \/ u \in asked'
                              \/ \E i \in Turn : u = Exactly(i, Of(i)) /\ Meant(i)'
    BY <1>1, <1>3, <1>4 DEF StopsAreMeant
  <1>6. \A i \in Turn : i \in flagged' \/ pc'[i] = "stopping" => Meant(i)'
    BY <1>1, <1>3, <1>4 DEF StopsAreMeant
  <1> QED  BY <1>2, <1>5, <1>6 DEF StopsAreMeant

\* A stop is for turns that a request names.
LEMMA StopsAreMeantKept ==
  ASSUME TypeOK, StopsAreMeant, [Next]_vars
  PROVE  StopsAreMeant'
  <1>1. /\ \A i \in Turn : Meant(i) => Meant(i)'
        /\ Turn \subseteq Turn' /\ \A i \in Turn : Of(i)' = Of(i)
        /\ asked \subseteq asked'
    BY AskedGrows, MeantStays, Stable
  <1>2. \A t \in cancelled : \/ t \in asked'
                             \/ \E i \in Turn' : t = Exactly(i, Of(i)') /\ Meant(i)'
    BY <1>1 DEF StopsAreMeant
  <1>3. ASSUME cancelled' \subseteq cancelled,
               \A i \in Turn' : i \in flagged' \/ pc'[i] = "stopping" =>
                 Meant(i)' \/ (i \in Turn /\ (i \in flagged \/ pc[i] = "stopping"))
        PROVE  StopsAreMeant'
    BY <1>1, <1>2, <1>3 DEF StopsAreMeant, Exactly
  <1>4. ASSUME NEW i \in 1..MaxTurns, NEW k \in Key, NEW at \in Place \ {"stopping"},
               Arrives(i, k, at), cancelled' \subseteq cancelled, flagged' = flagged
        PROVE  StopsAreMeant'
    <2>1. /\ Turn' = Turn \cup {i} /\ i \notin Turn /\ pc'[i] = at
          /\ \A j \in Turn : pc'[j] = pc[j]
      BY <1>4, Arrival
    <2> QED  BY <1>3, <1>4, <2>1 DEF TypeOK
  <1>5. ASSUME NEW i \in 1..MaxTurns, NEW k \in Key,
               ArriveTwice(i, k) \/ ArriveAndBegin(i, k) \/ ArriveAndWait(i, k)
        PROVE  StopsAreMeant'
    BY <1>4, <1>5 DEF ArriveTwice, ArriveAndBegin, ArriveAndWait, Place
  <1>6. ASSUME NEW i \in 1..MaxTurns, NEW k \in Key, ArriveStopped(i, k)
        PROVE  StopsAreMeant'
    <2>1. Arrives(i, k, "refused") /\ cancelled' \subseteq cancelled
      BY <1>6 DEF ArriveStopped
    <2>2. /\ i \in Nat \ {0} /\ Turn' = Turn \cup {i} /\ i \notin Turn
          /\ pc'[i] = "refused" /\ Of(i)' = k /\ \A j \in Turn : pc'[j] = pc[j]
      BY <2>1, Arrival DEF Place
    <2>3. StopsFor(i, k) # {} => \E u \in asked : Names(u, i, k)
      BY <2>2, KeptStopIsMeant DEF StopsFor
    <2>4. StopsFor(i, k) # {} => Meant(i)'
      BY <1>1, <2>2, <2>3 DEF Meant, Names
    <2>5. \A j \in Turn' : j \in flagged' => (Meant(i)' /\ j = i) \/ j \in flagged
      BY <1>6, <2>4 DEF ArriveStopped
    <2> QED  BY <1>3, <2>1, <2>2, <2>5 DEF TypeOK
  <1>7. ASSUME NEW i \in Turn, ConsumeStop(i) PROVE StopsAreMeant'
    <2>1. /\ StopsFor(i, Of(i)) # {} /\ Goes(i, "stopping") /\ who' = who
          /\ flagged' = flagged /\ cancelled' \subseteq cancelled
      BY <1>7 DEF ConsumeStop
    <2>2. i \in Nat \ {0} /\ Of(i) \in Key
      BY Numbered
    <2>3. Meant(i)
      BY <2>1, <2>2, KeptStopIsMeant DEF StopsFor, Meant
    <2>4. Turn' = Turn /\ \A j \in Turn : j # i => pc'[j] = pc[j]
      BY <2>1, Moved DEF Place
    <2> QED  BY <1>1, <1>3, <2>1, <2>3, <2>4
  <1>8. ASSUME NEW i \in Turn, NEW at \in Place \ {"stopping"}, Goes(i, at),
               cancelled' \subseteq cancelled, flagged' = flagged, who' = who
        PROVE  StopsAreMeant'
    <2>1. /\ Turn' = Turn /\ pc'[i] = at
          /\ \A j \in Turn : j # i => pc'[j] = pc[j]
      BY <1>8, Moved
    <2> QED  BY <1>3, <1>8, <2>1
  <1>9. ASSUME NEW i \in Turn, \/ WakeStopped(i) \/ WakeAndBegin(i) \/ Finish(i)
                               \/ SettleRaises(i) \/ Record(i) \/ LeaveRefused(i)
                               \/ Notify(i)
        PROVE  StopsAreMeant'
    BY <1>8, <1>9 DEF WakeStopped, WakeAndBegin, Finish, SettleRaises, Record,
       LeaveRefused, Notify, Place
  <1>10. CASE UNCHANGED <<who, pc, flagged>> /\ cancelled' \subseteq cancelled
    BY <1>3, <1>10 DEF Turn
  <1>11. ASSUME NEW i \in Turn,
                WakeAndWait(i) \/ Drain(i) \/ Defer(i) \/ DeferFails(i)
         PROVE  StopsAreMeant'
    BY <1>10, <1>11 DEF WakeAndWait, Drain, Defer, DeferFails, threads
  <1>12. Admitted \subseteq Turn
    BY DEF Admitted, TypeOK
  <1>13. ASSUME NEW s \in Sessions, StopSession(s) \/ DeleteChat(s)
         PROVE  StopsAreMeant'
    <2> DEFINE hit == {i \in Admitted : Of(i).session = s}
               all == [session |-> s, turn |-> 0, client |-> None]
    <2>1. hit \in SUBSET Turn /\ \A i \in hit : Names(all, i, Of(i))
      BY <1>12 DEF Names
    <2>2. /\ UNCHANGED <<who, pc>>
          /\ Mark(all, IF hit = {} THEN {all} ELSE {Exactly(i, Of(i)) : i \in hit}, hit)
      BY <1>13 DEF StopSession, DeleteChat, MarkSession
    <2> HIDE DEF hit, all
    <2> QED  BY <2>1, <2>2, MarkIsMeant
  <1>14. ASSUME NEW t \in Target, StopTurn(t) PROVE StopsAreMeant'
    <2> DEFINE hit == Matching(t)
    <2>1. hit \in SUBSET Turn /\ \A i \in hit : Names(t, i, Of(i))
      BY <1>12 DEF Matching
    <2>2. /\ UNCHANGED <<who, pc>>
          /\ Mark(t, IF hit = {} THEN {t} ELSE {Exactly(i, Of(i)) : i \in hit}, hit)
      BY <1>14 DEF StopTurn
    <2> HIDE DEF hit
    <2> QED  BY <2>1, <2>2, MarkIsMeant
  <1>15. ASSUME NEW s \in Sessions, Discard(s) \/ GiveUp(s) PROVE StopsAreMeant'
    BY <1>10, <1>15 DEF Discard, GiveUp, threads
  <1>16. ASSUME NEW k \in Key, NEW x \in Inputs, Steer(k, x) PROVE StopsAreMeant'
    BY <1>10, <1>16 DEF Steer, threads
  <1>17. CASE NotifyStop \/ Shutdown \/ UNCHANGED vars
    BY <1>10, <1>17 DEF NotifyStop, Shutdown, vars, threads
  <1> QED
    BY <1>5, <1>6, <1>7, <1>9, <1>11, <1>13, <1>14, <1>15, <1>16, <1>17
    DEF Next, Arrive, Step

--------------------------------------------------------------------------------
(* Steers.                                                                    *)

\* No two active turns have the same identity.
LEMMA OneOfAKey ==
  ASSUME TypeOK, Places, OneOwner, NEW i \in active, NEW j \in active, Of(i) = Of(j)
  PROVE  i = j
  BY DEF TypeOK, Places, OneOwner, Owning

\* Steps that leave input where it is: no turn begins or finishes.
InputRests == UNCHANGED <<active, mailbox, seen, taken, deferred, rejected, accepted,
                          dropped>>

\* Which steps leave input where it is, and how they move the thread.
LEMMA RestingSteps ==
  ASSUME TypeOK, Places, NEW i \in Turn, Step(i),
         ~WakeAndBegin(i), ~Drain(i), ~Finish(i), ~Defer(i), ~DeferFails(i),
         ~SettleRaises(i)
  PROVE  /\ InputRests /\ UNCHANGED <<who, late>> /\ ran' = ran
         /\ \A j \in Turn : j # i => pc'[j] = pc[j]
         /\ late[i] # <<>> => pc'[i] = pc[i] \/ pc[i] \notin {"finishing", "lost"}
  <1>1. pc' = pc \/ \E at \in Place : Goes(i, at)
    BY DEF Step, WakeStopped, WakeAndWait, ConsumeStop, Record, LeaveRefused, Notify,
       Place
  <1>2. \A j \in Turn : j # i => pc'[j] = pc[j]
    BY <1>1 DEF Goes, TypeOK
  <1>3. late[i] # <<>> => pc'[i] = pc[i] \/ pc[i] \notin {"finishing", "lost"}
    BY DEF Step, WakeStopped, WakeAndWait, ConsumeStop, Record, LeaveRefused, Notify,
       Awake
  <1> QED
    BY <1>2, <1>3 DEF Step, WakeStopped, WakeAndWait, ConsumeStop, Record,
       LeaveRefused, Notify, InputRests, owners, steers, fates

\* Which of the other steps do.
LEMMA RestingRequests ==
  ASSUME [Next]_vars, ~Arrive, \A i \in Turn : ~Step(i),
         \A k \in Key, x \in Inputs : ~Steer(k, x), \A t \in Target : ~StopTurn(t)
  PROVE  InputRests
  BY DEF Next, vars, InputRests, owners, steers, fates, StopSession, DeleteChat,
     Discard, GiveUp, NotifyStop, Shutdown

\* What a stop of one turn does to its mailbox: all of it is dropped.
LEMMA StopDrops ==
  ASSUME TypeOK, NEW t \in Target, StopTurn(t)
  PROVE  /\ UNCHANGED <<who, pc, active, late, seen, taken, deferred, rejected,
                        accepted, ran>>
         /\ dropped \subseteq dropped' /\ mailbox' \in [Key -> Seq(Inputs)]
         /\ \A k \in Key :
              \/ mailbox'[k] = mailbox[k]
              \/ /\ mailbox'[k] = <<>>
                 /\ \A i \in active : Of(i) = k => Pairs(i, mailbox[k]) \subseteq dropped'
  <1> DEFINE box == [session |-> t.session, client |-> t.client]
  <1>1. UNCHANGED <<who, pc, active, late, seen, taken, deferred, rejected, accepted, ran>>
    BY DEF StopTurn, owners
  <1>2. mailbox \in [Key -> Seq(Inputs)] /\ <<>> \in Seq(Inputs)
    BY EmptySeq DEF TypeOK
  <1>3. CASE box \in Key
    <2>1. mailbox' = [mailbox EXCEPT ![box] = <<>>]
      BY <1>3 DEF StopTurn
    <2>2. dropped' = dropped \cup UNION {Pairs(i, mailbox[box]) :
                                           i \in {j \in active : Of(j) = box}}
      BY <1>3 DEF StopTurn
    <2>3. \A i \in active : Of(i) = box => Pairs(i, mailbox[box]) \subseteq dropped'
      BY <2>2
    <2>4. /\ mailbox' \in [Key -> Seq(Inputs)] /\ mailbox'[box] = <<>>
          /\ \A k \in Key : k # box => mailbox'[k] = mailbox[k]
      BY <1>2, <1>3, <2>1
    <2> HIDE DEF box
    <2> QED  BY <1>1, <2>2, <2>3, <2>4
  <1>4. CASE box \notin Key
    BY <1>1, <1>2, <1>4 DEF StopTurn
  <1> QED  BY <1>3, <1>4

\* A steer goes to the active turn it is for, and to its mailbox alone.
LEMMA SteerAdds ==
  ASSUME TypeOK, NEW k \in Key, NEW x \in Inputs, Steer(k, x)
  PROVE  \E i \in active :
           /\ Of(i) = k /\ x \notin seen[k] /\ mailbox[k] \in Seq(Inputs)
           /\ mailbox'[k] = Append(mailbox[k], x) /\ seen'[k] = seen[k] \cup {x}
           /\ \A l \in Key : l # k => mailbox'[l] = mailbox[l] /\ seen'[l] = seen[l]
           /\ accepted' = accepted \cup {<<i, x>>}
           /\ UNCHANGED <<who, pc, active, late, taken, deferred, rejected, dropped, ran>>
  BY DEF TypeOK, Steer, IsNew, threads, owners

\* Mailboxes are filled for active turns, with what was not seen before.
LEMMA MailboxesKept ==
  ASSUME TypeOK, Places, OneOwner, Mailboxes, [Next]_vars
  PROVE  Mailboxes'
  <1> USE DEF Mailboxes
  <1>1. /\ active \subseteq Turn /\ \A i \in Turn : Of(i) \in Key
        /\ \A i \in Turn : Of(i)' = Of(i)
        /\ mailbox \in [Key -> Seq(Inputs)] /\ seen \in [Key -> SUBSET Inputs]
    BY Numbered, Stable DEF TypeOK
  <1>2. CASE active \subseteq active' /\ UNCHANGED <<mailbox, seen>>
    BY <1>1, <1>2
  <1>3. CASE Arrive
    BY <1>2, <1>3 DEF Arrive, ArriveTwice, ArriveStopped, ArriveAndBegin,
       ArriveAndWait, owners
  <1>4. ASSUME NEW i \in Turn, Drain(i) PROVE Mailboxes'
    <2>1. /\ mailbox' = [mailbox EXCEPT ![Of(i)] = <<>>]
          /\ UNCHANGED <<active, seen>>
      BY <1>4 DEF Drain, owners
    <2> QED  BY <1>1, <2>1, EntriesOfEmpty
  <1>5. ASSUME NEW i \in Turn, Finish(i) PROVE Mailboxes'
    <2>1. /\ active' = active \ {i} /\ mailbox' = [mailbox EXCEPT ![Of(i)] = <<>>]
          /\ seen' = [seen EXCEPT ![Of(i)] = {}]
      BY <1>5 DEF Finish
    <2>2. ASSUME NEW k \in Key
          PROVE  /\ Entries(mailbox'[k]) \subseteq seen'[k] /\ Distinct(mailbox'[k])
                 /\ seen'[k] # {} => \E j \in active' : Of(j)' = k
      BY <1>1, <2>1, EntriesOfEmpty
    <2> QED  BY <2>2
  <1>6. ASSUME NEW i \in Turn, Step(i), ~Drain(i), ~Finish(i)
        PROVE  Mailboxes'
    BY <1>2, <1>6 DEF Step, WakeStopped, WakeAndBegin, WakeAndWait, ConsumeStop, Defer,
       DeferFails, SettleRaises, Record, LeaveRefused, Notify, owners, steers
  <1>7. ASSUME NEW k \in Key, NEW x \in Inputs, Steer(k, x) PROVE Mailboxes'
    <2>1. PICK i \in active :
            /\ Of(i) = k /\ x \notin seen[k] /\ mailbox[k] \in Seq(Inputs)
            /\ mailbox'[k] = Append(mailbox[k], x) /\ seen'[k] = seen[k] \cup {x}
            /\ \A l \in Key : l # k => mailbox'[l] = mailbox[l] /\ seen'[l] = seen[l]
            /\ active' = active
      BY <1>7, SteerAdds
    <2>2. /\ Entries(mailbox'[k]) = Entries(mailbox[k]) \cup {x}
          /\ x \notin Entries(mailbox[k]) /\ Distinct(mailbox[k])
               => Distinct(mailbox'[k])
      BY <2>1, EntriesOfAppend
    <2>3. ASSUME NEW l \in Key
          PROVE  /\ Entries(mailbox'[l]) \subseteq seen'[l] /\ Distinct(mailbox'[l])
                 /\ seen'[l] # {} => \E j \in active' : Of(j)' = l
      <3>1. CASE l = k
        BY <1>1, <2>1, <2>2, <3>1
      <3>2. CASE l # k
        BY <1>1, <2>1, <3>2
      <3> QED  BY <3>1, <3>2
    <2> QED  BY <2>3
  <1>8. ASSUME NEW t \in Target, StopTurn(t) PROVE Mailboxes'
    <2>1. /\ UNCHANGED <<active, seen>>
          /\ \A k \in Key : mailbox'[k] = mailbox[k] \/ mailbox'[k] = <<>>
      BY <1>8, StopDrops
    <2> QED  BY <1>1, <2>1, EntriesOfEmpty
  <1>9. ASSUME ~Arrive, \A i \in Turn : ~Step(i),
               \A k \in Key, x \in Inputs : ~Steer(k, x),
               \A t \in Target : ~StopTurn(t)
        PROVE  Mailboxes'
    BY <1>2, <1>9, RestingRequests DEF InputRests
  <1> QED  BY <1>3, <1>4, <1>5, <1>6, <1>7, <1>8, <1>9

\* What a late steer's end does: its head leaves, for the follow-ups or the
\* answer.
LEMMA SpillMoves ==
  ASSUME TypeOK, NEW i \in Turn, Defer(i) \/ DeferFails(i) \/ SettleRaises(i)
  PROVE  /\ late[i] \in Seq(Inputs) /\ late[i] # <<>> /\ pc[i] = "finishing"
         /\ Head(late[i]) \in Inputs /\ pc'[i] \in {"finishing", "lost"}
         /\ Entries(late[i]) = Entries(late'[i]) \cup {Head(late[i])}
         /\ \A j \in Turn : j # i => late'[j] = late[j] /\ pc'[j] = pc[j]
         /\ deferred' \cup rejected' = deferred \cup rejected \cup {<<i, Head(late[i])>>}
         /\ UNCHANGED <<who, active, mailbox, seen, accepted, taken, dropped, ran>>
  <1>1. late[i] \in Seq(Inputs) /\ late[i] # <<>> /\ pc[i] = "finishing"
    BY DEF Defer, DeferFails, SettleRaises, Spilling, TypeOK
  <1>2. late' = [late EXCEPT ![i] = Tail(@)]
    BY DEF Defer, DeferFails, SettleRaises, Spilt
  <1>3. late'[i] = Tail(late[i]) /\ \A j \in Turn : j # i => late'[j] = late[j]
    BY <1>2 DEF TypeOK
  <1>4. Head(late[i]) \in Inputs
    BY <1>1, EntriesOfTail
  <1>5. Entries(late[i]) = Entries(late'[i]) \cup {Head(late[i])}
    BY <1>1, <1>3, EntriesOfTail
  <1>6. pc'[i] \in {"finishing", "lost"} /\ \A j \in Turn : j # i => pc'[j] = pc[j]
    BY <1>1 DEF Defer, DeferFails, SettleRaises, Goes, TypeOK, threads
  <1>7. deferred' \cup rejected' = deferred \cup rejected \cup {<<i, Head(late[i])>>}
    BY DEF Defer, DeferFails, SettleRaises
  <1>8. UNCHANGED <<who, active, mailbox, seen, accepted, taken, dropped, ran>>
    BY DEF Defer, DeferFails, SettleRaises, threads, owners
  <1> QED  BY <1>1, <1>3, <1>4, <1>5, <1>6, <1>7, <1>8

\* What finishing does: the mailbox becomes the late input of the turn.
LEMMA FinishMoves ==
  ASSUME TypeOK, NEW i \in Turn, Finish(i)
  PROVE  /\ late'[i] = mailbox[Of(i)] /\ active' = active \ {i}
         /\ pc'[i] = "finishing" /\ i \notin active'
         /\ \A j \in Turn : j # i => late'[j] = late[j] /\ pc'[j] = pc[j]
         /\ \A k \in Key : k # Of(i) => mailbox'[k] = mailbox[k] /\ seen'[k] = seen[k]
         /\ UNCHANGED <<who, accepted, taken, deferred, rejected, dropped, ran>>
  BY DEF Finish, Undrained, Goes, TypeOK, fates

\* What draining does: the mailbox is taken in.
LEMMA DrainMoves ==
  ASSUME TypeOK, NEW i \in Turn, Drain(i)
  PROVE  /\ pc[i] = "running" /\ mailbox'[Of(i)] = <<>>
         /\ \A k \in Key : k # Of(i) => mailbox'[k] = mailbox[k]
         /\ taken' = taken \cup {<<i, x>> : x \in Entries(mailbox[Of(i)])}
         /\ UNCHANGED <<who, pc, active, seen, late, accepted, deferred, rejected,
                        dropped, ran>>
  <1>1. Of(i) \in Key
    BY Numbered
  <1> QED  BY <1>1, PairsAreEntries DEF Drain, TypeOK, threads, owners

\* What beginning does: the turn becomes active, and had no input before.
LEMMA BeginMoves ==
  ASSUME TypeOK, Places, FatesAreOfTurns, NEW i \in Turn, WakeAndBegin(i)
  PROVE  /\ active' = active \cup {i} /\ ran' = ran \cup {i} /\ late[i] = <<>>
         /\ pc'[i] = "running" /\ \A j \in Turn : j # i => pc'[j] = pc[j]
         /\ \A x \in Inputs : <<i, x>> \notin accepted \cup taken \cup deferred
                                               \cup rejected
         /\ UNCHANGED <<who, mailbox, seen, late, accepted, taken, deferred, rejected,
                        dropped>>
  <1>1. pc[i] = "waiting" /\ i \notin ran
    BY DEF WakeAndBegin, Awake, Places
  <1> QED  BY <1>1 DEF WakeAndBegin, Goes, TypeOK, FatesAreOfTurns, steers, fates

\* What an arrival does: a turn that had no input, perhaps active.
LEMMA ArrivalMoves ==
  ASSUME TypeOK, NEW i \in 1..MaxTurns, NEW k \in Key,
         \/ ArriveTwice(i, k) \/ ArriveStopped(i, k)
         \/ ArriveAndBegin(i, k) \/ ArriveAndWait(i, k)
  PROVE  /\ Turn' = Turn \cup {i} /\ i \notin Turn /\ late'[i] = <<>>
         /\ \A j \in Turn : late'[j] = late[j] /\ pc'[j] = pc[j] /\ Of(j)' = Of(j)
         /\ active \subseteq active' /\ active' \subseteq active \cup {i}
         /\ ran \subseteq ran'
         /\ UNCHANGED <<mailbox, seen, accepted, taken, deferred, rejected, dropped>>
         /\ \A x : <<i, x>> \notin accepted \cup taken \cup deferred \cup rejected
  <1>1. \A x : <<i, x>> \notin accepted \cup taken \cup deferred \cup rejected
    BY Newcomer, FateTypes
  <1> QED
    BY <1>1, Newcomer DEF ArriveTwice, ArriveStopped, ArriveAndBegin, ArriveAndWait,
       owners, fates

\* What is taken in is not taken in again.
LEMMA TakenOnceKept ==
  ASSUME TypeOK, Places, OneOwner, Mailboxes, TakenOnce, FatesAreOfTurns, [Next]_vars
  PROVE  TakenOnce'
  <1> USE DEF TakenOnce
  <1>1. /\ active \subseteq Turn /\ \A i \in Turn : Of(i) \in Key
        /\ \A i \in Turn : Of(i)' = Of(i)
        /\ \A i \in active, j \in active : Of(i) = Of(j) => i = j
        /\ \A i \in active : late[i] = <<>>
    BY Numbered, Stable, OneOfAKey DEF TypeOK, Places, FatesAreOfTurns
  <1>2. ASSUME NEW i \in 1..MaxTurns, NEW k \in Key,
               \/ ArriveTwice(i, k) \/ ArriveStopped(i, k)
               \/ ArriveAndBegin(i, k) \/ ArriveAndWait(i, k)
        PROVE  TakenOnce'
    BY <1>1, <1>2, ArrivalMoves, EntriesOfEmpty
  <1>3. CASE InputRests /\ UNCHANGED <<who, late>>
    BY <1>1, <1>3 DEF InputRests, Turn
  <1>4. ASSUME NEW i \in Turn, WakeAndBegin(i) PROVE TakenOnce'
    BY <1>1, <1>4, BeginMoves DEF Turn
  <1>5. ASSUME NEW i \in Turn, Drain(i) PROVE TakenOnce'
    <2>1. i \in active
      BY <1>5, DrainMoves DEF Places
    <2>2. Entries(mailbox[Of(i)]) \subseteq seen[Of(i)]
      BY <1>1 DEF Mailboxes
    <2>3. /\ mailbox'[Of(i)] = <<>>
          /\ \A k \in Key : k # Of(i) => mailbox'[k] = mailbox[k]
          /\ taken' = taken \cup {<<i, x>> : x \in Entries(mailbox[Of(i)])}
          /\ UNCHANGED <<who, active, seen, late>>
      BY <1>5, DrainMoves
    <2>4. ASSUME NEW j \in active, NEW x \in Inputs, <<j, x>> \in taken'
          PROVE  x \in seen[Of(j)] /\ x \notin Entries(mailbox'[Of(j)])
      BY <1>1, <2>1, <2>2, <2>3, <2>4, EntriesOfEmpty
    <2>5. ASSUME NEW j \in Turn, NEW x \in Entries(late[j])
          PROVE  <<j, x>> \notin taken'
      <3>1. j # i
        BY <1>1, <2>1, EntriesOfEmpty
      <3> QED  BY <2>3, <3>1
    <2> QED  BY <1>1, <2>3, <2>4, <2>5 DEF Turn
  <1>6. ASSUME NEW i \in Turn, Finish(i) PROVE TakenOnce'
    <2>1. i \in active
      BY <1>6 DEF Finish, Places
    <2>2. \A x \in Entries(mailbox[Of(i)]) : x \in Inputs
      BY <1>1, EntriesAreElements DEF TypeOK
    <2>3. \A x \in Entries(late'[i]) : <<i, x>> \notin taken
      BY <1>6, <2>1, <2>2, FinishMoves
    <2>4. \A j \in active' : j \in active /\ Of(j) # Of(i)
      BY <1>1, <1>6, <2>1, FinishMoves
    <2>5. /\ \A j \in Turn : j # i => late'[j] = late[j]
          /\ \A k \in Key : k # Of(i) => mailbox'[k] = mailbox[k] /\ seen'[k] = seen[k]
          /\ UNCHANGED <<who, taken>>
      BY <1>6, FinishMoves
    <2>6. ASSUME NEW j \in active', NEW x \in Inputs, <<j, x>> \in taken
          PROVE  x \in seen'[Of(j)] /\ x \notin Entries(mailbox'[Of(j)])
      BY <1>1, <2>4, <2>5, <2>6
    <2>7. \A j \in Turn : \A x \in Entries(late'[j]) : <<j, x>> \notin taken
      BY <2>3, <2>5
    <2> QED  BY <1>1, <2>4, <2>5, <2>6, <2>7 DEF Turn
  <1>7. ASSUME NEW i \in Turn, Defer(i) \/ DeferFails(i) \/ SettleRaises(i)
        PROVE  TakenOnce'
    <2>1. \A j \in Turn : Entries(late'[j]) \subseteq Entries(late[j])
      BY <1>7, SpillMoves
    <2>2. UNCHANGED <<who, active, mailbox, seen, taken>>
      BY <1>7, SpillMoves
    <2> QED  BY <1>1, <2>1, <2>2 DEF Turn
  <1>8. ASSUME NEW k \in Key, NEW x \in Inputs, Steer(k, x) PROVE TakenOnce'
    <2>1. PICK i \in active :
            /\ Of(i) = k /\ x \notin seen[k] /\ mailbox[k] \in Seq(Inputs)
            /\ mailbox'[k] = Append(mailbox[k], x) /\ seen'[k] = seen[k] \cup {x}
            /\ \A l \in Key : l # k => mailbox'[l] = mailbox[l] /\ seen'[l] = seen[l]
            /\ UNCHANGED <<who, active, late, taken>>
      BY <1>8, SteerAdds
    <2>2. Entries(mailbox'[k]) = Entries(mailbox[k]) \cup {x}
      BY <2>1, EntriesOfAppend
    <2>3. \A y \in Inputs : <<i, y>> \in taken => y # x
      BY <2>1
    <2>4. ASSUME NEW j \in active, NEW y \in Inputs, <<j, y>> \in taken
          PROVE  y \in seen'[Of(j)] /\ y \notin Entries(mailbox'[Of(j)])
      BY <1>1, <2>1, <2>2, <2>3, <2>4
    <2> QED  BY <1>1, <2>1, <2>4 DEF Turn
  <1>9. ASSUME NEW t \in Target, StopTurn(t) PROVE TakenOnce'
    <2>1. /\ UNCHANGED <<who, active, late, seen, taken>>
          /\ \A k \in Key : mailbox'[k] = mailbox[k] \/ mailbox'[k] = <<>>
      BY <1>9, StopDrops
    <2> QED  BY <1>1, <2>1, EntriesOfEmpty DEF Turn
  <1> QED
    BY <1>2, <1>3, <1>4, <1>5, <1>6, <1>7, <1>8, <1>9, RestingSteps,
       RestingRequests, Elsewhere DEF Arrive

\* Input that is queued again or reported was a turn's that is over, which had
\* not taken it in.
LEMMA FatesAreOfTurnsKept ==
  ASSUME TypeOK, Places, TakenOnce, FatesAreOfTurns, [Next]_vars
  PROVE  FatesAreOfTurns'
  <1> USE DEF FatesAreOfTurns
  <1>1. /\ active \subseteq Turn /\ active \subseteq ran
        /\ \A i \in active : pc[i] \in {"running", "stopping"}
    BY DEF TypeOK, Places
  <1>2. ASSUME NEW i \in 1..MaxTurns, NEW k \in Key,
               \/ ArriveTwice(i, k) \/ ArriveStopped(i, k)
               \/ ArriveAndBegin(i, k) \/ ArriveAndWait(i, k)
        PROVE  FatesAreOfTurns'
    BY <1>2, ArrivalMoves
  <1>3. ASSUME NEW i \in Turn, InputRests, UNCHANGED <<who, late>>, ran' = ran,
               \A j \in Turn : j # i => pc'[j] = pc[j],
               late[i] # <<>> => pc'[i] = pc[i] \/ pc[i] \notin {"finishing", "lost"}
        PROVE  FatesAreOfTurns'
    BY <1>3 DEF InputRests, Turn
  <1>4. ASSUME NEW i \in Turn, WakeAndBegin(i) PROVE FatesAreOfTurns'
    BY <1>1, <1>4, BeginMoves DEF Turn
  <1>5. ASSUME NEW i \in Turn, Drain(i) PROVE FatesAreOfTurns'
    <2>1. i \in active /\ i \in ran
      BY <1>1, <1>5, DrainMoves DEF Places
    <2>2. /\ taken' = taken \cup {<<i, x>> : x \in Entries(mailbox[Of(i)])}
          /\ UNCHANGED <<who, pc, active, late, accepted, deferred, rejected, ran>>
      BY <1>5, DrainMoves
    <2> QED  BY <2>1, <2>2 DEF Turn
  <1>6. ASSUME NEW i \in Turn, Finish(i) PROVE FatesAreOfTurns'
    BY <1>6, FinishMoves DEF Turn
  <1>7. ASSUME NEW i \in Turn, Defer(i) \/ DeferFails(i) \/ SettleRaises(i)
        PROVE  FatesAreOfTurns'
    <2> DEFINE h == Head(late[i])
    <2>1. /\ h \in Inputs /\ h \in Entries(late[i]) /\ pc[i] = "finishing"
          /\ pc'[i] \in {"finishing", "lost"}
          /\ \A j \in Turn : j # i => late'[j] = late[j] /\ pc'[j] = pc[j]
          /\ deferred' \cup rejected' = deferred \cup rejected \cup {<<i, h>>}
          /\ UNCHANGED <<who, active, accepted, taken, ran>>
      BY <1>7, SpillMoves
    <2>2. i \in ran /\ i \notin active /\ <<i, h>> \notin taken
      BY <2>1 DEF Places, TakenOnce
    <2> HIDE DEF h
    <2>3. ASSUME NEW j \in Turn, NEW x \in Inputs
          PROVE  /\ <<j, x>> \in accepted \cup taken \cup (deferred' \cup rejected')
                      => j \in ran
                 /\ <<j, x>> \in deferred' \cup rejected' =>
                      j \notin active /\ <<j, x>> \notin taken
      BY <2>1, <2>2
    <2>4. \A j \in Turn : late'[j] # <<>> => pc'[j] \in {"finishing", "lost"}
      BY <2>1
    <2> QED  BY <2>1, <2>3, <2>4 DEF Turn
  <1>8. ASSUME NEW k \in Key, NEW x \in Inputs, Steer(k, x) PROVE FatesAreOfTurns'
    <2>1. PICK i \in active :
            /\ accepted' = accepted \cup {<<i, x>>}
            /\ UNCHANGED <<who, pc, active, late, taken, deferred, rejected, ran>>
      BY <1>8, SteerAdds
    <2> QED  BY <1>1, <2>1 DEF Turn
  <1>9. ASSUME NEW t \in Target, StopTurn(t) PROVE FatesAreOfTurns'
    BY <1>9, StopDrops DEF Turn
  <1>10. CASE InputRests /\ UNCHANGED <<who, pc, late, ran>>
    BY <1>10 DEF InputRests, Turn
  <1>11. ASSUME NEW i \in Turn, Step(i), ~WakeAndBegin(i), ~Drain(i), ~Finish(i),
                ~Defer(i), ~DeferFails(i), ~SettleRaises(i)
         PROVE  FatesAreOfTurns'
    BY <1>3, <1>11, RestingSteps
  <1>12. ASSUME ~Arrive, \A i \in Turn : ~Step(i),
                \A k \in Key, x \in Inputs : ~Steer(k, x),
                \A t \in Target : ~StopTurn(t)
         PROVE  FatesAreOfTurns'
    BY <1>10, <1>12, RestingRequests, Elsewhere
  <1> QED
    BY <1>2, <1>4, <1>5, <1>6, <1>7, <1>8, <1>9, <1>11, <1>12 DEF Arrive

\* Accepted input moves from the mailbox to the turn, to its late input, or out.
LEMMA AccountedKept ==
  ASSUME TypeOK, Places, OneOwner, FatesAreOfTurns, Accounted, [Next]_vars
  PROVE  Accounted'
  <1> USE DEF Accounted
  <1>1. /\ active \subseteq Turn /\ \A i \in Turn : Of(i) \in Key
        /\ \A i \in Turn : Of(i)' = Of(i)
        /\ \A i \in active, j \in active : Of(i) = Of(j) => i = j
    BY Numbered, Stable, OneOfAKey DEF TypeOK
  <1>2. ASSUME NEW i \in 1..MaxTurns, NEW k \in Key,
               \/ ArriveTwice(i, k) \/ ArriveStopped(i, k)
               \/ ArriveAndBegin(i, k) \/ ArriveAndWait(i, k)
        PROVE  Accounted'
    BY <1>1, <1>2, ArrivalMoves
  <1>3. ASSUME NEW i \in Turn, InputRests, UNCHANGED <<who, late>>,
               \A j \in Turn : j # i => pc'[j] = pc[j],
               late[i] # <<>> => pc'[i] = pc[i] \/ pc[i] \notin {"finishing", "lost"}
        PROVE  Accounted'
    BY <1>1, <1>3, EntriesOfEmpty DEF InputRests, Turn
  <1>4. ASSUME NEW i \in Turn, WakeAndBegin(i) PROVE Accounted'
    BY <1>1, <1>4, BeginMoves DEF Turn
  <1>5. ASSUME NEW i \in Turn, Drain(i) PROVE Accounted'
    <2>1. i \in active
      BY <1>5, DrainMoves DEF Places
    <2>2. /\ \A k \in Key : k # Of(i) => mailbox'[k] = mailbox[k]
          /\ taken' = taken \cup {<<i, x>> : x \in Entries(mailbox[Of(i)])}
          /\ UNCHANGED <<who, pc, active, late, accepted, deferred, rejected, dropped>>
      BY <1>5, DrainMoves
    <2>3. ASSUME NEW j \in active, NEW x \in Entries(mailbox[Of(j)])
          PROVE  x \in Entries(mailbox'[Of(j)]) \/ <<j, x>> \in taken'
      BY <1>1, <2>1, <2>2
    <2> QED  BY <1>1, <2>2, <2>3 DEF Turn
  <1>6. ASSUME NEW i \in Turn, Finish(i) PROVE Accounted'
    <2>1. i \in active
      BY <1>6 DEF Finish, Places
    <2>2. /\ late'[i] = mailbox[Of(i)] /\ active' = active \ {i}
          /\ pc'[i] = "finishing" /\ i \notin active'
          /\ \A j \in Turn : j # i => late'[j] = late[j] /\ pc'[j] = pc[j]
          /\ \A k \in Key : k # Of(i) => mailbox'[k] = mailbox[k]
          /\ UNCHANGED <<who, accepted, taken, deferred, rejected, dropped>>
      BY <1>6, FinishMoves
    <2>3. ASSUME NEW j \in active, NEW x \in Entries(mailbox[Of(j)])
          PROVE  \/ j \in active' /\ x \in Entries(mailbox'[Of(j)])
                 \/ pc'[j] = "finishing" /\ x \in Entries(late'[j])
      BY <1>1, <2>1, <2>2
    <2>4. ASSUME NEW j \in Turn, pc[j] \in {"finishing", "lost"}
          PROVE  pc'[j] = pc[j] /\ late'[j] = late[j]
      BY <2>1, <2>2, <2>4 DEF Places
    <2> QED  BY <1>1, <2>2, <2>3, <2>4 DEF Turn
  <1>7. ASSUME NEW i \in Turn, Defer(i) \/ DeferFails(i) \/ SettleRaises(i)
        PROVE  Accounted'
    <2> DEFINE h == Head(late[i])
    <2>1. /\ pc[i] = "finishing" /\ pc'[i] \in {"finishing", "lost"}
          /\ Entries(late[i]) = Entries(late'[i]) \cup {h}
          /\ \A j \in Turn : j # i => late'[j] = late[j] /\ pc'[j] = pc[j]
          /\ deferred' \cup rejected' = deferred \cup rejected \cup {<<i, h>>}
          /\ UNCHANGED <<who, active, mailbox, accepted, taken, dropped>>
      BY <1>7, SpillMoves
    <2> HIDE DEF h
    <2>2. ASSUME NEW j \in Turn, NEW x \in Entries(late[j]),
                 pc[j] \in {"finishing", "lost"}
          PROVE  \/ pc'[j] \in {"finishing", "lost"} /\ x \in Entries(late'[j])
                 \/ <<j, x>> \in deferred' \cup rejected'
      BY <2>1, <2>2
    <2> QED  BY <1>1, <2>1, <2>2 DEF Turn
  <1>8. ASSUME NEW k \in Key, NEW x \in Inputs, Steer(k, x) PROVE Accounted'
    <2>1. PICK i \in active :
            /\ Of(i) = k /\ x \notin seen[k] /\ mailbox[k] \in Seq(Inputs)
            /\ mailbox'[k] = Append(mailbox[k], x)
            /\ \A l \in Key : l # k => mailbox'[l] = mailbox[l] /\ seen'[l] = seen[l]
            /\ accepted' = accepted \cup {<<i, x>>}
            /\ UNCHANGED <<who, pc, active, late, taken, deferred, rejected, dropped>>
      BY <1>8, SteerAdds
    <2>2. Entries(mailbox'[k]) = Entries(mailbox[k]) \cup {x}
      BY <2>1, EntriesOfAppend
    <2>3. ASSUME NEW j \in active
          PROVE  Entries(mailbox[Of(j)]) \subseteq Entries(mailbox'[Of(j)])
      BY <1>1, <2>1, <2>2
    <2> QED  BY <1>1, <2>1, <2>2, <2>3 DEF Turn
  <1>9. ASSUME NEW t \in Target, StopTurn(t) PROVE Accounted'
    <2>1. /\ UNCHANGED <<who, pc, active, late, taken, deferred, rejected, accepted>>
          /\ dropped \subseteq dropped'
          /\ \A k \in Key :
               \/ mailbox'[k] = mailbox[k]
               \/ \A i \in active : Of(i) = k => Pairs(i, mailbox[k]) \subseteq dropped'
      BY <1>9, StopDrops
    <2>2. ASSUME NEW j \in active, NEW x \in Entries(mailbox[Of(j)])
          PROVE  x \in Entries(mailbox'[Of(j)]) \/ <<j, x>> \in dropped'
      BY <1>1, <2>1, PairsAreEntries
    <2> QED  BY <1>1, <2>1, <2>2 DEF Turn
  <1>10. CASE InputRests /\ UNCHANGED <<who, pc, late>>
    BY <1>1, <1>10 DEF InputRests, Turn
  <1>11. ASSUME NEW i \in Turn, Step(i), ~WakeAndBegin(i), ~Drain(i), ~Finish(i),
                ~Defer(i), ~DeferFails(i), ~SettleRaises(i)
         PROVE  Accounted'
    BY <1>3, <1>11, RestingSteps
  <1>12. ASSUME ~Arrive, \A i \in Turn : ~Step(i),
                \A k \in Key, x \in Inputs : ~Steer(k, x),
                \A t \in Target : ~StopTurn(t)
         PROVE  Accounted'
    BY <1>10, <1>12, RestingRequests, Elsewhere
  <1> QED
    BY <1>2, <1>4, <1>5, <1>6, <1>7, <1>8, <1>9, <1>11, <1>12 DEF Arrive

--------------------------------------------------------------------------------
(* The theorems.                                                              *)

\* At the start there is no turn, no stop and no input.
LEMMA Initially == Init => IInv
  <1> SUFFICES ASSUME Init PROVE IInv
    OBVIOUS
  <1>1. Turn = {} /\ who \in Seq(Key) /\ Len(who) = 0
    BY EmptySeq DEF Init, Turn
  <1>2. pc \in [Turn -> Place] /\ late \in [Turn -> Seq(Inputs)]
    BY <1>1 DEF Init, Turn
  <1>3. mailbox \in [Key -> Seq(Inputs)] /\ \A k \in Key : Len(mailbox[k]) <= MaxMailbox
    BY ConstantsFit, EmptySeq DEF Init
  <1>4. TypeOK
    <2>1. Len(who) <= MaxTurns /\ stops \in 0..MaxStops
      BY <1>1, ConstantsFit DEF Init
    <2>2. \A fate \in {accepted, taken, deferred, rejected, dropped} :
            fate \subseteq Turn \X Inputs
      BY DEF Init
    <2>3. seen \in [Key -> SUBSET Inputs]
      BY DEF Init
    <2> QED  BY <1>1, <1>2, <1>3, <2>1, <2>2, <2>3 DEF Init, TypeOK
  <1>5. Mailboxes
    BY EntriesOfEmpty DEF Init, Mailboxes
  <1> QED
    BY <1>1, <1>4, <1>5 DEF Init, IInv, Places, OneOwner, Markers, NoOvertaking,
       NoLostWakeup, StopsAreMeant, TakenOnce, FatesAreOfTurns, Accounted

\* Every step keeps every part.
LEMMA Inductive == IInv /\ [Next]_vars => IInv'
  BY TypesKept, PlacesKept, OwnersKept, NoOvertakingKept, NoLostWakeupKept,
     StoppedStayOut, StopsAreMeantKept, MailboxesKept, TakenOnceKept,
     FatesAreOfTurnsKept, AccountedKept DEF IInv

\* The invariant holds in every state of every behaviour.
LEMMA Invariance == Spec => []IInv
  BY Initially, Inductive, PTL DEF Spec

\* The session state and the threads stay in their types, whatever the number
\* of turns, sessions, inputs and stops (AgentRuntimeSessionState).
THEOREM TypesAreCorrect == Spec => []TypeOK
  <1>1. IInv => TypeOK
    BY DEF IInv
  <1> QED  BY <1>1, Invariance, PTL

\* A session never has two turns that run or finish (begin_turn, and the
\* markers of finish_turn and record_final_response).
THEOREM SessionsHaveOneOwner == Spec => []OneOwner
  <1>1. IInv => OneOwner
    BY DEF IInv
  <1> QED  BY <1>1, Invariance, PTL

\* Turns of a session start in the order they came (_waiting_turns).
THEOREM TurnsStartInOrder == Spec => []NoOvertaking
  <1>1. IInv => NoOvertaking
    BY DEF IInv
  <1> QED  BY <1>1, Invariance, PTL

\* Nobody sleeps on the gateway's condition who could go on, unless somebody
\* still has to wake it (the notify_all of a turn that leaves, of a stop and of
\* the shutdown).
THEOREM WakeupsAreNotLost == Spec => []NoLostWakeup
  <1>1. IInv => NoLostWakeup
    BY DEF IInv
  <1> QED  BY <1>1, Invariance, PTL

\* A turn that was stopped while it waited never runs, and only turns that a
\* request names are stopped (mark_cancel_requested, _cancel_target_matches).
THEOREM StopsHitTheirTurns == Spec => []StopsHitWhatTheyName
  <1>1. IInv => StopsHitWhatTheyName
    BY DEF IInv, StopsAreMeant, Meant, Names, StopsHitWhatTheyName
  <1> QED  BY <1>1, Invariance, PTL

\* Accepted input is in the mailbox, with the turn, in the queue, in the answer
\* or dropped by a stop; a turn takes it in once (submit_steer, drain_steer,
\* finish_turn and the finally block after it).
THEOREM SteersAreAccounted == Spec => []SteersAccounted
  <1>1. ASSUME IInv PROVE SteersAccounted
    <2> USE DEF IInv
    <2>1. \A i \in active : i \in Turn /\ Of(i) \in Key
      BY <1>1, Numbered DEF TypeOK
    <2>2. \A i \in active : Pairs(i, mailbox[Of(i)]) \cap taken = {}
      <3>1. \A i \in active : Entries(mailbox[Of(i)]) \subseteq Inputs
        BY <1>1, <2>1, EntriesAreElements DEF TypeOK
      <3> QED  BY <1>1, <3>1, PairsAreEntries DEF TakenOnce
    <2>3. taken \cap (deferred \cup rejected) = {}
      BY <1>1, FateTypes DEF FatesAreOfTurns
    <2>4. \A k \in Key : \A m, n \in DOMAIN mailbox[k] :
            m # n => mailbox[k][m] # mailbox[k][n]
      BY <1>1 DEF Mailboxes, Distinct
    <2> QED
      BY <1>1, <2>2, <2>3, <2>4 DEF SteersAccounted, Accounted, Entries
  <1> QED  BY <1>1, Invariance, PTL
=============================================================================
