-------------------------- MODULE AcceptedMemoryProofs -------------------------
(***************************************************************************)
(* That the memories and their audit agree, for any memories and backups,  *)
(* any bound of the audit's files and any number of operations that end in *)
(* the middle.                                                             *)
(*                                                                         *)
(* The operation under way is a list of tasks, and what the files owe at   *)
(* any moment depends on what is still in it.  So the invariant goes       *)
(* through the list: which task may come before which (MayPrecede), and,   *)
(* for each task, what holds already or has a task before it that will see *)
(* to it (Duty).  An operation that ends in the middle drops the list and  *)
(* with it every duty; what is left then must be right by itself.          *)
(***************************************************************************)
EXTENDS AcceptedMemory, FiniteSetTheorems, TLAPS

Plans == {"project", "promote", "delete", "clear", "each", "restore", "erase"}

\* What a task may have behind it: plans anything may have, the others come in
\* the order of promote and physical_erase_many.
MayPrecede(a, b) ==
  \/ b.do \in Plans
  \/ a.do = "stage" /\ b.do \in {"write", "rewrite", "verify", "commit", "report"}
  \/ a.do = "write" /\ b.do = "commit" /\ \A e \in b.events : e.kind = "promoted"
  \/ a.do \in {"rewrite", "verify"} /\ b.do = "commit"
       /\ \A e \in b.events : e.kind # "promoted"
  \/ a.do = "rewrite" /\ b.do \in {"verify", "report"}
  \/ a.do = "verify" /\ b.do = "report"
  \/ a.do = "trim" /\ b.do \in {"commit", "report"}
  \/ a.do = "commit" /\ b.do = "report"

Ordered(q) == \A i, j \in DOMAIN q : i < j => MayPrecede(q[i], q[j])

Single(task) ==
  /\ task.do \in {"write", "promote", "delete", "restore"} =>
       \E m \in Memories : task.of = {m}
  /\ task.do = "promote" => task.of \subseteq Reviewed
  /\ task.do = "trim" => \E e \in Event : task.events = {e}

\* The tasks before the n-th that stage a row, write a memory, look for it.
StagedBefore(q, n, e) ==
  \E i \in DOMAIN q : i < n /\ q[i].do = "stage" /\ e \in q[i].events

WrittenBefore(q, n, m) ==
  \E i \in DOMAIN q : i < n /\ q[i].do = "write" /\ m \in q[i].of

VerifiedBefore(q, n, m) ==
  \E i \in DOMAIN q : i < n /\ q[i].do = "verify" /\ m \in q[i].of

Erasures(m) == {[kind |-> kind, mem |-> m] : kind \in {"erased", "purged"}}

ErasureOnRecord(m) == \E e \in Erasures(m) : OnRecord(e)

\* What the n-th task relies on.
WriteDuty(q, n) ==
  q[n].do = "write" =>
    \A m \in q[n].of \cap Reviewed :
      OnRecord(Promoted(m)) \/ StagedBefore(q, n, Promoted(m))

RewriteDuty(q, n) ==
  q[n].do = "rewrite" =>
    \A m \in q[n].of :
      \E e \in Erasures(m) : OnRecord(e) \/ StagedBefore(q, n, e)

CommitDuty(q, n) ==
  q[n].do = "commit" =>
    \A e \in q[n].events :
      /\ OnRecord(e) \/ StagedBefore(q, n, e)
      /\ e.kind = "promoted" => e.mem \in kept[Log] \/ WrittenBefore(q, n, e.mem)
      /\ e.kind # "promoted" => Gone(e.mem) \/ VerifiedBefore(q, n, e.mem)

TrimDuty(q, n) == q[n].do = "trim" => \A e \in q[n].events : IsRecorded(e)

ReportDuty(q, n) ==
  q[n].do = "report" => \A m \in q[n].of : Gone(m) \/ VerifiedBefore(q, n, m)

Duty(q, n) == /\ WriteDuty(q, n) /\ RewriteDuty(q, n) /\ CommitDuty(q, n)
              /\ TrimDuty(q, n) /\ ReportDuty(q, n)

Tasked == /\ Ordered(job)
          /\ \A n \in DOMAIN job : Single(job[n])
          /\ \A n \in DOMAIN job : Duty(job, n)

\* What holds between operations, wherever the last one ended.
Promotions == \A m \in Reviewed \cap kept[Log] : OnRecord(Promoted(m))

Remembered == \A m \in known : m \in Traces(Log) \/ ErasureOnRecord(m)

Finite == /\ IsFiniteSet(outbox) /\ IsFiniteSet(Lines)
          /\ \A e \in Event : ledger[e] \in {0, 1}

IInv == /\ TypeOK /\ Finite /\ Tasked
        /\ Promotions /\ Remembered /\ ErasedIsGone

-----------------------------------------------------------------------------
(* Lists.                                                                  *)

LEMMA HeadOfList ==
  ASSUME NEW q \in Seq(Tasks), q # <<>>
  PROVE  /\ Len(q) \in Nat \ {0} /\ DOMAIN q = 1..Len(q) /\ 1 \in DOMAIN q
         /\ Head(q) = q[1] /\ Head(q) \in Tasks
OBVIOUS

\* A list whose head makes way for the tasks p.
LEMMA Replaced ==
  ASSUME NEW q \in Seq(Tasks), q # <<>>, NEW p \in Seq(Tasks),
         NEW r, r = p \o Tail(q)
  PROVE  /\ r \in Seq(Tasks)
         /\ DOMAIN p = 1..Len(p) /\ Len(p) \in Nat
         /\ DOMAIN r = 1..(Len(p) + Len(q) - 1)
         /\ \A n \in DOMAIN p : n \in DOMAIN r /\ r[n] = p[n]
         /\ \A n \in DOMAIN r \ DOMAIN p :
              /\ n - Len(p) + 1 \in DOMAIN q \ {1}
              /\ r[n] = q[n - Len(p) + 1]
         /\ \A n \in DOMAIN q \ {1} :
              /\ n + Len(p) - 1 \in DOMAIN r \ DOMAIN p
              /\ r[n + Len(p) - 1] = q[n]
<1>1. Tail(q) \in Seq(Tasks) /\ Len(Tail(q)) = Len(q) - 1 /\ Len(q) \in Nat \ {0}
  OBVIOUS
<1>2. \A n \in 1..(Len(q) - 1) : Tail(q)[n] = q[n + 1]
  OBVIOUS
<1>3. /\ r \in Seq(Tasks) /\ Len(p) \in Nat /\ Len(r) = Len(p) + Len(q) - 1
      /\ DOMAIN p = 1..Len(p) /\ DOMAIN r = 1..Len(r) /\ DOMAIN q = 1..Len(q)
  BY <1>1
<1>4. \A n \in 1..Len(p) : r[n] = p[n]
  BY <1>1
<1>5. \A n \in 1..Len(r) : n > Len(p) => r[n] = Tail(q)[n - Len(p)]
  BY <1>1, <1>3
<1>6. ASSUME NEW n \in DOMAIN r \ DOMAIN p
      PROVE  /\ n - Len(p) + 1 \in DOMAIN q \ {1}
             /\ r[n] = q[n - Len(p) + 1]
  <2>1. n \in Nat /\ n > Len(p) /\ n <= Len(p) + Len(q) - 1
    BY <1>1, <1>3
  <2>2. n - Len(p) \in 1..(Len(q) - 1)
    BY <2>1, <1>1, <1>3
  <2>3. r[n] = q[n - Len(p) + 1]
    BY <2>1, <2>2, <1>2, <1>3, <1>5
  <2> QED
    BY <2>2, <2>3, <1>1, <1>3
<1>7. ASSUME NEW n \in DOMAIN q \ {1}
      PROVE  /\ n + Len(p) - 1 \in DOMAIN r \ DOMAIN p
             /\ r[n + Len(p) - 1] = q[n]
  <2>1. n \in Nat /\ n >= 2 /\ n <= Len(q)
    BY <1>1, <1>3
  <2>2. n + Len(p) - 1 \in DOMAIN r \ DOMAIN p
    BY <2>1, <1>1, <1>3
  <2>3. (n + Len(p) - 1) - Len(p) + 1 = n
    BY <2>1, <1>3
  <2> QED
    BY <2>2, <2>3, <1>6
<1>8. DOMAIN r = 1..(Len(p) + Len(q) - 1)
  BY <1>3
<1>9. \A n \in DOMAIN p : n \in DOMAIN r
  BY <1>1, <1>3
<1>10. \A n \in DOMAIN p : r[n] = p[n]
  BY <1>3, <1>4
<1> QED
  BY <1>3, <1>6, <1>7, <1>8, <1>9, <1>10

\* What the head of a list owes, nothing before it can see to.
LEMMA HeadDuty ==
  ASSUME job \in Seq(Tasks), job # <<>>, Tasked
  PROVE  /\ \A e : ~StagedBefore(job, 1, e)
         /\ \A m : ~WrittenBefore(job, 1, m) /\ ~VerifiedBefore(job, 1, m)
         /\ Duty(job, 1) /\ Single(job[1])
         /\ \A n \in DOMAIN job \ {1} : MayPrecede(job[1], job[n])
<1>1. 1 \in DOMAIN job /\ DOMAIN job = 1..Len(job) /\ Len(job) \in Nat
  BY HeadOfList
<1>2. \A i \in DOMAIN job : ~(i < 1)
  BY <1>1
<1>3. \A n \in DOMAIN job \ {1} : 1 < n
  BY <1>1
<1> QED
  BY <1>1, <1>2, <1>3 DEF Tasked, Ordered, StagedBefore, WrittenBefore,
                          VerifiedBefore

\* A list in which plans follow plans goes on where p takes the head's place,
\* if p is in order and does its duties itself.
Fits(p) ==
  /\ p \in Seq(Tasks) /\ Ordered(p)
  /\ \A n \in DOMAIN p : Single(p[n])
  /\ \A n \in DOMAIN p, j \in DOMAIN job \ {1} : MayPrecede(p[n], job[j])

LEMMA FitsInOrder ==
  ASSUME job \in Seq(Tasks), job # <<>>, Tasked,
         NEW p, Fits(p), job' = p \o Tail(job)
  PROVE  /\ job' \in Seq(Tasks)
         /\ Ordered(job') /\ \A n \in DOMAIN job' : Single(job'[n])
<1> DEFINE k == Len(p)
<1>1. /\ job' \in Seq(Tasks) /\ k \in Nat /\ DOMAIN p = 1..k
      /\ Len(job) \in Nat \ {0} /\ DOMAIN job = 1..Len(job)
      /\ DOMAIN job' = 1..(k + Len(job) - 1)
      /\ \A n \in DOMAIN p : n \in DOMAIN job' /\ job'[n] = p[n]
      /\ \A n \in DOMAIN job' \ DOMAIN p :
           /\ n - k + 1 \in DOMAIN job \ {1}
           /\ job'[n] = job[n - k + 1]
  BY Replaced, HeadOfList DEF Fits
<1>2. ASSUME NEW i \in DOMAIN job', NEW j \in DOMAIN job', i < j
      PROVE  MayPrecede(job'[i], job'[j])
  <2>1. CASE j \in DOMAIN p
    <3>1. i \in DOMAIN p
      BY <1>1, <1>2, <2>1
    <3> QED
      BY <1>1, <1>2, <2>1, <3>1 DEF Fits, Ordered
  <2>2. CASE i \in DOMAIN p /\ j \notin DOMAIN p
    BY <1>1, <2>2 DEF Fits
  <2>3. CASE i \notin DOMAIN p /\ j \notin DOMAIN p
    <3>1. /\ i - k + 1 \in DOMAIN job /\ j - k + 1 \in DOMAIN job
          /\ i - k + 1 < j - k + 1
      BY <1>1, <1>2, <2>3
    <3> QED
      BY <1>1, <2>3, <3>1 DEF Tasked, Ordered
  <2> QED
    BY <2>1, <2>2, <2>3
<1>3. ASSUME NEW n \in DOMAIN job'
      PROVE  Single(job'[n])
  BY <1>1 DEF Fits, Tasked
<1> QED
  BY <1>1, <1>2, <1>3 DEF Ordered

-----------------------------------------------------------------------------
(* Duties.                                                                 *)

\* p takes over what the head had still to do for those behind it.
TakesOver(p) ==
  /\ job[1].do = "stage" =>
       \A e \in job[1].events :
         OnRecord(e)' \/ (\E i \in DOMAIN p : p[i].do = "stage" /\ e \in p[i].events)
  /\ job[1].do = "write" => job[1].of \subseteq kept'[Log]
  /\ job[1].do = "verify" => \A m \in job[1].of : Gone(m)'

\* What holds for a task stays so: rows stay on record, memories in the log but
\* for a rewrite, and away but for a write.
Steady ==
  /\ \A e \in Event : OnRecord(e) => OnRecord(e)'
  /\ job[1].do # "rewrite" => kept[Log] \subseteq kept'[Log]
  /\ job[1].do # "write" => \A m \in Memories : Gone(m) => Gone(m)'

LEMMA TailDuties ==
  ASSUME job \in Seq(Tasks), job # <<>>, Tasked,
         NEW p, Fits(p), job' = p \o Tail(job), TakesOver(p), Steady,
         NEW n \in DOMAIN job' \ DOMAIN p
  PROVE  Duty(job, n)'
<1> DEFINE k == Len(p)
           o == n - k + 1
<1>1. /\ job' \in Seq(Tasks) /\ k \in Nat /\ DOMAIN p = 1..k
      /\ DOMAIN job = 1..Len(job) /\ Len(job) \in Nat
      /\ DOMAIN job' = 1..(k + Len(job) - 1)
      /\ \A i \in DOMAIN p : i \in DOMAIN job' /\ job'[i] = p[i]
      /\ o \in DOMAIN job \ {1} /\ job'[n] = job[o]
      /\ \A i \in DOMAIN job \ {1} :
           /\ i + k - 1 \in DOMAIN job'
           /\ job'[i + k - 1] = job[i]
  <2>1. p \in Seq(Tasks)
    BY DEF Fits
  <2>2. /\ job' \in Seq(Tasks)
        /\ DOMAIN p = 1..Len(p) /\ Len(p) \in Nat
        /\ DOMAIN job' = 1..(Len(p) + Len(job) - 1)
        /\ \A i \in DOMAIN p : i \in DOMAIN job' /\ job'[i] = p[i]
        /\ \A i \in DOMAIN job' \ DOMAIN p :
             /\ i - Len(p) + 1 \in DOMAIN job \ {1}
             /\ job'[i] = job[i - Len(p) + 1]
        /\ \A i \in DOMAIN job \ {1} :
             /\ i + Len(p) - 1 \in DOMAIN job' \ DOMAIN p
             /\ job'[i + Len(p) - 1] = job[i]
    BY <2>1, Replaced, SMTT(30)
  <2>3. k = Len(p) /\ o = n - Len(p) + 1
    OBVIOUS
  <2>4. o \in DOMAIN job \ {1} /\ job'[n] = job[o]
    BY <2>2, <2>3
  <2> HIDE DEF k, o
  <2>5. DOMAIN job = 1..Len(job) /\ Len(job) \in Nat
    BY HeadOfList
  <2> QED
    BY <2>2, <2>3, <2>4, <2>5
<1>2. o \in Nat /\ n \in Nat /\ n = o + k - 1 /\ n > k
  BY <1>1
<1>3. /\ \A i \in DOMAIN p : i < n
      /\ \A i \in DOMAIN job \ {1} : i < o => i + k - 1 < n
  BY <1>1, <1>2
<1>4. Duty(job, o) /\ MayPrecede(job[1], job[o])
  BY <1>1, HeadDuty DEF Tasked
<1> HIDE DEF k, o
<1>5. job[1] \in Tasks /\ job[o] \in Tasks
  BY <1>1, HeadOfList
<1>6. ASSUME NEW e \in Event, OnRecord(e) \/ StagedBefore(job, o, e)
      PROVE  OnRecord(e)' \/ StagedBefore(job, n, e)'
  <2>1. CASE OnRecord(e)
    BY <2>1 DEF Steady
  <2>2. CASE StagedBefore(job, o, e)
    <3>1. PICK i \in DOMAIN job : i < o /\ job[i].do = "stage" /\ e \in job[i].events
      BY <2>2 DEF StagedBefore
    <3>2. CASE i = 1
      <4>1. CASE OnRecord(e)'
        BY <4>1
      <4>2. CASE \E l \in DOMAIN p : p[l].do = "stage" /\ e \in p[l].events
        BY <4>2, <1>1, <1>3 DEF StagedBefore
      <4> QED
        BY <3>1, <3>2, <4>1, <4>2 DEF TakesOver
    <3>3. CASE i # 1
      <4>1. /\ i + k - 1 \in DOMAIN job' /\ job'[i + k - 1] = job[i]
            /\ i + k - 1 < n
        BY <1>1, <1>3, <3>1, <3>3
      <4> QED
        BY <3>1, <4>1 DEF StagedBefore
    <3> QED
      BY <3>2, <3>3
  <2> QED
    BY <1>6, <2>1, <2>2
<1>7. ASSUME NEW m \in Memories, Gone(m) \/ VerifiedBefore(job, o, m),
             job[1].do # "write"
      PROVE  Gone(m)' \/ VerifiedBefore(job, n, m)'
  <2>1. CASE Gone(m)
    BY <1>7, <2>1 DEF Steady
  <2>2. CASE VerifiedBefore(job, o, m)
    <3>1. PICK i \in DOMAIN job : i < o /\ job[i].do = "verify" /\ m \in job[i].of
      BY <2>2 DEF VerifiedBefore
    <3>2. CASE i = 1
      BY <3>1, <3>2 DEF TakesOver
    <3>3. CASE i # 1
      <4>1. /\ i + k - 1 \in DOMAIN job' /\ job'[i + k - 1] = job[i]
            /\ i + k - 1 < n
        BY <1>1, <1>3, <3>1, <3>3
      <4> QED
        BY <3>1, <4>1 DEF VerifiedBefore
    <3> QED
      BY <3>2, <3>3
  <2> QED
    BY <1>7, <2>1, <2>2
<1>8. ASSUME NEW m \in Memories, m \in kept[Log] \/ WrittenBefore(job, o, m),
             job[1].do # "rewrite"
      PROVE  m \in kept'[Log] \/ WrittenBefore(job, n, m)'
  <2>1. CASE m \in kept[Log]
    BY <1>8, <2>1 DEF Steady
  <2>2. CASE WrittenBefore(job, o, m)
    <3>1. PICK i \in DOMAIN job : i < o /\ job[i].do = "write" /\ m \in job[i].of
      BY <2>2 DEF WrittenBefore
    <3>2. CASE i = 1
      BY <3>1, <3>2 DEF TakesOver
    <3>3. CASE i # 1
      <4>1. /\ i + k - 1 \in DOMAIN job' /\ job'[i + k - 1] = job[i]
            /\ i + k - 1 < n
        BY <1>1, <1>3, <3>1, <3>3
      <4> QED
        BY <3>1, <4>1 DEF WrittenBefore
    <3> QED
      BY <3>2, <3>3
  <2> QED
    BY <1>8, <2>1, <2>2
<1>9. /\ \A m \in Memories : Promoted(m) \in Event /\ Erasures(m) \subseteq Event
      /\ \A e \in Event : e.mem \in Memories
  BY DEF Promoted, Erasures, Event, Kind
<1>10. job[o].of \subseteq Memories /\ job[o].events \subseteq Event
  BY <1>5 DEF Tasks
<1>11. WriteDuty(job, n)'
  BY <1>1, <1>4, <1>6, <1>9, <1>10 DEF Duty, WriteDuty
<1>12. RewriteDuty(job, n)'
  <2> SUFFICES ASSUME job[o].do = "rewrite", NEW m \in job[o].of
               PROVE  \E e \in Erasures(m) : OnRecord(e)' \/ StagedBefore(job, n, e)'
    BY <1>1 DEF RewriteDuty, Erasures
  <2>1. PICK e \in Erasures(m) : OnRecord(e) \/ StagedBefore(job, o, e)
    BY <1>4 DEF Duty, RewriteDuty
  <2>2. e \in Event
    BY <1>9, <1>10, <2>1
  <2> QED
    BY <1>6, <2>1, <2>2
<1>13. CommitDuty(job, n)'
  <2> SUFFICES ASSUME job[o].do = "commit", NEW e \in job[o].events
               PROVE  /\ OnRecord(e)' \/ StagedBefore(job, n, e)'
                      /\ e.kind = "promoted" =>
                           e.mem \in kept'[Log] \/ WrittenBefore(job, n, e.mem)'
                      /\ e.kind # "promoted" =>
                           Gone(e.mem)' \/ VerifiedBefore(job, n, e.mem)'
    BY <1>1 DEF CommitDuty
  <2>1. e \in Event /\ e.mem \in Memories
    BY <1>9, <1>10
  <2>2. /\ OnRecord(e) \/ StagedBefore(job, o, e)
        /\ e.kind = "promoted" => e.mem \in kept[Log] \/ WrittenBefore(job, o, e.mem)
        /\ e.kind # "promoted" => Gone(e.mem) \/ VerifiedBefore(job, o, e.mem)
    BY <1>4 DEF Duty, CommitDuty
  <2>3. /\ e.kind = "promoted" => job[1].do # "rewrite"
        /\ e.kind # "promoted" => job[1].do # "write"
    BY <1>4 DEF MayPrecede, Plans
  <2> QED
    BY <1>6, <1>7, <1>8, <2>1, <2>2, <2>3
<1>14. TrimDuty(job, n)'
  BY <1>1, <1>4 DEF TrimDuty, MayPrecede, Plans
<1>15. ReportDuty(job, n)'
  <2> SUFFICES ASSUME job[o].do = "report", NEW m \in job[o].of
               PROVE  Gone(m)' \/ VerifiedBefore(job, n, m)'
    BY <1>1 DEF ReportDuty
  <2>1. Gone(m) \/ VerifiedBefore(job, o, m)
    BY <1>4 DEF Duty, ReportDuty
  <2>2. job[1].do # "write"
    BY <1>4 DEF MayPrecede, Plans
  <2> QED
    BY <1>7, <1>10, <2>1, <2>2
<1> QED
  BY <1>11, <1>12, <1>13, <1>14, <1>15 DEF Duty

\* The duties of p are done within p.
LEMMA StaysTasked ==
  ASSUME job \in Seq(Tasks), job # <<>>, Tasked,
         NEW p, Fits(p), job' = p \o Tail(job), TakesOver(p), Steady,
         \A n \in DOMAIN p : Duty(p, n)'
  PROVE  job' \in Seq(Tasks) /\ Tasked'
<1>1. /\ job' \in Seq(Tasks) /\ DOMAIN p = 1..Len(p) /\ Len(p) \in Nat
      /\ \A i \in DOMAIN p : i \in DOMAIN job' /\ job'[i] = p[i]
      /\ DOMAIN job' = 1..(Len(p) + Len(job) - 1)
  <2>1. p \in Seq(Tasks)
    BY DEF Fits
  <2> QED
    BY <2>1, Replaced
<1>2. ASSUME NEW n \in DOMAIN p
      PROVE  Duty(job, n)'
  <2>1. Duty(p, n)'
    OBVIOUS
  <2>2. \A e : StagedBefore(p, n, e) => StagedBefore(job, n, e)'
    BY <1>1 DEF StagedBefore
  <2>3. \A m : /\ WrittenBefore(p, n, m) => WrittenBefore(job, n, m)'
               /\ VerifiedBefore(p, n, m) => VerifiedBefore(job, n, m)'
    BY <1>1 DEF WrittenBefore, VerifiedBefore
  <2>4. job'[n] = p[n]
    BY <1>1
  <2>5. WriteDuty(job, n)'
    BY <2>1, <2>2, <2>4 DEF Duty, WriteDuty
  <2>6. RewriteDuty(job, n)'
    BY <2>1, <2>2, <2>4 DEF Duty, RewriteDuty
  <2>7. CommitDuty(job, n)'
    BY <2>1, <2>2, <2>3, <2>4 DEF Duty, CommitDuty
  <2>8. TrimDuty(job, n)' /\ ReportDuty(job, n)'
    BY <2>1, <2>3, <2>4 DEF Duty, TrimDuty, ReportDuty
  <2> QED
    BY <2>5, <2>6, <2>7, <2>8 DEF Duty
<1>3. \A n \in DOMAIN job' \ DOMAIN p : Duty(job, n)'
  BY TailDuties
<1>4. Ordered(job)' /\ \A n \in DOMAIN job' : Single(job'[n])
  BY FitsInOrder
<1> QED
  BY <1>1, <1>2, <1>3, <1>4 DEF Tasked

-----------------------------------------------------------------------------
(* Short lists.                                                            *)

LEMMA TaskTypes ==
  /\ \A what \in Plans \cup {"verify", "report"}, S \in SUBSET Memories :
       Ask(what, S) \in Tasks
  /\ Project \in Tasks
  /\ \A row \in {"created", "deleted", "restored"}, m \in Memories :
       Write(row, m) \in Tasks
  /\ \A S \in SUBSET Memories : Rewrite(S) \in Tasks
  /\ \A es \in SUBSET Event : Stage(es) \in Tasks /\ Commit(es) \in Tasks
  /\ \A e \in Event : Trim(e) \in Tasks
BY DEF Plans, Ask, Task, Tasks, Project, Write, Rewrite, Targets, Stage, Commit, Trim

LEMMA TaskFields ==
  /\ \A what, S : Ask(what, S).do = what /\ Ask(what, S).of = S
  /\ Project.do = "project"
  /\ \A row, m : /\ Write(row, m).do = "write" /\ Write(row, m).of = {m}
                 /\ Write(row, m).row = row
  /\ \A S : Rewrite(S).do = "rewrite" /\ Rewrite(S).of = S
  /\ \A es : /\ Stage(es).do = "stage" /\ Stage(es).events = es
             /\ Commit(es).do = "commit" /\ Commit(es).events = es
  /\ \A e : Trim(e).do = "trim" /\ Trim(e).events = {e}
BY DEF Ask, Task, Project, Write, Rewrite, Stage, Commit, Trim

LEMMA PlansBehindPlans ==
  ASSUME job \in Seq(Tasks), job # <<>>, Tasked, job[1].do \in Plans \cup {"report"}
  PROVE  \A n \in DOMAIN job \ {1} : job[n].do \in Plans
BY HeadDuty DEF MayPrecede, Plans

LEMMA PlansOweNothing ==
  ASSUME NEW q, NEW n, q[n].do \in Plans
  PROVE  Duty(q, n)
BY DEF Duty, WriteDuty, RewriteDuty, CommitDuty, TrimDuty, ReportDuty, Plans

LEMMA FitsNone ==
  ASSUME job \in Seq(Tasks), job # <<>>
  PROVE  Fits(<<>>) /\ Tail(job) = <<>> \o Tail(job)
BY DEF Fits, Ordered

LEMMA FitsOne ==
  ASSUME NEW t \in Tasks, Single(t),
         \A j \in DOMAIN job \ {1} : MayPrecede(t, job[j])
  PROVE  /\ Fits(<<t>>) /\ DOMAIN <<t>> = {1} /\ <<t>>[1] = t
<1>1. <<t>> \in Seq(Tasks) /\ DOMAIN <<t>> = {1} /\ <<t>>[1] = t
  OBVIOUS
<1>2. Ordered(<<t>>)
  BY <1>1 DEF Ordered
<1> QED
  BY <1>1, <1>2 DEF Fits

LEMMA FitsTwo ==
  ASSUME NEW t \in Tasks, Single(t), NEW u \in Tasks, Single(u), MayPrecede(t, u),
         \A j \in DOMAIN job \ {1} : MayPrecede(t, job[j]) /\ MayPrecede(u, job[j])
  PROVE  /\ Fits(<<t, u>>) /\ DOMAIN <<t, u>> = {1, 2}
         /\ <<t, u>>[1] = t /\ <<t, u>>[2] = u
<1>1. /\ <<t, u>> \in Seq(Tasks) /\ DOMAIN <<t, u>> = {1, 2}
      /\ <<t, u>>[1] = t /\ <<t, u>>[2] = u
  OBVIOUS
<1>2. Ordered(<<t, u>>)
  BY <1>1 DEF Ordered
<1> QED
  BY <1>1, <1>2 DEF Fits

LEMMA PlansPlanned ==
  ASSUME NEW p \in Seq(Tasks),
         \A n \in DOMAIN p : p[n].do \in Plans /\ Single(p[n])
  PROVE  /\ Ordered(p) /\ \A n \in DOMAIN p : Single(p[n]) /\ Duty(p, n)
<1>1. Ordered(p)
  BY DEF Ordered, MayPrecede
<1>2. \A n \in DOMAIN p : Duty(p, n)
  BY PlansOweNothing
<1> QED
  BY <1>1, <1>2

\* Where an operation ends, in whatever way, nothing is owed.
LEMMA StopsTasked ==
  ASSUME Stops
  PROVE  job' \in Seq(Tasks) /\ Tasked'
<1>1. <<>> \in Seq(Tasks) /\ DOMAIN <<>> = {}
  OBVIOUS
<1> QED
  BY <1>1 DEF Stops, Tasked, Ordered

LEMMA BeginsTasked ==
  ASSUME NEW p \in Seq(Tasks), job' = p,
         \A n \in DOMAIN p : p[n].do \in Plans /\ Single(p[n])
  PROVE  job' \in Seq(Tasks) /\ Tasked'
<1>1. Ordered(p) /\ \A n \in DOMAIN p : Single(p[n])
  BY PlansPlanned
<1>2. \A n \in DOMAIN p : Duty(job, n)'
  BY DEF Duty, WriteDuty, RewriteDuty, CommitDuty, TrimDuty, ReportDuty, Plans
<1> QED
  BY <1>1, <1>2 DEF Tasked

\* Nothing moves but the list; the remains of rewrites may go and the audit's
\* files may break.
Calm ==
  /\ UNCHANGED <<kept, scraps, buried, outbox, ledger, history>>
  /\ scratch' \subseteq scratch /\ broken' \subseteq {"outbox", "ledger"}
  /\ faults' \in 0..MaxFaults

LEMMA CalmIsSteady ==
  ASSUME Calm
  PROVE  /\ Steady
         /\ \A e : OnRecord(e)' = OnRecord(e) /\ IsRecorded(e)' = IsRecorded(e)
         /\ \A m : Gone(m) => Gone(m)'
<1>1. \A e : OnRecord(e)' = OnRecord(e) /\ IsRecorded(e)' = IsRecorded(e)
  BY DEF OnRecord, IsRecorded, audit, Calm
<1>2. \A m : Gone(m) => Gone(m)'
  BY DEF Gone, Calm
<1> QED
  BY <1>1, <1>2 DEF Steady, Calm

LEMMA CalmInv ==
  ASSUME IInv, Calm, job' \in Seq(Tasks), Tasked'
  PROVE  IInv'
<1> USE DEF IInv, Calm, audit, history
<1>1. /\ \A e : OnRecord(e)' = OnRecord(e)
      /\ \A m : Gone(m) => Gone(m)'
  BY CalmIsSteady
<1>2. Lines' = Lines
  BY DEF Lines
<1>3. TypeOK'
  BY <1>2 DEF TypeOK, LedgerRows
<1>4. Finite'
  BY <1>2 DEF Finite
<1>5. Promotions'
  BY <1>1 DEF Promotions
<1>6. Remembered'
  BY <1>1 DEF Remembered, Traces, ErasureOnRecord
<1>7. ErasedIsGone'
  BY <1>1 DEF ErasedIsGone
<1> QED
  BY <1>3, <1>4, <1>5, <1>6, <1>7

-----------------------------------------------------------------------------
(* The operations begin, and plans become tasks.                           *)

LEMMA BeginsInv ==
  ASSUME IInv, NEW p \in Seq(Tasks), Begins(p),
         \A n \in DOMAIN p : p[n].do \in Plans /\ Single(p[n])
  PROVE  IInv'
<1>1. job' \in Seq(Tasks) /\ Tasked'
  BY BeginsTasked DEF Begins
<1>2. Calm
  BY DEF Begins, IInv, TypeOK, Calm, files, audit, history
<1> QED
  BY <1>1, <1>2, CalmInv

LEMMA PlanInv ==
  ASSUME IInv, NEW what \in Plans, NEW S \in SUBSET Memories,
         Single(Ask(what, S)), Begins(<<Project, Ask(what, S)>>)
  PROVE  IInv'
<1> DEFINE p == <<Project, Ask(what, S)>>
<1>1. Ask(what, S) \in Tasks /\ Project \in Tasks
  BY TaskTypes
<1>2. Ask(what, S).do = what /\ Project.do = "project"
  BY TaskFields
<1>3. p \in Seq(Tasks) /\ DOMAIN p = {1, 2} /\ p[1] = Project /\ p[2] = Ask(what, S)
  BY <1>1
<1>4. Single(Project) /\ Project.do \in Plans
  BY <1>2 DEF Single, Plans
<1>5. \A n \in DOMAIN p : p[n].do \in Plans /\ Single(p[n])
  BY <1>2, <1>3, <1>4
<1> QED
  BY <1>3, <1>5, BeginsInv

LEMMA ListInv ==
  ASSUME IInv, List
  PROVE  IInv'
<1> DEFINE p == <<Project>>
<1>1. Project \in Tasks /\ Project.do = "project"
  BY TaskTypes, TaskFields
<1>2. p \in Seq(Tasks) /\ DOMAIN p = {1} /\ p[1] = Project
  BY <1>1
<1>3. \A n \in DOMAIN p : p[n].do \in Plans /\ Single(p[n])
  BY <1>1, <1>2 DEF Single, Plans
<1> QED
  BY <1>2, <1>3, BeginsInv DEF List

LEMMA RequestInv ==
  ASSUME IInv, NEW m \in Memories, Promote(m) \/ Delete(m) \/ Restore(m)
  PROVE  IInv'
<1>1. ASSUME NEW what \in {"promote", "delete", "restore"},
             what = "promote" => m \in Reviewed
      PROVE  what \in Plans /\ Single(Ask(what, {m}))
  <2>1. Ask(what, {m}).do = what /\ Ask(what, {m}).of = {m}
    BY TaskFields
  <2> QED
    BY <1>1, <2>1 DEF Single, Plans
<1>2. CASE Promote(m)
  BY <1>1, <1>2, PlanInv DEF Promote
<1>3. CASE Delete(m)
  BY <1>1, <1>3, PlanInv DEF Delete
<1>4. CASE Restore(m)
  BY <1>1, <1>4, PlanInv DEF Restore
<1> QED
  BY <1>2, <1>3, <1>4

LEMMA RequestManyInv ==
  ASSUME IInv, NEW S \in SUBSET Memories, Erase(S) \/ Clear(S)
  PROVE  IInv'
<1>1. ASSUME NEW what \in {"erase", "clear"}
      PROVE  what \in Plans /\ Single(Ask(what, S))
  <2>1. Ask(what, S).do = what
    BY TaskFields
  <2> QED
    BY <1>1, <2>1 DEF Single, Plans
<1>2. CASE Erase(S)
  BY <1>1, <1>2, PlanInv DEF Erase
<1>3. CASE Clear(S)
  BY <1>1, <1>3, PlanInv DEF Clear
<1> QED
  BY <1>2, <1>3

\* A memory of the user's own needs no row.
LEMMA CreateInv ==
  ASSUME IInv, NEW m \in Memories, Create(m)
  PROVE  IInv'
<1> DEFINE w == Write("created", m)
           p == <<w, Project>>
<1>1. w \in Tasks /\ w.do = "write" /\ w.of = {m}
  BY TaskTypes, TaskFields
<1>2. Project \in Tasks /\ Project.do = "project"
  BY TaskTypes, TaskFields
<1> HIDE DEF w
<1>3. p \in Seq(Tasks) /\ DOMAIN p = {1, 2} /\ p[1] = w /\ p[2] = Project
  BY <1>1, <1>2
<1>4. Single(w) /\ Single(Project)
  BY <1>1, <1>2 DEF Single
<1>5. MayPrecede(w, Project)
  BY <1>2 DEF MayPrecede, Plans
<1>6. job' = p /\ m \notin Reviewed
  BY DEF Create, Begins, w
<1>7. Ordered(p)
  BY <1>3, <1>5 DEF Ordered
<1> HIDE DEF p
<1>8. Duty(job, 1)'
  BY <1>1, <1>3, <1>6 DEF Duty, WriteDuty, RewriteDuty, CommitDuty, TrimDuty, ReportDuty
<1>9. Duty(job, 2)'
  BY <1>2, <1>3, <1>6 DEF Duty, WriteDuty, RewriteDuty, CommitDuty, TrimDuty, ReportDuty
<1>10. job' \in Seq(Tasks) /\ Tasked'
  BY <1>3, <1>4, <1>6, <1>7, <1>8, <1>9 DEF Tasked
<1>11. Calm
  BY DEF Create, Begins, IInv, TypeOK, Calm, files, audit, history
<1> QED
  BY <1>10, <1>11, CalmInv

\* What is in the log is in the copy; what is in neither has its row.
LEMMA CopyInv ==
  ASSUME IInv, NEW b \in Backups, Copy(b)
  PROVE  IInv'
<1> USE DEF IInv, Copy, audit, history
<1>1. b # Log /\ b \in Files /\ Log \in Files
  BY ConstantsFit DEF Files
<1>2. kept'[Log] = kept[Log] /\ scraps'[Log] = scraps[Log] /\ scratch' = scratch
  BY <1>1 DEF TypeOK
<1>3. /\ kept' \in [Files -> SUBSET Memories] /\ scraps' \in [Files -> SUBSET Memories]
      /\ kept'[b] = kept[Log] /\ scraps'[b] = scraps[Log]
      /\ \A f \in Files \ {b} : kept'[f] = kept[f] /\ scraps'[f] = scraps[f]
  BY <1>1 DEF TypeOK
<1>4. ASSUME NEW m, Gone(m)
      PROVE  Gone(m)'
  <2>1. ASSUME NEW f \in Files
        PROVE  m \notin kept'[f] \cup scraps'[f]
    <3>1. CASE f = b
      BY <1>1, <1>3, <1>4, <3>1 DEF Gone
    <3>2. CASE f # b
      BY <1>3, <1>4, <3>2 DEF Gone
    <3> QED
      BY <3>1, <3>2
  <2> QED
    BY <1>2, <1>4, <2>1 DEF Gone
<1>5. \A e : OnRecord(e)' = OnRecord(e)
  BY DEF OnRecord, IsRecorded
<1>6. Lines' = Lines
  BY DEF Lines
<1>7. TypeOK'
  BY <1>2, <1>3, <1>6 DEF TypeOK, LedgerRows
<1>8. Finite'
  BY <1>6 DEF Finite
<1>9. Promotions'
  BY <1>2, <1>5 DEF Promotions
<1>10. Remembered'
  BY <1>2, <1>5 DEF Remembered, Traces, ErasureOnRecord
<1>11. ErasedIsGone'
  BY <1>4 DEF ErasedIsGone
<1>12. Tasked'
  BY DEF Tasked, Ordered
<1> QED
  BY <1>7, <1>8, <1>9, <1>10, <1>11, <1>12

LEMMA StopsInv ==
  ASSUME IInv, Stops, Calm
  PROVE  IInv'
BY StopsTasked, CalmInv

\* A step that only replaces the head of the list.
LEMMA ReplacesInv ==
  ASSUME IInv, Calm,
         job # <<>>, NEW p, Fits(p), job' = p \o Tail(job), TakesOver(p),
         \A n \in DOMAIN p : Duty(p, n)'
  PROVE  IInv'
<1>1. Steady
  BY CalmIsSteady
<1>2. job' \in Seq(Tasks) /\ Tasked'
  BY <1>1, StaysTasked DEF IInv, TypeOK
<1> QED
  BY <1>2, CalmInv

LEMMA GoesInv ==
  ASSUME IInv, Calm,
         job # <<>>, Goes, TakesOver(<<>>)
  PROVE  IInv'
<1>1. Fits(<<>>) /\ Tail(job) = <<>> \o Tail(job)
  BY FitsNone DEF IInv, TypeOK
<1>2. \A n \in DOMAIN <<>> : Duty(<<>>, n)'
  OBVIOUS
<1> QED
  BY <1>1, <1>2, ReplacesInv DEF Goes

LEMMA DueHead ==
  ASSUME IInv, NEW do, Due(do)
  PROVE  /\ job \in Seq(Tasks) /\ job # <<>> /\ Tasked
         /\ Head(job) = job[1] /\ job[1].do = do /\ job[1] \in Tasks
BY HeadOfList DEF IInv, TypeOK, Due

LEMMA PlansTakeOver ==
  ASSUME NEW p, job[1].do \in Plans
  PROVE  TakesOver(p)
BY DEF TakesOver, Plans

LEMMA PromotionInv ==
  ASSUME IInv, job # <<>>, job[1].do \in Plans,
         Calm,
         NEW m \in Memories, m \in Reviewed, Runs(Promotion(m))
  PROVE  IInv'
<1>0. job \in Seq(Tasks) /\ Tasked
  BY DEF IInv, TypeOK
<1> DEFINE e == Promoted(m)
           a == Stage({e})
           b == Write("created", m)
           c == Commit({e})
           d == Project
           p == <<a, b, c, d>>
<1>1. e \in Event /\ e.kind = "promoted" /\ e.mem = m
  BY DEF Promoted, Event, Kind
<1>2. a \in Tasks /\ b \in Tasks /\ c \in Tasks /\ d \in Tasks
  BY <1>1, TaskTypes
<1>3. /\ a.do = "stage" /\ a.events = {e} /\ b.do = "write" /\ b.of = {m}
      /\ c.do = "commit" /\ c.events = {e} /\ d.do = "project"
  BY TaskFields
<1>4. job' = p \o Tail(job)
  BY DEF Runs, Promotion
<1> HIDE DEF a, b, c, d, e
<1>5. /\ p \in Seq(Tasks) /\ DOMAIN p = 1..4
      /\ p[1] = a /\ p[2] = b /\ p[3] = c /\ p[4] = d
  BY <1>2
<1> HIDE DEF p
<1>6. /\ MayPrecede(a, b) /\ MayPrecede(a, c) /\ MayPrecede(a, d)
      /\ MayPrecede(b, c) /\ MayPrecede(b, d) /\ MayPrecede(c, d)
  BY <1>1, <1>3 DEF MayPrecede, Plans
<1>7. Ordered(p)
  BY <1>5, <1>6 DEF Ordered
<1>8. Single(a) /\ Single(b) /\ Single(c) /\ Single(d)
  BY <1>3 DEF Single
<1>9. Fits(p)
  <2>1. \A x : \A j \in DOMAIN job \ {1} : MayPrecede(x, job[j])
    BY <1>0, PlansBehindPlans DEF MayPrecede
  <2>2. \A n \in DOMAIN p : Single(p[n])
    BY <1>5, <1>8
  <2> QED
    BY <1>5, <1>7, <2>1, <2>2 DEF Fits
<1>10. StagedBefore(p, 2, e) /\ StagedBefore(p, 3, e) /\ WrittenBefore(p, 3, m)
  BY <1>3, <1>5 DEF StagedBefore, WrittenBefore
<1>11. Duty(p, 1)' /\ Duty(p, 4)'
  BY <1>3, <1>5 DEF Duty, WriteDuty, RewriteDuty, CommitDuty, TrimDuty, ReportDuty
<1>12. Duty(p, 2)'
  BY <1>3, <1>5, <1>10 DEF Duty, WriteDuty, RewriteDuty, CommitDuty, TrimDuty,
                           ReportDuty, e, StagedBefore
<1>13. Duty(p, 3)'
  BY <1>1, <1>3, <1>5, <1>10 DEF Duty, WriteDuty, RewriteDuty, CommitDuty, TrimDuty,
                           ReportDuty, StagedBefore, WrittenBefore
<1>14. \A n \in DOMAIN p : Duty(p, n)'
  BY <1>5, <1>11, <1>12, <1>13
<1>15. TakesOver(p)
  BY PlansTakeOver
<1> QED
  BY <1>4, <1>9, <1>14, <1>15, ReplacesInv

LEMMA PromotesInv ==
  ASSUME IInv, Promotes
  PROVE  IInv'
<1> DEFINE m == About(Head(job))
<1>1. /\ job \in Seq(Tasks) /\ job # <<>> /\ Tasked
      /\ Head(job) = job[1] /\ job[1].do = "promote"
  BY DueHead DEF Promotes
<1>2. Calm
  BY DEF Promotes, IInv, TypeOK, Calm, files, audit, history
<1>3. m \in Memories /\ m \in Reviewed
  <2>1. Single(job[1])
    BY <1>1, HeadDuty
  <2>2. PICK x \in Memories : job[1].of = {x}
    BY <1>1, <2>1 DEF Single
  <2>3. m = x
    BY <1>1, <2>2 DEF About
  <2> QED
    BY <1>1, <2>1, <2>2, <2>3 DEF Single
<1> HIDE DEF m
<1>4. CASE Stops
  BY <1>2, <1>4, StopsInv
<1>5. CASE Runs(Promotion(m))
  BY <1>1, <1>2, <1>3, <1>5, PromotionInv DEF Plans
<1> QED
  BY <1>4, <1>5 DEF Promotes, m

\* A memory that is in the log to be deleted or restored has its row already.
LEMMA RowInv ==
  ASSUME IInv, job # <<>>, job[1].do \in Plans,
         Calm,
         NEW row \in {"deleted", "restored"}, NEW m \in kept[Log],
         Runs(<<Write(row, m), Project>>)
  PROVE  IInv'
<1> DEFINE w == Write(row, m)
           p == <<w, Project>>
<1>1. job \in Seq(Tasks) /\ Tasked /\ m \in Memories
  BY DEF IInv, TypeOK, Files
<1>2. w \in Tasks /\ w.do = "write" /\ w.of = {m}
  BY <1>1, TaskTypes, TaskFields
<1>3. Project \in Tasks /\ Project.do = "project"
  BY TaskTypes, TaskFields
<1>4. job' = p \o Tail(job)
  BY DEF Runs
<1> HIDE DEF w
<1>5. Single(w) /\ Single(Project) /\ MayPrecede(w, Project)
  BY <1>1, <1>2, <1>3 DEF Single, MayPrecede, Plans
<1>6. \A j \in DOMAIN job \ {1} :
        MayPrecede(w, job[j]) /\ MayPrecede(Project, job[j])
  BY <1>1, PlansBehindPlans DEF MayPrecede
<1>7. Fits(p) /\ DOMAIN p = {1, 2} /\ p[1] = w /\ p[2] = Project
  BY <1>2, <1>3, <1>5, <1>6, FitsTwo
<1> HIDE DEF p
<1>8. m \in Reviewed => OnRecord(Promoted(m))'
  BY CalmIsSteady DEF IInv, Promotions
<1>9. Duty(p, 1)'
  BY <1>2, <1>7, <1>8 DEF Duty, WriteDuty, RewriteDuty, CommitDuty, TrimDuty,
                          ReportDuty
<1>10. Duty(p, 2)'
  BY <1>3, <1>7 DEF Duty, WriteDuty, RewriteDuty, CommitDuty, TrimDuty, ReportDuty
<1>11. TakesOver(p)
  BY PlansTakeOver
<1> QED
  BY <1>4, <1>7, <1>9, <1>10, <1>11, ReplacesInv

LEMMA DeletesInv ==
  ASSUME IInv, Deletes
  PROVE  IInv'
<1> DEFINE m == About(Head(job))
<1>1. job # <<>> /\ job[1].do \in Plans
  BY DueHead DEF Deletes, Plans
<1>2. Calm
  BY DEF Deletes, IInv, TypeOK, Calm, files, audit, history
<1> HIDE DEF m
<1>3. CASE Stops
  BY <1>2, <1>3, StopsInv
<1>4. CASE m \in kept[Log] /\ Runs(<<Write("deleted", m), Project>>)
  BY <1>1, <1>2, <1>4, RowInv
<1> QED
  BY <1>3, <1>4 DEF Deletes, m

LEMMA RestoresInv ==
  ASSUME IInv, Restores
  PROVE  IInv'
<1> DEFINE m == About(Head(job))
<1>1. job # <<>> /\ job[1].do \in Plans
  BY DueHead DEF Restores, Plans
<1>2. Calm
  BY DEF Restores, IInv, TypeOK, Calm, files, audit, history
<1>3. buried \subseteq kept[Log]
  BY DEF IInv, TypeOK
<1> HIDE DEF m
<1>4. CASE Stops
  BY <1>2, <1>4, StopsInv
<1>5. CASE m \in buried /\ Runs(<<Write("restored", m), Project>>)
  BY <1>1, <1>2, <1>3, <1>5, RowInv
<1> QED
  BY <1>4, <1>5 DEF Restores, m

\* What is committed at a look into the store is so.
LEMMA ProjectsInv ==
  ASSUME IInv, Projects
  PROVE  IInv'
<1>1. /\ job \in Seq(Tasks) /\ job # <<>> /\ Tasked
      /\ Head(job) = job[1] /\ job[1].do = "project"
  BY DueHead DEF Projects
<1>2. Calm /\ scratch' = {}
  BY DEF Projects, IInv, TypeOK, Calm, files, audit, history
<1>3. CASE Stops
  BY <1>2, <1>3, StopsInv
<1>4. ASSUME NEW es, es = {e \in outbox : Done(e)}, Runs(<<Commit(es)>>)
      PROVE  IInv'
  <2> DEFINE c == Commit(es)
             p == <<c>>
  <2>1. es \subseteq outbox /\ es \subseteq Event
    BY <1>4 DEF IInv, TypeOK
  <2>2. c \in Tasks /\ c.do = "commit" /\ c.events = es
    BY <2>1, TaskTypes, TaskFields
  <2>3. job' = p \o Tail(job)
    BY <1>4 DEF Runs
  <2> HIDE DEF c
  <2>4. Single(c) /\ \A j \in DOMAIN job \ {1} : MayPrecede(c, job[j])
    BY <1>1, <2>2, PlansBehindPlans DEF Single, MayPrecede, Plans
  <2>5. Fits(p) /\ DOMAIN p = {1} /\ p[1] = c
    BY <2>2, <2>4, FitsOne
  <2> HIDE DEF p
  <2>6. ASSUME NEW e \in es
        PROVE  /\ OnRecord(e)'
               /\ e.kind = "promoted" => e.mem \in kept'[Log]
               /\ e.kind # "promoted" => Gone(e.mem)'
    <3>1. e \in outbox /\ Done(e)
      BY <1>4
    <3>2. OnRecord(e)'
      BY <1>2, <3>1 DEF OnRecord, Calm, audit
    <3>3. e.kind = "promoted" => e.mem \in kept'[Log]
      BY <1>2, <3>1 DEF Done, Calm
    <3>4. e.kind # "promoted" => Gone(e.mem)'
      BY <1>2, <3>1 DEF Done, Calm, Nowhere, Traces, Targets, Gone
    <3> QED
      BY <3>2, <3>3, <3>4
  <2>7. Duty(p, 1)'
    BY <2>2, <2>5, <2>6 DEF Duty, WriteDuty, RewriteDuty, CommitDuty, TrimDuty,
                            ReportDuty
  <2>8. TakesOver(p)
    BY <1>1, PlansTakeOver DEF Plans
  <2> QED
    BY <1>1, <1>2, <2>3, <2>5, <2>7, <2>8, ReplacesInv
<1> QED
  BY <1>3, <1>4 DEF Projects

LEMMA ClearsInv ==
  ASSUME IInv, Clears
  PROVE  IInv'
<1> DEFINE S == (kept[Log] \ buried) \cap Head(job).of
<1>1. /\ job \in Seq(Tasks) /\ job # <<>> /\ Tasked
      /\ Head(job) = job[1] /\ job[1].do = "clear" /\ job[1] \in Tasks
  BY DueHead DEF Clears
<1>2. Calm
  BY DEF Clears, IInv, TypeOK, Calm, files, audit, history
<1>3. S \in SUBSET Memories
  BY <1>1 DEF Tasks
<1>4. Runs(<<Ask("each", S)>>)
  BY DEF Clears
<1> HIDE DEF S
<1>5. ASSUME NEW M \in SUBSET Memories, Runs(<<Ask("each", M)>>)
      PROVE  IInv'
  <2> DEFINE c == Ask("each", M)
             p == <<c>>
  <2>1. c \in Tasks /\ c.do = "each"
    BY TaskTypes, TaskFields DEF Plans
  <2>2. job' = p \o Tail(job)
    BY <1>5 DEF Runs
  <2> HIDE DEF c
  <2>3. Single(c) /\ \A j \in DOMAIN job \ {1} : MayPrecede(c, job[j])
    BY <1>1, <2>1, PlansBehindPlans DEF Single, MayPrecede, Plans
  <2>4. Fits(p) /\ DOMAIN p = {1} /\ p[1] = c
    BY <2>1, <2>3, FitsOne
  <2> HIDE DEF p
  <2>5. Duty(p, 1)'
    BY <2>1, <2>4 DEF Duty, WriteDuty, RewriteDuty, CommitDuty, TrimDuty, ReportDuty
  <2>6. TakesOver(p)
    BY <1>1, PlansTakeOver DEF Plans
  <2> QED
    BY <1>1, <1>2, <2>2, <2>4, <2>5, <2>6, ReplacesInv
<1> QED
  BY <1>3, <1>4, <1>5

LEMMA DeletesNextInv ==
  ASSUME IInv, DeletesNext
  PROVE  IInv'
<1>1. /\ job \in Seq(Tasks) /\ job # <<>> /\ Tasked
      /\ Head(job) = job[1] /\ job[1].do = "each" /\ job[1] \in Tasks
  BY DueHead DEF DeletesNext
<1>2. Calm
  BY DEF DeletesNext, IInv, TypeOK, Calm, files, audit, history
<1>3. ASSUME NEW m \in Memories, NEW S \in SUBSET Memories,
             Runs(<<Project, Ask("delete", {m}), Ask("each", S)>>)
      PROVE  IInv'
  <2> DEFINE a == Ask("delete", {m})
             b == Ask("each", S)
             p == <<Project, a, b>>
  <2>1. /\ a \in Tasks /\ a.do = "delete" /\ a.of = {m}
        /\ b \in Tasks /\ b.do = "each"
    BY TaskTypes, TaskFields DEF Plans
  <2>2. Project \in Tasks /\ Project.do = "project"
    BY TaskTypes, TaskFields
  <2>3. job' = p \o Tail(job)
    BY <1>3 DEF Runs
  <2> HIDE DEF a, b
  <2>4. p \in Seq(Tasks) /\ DOMAIN p = 1..3 /\ p[1] = Project /\ p[2] = a /\ p[3] = b
    BY <2>1, <2>2
  <2> HIDE DEF p
  <2>5. ASSUME NEW n \in DOMAIN p
        PROVE  p[n].do \in Plans /\ Single(p[n])
    <3>1. n \in {1, 2, 3}
      BY <2>4
    <3> QED
      BY <2>1, <2>2, <2>4, <3>1 DEF Plans, Single
  <2>6. Ordered(p) /\ \A n \in DOMAIN p : Single(p[n])
    BY <2>4, <2>5, PlansPlanned
  <2>7. \A n \in DOMAIN p : Duty(p, n)'
    BY <2>5 DEF Duty, WriteDuty, RewriteDuty, CommitDuty, TrimDuty, ReportDuty, Plans
  <2>8. \A n \in DOMAIN p, j \in DOMAIN job \ {1} : MayPrecede(p[n], job[j])
    BY <1>1, PlansBehindPlans DEF MayPrecede, Plans
  <2>9. Fits(p)
    BY <2>4, <2>6, <2>8 DEF Fits
  <2>10. TakesOver(p)
    BY <1>1, PlansTakeOver DEF Plans
  <2> QED
    BY <1>1, <1>2, <2>3, <2>7, <2>9, <2>10, ReplacesInv
<1>4. PICK m \in Head(job).of :
        Runs(<<Project, Ask("delete", {m}), Ask("each", Head(job).of \ {m})>>)
  BY DEF DeletesNext
<1>5. m \in Memories /\ Head(job).of \ {m} \in SUBSET Memories
  BY <1>1, <1>4 DEF Tasks
<1> QED
  BY <1>3, <1>4, <1>5

\* The rows of an erase are staged before anything of it is done.
LEMMA ErasureInv ==
  ASSUME IInv, job # <<>>, job[1].do \in Plans, Calm,
         NEW S \in SUBSET Memories, NEW es \in SUBSET Event,
         \A e \in es : e.kind # "promoted" /\ e.mem \in S,
         \A m \in S : \E e \in Erasures(m) : e \in es,
         Runs(<<Stage(es), Rewrite(S), Ask("verify", S), Commit(es),
                Ask("report", S)>>)
  PROVE  IInv'
<1> DEFINE a == Stage(es)
           b == Rewrite(S)
           c == Ask("verify", S)
           d == Commit(es)
           z == Ask("report", S)
           p == <<a, b, c, d, z>>
<1>1. job \in Seq(Tasks) /\ Tasked
  BY DEF IInv, TypeOK
<1>2. a \in Tasks /\ b \in Tasks /\ c \in Tasks /\ d \in Tasks /\ z \in Tasks
  BY TaskTypes
<1>3. /\ a.do = "stage" /\ a.events = es /\ b.do = "rewrite" /\ b.of = S
      /\ c.do = "verify" /\ c.of = S /\ d.do = "commit" /\ d.events = es
      /\ z.do = "report" /\ z.of = S
  BY TaskFields
<1>4. job' = p \o Tail(job)
  BY DEF Runs
<1> HIDE DEF a, b, c, d, z
<1>5. /\ p \in Seq(Tasks) /\ DOMAIN p = 1..5
      /\ p[1] = a /\ p[2] = b /\ p[3] = c /\ p[4] = d /\ p[5] = z
  BY <1>2
<1> HIDE DEF p
<1>6. /\ MayPrecede(a, b) /\ MayPrecede(a, c) /\ MayPrecede(a, d) /\ MayPrecede(a, z)
      /\ MayPrecede(b, c) /\ MayPrecede(b, d) /\ MayPrecede(b, z)
      /\ MayPrecede(c, d) /\ MayPrecede(c, z) /\ MayPrecede(d, z)
  BY <1>3 DEF MayPrecede, Plans
<1>7. Ordered(p)
  <2> SUFFICES ASSUME NEW i \in DOMAIN p, NEW j \in DOMAIN p, i < j
               PROVE  MayPrecede(p[i], p[j])
    BY DEF Ordered
  <2>1. i \in {1, 2, 3, 4} /\ j \in {2, 3, 4, 5}
    BY <1>5
  <2>2. \/ i = 1 /\ j \in {2, 3, 4, 5}
        \/ i = 2 /\ j \in {3, 4, 5}
        \/ i = 3 /\ j \in {4, 5}
        \/ i = 4 /\ j = 5
    BY <2>1
  <2> QED
    BY <1>5, <1>6, <2>2
<1>8. Single(a) /\ Single(b) /\ Single(c) /\ Single(d) /\ Single(z)
  BY <1>3 DEF Single
<1>9. \A n \in DOMAIN p : n \in {1, 2, 3, 4, 5}
  BY <1>5
<1>10. Fits(p)
  <2>1. \A x : \A j \in DOMAIN job \ {1} : MayPrecede(x, job[j])
    BY <1>1, PlansBehindPlans DEF MayPrecede
  <2>2. \A n \in DOMAIN p : Single(p[n])
    BY <1>5, <1>8, <1>9
  <2> QED
    BY <1>5, <1>7, <2>1, <2>2 DEF Fits
<1>11. \A e \in es : StagedBefore(p, 2, e) /\ StagedBefore(p, 4, e)
  BY <1>3, <1>5 DEF StagedBefore
<1>12. \A m \in S : VerifiedBefore(p, 4, m) /\ VerifiedBefore(p, 5, m)
  BY <1>3, <1>5 DEF VerifiedBefore
<1>13. Duty(p, 1)'
  BY <1>3, <1>5 DEF Duty, WriteDuty, RewriteDuty, CommitDuty, TrimDuty, ReportDuty
<1>14. Duty(p, 3)'
  BY <1>3, <1>5 DEF Duty, WriteDuty, RewriteDuty, CommitDuty, TrimDuty, ReportDuty
<1>15. Duty(p, 2)'
  <2>1. RewriteDuty(p, 2)'
    BY <1>3, <1>5, <1>11 DEF RewriteDuty, StagedBefore, Erasures
  <2> QED
    BY <1>3, <1>5, <2>1 DEF Duty, WriteDuty, CommitDuty, TrimDuty, ReportDuty
<1>16. Duty(p, 4)'
  <2>1. CommitDuty(p, 4)'
    BY <1>3, <1>5, <1>11, <1>12 DEF CommitDuty, StagedBefore, VerifiedBefore
  <2> QED
    BY <1>3, <1>5, <2>1 DEF Duty, WriteDuty, RewriteDuty, TrimDuty, ReportDuty
<1>17. Duty(p, 5)'
  <2>1. ReportDuty(p, 5)'
    BY <1>3, <1>5, <1>12 DEF ReportDuty, VerifiedBefore
  <2> QED
    BY <1>3, <1>5, <2>1 DEF Duty, WriteDuty, RewriteDuty, TrimDuty, CommitDuty
<1>18. \A n \in DOMAIN p : Duty(p, n)'
  BY <1>9, <1>13, <1>14, <1>15, <1>16, <1>17
<1>19. TakesOver(p)
  BY PlansTakeOver
<1> QED
  BY <1>4, <1>10, <1>18, <1>19, ReplacesInv

LEMMA ErasesInv ==
  ASSUME IInv, Erases
  PROVE  IInv'
<1> DEFINE S == {m \in Head(job).of : ~Nowhere(m)}
           es == {Erased(m) : m \in S}
<1>1. /\ job \in Seq(Tasks) /\ job # <<>> /\ Tasked
      /\ Head(job) = job[1] /\ job[1].do = "erase" /\ job[1] \in Tasks
  BY DueHead DEF Erases
<1>2. Calm
  BY DEF Erases, IInv, TypeOK, Calm, files, audit, history
<1>3. S \in SUBSET Memories
  BY <1>1 DEF Tasks
<1>4. \A m : Erased(m) \in Erasures(m)
  BY DEF Erased, Erasures
<1>5. \A m \in Memories : \A e \in Erasures(m) :
        e \in Event /\ e.kind # "promoted" /\ e.mem = m
  BY DEF Erasures, Event, Kind
<1>6. es \in SUBSET Event
  BY <1>3, <1>4, <1>5
<1>7. \A e \in es : e.kind # "promoted" /\ e.mem \in S
  BY <1>3, <1>4, <1>5
<1>8. \A m \in S : \E e \in Erasures(m) : e \in es
  BY <1>4
<1>9. Stops \/ Runs(<<Stage(es), Rewrite(S), Ask("verify", S), Commit(es),
                      Ask("report", S)>>)
  BY DEF Erases, Erasure
<1> HIDE DEF S, es
<1>10. CASE Stops
  BY <1>2, <1>10, StopsInv
<1>11. CASE Runs(<<Stage(es), Rewrite(S), Ask("verify", S), Commit(es),
                   Ask("report", S)>>)
  BY <1>1, <1>2, <1>3, <1>6, <1>7, <1>8, <1>11, ErasureInv DEF Plans
<1> QED
  BY <1>9, <1>10, <1>11

LEMMA LoopEndsInv ==
  ASSUME IInv, LoopEnds
  PROVE  IInv'
<1>1. PICK do \in {"stage", "commit", "rewrite", "each"} :
        Due(do) /\ (do = "stage" => Head(job).events = {})
  BY DEF LoopEnds
<1>2. job # <<>> /\ Head(job) = job[1] /\ job[1].do = do
  BY <1>1, DueHead
<1>3. Calm /\ Goes
  BY DEF LoopEnds, IInv, TypeOK, Calm, files, audit, history
<1>4. TakesOver(<<>>)
  BY <1>1, <1>2 DEF TakesOver
<1> QED
  BY <1>2, <1>3, <1>4, GoesInv

\* A row less to commit, and no other task is touched.
LEMMA DroppedRowFits ==
  ASSUME IInv, Due("commit"), NEW e
  PROVE  /\ Fits(<<Without(e)>>) /\ DOMAIN <<Without(e)>> = {1}
         /\ Without(e) \in Tasks /\ Without(e).do = "commit"
         /\ Without(e).events = job[1].events \ {e}
         /\ \A j \in DOMAIN job \ {1} : MayPrecede(Without(e), job[j])
<1>1. /\ job \in Seq(Tasks) /\ job # <<>> /\ Tasked
      /\ Head(job) = job[1] /\ job[1].do = "commit" /\ job[1] \in Tasks
  BY DueHead
<1> DEFINE t == Without(e)
<1>2. /\ t \in Tasks /\ t.do = "commit" /\ t.events = job[1].events \ {e}
  BY <1>1 DEF Without, Tasks
<1> HIDE DEF t
<1>3. Single(t)
  BY <1>2 DEF Single
<1>4. \A j \in DOMAIN job \ {1} : MayPrecede(t, job[j])
  BY <1>1, <1>2, HeadDuty DEF MayPrecede
<1>5. Fits(<<t>>) /\ DOMAIN <<t>> = {1}
  BY <1>2, <1>3, <1>4, FitsOne
<1> QED
  BY <1>2, <1>4, <1>5 DEF t

LEMMA DroppedRowInv ==
  ASSUME IInv, Due("commit"), Calm, NEW e, Runs(<<Without(e)>>)
  PROVE  IInv'
<1>1. /\ job \in Seq(Tasks) /\ job # <<>> /\ Tasked
      /\ Head(job) = job[1] /\ job[1].do = "commit"
  BY DueHead
<1>2. ASSUME NEW t, t = Without(e)
      PROVE  IInv'
  <2>1. /\ Fits(<<t>>) /\ DOMAIN <<t>> = {1} /\ <<t>>[1] = t
        /\ t.do = "commit" /\ t.events \subseteq job[1].events
    BY <1>2, DroppedRowFits
  <2>2. \A x \in job[1].events :
          /\ OnRecord(x)'
          /\ x.kind = "promoted" => x.mem \in kept'[Log]
          /\ x.kind # "promoted" => Gone(x.mem)'
    <3>1. CommitDuty(job, 1)
      BY <1>1, HeadDuty DEF Duty
    <3>2. \A x \in job[1].events :
            /\ OnRecord(x)
            /\ x.kind = "promoted" => x.mem \in kept[Log]
            /\ x.kind # "promoted" => Gone(x.mem)
      BY <1>1, <3>1, HeadDuty DEF CommitDuty
    <3> QED
      BY <3>2, CalmIsSteady DEF Calm
  <2>3. Duty(<<t>>, 1)'
    BY <2>1, <2>2 DEF Duty, WriteDuty, RewriteDuty, CommitDuty, TrimDuty, ReportDuty
  <2>4. TakesOver(<<t>>)
    BY <1>1 DEF TakesOver
  <2>5. job' = <<t>> \o Tail(job)
    BY <1>2 DEF Runs
  <2> QED
    BY <1>1, <2>1, <2>3, <2>4, <2>5, ReplacesInv
<1> QED
  BY <1>2

LEMMA CannotCommitInv ==
  ASSUME IInv, CannotCommit
  PROVE  IInv'
<1>1. Calm
  BY DEF CannotCommit, IInv, TypeOK, Calm, files, audit, history
<1> QED
  BY <1>1, DroppedRowInv DEF CannotCommit

LEMMA FaultIsCounted ==
  ASSUME IInv, Fault
  PROVE  faults' \in 0..MaxFaults
BY ConstantsFit DEF IInv, TypeOK, Fault

LEMMA BreaksInv ==
  ASSUME IInv, Breaks
  PROVE  IInv'
<1>1. Calm /\ Stops
  BY FaultIsCounted DEF IInv, TypeOK, Breaks, Calm, files, audit, history
<1> QED
  BY <1>1, StopsInv

LEMMA CommitFailsInv ==
  ASSUME IInv, CommitFails
  PROVE  IInv'
<1>1. Calm
  BY FaultIsCounted DEF IInv, TypeOK, CommitFails, Calm, files, audit, history
<1>2. CASE Due("commit") /\ \E e \in Head(job).events : Runs(<<Without(e)>>)
  BY <1>1, <1>2, DroppedRowInv
<1>3. CASE Due("trim") /\ Goes
  <2>1. job # <<>> /\ job[1].do = "trim"
    BY <1>3, DueHead
  <2>2. TakesOver(<<>>)
    BY <2>1 DEF TakesOver
  <2> QED
    BY <1>1, <1>3, <2>1, <2>2, GoesInv
<1> QED
  BY <1>2, <1>3 DEF CommitFails

\* What the look of an erase has not found is away.
LEMMA VerifiesInv ==
  ASSUME IInv, Verifies
  PROVE  IInv'
<1>1. job # <<>> /\ Head(job) = job[1] /\ job[1].do = "verify"
  BY DueHead DEF Verifies
<1>2. Calm /\ scratch' = {}
  BY DEF Verifies, IInv, TypeOK, Calm, files, audit, history
<1>3. CASE Stops
  BY <1>2, <1>3, StopsInv
<1>4. CASE Goes /\ \A m \in Head(job).of : Nowhere(m)
  <2>1. \A m \in job[1].of : Gone(m)'
    BY <1>1, <1>2, <1>4 DEF Nowhere, Targets, Traces, Gone, Calm
  <2>2. TakesOver(<<>>)
    BY <1>1, <2>1 DEF TakesOver
  <2> QED
    BY <1>1, <1>2, <1>4, <2>2, GoesInv
<1> QED
  BY <1>3, <1>4 DEF Verifies

-----------------------------------------------------------------------------
(* The accesses that change something.                                     *)

LEMMA GoesTasked ==
  ASSUME IInv, job # <<>>, Goes, TakesOver(<<>>), Steady
  PROVE  job' \in Seq(Tasks) /\ Tasked'
<1>1. Fits(<<>>) /\ Tail(job) = <<>> \o Tail(job)
  BY FitsNone DEF IInv, TypeOK
<1>2. \A n \in DOMAIN <<>> : Duty(<<>>, n)'
  OBVIOUS
<1> QED
  BY <1>1, <1>2, StaysTasked DEF Goes, IInv, TypeOK

LEMMA ReportsInv ==
  ASSUME IInv, Reports
  PROVE  IInv'
<1> USE DEF IInv, files, audit
<1>1. /\ job \in Seq(Tasks) /\ job # <<>> /\ Tasked
      /\ Head(job) = job[1] /\ job[1].do = "report" /\ job[1] \in Tasks
  BY DueHead DEF Reports
<1>2. \A m \in job[1].of : Gone(m)
  BY <1>1, HeadDuty DEF Duty, ReportDuty
<1>3. /\ \A e : OnRecord(e)' = OnRecord(e)
      /\ \A m : Gone(m)' = Gone(m)
  BY DEF Reports, OnRecord, IsRecorded, Gone
<1>4. Steady /\ TakesOver(<<>>)
  BY <1>1, <1>3 DEF Steady, TakesOver, Reports
<1>5. job' \in Seq(Tasks) /\ Tasked'
  BY <1>1, <1>4, GoesTasked DEF Reports
<1>6. Lines' = Lines
  BY DEF Lines, Reports
<1>7. TypeOK'
  BY <1>1, <1>5, <1>6 DEF TypeOK, LedgerRows, Reports, Tasks
<1>8. Finite'
  BY <1>6 DEF Finite, Reports
<1>9. Promotions' /\ Remembered'
  BY <1>3 DEF Promotions, Remembered, Traces, ErasureOnRecord, Reports
<1>10. ErasedIsGone'
  BY <1>1, <1>2, <1>3 DEF ErasedIsGone, Reports
<1> QED
  BY <1>5, <1>7, <1>8, <1>9, <1>10

\* A memory from a review has its row when it is written.
LEMMA WritesInv ==
  ASSUME IInv, Writes
  PROVE  IInv'
<1> USE DEF IInv, audit
<1>1. /\ job \in Seq(Tasks) /\ job # <<>> /\ Tasked
      /\ Head(job) = job[1] /\ job[1].do = "write"
  BY DueHead DEF Writes
<1>2. PICK m \in Memories : job[1].of = {m}
  BY <1>1, HeadDuty DEF Single
<1>3. About(Head(job)) = m
  BY <1>1, <1>2 DEF About
<1>4. /\ kept' = [kept EXCEPT ![Log] = @ \cup {m}]
      /\ buried' = IF Head(job).row = "deleted" THEN buried \cup {m} ELSE buried \ {m}
      /\ known' = known \cup {m} /\ assured' = assured \ {m}
      /\ Goes /\ UNCHANGED <<scraps, scratch, outbox, ledger, broken, faults>>
  BY <1>3 DEF Writes
<1>5. Log \in Files
  BY DEF Files
<1>6. /\ kept'[Log] = kept[Log] \cup {m}
      /\ \A f \in Files : kept'[f] \subseteq kept[f] \cup {m}
      /\ kept' \in [Files -> SUBSET Memories]
  BY <1>2, <1>4, <1>5 DEF TypeOK
<1>7. \A e : OnRecord(e)' = OnRecord(e)
  BY <1>4 DEF OnRecord, IsRecorded
<1>8. \A x : Gone(x) /\ x # m => Gone(x)'
  BY <1>4, <1>6 DEF Gone
<1>9. m \in Reviewed => OnRecord(Promoted(m))
  BY <1>1, <1>2, HeadDuty DEF Duty, WriteDuty
<1>10. Steady /\ TakesOver(<<>>)
  BY <1>1, <1>2, <1>6, <1>7 DEF Steady, TakesOver
<1>11. job' \in Seq(Tasks) /\ Tasked'
  BY <1>1, <1>4, <1>10, GoesTasked
<1>12. Lines' = Lines
  BY <1>4 DEF Lines
<1>13. buried' \subseteq kept'[Log]
  BY <1>4, <1>6 DEF TypeOK
<1>14. TypeOK'
  BY <1>2, <1>4, <1>6, <1>11, <1>12, <1>13 DEF TypeOK, LedgerRows
<1>15. Finite'
  BY <1>4, <1>12 DEF Finite
<1>16. Promotions'
  BY <1>6, <1>7, <1>9 DEF Promotions
<1>17. Remembered'
  BY <1>4, <1>6, <1>7 DEF Remembered, Traces, ErasureOnRecord
<1>18. ErasedIsGone'
  BY <1>4, <1>8 DEF ErasedIsGone
<1> QED
  BY <1>11, <1>14, <1>15, <1>16, <1>17, <1>18

\* What is rewritten without a memory has the row of its erasure staged.
LEMMA RewritesInv ==
  ASSUME IInv, Rewrites
  PROVE  IInv'
<1> USE DEF IInv, audit, history
<1> DEFINE S == job[1].of
<1>1. /\ job \in Seq(Tasks) /\ job # <<>> /\ Tasked
      /\ Head(job) = job[1] /\ job[1].do = "rewrite" /\ job[1] \in Tasks
  BY DueHead DEF Rewrites
<1>2. PICK f \in Files :
        /\ kept' = [kept EXCEPT ![f] = @ \ S]
        /\ scraps' = [scraps EXCEPT ![f] = @ \ S]
        /\ buried' = IF f = Log THEN buried \ S ELSE buried
        /\ Runs(<<[Head(job) EXCEPT !.files = @ \ {f}]>>)
  BY <1>1 DEF Rewrites
<1>3. UNCHANGED <<scratch, outbox, ledger, broken, faults, known, assured>>
  BY DEF Rewrites
<1>4. Log \in Files
  BY DEF Files
<1>5. /\ kept' \in [Files -> SUBSET Memories] /\ scraps' \in [Files -> SUBSET Memories]
      /\ \A g \in Files : kept'[g] \subseteq kept[g] /\ scraps'[g] \subseteq scraps[g]
      /\ \A m : m \in Traces(Log) => m \in Traces(Log)' \/ m \in S
  BY <1>2, <1>4 DEF TypeOK, Traces
<1>6. \A e : OnRecord(e)' = OnRecord(e)
  BY <1>3 DEF OnRecord, IsRecorded
<1>7. \A m : Gone(m) => Gone(m)'
  BY <1>3, <1>5 DEF Gone
<1>8. RewriteDuty(job, 1) /\ \A e : ~StagedBefore(job, 1, e)
  BY <1>1, HeadDuty DEF Duty
<1>9. \A m \in S : ErasureOnRecord(m)
  BY <1>1, <1>8 DEF RewriteDuty, ErasureOnRecord
<1>10. ASSUME NEW t, t = [Head(job) EXCEPT !.files = @ \ {f}]
       PROVE  job' \in Seq(Tasks) /\ Tasked'
  <2>1. t \in Tasks /\ t.do = "rewrite" /\ t.of = S
    BY <1>1, <1>10 DEF Tasks
  <2>2. Single(t) /\ \A j \in DOMAIN job \ {1} : MayPrecede(t, job[j])
    BY <1>1, <2>1, HeadDuty DEF MayPrecede, Single
  <2>3. Fits(<<t>>) /\ DOMAIN <<t>> = {1} /\ <<t>>[1] = t
    BY <2>1, <2>2, FitsOne
  <2>4. \A m \in t.of : \E e \in Erasures(m) : OnRecord(e)'
    BY <1>6, <1>9, <2>1 DEF ErasureOnRecord
  <2>5. Duty(<<t>>, 1)'
    BY <2>1, <2>3, <2>4 DEF Duty, WriteDuty, RewriteDuty, CommitDuty, TrimDuty,
                            ReportDuty, Erasures
  <2>6. Steady /\ TakesOver(<<t>>)
    BY <1>1, <1>6, <1>7 DEF Steady, TakesOver
  <2>7. job' = <<t>> \o Tail(job)
    BY <1>2, <1>10 DEF Runs
  <2> QED
    BY <1>1, <2>3, <2>5, <2>6, <2>7, StaysTasked
<1>11. job' \in Seq(Tasks) /\ Tasked'
  BY <1>10
<1>12. Lines' = Lines
  BY <1>3 DEF Lines
<1>13. buried' \subseteq kept'[Log]
  BY <1>2, <1>4 DEF TypeOK
<1> HIDE DEF S
<1>14. TypeOK'
  BY <1>3, <1>5, <1>11, <1>12, <1>13 DEF TypeOK, LedgerRows
<1>15. Finite'
  BY <1>3, <1>12 DEF Finite
<1>16. Promotions'
  BY <1>4, <1>5, <1>6 DEF Promotions
<1>17. Remembered'
  <2> SUFFICES ASSUME NEW m \in known
               PROVE  m \in Traces(Log)' \/ ErasureOnRecord(m)'
    BY <1>3 DEF Remembered, Traces, ErasureOnRecord
  <2>1. ErasureOnRecord(m) => ErasureOnRecord(m)'
    BY <1>6 DEF ErasureOnRecord, Erasures
  <2> QED
    BY <1>5, <1>9, <2>1 DEF Remembered
<1>18. ErasedIsGone'
  BY <1>3, <1>7 DEF ErasedIsGone
<1> QED
  BY <1>11, <1>14, <1>15, <1>16, <1>17, <1>18

\* A row that is staged is on record from then on.
LEMMA StagesRowInv ==
  ASSUME IInv, StagesRow
  PROVE  IInv'
<1> USE DEF IInv, files, history
<1>1. /\ job \in Seq(Tasks) /\ job # <<>> /\ Tasked
      /\ Head(job) = job[1] /\ job[1].do = "stage" /\ job[1] \in Tasks
  BY DueHead DEF StagesRow
<1>2. PICK e \in job[1].events :
        IF \/ "outbox" \in broken
           \/ e \notin outbox /\ ~HasRoom(Cardinality(outbox))
        THEN Stops /\ UNCHANGED outbox
        ELSE Runs(<<Without(e)>>) /\ outbox' = outbox \cup {e}
  BY <1>1 DEF StagesRow
<1>3. UNCHANGED <<kept, scraps, buried, scratch, ledger, broken, faults, known, assured>>
  BY DEF StagesRow
<1>4. CASE Stops /\ UNCHANGED outbox
  <2>1. Calm
    BY <1>3, <1>4 DEF Calm, TypeOK
  <2> QED
    BY <1>4, <2>1, StopsInv
<1>5. CASE /\ e \in outbox \/ HasRoom(Cardinality(outbox))
           /\ Runs(<<Without(e)>>) /\ outbox' = outbox \cup {e}
  <2>1. e \in Event
    BY <1>1 DEF Tasks
  <2>2. /\ OnRecord(e)'
        /\ \A x : OnRecord(x) => OnRecord(x)'
    BY <1>3, <1>5 DEF OnRecord, IsRecorded
  <2>3. \A m : Gone(m)' = Gone(m)
    BY <1>3 DEF Gone
  <2>4. ASSUME NEW t, t = Without(e)
        PROVE  job' \in Seq(Tasks) /\ Tasked'
    <3>1. t \in Tasks /\ t.do = "stage" /\ t.events = job[1].events \ {e}
      BY <1>1, <2>4 DEF Without, Tasks
    <3>2. Single(t) /\ \A j \in DOMAIN job \ {1} : MayPrecede(t, job[j])
      BY <1>1, <3>1, HeadDuty DEF MayPrecede, Single
    <3>3. Fits(<<t>>) /\ DOMAIN <<t>> = {1} /\ <<t>>[1] = t
      BY <3>1, <3>2, FitsOne
    <3>4. Duty(<<t>>, 1)'
      BY <3>1, <3>3 DEF Duty, WriteDuty, RewriteDuty, CommitDuty, TrimDuty, ReportDuty
    <3>5. Steady
      BY <1>3, <2>2, <2>3 DEF Steady
    <3>6. TakesOver(<<t>>)
      BY <1>1, <2>2, <3>1, <3>3 DEF TakesOver
    <3>7. job' = <<t>> \o Tail(job)
      BY <1>5, <2>4 DEF Runs
    <3> QED
      BY <1>1, <3>3, <3>4, <3>5, <3>6, <3>7, StaysTasked
  <2>5. job' \in Seq(Tasks) /\ Tasked'
    BY <2>4
  <2>6. Lines' = Lines
    BY <1>3 DEF Lines
  <2>7. IsFiniteSet(outbox') /\ Cardinality(outbox') <= MaxRows
    <3>1. /\ IsFiniteSet(outbox) /\ Cardinality(outbox) \in Nat
          /\ Cardinality(outbox) <= MaxRows
      BY FS_CardinalityType DEF Finite, TypeOK
    <3>2. CASE e \in outbox
      BY <1>5, <3>1, <3>2, outbox' = outbox
    <3>3. CASE e \notin outbox
      <4>1. Cardinality(outbox) < MaxRows
        BY <1>5, <3>3 DEF HasRoom
      <4>2. /\ IsFiniteSet(outbox \cup {e})
            /\ Cardinality(outbox \cup {e}) = Cardinality(outbox) + 1
        BY <3>1, <3>3, FS_AddElement
      <4> QED
        BY <1>5, <3>1, <4>1, <4>2, ConstantsFit
    <3> QED
      BY <3>2, <3>3
  <2>8. TypeOK'
    BY <1>3, <1>5, <2>1, <2>5, <2>6, <2>7 DEF TypeOK, LedgerRows
  <2>9. Finite'
    BY <1>3, <2>6, <2>7 DEF Finite
  <2>10. Promotions'
    BY <1>3, <2>2 DEF Promotions
  <2>11. Remembered'
    BY <1>3, <2>2 DEF Remembered, Traces, ErasureOnRecord
  <2>12. ErasedIsGone'
    BY <1>3, <2>3 DEF ErasedIsGone
  <2> QED
    BY <2>5, <2>8, <2>9, <2>10, <2>11, <2>12
<1> QED
  BY <1>2, <1>4, <1>5

\* A row is committed while what it says is so, and then trimmed.
LEMMA CommitsRowInv ==
  ASSUME IInv, CommitsRow
  PROVE  IInv'
<1> USE DEF IInv, files, history
<1>1. /\ job \in Seq(Tasks) /\ job # <<>> /\ Tasked /\ Due("commit")
      /\ Head(job) = job[1] /\ job[1].do = "commit" /\ job[1] \in Tasks
  BY DueHead DEF CommitsRow
<1>2. PICK e \in job[1].events :
        /\ CanCommit(e)
        /\ ledger' = IF IsRecorded(e) THEN ledger ELSE [ledger EXCEPT ![e] = @ + 1]
        /\ Runs(<<Trim(e), Without(e)>>)
  BY <1>1 DEF CommitsRow
<1>3. UNCHANGED <<kept, scraps, buried, scratch, outbox, broken, faults, known, assured>>
  BY DEF CommitsRow
<1>4. e \in Event /\ ledger \in [Event -> Nat] /\ \A x \in Event : ledger[x] \in {0, 1}
  BY <1>1 DEF Tasks, TypeOK, Finite
<1>5. /\ ledger' \in [Event -> Nat] /\ ledger'[e] = 1
      /\ \A x \in Event \ {e} : ledger'[x] = ledger[x]
  BY <1>2, <1>4 DEF IsRecorded
<1>6. \A x \in Event : OnRecord(x) => OnRecord(x)'
  BY <1>3, <1>5 DEF OnRecord, IsRecorded
<1>7. IsRecorded(e)'
  BY <1>5 DEF IsRecorded
<1>8. \A m : Gone(m)' = Gone(m)
  BY <1>3 DEF Gone
<1>9. ASSUME NEW t, t = Without(e)
      PROVE  job' \in Seq(Tasks) /\ Tasked'
  <2>1. /\ t \in Tasks /\ t.do = "commit" /\ t.events \subseteq job[1].events
        /\ \A j \in DOMAIN job \ {1} : MayPrecede(t, job[j])
    BY <1>1, <1>9, DroppedRowFits
  <2>2. Trim(e) \in Tasks /\ Trim(e).do = "trim" /\ Trim(e).events = {e}
    BY <1>4, TaskTypes, TaskFields
  <2>3. Single(t) /\ Single(Trim(e)) /\ MayPrecede(Trim(e), t)
    BY <1>4, <2>1, <2>2 DEF Single, MayPrecede
  <2>4. \A j \in DOMAIN job \ {1} : MayPrecede(Trim(e), job[j])
    BY <1>1, <2>2, HeadDuty DEF MayPrecede
  <2>5. /\ Fits(<<Trim(e), t>>) /\ DOMAIN <<Trim(e), t>> = {1, 2}
        /\ <<Trim(e), t>>[1] = Trim(e) /\ <<Trim(e), t>>[2] = t
    BY <2>1, <2>2, <2>3, <2>4, FitsTwo
  <2>6. Duty(<<Trim(e), t>>, 1)'
    BY <1>7, <2>2, <2>5 DEF Duty, WriteDuty, RewriteDuty, CommitDuty, TrimDuty, ReportDuty
  <2>7. \A x \in job[1].events :
          /\ OnRecord(x)'
          /\ x.kind = "promoted" => x.mem \in kept'[Log]
          /\ x.kind # "promoted" => Gone(x.mem)'
    <3>1. CommitDuty(job, 1) /\ job[1].events \subseteq Event
      BY <1>1, HeadDuty DEF Duty, Tasks
    <3>2. \A x \in job[1].events :
            /\ OnRecord(x)
            /\ x.kind = "promoted" => x.mem \in kept[Log]
            /\ x.kind # "promoted" => Gone(x.mem)
      BY <1>1, <3>1, HeadDuty DEF CommitDuty
    <3> QED
      BY <1>3, <1>6, <1>8, <3>1, <3>2
  <2>8. Duty(<<Trim(e), t>>, 2)'
    BY <2>1, <2>5, <2>7 DEF Duty, WriteDuty, RewriteDuty, CommitDuty, TrimDuty, ReportDuty
  <2>9. Steady /\ TakesOver(<<Trim(e), t>>)
    BY <1>1, <1>3, <1>6, <1>8 DEF Steady, TakesOver
  <2>10. job' = <<Trim(e), t>> \o Tail(job)
    BY <1>2, <1>9 DEF Runs
  <2>11. \A n \in DOMAIN <<Trim(e), t>> : Duty(<<Trim(e), t>>, n)'
    BY <2>5, <2>6, <2>8
  <2> QED
    BY <1>1, <2>5, <2>9, <2>10, <2>11, StaysTasked
<1>10. job' \in Seq(Tasks) /\ Tasked'
  BY <1>9
<1>11. IsFiniteSet(Lines') /\ Cardinality(Lines') <= MaxRows
  <2>1. IsFiniteSet(Lines) /\ Cardinality(Lines) \in Nat /\ Cardinality(Lines) <= MaxRows
    BY FS_CardinalityType DEF Finite, TypeOK, LedgerRows
  <2>2. CASE IsRecorded(e)
    <3>1. Lines' = Lines
      BY <1>2, <2>2 DEF Lines
    <3> QED
      BY <2>1, <3>1
  <2>3. CASE ~IsRecorded(e)
    <3>1. ledger[e] = 0
      BY <1>4, <2>3 DEF IsRecorded
    <3>2. Lines' = Lines \cup {<<e, 1>>}
      <4>1. \A x \in Event \ {e} : 1..ledger'[x] = 1..ledger[x]
        BY <1>5
      <4>2. 1..ledger'[e] = {1} /\ 1..ledger[e] = {}
        BY <1>5, <3>1
      <4>3. /\ \A x \in Event \ {e} : {x} \X (1..ledger'[x]) = {x} \X (1..ledger[x])
            /\ {e} \X (1..ledger'[e]) = {<<e, 1>>}
            /\ {e} \X (1..ledger[e]) = {}
        <5>1. \A x \in Event \ {e} : {x} \X (1..ledger'[x]) = {x} \X (1..ledger[x])
          BY <4>1
        <5>2. {e} \X {1} = {<<e, 1>>} /\ {e} \X {} = {}
          OBVIOUS
        <5>3. {e} \X (1..ledger'[e]) = {<<e, 1>>} /\ {e} \X (1..ledger[e]) = {}
          BY <4>2, <5>2
        <5> QED
          BY <5>1, <5>3
      <4>4. /\ \A c : c \in Lines <=> \E x \in Event : c \in {x} \X (1..ledger[x])
            /\ \A c : c \in Lines' <=> \E x \in Event : c \in {x} \X (1..ledger'[x])
        BY DEF Lines
      <4>5. \A c : c \in Lines' <=> c \in Lines \/ c = <<e, 1>>
        BY <1>4, <4>3, <4>4, Zenon
      <4> QED
        BY <4>5
    <3>3. <<e, 1>> \notin Lines
      <4>1. 1..ledger[e] = {}
        BY <3>1
      <4> QED
        BY <4>1 DEF Lines
    <3>4. Cardinality(Lines) < MaxRows
      BY <1>2, <2>3 DEF CanCommit, HasRoom, LedgerRows
    <3>5. /\ IsFiniteSet(Lines \cup {<<e, 1>>})
          /\ Cardinality(Lines \cup {<<e, 1>>}) = Cardinality(Lines) + 1
      BY <2>1, <3>3, FS_AddElement
    <3> QED
      BY <2>1, <3>2, <3>4, <3>5, ConstantsFit
  <2> QED
    BY <2>2, <2>3
<1>12. TypeOK'
  BY <1>3, <1>5, <1>10, <1>11 DEF TypeOK, LedgerRows
<1>13. Finite'
  BY <1>3, <1>4, <1>5, <1>11 DEF Finite
<1>14. \A m \in Memories : Promoted(m) \in Event /\ Erasures(m) \subseteq Event
  BY DEF Promoted, Erasures, Event, Kind
<1>15. Promotions'
  BY <1>3, <1>6, <1>14, ConstantsFit DEF Promotions
<1>16. Remembered'
  <2> SUFFICES ASSUME NEW m \in known, ErasureOnRecord(m)
               PROVE  ErasureOnRecord(m)'
    BY <1>3 DEF Remembered, Traces
  <2>1. m \in Memories
    BY DEF TypeOK
  <2> QED
    BY <1>6, <1>14, <2>1 DEF ErasureOnRecord, Erasures
<1>17. ErasedIsGone'
  BY <1>3, <1>8 DEF ErasedIsGone
<1> QED
  BY <1>10, <1>12, <1>13, <1>15, <1>16, <1>17

\* Only what is in the ledger leaves the outbox.
LEMMA TrimsOutboxInv ==
  ASSUME IInv, TrimsOutbox
  PROVE  IInv'
<1> USE DEF IInv, files, history
<1>1. /\ job \in Seq(Tasks) /\ job # <<>> /\ Tasked
      /\ Head(job) = job[1] /\ job[1].do = "trim"
  BY DueHead DEF TrimsOutbox
<1>2. /\ outbox' \subseteq outbox /\ outbox \ job[1].events \subseteq outbox' /\ Goes
      /\ UNCHANGED <<kept, scraps, buried, scratch, ledger, broken, faults, known,
                      assured>>
  BY <1>1 DEF TrimsOutbox, Trimmed
<1>3. \A e \in job[1].events : IsRecorded(e)
  BY <1>1, HeadDuty DEF Duty, TrimDuty
<1>4. \A e : OnRecord(e) => OnRecord(e)'
  BY <1>2, <1>3 DEF OnRecord, IsRecorded
<1>5. \A m : Gone(m)' = Gone(m)
  BY <1>2 DEF Gone
<1>6. Steady /\ TakesOver(<<>>)
  BY <1>1, <1>2, <1>4, <1>5 DEF Steady, TakesOver
<1>7. job' \in Seq(Tasks) /\ Tasked'
  BY <1>1, <1>2, <1>6, GoesTasked
<1>8. Lines' = Lines
  BY <1>2 DEF Lines
<1>9. IsFiniteSet(outbox') /\ Cardinality(outbox') <= MaxRows
  <2>1. /\ IsFiniteSet(outbox) /\ Cardinality(outbox) \in Nat
        /\ Cardinality(outbox) <= MaxRows
    BY FS_CardinalityType DEF Finite, TypeOK
  <2>2. /\ IsFiniteSet(outbox') /\ Cardinality(outbox') <= Cardinality(outbox)
    BY <1>2, <2>1, FS_Subset
  <2>3. Cardinality(outbox') \in Nat
    BY <2>2, FS_CardinalityType
  <2> QED
    BY <2>1, <2>2, <2>3, ConstantsFit
<1>10. TypeOK'
  BY <1>2, <1>7, <1>8, <1>9 DEF TypeOK, LedgerRows
<1>11. Finite'
  BY <1>2, <1>8, <1>9 DEF Finite
<1>12. Promotions'
  BY <1>2, <1>4 DEF Promotions
<1>13. Remembered'
  BY <1>2, <1>4 DEF Remembered, Traces, ErasureOnRecord
<1>14. ErasedIsGone'
  BY <1>2, <1>5 DEF ErasedIsGone
<1> QED
  BY <1>7, <1>10, <1>11, <1>12, <1>13, <1>14

-----------------------------------------------------------------------------
(* Accesses that fail on the way.                                          *)

LEMMA TearsLogInv ==
  ASSUME IInv, TearsLog
  PROVE  IInv'
<1> USE DEF IInv, audit
<1>1. Head(job) = job[1] /\ job[1] \in Tasks
  BY DueHead DEF TearsLog
<1> DEFINE S == job[1].of
<1>2. /\ S \subseteq Memories
      /\ scraps' = [scraps EXCEPT ![Log] = @ \cup S]
      /\ known' = known \cup S /\ assured' = assured \ S
      /\ Stops /\ UNCHANGED <<kept, buried, scratch, outbox, ledger, broken>>
  BY <1>1 DEF TearsLog, Tasks
<1> HIDE DEF S
<1>3. Log \in Files
  BY DEF Files
<1>4. /\ scraps' \in [Files -> SUBSET Memories] /\ scraps'[Log] = scraps[Log] \cup S
      /\ \A f \in Files : scraps'[f] \subseteq scraps[f] \cup S
  BY <1>2, <1>3 DEF TypeOK
<1>5. \A e : OnRecord(e)' = OnRecord(e)
  BY <1>2 DEF OnRecord, IsRecorded
<1>6. \A x : Gone(x) /\ x \notin S => Gone(x)'
  BY <1>2, <1>4 DEF Gone
<1>7. job' \in Seq(Tasks) /\ Tasked'
  BY <1>2, StopsTasked
<1>8. Lines' = Lines
  BY <1>2 DEF Lines
<1>9. faults' \in 0..MaxFaults
  BY FaultIsCounted DEF TearsLog
<1>10. TypeOK'
  BY <1>2, <1>4, <1>7, <1>8, <1>9 DEF TypeOK, LedgerRows
<1>11. Finite'
  BY <1>2, <1>8 DEF Finite
<1>12. Promotions'
  BY <1>2, <1>5 DEF Promotions
<1>13. Remembered'
  BY <1>2, <1>4, <1>5 DEF Remembered, Traces, ErasureOnRecord
<1>14. ErasedIsGone'
  BY <1>2, <1>6 DEF ErasedIsGone
<1> QED
  BY <1>7, <1>10, <1>11, <1>12, <1>13, <1>14

LEMMA TearsAuditInv ==
  ASSUME IInv, TearsOutbox \/ TearsLedger
  PROVE  IInv'
<1> USE DEF files, history
<1>1. Calm
  BY FaultIsCounted DEF TearsOutbox, TearsLedger, IInv, TypeOK, Calm
<1>2. CASE Stops
  BY <1>1, <1>2, StopsInv
<1>3. CASE Due("commit") /\ \E e \in Head(job).events : Runs(<<Without(e)>>)
  BY <1>1, <1>3, DroppedRowInv
<1> QED
  BY <1>2, <1>3 DEF TearsOutbox, TearsLedger

\* The remains of a rewrite hold nothing that is not in the file itself.
LEMMA LeavesScratchInv ==
  ASSUME IInv, LeavesScratch
  PROVE  IInv'
<1> USE DEF IInv, audit, history
<1>1. PICK f \in Files : scratch' \subseteq scratch \cup Traces(f)
  BY DEF LeavesScratch
<1>2. Stops /\ UNCHANGED <<kept, scraps, buried, outbox, ledger, broken, known, assured>>
  BY DEF LeavesScratch
<1>3. scratch' \subseteq Memories
  BY <1>1 DEF TypeOK, Traces
<1>4. \A e : OnRecord(e)' = OnRecord(e)
  BY <1>2 DEF OnRecord, IsRecorded
<1>5. \A m : Gone(m) => Gone(m)'
  BY <1>1, <1>2 DEF Gone, Traces
<1>6. job' \in Seq(Tasks) /\ Tasked'
  BY <1>2, StopsTasked
<1>7. Lines' = Lines
  BY <1>2 DEF Lines
<1>8. faults' \in 0..MaxFaults
  BY FaultIsCounted DEF LeavesScratch
<1>9. TypeOK'
  BY <1>2, <1>3, <1>6, <1>7, <1>8 DEF TypeOK, LedgerRows
<1>10. Finite'
  BY <1>2, <1>7 DEF Finite
<1>11. Promotions'
  BY <1>2, <1>4 DEF Promotions
<1>12. Remembered'
  BY <1>2, <1>4 DEF Remembered, Traces, ErasureOnRecord
<1>13. ErasedIsGone'
  BY <1>2, <1>5 DEF ErasedIsGone
<1> QED
  BY <1>6, <1>9, <1>10, <1>11, <1>12, <1>13

-----------------------------------------------------------------------------
(* The theorems.                                                           *)

LEMMA InitInv ==
  ASSUME Init
  PROVE  IInv
<1> USE DEF Init
<1>1. IsFiniteSet({}) /\ Cardinality({}) = 0
  BY FS_EmptySet
<1>2. Lines = {}
  <2>1. \A e \in Event : {e} \X (1..ledger[e]) = {}
    OBVIOUS
  <2> QED
    BY <2>1 DEF Lines
<1>3. TypeOK
  BY <1>1, <1>2, ConstantsFit DEF TypeOK, LedgerRows, Files
<1>4. Finite
  BY <1>1, <1>2 DEF Finite
<1>5. Tasked
  BY DEF Tasked, Ordered
<1>6. Promotions /\ Remembered /\ ErasedIsGone
  BY DEF Promotions, Remembered, ErasedIsGone, Files
<1> QED
  BY <1>3, <1>4, <1>5, <1>6 DEF IInv

LEMMA NextInv ==
  ASSUME IInv, [Next]_vars
  PROVE  IInv'
<1>1. CASE UNCHANGED vars
  <2>1. Calm /\ job' = job
    BY <1>1 DEF vars, files, audit, history, Calm, IInv, TypeOK
  <2>2. Tasked'
    <3>1. Steady /\ \A m : Gone(m)' = Gone(m)
      BY <1>1, <2>1, CalmIsSteady DEF vars, files, Gone
    <3>2. \A q, n : Duty(q, n) => Duty(q, n)'
      BY <1>1, <2>1, <3>1, CalmIsSteady DEF Duty, WriteDuty, RewriteDuty, CommitDuty,
         TrimDuty, ReportDuty, vars, files, Erasures, StagedBefore, WrittenBefore,
         VerifiedBefore
    <3> QED
      BY <2>1, <3>2 DEF Tasked, IInv, Ordered
  <2>3. job' \in Seq(Tasks)
    BY <2>1 DEF IInv, TypeOK
  <2> QED
    BY <2>1, <2>2, <2>3, CalmInv
<1>2. CASE List
  BY <1>2, ListInv
<1>3. CASE \E m \in Memories : Promote(m) \/ Create(m) \/ Delete(m) \/ Restore(m)
  BY <1>3, RequestInv, CreateInv
<1>4. CASE \E S \in SUBSET Memories : Erase(S) \/ Clear(S)
  BY <1>4, RequestManyInv
<1>5. CASE \E b \in Backups : Copy(b)
  BY <1>5, CopyInv
<1>6. CASE Projects \/ Promotes \/ Deletes \/ Clears \/ DeletesNext \/ Restores
  BY <1>6, ProjectsInv, PromotesInv, DeletesInv, ClearsInv, DeletesNextInv, RestoresInv
<1>7. CASE Erases \/ Writes \/ Rewrites \/ Verifies \/ Reports \/ LoopEnds
  BY <1>7, ErasesInv, WritesInv, RewritesInv, VerifiesInv, ReportsInv, LoopEndsInv
<1>8. CASE StagesRow \/ CommitsRow \/ CannotCommit \/ TrimsOutbox
  BY <1>8, StagesRowInv, CommitsRowInv, CannotCommitInv, TrimsOutboxInv
<1>9. CASE Breaks \/ CommitFails
  BY <1>9, BreaksInv, CommitFailsInv
<1>10. CASE TearsLog \/ TearsOutbox \/ TearsLedger \/ LeavesScratch
  BY <1>10, TearsLogInv, TearsAuditInv, LeavesScratchInv
<1> QED
  BY <1>1, <1>2, <1>3, <1>4, <1>5, <1>6, <1>7, <1>8, <1>9, <1>10 DEF Next

\* The inductive invariant holds in every reachable state, for any memories and
\* backups, any bound of the audit's files and any number of broken operations.
THEOREM Invariance == Spec => []IInv
<1>1. Init => IInv
  BY InitInv
<1>2. IInv /\ [Next]_vars => IInv'
  BY NextInv
<1> QED
  BY <1>1, <1>2, PTL DEF Spec

\* TypeOK: the types of the files and of the list of tasks; with them, that
\* neither of the audit's files outgrows MAX_AUDIT_ROWS (_append's guard).
THEOREM TypesAreCorrect == Spec => []TypeOK
<1>1. IInv => TypeOK
  BY DEF IInv
<1> QED
  BY <1>1, Invariance, PTL

\* NothingOffTheRecord: every memory that came out of a review, and every one
\* that was and is nowhere any more, has a row that is staged or in the ledger
\* (promote and physical_erase_many stage before they touch a file).
THEOREM NothingGoesUnrecorded == Spec => []NothingOffTheRecord
<1>1. IInv => NothingOffTheRecord
  <2> SUFFICES ASSUME IInv
               PROVE  NothingOffTheRecord
    OBVIOUS
  <2>1. \A m \in Reviewed \cap kept[Log] : OnRecord(Promoted(m))
    BY DEF IInv, Promotions
  <2>2. ASSUME NEW m \in known, Gone(m)
        PROVE  \E kind \in {"erased", "purged"} : OnRecord([kind |-> kind, mem |-> m])
    <3>1. m \notin Traces(Log)
      BY <2>2 DEF Gone, Traces, Files
    <3>2. ErasureOnRecord(m)
      BY <3>1 DEF IInv, Remembered
    <3> QED
      BY <3>2 DEF ErasureOnRecord, Erasures
  <2> QED
    BY <2>1, <2>2 DEF NothingOffTheRecord
<1> QED
  BY <1>1, Invariance, PTL

\* ErasedIsGone: what an erase has reported gone is in no file, no backup and no
\* remains of a rewrite, until it is made again (physical_erase_many looks).
THEOREM TheErasedAreGone == Spec => []ErasedIsGone
<1>1. IInv => ErasedIsGone
  BY DEF IInv
<1> QED
  BY <1>1, Invariance, PTL

\* KeepsTheTrail: the store implements what AuditTrail promises.  A row goes into
\* the ledger once and while it is so, and leaves the outbox only for the ledger.
THEOREM AuditKeepsTheTrail == Spec => KeepsTheTrail
<1> DEFINE So == {e \in Event : IF e.kind = "promoted" THEN e.mem \in kept[Log]
                                                       ELSE Gone(e.mem)}
<1>1. Init => Trail!Init
  BY DEF Init, Trail!Init
<1>2. ASSUME IInv, [Next]_vars
      PROVE  [Trail!Next]_(Trail!trail)
  <2>1. CASE UNCHANGED <<outbox, ledger>>
    BY <2>1 DEF Trail!Next, Trail!World
  <2>2. CASE StagesRow /\ outbox' # outbox
    <3>1. /\ job # <<>> /\ Head(job) \in Tasks
          /\ UNCHANGED <<kept, scraps, scratch, ledger>>
      BY <1>2, <2>2, DueHead DEF StagesRow, files
    <3>2. PICK e \in Head(job).events : outbox' = outbox \cup {e}
      BY <2>2 DEF StagesRow
    <3>3. e \in Event
      BY <3>1, <3>2 DEF Tasks
    <3>4. \A m : Gone(m)' = Gone(m)
      BY <3>1 DEF Gone
    <3>5. So' = So
      BY <3>1, <3>4
    <3>6. Trail!Stage(e)
      BY <3>1, <3>2, <3>5 DEF Trail!Stage
    <3> QED
      BY <3>3, <3>6 DEF Trail!Next
  <2>3. CASE CommitsRow /\ ledger' # ledger
    <3>1. /\ job # <<>> /\ job \in Seq(Tasks) /\ Head(job) = job[1]
          /\ job[1] \in Tasks /\ job[1].do = "commit" /\ Tasked
          /\ UNCHANGED <<kept, scraps, scratch, outbox>>
      BY <1>2, <2>3, DueHead DEF CommitsRow, files
    <3>2. PICK e \in job[1].events :
            ~IsRecorded(e) /\ ledger' = [ledger EXCEPT ![e] = @ + 1]
      BY <2>3, <3>1 DEF CommitsRow
    <3>3. e \in Event /\ ledger \in [Event -> Nat] /\ ledger[e] \in {0, 1}
      BY <1>2, <3>1 DEF Tasks, IInv, TypeOK, Finite
    <3>4. ledger[e] = 0
      BY <3>2, <3>3 DEF IsRecorded
    <3>5. ledger' = [ledger EXCEPT ![e] = 1]
      BY <3>2, <3>3, <3>4
    <3>6. CommitDuty(job, 1)
      BY <3>1, HeadDuty DEF Duty
    <3>7. /\ OnRecord(e)
          /\ e.kind = "promoted" => e.mem \in kept[Log]
          /\ e.kind # "promoted" => Gone(e.mem)
      BY <3>1, <3>6, HeadDuty DEF CommitDuty
    <3>8. e \in outbox /\ e \in So
      BY <3>2, <3>3, <3>7 DEF OnRecord
    <3>9. \A m : Gone(m)' = Gone(m)
      BY <3>1 DEF Gone
    <3>10. So' = So
      BY <3>1, <3>9
    <3>11. Trail!Record(e)
      BY <3>1, <3>4, <3>5, <3>8, <3>10 DEF Trail!Record
    <3> QED
      BY <3>3, <3>11 DEF Trail!Next
  <2>4. CASE TrimsOutbox /\ outbox' # outbox
    <3>1. /\ job # <<>> /\ job \in Seq(Tasks) /\ Head(job) = job[1]
          /\ job[1].do = "trim" /\ Tasked
          /\ UNCHANGED <<kept, scraps, scratch, ledger>>
      BY <1>2, <2>4, DueHead DEF TrimsOutbox, files
    <3>2. PICK e \in Event : job[1].events = {e}
      BY <3>1, HeadDuty DEF Single
    <3>3. outbox' = outbox \ {e}
      BY <2>4, <3>1, <3>2 DEF TrimsOutbox, Trimmed
    <3>4. IsRecorded(e) /\ ledger[e] \in {0, 1}
      BY <1>2, <3>1, <3>2, HeadDuty DEF Duty, TrimDuty, IInv, Finite
    <3>5. ledger[e] = 1
      BY <3>4 DEF IsRecorded
    <3>6. \A m : Gone(m)' = Gone(m)
      BY <3>1 DEF Gone
    <3>7. So' = So
      BY <3>1, <3>6
    <3>8. Trail!Unstage(e)
      BY <3>1, <3>3, <3>5, <3>7 DEF Trail!Unstage
    <3> QED
      BY <3>8 DEF Trail!Next
  <2>5. CASE UNCHANGED vars
    BY <2>1, <2>5 DEF vars, audit
  <2>6. CASE \/ List \/ Projects \/ Promotes \/ Deletes \/ Clears \/ DeletesNext
             \/ Restores \/ Erases \/ Writes \/ Rewrites \/ Verifies \/ Reports
             \/ LoopEnds \/ CannotCommit
    BY <2>1, <2>6 DEF List, Begins, Projects, Promotes, Deletes, Clears, DeletesNext,
       Restores, Erases, Writes, Rewrites, Verifies, Reports, LoopEnds, CannotCommit,
       audit
  <2>7. CASE \/ Breaks \/ CommitFails \/ TearsLog \/ TearsOutbox \/ TearsLedger
             \/ LeavesScratch
    BY <2>1, <2>7 DEF Breaks, CommitFails, TearsLog, TearsOutbox, TearsLedger,
       LeavesScratch, audit
  <2>8. CASE \E m \in Memories : Promote(m) \/ Create(m) \/ Delete(m) \/ Restore(m)
    BY <2>1, <2>8 DEF Promote, Create, Delete, Restore, Begins, audit
  <2>9. CASE \/ \E S \in SUBSET Memories : Erase(S) \/ Clear(S)
             \/ \E b \in Backups : Copy(b)
    BY <2>1, <2>9 DEF Erase, Clear, Copy, Begins, audit
  <2>10. CASE StagesRow
    BY <2>1, <2>2, <2>10 DEF StagesRow
  <2>11. CASE CommitsRow
    BY <2>1, <2>3, <2>11 DEF CommitsRow
  <2>12. CASE TrimsOutbox
    BY <2>1, <2>4, <2>12 DEF TrimsOutbox
  <2> QED
    BY <1>2, <2>5, <2>6, <2>7, <2>8, <2>9, <2>10, <2>11, <2>12 DEF Next
<1> QED
  BY <1>1, <1>2, Invariance, PTL DEF Spec, KeepsTheTrail, Trail!Spec
=============================================================================
