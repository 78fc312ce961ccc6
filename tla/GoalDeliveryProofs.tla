-------------------------- MODULE GoalDeliveryProofs --------------------------
(***************************************************************************)
(* For any clients, approvals, questions and bounds: the runtime works at  *)
(* one run of a delivery at a time, each lease that is held is worked for, *)
(* and the delivery settles its occurrence of the goal once (IInv).  Each  *)
(* run is paid for, what comes too late stays out, the first answer counts *)
(* and decisions reach the row (Deals).                                    *)
(***************************************************************************)
EXTENDS GoalDelivery, GoalStoreProofs, FiniteSetTheorems

Tokens == {"goal", "apply"}

ReqType == [at : Place, for : Tokens, care : Care, again : BOOLEAN,
            out : Outcomes \cup {None}]

\* What is neither the row nor who is at what.
RestOK ==
  /\ result \in {"none", "good", "bad"}
  /\ decision \in [Approvals -> {"none", "pending", "approved", "applying",
                                 "applied", "failed", "rejected", "lost"}]
  /\ asked \in [Questions -> {"none", "pending", "answered", "handed"}]
  /\ runs \in 0..MaxRuns /\ unpaid \in 0..MaxRuns
  /\ loose \in BOOLEAN /\ early \subseteq Questions
  /\ reopened \in BOOLEAN /\ trouble \in 0..MaxTrouble

-----------------------------------------------------------------------------
(* The lanes.                                                                *)

OfTheRun == {"leased", "beginning", "begun", "calling", "returned",
             "delivering", "linking", "raised"}
OfAlone  == {"approving", "approved", "applying", "resolving", "failing"}

\* What a request may look like by itself.
Shape(n) ==
  /\ n \in ReqType
  /\ n.at \in Outside => n.for = "goal" /\ n.care = "kept"
  /\ n.at \in OfTheRun => n.for = "goal"
  /\ n.care = "alone" => n.at \in OfAlone
  /\ n.care = "nobody" => n.at \in Working

\* A request that must have the lease of its lane.
Holds(n, token) ==
  n.for = token /\ n.care \in {"kept", "drain"} /\ n.at \notin Outside

\* The lease is nobody's but his who works for it; and as long as none was
\* taken from its holder, he has it.
Lanes ==
  /\ lease \in [Tokens -> Requests \cup {None}]
  /\ req \in [Requests -> ReqType]
  /\ \A r \in Requests : Shape(req[r]) /\ (req[r].care = "nobody" => loose)
  /\ \A r \in Requests, token \in Tokens :
       /\ lease[token] = r => Holds(req[r], token)
       /\ Holds(req[r], token) => loose \/ lease[token] = r

Others(r) == \A s \in Requests \ {r} : req'[s] = req[s]

\* A request goes on with the lease it has, or without one.
LEMMA LanesKept ==
  ASSUME Lanes, NEW r \in Requests, Others(r),
         req' \in [Requests -> ReqType], Shape(req'[r]),
         lease' = lease, loose => loose',
         req'[r].care = "nobody" => loose',
         \A token \in Tokens : Holds(req'[r], token) <=> Holds(req[r], token)
  PROVE  Lanes'
<1>1. \A s \in Requests :
        Shape(req'[s]) /\ (req'[s].care = "nobody" => loose')
  BY DEF Lanes, Others
<1>2. ASSUME NEW s \in Requests, NEW token \in Tokens
      PROVE  /\ lease'[token] = s => Holds(req'[s], token)
             /\ Holds(req'[s], token) => loose' \/ lease'[token] = s
  BY DEF Lanes, Others
<1> QED BY <1>1, <1>2 DEF Lanes, Shape, Holds

\* It gives its lease back.
LEMMA LanesGivenBack ==
  ASSUME Lanes, NEW r \in Requests, Others(r),
         req' \in [Requests -> ReqType], Shape(req'[r]),
         lease' = [lease EXCEPT ![req[r].for] = None], loose => loose',
         req'[r].care = "nobody" => loose',
         Holds(req[r], req[r].for),
         \A token \in Tokens : ~Holds(req'[r], token)
  PROVE  Lanes'
<1>1. \A s \in Requests :
        Shape(req'[s]) /\ (req'[s].care = "nobody" => loose')
  BY DEF Lanes, Others
<1>2. req[r].for \in Tokens /\ lease' \in [Tokens -> Requests \cup {None}]
  BY DEF Lanes, ReqType
<1>3. ASSUME NEW s \in Requests, NEW token \in Tokens
      PROVE  /\ lease'[token] = s => Holds(req'[s], token)
             /\ Holds(req'[s], token) => loose' \/ lease'[token] = s
  <2>1. s # None
    BY NoneIsNoId DEF Requests
  <2>2. CASE s = r
    BY <1>2, <2>1, <2>2 DEF Lanes, Holds
  <2>3. CASE s # r
    BY <1>2, <2>1, <2>3 DEF Lanes, Others
  <2> QED BY <2>2, <2>3
<1> QED BY <1>1, <1>2, <1>3 DEF Lanes, Shape, Holds

\* It takes a lease that is free.
LEMMA LanesTaken ==
  ASSUME Lanes, NEW r \in Requests, Others(r), NEW t \in Tokens,
         req' \in [Requests -> ReqType], Shape(req'[r]),
         lease[t] = None, lease' = [lease EXCEPT ![t] = r], loose => loose',
         req'[r].care # "nobody", Holds(req'[r], t),
         \A token \in Tokens : ~Holds(req[r], token)
  PROVE  Lanes'
<1>1. \A s \in Requests :
        Shape(req'[s]) /\ (req'[s].care = "nobody" => loose')
  BY DEF Lanes, Others
<1>2. lease' \in [Tokens -> Requests \cup {None}]
  BY DEF Lanes
<1>3. ASSUME NEW s \in Requests, NEW token \in Tokens
      PROVE  /\ lease'[token] = s => Holds(req'[s], token)
             /\ Holds(req'[s], token) => loose' \/ lease'[token] = s
  <2>1. s # None
    BY NoneIsNoId DEF Requests
  <2>2. CASE s = r
    BY <1>2, <2>1, <2>2 DEF Lanes, Holds
  <2>3. CASE s # r
    BY <1>2, <2>1, <2>3 DEF Lanes, Others
  <2> QED BY <2>2, <2>3
<1> QED BY <1>1, <1>2, <1>3 DEF Lanes, Shape, Holds

-----------------------------------------------------------------------------
(* The ways of a request.                                                    *)

\* What the invariant says of one request.
LEMMA ReqTyped ==
  ASSUME Lanes, NEW r \in Requests
  PROVE  /\ req[r] \in ReqType /\ Shape(req[r])
         /\ req[r].care = "nobody" => loose
         /\ req[r].for \in Tokens /\ req[r].care \in Care
         /\ req[r].again \in BOOLEAN /\ req[r].out \in Outcomes \cup {None}
         /\ req[r].at \in Place
BY DEF Lanes, ReqType

\* The record of one request is replaced.
LEMMA ReqSet ==
  ASSUME Lanes, NEW r \in Requests, NEW n \in ReqType,
         req' = [req EXCEPT ![r] = n]
  PROVE  req' \in [Requests -> ReqType] /\ Others(r) /\ req'[r] = n
BY DEF Lanes, Others

\* A request at rest needs no lease.
LEMMA IdleTyped == Idle \in ReqType /\ Shape(Idle)
                     /\ \A token \in Tokens : ~Holds(Idle, token)
BY DEF Idle, ReqType, Shape, Holds, Place, Outside, Care, Tokens, OfTheRun,
       Outcomes

\* Moving on within or outside the coordinator leaves the lanes alone.
LEMMA GoesLanes ==
  ASSUME Lanes, NEW r \in Requests, NEW place \in Place, Goes(r, place),
         lease' = lease, loose' = loose,
         place \in Outside <=> req[r].at \in Outside,
         place \in OfTheRun => req[r].for = "goal",
         req[r].care = "alone" => place \in OfAlone,
         req[r].care = "nobody" => place \in Working
  PROVE  Lanes'
<1> DEFINE n == [req[r] EXCEPT !.at = place]
<1>1. n \in ReqType /\ n.at = place /\ n.for = req[r].for
        /\ n.care = req[r].care
  BY ReqTyped DEF ReqType
<1>2. req' = [req EXCEPT ![r] = n]
  BY DEF Goes
<1>3. Shape(n)
        /\ \A token \in Tokens : Holds(n, token) <=> Holds(req[r], token)
  BY <1>1, ReqTyped DEF Shape, Holds
<1> HIDE DEF n
<1>4. req' \in [Requests -> ReqType] /\ Others(r) /\ req'[r] = n
  BY <1>1, <1>2, ReqSet
<1> QED BY <1>1, <1>3, <1>4, ReqTyped, LanesKept

\* The finally block gives back the lease of the lane it was for.
LEMMA LeavesLanes ==
  ASSUME Lanes, NEW r \in Requests, Leaves(r), loose' = loose,
         req[r].at \notin Outside, req[r].care # "nobody"
  PROVE  Lanes'
<1>1. req' = [req EXCEPT ![r] = Idle]
  BY DEF Leaves
<1>2. req' \in [Requests -> ReqType] /\ Others(r) /\ req'[r] = Idle
  BY <1>1, IdleTyped, ReqSet
<1>3. Idle.care = "kept"
  BY DEF Idle
<1>4. CASE req[r].care = "alone"
  <2>1. lease' = lease
    BY <1>4 DEF Leaves
  <2>2. \A token \in Tokens : ~Holds(req[r], token)
    BY <1>4 DEF Holds
  <2> QED BY <1>2, <1>3, <2>1, <2>2, IdleTyped, LanesKept
<1>5. CASE req[r].care # "alone"
  <2>1. lease' = [lease EXCEPT ![req[r].for] = None]
    BY <1>5 DEF Leaves, Released
  <2>2. Holds(req[r], req[r].for)
    BY <1>5, ReqTyped DEF Holds, Care
  <2> QED BY <1>2, <1>3, <2>1, <2>2, IdleTyped, LanesGivenBack
<1> QED BY <1>4, <1>5

\* The end of a worker keeps the lease for whoever waits for it.
LEMMA WorkerEndsLanes ==
  ASSUME Lanes, NEW r \in Requests, NEW place \in Place, WorkerEnds(r, place),
         loose' = loose, req[r].at \in Working, place \notin Outside,
         place \in OfTheRun => req[r].for = "goal",
         req[r].care = "alone" => place \in OfAlone
  PROVE  Lanes'
<1>1. lease' = lease
  BY DEF WorkerEnds
<1>2. CASE req[r].care \in {"kept", "alone"}
  <2>1. Goes(r, place)
    BY <1>2 DEF WorkerEnds, Goes
  <2> QED BY <1>1, <1>2, <2>1, GoesLanes DEF Working, Outside
<1>3. CASE req[r].care = "drain"
  <2>1. Goes(r, "over")
    BY <1>3 DEF WorkerEnds, Goes
  <2> QED BY <1>1, <1>3, <2>1, GoesLanes
             DEF Working, Outside, Place, OfTheRun
<1>4. CASE req[r].care = "nobody"
  <2>1. req' = [req EXCEPT ![r] = Idle]
    BY <1>4 DEF WorkerEnds
  <2>2. \A token \in Tokens : ~Holds(req[r], token)
    BY <1>4 DEF Holds
  <2>3. Idle.care = "kept"
    BY DEF Idle
  <2>4. req' \in [Requests -> ReqType] /\ Others(r) /\ req'[r] = Idle
    BY <2>1, IdleTyped, ReqSet
  <2> QED BY <1>1, <2>2, <2>3, <2>4, IdleTyped, LanesKept
<1> QED BY <1>2, <1>3, <1>4, ReqTyped DEF Care

\* The worker has failed under the request, or found the row draining.
LEMMA TurnsLanes ==
  ASSUME Lanes, NEW r \in Requests, NEW again \in BOOLEAN,
         NEW place \in {"raised", "overdue"},
         req' = [req EXCEPT ![r].at = place, ![r].again = again],
         lease' = lease, loose' = loose,
         req[r].at \notin Outside, req[r].care \in {"kept", "drain"},
         place = "raised" => req[r].for = "goal"
  PROVE  Lanes'
<1> DEFINE n == [req[r] EXCEPT !.at = place, !.again = again]
<1>1. n \in ReqType /\ n.at = place /\ n.for = req[r].for
        /\ n.care = req[r].care
  BY ReqTyped DEF ReqType, Place
<1>2. req' = [req EXCEPT ![r] = n]
  BY ReqTyped DEF Lanes
<1>3. Shape(n)
        /\ \A token \in Tokens : Holds(n, token) <=> Holds(req[r], token)
  BY <1>1, ReqTyped DEF Shape, Holds, Outside, OfTheRun
<1> HIDE DEF n
<1>4. req' \in [Requests -> ReqType] /\ Others(r) /\ req'[r] = n
  BY <1>1, <1>2, ReqSet
<1> QED BY <1>1, <1>3, <1>4, ReqTyped, LanesKept

\* What persist_outcome answers with, for the run's own outcome or a link.
LEMMA DeliveredLanes ==
  ASSUME Lanes, NEW r \in Requests, NEW d, Delivered(r, d), loose' = loose,
         req[r].at \in {"delivering", "linking"}
  PROVE  Lanes'
<1>1. CASE ~Kept(r)
  <2>1. WorkerEnds(r, "delivering")
    BY <1>1 DEF Delivered
  <2> QED BY <2>1, ReqTyped, WorkerEndsLanes
       DEF Shape, Place, Outside, Working, Between, OfTheRun, OfAlone
<1>2. CASE Kept(r) /\ d.status = "draining"
  <2>1. /\ req' = [req EXCEPT ![r].at = "overdue", ![r].again = TRUE]
        /\ lease' = lease
    BY <1>2 DEF Delivered
  <2> QED BY <1>2, <2>1, ReqTyped, TurnsLanes
       DEF Shape, Place, Outside, Working, Between, OfTheRun, OfAlone, Kept
<1>3. CASE Kept(r) /\ d.status # "draining"
  <2>1. Leaves(r)
    BY <1>3 DEF Delivered
  <2> QED BY <1>3, <2>1, LeavesLanes DEF Kept, Outside
<1> QED BY <1>1, <1>2, <1>3

\* No step takes a lease from its worker unless it marks that as loose.
LEMMA LanesNext == ASSUME Lanes, Next PROVE Lanes'
<1>1. ASSUME NEW r \in Requests, Lists(r)
      PROVE  Lanes'
  <2>1. Goes(r, "listed") /\ lease' = lease /\ loose' = loose
          /\ req[r].at = "idle"
    BY <1>1 DEF Lists, At, history
  <2> QED BY <2>1, ReqTyped, GoesLanes
       DEF Shape, Place, Outside, Working, Between, OfTheRun, OfAlone
<1>2. ASSUME NEW r \in Requests, Wakes(r)
      PROVE  Lanes'
  <2>1. Goes(r, "woken") /\ lease' = lease /\ loose' = loose
          /\ req[r].at = "listed"
    BY <1>2 DEF Wakes, At, history
  <2> QED BY <2>1, ReqTyped, GoesLanes
       DEF Shape, Place, Outside, Working, Between, OfTheRun, OfAlone
<1>3. ASSUME NEW r \in Requests, NotDue(r)
      PROVE  Lanes'
  <2>1. Goes(r, "idle") /\ lease' = lease /\ loose' = loose
          /\ req[r].at = "listed"
    BY <1>3 DEF NotDue, At, history
  <2> QED BY <2>1, ReqTyped, GoesLanes
       DEF Shape, Place, Outside, Working, Between, OfTheRun, OfAlone
<1>4. ASSUME NEW r \in Requests, WakeBreaks(r)
      PROVE  Lanes'
  <2>1. Goes(r, "idle") /\ lease' = lease /\ loose' = loose
          /\ req[r].at = "listed"
    BY <1>4 DEF WakeBreaks, At, history, Trouble
  <2> QED BY <2>1, ReqTyped, GoesLanes
       DEF Shape, Place, Outside, Working, Between, OfTheRun, OfAlone
<1>5. ASSUME NEW r \in Requests, WakeTimesOut(r)
      PROVE  Lanes'
  <2>1. Goes(r, "idle") /\ lease' = lease /\ loose' = loose
          /\ req[r].at = "woken"
    BY <1>5 DEF WakeTimesOut, At, history
  <2> QED BY <2>1, ReqTyped, GoesLanes
       DEF Shape, Place, Outside, Working, Between, OfTheRun, OfAlone
<1>6. ASSUME NEW r \in Requests, Vanishes(r)
      PROVE  Lanes'
  <2>1. Goes(r, "idle") /\ lease' = lease /\ loose' = loose
          /\ req[r].at = "woken"
    BY <1>6 DEF Vanishes, At, history
  <2> QED BY <2>1, ReqTyped, GoesLanes
       DEF Shape, Place, Outside, Working, Between, OfTheRun, OfAlone
<1>7. ASSUME NEW r \in Requests, Executes(r)
      PROVE  Lanes'
  <2> DEFINE n == [req[r] EXCEPT !.at = "leased"]
  <2>1. /\ req[r].at = "woken" /\ loose' = loose
        /\ req' = [req EXCEPT ![r] = n]
        /\ lease["goal"] = None /\ lease' = [lease EXCEPT !["goal"] = r]
    BY <1>7 DEF Executes, At, Goes, IsFree, history
  <2>2. n \in ReqType /\ n.at = "leased" /\ n.for = "goal" /\ n.care = "kept"
    BY <2>1, ReqTyped DEF ReqType, Shape, Place, Outside, Between
  <2> HIDE DEF n
  <2>3. req' \in [Requests -> ReqType] /\ Others(r) /\ req'[r] = n
    BY <2>1, <2>2, ReqSet
  <2>4. Shape(n) /\ Holds(n, "goal")
    BY <2>2 DEF Holds, Shape, Outside, OfTheRun
  <2>5. \A token \in Tokens : ~Holds(req[r], token)
    BY <2>1 DEF Holds, Outside
  <2> QED BY <2>1, <2>2, <2>3, <2>4, <2>5, LanesTaken DEF Tokens
<1>8. ASSUME NEW r \in Requests, AlreadyRuns(r)
      PROVE  Lanes'
  <2>1. Goes(r, "refused") /\ lease' = lease /\ loose' = loose
          /\ req[r].at = "woken"
    BY <1>8 DEF AlreadyRuns, At, history
  <2> QED BY <2>1, ReqTyped, GoesLanes
       DEF Shape, Place, Outside, Working, Between, OfTheRun, OfAlone
<1>9. ASSUME NEW r \in Requests, HandsBack(r)
      PROVE  Lanes'
  <2>1. Goes(r, "idle") /\ lease' = lease /\ loose' = loose
          /\ req[r].at = "refused"
    BY <1>9 DEF HandsBack, At, history
  <2> QED BY <2>1, ReqTyped, GoesLanes
       DEF Shape, Place, Outside, Working, Between, OfTheRun, OfAlone
<1>10. ASSUME NEW r \in Requests, NoRoom(r)
       PROVE  Lanes'
  <2>1. Goes(r, "idle") /\ lease' = lease /\ loose' = loose
          /\ req[r].at = "woken"
    BY <1>10 DEF NoRoom, At, history, Trouble
  <2> QED BY <2>1, ReqTyped, GoesLanes
       DEF Shape, Place, Outside, Working, Between, OfTheRun, OfAlone
<1>11. ASSUME NEW r \in Requests, Unreachable(r)
       PROVE  Lanes'
  <2>1. Leaves(r) /\ loose' = loose /\ req[r].at = "leased"
    BY <1>11 DEF Unreachable, At, history
  <2> QED BY <2>1, ReqTyped, LeavesLanes
       DEF Shape, Place, Outside, Working, Between, OfTheRun, OfAlone
<1>12. ASSUME NEW r \in Requests, EntersProjectLock(r)
       PROVE  Lanes'
  <2>1. lease' = lease /\ loose' = loose /\ req[r].at = "leased"
    BY <1>12 DEF EntersProjectLock, Enters, At, history
  <2>2. CASE row.status = "draining"
    <3>1. req' = [req EXCEPT ![r].at = "overdue", ![r].again = TRUE]
      BY <1>12, <2>2 DEF EntersProjectLock, Enters
    <3> QED BY <2>1, <3>1, ReqTyped, TurnsLanes
         DEF Shape, Place, Outside, Working, Between, OfTheRun, OfAlone, Care
  <2>3. CASE row.status # "draining"
    <3>1. Goes(r, "beginning")
      BY <1>12, <2>3 DEF EntersProjectLock, Enters, Goes
    <3> QED BY <2>1, <3>1, ReqTyped, GoesLanes
         DEF Shape, Place, Outside, Working, Between, OfTheRun, OfAlone
  <2> QED BY <2>2, <2>3
<1>13. ASSUME NEW r \in Requests, Calls(r)
       PROVE  Lanes'
  <2>1. lease' = lease /\ loose' = loose /\ req[r].at = "begun"
    BY <1>13 DEF Calls, Enters, At, history
  <2>2. CASE row.status = "draining"
    <3>1. req' = [req EXCEPT ![r].at = "overdue", ![r].again = TRUE]
      BY <1>13, <2>2 DEF Calls, Enters
    <3> QED BY <2>1, <3>1, ReqTyped, TurnsLanes
         DEF Shape, Place, Outside, Working, Between, OfTheRun, OfAlone, Care
  <2>3. CASE row.status # "draining"
    <3>1. Goes(r, "calling")
      BY <1>13, <2>3 DEF Calls, Enters, Goes
    <3> QED BY <2>1, <3>1, ReqTyped, GoesLanes
         DEF Shape, Place, Outside, Working, Between, OfTheRun, OfAlone
  <2> QED BY <2>2, <2>3
<1>14. ASSUME NEW r \in Requests, EntersDelivery(r)
       PROVE  Lanes'
  <2>1. Goes(r, "delivering") /\ lease' = lease /\ loose' = loose
          /\ req[r].at = "returned"
    BY <1>14 DEF EntersDelivery, At, history
  <2> QED BY <2>1, ReqTyped, GoesLanes
       DEF Shape, Place, Outside, Working, Between, OfTheRun, OfAlone
<1>15. ASSUME NEW r \in Requests, Begins(r)
       PROVE  Lanes'
  <2>1. WorkerEnds(r, "begun") /\ loose' = loose /\ req[r].at = "beginning"
    BY <1>15 DEF Begins, At, history
  <2> QED BY <2>1, ReqTyped, WorkerEndsLanes
       DEF Shape, Place, Outside, Working, Between, OfTheRun, OfAlone
<1>16. ASSUME NEW r \in Requests, HasEnded(r)
       PROVE  Lanes'
  <2>1. loose' = loose /\ req[r].at = "beginning"
    BY <1>16 DEF HasEnded, At, history
  <2>2. CASE Kept(r)
    <3>1. Leaves(r)
      BY <1>16, <2>2 DEF HasEnded
    <3> QED BY <2>1, <2>2, <3>1, LeavesLanes DEF Kept, Outside
  <2>3. CASE ~Kept(r)
    <3>1. WorkerEnds(r, "begun")
      BY <1>16, <2>3 DEF HasEnded
    <3> QED BY <2>1, <3>1, ReqTyped, WorkerEndsLanes
         DEF Shape, Place, Outside, Working, Between, OfTheRun, OfAlone
  <2> QED BY <2>2, <2>3
<1>17. ASSUME NEW r \in Requests, MayNotBegin(r)
       PROVE  Lanes'
  <2>1. loose' = loose /\ req[r].at = "beginning"
    BY <1>17 DEF MayNotBegin, At, history
  <2>2. CASE Kept(r)
    <3>1. Raises(r, FALSE)
      BY <1>17, <2>2 DEF MayNotBegin
    <3> QED BY <2>1, <2>2, <3>1, ReqTyped, TurnsLanes
         DEF Shape, Place, Outside, Working, Between, OfTheRun, OfAlone,
             Raises, Kept
  <2>3. CASE ~Kept(r)
    <3>1. WorkerEnds(r, "begun")
      BY <1>17, <2>3 DEF MayNotBegin
    <3> QED BY <2>1, <3>1, ReqTyped, WorkerEndsLanes
         DEF Shape, Place, Outside, Working, Between, OfTheRun, OfAlone
  <2> QED BY <2>2, <2>3
<1>18. ASSUME NEW r \in Requests, NEW again \in BOOLEAN, CallRaises(r, again)
       PROVE  Lanes'
  <2>1. loose' = loose /\ req[r].at = "calling"
    BY <1>18 DEF CallRaises, At, history
  <2>2. CASE Kept(r)
    <3>1. Raises(r, again)
      BY <1>18, <2>2 DEF CallRaises
    <3> QED BY <2>1, <2>2, <3>1, ReqTyped, TurnsLanes
         DEF Shape, Place, Outside, Working, Between, OfTheRun, OfAlone,
             Raises, Kept
  <2>3. CASE ~Kept(r)
    <3>1. WorkerEnds(r, "raised")
      BY <1>18, <2>3 DEF CallRaises
    <3> QED BY <2>1, <3>1, ReqTyped, WorkerEndsLanes
         DEF Shape, Place, Outside, Working, Between, OfTheRun, OfAlone
  <2> QED BY <2>2, <2>3
<1>19. ASSUME NEW r \in Requests, NotItsTurn(r)
       PROVE  Lanes'
  <2>1. loose' = loose /\ req[r].at = "delivering"
    BY <1>19 DEF NotItsTurn, At, history
  <2>2. CASE Kept(r)
    <3>1. Raises(r, FALSE)
      BY <1>19, <2>2 DEF NotItsTurn
    <3> QED BY <2>1, <2>2, <3>1, ReqTyped, TurnsLanes
         DEF Shape, Place, Outside, Working, Between, OfTheRun, OfAlone,
             Raises, Kept
  <2>3. CASE ~Kept(r)
    <3>1. WorkerEnds(r, "raised")
      BY <1>19, <2>3 DEF NotItsTurn
    <3> QED BY <2>1, <3>1, ReqTyped, WorkerEndsLanes
         DEF Shape, Place, Outside, Working, Between, OfTheRun, OfAlone
  <2> QED BY <2>2, <2>3
<1>20. ASSUME NEW r \in Requests, NEW again \in BOOLEAN, PersistBreaks(r, again)
       PROVE  Lanes'
  <2>1. loose' = loose /\ req[r].at = "delivering"
    BY <1>20 DEF PersistBreaks, At, history, Trouble
  <2>2. CASE Kept(r)
    <3>1. Raises(r, again)
      BY <1>20, <2>2 DEF PersistBreaks
    <3> QED BY <2>1, <2>2, <3>1, ReqTyped, TurnsLanes
         DEF Shape, Place, Outside, Working, Between, OfTheRun, OfAlone,
             Raises, Kept
  <2>3. CASE ~Kept(r)
    <3>1. WorkerEnds(r, "raised")
      BY <1>20, <2>3 DEF PersistBreaks
    <3> QED BY <2>1, <3>1, ReqTyped, WorkerEndsLanes
         DEF Shape, Place, Outside, Working, Between, OfTheRun, OfAlone
  <2> QED BY <2>2, <2>3
<1>21. ASSUME NEW r \in Requests, NEW out \in Outcomes,
             Returns(r, out)
       PROVE  Lanes'
  <2> DEFINE n == CASE req[r].care = "kept" -> [req[r] EXCEPT !.at = "returned",
                                                              !.out = out]
                    [] req[r].care = "drain" -> [req[r] EXCEPT !.at = "over"]
                    [] OTHER -> Idle
  <2>1. lease' = lease /\ loose' = loose /\ req[r].at = "calling"
          /\ req' = [req EXCEPT ![r] = n]
    BY <1>21 DEF Returns, At, history
  <2>2. CASE req[r].care = "kept"
    <3> DEFINE m == [req[r] EXCEPT !.at = "returned", !.out = out]
    <3>1. n = m
      BY <2>2
    <3>2. m \in ReqType /\ m.at = "returned" /\ m.care = "kept"
            /\ m.for = req[r].for
      BY <2>2, ReqTyped DEF ReqType, Place, Between
    <3> HIDE DEF m, n
    <3>3. req' \in [Requests -> ReqType] /\ Others(r) /\ req'[r] = m
      BY <2>1, <3>1, <3>2, ReqSet
    <3>4. Shape(m)
            /\ \A token \in Tokens : Holds(m, token) <=> Holds(req[r], token)
      BY <2>1, <2>2, <3>2, ReqTyped DEF Shape, Holds, Outside, OfTheRun
    <3> QED BY <2>1, <3>2, <3>3, <3>4, LanesKept
  <2>3. CASE req[r].care = "drain"
    <3>1. Goes(r, "over")
      BY <2>1, <2>3 DEF Goes
    <3> QED BY <2>1, <2>3, <3>1, ReqTyped, GoesLanes
         DEF Shape, Place, Outside, Working, Between, OfTheRun, OfAlone
  <2>4. CASE req[r].care \notin {"kept", "drain"}
    <3>1. req' = [req EXCEPT ![r] = Idle]
      BY <2>1, <2>4
    <3>2. \A token \in Tokens : ~Holds(req[r], token)
      BY <2>4 DEF Holds
    <3>3. req' \in [Requests -> ReqType] /\ Others(r) /\ req'[r] = Idle
      BY <3>1, IdleTyped, ReqSet
    <3>4. Idle.care = "kept"
      BY DEF Idle
    <3> QED BY <2>1, <3>2, <3>3, <3>4, IdleTyped, LanesKept
  <2> QED BY <2>2, <2>3, <2>4
<1>22. ASSUME NEW r \in Requests, PersistsOutcome(r)
       PROVE  Lanes'
  <2>1. Delivered(r, Outcome(row, req[r].out)) /\ loose' = loose
          /\ req[r].at = "delivering"
    BY <1>22 DEF PersistsOutcome, At, history
  <2> QED BY <2>1, DeliveredLanes
<1>23. ASSUME NEW r \in Requests, PersistsBlock(r)
       PROVE  Lanes'
  <2>1. Goes(r, "linking") /\ lease' = lease /\ loose' = loose
          /\ req[r].at = "delivering"
    BY <1>23 DEF PersistsBlock, At, history
  <2> QED BY <2>1, ReqTyped, GoesLanes
       DEF Shape, Place, Outside, Working, Between, OfTheRun, OfAlone
<1>24. ASSUME NEW r \in Requests, PersistsResult(r)
       PROVE  Lanes'
  <2> DEFINE d == Recover(row, result)
  <2>1. (Delivered(r, Complete(d)) \/ Delivered(r, d)) /\ loose' = loose
          /\ req[r].at = "delivering"
    BY <1>24 DEF PersistsResult, At, history
  <2> HIDE DEF d
  <2> QED BY <2>1, DeliveredLanes
<1>25. ASSUME NEW r \in Requests, Links(r)
       PROVE  Lanes'
  <2>1. Delivered(r, Linked(row, req[r].out)) /\ loose' = loose
          /\ req[r].at = "linking"
    BY <1>25 DEF Links, At, history
  <2> QED BY <2>1, DeliveredLanes
<1>26. ASSUME NEW r \in Requests, Fails(r)
       PROVE  Lanes'
  <2>1. Leaves(r) /\ loose' = loose /\ req[r].at = "raised"
    BY <1>26 DEF Fails, At, history
  <2> QED BY <2>1, ReqTyped, LeavesLanes
       DEF Shape, Place, Outside, Working, Between, OfTheRun, OfAlone
<1>27. ASSUME NEW r \in Requests, ClosesDrain(r)
       PROVE  Lanes'
  <2>1. Leaves(r) /\ loose' = loose /\ req[r].at = "overdue"
    BY <1>27 DEF ClosesDrain, At, history
  <2> QED BY <2>1, ReqTyped, LeavesLanes
       DEF Shape, Place, Outside, Working, Between, OfTheRun, OfAlone
<1>28. ASSUME NEW r \in Requests, NEW a \in Approvals,
             UserApproves(r, a)
       PROVE  Lanes'
  <2> DEFINE n == [Idle EXCEPT !.at = "marking", !.for = "apply", !.out = a]
  <2>1. /\ req[r].at = "idle" /\ loose' = loose
        /\ req' = [req EXCEPT ![r] = n]
        /\ lease["apply"] = None /\ lease' = [lease EXCEPT !["apply"] = r]
    BY <1>28 DEF UserApproves, At, IsFree, history
  <2>2. n \in ReqType /\ n.at = "marking" /\ n.for = "apply" /\ n.care = "kept"
    BY DEF Idle, ReqType, Place, Tokens, Care, Outcomes
  <2> HIDE DEF n
  <2>3. req' \in [Requests -> ReqType] /\ Others(r) /\ req'[r] = n
    BY <2>1, <2>2, ReqSet
  <2>4. Shape(n) /\ Holds(n, "apply")
    BY <2>2 DEF Holds, Shape, Outside, OfTheRun
  <2>5. \A token \in Tokens : ~Holds(req[r], token)
    BY <2>1 DEF Holds, Outside
  <2> QED BY <2>1, <2>2, <2>3, <2>4, <2>5, LanesTaken DEF Tokens
<1>29. ASSUME NEW r \in Requests, NEW a \in Approvals,
             UserApprovesEarly(r, a)
       PROVE  Lanes'
  <2> DEFINE n == [Idle EXCEPT !.at = "approving", !.for = "apply",
                               !.care = "alone", !.out = a]
  <2>1. /\ req[r].at = "idle" /\ loose' = loose /\ lease' = lease
        /\ req' = [req EXCEPT ![r] = n]
    BY <1>29 DEF UserApprovesEarly, At, history
  <2>2. n \in ReqType /\ n.at = "approving" /\ n.care = "alone"
    BY DEF Idle, ReqType, Place, Working, Tokens, Care, Outcomes
  <2> HIDE DEF n
  <2>3. req' \in [Requests -> ReqType] /\ Others(r) /\ req'[r] = n
    BY <2>1, <2>2, ReqSet
  <2>4. Shape(n) /\ \A token \in Tokens : ~Holds(n, token)
    BY <2>2 DEF Holds, Shape, Outside, OfTheRun, OfAlone
  <2>5. \A token \in Tokens : ~Holds(req[r], token)
    BY <2>1 DEF Holds, Outside
  <2> QED BY <2>1, <2>2, <2>3, <2>4, <2>5, LanesKept
<1>30. ASSUME NEW r \in Requests, EntersApply(r)
       PROVE  Lanes'
  <2>1. Goes(r, "approving") /\ lease' = lease /\ loose' = loose
          /\ req[r].at = "marking"
    BY <1>30 DEF EntersApply, At, history
  <2> QED BY <2>1, ReqTyped, GoesLanes
       DEF Shape, Place, Outside, Working, Between, OfTheRun, OfAlone
<1>31. ASSUME NEW r \in Requests, CancelledInMark(r)
       PROVE  Lanes'
  <2>1. Leaves(r) /\ loose' = loose /\ req[r].at = "marking"
    BY <1>31 DEF CancelledInMark, At, history, Trouble
  <2> QED BY <2>1, ReqTyped, LeavesLanes
       DEF Shape, Place, Outside, Working, Between, OfTheRun, OfAlone
<1>32. ASSUME NEW r \in Requests, Approves(r)
       PROVE  Lanes'
  <2>1. WorkerEnds(r, "approved") /\ loose' = loose /\ req[r].at = "approving"
    BY <1>32 DEF Approves, At, history
  <2> QED BY <2>1, ReqTyped, WorkerEndsLanes
       DEF Shape, Place, Outside, Working, Between, OfTheRun, OfAlone
<1>33. ASSUME NEW r \in Requests, ApproveFails(r)
       PROVE  Lanes'
  <2>1. loose' = loose /\ req[r].at = "approving"
    BY <1>33 DEF ApproveFails, At, history, Trouble
  <2>2. CASE req[r].care = "alone"
    <3>1. Leaves(r)
      BY <1>33, <2>2 DEF ApproveFails
    <3> QED BY <2>1, <2>2, <3>1, LeavesLanes DEF Outside
  <2>3. CASE req[r].care # "alone"
    <3>1. WorkerEnds(r, "restoring")
      BY <1>33, <2>3 DEF ApproveFails
    <3> QED BY <2>1, <2>3, <3>1, ReqTyped, WorkerEndsLanes
         DEF Shape, Place, Outside, Working, Between, OfTheRun, OfAlone
  <2> QED BY <2>2, <2>3
<1>34. ASSUME NEW r \in Requests, Restores(r)
       PROVE  Lanes'
  <2>1. Leaves(r) /\ loose' = loose /\ req[r].at = "restoring"
    BY <1>34 DEF Restores, At, history
  <2> QED BY <2>1, ReqTyped, LeavesLanes
       DEF Shape, Place, Outside, Working, Between, OfTheRun, OfAlone
<1>35. ASSUME NEW r \in Requests, Applies(r)
       PROVE  Lanes'
  <2>1. \/ Goes(r, "applying")
        \/ Goes(r, "failing")
    BY <1>35 DEF Applies
  <2>2. lease' = lease /\ loose' = loose /\ req[r].at = "approved"
    BY <1>35 DEF Applies, At, history
  <2> QED BY <2>1, <2>2, ReqTyped, GoesLanes
       DEF Shape, Place, Outside, Working, Between, OfTheRun, OfAlone
<1>36. ASSUME NEW r \in Requests, NEW how, ActionEnds(r, how)
       PROVE  Lanes'
  <2>1. Goes(r, "resolving") /\ lease' = lease /\ loose' = loose
          /\ req[r].at = "applying"
    BY <1>36 DEF ActionEnds, At, history
  <2> QED BY <2>1, ReqTyped, GoesLanes
       DEF Shape, Place, Outside, Working, Between, OfTheRun, OfAlone
<1>37. ASSUME NEW r \in Requests, Resolves(r)
       PROVE  Lanes'
  <2>1. loose' = loose /\ req[r].at = "resolving"
    BY <1>37 DEF Resolves, At, history
  <2>2. \/ /\ req[r].care = "kept" /\ lease' = lease
           /\ req' = [req EXCEPT ![r].at = "overdue", ![r].again = FALSE]
        \/ req[r].care \in {"kept", "alone"} /\ Leaves(r)
        \/ WorkerEnds(r, "over") /\ req[r].care \notin {"kept", "alone"}
    BY <1>37 DEF Resolves, Kept
  <2>3. ASSUME req[r].care = "kept", lease' = lease,
               req' = [req EXCEPT ![r].at = "overdue", ![r].again = FALSE]
        PROVE  Lanes'
    BY <2>1, <2>3, ReqTyped, TurnsLanes
    DEF Shape, Place, Outside, Working, Between, OfTheRun, OfAlone
  <2>4. ASSUME req[r].care \in {"kept", "alone"}, Leaves(r)
        PROVE  Lanes'
    BY <2>1, <2>4, LeavesLanes DEF Outside
  <2>5. ASSUME WorkerEnds(r, "over"), req[r].care \notin {"kept", "alone"}
        PROVE  Lanes'
    BY <2>1, <2>5, ReqTyped, WorkerEndsLanes
    DEF Shape, Place, Outside, Working, Between, OfTheRun, OfAlone
  <2> QED BY <2>2, <2>3, <2>4, <2>5
<1>38. ASSUME NEW r \in Requests, ResolveBreaks(r)
       PROVE  Lanes'
  <2>1. loose' = loose /\ req[r].at = "resolving"
    BY <1>38 DEF ResolveBreaks, At, Trouble
  <2>2. CASE req[r].care \in {"kept", "alone"}
    <3>1. Leaves(r)
      BY <1>38, <2>2 DEF ResolveBreaks
    <3> QED BY <2>1, <2>2, <3>1, LeavesLanes DEF Outside
  <2>3. CASE req[r].care \notin {"kept", "alone"}
    <3>1. WorkerEnds(r, "over")
      BY <1>38, <2>3 DEF ResolveBreaks
    <3> QED BY <2>1, <2>3, <3>1, ReqTyped, WorkerEndsLanes
         DEF Shape, Place, Outside, Working, Between, OfTheRun, OfAlone
  <2> QED BY <2>2, <2>3
<1>39. ASSUME NEW r \in Requests, ApplyFails(r)
       PROVE  Lanes'
  <2>1. Leaves(r) /\ loose' = loose /\ req[r].at = "failing"
    BY <1>39 DEF ApplyFails, At, history
  <2> QED BY <2>1, ReqTyped, LeavesLanes
       DEF Shape, Place, Outside, Working, Between, OfTheRun, OfAlone
<1>40. ASSUME NEW r \in Requests, TimesOut(r)
       PROVE  Lanes'
  <2> DEFINE n == [req[r] EXCEPT !.care = "drain",
                                 !.again = req[r].for = "goal"]
  <2>1. req[r].at \in Working /\ req[r].care = "kept"
          /\ lease' = lease /\ loose' = loose
    BY <1>40 DEF TimesOut, Kept, history
  <2>2. req' = [req EXCEPT ![r] = n]
    BY <1>40 DEF TimesOut
  <2>3. n \in ReqType /\ n.care = "drain" /\ n.at = req[r].at
          /\ n.for = req[r].for
    BY ReqTyped DEF ReqType, Care
  <2> HIDE DEF n
  <2>4. req' \in [Requests -> ReqType] /\ Others(r) /\ req'[r] = n
    BY <2>2, <2>3, ReqSet
  <2>5. Shape(n)
          /\ \A token \in Tokens : Holds(n, token) <=> Holds(req[r], token)
    BY <2>1, <2>3, ReqTyped DEF Shape, Holds, Working, Outside
  <2> QED BY <2>1, <2>3, <2>4, <2>5, LanesKept
<1>41. ASSUME NEW r \in Requests, Cancelled(r)
       PROVE  Lanes'
  <2> DEFINE d == Drain(row, PhaseOf(r))
  <2>1. req[r].at \in Working /\ req[r].care = "kept"
    BY <1>41 DEF Cancelled, Kept
  <2>2. Holds(req[r], req[r].for)
    BY <2>1 DEF Holds, Working, Outside
  <2>3. CASE d.status = "draining"
    <3> DEFINE n == [req[r] EXCEPT !.care = "drain", !.again = FALSE]
    <3>1. req' = [req EXCEPT ![r] = n] /\ lease' = lease /\ loose' = loose
      BY <1>41, <2>3 DEF Cancelled
    <3>2. n \in ReqType /\ n.care = "drain" /\ n.at = req[r].at
            /\ n.for = req[r].for
      BY ReqTyped DEF ReqType, Care
    <3> HIDE DEF n
    <3>3. req' \in [Requests -> ReqType] /\ Others(r) /\ req'[r] = n
      BY <3>1, <3>2, ReqSet
    <3>4. Shape(n)
            /\ \A token \in Tokens : Holds(n, token) <=> Holds(req[r], token)
      BY <2>1, <3>2, ReqTyped DEF Shape, Holds, Working, Outside
    <3> QED BY <3>1, <3>2, <3>3, <3>4, LanesKept
  <2>4. CASE d.status # "draining"
    <3> DEFINE n == [req[r] EXCEPT !.care = "nobody"]
    <3>1. /\ req' = [req EXCEPT ![r] = n] /\ loose' = TRUE
          /\ lease' = [lease EXCEPT ![req[r].for] = None]
      BY <1>41, <2>4 DEF Cancelled, Released
    <3>2. n \in ReqType /\ n.care = "nobody" /\ n.at = req[r].at
            /\ n.for = req[r].for
      BY ReqTyped DEF ReqType, Care
    <3> HIDE DEF n
    <3>3. req' \in [Requests -> ReqType] /\ Others(r) /\ req'[r] = n
      BY <3>1, <3>2, ReqSet
    <3>4. Shape(n) /\ \A token \in Tokens : ~Holds(n, token)
      BY <2>1, <3>2, ReqTyped DEF Shape, Holds, Working, Outside
    <3> QED BY <2>2, <3>1, <3>2, <3>3, <3>4, LanesGivenBack
  <2> QED BY <2>3, <2>4
<1>42. ASSUME NEW r \in Requests, CancelledBetween(r)
       PROVE  Lanes'
  <2> DEFINE d == Drain(row, PhaseOf(r))
  <2>1. req[r].at \in Between /\ req[r].care = "kept" /\ loose' = loose
    BY <1>42 DEF CancelledBetween, Trouble
  <2>2. CASE d.status = "draining"
    <3> DEFINE n == [req[r] EXCEPT !.at = "over", !.care = "drain",
                                   !.again = FALSE]
    <3>1. req' = [req EXCEPT ![r] = n] /\ lease' = lease
      BY <1>42, <2>2 DEF CancelledBetween
    <3>2. n \in ReqType /\ n.care = "drain" /\ n.at = "over"
            /\ n.for = req[r].for
      BY ReqTyped DEF ReqType, Care, Place
    <3> HIDE DEF n
    <3>3. req' \in [Requests -> ReqType] /\ Others(r) /\ req'[r] = n
      BY <3>1, <3>2, ReqSet
    <3>4. Shape(n)
            /\ \A token \in Tokens : Holds(n, token) <=> Holds(req[r], token)
      BY <2>1, <3>2, ReqTyped DEF Shape, Holds, Between, Outside, OfTheRun
    <3> QED BY <2>1, <3>1, <3>2, <3>3, <3>4, LanesKept
  <2>3. CASE d.status # "draining"
    <3>1. Leaves(r)
      BY <1>42, <2>3 DEF CancelledBetween
    <3> QED BY <2>1, <3>1, LeavesLanes DEF Between, Outside
  <2> QED BY <2>2, <2>3
<1>43. ASSUME NEW r \in Requests, DrainEnds(r)
       PROVE  Lanes'
  <2>1. Leaves(r) /\ loose' = loose /\ req[r].at = "over"
    BY <1>43 DEF DrainEnds, At, history
  <2> QED BY <2>1, ReqTyped, LeavesLanes
       DEF Shape, Place, Outside, Working, Between, OfTheRun, OfAlone
<1>44. ASSUME NEW token \in Tokens, Retire(token)
       PROVE  Lanes'
  <2>1. req' = req /\ loose' = TRUE /\ lease' = [lease EXCEPT ![token] = None]
    BY <1>44 DEF Retire
  <2>2. \A r \in Requests : r # None
    BY NoneIsNoId DEF Requests
  <2> QED BY <2>1, <2>2 DEF Lanes, Shape, Holds
<1>45. ASSUME Restart
       PROVE  Lanes'
  <2>1. /\ req' = [r \in Requests |-> Idle] /\ loose' = FALSE
        /\ lease' = [t \in Tokens |-> None]
    BY <1>45 DEF Restart, Lanes
  <2>2. \A r \in Requests : r # None
    BY NoneIsNoId DEF Requests
  <2>3. Idle.care = "kept"
    BY DEF Idle
  <2>4. req' \in [Requests -> ReqType]
          /\ \A r \in Requests : Shape(req'[r]) /\ req'[r] = Idle
    BY <2>1, IdleTyped
  <2>5. lease' \in [Tokens -> Requests \cup {None}]
          /\ \A t \in Tokens : lease'[t] = None
    BY <2>1
  <2>6. \A r \in Requests, t \in Tokens : ~Holds(req'[r], t)
    BY <2>4, IdleTyped
  <2>7. \A r \in Requests :
          Shape(req[r])' /\ (req'[r].care = "nobody" => loose')
    BY <2>3, <2>4 DEF Shape
  <2>8. \A r \in Requests, t \in Tokens :
          /\ lease'[t] = r => Holds(req'[r], t)
          /\ Holds(req'[r], t) => loose' \/ lease'[t] = r
    BY <2>2, <2>5, <2>6
  <2> QED BY <2>4, <2>5, <2>7, <2>8 DEF Lanes, Holds
<1>46. ASSUME UNCHANGED <<lease, req, loose>> PROVE Lanes'
  BY <1>46 DEF Lanes, Shape, Holds
<1>47. ASSUME \/ \E a \in Approvals : Rejects(a) \/ RejectBreaks(a)
              \/ \E q \in Questions : Answers(q) \/ HandsOver(q)
      PROVE  Lanes'
  BY <1>47, <1>46
  DEF Rejects, RejectBreaks, Answers, HandsOver, history, Trouble
<1>48. ASSUME \/ \E a \in Approvals : MonitorLinks(a)
              \/ Recovers \/ FindsCorrupt \/ Materialize
              \/ WatchdogBarks \/ Reminds \/ FileSpoils
      PROVE  Lanes'
  BY <1>48, <1>46 DEF MonitorLinks, Recovers, FindsCorrupt, Materialize,
     WatchdogBarks, Reminds, FileSpoils, history, Trouble
<1>49. ASSUME NEW r \in Requests, Asks(r)
      PROVE  Lanes'
  BY <1>49, <1>1, <1>2, <1>3, <1>4, <1>5, <1>6, <1>7, <1>8, <1>9, <1>10 DEF Asks
<1>50. ASSUME NEW r \in Requests, GoesOn(r)
      PROVE  Lanes'
  BY <1>50, <1>11, <1>12, <1>13, <1>14, <1>26, <1>27, <1>30, <1>31, <1>34,
     <1>35, <1>39, <1>40, <1>41, <1>42, <1>43 DEF GoesOn
<1>51. ASSUME NEW r \in Requests, Ends(r)
      PROVE  Lanes'
  BY <1>51, <1>21, <1>18, <1>20, <1>36, <1>15, <1>16, <1>17, <1>22, <1>23,
     <1>24, <1>19, <1>25, <1>32, <1>33, <1>37, <1>38 DEF Ends
<1>52. ASSUME Decides
      PROVE  Lanes'
  <2>1. CASE \E r \in Requests, a \in Approvals :
               UserApproves(r, a) \/ UserApprovesEarly(r, a)
    BY <2>1, <1>28, <1>29
  <2>2. CASE \/ \E a \in Approvals : Rejects(a) \/ RejectBreaks(a)
             \/ \E q \in Questions : Answers(q) \/ HandsOver(q)
    BY <2>2, <1>47
  <2> QED BY <1>52, <2>1, <2>2 DEF Decides
<1>53. ASSUME Host
      PROVE  Lanes'
  BY <1>53, <1>44, <1>45, <1>48 DEF Host, Tokens
<1> QED BY <1>49, <1>50, <1>51, <1>52, <1>53 DEF Next

-----------------------------------------------------------------------------
(* The row and what is beside it.                                            *)

\* The row makes a sound step, and stays what it is to the occurrence.
Moves == reopened' = reopened /\ Sound(row, row')

\* A step beside the row.
LEMMA RowKept == ASSUME row \in Row, UNCHANGED <<row, reopened>> PROVE Moves
BY SoundStutter DEF Moves

\* An approval's end is brought to the row by sound operations.
LEMMA LinkedSound ==
  ASSUME row \in Row, NEW a PROVE Sound(row, Linked(row, a))
BY SoundStutter, SoundDeny, SoundResolveApproval DEF Linked

\* What a client does to the row is sound.
LEMMA RowAsks == ASSUME row \in Row, NEW r \in Requests, Asks(r) PROVE Moves
<1>1. ASSUME Wakes(r)
      PROVE  Moves
  <2> DEFINE d == Wake(row, result)
             e == [d EXCEPT !.known = @ \cup {r}]
  <2>1. row' = e /\ reopened' = reopened
    BY <1>1 DEF Wakes, history
  <2>2. Sound(row, d) /\ d \in Row
    BY SoundWake DEF Sound
  <2> HIDE DEF d
  <2>3. e \in Row /\ e.status = d.status /\ e.wakes = d.wakes
          /\ e.advanced = d.advanced
    BY <2>2 DEF Row, Requests
  <2> HIDE DEF e
  <2>4. Sound(d, e)
    BY <2>2, <2>3, SoundDetail
  <2> QED BY <2>1, <2>2, <2>3, <2>4, SoundTwice DEF Moves
<1>2. ASSUME WakeBreaks(r)
      PROVE  Moves
  BY <1>2, SoundHalfWake DEF WakeBreaks, Trouble, Moves
<1>3. ASSUME WakeTimesOut(r) \/ NoRoom(r) \/ HandsBack(r)
      PROVE  Moves
  BY <1>3, SoundDefer, SoundStutter
  DEF WakeTimesOut, NoRoom, HandsBack, Trouble, history, Moves
<1>4. ASSUME \/ Lists(r) \/ NotDue(r) \/ Vanishes(r) \/ Executes(r)
             \/ AlreadyRuns(r)
      PROVE  Moves
  BY <1>4, RowKept
  DEF Lists, NotDue, Vanishes, Executes, AlreadyRuns, history
<1> QED BY <1>1, <1>2, <1>3, <1>4 DEF Asks

\* So is what the coroutine of a request does to it.
LEMMA RowGoesOn ==
  ASSUME row \in Row, Lanes, NEW r \in Requests, GoesOn(r) PROVE Moves
<1>1. ASSUME Unreachable(r)
      PROVE  Moves
  BY <1>1, SoundSkip DEF Unreachable, Moves
<1>2. ASSUME EntersProjectLock(r) \/ Calls(r) \/ EntersDelivery(r)
      PROVE  Moves
  BY <1>2, SoundMarkPhase
  DEF EntersProjectLock, Calls, EntersDelivery, Enters, history, Moves
<1>3. ASSUME Fails(r) \/ ClosesDrain(r) \/ DrainEnds(r)
      PROVE  Moves
  <2>1. req[r].again \in BOOLEAN
    BY ReqTyped
  <2> QED BY <1>3, <2>1, SoundFail, SoundFinishDrain
          DEF Fails, ClosesDrain, DrainEnds, history, Moves
<1>4. ASSUME EntersApply(r) \/ CancelledInMark(r)
      PROVE  Moves
  BY <1>4, SoundMarkApply
  DEF EntersApply, CancelledInMark, Trouble, history, Moves
<1>5. ASSUME Restores(r)
      PROVE  Moves
  BY <1>5, LinkedSound, SoundFail, SoundRestoreWait
  DEF Restores, history, Moves
<1>6. ASSUME Applies(r)
      PROVE  Moves
  BY <1>6, RowKept DEF Applies, history
<1>7. ASSUME ApplyFails(r)
      PROVE  Moves
  BY <1>7, SoundResolveApproval DEF ApplyFails, history, Moves
<1>8. ASSUME TimesOut(r) \/ Cancelled(r) \/ CancelledBetween(r)
      PROVE  Moves
  <2>1. PhaseOf(r) \in Phase
    BY DEF PhaseOf, Phase
  <2> QED BY <1>8, <2>1, SoundDrain
          DEF TimesOut, Cancelled, CancelledBetween, Trouble, history, Moves
<1> QED BY <1>1, <1>2, <1>3, <1>4, <1>5, <1>6, <1>7, <1>8 DEF GoesOn

\* begin_delivery recovers the row, and begins, ends or refuses.
LEMMA RowBegins ==
  ASSUME row \in Row, NEW r \in Requests,
         Begins(r) \/ HasEnded(r) \/ MayNotBegin(r)
  PROVE  Moves
<1> DEFINE d == Recover(row, result)
<1>1. Sound(row, d) /\ d \in Row
  BY SoundRecover DEF Sound
<1>2. reopened' = reopened
  BY DEF Begins, HasEnded, MayNotBegin, history
<1>3. \/ row' = d
      \/ d.status \in Startable /\ row' = Begin(d)
      \/ d.status = "completed" /\ row' = Corrupt(d)
  BY DEF Begins, HasEnded, MayNotBegin
<1> HIDE DEF d
<1>4. CASE row' = d
  BY <1>1, <1>2, <1>4 DEF Moves
<1>5. CASE d.status \in Startable /\ row' = Begin(d)
  <2>1. Sound(d, row') /\ row' \in Row
    BY <1>1, <1>5, SoundBegin DEF Sound
  <2> QED BY <1>1, <1>2, <2>1, SoundTwice DEF Moves
<1>6. CASE d.status = "completed" /\ row' = Corrupt(d)
  <2>1. Sound(d, row') /\ row' \in Row
    BY <1>1, <1>6, SoundCorrupt DEF Sound
  <2> QED BY <1>1, <1>2, <2>1, SoundTwice DEF Moves
<1> QED BY <1>3, <1>4, <1>5, <1>6

\* Each outcome but a result is one operation on the row.
LEMMA OutcomeSound ==
  ASSUME row \in Row, NEW out \in Questions \cup (Plain \ {"done"})
  PROVE  Sound(row, Outcome(row, out))
<1>1. CASE out \in Questions
  <2>1. out \notin Plain
    BY <1>1, OutcomesDiffer
  <2> QED BY <1>1, <2>1, SoundBlock DEF Outcome, Plain
<1>2. CASE out \notin Questions /\ out = "denied"
  BY <1>2, SoundDeny DEF Outcome
<1>3. CASE out \notin Questions /\ out = "failed"
  BY <1>3, SoundFail DEF Outcome
<1>4. CASE out \notin Questions /\ out = "parked"
  BY <1>4, SoundPark DEF Outcome
<1> QED BY <1>1, <1>2, <1>3, <1>4 DEF Plain

\* complete_delivery recovers the row before it settles it.
LEMMA RowPersistsResult ==
  ASSUME row \in Row, NEW r \in Requests, PersistsResult(r)
  PROVE  Moves
<1> DEFINE d == Recover(row, result)
<1>1. Sound(row, d) /\ d \in Row
  BY SoundRecover DEF Sound
<1>2. reopened' = reopened
  BY DEF PersistsResult, history
<1>3. row' = d \/ (d.status = "running" /\ row' = Complete(d))
  BY DEF PersistsResult, Delivered, Accepts
<1> HIDE DEF d
<1>4. CASE row' = d
  BY <1>1, <1>2, <1>4 DEF Moves
<1>5. CASE d.status = "running" /\ row' = Complete(d)
  <2>1. Sound(d, row') /\ row' \in Row
    BY <1>1, <1>5, SoundSettles DEF Sound, Complete, Open
  <2> QED BY <1>1, <1>2, <2>1, SoundTwice DEF Moves
<1> QED BY <1>3, <1>4, <1>5

\* What a worker does to the row is sound.
LEMMA RowEnds ==
  ASSUME row \in Row, Lanes, NEW r \in Requests, Ends(r) PROVE Moves
<1>1. ASSUME \/ \E out \in Outcomes : Returns(r, out)
             \/ \E again \in BOOLEAN : CallRaises(r, again)
                                         \/ PersistBreaks(r, again)
             \/ \E how \in {"applied", "failed"} : ActionEnds(r, how)
             \/ NotItsTurn(r) \/ Approves(r) \/ ApproveFails(r)
      PROVE  Moves
  <2>1. UNCHANGED <<row, reopened>>
    BY <1>1 DEF Returns, CallRaises, PersistBreaks, ActionEnds, NotItsTurn,
      Approves, ApproveFails, history, Trouble
  <2> QED BY <2>1, RowKept
<1>2. ASSUME PersistsOutcome(r)
      PROVE  Moves
  BY <1>2, OutcomeSound DEF PersistsOutcome, Delivered, history, Moves
<1>3. ASSUME PersistsBlock(r)
      PROVE  Moves
  BY <1>3, SoundBlock DEF PersistsBlock, history, Moves
<1>4. ASSUME Links(r)
      PROVE  Moves
  BY <1>4, LinkedSound DEF Links, Delivered, history, Moves
<1>5. ASSUME Resolves(r)
      PROVE  Moves
  BY <1>5, LinkedSound, SoundFail, SoundStutter DEF Resolves, history, Moves
<1>6. ASSUME ResolveBreaks(r)
      PROVE  Moves
  BY <1>6, SoundFail, SoundStutter DEF ResolveBreaks, Trouble, Moves
<1> QED BY <1>1, <1>2, <1>3, <1>4, <1>5, <1>6, RowBegins, RowPersistsResult
        DEF Ends

\* An answer that comes for a settled delivery opens it; nothing else does.
Opens == /\ reopened' = TRUE /\ row' \in Row
         /\ IsSettled(row) /\ row.status = "parked"

\* The user's doings are sound, or open a parked delivery again.
LEMMA RowDecides ==
  ASSUME row \in Row, reopened \in BOOLEAN, Decides PROVE Moves \/ Opens
<1>1. ASSUME NEW r, NEW a, UserApproves(r, a) \/ UserApprovesEarly(r, a)
      PROVE  Moves
  BY <1>1, RowKept DEF UserApproves, UserApprovesEarly, history
<1>2. ASSUME NEW a, Rejects(a) \/ RejectBreaks(a)
      PROVE  Moves
  BY <1>2, SoundStutter, SoundDeny
  DEF Rejects, RejectBreaks, Trouble, history, Moves
<1>3. ASSUME NEW q, Answers(q)
      PROVE  Moves
  BY <1>3, RowKept DEF Answers, history
<1>4. ASSUME NEW q, HandsOver(q)
      PROVE  Moves \/ Opens
  <2>1. CASE IsAsked(row, q) /\ IsSettled(row)
    <3>1. row.status = "parked"
      BY <2>1 DEF IsAsked, IsSettled
    <3>2. row' \in Row /\ reopened' = TRUE
      BY <1>4, <2>1, SoundResolveQuestion DEF HandsOver
    <3> QED BY <2>1, <3>1, <3>2 DEF Opens
  <2>2. CASE ~(IsAsked(row, q) /\ IsSettled(row))
    <3>1. reopened' = reopened /\ row' = ResolveQuestion(row, q)
      BY <1>4, <2>2 DEF HandsOver
    <3> QED BY <2>2, <3>1, SoundResolveQuestion DEF Moves
  <2> QED BY <2>1, <2>2
<1> QED BY <1>1, <1>2, <1>3, <1>4 DEF Decides

\* A completed delivery is shown.
Shows == /\ reopened' = reopened /\ row' \in Row /\ row'.wakes = row.wakes
         /\ row.status = "completed" /\ row'.status = "materialized"

\* The monitor and the next process are sound, or show a result.
LEMMA RowHost == ASSUME row \in Row, Host PROVE Moves \/ Shows
<1>1. ASSUME NEW a, MonitorLinks(a)
      PROVE  Moves
  BY <1>1, LinkedSound DEF MonitorLinks, history, Moves
<1>2. ASSUME (\E token \in {"goal", "apply"} : Retire(token)) \/ FileSpoils
      PROVE  Moves
  BY <1>2, RowKept DEF Retire, FileSpoils, Trouble
<1>3. ASSUME Recovers \/ FindsCorrupt \/ WatchdogBarks \/ Reminds
      PROVE  Moves
  BY <1>3, SoundRecover, SoundCorrupt, SoundWatchdog, SoundRemind
  DEF Recovers, FindsCorrupt, WatchdogBarks, Reminds, history, Moves
<1>4. ASSUME Materialize
      PROVE  Shows
  BY <1>4 DEF Materialize, Becomes, Row, Status, history, Shows
<1>5. ASSUME Restart
      PROVE  Moves
  <2> DEFINE d == Reconcile(row, result)
  <2>1. Sound(row, d) /\ d \in Row
    BY SoundReconcile DEF Sound
  <2> HIDE DEF d
  <2>2. reopened' = reopened
    BY <1>5 DEF Restart
  <2>3. \E kept \in SUBSET {a \in Approvals : decision[a] = "pending"} :
          \E e \in {d, CloseOrphan(d)} : row' = MissesApproval(e, kept)
    BY <1>5 DEF Restart, d
  <2>4. PICK kept \in SUBSET {a \in Approvals : decision[a] = "pending"} :
          \E e \in {d, CloseOrphan(d)} : row' = MissesApproval(e, kept)
    BY <2>3
  <2>5. PICK e \in {d, CloseOrphan(d)} : row' = MissesApproval(e, kept)
    BY <2>4
  <2>6. Sound(d, e) /\ e \in Row
    BY <2>1, SoundStutter, SoundCloseOrphan DEF Sound
  <2>7. Sound(e, row') /\ row' \in Row
    BY <2>5, <2>6, SoundMissesApproval DEF Sound
  <2>8. Sound(row, e)
    BY <2>1, <2>6, SoundTwice
  <2> QED BY <2>6, <2>7, <2>8, <2>2, SoundTwice DEF Moves
<1> QED BY <1>1, <1>2, <1>3, <1>4, <1>5 DEF Host

-----------------------------------------------------------------------------
(* The invariant.                                                            *)

\* One more run, accident or uncounted attempt stays within its bound.
LEMMA Counts ==
  ASSUME RestOK
  PROVE  /\ trouble < MaxTrouble => trouble + 1 \in 0..MaxTrouble
         /\ runs < MaxRuns => runs + 1 \in 0..MaxRuns
         /\ OneMore \in 0..MaxRuns
BY BoundsAreNaturals DEF RestOK, OneMore

\* The result file changes and nothing else does.
LEMMA RestKept ==
  ASSUME RestOK, UNCHANGED <<outside, history>>,
         result' \in {"none", "good", "bad"}
  PROVE  RestOK'
BY DEF RestOK, outside, history

\* One accident, with what became of the decisions.
LEMMA RestTrouble ==
  ASSUME RestOK, Trouble, UNCHANGED asked,
         decision' \in [Approvals -> {"none", "pending", "approved", "applying",
                                      "applied", "failed", "rejected", "lost"}],
         result' \in {"none", "good", "bad"}
  PROVE  RestOK'
BY Counts DEF RestOK, Trouble

\* Every step keeps the types of all but the row and the lanes.
LEMMA RestNext == ASSUME RestOK, Next PROVE RestOK'
<1> USE DEF outside
<1>1. result \in {"none", "good", "bad"}
        /\ decision \in [Approvals -> {"none", "pending", "approved",
                           "applying", "applied", "failed", "rejected", "lost"}]
  BY DEF RestOK
<1>2. ASSUME NEW r \in Requests, Asks(r)
      PROVE  RestOK'
  <2>1. CASE WakeBreaks(r) \/ NoRoom(r)
    BY <1>1, <2>1, RestTrouble DEF WakeBreaks, NoRoom
  <2>2. CASE \/ Lists(r) \/ Wakes(r) \/ NotDue(r) \/ WakeTimesOut(r)
             \/ Vanishes(r) \/ Executes(r) \/ AlreadyRuns(r) \/ HandsBack(r)
    BY <1>1, <2>2, RestKept DEF Lists, Wakes, NotDue, WakeTimesOut, Vanishes,
      Executes, AlreadyRuns, HandsBack
  <2> QED BY <1>2, <2>1, <2>2 DEF Asks
<1>3. ASSUME NEW r \in Requests, GoesOn(r)
      PROVE  RestOK'
  <2>1. CASE Unreachable(r)
    BY <2>1, Counts DEF Unreachable, RestOK
  <2>2. CASE Calls(r)
    BY <2>2, Counts DEF Calls, Enters, RestOK
  <2>3. CASE Applies(r)
    BY <2>3 DEF Applies, RestOK, history
  <2>4. CASE Cancelled(r)
    BY <2>4, Counts DEF Cancelled, RestOK
  <2>5. CASE CancelledInMark(r) \/ CancelledBetween(r)
    BY <1>1, <2>5, RestTrouble DEF CancelledInMark, CancelledBetween
  <2>6. CASE \/ EntersProjectLock(r) \/ EntersDelivery(r) \/ Fails(r)
             \/ ClosesDrain(r) \/ EntersApply(r) \/ Restores(r)
             \/ ApplyFails(r) \/ TimesOut(r) \/ DrainEnds(r)
    BY <1>1, <2>6, RestKept DEF EntersProjectLock, EntersDelivery, Enters,
      Fails, ClosesDrain, EntersApply, Restores, WritesFile, ApplyFails,
      TimesOut, DrainEnds
  <2> QED BY <1>3, <2>1, <2>2, <2>3, <2>4, <2>5, <2>6 DEF GoesOn
<1>4. ASSUME NEW r \in Requests, Ends(r)
      PROVE  RestOK'
  <2>1. CASE \E out \in Outcomes : Returns(r, out)
    BY <2>1 DEF Returns, RestOK, history
  <2>2. CASE \E again \in BOOLEAN : PersistBreaks(r, again)
    BY <1>1, <2>2, RestTrouble DEF PersistBreaks
  <2>3. CASE \E how \in {"applied", "failed"} : ActionEnds(r, how)
    BY <2>3 DEF ActionEnds, RestOK, history
  <2>4. CASE Begins(r)
    BY <2>4, Counts DEF Begins, RestOK
  <2>5. CASE Approves(r)
    BY <2>5 DEF Approves, RestOK, history
  <2>6. CASE ApproveFails(r)
    BY <1>1, <2>6, RestTrouble, RestKept DEF ApproveFails
  <2>7. CASE ResolveBreaks(r)
    BY <1>1, <2>7, RestTrouble DEF ResolveBreaks
  <2>8. CASE PersistsOutcome(r) \/ PersistsBlock(r) \/ PersistsResult(r)
    BY <1>1, <2>8, RestKept DEF PersistsOutcome, PersistsBlock, PersistsResult
  <2>9. CASE \/ HasEnded(r) \/ MayNotBegin(r) \/ NotItsTurn(r) \/ Links(r)
             \/ Resolves(r) \/ \E again \in BOOLEAN : CallRaises(r, again)
    BY <1>1, <2>9, RestKept DEF HasEnded, MayNotBegin, NotItsTurn, Links,
      Resolves, CallRaises, WritesFile
  <2> QED BY <1>4, <2>1, <2>2, <2>3, <2>4, <2>5, <2>6, <2>7, <2>8, <2>9
          DEF Ends
<1>5. ASSUME Decides
      PROVE  RestOK'
  <2>1. CASE \E r \in Requests, a \in Approvals :
               UserApproves(r, a) \/ UserApprovesEarly(r, a)
    BY <1>1, <2>1, RestKept DEF UserApproves, UserApprovesEarly
  <2>2. CASE \E a \in Approvals : Rejects(a)
    BY <2>2 DEF Rejects, RestOK, history
  <2>3. CASE \E a \in Approvals : RejectBreaks(a)
    BY <1>1, <2>3, RestTrouble DEF RejectBreaks
  <2>4. CASE \E q \in Questions : Answers(q) \/ HandsOver(q)
    BY <2>4 DEF Answers, HandsOver, RestOK, history
  <2> QED BY <1>5, <2>1, <2>2, <2>3, <2>4 DEF Decides
<1>6. ASSUME Host
      PROVE  RestOK'
  <2>1. CASE \E token \in {"goal", "apply"} : Retire(token)
    BY <2>1, Counts DEF Retire, RestOK
  <2>2. CASE FileSpoils
    BY <1>1, <2>2, RestTrouble DEF FileSpoils
  <2>3. CASE \/ \E a \in Approvals : MonitorLinks(a)
             \/ Recovers \/ FindsCorrupt \/ Materialize \/ WatchdogBarks
             \/ Reminds
    BY <1>1, <2>3, RestKept DEF MonitorLinks, WritesFile, Recovers,
      FindsCorrupt, Materialize, WatchdogBarks, Reminds
  <2>4. CASE Restart
    <3>1. decision' \in [Approvals -> {"none", "pending", "approved",
                           "applying", "applied", "failed", "rejected", "lost"}]
      BY <1>1, <2>4 DEF Restart
    <3>2. trouble' \in 0..MaxTrouble /\ loose' = FALSE
            /\ UNCHANGED <<result, asked, runs, unpaid, early, reopened>>
      BY <2>4, Counts DEF Restart
    <3> QED BY <3>1, <3>2 DEF RestOK
  <2> QED BY <1>6, <2>1, <2>2, <2>3, <2>4 DEF Host
<1> QED BY <1>2, <1>3, <1>4, <1>5, <1>6 DEF Next

\* Until an answer has opened it again, the row is settled if and only if the
\* goal's schedule has moved on for it, once.
IInv ==
  /\ row \in Row /\ RestOK /\ Lanes
  /\ reopened \/ Balanced(row)

\* At the start nothing is asked, run or leased.
LEMMA IInvInit == ASSUME Init PROVE IInv
<1>1. row \in Row /\ Balanced(row)
  BY AttemptsArePositive
  DEF Init, Absent, Row, Status, Phase, Balanced, IsSettled
<1>2. RestOK
  <2>1. 0 \in 0..MaxRuns /\ 0 \in 0..MaxTrouble
    BY BoundsAreNaturals
  <2> QED BY <2>1 DEF Init, RestOK
<1>3. Lanes
  <2>1. /\ lease \in [Tokens -> Requests \cup {None}]
        /\ \A t \in Tokens : lease[t] = None
        /\ req \in [Requests -> ReqType]
        /\ \A r \in Requests : req[r] = Idle
    BY IdleTyped DEF Init, Tokens
  <2>2. \A r \in Requests : r # None
    BY NoneIsNoId DEF Requests
  <2>3. Idle.care # "nobody"
    BY DEF Idle
  <2> QED BY <2>1, <2>2, <2>3, IdleTyped DEF Lanes
<1> QED BY <1>1, <1>2, <1>3 DEF IInv

\* A step of the system is one of the three kinds.
LEMMA RowNext ==
  ASSUME IInv, Next PROVE Moves \/ Opens \/ Shows
BY RowAsks, RowGoesOn, RowEnds, RowDecides, RowHost DEF IInv, RestOK, Next

\* Every step keeps the invariant.
LEMMA IInvNext == ASSUME IInv, [Next]_vars PROVE IInv'
<1>1. CASE Next
  <2>1. RestOK' /\ Lanes'
    BY <1>1, RestNext, LanesNext DEF IInv
  <2>2. row' \in Row /\ (reopened' \/ Balanced(row'))
    <3>1. CASE Moves
      BY <3>1 DEF Moves, Sound, IInv
    <3>2. CASE Opens
      BY <3>2 DEF Opens
    <3>3. CASE Shows
      BY <3>3 DEF Shows, Balanced, IsSettled, IInv
    <3> QED BY <1>1, <3>1, <3>2, <3>3, RowNext
  <2> QED BY <2>1, <2>2 DEF IInv, Balanced, IsSettled
<1>2. CASE UNCHANGED vars
  BY <1>2 DEF vars, outside, history, IInv, RestOK, Lanes, Shape, Holds,
    Balanced, IsSettled
<1> QED BY <1>1, <1>2

\* The invariant holds in every reachable state.
LEMMA Inductive == Spec => []IInv
BY IInvInit, IInvNext, PTL DEF Spec

-----------------------------------------------------------------------------
\* The row, the leases and the requests of the coordinator have their types,
\* whatever the interleaving: no operation of the store is applied to a row
\* that it would take out of its type (an attempt beyond DELIVERY_MAX_ATTEMPTS).
THEOREM TypeCorrect == Spec => []TypeOK
<1>1. IInv => TypeOK
  BY DEF IInv, RestOK, Lanes, ReqType, Tokens, TypeOK
<1> QED BY <1>1, Inductive, PTL

\* However a request leaves the coordinator (return, exception, time limit,
\* cancellation, retired lease, restart), a lease that is held is held by a
\* request that still works in that lane.
THEOREM LanesAreWorkedFor == Spec => []LaneIsWorkedFor
<1>1. IInv => LaneIsWorkedFor
  BY DEF IInv, Lanes, Holds, Tokens, LaneIsWorkedFor
<1> QED BY <1>1, Inductive, PTL

\* The goal lane of acquire_result excludes: unless a lease was taken from its
\* holder, at most one request has a runtime running for the delivery.
THEOREM OneRunAtATime == Spec => []OneRun
<1>1. IInv => OneRun
  <2> SUFFICES ASSUME IInv, ~loose
               PROVE  Cardinality({r \in Requests : At(r, "calling")}) <= 1
    BY DEF OneRun
  <2> DEFINE S == {r \in Requests : At(r, "calling")}
  <2>1. \A r \in S : lease["goal"] = r
    <3> SUFFICES ASSUME NEW r \in Requests, req[r].at = "calling"
                 PROVE  lease["goal"] = r
      BY DEF At
    <3>1. req[r].for = "goal" /\ req[r].care \in {"kept", "drain"}
      BY ReqTyped DEF IInv, Lanes, Shape, OfTheRun, OfAlone, Care
    <3> QED BY <3>1 DEF IInv, Lanes, Holds, Outside, Tokens
  <2>2. S = {} \/ S = {lease["goal"]}
    BY <2>1
  <2>3. CASE S = {}
    <3>1. Cardinality(S) = 0
      BY <2>3, FS_EmptySet
    <3> QED BY <3>1
  <2>4. CASE S = {lease["goal"]}
    <3>1. Cardinality(S) = 1
      BY <2>4, FS_Singleton
    <3> QED BY <3>1
  <2> QED BY <2>2, <2>3, <2>4
<1> QED BY <1>1, Inductive, PTL

\* The delivery implements the occurrence it stands for: it is settled once,
\* by one outcome that stays, and the goal's schedule moves on with that step
\* and no other, until an answer opens a parked delivery again.
THEOREM OccurrenceSettlesOnce == Spec => SettlesOnce
<1> DEFINE out == IF reopened THEN "reopened"
                  ELSE IF IsSettled(row) THEN row.status ELSE "open"
           mv  == IF reopened THEN 1 ELSE row.wakes
<1>1. Init => Occurrence!Init
  BY DEF Init, Occurrence!Init, Absent, IsSettled
<1>2. ASSUME IInv, [Next]_vars
      PROVE  [Occurrence!Next]_<<out, mv>>
  <2> USE DEF Occurrence!Next, Occurrence!Settle, Occurrence!Show,
              Occurrence!LoseResult, Occurrence!Reopen
  <2>1. CASE UNCHANGED vars
    BY <2>1 DEF vars, outside, history, IsSettled
  <2>2. CASE Moves
    <3>1. CASE reopened
      BY <2>2, <3>1 DEF Moves
    <3>2. CASE ~reopened /\ IsSettled(row)
      BY <1>2, <2>2, <3>2 DEF Moves, Sound, Balanced, Keeps, IInv, IsSettled
    <3>3. CASE ~reopened /\ ~IsSettled(row)
      BY <1>2, <2>2, <3>3 DEF Moves, Sound, Balanced, Keeps, IInv, IsSettled
    <3> QED BY <3>1, <3>2, <3>3
  <2>3. CASE Opens
    BY <1>2, <2>3 DEF Opens, IInv, Balanced
  <2>4. CASE Shows
    BY <1>2, <2>4 DEF Shows, IInv, Balanced, IsSettled
  <2> QED BY <1>2, <2>1, <2>2, <2>3, <2>4, RowNext
<1> QED BY <1>1, <1>2, Inductive, PTL DEF Spec, SettlesOnce, Occurrence!Spec

-----------------------------------------------------------------------------
(* What is owed: runs to attempts, answers to questions, decisions to        *)
(* approvals.                                                                *)

One(b) == IF b THEN 1 ELSE 0

Begun == {r \in Requests : At(r, "begun")}

\* Runs that were made, and those a request is about to make, are paid for; and
\* a row that may yet be begun for its last claim has not used that up.
Paid ==
  /\ IsFiniteSet(Begun)
  /\ \/ unpaid = MaxRuns
     \/ runs + Cardinality(Begun) + One(Unused(row))
          <= row.attempt + unpaid + One(row.answered)

IsLate(r) == At(r, "delivering") /\ req[r].care = "drain"

\* Who is late finds no running row: it was drained, and who could begin it
\* again needs the lease.
LateFindNothing ==
  /\ \A r \in Requests : At(r, "returned") => req[r].care # "drain"
  /\ ~loose => \A r \in Requests : IsLate(r) => row.status # "running"

OfApproval == {"marking", "approving", "approved", "applying", "resolving",
               "failing", "restoring", "linking"}

Brings(r, out) == req[r].at \in {"returned", "delivering"} /\ req[r].out = out

LinksTo(r, a) == At(r, "linking") /\ req[r].out = a

\* A question or an approval that a request brings was asked for, and so was
\* one that the row has.
AskedFirst ==
  /\ \A r \in Requests : req[r].at \in OfApproval => req[r].out \in Approvals
  /\ \A r \in Requests, a \in Approvals :
       Brings(r, a) \/ LinksTo(r, a) => decision[a] # "none"
  /\ row.approval \in Approvals => decision[row.approval] # "none"
  /\ \A r \in Requests, q \in Questions :
       Brings(r, q) => asked[q] # "none" /\ row.question # q
  /\ row.question \in Questions => asked[row.question] # "none"

BroughtOnce ==
  \A r, s \in Requests, q \in Questions : Brings(r, q) /\ Brings(s, q) => r = s

\* An answer continued the row, to a question that nobody brings any more.
AnsweredOnce ==
  row.answered => \E q \in Questions : /\ asked[q] = "handed"
                                       /\ \A r \in Requests : ~Brings(r, q)

ReachedAnswers == \A q \in Questions : Reached(q) => row.answered

\* A row that was answered waits again for a question only after another.
WaitsForAnother ==
  \A q \in Questions :
    Awaits(q) /\ row.answered => \E p \in Questions \ {q} : asked[p] = "handed"

IsAt(a, places) ==
  \E r \in Requests : req[r].at \in places /\ req[r].out = a

WaitsFor(a) == WaitsForApproval(row) /\ row.approval = a

\* Where the row waits for an approval, it is for one that can be decided on, or
\* who decided it, or who has blocked the row meanwhile, has not yet told the row.
DecisionsArrive ==
  trouble = 0 =>
    /\ ~WaitsFor(None)
    /\ \A a \in Approvals :
         /\ decision[a] # "lost"
         /\ decision[a] = "applying" => IsAt(a, {"applying"})
         /\ WaitsFor(a) => \/ decision[a] \in {"pending", "approved", "applying"}
                           \/ IsAt(a, {"linking", "resolving"})

Settlements ==
  /\ Sane(row) /\ Paid /\ LateFindNothing /\ AskedFirst /\ BroughtOnce
  /\ AnsweredOnce /\ ReachedAnswers /\ WaitsForAnother

Deals == Settlements /\ DecisionsArrive

-----------------------------------------------------------------------------
(* Steps that owe nothing.                                                   *)

\* No request brings anything that it did not bring before.
Unheard ==
  \A r \in Requests :
    /\ req'[r].at \in {"returned", "delivering"}
         => req[r].at \in {"returned", "delivering"} /\ req'[r].out = req[r].out
    /\ req'[r].at \in OfApproval
         => \/ req[r].at \in OfApproval /\ req'[r].out = req[r].out
            \/ req'[r].out \in Approvals
    /\ At(r, "linking")' => At(r, "linking") /\ req'[r].out = req[r].out

\* Nor has one begun or returned, or is late, that had not or was not before.
NoNews ==
  /\ Unheard
  /\ \A r \in Requests :
       /\ At(r, "begun")' => At(r, "begun")
       /\ At(r, "returned")' => At(r, "returned") /\ req'[r].care = req[r].care
       /\ IsLate(r)' => IsLate(r)

\* Who has something to tell the row about an approval has it still.
NothingTold ==
  \A r \in Requests : req[r].at \in {"linking", "applying", "resolving"}
                        => req'[r].at = req[r].at /\ req'[r].out = req[r].out

\* What the row gains in attempts and answers makes up for an attempt that can
\* be used anew.
Worth(d, e) ==
  d.attempt + One(d.answered) + One(Unused(e))
    <= e.attempt + One(e.answered) + One(Unused(d))

\* A careful step is worth what it costs.
LEMMA CarefulWorth ==
  ASSUME NEW d \in Row, NEW e \in Row, Mild(d, e), Thrifty(d, e)
  PROVE  Worth(d, e)
<1>1. d.attempt \in Nat /\ e.attempt \in Nat
  BY DEF Row
<1>2. One(Unused(e)) = 1 => One(Unused(d)) = 1 \/ e.attempt > d.attempt
  BY DEF Thrifty, One
<1>3. One(d.answered) = One(e.answered) /\ e.attempt >= d.attempt
  BY DEF Mild
<1>4. /\ One(Unused(e)) \in {0, 1} /\ One(Unused(d)) \in {0, 1}
      /\ One(e.answered) \in {0, 1}
  BY DEF One
<1> QED BY <1>1, <1>2, <1>3, <1>4 DEF Worth

\* The numbers that Paid is about.
LEMMA PaidNumbers ==
  ASSUME IInv, Paid
  PROVE  /\ runs \in Nat /\ unpaid \in Nat /\ row.attempt \in Nat
         /\ MaxRuns \in Nat /\ runs <= MaxRuns /\ unpaid <= MaxRuns
         /\ Cardinality(Begun) \in Nat
         /\ One(Unused(row)) \in {0, 1} /\ One(row.answered) \in {0, 1}
<1>1. Cardinality(Begun) \in Nat
  BY FS_CardinalityType DEF Paid
<1>2. runs \in Nat /\ unpaid \in Nat /\ MaxRuns \in Nat
        /\ runs <= MaxRuns /\ unpaid <= MaxRuns
  BY BoundsAreNaturals DEF IInv, RestOK
<1>3. row.attempt \in Nat
  BY DEF IInv, Row
<1> QED BY <1>1, <1>2, <1>3 DEF One

\* A step that begins and runs nothing.
LEMMA PaidKept ==
  ASSUME IInv, IInv', Paid, Begun' \subseteq Begun, runs' = runs,
         unpaid' = unpaid, Worth(row, row')
  PROVE  Paid'
<1>1. /\ IsFiniteSet(Begun') /\ Cardinality(Begun') <= Cardinality(Begun)
      /\ Cardinality(Begun') \in Nat
  BY FS_Subset, FS_CardinalityType DEF Paid
<1>2. row'.attempt \in Nat
  BY DEF IInv, Row
<1>3. One(Unused(row')) \in {0, 1} /\ One(row'.answered) \in {0, 1}
  BY DEF One
<1>4. CASE unpaid = MaxRuns
  BY <1>1, <1>4 DEF Paid
<1>5. CASE unpaid # MaxRuns
  <2>1. runs + Cardinality(Begun) + One(Unused(row))
          <= row.attempt + unpaid + One(row.answered)
    BY <1>5 DEF Paid
  <2>2. runs + Cardinality(Begun') + One(Unused(row'))
          <= row'.attempt + unpaid + One(row'.answered)
    BY <1>1, <1>2, <1>3, <2>1, PaidNumbers DEF Worth
  <2>3. (runs + Cardinality(Begun) + One(Unused(row))
          <= row.attempt + unpaid + One(row.answered))'
    BY <2>2
  <2> QED BY <1>1, <2>3 DEF Paid
<1> QED BY <1>4, <1>5

\* The row is as late as before.
LEMMA LateKept ==
  ASSUME LateFindNothing, loose => loose',
         row'.status = "running" => row.status = "running", NoNews
  PROVE  LateFindNothing'
BY DEF LateFindNothing, NoNews, At

\* Nothing is brought or asked anew, and nothing that was asked is forgotten.
LEMMA AskedKept ==
  ASSUME AskedFirst, Unheard,
         row'.approval = row.approval, row'.question = row.question,
         \A a \in Approvals : decision[a] # "none" => decision'[a] # "none",
         \A q \in Questions : asked[q] # "none" => asked'[q] # "none"
  PROVE  AskedFirst'
<1>1. \A r \in Requests : req'[r].at \in OfApproval => req'[r].out \in Approvals
  BY DEF AskedFirst, Unheard
<1>2. \A r \in Requests : \A x : Brings(r, x)' => Brings(r, x)
  BY DEF Brings, Unheard
<1>3. \A r \in Requests : \A x : LinksTo(r, x)' => LinksTo(r, x)
  BY DEF LinksTo, Unheard, At
<1>4. \A r \in Requests, a \in Approvals :
        Brings(r, a)' \/ LinksTo(r, a)' => decision'[a] # "none"
  BY <1>2, <1>3 DEF AskedFirst
<1>5. \A r \in Requests, q \in Questions :
        Brings(r, q)' => asked'[q] # "none" /\ row'.question # q
  BY <1>2 DEF AskedFirst
<1>6. /\ row'.approval \in Approvals => decision'[row'.approval] # "none"
      /\ row'.question \in Questions => asked'[row'.question] # "none"
  BY DEF AskedFirst
<1> QED BY <1>1, <1>4, <1>5, <1>6 DEF AskedFirst

\* What was brought by one request is.
LEMMA BroughtKept == ASSUME BroughtOnce, Unheard PROVE BroughtOnce'
BY DEF BroughtOnce, Unheard, Brings

\* Nothing is answered, and the row does not begin to wait.
LEMMA AnswersKept ==
  ASSUME AnsweredOnce, ReachedAnswers, WaitsForAnother, Unheard,
         Mild(row, row'),
         early' = early,
         \A q \in Questions : asked'[q] = "handed" <=> asked[q] = "handed"
  PROVE  AnsweredOnce' /\ ReachedAnswers' /\ WaitsForAnother'
<1>1. row'.answered = row.answered
  BY DEF Mild
<1>2. \A r \in Requests : \A x : Brings(r, x)' => Brings(r, x)
  BY DEF Brings, Unheard
<1>3. AnsweredOnce'
  BY <1>1, <1>2 DEF AnsweredOnce
<1>4. ReachedAnswers'
  BY <1>1 DEF ReachedAnswers, Reached
<1>5. \A q : Awaits(q)' => Awaits(q)
  BY DEF Awaits, Mild, WaitsForAnswer
<1>6. WaitsForAnother'
  BY <1>1, <1>5 DEF WaitsForAnother
<1> QED BY <1>3, <1>4, <1>6

\* A step that is mild to the row and brings, asks and answers nothing.
LEMMA SettlementsKept ==
  ASSUME Settlements, Mild(row, row'), Unheard, Paid', LateFindNothing',
         early' = early,
         \A a \in Approvals : decision[a] # "none" => decision'[a] # "none",
         \A q \in Questions : asked[q] # "none" => asked'[q] # "none",
         \A q \in Questions : asked'[q] = "handed" <=> asked[q] = "handed"
  PROVE  Settlements'
<1>1. Sane(row)' /\ row'.approval = row.approval /\ row'.question = row.question
  BY DEF Mild, Sane
<1>2. AskedFirst'
  BY <1>1, AskedKept DEF Settlements
<1>3. BroughtOnce'
  BY BroughtKept DEF Settlements
<1>4. AnsweredOnce' /\ ReachedAnswers' /\ WaitsForAnother'
  BY AnswersKept DEF Settlements
<1> QED BY <1>1, <1>2, <1>3, <1>4 DEF Settlements

\* What a step leaves as it is when it is careful with the row besides.
Aside ==
  /\ Careful(row, row') /\ NoNews
  /\ UNCHANGED <<asked, runs, unpaid, early>>
  /\ loose => loose'
  /\ \A a \in Approvals : decision[a] # "none" => decision'[a] # "none"

\* Such a step owes nothing.
LEMMA AsideKeeps ==
  ASSUME IInv, IInv', Settlements, Aside PROVE Settlements'
<1>1. row \in Row /\ row' \in Row
  BY DEF IInv
<1>2. Mild(row, row') /\ (row'.status = "running" => row.status = "running")
  BY DEF Aside, Careful, Tame
<1>3. Begun' \subseteq Begun
  BY DEF Begun, Aside, NoNews, At
<1>4. Worth(row, row')
  BY <1>1, <1>2, CarefulWorth DEF Aside, Careful
<1>5. Paid'
  BY <1>3, <1>4, PaidKept DEF Settlements, Aside
<1>6. LateFindNothing'
  BY <1>2, LateKept DEF Settlements, Aside
<1>7. Unheard
  BY DEF Aside, NoNews
<1> QED BY <1>2, <1>5, <1>6, <1>7, SettlementsKept DEF Aside

\* Where there was trouble, decisions may be lost.
LEMMA TroubleExcuses ==
  ASSUME RestOK, trouble' = trouble + 1 PROVE DecisionsArrive'
<1>1. trouble \in Nat
  BY BoundsAreNaturals DEF RestOK
<1>2. trouble' # 0
  BY <1>1
<1> QED BY <1>2 DEF DecisionsArrive

\* Nothing is decided or told, and the row does not begin to wait.
LEMMA DecisionsKept ==
  ASSUME DecisionsArrive, NothingTold, decision' = decision, trouble' = trouble,
         \A a \in Approvals \cup {None} : WaitsFor(a)' => WaitsFor(a)
  PROVE  DecisionsArrive'
<1>1. \A a, places : places \subseteq {"linking", "applying", "resolving"}
                       /\ IsAt(a, places) => IsAt(a, places)'
  BY DEF IsAt, NothingTold
<1>2. \A a : /\ IsAt(a, {"applying"}) => IsAt(a, {"applying"})'
             /\ IsAt(a, {"linking", "resolving"})
                  => IsAt(a, {"linking", "resolving"})'
  BY <1>1
<1> QED BY <1>2 DEF DecisionsArrive

\* A tame step does not make the row wait.
LEMMA TameWaits ==
  ASSUME Tame(row, row') PROVE \A a : WaitsFor(a)' => WaitsFor(a)
BY DEF Tame, Mild, WaitsFor, WaitsForApproval

\* What happens to the row and the requests beside all that.
Beside ==
  /\ Careful(row, row') /\ NoNews
  /\ UNCHANGED <<asked, runs, unpaid, early, decision>>
  /\ loose => loose'
  /\ trouble' = trouble + 1 \/ (NothingTold /\ trouble' = trouble)

LEMMA BesideKeeps == ASSUME IInv, IInv', Deals, Beside PROVE Deals'
<1>1. Aside
  BY DEF Aside, Beside
<1>2. Settlements'
  BY <1>1, AsideKeeps DEF Deals
<1>3. DecisionsArrive'
  <2>1. CASE trouble' = trouble + 1
    BY <2>1, TroubleExcuses DEF IInv
  <2>2. CASE NothingTold /\ trouble' = trouble
    BY <2>2, DecisionsKept, TameWaits DEF Beside, Careful, Deals
  <2> QED BY <2>1, <2>2 DEF Beside
<1> QED BY <1>2, <1>3 DEF Deals

-----------------------------------------------------------------------------
(* The ways of a request bring no news.                                      *)

\* A request goes to a place where it says nothing new.
NewsFree(place) ==
  place \notin {"begun", "returned", "delivering"} \cup OfApproval

LEMMA NewsOfOne ==
  ASSUME NEW r \in Requests, Others(r), NewsFree(req'[r].at) PROVE NoNews
BY DEF NewsFree, NoNews, Unheard, Others, At, IsLate, OfApproval

\* Nobody moves.
LEMMA NewsOfNone == ASSUME req' = req PROVE NoNews /\ NothingTold
BY DEF NoNews, Unheard, NothingTold, At, IsLate

\* Who does not know of a decision has nothing to tell.
LEMMA NothingToTell ==
  ASSUME NEW r \in Requests, Others(r),
         \/ req[r].at \notin {"linking", "applying", "resolving"}
         \/ req'[r].at = req[r].at /\ req'[r].out = req[r].out
  PROVE  NothingTold
BY DEF NothingTold, Others

\* A request goes on.
LEMMA NewsGoes ==
  ASSUME Lanes, NEW r \in Requests, NEW place, Goes(r, place)
  PROVE  /\ Others(r) /\ req'[r].at = place /\ req'[r].care = req[r].care
         /\ req'[r].out = req[r].out
BY DEF Lanes, Goes, Others, ReqType

\* It leaves.
LEMMA NewsLeaves ==
  ASSUME Lanes, NEW r \in Requests, Leaves(r)
  PROVE  /\ Others(r) /\ req'[r] = Idle /\ NoNews
<1>1. Others(r) /\ req'[r] = Idle
  BY DEF Lanes, Leaves, Others
<1>2. NewsFree(Idle.at)
  BY DEF Idle, NewsFree, OfApproval
<1> QED BY <1>1, <1>2, NewsOfOne

\* Its worker has failed under it, or the row is closed.
LEMMA NewsTurns ==
  ASSUME Lanes, NEW r \in Requests, NEW place \in {"raised", "overdue"},
         NEW again, req' = [req EXCEPT ![r].at = place, ![r].again = again]
  PROVE  Others(r) /\ NoNews
<1>1. Others(r) /\ req'[r].at = place
  BY DEF Lanes, Others, ReqType
<1>2. NewsFree(place)
  BY DEF NewsFree, OfApproval
<1> QED BY <1>1, <1>2, NewsOfOne

\* Its worker is done.
LEMMA NewsWorkerEnds ==
  ASSUME Lanes, NEW r \in Requests, NEW place, WorkerEnds(r, place),
         NewsFree(place) \/ req[r].care \notin {"kept", "alone"}
  PROVE  Others(r) /\ NoNews
<1>1. CASE req[r].care \in {"kept", "alone"}
  <2>1. Goes(r, place)
    BY <1>1 DEF WorkerEnds, Goes
  <2> QED BY <1>1, <2>1, NewsGoes, NewsOfOne
<1>2. CASE req[r].care = "drain"
  <2>1. Goes(r, "over")
    BY <1>2 DEF WorkerEnds, Goes
  <2>2. NewsFree("over")
    BY DEF NewsFree, OfApproval
  <2> QED BY <2>1, <2>2, NewsGoes, NewsOfOne
<1>3. CASE req[r].care \notin {"kept", "alone", "drain"}
  <2>1. req' = [req EXCEPT ![r] = Idle]
    BY <1>3 DEF WorkerEnds
  <2>2. Others(r) /\ req'[r] = Idle
    BY <2>1 DEF Lanes, Others
  <2>3. NewsFree(Idle.at)
    BY DEF Idle, NewsFree, OfApproval
  <2> QED BY <2>2, <2>3, NewsOfOne
<1> QED BY <1>1, <1>2, <1>3

\* An outcome is delivered, or a decision linked, and nobody waits or the
\* request leaves.
LEMMA NewsDelivered ==
  ASSUME Lanes, NEW r \in Requests, NEW d, Delivered(r, d),
         req[r].at \in {"delivering", "linking"}
  PROVE  Others(r) /\ NoNews
<1>1. req[r].care # "alone"
  BY ReqTyped DEF Shape, OfAlone
<1>2. CASE ~Kept(r)
  <2>1. WorkerEnds(r, "delivering") /\ req[r].care \notin {"kept", "alone"}
    BY <1>1, <1>2 DEF Delivered, Kept
  <2> QED BY <2>1, NewsWorkerEnds
<1>3. CASE Kept(r) /\ d.status = "draining"
  <2>1. req' = [req EXCEPT ![r].at = "overdue", ![r].again = TRUE]
    BY <1>3 DEF Delivered
  <2> QED BY <2>1, NewsTurns
<1>4. CASE Kept(r) /\ d.status # "draining"
  BY <1>4, NewsLeaves DEF Delivered
<1> QED BY <1>2, <1>3, <1>4

\* A phase is recorded, or the row is closed.
LEMMA NewsEnters ==
  ASSUME Lanes, NEW r \in Requests, NEW place, Enters(r, place), NewsFree(place)
  PROVE  Others(r) /\ NoNews
<1>1. CASE row.status = "draining"
  <2>1. req' = [req EXCEPT ![r].at = "overdue", ![r].again = TRUE]
    BY <1>1 DEF Enters
  <2> QED BY <2>1, NewsTurns
<1>2. CASE row.status # "draining"
  <2>1. Goes(r, place)
    BY <1>2 DEF Enters, Goes
  <2> QED BY <2>1, NewsGoes, NewsOfOne
<1> QED BY <1>1, <1>2

\* A request whose outcome is awaited goes on within its errand.
LEMMA NewsGoesOn ==
  ASSUME Lanes, NEW r \in Requests, NEW place \in OfApproval \ {"linking"},
         Goes(r, place), req[r].at \in OfApproval
  PROVE  Others(r) /\ NoNews
<1>1. Others(r) /\ req'[r].at = place /\ req'[r].out = req[r].out
  BY NewsGoes
<1> QED BY <1>1 DEF NoNews, Unheard, Others, At, IsLate, OfApproval

-----------------------------------------------------------------------------
(* The row.                                                                  *)

\* The end of an approval is brought to the row by careful operations.
LEMMA LinkedCareful ==
  ASSUME row \in Row, Sane(row), NEW a PROVE Careful(row, Linked(row, a))
BY CarefulStutter, CarefulParkDeny, CarefulResolveApproval DEF Linked

\* Each outcome but a question or an approval is a careful operation.
LEMMA OutcomeCareful ==
  ASSUME row \in Row, Sane(row), NEW out \in Plain \ {"done"}
  PROVE  Careful(row, Outcome(row, out))
<1>1. out \notin Questions
  BY OutcomesDiffer
<1>2. CASE out = "denied"
  BY <1>1, <1>2, CarefulParkDeny DEF Outcome
<1>3. CASE out = "failed"
  <2>1. FALSE \in BOOLEAN
    OBVIOUS
  <2>2. Careful(row, Fail(row, FALSE))
    BY <2>1, CarefulFail, Zenon
  <2> QED BY <1>1, <1>3, <2>2 DEF Outcome
<1>4. CASE out = "parked"
  BY <1>1, <1>4, CarefulParkDeny DEF Outcome
<1> QED BY <1>2, <1>3, <1>4 DEF Plain

\* complete_delivery.
LEMMA ResultCareful ==
  ASSUME row \in Row, Sane(row), NEW r, PersistsResult(r)
  PROVE  Careful(row, row')
<1> DEFINE d == Recover(row, result)
<1>1. Careful(row, d) /\ d \in Row /\ Sane(d)
  BY CarefulRecover, SoundRecover DEF Sound, Careful, Tame, Mild
<1>2. row' = d \/ (d.status = "running" /\ row' = Complete(d))
  BY DEF PersistsResult, Delivered, Accepts
<1> HIDE DEF d
<1>3. ASSUME d.status = "running"
      PROVE  Careful(row, Complete(d))
  <2>1. Careful(d, Complete(d))
    BY <1>1, CarefulSettles DEF Complete
  <2>2. Complete(d) \in Row
    BY <1>1, <1>3, SoundSettles DEF Sound, Complete, Open
  <2> QED BY <1>1, <2>1, <2>2, CarefulTwice
<1> QED BY <1>1, <1>2, <1>3

\* begin_delivery, where it does not begin.
LEMMA RefusalCareful ==
  ASSUME row \in Row, Sane(row), NEW r, HasEnded(r) \/ MayNotBegin(r)
  PROVE  Careful(row, row')
<1> DEFINE d == Recover(row, result)
<1>1. Careful(row, d) /\ d \in Row /\ Sane(d)
  BY CarefulRecover, SoundRecover DEF Sound, Careful, Tame, Mild
<1>2. row' = d \/ (d.status = "completed" /\ row' = Corrupt(d))
  BY DEF HasEnded, MayNotBegin
<1> HIDE DEF d
<1>3. ASSUME d.status = "completed"
      PROVE  Careful(row, Corrupt(d))
  <2>1. Careful(d, Corrupt(d)) /\ Corrupt(d) \in Row
    BY <1>1, <1>3, CarefulCorrupt, SoundCorrupt DEF Sound
  <2> QED BY <1>1, <2>1, CarefulTwice
<1> QED BY <1>1, <1>2, <1>3

-----------------------------------------------------------------------------
(* What the steps owe, one by one.                                           *)

\* A client owes nothing.
LEMMA AsksOwes ==
  ASSUME IInv, Deals, NEW r \in Requests, Asks(r) PROVE Beside
<1> USE DEF history, outside
<1>1. row \in Row /\ Sane(row) /\ Lanes
  BY DEF IInv, Deals, Settlements
<1>2. ASSUME NEW place \in Outside \cup {"leased"}, Goes(r, place),
             req[r].at \in Outside
      PROVE  NoNews /\ NothingTold
  <2>1. Others(r) /\ req'[r].at = place
    BY <1>1, <1>2, NewsGoes
  <2>2. NewsFree(place)
    BY DEF NewsFree, Outside, OfApproval
  <2>3. NothingTold
    BY <1>2, <2>1, NothingToTell DEF Outside
  <2> QED BY <2>1, <2>2, <2>3, NewsOfOne
<1>3. \E place \in Outside \cup {"leased"} : Goes(r, place)
  BY DEF Asks, Lists, Wakes, NotDue, WakeBreaks, WakeTimesOut, Vanishes,
     Executes, AlreadyRuns, HandsBack, NoRoom, Outside
<1>4. req[r].at \in Outside
  BY DEF Asks, Lists, Wakes, NotDue, WakeBreaks, WakeTimesOut, Vanishes,
     Executes, AlreadyRuns, HandsBack, NoRoom, Outside, At
<1>5. NoNews /\ NothingTold
  BY <1>2, <1>3, <1>4
<1>6. /\ UNCHANGED <<asked, runs, unpaid, early, decision, loose>>
      /\ trouble' = trouble + 1 \/ trouble' = trouble
  BY DEF Asks, Lists, Wakes, NotDue, WakeBreaks, WakeTimesOut, Vanishes,
     Executes, AlreadyRuns, HandsBack, NoRoom, Trouble
<1>7. Careful(row, row')
  <2>1. CASE Wakes(r)
    <3> DEFINE d == Wake(row, result)
               e == [d EXCEPT !.known = @ \cup {r}]
    <3>1. row' = e
      BY <2>1 DEF Wakes
    <3>2. Careful(row, d) /\ d \in Row
      BY <1>1, CarefulWake, SoundWake DEF Sound
    <3> HIDE DEF d
    <3>3. Careful(row, e)
      BY <3>2 DEF Row, Careful, Tame, Mild, Thrifty, Sane, Unused,
         WaitsForApproval,
         WaitsForAnswer, IsSettled
    <3> QED BY <3>1, <3>3
  <2>2. CASE WakeBreaks(r)
    BY <1>1, <2>2, CarefulHalfWake DEF WakeBreaks
  <2>3. CASE WakeTimesOut(r) \/ HandsBack(r) \/ NoRoom(r)
    BY <1>1, <2>3, CarefulDefer, CarefulStutter
    DEF WakeTimesOut, HandsBack, NoRoom
  <2>4. CASE \/ Lists(r) \/ NotDue(r) \/ Vanishes(r) \/ Executes(r)
             \/ AlreadyRuns(r)
    BY <1>1, <2>4, CarefulStutter
    DEF Lists, NotDue, Vanishes, Executes, AlreadyRuns
  <2> QED BY <2>1, <2>2, <2>3, <2>4 DEF Asks
<1> QED BY <1>5, <1>6, <1>7 DEF Beside

\* What a request must leave alone to owe nothing.
LEMMA BesideOf ==
  ASSUME NEW r \in Requests, Others(r), NoNews, Careful(row, row'),
         UNCHANGED outside,
         \/ /\ UNCHANGED history
            /\ req[r].at \notin {"linking", "applying", "resolving"}
         \/ Trouble
  PROVE  Beside
BY NothingToTell DEF Beside, outside, history, Trouble

\* Nor does a request that fails, is cancelled, closes a drained row, or goes
\* on to what it was woken or asked for.
LEMMA GoesOnOwes ==
  ASSUME IInv, Deals, NEW r \in Requests,
         \/ EntersProjectLock(r) \/ EntersDelivery(r) \/ Fails(r)
         \/ ClosesDrain(r) \/ EntersApply(r) \/ CancelledInMark(r)
         \/ ApplyFails(r) \/ CancelledBetween(r) \/ DrainEnds(r)
  PROVE  Beside
<1>1. row \in Row /\ Sane(row) /\ Lanes /\ req[r].again \in BOOLEAN
  BY ReqTyped DEF IInv, Deals, Settlements
<1> USE BesideOf
<1>2. CASE EntersProjectLock(r)
  <2>1. NewsFree("beginning")
    BY DEF NewsFree, OfApproval
  <2>2. Others(r) /\ NoNews
    BY <1>1, <1>2, <2>1, NewsEnters DEF EntersProjectLock
  <2>3. Careful(row, row')
    BY <1>1, <1>2, CarefulMarkPhase DEF EntersProjectLock, Enters
  <2> QED BY <1>2, <2>2, <2>3 DEF EntersProjectLock, Enters, At
<1>3. CASE EntersDelivery(r)
  <2>1. /\ Others(r) /\ req'[r].at = "delivering" /\ req'[r].care = req[r].care
        /\ req'[r].out = req[r].out /\ req[r].at = "returned"
    BY <1>1, <1>3, NewsGoes DEF EntersDelivery, At
  <2>2. req[r].care # "drain"
    BY <2>1 DEF Deals, Settlements, LateFindNothing, At
  <2>3. NoNews
    BY <2>1, <2>2 DEF NoNews, Unheard, Others, At, IsLate, OfApproval
  <2>4. Careful(row, row')
    BY <1>1, <1>3, CarefulMarkPhase DEF EntersDelivery
  <2> QED BY <1>3, <2>1, <2>3, <2>4 DEF EntersDelivery
<1>4. CASE Fails(r)
  <2>1. Others(r) /\ NoNews
    BY <1>1, <1>4, NewsLeaves DEF Fails
  <2>2. Careful(row, row')
    BY <1>1, <1>4, CarefulFail DEF Fails
  <2> QED BY <1>4, <2>1, <2>2 DEF Fails, At
<1>5. CASE ClosesDrain(r)
  <2>1. Others(r) /\ NoNews
    BY <1>1, <1>5, NewsLeaves DEF ClosesDrain
  <2>2. Careful(row, row')
    BY <1>1, <1>5, CarefulFinishDrain DEF ClosesDrain
  <2> QED BY <1>5, <2>1, <2>2 DEF ClosesDrain, At
<1>6. CASE EntersApply(r)
  <2>1. Others(r) /\ NoNews
    BY <1>1, <1>6, NewsGoesOn DEF EntersApply, At, OfApproval
  <2>2. Careful(row, row')
    BY <1>1, <1>6, CarefulMarkApply DEF EntersApply
  <2> QED BY <1>6, <2>1, <2>2 DEF EntersApply, At
<1>7. CASE CancelledInMark(r)
  <2>1. Others(r) /\ NoNews
    BY <1>1, <1>7, NewsLeaves DEF CancelledInMark
  <2>2. Careful(row, row')
    BY <1>1, <1>7, CarefulMarkApply DEF CancelledInMark
  <2> QED BY <1>7, <2>1, <2>2 DEF CancelledInMark
<1>8. CASE ApplyFails(r)
  <2>1. Others(r) /\ NoNews
    BY <1>1, <1>8, NewsLeaves DEF ApplyFails
  <2>2. Careful(row, row')
    BY <1>1, <1>8, CarefulResolveApproval DEF ApplyFails
  <2> QED BY <1>8, <2>1, <2>2 DEF ApplyFails, At
<1>9. CASE CancelledBetween(r)
  <2>1. Others(r) /\ NoNews
    <3>1. CASE Leaves(r)
      BY <1>1, <3>1, NewsLeaves
    <3>2. CASE req' = [req EXCEPT ![r].at = "over", ![r].care = "drain",
                                  ![r].again = FALSE]
      <4>1. Others(r) /\ req'[r].at = "over"
        BY <1>1, <3>2 DEF Lanes, Others, ReqType
      <4>2. NewsFree("over")
        BY DEF NewsFree, OfApproval
      <4> QED BY <4>1, <4>2, NewsOfOne
    <3> QED BY <1>9, <3>1, <3>2 DEF CancelledBetween
  <2>2. Careful(row, row')
    BY <1>1, <1>9, CarefulDrain DEF CancelledBetween
  <2> QED BY <1>9, <2>1, <2>2 DEF CancelledBetween
<1>10. CASE DrainEnds(r)
  <2>1. Others(r) /\ NoNews
    BY <1>1, <1>10, NewsLeaves DEF DrainEnds
  <2>2. Careful(row, row')
    BY <1>1, <1>10, CarefulFinishDrain DEF DrainEnds
  <2> QED BY <1>10, <2>1, <2>2 DEF DrainEnds, At
<1> QED BY <1>2, <1>3, <1>4, <1>5, <1>6, <1>7, <1>8, <1>9, <1>10

\* Nor does a worker that fails or ends the row.
LEMMA EndsOwes ==
  ASSUME IInv, Deals, NEW r \in Requests,
         \/ HasEnded(r) \/ MayNotBegin(r) \/ PersistsResult(r) \/ NotItsTurn(r)
         \/ \E again \in BOOLEAN : CallRaises(r, again) \/ PersistBreaks(r, again)
         \/ req[r].out \in Plain /\ PersistsOutcome(r)
         \/ ApproveFails(r) \/ ResolveBreaks(r)
  PROVE  Beside
<1>1. row \in Row /\ Sane(row) /\ Lanes
  BY DEF IInv, Deals, Settlements
<1>2. NewsFree("raised") /\ NewsFree("over")
  BY DEF NewsFree, OfApproval
<1> USE BesideOf
<1>3. CASE HasEnded(r) \/ MayNotBegin(r)
  <2>1. Others(r) /\ NoNews
    <3>1. CASE Leaves(r)
      BY <1>1, <3>1, NewsLeaves
    <3>2. CASE Raises(r, FALSE)
      BY <1>1, <3>2, NewsTurns DEF Raises
    <3>3. CASE ~Kept(r) /\ WorkerEnds(r, "begun")
      <4>1. req[r].care # "alone"
        BY <1>1, <1>3, ReqTyped DEF Shape, OfAlone, HasEnded, MayNotBegin, At
      <4> QED BY <1>1, <3>3, <4>1, NewsWorkerEnds DEF Kept
    <3> QED BY <1>3, <3>1, <3>2, <3>3 DEF HasEnded, MayNotBegin
  <2>2. Careful(row, row')
    BY <1>1, <1>3, RefusalCareful
  <2> QED BY <1>3, <2>1, <2>2 DEF HasEnded, MayNotBegin, At
<1>4. CASE PersistsResult(r)
  <2>1. \E d : Delivered(r, d)
    BY <1>4 DEF PersistsResult
  <2>2. Others(r) /\ NoNews
    BY <1>1, <1>4, <2>1, NewsDelivered DEF PersistsResult, At
  <2>3. Careful(row, row')
    BY <1>1, <1>4, ResultCareful
  <2> QED BY <1>4, <2>2, <2>3 DEF PersistsResult, At
<1>5. CASE \/ NotItsTurn(r)
           \/ \E again \in BOOLEAN : CallRaises(r, again)
                                       \/ PersistBreaks(r, again)
  <2>1. \/ \E again \in BOOLEAN : Raises(r, again)
        \/ WorkerEnds(r, "raised")
    BY <1>5 DEF NotItsTurn, CallRaises, PersistBreaks
  <2>2. Others(r) /\ NoNews
    BY <1>1, <1>2, <2>1, NewsTurns, NewsWorkerEnds DEF Raises
  <2>3. Careful(row, row')
    BY <1>1, <1>5, CarefulStutter DEF NotItsTurn, CallRaises, PersistBreaks
  <2> QED BY <1>5, <2>2, <2>3 DEF NotItsTurn, CallRaises, PersistBreaks, At
<1>6. CASE req[r].out \in Plain /\ PersistsOutcome(r)
  <2>1. Others(r) /\ NoNews
    BY <1>1, <1>6, NewsDelivered DEF PersistsOutcome, At
  <2>2. req[r].out \in Plain \ {"done"}
    BY <1>6, OutcomesDiffer DEF PersistsOutcome
  <2>3. Careful(row, row')
    BY <1>1, <1>6, <2>2, OutcomeCareful DEF PersistsOutcome, Delivered
  <2> QED BY <1>6, <2>1, <2>3 DEF PersistsOutcome, At
<1>7. CASE ApproveFails(r)
  <2>1. Others(r) /\ NoNews
    <3>1. CASE Leaves(r)
      BY <1>1, <3>1, NewsLeaves
    <3>2. CASE req[r].care = "kept" /\ WorkerEnds(r, "restoring")
      <4>1. Goes(r, "restoring")
        BY <3>2 DEF WorkerEnds, Goes
      <4> QED BY <1>1, <1>7, <4>1, NewsGoesOn DEF ApproveFails, At, OfApproval
    <3>3. CASE req[r].care \notin {"kept", "alone"} /\ WorkerEnds(r, "restoring")
      BY <1>1, <3>3, NewsWorkerEnds
    <3> QED BY <1>7, <3>1, <3>2, <3>3 DEF ApproveFails
  <2>2. Careful(row, row')
    BY <1>1, <1>7, CarefulStutter DEF ApproveFails
  <2> QED BY <1>7, <2>1, <2>2 DEF ApproveFails, At
<1>8. CASE ResolveBreaks(r)
  <2>1. Others(r) /\ NoNews
    BY <1>1, <1>2, <1>8, NewsLeaves, NewsWorkerEnds DEF ResolveBreaks
  <2>2. Careful(row, Fail(row, FALSE))
    <3>1. FALSE \in BOOLEAN
      OBVIOUS
    <3> QED BY <1>1, <3>1, CarefulFail, Zenon
  <2>3. Careful(row, row')
    BY <1>1, <1>8, <2>2, CarefulStutter DEF ResolveBreaks
  <2> QED BY <1>8, <2>1, <2>3 DEF ResolveBreaks
<1> QED BY <1>3, <1>4, <1>5, <1>6, <1>7, <1>8

\* Nor does the user who approves.
LEMMA ApprovesOwes ==
  ASSUME IInv, Deals, NEW r \in Requests, NEW a \in Approvals,
         UserApproves(r, a) \/ UserApprovesEarly(r, a)
  PROVE  Beside
<1>1. row \in Row /\ Sane(row) /\ Lanes
  BY DEF IInv, Deals, Settlements
<1>2. Others(r) /\ req'[r].at \in {"marking", "approving"} /\ req'[r].out = a
  <2> DEFINE n == [Idle EXCEPT !.at = "marking", !.for = "apply", !.out = a]
             m == [Idle EXCEPT !.at = "approving", !.for = "apply",
                               !.care = "alone", !.out = a]
  <2>1. n.at = "marking" /\ n.out = a /\ m.at = "approving" /\ m.out = a
    BY DEF Idle
  <2>2. req' = [req EXCEPT ![r] = n] \/ req' = [req EXCEPT ![r] = m]
    BY DEF UserApproves, UserApprovesEarly
  <2> HIDE DEF n, m
  <2> QED BY <1>1, <2>1, <2>2 DEF Lanes, Others
<1>3. NoNews
  BY <1>2 DEF NoNews, Unheard, Others, At, IsLate
<1>4. Careful(row, row')
  BY <1>1, CarefulStutter DEF UserApproves, UserApprovesEarly
<1> QED BY <1>2, <1>3, <1>4, BesideOf DEF UserApproves, UserApprovesEarly, At

\* Nor does the host while it runs.
LEMMA HostOwes ==
  ASSUME IInv, Deals, Host, ~Restart PROVE Beside
<1> USE DEF outside, history
<1>1. row \in Row /\ Sane(row)
  BY DEF IInv, Deals, Settlements
<1>2. UNCHANGED <<req, asked, runs, unpaid, early, decision>>
  BY DEF Host, MonitorLinks, Retire, Recovers, FindsCorrupt, Materialize,
         WatchdogBarks, Reminds, FileSpoils, Trouble
<1>3. /\ loose => loose'
      /\ trouble' = trouble + 1 \/ trouble' = trouble
  BY DEF Host, MonitorLinks, Retire, Recovers, FindsCorrupt, Materialize,
         WatchdogBarks, Reminds, FileSpoils, Trouble
<1>4. Careful(row, row')
  <2>1. CASE \E a \in Approvals : MonitorLinks(a)
    BY <1>1, <2>1, LinkedCareful DEF MonitorLinks
  <2>2. CASE Recovers
    BY <1>1, <2>2, CarefulRecover DEF Recovers
  <2>3. CASE FindsCorrupt
    BY <1>1, <2>3, CarefulCorrupt DEF FindsCorrupt
  <2>4. CASE Materialize
    <3> DEFINE e == Becomes(row, "materialized")
    <3>1. /\ e.status = "materialized" /\ e.attempt = row.attempt
          /\ e.answered = row.answered /\ e.question = row.question
          /\ e.approval = row.approval /\ e.wakes = row.wakes
          /\ e.advanced = row.advanced
      BY <1>1 DEF Becomes, Row
    <3>2. row' = e
      BY <2>4 DEF Materialize
    <3> HIDE DEF e
    <3>3. Careful(row, e)
      BY <1>1, <3>1, CarefulRests DEF Rests, Sane
    <3> QED BY <3>2, <3>3
  <2>5. CASE WatchdogBarks
    BY <1>1, <2>5, CarefulWatchdog DEF WatchdogBarks
  <2>6. CASE Reminds
    BY <1>1, <2>6, CarefulRemind DEF Reminds
  <2>7. CASE FileSpoils \/ \E token \in {"goal", "apply"} : Retire(token)
    BY <1>1, <2>7, CarefulStutter DEF FileSpoils, Retire
  <2> QED BY <2>1, <2>2, <2>3, <2>4, <2>5, <2>6, <2>7 DEF Host
<1> QED BY <1>2, <1>3, <1>4, NewsOfNone DEF Beside

-----------------------------------------------------------------------------
(* Decisions and the row.                                                    *)

\* The end of an approval, linked, does not leave the row waiting for it.
LEMMA LinkedEnds ==
  ASSUME row \in Row, WaitsForApproval(row),
         decision[row.approval] \in {"rejected", "applied", "failed"}
  PROVE  ~WaitsForApproval(Linked(row, row.approval))
<1> DEFINE a == row.approval
<1>1. row.status = "blocked"
  BY DEF WaitsForApproval
<1>2. ASSUME NEW s \in {"completed", "denied", "failed"}
      PROVE  Settles(row, s).status = s
  BY DEF Settles, Untimed, Becomes, Row
<1>3. Deny(row).status = "denied" /\ Complete(row).status = "completed"
  BY <1>1, <1>2 DEF Deny, Failed, Complete
<1>4. FailAnyway(row, FALSE).status = "failed"
  <2>1. FailAnyway(row, FALSE) = [Settles(row, "failed") EXCEPT !.consume = FALSE]
    BY <1>1 DEF FailAnyway
  <2>2. Settles(row, "failed") \in Row
    BY <1>1, SoundSettles DEF Open, Sound
  <2>3. [Settles(row, "failed") EXCEPT !.consume = FALSE].status
          = Settles(row, "failed").status
    BY <2>2 DEF Row
  <2> QED BY <1>2, <2>1, <2>3
<1>5. Linked(row, a) \in {Deny(row), Complete(row), FailAnyway(row, FALSE)}
  BY <1>1 DEF Linked, ResolveApproval
<1> QED BY <1>3, <1>4, <1>5 DEF WaitsForApproval

\* Where all but one approval is left alone, that one decides.
LEMMA DecisionsOfOne ==
  ASSUME DecisionsArrive, NEW r \in Requests, Others(r), NEW a \in Approvals,
         req[r].at \in {"linking", "applying", "resolving"} => req[r].out = a,
         trouble' = trouble,
         \A b \in Approvals \ {a} : decision'[b] = decision[b],
         \A b \in (Approvals \cup {None}) \ {a} : WaitsFor(b)' => WaitsFor(b),
         trouble = 0 =>
           /\ decision'[a] # "lost"
           /\ decision'[a] = "applying" => IsAt(a, {"applying"})'
           /\ WaitsFor(a)' => \/ decision'[a] \in {"pending", "approved",
                                                   "applying"}
                              \/ IsAt(a, {"linking", "resolving"})'
  PROVE  DecisionsArrive'
<1>1. ASSUME NEW b \in Approvals \ {a}, NEW places,
             places \subseteq {"linking", "applying", "resolving"},
             IsAt(b, places)
      PROVE  IsAt(b, places)'
  BY <1>1 DEF IsAt, Others
<1>2. \A b \in Approvals \ {a} :
        /\ IsAt(b, {"applying"}) => IsAt(b, {"applying"})'
        /\ IsAt(b, {"linking", "resolving"})
             => IsAt(b, {"linking", "resolving"})'
  BY <1>1
<1>3. ASSUME trouble = 0, NEW b \in Approvals \ {a}
      PROVE  /\ decision'[b] # "lost"
             /\ decision'[b] = "applying" => IsAt(b, {"applying"})'
             /\ WaitsFor(b)' => \/ decision'[b] \in {"pending", "approved",
                                                     "applying"}
                                \/ IsAt(b, {"linking", "resolving"})'
  BY <1>2, <1>3 DEF DecisionsArrive
<1>4. trouble = 0 => ~WaitsFor(None)'
  BY NoneIsNoId DEF DecisionsArrive
<1> QED BY <1>3, <1>4 DEF DecisionsArrive

\* Who else is at an approval stays at it.
LEMMA StaysAt ==
  ASSUME NEW r \in Requests, Others(r), NEW a, NEW places, IsAt(a, places),
         req[r].at \notin places \/ (req'[r].at \in places /\ req'[r].out = a)
  PROVE  IsAt(a, places)'
BY DEF IsAt, Others

\* The link made by the run tells the row what was decided before it waited.
LEMMA LinksOwes ==
  ASSUME IInv, IInv', Deals, NEW r \in Requests, NEW a, req[r].out = a,
         Links(r)
  PROVE  Deals'
<1>1. row \in Row /\ Sane(row) /\ Lanes /\ req[r].at = "linking"
        /\ row' = Linked(row, a) /\ a \in Approvals
  BY DEF IInv, Deals, Settlements, AskedFirst, OfApproval, Links, Delivered, At
<1>2. Others(r) /\ NoNews
  BY <1>1, NewsDelivered DEF Links
<1>3. Careful(row, row')
  BY <1>1, LinkedCareful
<1>4. UNCHANGED <<decision, asked, runs, unpaid, early, loose, trouble>>
  BY DEF Links, outside, history
<1>5. Settlements'
  BY <1>2, <1>3, <1>4, AsideKeeps DEF Aside, Deals
<1>6. \A b : WaitsFor(b)' => WaitsFor(b)
  BY <1>3, TameWaits DEF Careful
<1>7. ASSUME trouble = 0
      PROVE  /\ decision'[a] # "lost"
             /\ decision'[a] = "applying" => IsAt(a, {"applying"})'
             /\ WaitsFor(a)' => decision'[a] \in {"pending", "approved",
                                                   "applying"}
  <2>1. decision[a] # "lost" /\ (decision[a] = "applying" => IsAt(a, {"applying"}))
    BY <1>1, <1>7 DEF Deals, DecisionsArrive
  <2>2. decision[a] # "none"
    BY <1>1, <1>7 DEF Deals, Settlements, AskedFirst, LinksTo, At
  <2>3. decision'[a] = "applying" => IsAt(a, {"applying"})'
    BY <1>1, <1>2, <1>4, <2>1, StaysAt
  <2>4. ASSUME WaitsFor(a)', decision[a] \in {"rejected", "applied", "failed"}
        PROVE  FALSE
    <3>1. WaitsForApproval(row) /\ row.approval = a
      BY <1>6, <2>4 DEF WaitsFor
    <3>2. ~WaitsForApproval(Linked(row, a))
      BY <1>1, <2>4, <3>1, LinkedEnds
    <3> QED BY <1>1, <2>4, <3>2 DEF WaitsFor
  <2>5. decision[a] \in {"none", "pending", "approved", "applying", "applied",
                         "failed", "rejected", "lost"}
    BY <1>1 DEF IInv, RestOK
  <2> QED BY <1>4, <2>1, <2>2, <2>3, <2>4, <2>5
<1>8. DecisionsArrive'
  BY <1>1, <1>2, <1>4, <1>6, <1>7, DecisionsOfOne DEF Deals
<1> QED BY <1>5, <1>8 DEF Deals

\* So does who has applied the action.
LEMMA ResolvesOwes ==
  ASSUME IInv, IInv', Deals, NEW r \in Requests, NEW a, req[r].out = a,
         Resolves(r)
  PROVE  Deals'
<1>1. row \in Row /\ Sane(row) /\ Lanes /\ req[r].at = "resolving"
        /\ a \in Approvals
        /\ row' = IF MayLink(a) THEN Linked(row, a)
                  ELSE IF Kept(r) THEN Fail(row, FALSE) ELSE row
  BY DEF IInv, Deals, Settlements, AskedFirst, OfApproval, Resolves, At
<1>2. Others(r) /\ NoNews
  <2>1. NewsFree("over")
    BY DEF NewsFree, OfApproval
  <2>2. \/ req' = [req EXCEPT ![r].at = "overdue", ![r].again = FALSE]
        \/ Leaves(r) \/ WorkerEnds(r, "over")
    BY DEF Resolves
  <2> QED BY <1>1, <2>1, <2>2, NewsTurns, NewsLeaves, NewsWorkerEnds
<1>3. Careful(row, row')
  <2>1. Careful(row, Fail(row, FALSE))
    <3>1. FALSE \in BOOLEAN
      OBVIOUS
    <3> QED BY <1>1, <3>1, CarefulFail, Zenon
  <2>2. Careful(row, Linked(row, a)) /\ Careful(row, row)
    BY <1>1, LinkedCareful, CarefulStutter
  <2> QED BY <1>1, <2>1, <2>2
<1>4. UNCHANGED <<decision, asked, runs, unpaid, early, loose, trouble>>
  BY DEF Resolves, outside, history
<1>5. Settlements'
  BY <1>2, <1>3, <1>4, AsideKeeps DEF Aside, Deals
<1>6. \A b : WaitsFor(b)' => WaitsFor(b)
  BY <1>3, TameWaits DEF Careful
<1>7. ASSUME trouble = 0
      PROVE  /\ decision'[a] # "lost"
             /\ decision'[a] = "applying" => IsAt(a, {"applying"})'
             /\ WaitsFor(a)' => decision'[a] \in {"pending", "approved",
                                                   "applying"}
  <2>1. decision[a] # "lost" /\ (decision[a] = "applying" => IsAt(a, {"applying"}))
    BY <1>1, <1>7 DEF Deals, DecisionsArrive
  <2>2. WaitsFor(a) => decision[a] # "none"
    BY <1>1, <1>7 DEF Deals, Settlements, AskedFirst, WaitsFor
  <2>3. decision'[a] = "applying" => IsAt(a, {"applying"})'
    BY <1>1, <1>2, <1>4, <2>1, StaysAt
  <2>4. ASSUME WaitsFor(a)', decision[a] \in {"rejected", "applied", "failed"}
        PROVE  FALSE
    <3>1. WaitsForApproval(row) /\ row.approval = a
      BY <1>6, <2>4 DEF WaitsFor
    <3>2. MayLink(a)
      BY <3>1 DEF MayLink, MayResolve, WaitsForApproval
    <3>3. ~WaitsForApproval(Linked(row, a))
      BY <1>1, <2>4, <3>1, LinkedEnds
    <3> QED BY <1>1, <2>4, <3>2, <3>3 DEF WaitsFor
  <2>5. decision[a] \in {"none", "pending", "approved", "applying", "applied",
                         "failed", "rejected", "lost"}
    BY <1>1 DEF IInv, RestOK
  <2> QED BY <1>4, <1>6, <2>1, <2>2, <2>3, <2>4, <2>5
<1>8. DecisionsArrive'
  BY <1>1, <1>2, <1>4, <1>6, <1>7, DecisionsOfOne DEF Deals
<1> QED BY <1>5, <1>8 DEF Deals

\* An approval is approved, applied and ended by who goes on to tell the row.
LEMMA DecidesOwes ==
  ASSUME IInv, IInv', Deals, NEW r \in Requests, NEW a, req[r].out = a,
         \/ Approves(r) \/ Applies(r)
         \/ \E how \in {"applied", "failed"} : ActionEnds(r, how)
  PROVE  Deals'
<1> USE DEF history, outside
<1>1. row \in Row /\ Sane(row) /\ Lanes /\ a \in Approvals
        /\ req[r].at \in {"approving", "approved", "applying"}
  BY DEF IInv, Deals, Settlements, AskedFirst, OfApproval, Approves, Applies,
     ActionEnds, At
<1>2. UNCHANGED <<row, asked, runs, unpaid, early, loose, trouble>>
  BY DEF Approves, Applies, ActionEnds
<1>3. decision \in [Approvals -> {"none", "pending", "approved", "applying",
                                  "applied", "failed", "rejected", "lost"}]
  BY DEF IInv, RestOK
<1>4. /\ decision'[a] # "none" \/ decision'[a] = decision[a]
      /\ \A b \in Approvals \ {a} : decision'[b] = decision[b]
  BY <1>1, <1>3 DEF Approves, Applies, ActionEnds
<1>5. Others(r) /\ NoNews
  <2>1. CASE Approves(r)
    <3>1. CASE req[r].care \in {"kept", "alone"}
      <4>1. Goes(r, "approved")
        BY <2>1, <3>1 DEF Approves, WorkerEnds, Goes
      <4> QED BY <1>1, <4>1, NewsGoesOn DEF OfApproval
    <3>2. CASE req[r].care \notin {"kept", "alone"}
      BY <1>1, <2>1, <3>2, NewsWorkerEnds DEF Approves
    <3> QED BY <3>1, <3>2
  <2>2. CASE ~Approves(r)
    <3>1. \E place \in {"applying", "failing", "resolving"} : Goes(r, place)
      BY <2>2 DEF Applies, ActionEnds
    <3> QED BY <1>1, <3>1, NewsGoesOn DEF OfApproval
  <2> QED BY <2>1, <2>2
<1>6. Settlements'
  <2>1. \A b \in Approvals : decision[b] # "none" => decision'[b] # "none"
    BY <1>4
  <2>2. Careful(row, row')
    BY <1>1, <1>2, CarefulStutter
  <2> QED BY <1>2, <1>5, <2>1, <2>2, AsideKeeps DEF Aside, Deals
<1>7. \A b : WaitsFor(b)' <=> WaitsFor(b)
  BY <1>2 DEF WaitsFor
<1>8. ASSUME trouble = 0
      PROVE  /\ decision'[a] # "lost"
             /\ decision'[a] = "applying" => IsAt(a, {"applying"})'
             /\ WaitsFor(a)' => \/ decision'[a] \in {"pending", "approved",
                                                     "applying"}
                                \/ IsAt(a, {"linking", "resolving"})'
  <2>1. /\ decision[a] # "lost"
        /\ decision[a] = "applying" => IsAt(a, {"applying"})
        /\ WaitsFor(a) => \/ decision[a] \in {"pending", "approved", "applying"}
                          \/ IsAt(a, {"linking", "resolving"})
    BY <1>1, <1>8 DEF Deals, DecisionsArrive
  <2>2. CASE Approves(r)
    BY <1>1, <1>3, <2>2 DEF Approves
  <2>3. CASE Applies(r) /\ decision[a] = "approved"
    <3>1. decision'[a] = "applying" /\ Goes(r, "applying")
      BY <1>1, <1>3, <2>3 DEF Applies
    <3>2. IsAt(a, {"applying"})'
      BY <1>1, <3>1, NewsGoes DEF IsAt
    <3> QED BY <3>1, <3>2
  <2>4. CASE Applies(r) /\ decision[a] # "approved"
    <3>1. decision' = decision /\ req[r].at = "approved"
      BY <2>4 DEF Applies, At
    <3>2. \A places : places \in {{"applying"}, {"linking", "resolving"}}
                        /\ IsAt(a, places) => IsAt(a, places)'
      BY <1>5, <3>1, StaysAt
    <3>3. /\ IsAt(a, {"applying"}) => IsAt(a, {"applying"})'
          /\ IsAt(a, {"linking", "resolving"})
               => IsAt(a, {"linking", "resolving"})'
      BY <3>2
    <3> QED BY <1>7, <2>1, <3>1, <3>3
  <2>5. CASE \E how \in {"applied", "failed"} : ActionEnds(r, how)
    <3>1. decision'[a] \in {"applied", "failed"} /\ Goes(r, "resolving")
      BY <1>1, <1>3, <2>5 DEF ActionEnds
    <3>2. IsAt(a, {"linking", "resolving"})'
      BY <1>1, <3>1, NewsGoes DEF IsAt
    <3> QED BY <3>1, <3>2
  <2> QED BY <2>2, <2>3, <2>4, <2>5
<1>9. DecisionsArrive'
  BY <1>1, <1>2, <1>4, <1>5, <1>7, <1>8, DecisionsOfOne DEF Deals
<1> QED BY <1>6, <1>9 DEF Deals

-----------------------------------------------------------------------------
(* Runs and what is late.                                                    *)

\* A skip may let an attempt be used again: it is taken as not paid for.
LEMMA UnreachableOwes ==
  ASSUME IInv, IInv', Deals, NEW r \in Requests, Unreachable(r) PROVE Deals'
<1>1. row \in Row /\ row' \in Row /\ Sane(row) /\ Lanes /\ row' = Skip(row)
  BY DEF IInv, Deals, Settlements, Unreachable
<1>2. /\ UNCHANGED <<asked, runs, early, decision, loose>>
      /\ trouble' = trouble + 1
  BY DEF Unreachable, outside
<1>3. Others(r) /\ NoNews
  BY <1>1, NewsLeaves DEF Unreachable
<1>4. Mild(row, row') /\ (row'.status = "running" => row.status = "running")
        /\ (row.status \in {"pending", "claimed"} => Thrifty(row, row'))
  BY <1>1, TameSkip DEF Tame
<1>5. Begun' \subseteq Begun
  BY <1>3 DEF Begun, NoNews, At
<1>6. Paid'
  <2>1. CASE row.status \in {"pending", "claimed"}
    <3>1. Worth(row, row')
      BY <1>1, <1>4, <2>1, CarefulWorth
    <3>2. unpaid' = unpaid
      BY <2>1 DEF Unreachable
    <3> QED BY <1>2, <1>5, <3>1, <3>2, PaidKept DEF Deals, Settlements
  <2>2. CASE row.status \notin {"pending", "claimed"}
    <3>1. unpaid' = OneMore
      BY <2>2 DEF Unreachable
    <3>2. /\ IsFiniteSet(Begun') /\ Cardinality(Begun') <= Cardinality(Begun)
          /\ Cardinality(Begun') \in Nat
      BY <1>5, FS_Subset, FS_CardinalityType DEF Deals, Settlements, Paid
    <3>3. /\ row'.attempt \in Nat /\ row'.attempt >= row.attempt
          /\ row'.answered = row.answered
      BY <1>1, <1>4 DEF Row, Mild
    <3>4. /\ runs \in Nat /\ unpaid \in Nat /\ row.attempt \in Nat
          /\ MaxRuns \in Nat /\ unpaid <= MaxRuns
          /\ Cardinality(Begun) \in Nat
          /\ One(Unused(row)) \in {0, 1} /\ One(row.answered) \in {0, 1}
      BY PaidNumbers DEF Deals, Settlements
    <3>5. One(Unused(row)') \in {0, 1} /\ One(row.answered)' = One(row.answered)
      BY <3>3 DEF One
    <3>6. CASE unpaid' = MaxRuns
      BY <3>2, <3>6 DEF Paid
    <3>7. CASE unpaid' # MaxRuns
      <4>1. unpaid' = unpaid + 1 /\ unpaid # MaxRuns
        BY <3>1, <3>4, <3>7 DEF OneMore
      <4>2. runs + Cardinality(Begun) + One(Unused(row))
              <= row.attempt + unpaid + One(row.answered)
        BY <4>1 DEF Deals, Settlements, Paid
      <4>3. runs + Cardinality(Begun') + One(Unused(row)')
              <= row'.attempt + unpaid' + One(row.answered)'
        BY <3>2, <3>3, <3>4, <3>5, <4>1, <4>2
      <4>4. (runs + Cardinality(Begun) + One(Unused(row))
               <= row.attempt + unpaid + One(row.answered))'
        BY <1>2, <4>3
      <4> QED BY <3>2, <4>4 DEF Paid
    <3> QED BY <3>6, <3>7
  <2> QED BY <2>1, <2>2
<1>7. LateFindNothing'
  BY <1>2, <1>3, <1>4, LateKept DEF Deals, Settlements
<1>8. Settlements'
  BY <1>2, <1>3, <1>4, <1>6, <1>7, SettlementsKept DEF Deals, NoNews
<1>9. DecisionsArrive'
  BY <1>2, TroubleExcuses DEF IInv
<1> QED BY <1>8, <1>9 DEF Deals

\* What was begun is run.
LEMMA CallsOwes ==
  ASSUME IInv, IInv', Deals, NEW r \in Requests, Calls(r) PROVE Deals'
<1>1. row \in Row /\ row' \in Row /\ Sane(row) /\ Lanes /\ Enters(r, "calling")
        /\ req[r].at = "begun"
  BY DEF IInv, Deals, Settlements, Calls, At
<1>2. UNCHANGED <<asked, unpaid, early, decision, loose, trouble>>
  BY DEF Calls, Enters, outside
<1>3. Others(r) /\ NoNews
  <2>1. NewsFree("calling")
    BY DEF NewsFree, OfApproval
  <2> QED BY <1>1, <2>1, NewsEnters
<1>4. Careful(row, row')
  BY <1>1, CarefulMarkPhase DEF Enters
<1>5. Begun' \subseteq Begun /\ Worth(row, row')
  <2>1. Begun' \subseteq Begun
    BY <1>3 DEF Begun, NoNews, At
  <2> QED BY <1>1, <1>4, <2>1, CarefulWorth DEF Careful, Tame
<1>6. Paid'
  <2>1. CASE row.status = "draining"
    <3>1. runs' = runs
      BY <2>1 DEF Calls
    <3> QED BY <1>2, <1>5, <3>1, PaidKept DEF Deals, Settlements
  <2>2. CASE row.status # "draining"
    <3>1. runs' = runs + 1 /\ req' = [req EXCEPT ![r].at = "calling"]
      BY <2>2 DEF Calls, Enters
    <3>2. r \in Begun /\ Begun' \subseteq Begun \ {r}
      <4>1. req'[r].at = "calling"
        BY <1>1, <3>1 DEF Lanes, ReqType
      <4> QED BY <1>1, <1>5, <4>1 DEF Begun, At
    <3>3. /\ IsFiniteSet(Begun) /\ IsFiniteSet(Begun \ {r})
          /\ Cardinality(Begun \ {r}) = Cardinality(Begun) - 1
      BY <3>2, FS_RemoveElement DEF Deals, Settlements, Paid
    <3>4. /\ IsFiniteSet(Begun')
          /\ Cardinality(Begun') <= Cardinality(Begun) - 1
          /\ Cardinality(Begun') \in Nat
      BY <3>2, <3>3, FS_Subset, FS_CardinalityType
    <3>5. /\ runs \in Nat /\ unpaid \in Nat /\ row.attempt \in Nat
          /\ Cardinality(Begun) \in Nat
          /\ One(Unused(row)) \in {0, 1} /\ One(row.answered) \in {0, 1}
      BY PaidNumbers DEF Deals, Settlements
    <3>6. row'.attempt \in Nat /\ One(Unused(row')) \in {0, 1}
            /\ One(row'.answered) \in {0, 1}
      BY <1>1 DEF Row, One
    <3>7. CASE unpaid = MaxRuns
      BY <1>2, <3>4, <3>7 DEF Paid
    <3>8. CASE unpaid # MaxRuns
      <4>1. runs + Cardinality(Begun) + One(Unused(row))
              <= row.attempt + unpaid + One(row.answered)
        BY <3>8 DEF Deals, Settlements, Paid
      <4>2. runs' + Cardinality(Begun') + One(Unused(row'))
              <= row'.attempt + unpaid + One(row'.answered)
        BY <1>5, <3>1, <3>4, <3>5, <3>6, <4>1 DEF Worth
      <4>3. (runs + Cardinality(Begun) + One(Unused(row))
               <= row.attempt + unpaid + One(row.answered))'
        BY <1>2, <4>2
      <4> QED BY <3>4, <4>3 DEF Paid
    <3> QED BY <3>7, <3>8
  <2> QED BY <2>1, <2>2
<1>7. Mild(row, row') /\ (row'.status = "running" => row.status = "running")
  BY <1>4 DEF Careful, Tame
<1>8. LateFindNothing'
  BY <1>2, <1>3, <1>7, LateKept DEF Deals, Settlements
<1>9. Settlements'
  BY <1>2, <1>3, <1>6, <1>7, <1>8, SettlementsKept DEF Deals, NoNews
<1>10. NothingTold
  BY <1>1, <1>3, NothingToTell
<1>11. DecisionsArrive'
  BY <1>2, <1>4, <1>10, DecisionsKept, TameWaits DEF Deals, Careful
<1> QED BY <1>9, <1>11 DEF Deals

\* What is begun uses an attempt that was counted, or is marked as unpaid; and
\* nobody is late, as that would take the lease.
LEMMA BeginsOwes ==
  ASSUME IInv, IInv', Deals, NEW r \in Requests, Begins(r) PROVE Deals'
<1> DEFINE d == Recover(row, result)
<1>1. row \in Row /\ row' \in Row /\ Sane(row) /\ Lanes /\ req[r].at = "beginning"
        /\ row' = Begin(d) /\ d.status \in Startable
        /\ WorkerEnds(r, "begun")
        /\ unpaid' = IF d.status \in Retryable THEN OneMore ELSE unpaid
  BY DEF IInv, Deals, Settlements, Begins, At
<1>2. UNCHANGED <<asked, runs, early, decision, loose, trouble>>
  BY DEF Begins, outside
<1>3. Careful(row, d) /\ d \in Row
  BY <1>1, CarefulRecover, SoundRecover DEF Sound
<1> HIDE DEF d
<1>4. /\ row'.status = "running" /\ row'.attempt = d.attempt
      /\ row'.answered = d.answered /\ row'.question = d.question
      /\ row'.approval = d.approval /\ row'.wakes = d.wakes
      /\ row'.advanced = d.advanced
  BY <1>1, <1>3 DEF Begin, Becomes, Row
<1>5. Mild(row, row') /\ ~WaitsForApproval(row')
  BY <1>3, <1>4 DEF Careful, Tame, Mild, Sane, WaitsForApproval, WaitsForAnswer
<1>6. Others(r) /\ (req'[r].at \in {"begun", "over"} \/ req'[r] = Idle)
  BY <1>1 DEF WorkerEnds, Lanes, Others, ReqType
<1>7. req'[r].at \in {"begun", "over", "idle"}
  BY <1>6 DEF Idle
<1>8. Unheard /\ NothingTold
  BY <1>1, <1>6, <1>7 DEF Unheard, NothingTold, Others, At, OfApproval
<1>9. Paid'
  <2>1. Begun' \subseteq Begun \cup {r}
    BY <1>6 DEF Begun, Others, At
  <2>2. /\ IsFiniteSet(Begun \cup {r})
        /\ Cardinality(Begun \cup {r}) <= Cardinality(Begun) + 1
        /\ Cardinality(Begun \cup {r}) \in Nat /\ Cardinality(Begun) \in Nat
    <3>1. IsFiniteSet(Begun)
      BY DEF Deals, Settlements, Paid
    <3> HIDE DEF Begun
    <3>2. /\ IsFiniteSet(Begun \cup {r}) /\ Cardinality(Begun) \in Nat
          /\ Cardinality(Begun \cup {r}) =
               IF r \in Begun THEN Cardinality(Begun) ELSE Cardinality(Begun) + 1
      BY <3>1, FS_AddElement, FS_CardinalityType
    <3> QED
      BY <3>2
  <2>3. /\ IsFiniteSet(Begun') /\ Cardinality(Begun') \in Nat
        /\ Cardinality(Begun') <= Cardinality(Begun) + 1
    BY <2>1, <2>2, FS_Subset, FS_CardinalityType
  <2>4. /\ runs \in Nat /\ unpaid \in Nat /\ row.attempt \in Nat
        /\ MaxRuns \in Nat /\ unpaid <= MaxRuns
        /\ One(Unused(row)) \in {0, 1} /\ One(row.answered) \in {0, 1}
    BY PaidNumbers DEF Deals, Settlements
  <2>5. Worth(row, d)
    BY <1>1, <1>3, CarefulWorth DEF Careful, Tame
  <2>6. /\ row'.attempt \in Nat /\ d.attempt \in Nat
        /\ One(Unused(row')) = 0 /\ One(row'.answered) = One(d.answered)
        /\ One(d.answered) \in {0, 1} /\ One(Unused(d)) \in {0, 1}
    BY <1>3, <1>4 DEF Row, Unused, One
  <2>7. CASE unpaid' = MaxRuns
    BY <2>3, <2>7 DEF Paid
  <2>8. CASE unpaid' # MaxRuns
    <3>1. unpaid # MaxRuns /\ unpaid' \in Nat
            /\ unpaid + 1 <= unpaid' + One(Unused(d))
      BY <1>1, <2>4, <2>6, <2>8 DEF OneMore, Startable, Retryable, Unused, One
    <3>2. runs + Cardinality(Begun) + One(Unused(row))
            <= row.attempt + unpaid + One(row.answered)
      BY <3>1 DEF Deals, Settlements, Paid
    <3>3. runs + Cardinality(Begun') + One(Unused(row'))
            <= row'.attempt + unpaid' + One(row'.answered)
      BY <1>4, <2>2, <2>3, <2>4, <2>5, <2>6, <3>1, <3>2 DEF Worth
    <3>4. (runs + Cardinality(Begun) + One(Unused(row))
             <= row.attempt + unpaid + One(row.answered))'
      BY <1>2, <3>3
    <3> QED BY <2>3, <3>4 DEF Paid
  <2> QED BY <2>7, <2>8
<1>10. LateFindNothing'
  <2>1. ASSUME ~loose, NEW s \in Requests, IsLate(s)'
        PROVE  FALSE
    <3>1. s # r /\ IsLate(s)
      BY <1>6, <1>7, <2>1 DEF IsLate, At, Others
    <3>2. Holds(req[s], "goal")
      BY <3>1, ReqTyped, <1>1
      DEF IsLate, At, Shape, OfTheRun, OfAlone, Holds, Outside
    <3>3. Holds(req[r], "goal")
      BY <1>1, <2>1, ReqTyped
      DEF Shape, OfTheRun, OfAlone, Holds, Outside, Care
    <3> QED BY <1>1, <2>1, <3>1, <3>2, <3>3 DEF Lanes, Tokens
  <2>2. \A s \in Requests : At(s, "returned")' => req'[s].care # "drain"
    BY <1>6, <1>7 DEF Others, At, Deals, Settlements, LateFindNothing
  <2> QED BY <1>2, <2>1, <2>2 DEF LateFindNothing
<1>11. Settlements'
  BY <1>2, <1>5, <1>8, <1>9, <1>10, SettlementsKept DEF Deals
<1>12. \A a : WaitsFor(a)' => WaitsFor(a)
  BY <1>5 DEF WaitsFor
<1>13. DecisionsArrive'
  BY <1>2, <1>8, <1>12, DecisionsKept DEF Deals
<1> QED BY <1>11, <1>13 DEF Deals

\* A request whose time is up leaves a row that is drained or has ended.
LEMMA OverdueOwes ==
  ASSUME IInv, IInv', Deals, NEW r \in Requests, TimesOut(r) \/ Cancelled(r)
  PROVE  Deals'
<1>1. row \in Row /\ row' \in Row /\ Sane(row) /\ Lanes
        /\ req[r].at \in Working /\ row' = Drain(row, PhaseOf(r))
  BY DEF IInv, Deals, Settlements, TimesOut, Cancelled
<1>2. /\ UNCHANGED <<asked, runs, unpaid, early, decision>>
      /\ trouble' = trouble + 1 \/ trouble' = trouble
  BY DEF TimesOut, Cancelled, outside, history
<1>3. Others(r) /\ req'[r].at = req[r].at /\ req'[r].out = req[r].out
  BY <1>1 DEF TimesOut, Cancelled, Lanes, Others, ReqType
<1>4. Unheard /\ NothingTold
  BY <1>3 DEF Unheard, NothingTold, Others, At
<1>5. Careful(row, row')
  BY <1>1, CarefulDrain
<1>6. Begun' \subseteq Begun
  BY <1>3 DEF Begun, Others, At
<1>7. Worth(row, row')
  BY <1>1, <1>5, CarefulWorth DEF Careful, Tame
<1>8. Paid'
  BY <1>2, <1>6, <1>7, PaidKept DEF Deals, Settlements
<1>9. row'.status # "running"
  BY <1>1 DEF Drain, IsTerminal, Terminal, Becomes, Row
<1>10. LateFindNothing'
  <2>1. \A s \in Requests : At(s, "returned")' => req'[s].care # "drain"
    BY <1>1, <1>3 DEF Others, At, Deals, Settlements, LateFindNothing, Working
  <2> QED BY <1>9, <2>1 DEF LateFindNothing
<1>11. Settlements'
  BY <1>2, <1>4, <1>5, <1>8, <1>10, SettlementsKept DEF Deals, Careful, Tame
<1>12. DecisionsArrive'
  BY <1>2, <1>4, <1>5, DecisionsKept, TameWaits, TroubleExcuses
  DEF Deals, Careful, IInv
<1> QED BY <1>11, <1>12 DEF Deals

-----------------------------------------------------------------------------
(* Questions and approvals come, and are answered.                           *)

\* The runtime asks for an approval or a question that nobody knows yet.
LEMMA ReturnsOwes ==
  ASSUME IInv, IInv', Deals, NEW r \in Requests, NEW out \in Outcomes,
         Returns(r, out)
  PROVE  Deals'
<1>1. row \in Row /\ Lanes /\ req[r].at = "calling"
  BY DEF IInv, Returns, At
<1>2. UNCHANGED <<row, runs, unpaid, early, loose, trouble>>
  BY DEF Returns, history
<1>3. /\ decision \in [Approvals -> {"none", "pending", "approved", "applying",
                                     "applied", "failed", "rejected", "lost"}]
      /\ asked \in [Questions -> {"none", "pending", "answered", "handed"}]
  BY DEF IInv, RestOK
<1>4. /\ \A a \in Approvals :
           decision'[a] = IF a = out THEN "pending" ELSE decision[a]
      /\ \A q \in Questions :
           asked'[q] = IF q = out THEN "pending" ELSE asked[q]
      /\ out \in Approvals => decision[out] = "none"
      /\ out \in Questions => asked[out] = "none"
  BY DEF Returns
<1>5. /\ Others(r)
      /\ \/ req'[r].at = "returned" /\ req'[r].out = out /\ req'[r].care = "kept"
         \/ req'[r].at \in {"over", "idle"}
  <2>1. CASE req[r].care = "kept"
    <3>1. req' = [req EXCEPT ![r].at = "returned", ![r].out = out]
      BY <2>1 DEF Returns
    <3> QED BY <1>1, <2>1, <3>1 DEF Lanes, Others, ReqType
  <2>2. CASE req[r].care = "drain"
    <3>1. req' = [req EXCEPT ![r].at = "over"]
      BY <2>2 DEF Returns
    <3> QED BY <1>1, <3>1 DEF Lanes, Others, ReqType
  <2>3. CASE req[r].care \notin {"kept", "drain"}
    <3>1. req' = [req EXCEPT ![r] = Idle]
      BY <2>3 DEF Returns
    <3> QED BY <1>1, <3>1 DEF Lanes, Others, Idle
  <2> QED BY <2>1, <2>2, <2>3
<1>6. \A s \in Requests : \A x : Brings(s, x)' => Brings(s, x) \/ (s = r /\ x = out)
  BY <1>5 DEF Brings, Others
<1>7. Sane(row)' /\ Paid' /\ LateFindNothing'
  <2>1. Begun' \subseteq Begun
    BY <1>5 DEF Begun, Others, At
  <2>2. Worth(row, row')
    BY <1>1, <1>2, CarefulStutter, CarefulWorth
    DEF Careful, Tame, Deals, Settlements
  <2>3. Paid'
    BY <1>2, <2>1, <2>2, PaidKept DEF Deals, Settlements
  <2>4. LateFindNothing'
    BY <1>2, <1>5 DEF LateFindNothing, Others, At, IsLate, Deals, Settlements
  <2> QED BY <1>2, <2>3, <2>4 DEF Sane, Deals, Settlements
<1>8. AskedFirst'
  <2>1. \A s \in Requests : req'[s].at \in OfApproval => req'[s].out \in Approvals
    BY <1>5 DEF OfApproval, Others, Deals, Settlements, AskedFirst
  <2>2. \A s \in Requests, a \in Approvals :
          Brings(s, a)' \/ LinksTo(s, a)' => decision'[a] # "none"
    <3>1. \A s \in Requests : \A a : LinksTo(s, a)' => LinksTo(s, a)
      BY <1>5 DEF LinksTo, At, Others
    <3> QED BY <1>4, <1>6, <3>1 DEF Deals, Settlements, AskedFirst
  <2>3. row'.approval \in Approvals => decision'[row'.approval] # "none"
    BY <1>2, <1>4 DEF Deals, Settlements, AskedFirst
  <2>4. \A s \in Requests, q \in Questions :
          Brings(s, q)' => asked'[q] # "none" /\ row'.question # q
    BY <1>2, <1>4, <1>6 DEF Deals, Settlements, AskedFirst
  <2>5. row'.question \in Questions => asked'[row'.question] # "none"
    BY <1>2, <1>4 DEF Deals, Settlements, AskedFirst
  <2> QED BY <2>1, <2>2, <2>3, <2>4, <2>5 DEF AskedFirst
<1>9. BroughtOnce'
  BY <1>4, <1>6 DEF BroughtOnce, Deals, Settlements, AskedFirst
<1>10. \A q \in Questions : asked'[q] = "handed" <=> asked[q] = "handed"
  BY <1>4
<1>11. AnsweredOnce'
  BY <1>2, <1>4, <1>6, <1>10 DEF AnsweredOnce, Deals, Settlements
<1>12. ReachedAnswers' /\ WaitsForAnother'
  BY <1>2, <1>10
  DEF ReachedAnswers, Reached, WaitsForAnother, Awaits, IsSettled, Deals,
      Settlements
<1>13. DecisionsArrive'
  <2>1. \A a, places : IsAt(a, places)
                         /\ places \subseteq {"linking", "applying", "resolving"}
                         => IsAt(a, places)'
    BY <1>1, <1>5 DEF IsAt, Others
  <2>2. \A a : /\ IsAt(a, {"applying"}) => IsAt(a, {"applying"})'
               /\ IsAt(a, {"linking", "resolving"})
                    => IsAt(a, {"linking", "resolving"})'
    BY <2>1
  <2>3. \A a : WaitsFor(a)' <=> WaitsFor(a)
    BY <1>2 DEF WaitsFor
  <2> QED BY <1>2, <1>4, <2>2, <2>3 DEF DecisionsArrive, Deals
<1> QED BY <1>7, <1>8, <1>9, <1>11, <1>12, <1>13 DEF Deals, Settlements

\* Who has delivered is gone.
LEMMA GoneDelivered ==
  ASSUME Lanes, NEW r \in Requests, NEW d, Delivered(r, d),
         req[r].at \in {"delivering", "linking"}
  PROVE  req'[r].at \in {"idle", "over", "overdue"}
<1>1. req[r].care # "alone"
  BY ReqTyped DEF Shape, OfAlone
<1>2. CASE req' = [req EXCEPT ![r] = Idle]
  BY <1>2 DEF Lanes, Idle
<1>3. CASE Goes(r, "over")
  BY <1>3, NewsGoes
<1>4. CASE req' = [req EXCEPT ![r].at = "overdue", ![r].again = TRUE]
  BY <1>4 DEF Lanes, ReqType
<1>5. \/ req' = [req EXCEPT ![r] = Idle] \/ Goes(r, "over")
      \/ req' = [req EXCEPT ![r].at = "overdue", ![r].again = TRUE]
  BY <1>1 DEF Delivered, Kept, Leaves, WorkerEnds, Goes
<1> QED BY <1>2, <1>3, <1>4, <1>5

\* The row is blocked for the question that the run has asked.
LEMMA QuestionOwes ==
  ASSUME IInv, IInv', Deals, NEW r \in Requests, NEW q \in Questions,
         req[r].out = q, PersistsOutcome(r)
  PROVE  Deals'
<1> DEFINE d == Block(row, "question", q)
<1>1. row \in Row /\ row' \in Row /\ Sane(row) /\ Lanes /\ row' = d
        /\ Delivered(r, d) /\ Brings(r, q) /\ req[r].at = "delivering"
  <2>1. req[r].at = "delivering" /\ Delivered(r, Outcome(row, q))
    BY DEF PersistsOutcome, At
  <2>2. Outcome(row, q) = d
    BY OutcomesDiffer DEF Outcome, Plain
  <2>3. row' = d /\ Brings(r, q)
    BY <2>1, <2>2 DEF Delivered, Brings
  <2> QED BY <2>1, <2>2, <2>3 DEF IInv, Deals, Settlements
<1>2. Others(r) /\ NoNews
  BY <1>1, NewsDelivered
<1>3. UNCHANGED <<decision, asked, runs, unpaid, early, loose, trouble>>
  BY DEF PersistsOutcome, outside, history
<1>4. NothingTold
  BY <1>1, <1>2, NothingToTell
<1>5. CASE row' = row
  <2>1. Careful(row, row')
    BY <1>1, <1>5, CarefulStutter
  <2>2. Beside
    BY <1>2, <1>3, <1>4, <2>1 DEF Beside
  <2> QED BY <2>2, BesideKeeps
<1>6. CASE row' # row
  <2>1. /\ row'.status = "blocked" /\ row'.kind = "question"
        /\ row'.question = q /\ ~row'.advanced
        /\ row'.attempt = row.attempt /\ row'.answered = row.answered
        /\ row'.approval = row.approval /\ row'.wakes = row.wakes
    BY <1>1, <1>6 DEF Block, Untimed, Becomes, Row
  <2>2. Sane(row)'
    BY <2>1 DEF Sane
  <2>3. Worth(row, row')
    <3>1. row.attempt \in Nat /\ One(Unused(row')) = 0
            /\ One(Unused(row)) \in {0, 1} /\ One(row.answered) \in {0, 1}
      BY <1>1, <2>1 DEF Row, One, Unused
    <3> QED BY <2>1, <3>1 DEF Worth
  <2>4. Begun' \subseteq Begun
    BY <1>2 DEF Begun, NoNews, At
  <2>5. Paid'
    BY <1>3, <2>3, <2>4, PaidKept DEF Deals, Settlements
  <2>6. LateFindNothing'
    BY <1>2, <1>3, <2>1, LateKept DEF Deals, Settlements
  <2>7. \A s \in Requests : \A x : Brings(s, x)' => Brings(s, x) /\ (x = q => s # r)
    <3>1. ~Brings(r, q)'
      BY <1>1, GoneDelivered DEF Brings
    <3> QED BY <1>2, <3>1 DEF NoNews, Unheard, Brings
  <2>8. AskedFirst'
    <3>1. \A s \in Requests :
            req'[s].at \in OfApproval => req'[s].out \in Approvals
      BY <1>2 DEF NoNews, Unheard, Deals, Settlements, AskedFirst
    <3>2. \A s \in Requests, a \in Approvals :
            Brings(s, a)' \/ LinksTo(s, a)' => decision'[a] # "none"
      <4>1. \A s \in Requests : \A a : LinksTo(s, a)' => LinksTo(s, a)
        BY <1>2 DEF LinksTo, At, NoNews, Unheard
      <4> QED BY <1>3, <2>7, <4>1 DEF Deals, Settlements, AskedFirst
    <3>3. row'.approval \in Approvals => decision'[row'.approval] # "none"
      BY <1>3, <2>1 DEF Deals, Settlements, AskedFirst
    <3>4. \A s \in Requests, p \in Questions :
            Brings(s, p)' => asked'[p] # "none" /\ row'.question # p
      BY <1>1, <1>3, <2>1, <2>7
      DEF Deals, Settlements, AskedFirst, BroughtOnce
    <3>5. row'.question \in Questions => asked'[row'.question] # "none"
      BY <1>1, <1>3, <2>1 DEF Deals, Settlements, AskedFirst
    <3> QED BY <3>1, <3>2, <3>3, <3>4, <3>5 DEF AskedFirst
  <2>9. BroughtOnce'
    BY <2>7 DEF BroughtOnce, Deals, Settlements
  <2>10. AnsweredOnce' /\ ReachedAnswers'
    BY <1>3, <2>1, <2>7
    DEF AnsweredOnce, ReachedAnswers, Reached, Deals, Settlements
  <2>11. WaitsForAnother'
    <3>1. ASSUME NEW p \in Questions, Awaits(p)', row'.answered
          PROVE  \E o \in Questions \ {p} : asked'[o] = "handed"
      <4>1. p = q
        BY <2>1, <3>1 DEF Awaits
      <4>2. PICK o \in Questions : asked[o] = "handed"
                                     /\ \A s \in Requests : ~Brings(s, o)
        BY <2>1, <3>1 DEF AnsweredOnce, Deals, Settlements
      <4> QED BY <1>1, <1>3, <4>1, <4>2
    <3> QED BY <3>1 DEF WaitsForAnother
  <2>12. DecisionsArrive'
    <3>1. \A a : WaitsFor(a)' => WaitsFor(a)
      BY <2>1 DEF WaitsFor, WaitsForApproval
    <3> QED BY <1>3, <1>4, <3>1, DecisionsKept DEF Deals
  <2> QED BY <2>2, <2>5, <2>6, <2>8, <2>9, <2>10, <2>11, <2>12
          DEF Deals, Settlements
<1> QED BY <1>5, <1>6

\* The row is blocked for an approval, and the request goes on to link it.
LEMMA BlockOwes ==
  ASSUME IInv, IInv', Deals, NEW r \in Requests, NEW a \in Approvals,
         req[r].out = a, PersistsBlock(r)
  PROVE  Deals'
<1>1. row \in Row /\ row' \in Row /\ Sane(row) /\ Lanes
        /\ row' = Block(row, "approval", a)
        /\ Brings(r, a) /\ req[r].at = "delivering"
  BY DEF IInv, Deals, Settlements, PersistsBlock, Brings, At
<1>2. Others(r) /\ req'[r].at = "linking" /\ req'[r].out = a
  BY <1>1, NewsGoes DEF PersistsBlock
<1>3. UNCHANGED <<decision, asked, runs, unpaid, early, loose, trouble>>
  BY DEF PersistsBlock, outside, history
<1>4. NothingTold
  BY <1>1, <1>2, NothingToTell
<1>5. \/ row' = row
      \/ /\ row'.status = "blocked" /\ row'.kind = "approval"
         /\ row'.approval = a /\ ~row'.advanced
  BY <1>1 DEF Block, Untimed, Becomes, Row
<1>6. /\ row'.attempt = row.attempt /\ row'.answered = row.answered
      /\ row'.question = row.question /\ row'.wakes = row.wakes
  BY <1>1 DEF Block, Untimed, Becomes, Row
<1>7. Sane(row)'
  BY <1>1, <1>5 DEF Sane
<1>8. Worth(row, row')
  <2>1. row.attempt \in Nat /\ One(Unused(row)) \in {0, 1}
          /\ One(row.answered) \in {0, 1}
    BY <1>1 DEF Row, One
  <2>2. row' = row \/ One(Unused(row')) = 0
    BY <1>5 DEF One, Unused
  <2> QED BY <1>6, <2>1, <2>2 DEF Worth
<1>9. Begun' \subseteq Begun
  BY <1>2 DEF Begun, Others, At
<1>10. Paid'
  BY <1>3, <1>8, <1>9, PaidKept DEF Deals, Settlements
<1>11. LateFindNothing'
  <2>1. \A s \in Requests : /\ At(s, "returned")' => At(s, "returned")
                                                      /\ req'[s] = req[s]
                            /\ IsLate(s)' => IsLate(s)
    BY <1>2 DEF Others, At, IsLate
  <2>2. row'.status = "running" => row.status = "running"
    BY <1>5
  <2> QED BY <1>3, <2>1, <2>2 DEF LateFindNothing, Deals, Settlements
<1>12. \A s \in Requests : \A x : Brings(s, x)' => Brings(s, x)
  BY <1>2 DEF Brings, Others
<1>13. AskedFirst'
  <2>1. \A s \in Requests : req'[s].at \in OfApproval => req'[s].out \in Approvals
    BY <1>2 DEF Others, Deals, Settlements, AskedFirst
  <2>2. \A s \in Requests, b \in Approvals :
          Brings(s, b)' \/ LinksTo(s, b)' => decision'[b] # "none"
    <3>1. \A s \in Requests : \A b : LinksTo(s, b)' => LinksTo(s, b) \/ b = a
      BY <1>2 DEF LinksTo, At, Others
    <3> QED BY <1>1, <1>3, <1>12, <3>1 DEF Deals, Settlements, AskedFirst
  <2>3. row'.approval \in Approvals => decision'[row'.approval] # "none"
    BY <1>1, <1>3, <1>5 DEF Deals, Settlements, AskedFirst
  <2>4. \A s \in Requests, q \in Questions :
          Brings(s, q)' => asked'[q] # "none" /\ row'.question # q
    BY <1>3, <1>6, <1>12 DEF Deals, Settlements, AskedFirst
  <2>5. row'.question \in Questions => asked'[row'.question] # "none"
    BY <1>3, <1>6 DEF Deals, Settlements, AskedFirst
  <2> QED BY <2>1, <2>2, <2>3, <2>4, <2>5 DEF AskedFirst
<1>14. BroughtOnce'
  BY <1>12 DEF BroughtOnce, Deals, Settlements
<1>15. AnsweredOnce' /\ ReachedAnswers'
  BY <1>3, <1>6, <1>12
  DEF AnsweredOnce, ReachedAnswers, Reached, Deals, Settlements
<1>16. WaitsForAnother'
  <2>1. \A q : Awaits(q)' => Awaits(q)
    BY <1>5, NoneIsNoId DEF Awaits
  <2> QED BY <1>3, <1>6, <2>1 DEF WaitsForAnother, Deals, Settlements
<1>17. DecisionsArrive'
  <2>1. \A b : WaitsFor(b)' => WaitsFor(b) \/ b = a
    BY <1>5 DEF WaitsFor
  <2>2. IsAt(a, {"linking", "resolving"})'
    BY <1>2 DEF IsAt
  <2>3. ASSUME trouble = 0
        PROVE  decision'[a] # "lost"
                 /\ (decision'[a] = "applying" => IsAt(a, {"applying"})')
    <3>1. decision[a] # "lost" /\ (decision[a] = "applying" => IsAt(a, {"applying"}))
      BY <2>3 DEF Deals, DecisionsArrive
    <3>2. IsAt(a, {"applying"}) => IsAt(a, {"applying"})'
      BY <1>1, <1>2, StaysAt
    <3> QED BY <1>3, <3>1, <3>2
  <2> QED BY <1>1, <1>2, <1>3, <2>1, <2>2, <2>3, DecisionsOfOne DEF Deals
<1> QED BY <1>7, <1>10, <1>11, <1>13, <1>14, <1>15, <1>16, <1>17
        DEF Deals, Settlements

\* A row whose approval could not be begun waits for it again, unless it has
\* been decided elsewhere.
LEMMA RestoresOwes ==
  ASSUME IInv, IInv', Deals, NEW r \in Requests, NEW a, req[r].out = a,
         Restores(r)
  PROVE  Deals'
<1>1. row \in Row /\ row' \in Row /\ Sane(row) /\ Lanes
        /\ req[r].at = "restoring" /\ a \in Approvals
  BY DEF IInv, Deals, Settlements, AskedFirst, OfApproval, Restores, At
<1>2. Others(r) /\ NoNews
  BY <1>1, NewsLeaves DEF Restores
<1>3. UNCHANGED <<decision, asked, runs, unpaid, early, loose, trouble>>
  BY DEF Restores, outside, history
<1>4. NothingTold
  BY <1>1, <1>2, NothingToTell
<1>5. row' = IF decision[a] \in {"rejected", "applied", "failed"}
             THEN IF MayLink(a) THEN Linked(row, a) ELSE Fail(row, FALSE)
             ELSE RestoreWait(row, a)
  BY DEF Restores
<1>6. CASE Careful(row, row')
  <2>1. Beside
    BY <1>2, <1>3, <1>4, <1>6 DEF Beside
  <2> QED BY <2>1, BesideKeeps
<1>7. CASE ~Careful(row, row')
  <2>1. Careful(row, Fail(row, FALSE))
    <3>1. FALSE \in BOOLEAN
      OBVIOUS
    <3> QED BY <1>1, <3>1, CarefulFail, Zenon
  <2>2. Careful(row, row) /\ Careful(row, Linked(row, a))
    BY <1>1, CarefulStutter, LinkedCareful
  <2>3. decision[a] \notin {"rejected", "applied", "failed"}
          /\ row' = RestoreWait(row, a) /\ row' # row
    BY <1>5, <1>7, <2>1, <2>2
  <2>4. /\ row.approval = a /\ row.status = "applying"
        /\ row'.status = "blocked" /\ row'.approval = row.approval
        /\ row'.attempt = row.attempt /\ row'.answered = row.answered
        /\ row'.question = row.question /\ row'.wakes = row.wakes
        /\ row'.advanced = row.advanced
    BY <1>1, <2>3 DEF RestoreWait, Untimed, Becomes, Row
  <2>5. Mild(row, row') /\ Thrifty(row, row')
    <3>1. row.attempt \in Nat /\ a # None
      BY <1>1, NoneIsNoId DEF Row
    <3> QED BY <1>1, <2>4, <3>1
            DEF Mild, Thrifty, Sane, Unused, WaitsForAnswer
  <2>6. Begun' \subseteq Begun /\ Worth(row, row')
    <3>1. Begun' \subseteq Begun
      BY <1>2 DEF Begun, NoNews, At
    <3> QED BY <1>1, <2>5, <3>1, CarefulWorth
  <2>7. Paid'
    BY <1>3, <2>6, PaidKept DEF Deals, Settlements
  <2>8. LateFindNothing'
    BY <1>2, <1>3, <2>4, LateKept DEF Deals, Settlements
  <2>9. Settlements'
    BY <1>2, <1>3, <2>5, <2>7, <2>8, SettlementsKept DEF Deals, NoNews
  <2>10. \A b : WaitsFor(b)' => WaitsFor(b) \/ b = a
    BY <2>4 DEF WaitsFor
  <2>11. ASSUME trouble = 0
         PROVE  /\ decision'[a] # "lost"
                /\ decision'[a] = "applying" => IsAt(a, {"applying"})'
                /\ decision'[a] \in {"pending", "approved", "applying"}
    <3>1. decision[a] # "lost" /\ (decision[a] = "applying" => IsAt(a, {"applying"}))
      BY <1>1, <2>11 DEF Deals, DecisionsArrive
    <3>2. decision[a] # "none"
      BY <1>1, <2>4 DEF Deals, Settlements, AskedFirst
    <3>3. IsAt(a, {"applying"}) => IsAt(a, {"applying"})'
      BY <1>1, <1>2, StaysAt
    <3>4. decision[a] \in {"none", "pending", "approved", "applying", "applied",
                           "failed", "rejected", "lost"}
      BY <1>1 DEF IInv, RestOK
    <3> QED BY <1>3, <2>3, <3>1, <3>2, <3>3, <3>4
  <2>12. DecisionsArrive'
    BY <1>1, <1>2, <1>3, <2>10, <2>11, DecisionsOfOne DEF Deals
  <2> QED BY <2>9, <2>12 DEF Deals
<1> QED BY <1>6, <1>7

\* A rejected row does not wait.
LEMMA RejectsOwes ==
  ASSUME IInv, IInv', Deals, NEW a \in Approvals, Rejects(a) \/ RejectBreaks(a)
  PROVE  Deals'
<1>1. row \in Row /\ row' \in Row /\ Sane(row)
        /\ row' \in {row, Deny(row)} /\ req' = req
  BY DEF IInv, Deals, Settlements, Rejects, RejectBreaks
<1>2. /\ UNCHANGED <<asked, runs, unpaid, early, loose>>
      /\ decision[a] \in {"pending", "approved"} /\ decision'[a] = "rejected"
      /\ \A b \in Approvals \ {a} : decision'[b] = decision[b]
  BY DEF Rejects, RejectBreaks, Trouble, history, IInv, RestOK
<1>3. NoNews /\ NothingTold
  BY <1>1, NewsOfNone
<1>4. Careful(row, row')
  BY <1>1, CarefulStutter, CarefulParkDeny
<1>5. Settlements'
  BY <1>2, <1>3, <1>4, AsideKeeps DEF Aside, Deals
<1>6. CASE Rejects(a)
  <2>1. \A b : WaitsFor(b)' => WaitsFor(b)
    BY <1>4, TameWaits DEF Careful
  <2>2. ~WaitsFor(a)'
    <3>1. SUFFICES ASSUME WaitsFor(a)' PROVE FALSE
      OBVIOUS
    <3>2. WaitsFor(a)
      BY <2>1, <3>1
    <3>3. row' = Deny(row) /\ row.status = "blocked"
      BY <1>6, <3>2 DEF Rejects, WaitsFor, WaitsForApproval
    <3>4. row'.status = "denied"
      BY <1>1, <3>3 DEF Deny, Failed, Settles, Untimed, Becomes, Row
    <3> QED BY <3>1, <3>4 DEF WaitsFor, WaitsForApproval
  <2>3. \A b, places : IsAt(b, places)' <=> IsAt(b, places)
    BY <1>1 DEF IsAt
  <2>4. trouble' = trouble
    BY <1>6 DEF Rejects, history
  <2> QED BY <1>2, <1>5, <2>1, <2>2, <2>3, <2>4 DEF Deals, DecisionsArrive
<1>7. CASE RejectBreaks(a)
  <2>1. DecisionsArrive'
    BY <1>7, TroubleExcuses DEF RejectBreaks, Trouble, IInv
  <2> QED BY <1>5, <2>1 DEF Deals
<1> QED BY <1>6, <1>7

\* The answer alone changes nothing for the row.
LEMMA AnswersOwes ==
  ASSUME IInv, IInv', Deals, NEW q \in Questions, Answers(q) PROVE Deals'
<1>1. row \in Row /\ Sane(row) /\ req' = req
  BY DEF IInv, Deals, Settlements, Answers
<1>2. UNCHANGED <<row, decision, runs, unpaid, early, loose, trouble>>
  BY DEF Answers, history
<1>3. \A p \in Questions : /\ asked[p] # "none" => asked'[p] # "none"
                           /\ asked'[p] = "handed" <=> asked[p] = "handed"
  BY DEF Answers, IInv, RestOK
<1>4. NoNews /\ NothingTold
  BY <1>1, NewsOfNone
<1>5. Careful(row, row')
  BY <1>1, <1>2, CarefulStutter
<1>6. Begun' \subseteq Begun /\ Worth(row, row')
  <2>1. Begun' \subseteq Begun
    BY <1>4 DEF Begun, NoNews, At
  <2> QED BY <1>1, <1>2, <1>5, <2>1, CarefulWorth DEF Careful, Tame
<1>7. Paid'
  BY <1>2, <1>6, PaidKept DEF Deals, Settlements
<1>8. LateFindNothing'
  BY <1>2, <1>4, LateKept DEF Deals, Settlements
<1>9. Settlements'
  BY <1>2, <1>3, <1>4, <1>5, <1>7, <1>8, SettlementsKept
  DEF Deals, NoNews, Careful, Tame
<1>10. DecisionsArrive'
  BY <1>2, <1>4, <1>5, DecisionsKept, TameWaits DEF Deals, Careful
<1> QED BY <1>9, <1>10 DEF Deals

\* The answer, handed over, continues a row that waits for it, once.
LEMMA HandsOverOwes ==
  ASSUME IInv, IInv', Deals, NEW q \in Questions, HandsOver(q) PROVE Deals'
<1>1. row \in Row /\ row' \in Row /\ Sane(row) /\ req' = req
        /\ row' = ResolveQuestion(row, q)
        /\ asked[q] \in {"answered", "handed"}
  BY DEF IInv, Deals, Settlements, HandsOver
<1>2. /\ UNCHANGED <<decision, runs, unpaid, loose, trouble>>
      /\ early' = IF row.question = q THEN early \ {q} ELSE early \cup {q}
      /\ row.question = q => row.answered \/ IsAsked(row, q)
  BY DEF HandsOver
<1>3. asked'[q] = "handed" /\ \A p \in Questions \ {q} : asked'[p] = asked[p]
  BY DEF HandsOver, IInv, RestOK
<1>4. NoNews /\ NothingTold
  BY <1>1, NewsOfNone
<1>5. \A s, x : Brings(s, x)' <=> Brings(s, x)
  BY <1>1 DEF Brings
<1>6. /\ row'.attempt = row.attempt /\ row'.question = row.question
      /\ row'.approval = row.approval /\ row'.wakes = row.wakes
      /\ row'.advanced = row.advanced
      /\ row.answered => row'.answered
  BY <1>1 DEF ResolveQuestion, IsAsked, Untimed, Becomes, Row
<1>7. \/ row' = row /\ ~IsAsked(row, q)
      \/ /\ IsAsked(row, q) /\ row'.answered /\ row'.status = "interrupted"
  BY <1>1 DEF ResolveQuestion, Untimed, Becomes, Row
<1>8. Sane(row)'
  BY <1>1, <1>6, <1>7 DEF Sane
<1>9. Worth(row, row')
  <2>1. row.attempt \in Nat /\ One(Unused(row)) \in {0, 1}
          /\ One(Unused(row')) \in {0, 1} /\ One(row.answered) \in {0, 1}
    BY <1>1 DEF Row, One
  <2>2. CASE row' = row
    BY <2>1, <2>2 DEF Worth
  <2>3. CASE row' # row
    <3>1. One(row.answered) = 0 /\ One(row'.answered) = 1
      BY <1>7, <2>3 DEF IsAsked, One
    <3> QED BY <1>6, <2>1, <3>1 DEF Worth
  <2> QED BY <2>2, <2>3
<1>10. Begun' \subseteq Begun
  BY <1>4 DEF Begun, NoNews, At
<1>11. Paid'
  BY <1>2, <1>9, <1>10, PaidKept DEF Deals, Settlements
<1>12. LateFindNothing'
  BY <1>2, <1>4, <1>7, LateKept DEF Deals, Settlements
<1>13. \A p \in Questions : asked[p] # "none" => asked'[p] # "none"
  BY <1>1, <1>3
<1>14. AskedFirst'
  BY <1>2, <1>4, <1>6, <1>13, AskedKept DEF NoNews, Deals, Settlements
<1>15. BroughtOnce'
  BY <1>4, BroughtKept DEF NoNews, Deals, Settlements
<1>16. \A p \in Questions : asked[p] = "handed" => asked'[p] = "handed"
  BY <1>3
<1>17. AnsweredOnce'
  <2>1. CASE IsAsked(row, q)
    <3>1. \A s \in Requests : ~Brings(s, q)
      BY <2>1 DEF IsAsked, Deals, Settlements, AskedFirst
    <3> QED BY <1>3, <1>5, <3>1 DEF AnsweredOnce
  <2>2. CASE row' = row
    BY <1>5, <1>16, <2>2 DEF AnsweredOnce, Deals, Settlements
  <2> QED BY <1>7, <2>1, <2>2
<1>18. ReachedAnswers'
  <2>1. ASSUME NEW p \in Questions, Reached(p)'
        PROVE  row'.answered
    <3>1. CASE p = q
      <4>1. row.question = q
        BY <1>2, <2>1, <3>1 DEF Reached
      <4> QED BY <1>2, <1>6, <1>7, <4>1
    <3>2. CASE p # q
      <4>1. Reached(p)
        BY <1>2, <1>3, <2>1, <3>2 DEF Reached
      <4> QED BY <1>6, <4>1 DEF Deals, Settlements, ReachedAnswers
    <3> QED BY <3>1, <3>2
  <2> QED BY <2>1 DEF ReachedAnswers
<1>19. WaitsForAnother'
  <2>1. \A p \in Questions : Awaits(p)' => row' = row
    BY <1>7 DEF Awaits
  <2>2. \A p \in Questions : Awaits(p)' => Awaits(p) /\ row.answered = row'.answered
    BY <2>1 DEF Awaits, IsSettled
  <2> QED BY <1>16, <2>2 DEF WaitsForAnother, Deals, Settlements
<1>20. DecisionsArrive'
  <2>1. \A a : WaitsFor(a)' => WaitsFor(a)
    BY <1>7 DEF WaitsFor, WaitsForApproval
  <2> QED BY <1>2, <1>4, <2>1, DecisionsKept DEF Deals
<1> QED BY <1>8, <1>11, <1>12, <1>14, <1>15, <1>17, <1>18, <1>19, <1>20
        DEF Deals, Settlements

\* The next process brings the row up to date, and nobody is at work.
LEMMA RestartOwes ==
  ASSUME IInv, IInv', Deals, Restart PROVE Deals'
<1> DEFINE d == Reconcile(row, result)
<1>1. row \in Row /\ row' \in Row /\ Sane(row)
  BY DEF IInv, Deals, Settlements
<1>2. /\ UNCHANGED <<asked, runs, unpaid, early>> /\ trouble' = trouble + 1
      /\ \A r \in Requests : req'[r] = Idle
      /\ \A a \in Approvals : decision[a] # "none" => decision'[a] # "none"
  BY DEF Restart
<1>3. \A r \in Requests : req'[r].at = "idle"
  BY <1>2 DEF Idle
<1>4. Unheard
  BY <1>3 DEF Unheard, At, OfApproval
<1>5. Careful(row, row')
  <2>1. Careful(row, d) /\ d \in Row /\ Sane(d)
    BY <1>1, CarefulReconcile, SoundReconcile DEF Sound, Careful, Tame, Mild
  <2>2. PICK kept \in SUBSET Approvals, e \in {d, CloseOrphan(d)} :
          row' = MissesApproval(e, kept)
    BY DEF Restart
  <2> HIDE DEF d
  <2>3. Careful(row, e) /\ e \in Row /\ Sane(e)
    <3>1. Careful(d, CloseOrphan(d)) /\ CloseOrphan(d) \in Row
      BY <2>1, CarefulCloseOrphan, SoundCloseOrphan DEF Sound
    <3>2. Careful(row, CloseOrphan(d))
      BY <1>1, <2>1, <3>1, CarefulTwice
    <3> QED BY <2>1, <2>2, <3>1, <3>2 DEF Careful, Tame, Mild
  <2>4. Careful(e, row')
    BY <2>2, <2>3, CarefulMissesApproval
  <2> QED BY <1>1, <2>3, <2>4, CarefulTwice
<1>6. Begun' \subseteq Begun /\ Worth(row, row')
  <2>1. Begun' \subseteq Begun
    BY <1>3 DEF Begun, At
  <2> QED BY <1>1, <1>5, <2>1, CarefulWorth DEF Careful, Tame
<1>7. Paid'
  BY <1>2, <1>6, PaidKept DEF Deals, Settlements
<1>8. LateFindNothing'
  BY <1>3 DEF LateFindNothing, At, IsLate
<1>9. Settlements'
  BY <1>2, <1>4, <1>5, <1>7, <1>8, SettlementsKept DEF Deals, Careful, Tame
<1>10. DecisionsArrive'
  BY <1>2, TroubleExcuses DEF IInv
<1> QED BY <1>9, <1>10 DEF Deals

-----------------------------------------------------------------------------
\* At the start nothing is owed.
LEMMA DealsInit == ASSUME Init PROVE Deals
<1> USE DEF Init
<1>1. \A r \in Requests : req[r].at = "idle"
  BY DEF Idle
<1>2. \A r \in Requests : \A x : ~Brings(r, x) /\ ~LinksTo(r, x)
  BY <1>1 DEF Brings, LinksTo, At
<1>3. Paid
  <2>1. Begun = {}
    BY <1>1 DEF Begun, At
  <2>2. IsFiniteSet(Begun) /\ Cardinality(Begun) = 0
    BY <2>1, FS_EmptySet
  <2>3. row.attempt = 1 /\ One(Unused(row)) \in {0, 1} /\ One(row.answered) = 0
    BY DEF Absent, One
  <2> QED BY <2>2, <2>3 DEF Paid
<1>4. AskedFirst
  BY <1>1, <1>2, NoneIsNoId DEF AskedFirst, OfApproval, Absent
<1>5. LateFindNothing
  BY <1>1 DEF LateFindNothing, At, IsLate
<1>6. Sane(row) /\ BroughtOnce /\ AnsweredOnce /\ ReachedAnswers
        /\ WaitsForAnother
  BY <1>2 DEF Sane, BroughtOnce, AnsweredOnce, ReachedAnswers, Reached,
     WaitsForAnother, Awaits, Absent
<1>7. DecisionsArrive
  BY DEF DecisionsArrive, WaitsFor, WaitsForApproval, Absent
<1> QED BY <1>3, <1>4, <1>5, <1>6, <1>7 DEF Deals, Settlements

\* Every step keeps the deals.
LEMMA DealsNext == ASSUME IInv, IInv', Deals, [Next]_vars PROVE Deals'
<1>1. ASSUME NEW r \in Requests, Asks(r)
      PROVE  Deals'
  BY <1>1, AsksOwes, BesideKeeps
<1>2. ASSUME NEW r \in Requests, GoesOn(r)
      PROVE  Deals'
  <2>1. CASE \/ EntersProjectLock(r) \/ EntersDelivery(r) \/ Fails(r)
             \/ ClosesDrain(r) \/ EntersApply(r) \/ CancelledInMark(r)
             \/ ApplyFails(r) \/ CancelledBetween(r) \/ DrainEnds(r)
    BY <2>1, GoesOnOwes, BesideKeeps
  <2>2. CASE Unreachable(r)
    BY <2>2, UnreachableOwes
  <2>3. CASE Calls(r)
    BY <2>3, CallsOwes
  <2>4. CASE Restores(r)
    BY <2>4, RestoresOwes
  <2>5. CASE Applies(r)
    BY <2>5, DecidesOwes
  <2>6. CASE TimesOut(r) \/ Cancelled(r)
    BY <2>6, OverdueOwes
  <2> QED BY <1>2, <2>1, <2>2, <2>3, <2>4, <2>5, <2>6 DEF GoesOn
<1>3. ASSUME NEW r \in Requests, Ends(r)
      PROVE  Deals'
  <2>1. CASE \E out \in Outcomes : Returns(r, out)
    BY <2>1, ReturnsOwes
  <2>2. CASE \/ HasEnded(r) \/ MayNotBegin(r) \/ PersistsResult(r)
             \/ NotItsTurn(r) \/ ApproveFails(r) \/ ResolveBreaks(r)
             \/ \E again \in BOOLEAN : CallRaises(r, again)
                                         \/ PersistBreaks(r, again)
             \/ req[r].out \in Plain /\ PersistsOutcome(r)
    BY <2>2, EndsOwes, BesideKeeps
  <2>3. CASE PersistsOutcome(r) /\ req[r].out \notin Plain
    <3>1. req[r].out \in Questions
      BY <2>3 DEF PersistsOutcome
    <3> QED BY <2>3, <3>1, QuestionOwes
  <2>4. CASE Approves(r) \/ \E how \in {"applied", "failed"} : ActionEnds(r, how)
    BY <2>4, DecidesOwes
  <2>5. CASE Begins(r)
    BY <2>5, BeginsOwes
  <2>6. CASE PersistsBlock(r)
    <3>1. req[r].out \in Approvals
      BY <2>6 DEF PersistsBlock
    <3> QED BY <2>6, <3>1, BlockOwes
  <2>7. CASE Links(r)
    BY <2>7, LinksOwes
  <2>8. CASE Resolves(r)
    BY <2>8, ResolvesOwes
  <2> QED BY <1>3, <2>1, <2>2, <2>3, <2>4, <2>5, <2>6, <2>7, <2>8 DEF Ends
<1>4. ASSUME Decides
      PROVE  Deals'
  <2>1. CASE \E r \in Requests, a \in Approvals :
               UserApproves(r, a) \/ UserApprovesEarly(r, a)
    BY <2>1, ApprovesOwes, BesideKeeps
  <2>2. CASE \E a \in Approvals : Rejects(a) \/ RejectBreaks(a)
    BY <2>2, RejectsOwes
  <2>3. CASE \E q \in Questions : Answers(q) \/ HandsOver(q)
    BY <2>3, AnswersOwes, HandsOverOwes
  <2> QED BY <1>4, <2>1, <2>2, <2>3 DEF Decides
<1>5. ASSUME Host
      PROVE  Deals'
  BY <1>5, HostOwes, RestartOwes, BesideKeeps
<1>6. CASE UNCHANGED vars
  <2>1. Careful(row, row')
    BY <1>6, CarefulStutter DEF vars, IInv, Deals, Settlements
  <2>2. NoNews /\ NothingTold
    BY <1>6, NewsOfNone DEF vars
  <2>3. Beside
    BY <1>6, <2>1, <2>2 DEF Beside, vars, outside, history
  <2> QED BY <2>3, BesideKeeps
<1> QED BY <1>1, <1>2, <1>3, <1>4, <1>5, <1>6 DEF Next

\* The deals hold in every reachable state.
LEMMA Settled == Spec => []Deals
<1>1. Init => Deals
  BY DealsInit
<1>2. IInv /\ IInv' /\ Deals /\ [Next]_vars => Deals'
  BY DealsNext
<1> QED BY <1>1, <1>2, Inductive, PTL DEF Spec

-----------------------------------------------------------------------------
\* DELIVERY_MAX_ATTEMPTS: each run of the runtime was counted as an attempt, or
\* follows the one answer of the user, or is of the two kinds that are not
\* counted (a row that nobody claimed, one that somebody else has skipped).
THEOREM EachRunIsPaid == Spec => []RunsArePaid
<1>1. IInv /\ Deals => RunsArePaid
  <2> SUFFICES ASSUME IInv, Deals
               PROVE  runs <= row.attempt + unpaid + One(row.answered)
    BY DEF RunsArePaid, One
  <2>1. /\ runs \in Nat /\ unpaid \in Nat /\ row.attempt \in Nat
        /\ MaxRuns \in Nat /\ runs <= MaxRuns /\ Cardinality(Begun) \in Nat
        /\ One(Unused(row)) \in {0, 1} /\ One(row.answered) \in {0, 1}
    BY PaidNumbers DEF Deals, Settlements
  <2>2. CASE unpaid = MaxRuns
    BY <2>1, <2>2
  <2>3. CASE unpaid # MaxRuns
    <3>1. runs + Cardinality(Begun) + One(Unused(row))
            <= row.attempt + unpaid + One(row.answered)
      BY <2>3 DEF Deals, Settlements, Paid
    <3> QED BY <2>1, <3>1
  <2> QED BY <2>2, <2>3
<1> QED BY <1>1, Inductive, Settled, PTL

\* resolve_delivery_question: the first answer that reaches a delivery that
\* waits for it continues it, and it does not wait for that question again.
THEOREM TheFirstAnswerCounts == Spec => []FirstAnswerGoesOn
<1>1. Deals => FirstAnswerGoesOn
  BY DEF Deals, Settlements, ReachedAnswers, WaitsForAnother, FirstAnswerGoesOn,
     Awaits
<1> QED BY <1>1, Settled, PTL

\* reconcile_linked_agent_goal_approval: a decision made before the delivery is
\* blocked for it, or while it is, comes to the row.  As long as nothing has
\* gone wrong, a delivery that nobody works for waits for a decision that the
\* user can still make.
THEOREM DecisionsAreHeard == Spec => []DecidedIsHeard
<1>1. IInv /\ Deals => DecidedIsHeard
  <2> SUFFICES ASSUME IInv, Deals, WaitsForApproval(row), NobodyWorks, trouble = 0
               PROVE  decision[row.approval] \in {"pending", "approved"}
    BY DEF DecidedIsHeard, WaitsForApproval
  <2>1. row.approval \in Approvals
    BY DEF IInv, Row, Deals, DecisionsArrive, WaitsFor
  <2>2. WaitsFor(row.approval)
    BY DEF WaitsFor
  <2>3. \A a : ~IsAt(a, {"applying"}) /\ ~IsAt(a, {"linking", "resolving"})
    BY DEF IsAt, NobodyWorks, Outside
  <2> QED BY <2>1, <2>2, <2>3 DEF Deals, DecisionsArrive
<1> QED BY <1>1, Inductive, Settled, PTL

-----------------------------------------------------------------------------
(* Who completes the row.                                                    *)

\* The step does not complete the row.
Leaving(d, e) == e.status = "completed" => d.status = "completed"

LEMMA FailLeaves ==
  ASSUME NEW d \in Row, NEW retry
  PROVE  /\ Leaving(d, FailAnyway(d, retry)) /\ Leaving(d, Fail(d, retry))
         /\ Leaving(d, FinishDrain(d, retry))
<1> DEFINE e == Settles(d, "failed")
           f == [e EXCEPT !.consume = FALSE]
           n == Untimed(Becomes(d, "failed"))
<1>1. n \in Row /\ n.status = "failed"
  BY DEF Untimed, Becomes, Row, Status
<1>2. e = IF d.advanced THEN [n EXCEPT !.advanced = FALSE]
          ELSE [n EXCEPT !.advanced = TRUE, !.wakes = @ + 1]
  BY DEF Settles
<1> HIDE DEF n
<1>3. f.status = "failed"
  BY <1>1, <1>2 DEF Row
<1>4. [Untimed(Becomes(d, "retrying")) EXCEPT !.consume = TRUE,
                                              !.advanced = FALSE].status
        = "retrying"
  BY DEF Untimed, Becomes, Row
<1>5. FailAnyway(d, retry).status \in {d.status, "failed", "retrying"}
  BY <1>3, <1>4 DEF FailAnyway
<1> QED BY <1>5 DEF Leaving, Fail, FinishDrain

LEMMA DrainLeaves ==
  ASSUME NEW d \in Row, NEW phase
  PROVE  /\ Leaving(d, Drain(d, phase)) /\ Leaving(d, Defer(d))
         /\ Leaving(d, Watchdog(d))
BY DEF Leaving, Drain, Defer, Watchdog, Untimed, Becomes, Row

LEMMA RestartLeaves ==
  ASSUME NEW d \in Row, NEW result_, result_ # "good", NEW known,
         NEW e \in {Reconcile(d, result_), CloseOrphan(Reconcile(d, result_))}
  PROVE  Leaving(d, MissesApproval(e, known))
<1> DEFINE f == Reconcile(d, result_)
<1>1. f \in Row /\ CloseOrphan(f) \in Row
  BY SoundReconcile, SoundCloseOrphan DEF Sound
<1>2. Leaving(d, f)
  <2>1. CASE d.status = "draining"
    BY <2>1, FailLeaves DEF Reconcile
  <2>2. CASE d.status = "applying"
    <3>1. Drain(d, "apply") \in Row
      BY SoundDrain DEF Phase, Sound
    <3>2. Leaving(Drain(d, "apply"), FinishDrain(Drain(d, "apply"), FALSE))
      BY <3>1, FailLeaves
    <3>3. Leaving(d, Drain(d, "apply"))
      BY DrainLeaves
    <3> QED BY <2>2, <3>2, <3>3 DEF Reconcile, Leaving
  <2>3. CASE d.status \notin {"draining", "applying"}
    BY <2>3 DEF Reconcile, Recover, Leaving, Untimed, Becomes, Row
  <2> QED BY <2>1, <2>2, <2>3
<1> HIDE DEF f
<1>3. Leaving(f, CloseOrphan(f))
  <2>1. Watchdog(f) \in Row
    BY <1>1, SoundWatchdog DEF Sound
  <2>2. \A retry : Leaving(Watchdog(f), FinishDrain(Watchdog(f), retry))
    BY <2>1, FailLeaves
  <2>3. Leaving(f, Watchdog(f))
    BY <1>1, DrainLeaves
  <2> QED BY <2>2, <2>3 DEF CloseOrphan, Leaving
<1>4. e \in Row /\ Leaving(d, e)
  BY <1>1, <1>2, <1>3 DEF f, Leaving
<1>5. Leaving(e, MissesApproval(e, known))
  BY <1>4, FailLeaves DEF MissesApproval, Leaving
<1> QED BY <1>4, <1>5 DEF Leaving

\* Each outcome but a result or an approval leaves the row uncompleted.
LEMMA OutcomeLeaves ==
  ASSUME NEW d \in Row, NEW out \in Questions \cup (Plain \ {"done"})
  PROVE  Leaving(d, Outcome(d, out))
<1>1. \A kind, ref : Leaving(d, Block(d, kind, ref))
  BY DEF Leaving, Block, Untimed, Becomes, Row
<1>2. ASSUME NEW s \in {"denied", "parked"} PROVE Leaving(d, Settles(d, s))
  BY DEF Leaving, Settles, Untimed, Becomes, Row
<1>3. Leaving(d, Deny(d)) /\ Leaving(d, Park(d))
  BY <1>2 DEF Leaving, Deny, Park
<1> QED BY <1>1, <1>3, FailLeaves, OutcomesDiffer DEF Outcome, Plain

\* A request moves itself only.
LEMMA MovesItself ==
  ASSUME Lanes, NEW r \in Requests, Asks(r) \/ GoesOn(r) \/ Ends(r)
  PROVE  Others(r)
<1>1. CASE Leaves(r)
  BY <1>1, NewsLeaves
<1>2. CASE \E place : Goes(r, place)
  BY <1>2, NewsGoes
<1>3. CASE \E place : Enters(r, place)
  BY <1>3 DEF Enters, Lanes, Others
<1>4. CASE \E place : WorkerEnds(r, place)
  BY <1>4 DEF WorkerEnds, Lanes, Others
<1>5. CASE \E again : Raises(r, again)
  BY <1>5 DEF Raises, Lanes, Others
<1>6. CASE \E d : Delivered(r, d)
  <2>1. \/ Leaves(r) \/ \E place : WorkerEnds(r, place)
        \/ req' = [req EXCEPT ![r].at = "overdue", ![r].again = TRUE]
    BY <1>6 DEF Delivered
  <2> QED BY <1>1, <1>4, <2>1 DEF Lanes, Others
<1>7. CASE \E out \in Outcomes : Returns(r, out)
  BY <1>7 DEF Returns, Lanes, Others
<1>8. CASE TimesOut(r) \/ Cancelled(r) \/ CancelledBetween(r) \/ Resolves(r)
  BY <1>1, <1>4, <1>8
  DEF TimesOut, Cancelled, CancelledBetween, Resolves, Lanes, Others
<1>9. CASE Asks(r)
  BY <1>2, <1>9
  DEF Asks, Lists, Wakes, NotDue, WakeBreaks, WakeTimesOut, Vanishes, Executes,
      AlreadyRuns, HandsBack, NoRoom
<1>10. CASE GoesOn(r)
  BY <1>1, <1>2, <1>3, <1>8, <1>10
  DEF GoesOn, Unreachable, EntersProjectLock, Calls, EntersDelivery, Fails,
      ClosesDrain, EntersApply, CancelledInMark, Restores, Applies, ApplyFails,
      DrainEnds
<1>11. CASE Ends(r)
  BY <1>1, <1>2, <1>4, <1>5, <1>6, <1>7, <1>8, <1>11
  DEF Ends, CallRaises, PersistBreaks, ActionEnds, Begins, HasEnded,
      MayNotBegin, PersistsOutcome, PersistsBlock, PersistsResult, NotItsTurn,
      Links, Approves, ApproveFails, ResolveBreaks
<1> QED BY <1>9, <1>10, <1>11

\* What a late request can still do.
LEMMA LateSteps ==
  ASSUME Lanes, NEW r \in Requests, IsLate(r), Next, req'[r] # req[r]
  PROVE  \/ PersistsOutcome(r) \/ PersistsBlock(r) \/ PersistsResult(r)
         \/ NotItsTurn(r) \/ \E again \in BOOLEAN : PersistBreaks(r, again)
         \/ Restart
<1>1. req[r].at = "delivering" /\ req[r].care = "drain"
  BY DEF IsLate, At
<1>2. ASSUME NEW s \in Requests, Asks(s) \/ GoesOn(s) \/ Ends(s)
      PROVE  s = r
  BY <1>2, MovesItself DEF Others
<1>3. ~Asks(r)
  BY <1>1 DEF Asks, Lists, Wakes, NotDue, WakeBreaks, WakeTimesOut, Vanishes,
     Executes, AlreadyRuns, HandsBack, NoRoom, At
<1>4. ~GoesOn(r)
  BY <1>1 DEF GoesOn, Unreachable, EntersProjectLock, Calls, EntersDelivery,
     Fails, ClosesDrain, EntersApply, CancelledInMark, Restores, Applies,
     ApplyFails, TimesOut, Cancelled, CancelledBetween, DrainEnds, At, Kept,
     Between
<1>5. ASSUME Ends(r)
      PROVE  \/ PersistsOutcome(r) \/ PersistsBlock(r) \/ PersistsResult(r)
             \/ NotItsTurn(r) \/ \E again \in BOOLEAN : PersistBreaks(r, again)
  BY <1>1, <1>5 DEF Ends, Returns, CallRaises, ActionEnds, Begins, HasEnded,
     MayNotBegin, Links, Approves, ApproveFails, Resolves, ResolveBreaks, At
<1>6. ~Decides
  <2>1. ASSUME NEW s \in Requests, NEW a \in Approvals,
               UserApproves(s, a) \/ UserApprovesEarly(s, a)
        PROVE  FALSE
    <3>1. s # r
      BY <1>1, <2>1 DEF UserApproves, UserApprovesEarly, At
    <3> QED BY <2>1, <3>1 DEF UserApproves, UserApprovesEarly, Lanes
  <2>2. ~ \E a \in Approvals : Rejects(a) \/ RejectBreaks(a)
    BY DEF Rejects, RejectBreaks
  <2>3. ~ \E q \in Questions : Answers(q) \/ HandsOver(q)
    BY DEF Answers, HandsOver
  <2> QED BY <2>1, <2>2, <2>3 DEF Decides
<1>7. Host => Restart
  BY DEF Host, MonitorLinks, Retire, Recovers, FindsCorrupt, Materialize,
     WatchdogBarks, Reminds, FileSpoils
<1> QED BY <1>2, <1>3, <1>4, <1>5, <1>6, <1>7 DEF Next

\* mark_delivery_draining before the time limit is reported: what a worker
\* brings afterwards is not delivered, unless the row was completed before, by
\* the same file or another, or a lease was taken from its holder.
THEOREM LateResultsComeToNothing == Spec => LateResultStaysOut
<1> DEFINE Step ==
      \A r \in Requests :
        /\ At(r, "delivering") /\ req[r].care = "drain"
        /\ req'[r] # req[r] /\ row'.status = "completed"
        => row.status = "completed" \/ result = "good" \/ loose
<1>1. ASSUME IInv, Deals, [Next]_vars
      PROVE  Step \/ UNCHANGED vars
  <2> SUFFICES ASSUME Next, NEW r \in Requests,
                      At(r, "delivering"), req[r].care = "drain",
                      req'[r] # req[r], row'.status = "completed",
                      row.status # "completed", result # "good", ~loose
               PROVE  FALSE
    BY <1>1
  <2>1. IsLate(r) /\ Lanes /\ row \in Row /\ req[r].at = "delivering"
    BY <1>1 DEF IsLate, IInv, At
  <2>2. row.status # "running"
    BY <1>1, <2>1 DEF Deals, Settlements, LateFindNothing
  <2>3. Recover(row, result) = row
    BY DEF Recover
  <2>4. CASE PersistsOutcome(r)
    <3>1. Leaving(row, row')
      BY <2>1, <2>4, OutcomeLeaves DEF PersistsOutcome, Delivered
    <3> QED BY <3>1 DEF Leaving
  <2>5. CASE PersistsBlock(r)
    <3>1. row'.status \in {row.status, "blocked"}
      BY <2>1, <2>5 DEF PersistsBlock, Block, Untimed, Becomes, Row
    <3> QED BY <3>1
  <2>6. CASE PersistsResult(r)
    BY <2>2, <2>3, <2>6 DEF PersistsResult, Accepts, Delivered
  <2>7. CASE NotItsTurn(r) \/ \E again \in BOOLEAN : PersistBreaks(r, again)
    BY <2>7 DEF NotItsTurn, PersistBreaks
  <2>8. CASE Restart
    <3>1. PICK kept \in SUBSET Approvals,
              e \in {Reconcile(row, result),
                     CloseOrphan(Reconcile(row, result))} :
            row' = MissesApproval(e, kept)
      BY <2>8 DEF Restart
    <3>2. Leaving(row, row')
      BY <2>1, <3>1, RestartLeaves
    <3> QED BY <3>2 DEF Leaving
  <2> QED BY <2>1, <2>4, <2>5, <2>6, <2>7, <2>8, LateSteps
<1>2. IInv /\ Deals /\ [Next]_vars => [Step]_vars
  BY <1>1
<1> QED BY <1>2, Inductive, Settled, PTL DEF Spec, LateResultStaysOut
===============================================================================
