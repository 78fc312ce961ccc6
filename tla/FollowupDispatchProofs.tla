----------------------- MODULE FollowupDispatchProofs -----------------------
(* For any sessions, requests and bounds: no input and no session is run     *)
(* twice at once, what leaves the queue has run or was taken back, and only  *)
(* an accident runs finished input again.                                    *)
EXTENDS FollowupDispatch, TLAPS

--------------------------------------------------------------------------------
(* The inductive invariant.                                                   *)

Works(w, n) == ~At(w, "idle") /\ work[w].input = n

\* A worker has an input while it is not idle, under a token of its own.
Claims ==
  /\ \A w \in Workers : At(w, "idle") \/ work[w].input \in DOMAIN line
  /\ \A w \in Workers : work[w].token <= issued
  /\ \A v, w \in Workers :
       ~At(v, "idle") /\ ~At(w, "idle") /\ work[v].token = work[w].token => v = w

\* The runtime has one turn of a session, and a worker that is with a turn is
\* the only one.
Runs ==
  /\ \A m, n \in live : m # n => line[m].session # line[n].session
  /\ \A w \in Workers : At(w, "turn") => work[w].input \in live
  /\ \A v, w \in Workers :
       At(v, "turn") /\ At(w, "turn") /\ work[v].input = work[w].input => v = w

\* What counts as ended has ended.
Endings ==
  /\ recent \cup ledger \cup fine \subseteq over
  /\ \A w \in Workers : At(w, "returned") => work[w].input \in over

\* Nothing came between the steps of the route.
Undisturbed(n) == n \notin outrun \cup torn

\* Where nothing came in between, an input is in the hands of the worker that
\* the queue knows, and leaves the queue when it has run.
Orderly(n) ==
  /\ n \notin lapsed /\ n \notin adrift
  /\ \A w \in Workers : Works(w, n) => Holds(w)
  /\ n \in fine => \/ line[n].phase = "settled"
                   \/ \E w \in Workers : Works(w, n) /\ At(w, "returned")
  /\ n \in revoked => line[n].phase = "settled"

AllOrderly == \A n \in DOMAIN line : Undisturbed(n) => Orderly(n)

IInv == TypeOK /\ Claims /\ Runs /\ Endings /\ SettledMeansRan /\ AllOrderly

--------------------------------------------------------------------------------
(* What steps do to the queue.                                                *)

\* An entry changes alone, and keeps its session and its turn.
LEMMA Changed ==
  ASSUME TypeOK, NEW n \in DOMAIN line, NEW phase \in {"waiting", "held", "settled"},
         NEW holder \in 0..MaxToken, Lane!Becomes(n, phase, holder)
  PROVE  /\ DOMAIN line' = DOMAIN line
         /\ line'[n].phase = phase /\ line'[n].holder = holder
         /\ \A m \in DOMAIN line : m # n => line'[m] = line[m]
         /\ \A m \in DOMAIN line : line'[m].session = line[m].session
         /\ line' \in [DOMAIN line -> [session : Sessions, turn : Turns,
                                       phase : {"waiting", "held", "settled"},
                                       holder : 0..MaxToken]]
  BY DEF TypeOK, Lane!Becomes

\* What is queued joins the others.
LEMMA Queued ==
  ASSUME TypeOK, NEW s \in Sessions, NEW t \in Turns, Queue(s, t)
  PROVE  \E n \in Numbers :
           /\ n \notin DOMAIN line /\ n # 0 /\ DOMAIN line' = DOMAIN line \cup {n}
           /\ line'[n].phase = "waiting" /\ \A m \in DOMAIN line : line'[m] = line[m]
           /\ line' \in [DOMAIN line' -> [session : Sessions, turn : Turns,
                                          phase : {"waiting", "held", "settled"},
                                          holder : 0..MaxToken]]
           /\ UNCHANGED <<lapsed, issued, work, runtime, history>>
  <1> DEFINE n == Cardinality(DOMAIN line) + 1
  <1>1. /\ n \in Numbers /\ Lane!Accept(s, t, n)
        /\ UNCHANGED <<lapsed, issued, work, runtime, history>>
    BY DEF Queue
  <1> HIDE DEF n
  <1>2. n \in Nat \ {0} /\ n \notin DOMAIN line /\ DOMAIN line \subseteq Nat
    BY <1>1, BoundsAreNaturals DEF Numbers, Lane!Accept, TypeOK
  <1>3. line' = [m \in DOMAIN line \cup {n} |->
                   IF m = n THEN [session |-> s, turn |-> t, phase |-> "waiting",
                                  holder |-> 0]
                   ELSE line[m]]
    BY <1>1 DEF Lane!Accept, Lane!Nobody
  <1>4. /\ DOMAIN line' = DOMAIN line \cup {n} /\ line'[n].phase = "waiting"
        /\ \A m \in DOMAIN line : line'[m] = line[m]
    BY <1>2, <1>3
  <1>5. line' \in [DOMAIN line' -> [session : Sessions, turn : Turns,
                                    phase : {"waiting", "held", "settled"},
                                    holder : 0..MaxToken]]
    BY <1>3, <1>4, BoundsAreNaturals DEF TypeOK
  <1> QED  BY <1>1, <1>2, <1>4, <1>5

\* A claim puts the input into the worker's hands, under a new token.
LEMMA Claimed ==
  ASSUME TypeOK, NEW w \in Workers, NEW n \in DOMAIN line, Claim(w, n)
  PROVE  /\ DOMAIN line' = DOMAIN line /\ At(w, "idle") /\ line[n].phase # "settled"
         /\ line[n].phase = "held" => n \in lapsed
         /\ issued' = issued + 1 /\ issued' \in 0..MaxToken /\ issued \in Nat
         /\ line'[n].phase = "held" /\ line'[n].holder = issued + 1
         /\ \A m \in DOMAIN line : m # n => line'[m] = line[m]
         /\ \A m \in DOMAIN line : line'[m].session = line[m].session
         /\ line' \in [DOMAIN line -> [session : Sessions, turn : Turns,
                                       phase : {"waiting", "held", "settled"},
                                       holder : 0..MaxToken]]
         /\ work' = [work EXCEPT ![w] = [at |-> "claimed", input |-> n,
                                         token |-> issued + 1]]
         /\ lapsed' = lapsed \ {n} /\ UNCHANGED <<runtime, history>>
  <1>1. issued \in Nat /\ issued + 1 \in 0..MaxToken
    BY BoundsAreNaturals DEF Claim, TypeOK
  <1>2. Lane!Becomes(n, "held", issued + 1) /\ line[n].phase # "settled"
    BY DEF Claim, Lane!Hand, Lane!IsNext, Lane!Open
  <1> QED  BY <1>1, <1>2, Changed DEF Claim

\* What an answer of the queue does: the entry of a good claim changes, and the
\* worker is done.
LEMMA Answered ==
  ASSUME TypeOK, Claims, NEW w \in Workers, Ack(w) \/ Release(w)
  PROVE  /\ DOMAIN line' = DOMAIN line /\ ~At(w, "idle") /\ work[w].input \in DOMAIN line
         /\ \A m \in DOMAIN line : m # work[w].input => line'[m] = line[m]
         /\ \A m \in DOMAIN line : line'[m].session = line[m].session
         /\ line' \in [DOMAIN line -> [session : Sessions, turn : Turns,
                                       phase : {"waiting", "held", "settled"},
                                       holder : 0..MaxToken]]
         /\ Holds(w) => /\ lapsed' = lapsed \ {work[w].input}
                        /\ line'[work[w].input].phase =
                             IF IsOver(w) THEN "settled" ELSE "waiting"
         /\ ~Holds(w) => UNCHANGED <<line, lapsed>>
         /\ IsOver(w) \/ At(w, "refused")
         /\ work' = [work EXCEPT ![w] = Idle]
         /\ UNCHANGED <<issued, runtime, history>>
  <1> DEFINE n == work[w].input
  <1>1. ~At(w, "idle") /\ n \in DOMAIN line /\ (At(w, "refused") => ~IsOver(w))
    BY DEF Ack, Release, IsOver, IsRefused, At, Claims
  <1>2. /\ IsOver(w) \/ At(w, "refused")
        /\ UNCHANGED <<issued, runtime, history>>
        /\ ~Holds(w) => UNCHANGED <<line, lapsed>>
    BY DEF Ack, Release, Answers, Rests, IsRefused
  <1>3. work' = [work EXCEPT ![w] = Idle]
    BY DEF Ack, Release, Answers, Rests
  <1>4. CASE ~Holds(w)
    <2>1. line' = line
      BY <1>4 DEF Ack, Release, Answers
    <2> QED  BY <1>1, <1>2, <1>3, <1>4, <2>1 DEF TypeOK
  <1>5. CASE Holds(w)
    <2>1. /\ lapsed' = lapsed \ {n}
          /\ IsOver(w) => Lane!Becomes(n, "settled", 0)
          /\ ~IsOver(w) => Lane!Becomes(n, "waiting", 0)
      BY <1>1, <1>5 DEF Ack, Release, Answers, Unlapsed, IsRefused, Lane!Settle,
         Lane!GiveBack, Lane!Nobody
    <2>2. 0 \in 0..MaxToken
      BY BoundsAreNaturals
    <2> QED  BY <1>1, <1>2, <1>3, <1>5, <2>1, <2>2, Changed
  <1> QED  BY <1>4, <1>5

\* A user takes back what nobody has.
LEMMA TakenBack ==
  ASSUME TypeOK, NEW n \in DOMAIN line, UserCancels(n)
  PROVE  /\ DOMAIN line' = DOMAIN line
         /\ line[n].phase = "waiting" /\ line'[n].phase = "settled"
         /\ \A m \in DOMAIN line : m # n => line'[m] = line[m]
         /\ \A m \in DOMAIN line : line'[m].session = line[m].session
         /\ line' \in [DOMAIN line -> [session : Sessions, turn : Turns,
                                       phase : {"waiting", "held", "settled"},
                                       holder : 0..MaxToken]]
         /\ revoked' = revoked \cup {n}
         /\ UNCHANGED <<lapsed, issued, work, runtime, over, fine, outrun, torn>>
  <1>1. Lane!Becomes(n, "settled", 0) /\ 0 \in 0..MaxToken
    BY BoundsAreNaturals DEF UserCancels, Lane!Settle, Lane!Nobody
  <1> QED  BY <1>1, Changed DEF UserCancels, IsUnheld

--------------------------------------------------------------------------------
(* Types and claims.                                                          *)

\* The sets of inputs, one by one.
LEMMA InputSets ==
  ASSUME TypeOK
  PROVE  /\ adrift \subseteq DOMAIN line /\ live \subseteq DOMAIN line
         /\ recent \subseteq DOMAIN line /\ ledger \subseteq DOMAIN line
         /\ over \subseteq DOMAIN line /\ fine \subseteq DOMAIN line
         /\ outrun \subseteq DOMAIN line /\ torn \subseteq DOMAIN line
         /\ revoked \subseteq DOMAIN line
  BY DEF TypeOK

\* The types of the inputs' sets from those of each.
LEMMA SetsOfInputs ==
  ASSUME NEW S, adrift \subseteq S, live \subseteq S, recent \subseteq S,
         ledger \subseteq S, over \subseteq S, fine \subseteq S, outrun \subseteq S,
         torn \subseteq S, revoked \subseteq S
  PROVE  \A set \in {adrift, live, recent, ledger, over, fine, outrun, torn, revoked} :
           set \subseteq S
  OBVIOUS

\* The steps of the runtime and of the route that leave the queue alone.
RouteStep ==
  \/ \E w \in Workers : \/ Admit(w) \/ Refuse(w) \/ FailsEarly(w)
                        \/ TurnReturns(w) \/ TurnRaises(w) \/ Abandon(w)
                        \/ LeaveClaimed(w) \/ SettleFails(w)
  \/ \E n \in live : TurnEndsAlone(n)
  \/ \E n \in adrift : AdmitAlone(n) \/ RefuseAlone(n)
  \/ Crash

\* A worker that goes on keeps its input and its token.
LEMMA GoesOn ==
  ASSUME TypeOK, NEW w \in Workers, NEW place \in Place, Moves(w, place)
  PROVE  /\ work' \in [Workers -> [at : Place, input : {0} \cup DOMAIN line,
                                   token : 0..MaxToken]]
         /\ \A v \in Workers : v # w => work'[v] = work[v]
         /\ work'[w].at = place /\ work'[w].input = work[w].input
         /\ work'[w].token = work[w].token
  BY DEF TypeOK, Moves

\* A worker that is done is idle.
LEMMA IsDone ==
  ASSUME TypeOK, NEW w \in Workers, Rests(w)
  PROVE  /\ work' \in [Workers -> [at : Place, input : {0} \cup DOMAIN line,
                                   token : 0..MaxToken]]
         /\ \A v \in Workers : v # w => work'[v] = work[v]
         /\ work'[w] = Idle
  <1>1. Idle \in [at : Place, input : {0} \cup DOMAIN line, token : 0..MaxToken]
    BY BoundsAreNaturals DEF Idle, Place
  <1> QED  BY <1>1 DEF TypeOK, Rests

\* They leave it alone, and a worker keeps its input or rests.
LEMMA RouteSteps ==
  ASSUME TypeOK, Claims, RouteStep
  PROVE  /\ UNCHANGED <<line, lapsed, issued, outrun, revoked>>
         /\ work' \in [Workers -> [at : Place, input : {0} \cup DOMAIN line,
                                   token : 0..MaxToken]]
         /\ \A v \in Workers :
              \/ work'[v] = work[v] \/ work'[v] = Idle
              \/ /\ ~At(v, "idle") /\ work'[v].input = work[v].input
                 /\ work'[v].token = work[v].token
         /\ torn \subseteq torn'
  <1>1. UNCHANGED <<line, lapsed, issued, outrun, revoked>> /\ torn \subseteq torn'
    BY DEF RouteStep, Admit, Refuse, FailsEarly, TurnReturns, TurnRaises, Abandon,
       LeaveClaimed, SettleFails, TurnEndsAlone, AdmitAlone, RefuseAlone, Crash,
       Begins, Ends, runtime, history
  <1>2. ASSUME NEW w \in Workers, Admit(w) \/ Refuse(w) \/ FailsEarly(w)
                  \/ TurnReturns(w) \/ TurnRaises(w) \/ Abandon(w)
        PROVE  ~At(w, "idle") /\ \E place \in Place : Moves(w, place)
    BY <1>2 DEF Admit, Refuse, FailsEarly, TurnReturns, TurnRaises, Abandon, At, Place
  <1>3. ASSUME NEW w \in Workers, LeaveClaimed(w) \/ SettleFails(w)
        PROVE  Rests(w)
    BY <1>3 DEF LeaveClaimed, SettleFails
  <1>4. CASE Crash
    <2>1. Idle \in [at : Place, input : {0} \cup DOMAIN line, token : 0..MaxToken]
      BY BoundsAreNaturals DEF Idle, Place
    <2> QED  BY <1>1, <1>4, <2>1 DEF Crash
  <1>5. CASE UNCHANGED work
    BY <1>1, <1>5 DEF TypeOK
  <1>6. ASSUME NEW n, TurnEndsAlone(n) \/ AdmitAlone(n) \/ RefuseAlone(n)
        PROVE  UNCHANGED work
    BY <1>6 DEF TurnEndsAlone, AdmitAlone, RefuseAlone
  <1>7. ASSUME NEW w \in Workers, NEW place \in Place, Moves(w, place), ~At(w, "idle")
        PROVE  /\ work' \in [Workers -> [at : Place, input : {0} \cup DOMAIN line,
                                         token : 0..MaxToken]]
               /\ \A v \in Workers :
                    \/ work'[v] = work[v]
                    \/ /\ ~At(v, "idle") /\ work'[v].input = work[v].input
                       /\ work'[v].token = work[v].token
    BY <1>7, GoesOn
  <1>8. ASSUME NEW w \in Workers, Rests(w)
        PROVE  /\ work' \in [Workers -> [at : Place, input : {0} \cup DOMAIN line,
                                         token : 0..MaxToken]]
               /\ \A v \in Workers : work'[v] = work[v] \/ work'[v] = Idle
    BY <1>8, IsDone
  <1> QED
    BY <1>1, <1>2, <1>3, <1>4, <1>5, <1>6, <1>7, <1>8 DEF RouteStep

\* The inputs' sets after such a step.
LEMMA RouteSets ==
  ASSUME TypeOK, Claims, RouteStep
  PROVE  /\ adrift' \subseteq DOMAIN line /\ live' \subseteq DOMAIN line
         /\ recent' \subseteq DOMAIN line /\ ledger' \subseteq DOMAIN line
         /\ over' \subseteq DOMAIN line /\ fine' \subseteq DOMAIN line
         /\ torn' \subseteq DOMAIN line
  <1> USE InputSets DEF runtime, history, Begins, Ends
  <1>1. ASSUME NEW w \in Workers, ~At(w, "idle") PROVE work[w].input \in DOMAIN line
    BY <1>1 DEF Claims
  <1>2. ASSUME NEW w \in Workers, Admit(w) \/ Refuse(w) \/ FailsEarly(w)
        PROVE  /\ adrift' = adrift /\ live' \subseteq live \cup {work[w].input}
               /\ ledger' \subseteq ledger /\ ~At(w, "idle")
               /\ UNCHANGED <<recent, over, fine, torn>>
    BY <1>2 DEF Admit, Refuse, FailsEarly, At
  <1>3. ASSUME NEW w \in Workers, TurnReturns(w) \/ TurnRaises(w)
        PROVE  /\ adrift' = adrift /\ live' \subseteq live /\ ~At(w, "idle")
               /\ recent' \subseteq recent \cup {work[w].input}
               /\ ledger' \subseteq ledger \cup {work[w].input}
               /\ over' = over \cup {work[w].input} /\ torn' = torn
               /\ fine' \subseteq fine \cup {work[w].input}
    BY <1>3 DEF TurnReturns, TurnRaises, At
  <1>4. ASSUME NEW w \in Workers, Abandon(w) \/ LeaveClaimed(w) \/ SettleFails(w)
        PROVE  /\ adrift' \subseteq adrift \cup {work[w].input} /\ ~At(w, "idle")
               /\ torn' \subseteq torn \cup {work[w].input}
               /\ UNCHANGED <<live, recent, ledger, over, fine>>
    BY <1>4 DEF Abandon, LeaveClaimed, SettleFails, At
  <1>5. ASSUME NEW n \in live, TurnEndsAlone(n)
        PROVE  /\ adrift' = adrift /\ live' \subseteq live
               /\ recent' \subseteq recent \cup {n} /\ ledger' \subseteq ledger \cup {n}
               /\ over' = over \cup {n} /\ UNCHANGED <<torn, fine>>
    BY <1>5 DEF TurnEndsAlone
  <1>6. ASSUME NEW n \in adrift, AdmitAlone(n) \/ RefuseAlone(n)
        PROVE  /\ adrift' \subseteq adrift /\ live' \subseteq live \cup {n}
               /\ ledger' \subseteq ledger /\ UNCHANGED <<recent, over, fine, torn>>
    BY <1>6 DEF AdmitAlone, RefuseAlone
  <1>7. CASE Crash
    <2>1. {work[w].input : w \in {v \in Workers : ~At(v, "idle")}} \subseteq DOMAIN line
      BY <1>1
    <2> QED  BY <1>7, <2>1 DEF Crash
  <1> QED
    BY <1>1, <1>2, <1>3, <1>4, <1>5, <1>6, <1>7 DEF RouteStep

\* The steps of the queue itself.
QueueStep ==
  \/ \E s \in Sessions, t \in Turns : Queue(s, t)
  \/ \E n \in DOMAIN line : UserCancels(n) \/ LeaseRunsOut(n)
  \/ \E w \in Workers, n \in DOMAIN line : Claim(w, n)
  \/ \E w \in Workers : Ack(w) \/ Release(w)

\* There are no others.
LEMMA StepsAre == ASSUME [Next]_vars PROVE QueueStep \/ RouteStep \/ UNCHANGED vars
  BY DEF Next, QueueStep, RouteStep

\* Every step stays in the types.
LEMMA TypesKept == ASSUME TypeOK, Claims, [Next]_vars PROVE TypeOK'
  <1>1. CASE RouteStep
    <2>1. /\ UNCHANGED <<line, lapsed, issued, outrun, revoked>>
          /\ work' \in [Workers -> [at : Place, input : {0} \cup DOMAIN line,
                                    token : 0..MaxToken]]
      BY <1>1, RouteSteps
    <2>2. \A set \in {adrift', live', recent', ledger', over', fine', outrun, torn',
                      revoked} : set \subseteq DOMAIN line
      BY <1>1, RouteSets, InputSets, SetsOfInputs
    <2> QED  BY <2>1, <2>2 DEF TypeOK
  <1>2. ASSUME NEW s \in Sessions, NEW t \in Turns, Queue(s, t) PROVE TypeOK'
    <2>1. PICK n \in Numbers :
            /\ n \notin DOMAIN line /\ DOMAIN line' = DOMAIN line \cup {n}
            /\ \A m \in DOMAIN line : line'[m] = line[m]
            /\ line' \in [DOMAIN line' -> [session : Sessions, turn : Turns,
                                           phase : {"waiting", "held", "settled"},
                                           holder : 0..MaxToken]]
            /\ UNCHANGED <<lapsed, issued, work, runtime, history>>
      BY <1>2, Queued
    <2>2. UNCHANGED <<adrift, live, recent, ledger, over, fine, outrun, torn, revoked>>
      BY <2>1 DEF runtime, history
    <2>3. \A set \in {adrift, live, recent, ledger, over, fine, outrun, torn,
                      revoked}' : set \subseteq DOMAIN line'
      BY <2>1, <2>2, InputSets, SetsOfInputs
    <2>4. work' \in [Workers -> [at : Place, input : {0} \cup DOMAIN line',
                                 token : 0..MaxToken]]
      BY <2>1 DEF TypeOK
    <2>5. lapsed' \subseteq {m \in DOMAIN line' : line'[m].phase = "held"}
      BY <2>1 DEF TypeOK
    <2> QED  BY <2>1, <2>3, <2>4, <2>5 DEF TypeOK
  <1>3. ASSUME NEW n \in DOMAIN line, UserCancels(n) PROVE TypeOK'
    <2>1. UNCHANGED <<adrift, live, recent, ledger, over, fine, outrun, torn>>
      BY <1>3, TakenBack DEF runtime
    <2>2. \A set \in {adrift, live, recent, ledger, over, fine, outrun, torn,
                      revoked}' : set \subseteq DOMAIN line
      BY <1>3, <2>1, TakenBack, InputSets, SetsOfInputs
    <2> QED  BY <1>3, <2>2, TakenBack DEF TypeOK
  <1>4. ASSUME NEW n \in DOMAIN line, LeaseRunsOut(n) PROVE TypeOK'
    <2>1. UNCHANGED <<line, issued, work, adrift, live, recent, ledger, over, fine,
                      torn, revoked>>
      BY <1>4 DEF LeaseRunsOut, runtime
    <2>2. \A set \in {adrift, live, recent, ledger, over, fine, outrun, torn,
                      revoked}' : set \subseteq DOMAIN line
      BY <1>4, <2>1, InputSets, SetsOfInputs DEF LeaseRunsOut
    <2> QED  BY <1>4, <2>1, <2>2 DEF TypeOK, LeaseRunsOut
  <1>5. ASSUME NEW w \in Workers, NEW n \in DOMAIN line, Claim(w, n) PROVE TypeOK'
    <2>1. UNCHANGED <<adrift, live, recent, ledger, over, fine, outrun, torn, revoked>>
      BY <1>5, Claimed DEF runtime, history
    <2>2. \A set \in {adrift, live, recent, ledger, over, fine, outrun, torn,
                      revoked}' : set \subseteq DOMAIN line
      BY <2>1, InputSets, SetsOfInputs
    <2>3. work' \in [Workers -> [at : Place, input : {0} \cup DOMAIN line,
                                 token : 0..MaxToken]]
      BY <1>5, Claimed DEF TypeOK, Place
    <2>4. lapsed' \subseteq {m \in DOMAIN line : line'[m].phase = "held"}
      BY <1>5, Claimed DEF TypeOK
    <2> QED  BY <1>5, <2>2, <2>3, <2>4, Claimed DEF TypeOK
  <1>6. ASSUME NEW w \in Workers, Ack(w) \/ Release(w) PROVE TypeOK'
    <2>1. UNCHANGED <<adrift, live, recent, ledger, over, fine, outrun, torn, revoked>>
      BY <1>6, Answered DEF runtime, history
    <2>2. \A set \in {adrift, live, recent, ledger, over, fine, outrun, torn,
                      revoked}' : set \subseteq DOMAIN line
      BY <2>1, InputSets, SetsOfInputs
    <2>3. work' \in [Workers -> [at : Place, input : {0} \cup DOMAIN line,
                                 token : 0..MaxToken]]
      BY <1>6, Answered, IsDone DEF Rests
    <2>4. lapsed' \subseteq {m \in DOMAIN line : line'[m].phase = "held"}
      BY <1>6, Answered DEF TypeOK
    <2> QED  BY <1>6, <2>2, <2>3, <2>4, Answered DEF TypeOK
  <1>7. CASE UNCHANGED vars
    BY <1>7 DEF vars, runtime, history, TypeOK
  <1> QED
    BY <1>1, <1>2, <1>3, <1>4, <1>5, <1>6, <1>7, StepsAre DEF QueueStep

\* Tokens are drawn once, and a worker keeps its own.
LEMMA ClaimsKept == ASSUME TypeOK, Claims, [Next]_vars PROVE Claims'
  <1> USE DEF Claims, At, Idle
  <1>1. /\ issued \in Nat /\ \A w \in Workers : work[w].token \in Nat
        /\ work \in [Workers -> [at : Place, input : {0} \cup DOMAIN line,
                                 token : 0..MaxToken]]
    BY BoundsAreNaturals DEF TypeOK
  <1>2. CASE RouteStep
    BY <1>1, <1>2, RouteSteps
  <1>3. ASSUME NEW s \in Sessions, NEW t \in Turns, Queue(s, t) PROVE Claims'
    <2>1. DOMAIN line \subseteq DOMAIN line' /\ UNCHANGED <<issued, work>>
      BY <1>3, Queued
    <2> QED  BY <2>1
  <1>4. ASSUME NEW n \in DOMAIN line, UserCancels(n) \/ LeaseRunsOut(n) PROVE Claims'
    <2>1. DOMAIN line' = DOMAIN line /\ UNCHANGED <<issued, work>>
      BY <1>4, TakenBack DEF LeaseRunsOut
    <2> QED  BY <2>1
  <1>5. ASSUME NEW w \in Workers, NEW n \in DOMAIN line, Claim(w, n) PROVE Claims'
    <2>1. /\ DOMAIN line' = DOMAIN line /\ issued' = issued + 1
          /\ work'[w] = [at |-> "claimed", input |-> n, token |-> issued + 1]
          /\ \A v \in Workers : v # w => work'[v] = work[v]
      BY <1>1, <1>5, Claimed
    <2> QED  BY <1>1, <2>1
  <1>6. ASSUME NEW w \in Workers, Ack(w) \/ Release(w) PROVE Claims'
    <2>1. /\ DOMAIN line' = DOMAIN line /\ issued' = issued /\ work'[w] = Idle
          /\ \A v \in Workers : v # w => work'[v] = work[v]
      BY <1>1, <1>6, Answered
    <2> QED  BY <1>1, <2>1
  <1>7. CASE UNCHANGED vars
    BY <1>7 DEF vars
  <1> QED
    BY <1>2, <1>3, <1>4, <1>5, <1>6, <1>7, StepsAre DEF QueueStep

--------------------------------------------------------------------------------
(* Turns and their ends.                                                      *)

\* The queue's steps leave the runtime alone and what is settled settled.
LEMMA QueueSteps ==
  ASSUME TypeOK, Claims, QueueStep
  PROVE  /\ UNCHANGED <<runtime, over, fine, torn>>
         /\ outrun \subseteq outrun' /\ revoked \subseteq revoked'
         /\ DOMAIN line \subseteq DOMAIN line'
         /\ \A m \in DOMAIN line :
              /\ line'[m].session = line[m].session
              /\ line[m].phase = "settled" => line'[m].phase = "settled"
         /\ \A v \in Workers :
              work'[v] = work[v] \/ work'[v] = Idle \/ work'[v].at = "claimed"
  <1> DEFINE Stays ==
        \A m \in DOMAIN line :
          /\ line'[m].session = line[m].session
          /\ line[m].phase = "settled" => line'[m].phase = "settled"
  <1> USE DEF history
  <1>1. ASSUME NEW s \in Sessions, NEW t \in Turns, Queue(s, t)
        PROVE  /\ Stays /\ DOMAIN line \subseteq DOMAIN line'
               /\ UNCHANGED <<runtime, work, history>>
    BY <1>1, Queued
  <1>2. ASSUME NEW n \in DOMAIN line, UserCancels(n) \/ LeaseRunsOut(n)
        PROVE  /\ Stays /\ DOMAIN line \subseteq DOMAIN line'
               /\ UNCHANGED <<runtime, work, over, fine, torn>>
               /\ outrun \subseteq outrun' /\ revoked \subseteq revoked'
    BY <1>2, TakenBack DEF LeaseRunsOut
  <1>3. ASSUME NEW w \in Workers, NEW n \in DOMAIN line, Claim(w, n)
        PROVE  /\ Stays /\ DOMAIN line' = DOMAIN line /\ UNCHANGED <<runtime, history>>
               /\ work'[w].at = "claimed"
               /\ \A v \in Workers : v # w => work'[v] = work[v]
    BY <1>3, Claimed DEF TypeOK
  <1>4. ASSUME NEW w \in Workers, Ack(w) \/ Release(w)
        PROVE  /\ Stays /\ DOMAIN line' = DOMAIN line /\ UNCHANGED <<runtime, history>>
               /\ work'[w] = Idle /\ \A v \in Workers : v # w => work'[v] = work[v]
    <2>1. Stays
      BY <1>4, Answered DEF Holds
    <2> QED  BY <1>4, <2>1, Answered DEF TypeOK
  <1> HIDE DEF Stays
  <1>5. /\ Stays /\ DOMAIN line \subseteq DOMAIN line'
        /\ UNCHANGED <<runtime, over, fine, torn>>
        /\ outrun \subseteq outrun' /\ revoked \subseteq revoked'
    BY <1>1, <1>2, <1>3, <1>4 DEF QueueStep
  <1>6. \A v \in Workers :
          work'[v] = work[v] \/ work'[v] = Idle \/ work'[v].at = "claimed"
    BY <1>1, <1>2, <1>3, <1>4 DEF QueueStep
  <1> QED  BY <1>5, <1>6 DEF Stays

\* A turn begins where none of its session runs.
LEMMA Begun ==
  ASSUME NEW n, Begins(n)
  PROVE  /\ live' = live \cup {n} /\ line' = line
         /\ \A m \in live : line[m].session # line[n].session
  BY DEF Begins, Free

\* One turn of a session, with one worker.
LEMMA RunsKept == ASSUME TypeOK, Claims, Runs, [Next]_vars PROVE Runs'
  <1> USE DEF Runs, At
  <1>1. CASE QueueStep
    <2>1. /\ live' = live /\ live \subseteq DOMAIN line
          /\ \A m \in DOMAIN line : line'[m].session = line[m].session
          /\ \A v \in Workers :
               work'[v] = work[v] \/ work'[v] = Idle \/ work'[v].at = "claimed"
      BY <1>1, QueueSteps, InputSets DEF runtime
    <2> QED  BY <2>1 DEF Idle
  <1>2. ASSUME NEW w \in Workers, Admit(w) PROVE Runs'
    <2>1. /\ live' = live \cup {work[w].input} /\ line' = line
          /\ \A m \in live : line[m].session # line[work[w].input].session
      BY <1>2, Begun DEF Admit
    <2>2. /\ \A v \in Workers : v # w => work'[v] = work[v]
          /\ work'[w].input = work[w].input
      BY <1>2, GoesOn DEF Admit, Place
    <2> QED  BY <2>1, <2>2
  <1>3. ASSUME NEW w \in Workers, NEW place \in Place \ {"turn"}, Moves(w, place),
               line' = line, live' = live \/ (At(w, "turn") /\ live' = live \ {work[w].input})
        PROVE  Runs'
    BY <1>3, GoesOn
  <1>4. ASSUME NEW w \in Workers, Refuse(w) \/ FailsEarly(w) \/ TurnReturns(w)
                                    \/ TurnRaises(w) \/ Abandon(w)
        PROVE  Runs'
    BY <1>3, <1>4 DEF Refuse, FailsEarly, TurnReturns, TurnRaises, Abandon, Ends,
       runtime, Place
  <1>5. ASSUME NEW w \in Workers, LeaveClaimed(w) \/ SettleFails(w) PROVE Runs'
    <2>1. line' = line /\ live' = live /\ Rests(w)
      BY <1>5 DEF LeaveClaimed, SettleFails, runtime
    <2> QED  BY <2>1, IsDone DEF Idle
  <1>6. ASSUME NEW n \in live, TurnEndsAlone(n) PROVE Runs'
    BY <1>6 DEF TurnEndsAlone, Ends
  <1>7. ASSUME NEW n \in adrift, AdmitAlone(n) PROVE Runs'
    BY <1>7, Begun DEF AdmitAlone
  <1>8. ASSUME NEW n \in adrift, RefuseAlone(n) PROVE Runs'
    BY <1>8 DEF RefuseAlone
  <1>9. CASE Crash
    BY <1>9 DEF Crash, Idle
  <1>10. CASE UNCHANGED vars
    BY <1>10 DEF vars, runtime
  <1> QED
    BY <1>1, <1>2, <1>4, <1>5, <1>6, <1>7, <1>8, <1>9, <1>10, StepsAre DEF RouteStep

\* What is known to have ended has ended.
LEMMA EndingsKept == ASSUME TypeOK, Claims, Endings, [Next]_vars PROVE Endings'
  <1> USE DEF Endings, At
  <1>1. CASE QueueStep
    <2>1. /\ UNCHANGED <<recent, ledger, over, fine>>
          /\ \A v \in Workers :
               work'[v] = work[v] \/ work'[v] = Idle \/ work'[v].at = "claimed"
      BY <1>1, QueueSteps DEF runtime
    <2> QED  BY <2>1 DEF Idle
  <1>2. ASSUME NEW w \in Workers, NEW place \in Place, Moves(w, place),
               place = "returned" => work[w].input \in over',
               over \subseteq over', (recent \cup ledger \cup fine)' \subseteq over'
        PROVE  Endings'
    BY <1>2, GoesOn
  <1>3. ASSUME NEW w \in Workers, Admit(w) \/ Refuse(w) \/ FailsEarly(w) \/ Abandon(w)
        PROVE  Endings'
    BY <1>2, <1>3 DEF Admit, Refuse, FailsEarly, Abandon, Begins, runtime, history, Place
  <1>4. ASSUME NEW w \in Workers, TurnReturns(w) \/ TurnRaises(w) PROVE Endings'
    BY <1>2, <1>4 DEF TurnReturns, TurnRaises, Ends, Place
  <1>5. ASSUME NEW w \in Workers, LeaveClaimed(w) \/ SettleFails(w) PROVE Endings'
    <2>1. UNCHANGED <<recent, ledger, over, fine>> /\ Rests(w)
      BY <1>5 DEF LeaveClaimed, SettleFails, runtime, history
    <2> QED  BY <2>1, IsDone DEF Idle
  <1>6. ASSUME NEW n \in live, TurnEndsAlone(n) PROVE Endings'
    BY <1>6 DEF TurnEndsAlone, Ends
  <1>7. ASSUME NEW n \in adrift, AdmitAlone(n) \/ RefuseAlone(n) PROVE Endings'
    BY <1>7 DEF AdmitAlone, RefuseAlone, Begins, history
  <1>8. CASE Crash
    BY <1>8 DEF Crash, Idle
  <1>9. CASE UNCHANGED vars
    BY <1>9 DEF vars, runtime, history
  <1> QED
    BY <1>1, <1>3, <1>4, <1>5, <1>6, <1>7, <1>8, <1>9, StepsAre DEF RouteStep

\* Input is settled when it has run or is taken back.
LEMMA SettledMeansRanKept ==
  ASSUME TypeOK, Claims, Endings, SettledMeansRan, [Next]_vars
  PROVE  SettledMeansRan'
  <1> USE DEF SettledMeansRan
  <1>1. CASE RouteStep
    <2>1. UNCHANGED <<line, revoked>>
      BY <1>1, RouteSteps
    <2>2. over \subseteq over'
      BY <1>1 DEF RouteStep, Admit, Refuse, FailsEarly, TurnReturns, TurnRaises,
         Abandon, LeaveClaimed, SettleFails, TurnEndsAlone, AdmitAlone, RefuseAlone,
         Crash, Begins, Ends, history
    <2> QED  BY <2>1, <2>2
  <1>2. ASSUME NEW s \in Sessions, NEW t \in Turns, Queue(s, t) PROVE SettledMeansRan'
    BY <1>2, Queued DEF history
  <1>3. ASSUME NEW n \in DOMAIN line, UserCancels(n) PROVE SettledMeansRan'
    BY <1>3, TakenBack
  <1>4. ASSUME NEW n \in DOMAIN line, LeaseRunsOut(n) PROVE SettledMeansRan'
    BY <1>4 DEF LeaseRunsOut
  <1>5. ASSUME NEW w \in Workers, NEW n \in DOMAIN line, Claim(w, n)
        PROVE  SettledMeansRan'
    BY <1>5, Claimed DEF history
  <1>6. ASSUME NEW w \in Workers, Ack(w) \/ Release(w) PROVE SettledMeansRan'
    <2>1. IsOver(w) => work[w].input \in over
      BY DEF IsOver, Ended, Endings
    <2>2. \A m \in DOMAIN line : line'[m].phase = "settled" =>
            line[m].phase = "settled" \/ (m = work[w].input /\ IsOver(w))
      BY <1>6, Answered
    <2>3. DOMAIN line' = DOMAIN line /\ UNCHANGED <<over, revoked>>
      BY <1>6, Answered DEF history
    <2> QED  BY <2>1, <2>2, <2>3
  <1>7. CASE UNCHANGED vars
    BY <1>7 DEF vars, history
  <1> QED
    BY <1>1, <1>2, <1>3, <1>4, <1>5, <1>6, <1>7, StepsAre DEF QueueStep

--------------------------------------------------------------------------------
(* Finished input.                                                            *)

\* Where nothing came in between, an input has at most one worker.
LEMMA OneWorker ==
  ASSUME Claims, NEW n, Orderly(n), NEW v \in Workers, Works(v, n),
         NEW w \in Workers, Works(w, n)
  PROVE  v = w
  BY DEF Claims, Orderly, Works, Holds

\* An input nobody has been given has no worker, where nothing came in between.
LEMMA NoWorker ==
  ASSUME NEW n, Orderly(n), line[n].phase # "held"
  PROVE  \A w \in Workers : ~Works(w, n)
  BY DEF Orderly, Works, Holds

\* The route's steps keep undisturbed input in order.
LEMMA OrderlyOnRoute ==
  ASSUME TypeOK, Claims, AllOrderly, RouteStep
  PROVE  AllOrderly'
  <1> SUFFICES ASSUME NEW n \in DOMAIN line, Undisturbed(n)' PROVE Orderly(n)'
    BY RouteSteps DEF AllOrderly
  <1>1. /\ UNCHANGED <<line, lapsed, issued, outrun, revoked>> /\ torn \subseteq torn'
        /\ \A v \in Workers :
              \/ work'[v] = work[v] \/ work'[v] = Idle
              \/ /\ ~At(v, "idle") /\ work'[v].input = work[v].input
                 /\ work'[v].token = work[v].token
    BY RouteSteps
  <1>2. Undisturbed(n) /\ Orderly(n)
    BY <1>1 DEF Undisturbed, AllOrderly
  <1>3. \A w \in Workers : Works(w, n)' => Works(w, n) /\ Holds(w)'
    BY <1>1, <1>2 DEF Orderly, Works, Holds, At, Idle
  <1>4. n \notin adrift'
    <2>1. ASSUME NEW w \in Workers, Abandon(w) PROVE adrift' \subseteq adrift \cup torn'
      BY <2>1 DEF Abandon
    <2>2. ~(\E w \in Workers : Abandon(w)) => adrift' \subseteq adrift
      BY DEF RouteStep, Admit, Refuse, FailsEarly, TurnReturns, TurnRaises,
         LeaveClaimed, SettleFails, TurnEndsAlone, AdmitAlone, RefuseAlone, Crash,
         Begins, Ends, runtime
    <2> QED  BY <1>2, <2>1, <2>2 DEF Orderly, Undisturbed
  <1>5. n \in fine' => \/ line'[n].phase = "settled"
                       \/ \E w \in Workers : Works(w, n)' /\ At(w, "returned")'
    <2>1. ASSUME NEW w \in Workers, TurnReturns(w), work[w].input = n
          PROVE  Works(w, n)' /\ At(w, "returned")'
      BY <2>1, GoesOn DEF TurnReturns, Works, At, Place
    <2>2. ASSUME NEW v \in Workers, Works(v, n), At(v, "returned")
          PROVE  work'[v] = work[v]
      <3>1. ASSUME NEW w \in Workers, LeaveClaimed(w) PROVE v # w
        BY <2>2, <3>1 DEF LeaveClaimed, At
      <3>2. ASSUME NEW w \in Workers, SettleFails(w) PROVE v # w
        BY <2>2, <3>2 DEF SettleFails, Works, Undisturbed
      <3>3. ASSUME NEW w \in Workers, Admit(w) \/ Refuse(w) \/ FailsEarly(w)
                      \/ TurnReturns(w) \/ TurnRaises(w) \/ Abandon(w)
            PROVE  v # w /\ \E place \in Place : Moves(w, place)
        BY <2>2, <3>3 DEF Admit, Refuse, FailsEarly, TurnReturns, TurnRaises,
           Abandon, At, Place
      <3>4. ~Crash
        BY <2>2 DEF Crash, Undisturbed, Works
      <3>5. ASSUME NEW m, TurnEndsAlone(m) \/ AdmitAlone(m) \/ RefuseAlone(m)
            PROVE  UNCHANGED work
        BY <3>5 DEF TurnEndsAlone, AdmitAlone, RefuseAlone
      <3> QED
        BY <3>1, <3>2, <3>3, <3>4, <3>5, GoesOn, IsDone DEF RouteStep, LeaveClaimed,
           SettleFails
    <2>3. \/ n \in fine' => n \in fine
          \/ \E w \in Workers : TurnReturns(w) /\ work[w].input = n
      BY DEF RouteStep, Admit, Refuse, FailsEarly, TurnReturns, TurnRaises, Abandon,
         LeaveClaimed, SettleFails, TurnEndsAlone, AdmitAlone, RefuseAlone, Crash,
         Begins, history
    <2> QED  BY <1>1, <1>2, <2>1, <2>2, <2>3 DEF Orderly, Works, At
  <1> QED  BY <1>1, <1>2, <1>3, <1>4, <1>5 DEF Orderly

\* So do the queue's: only an input without a worker is given out or taken back.
LEMMA OrderlyInQueue ==
  ASSUME TypeOK, Claims, AllOrderly, QueueStep
  PROVE  AllOrderly'
  <1> USE DEF AllOrderly
  <1>1. ASSUME NEW n \in DOMAIN line, Undisturbed(n)'
        PROVE  Undisturbed(n) /\ Orderly(n)
    BY <1>1, QueueSteps DEF Undisturbed
  <1>2. ASSUME NEW s \in Sessions, NEW t \in Turns, Queue(s, t) PROVE AllOrderly'
    <2>1. PICK n \in Numbers :
            /\ n \notin DOMAIN line /\ n # 0 /\ DOMAIN line' = DOMAIN line \cup {n}
            /\ \A m \in DOMAIN line : line'[m] = line[m]
            /\ UNCHANGED <<lapsed, issued, work, runtime, history>>
      BY <1>2, Queued
    <2>2. UNCHANGED <<adrift, fine, revoked, outrun, torn>>
      BY <2>1 DEF runtime, history
    <2>3. Orderly(n)'
      <3>1. n \notin lapsed /\ n \notin adrift /\ n \notin fine /\ n \notin revoked
        BY <2>1, InputSets DEF TypeOK
      <3>2. \A w \in Workers : work[w].input # n
        BY <2>1 DEF TypeOK
      <3> QED  BY <2>1, <2>2, <3>1, <3>2 DEF Orderly, Works, At
    <2>4. ASSUME NEW m \in DOMAIN line, Undisturbed(m)' PROVE Orderly(m)'
      BY <1>1, <2>1, <2>2, <2>4 DEF Orderly, Works, Holds, At
    <2> QED  BY <2>1, <2>3, <2>4
  <1>3. ASSUME NEW n \in DOMAIN line, UserCancels(n) PROVE AllOrderly'
    <2>1. /\ DOMAIN line' = DOMAIN line /\ line'[n].phase = "settled"
          /\ line[n].phase = "waiting" /\ revoked' = revoked \cup {n}
          /\ \A m \in DOMAIN line : m # n => line'[m] = line[m]
          /\ UNCHANGED <<lapsed, work, adrift, fine, outrun, torn>>
      BY <1>3, TakenBack DEF runtime
    <2>2. ASSUME NEW m \in DOMAIN line, Undisturbed(m)' PROVE Orderly(m)'
      <3>1. Orderly(m)
        BY <1>1, <2>2
      <3>2. CASE m = n
        BY <2>1, <3>1, <3>2, NoWorker DEF Orderly, Works, At
      <3>3. CASE m # n
        BY <2>1, <3>1, <3>3 DEF Orderly, Works, Holds, At
      <3> QED  BY <3>2, <3>3
    <2> QED  BY <2>1, <2>2
  <1>4. ASSUME NEW n \in DOMAIN line, LeaseRunsOut(n) PROVE AllOrderly'
    <2>1. /\ lapsed' = lapsed \cup {n} /\ outrun' = outrun \cup {n}
          /\ UNCHANGED <<line, work, adrift, fine, revoked>>
      BY <1>4 DEF LeaseRunsOut, runtime
    <2> QED  BY <1>1, <2>1 DEF Orderly, Works, Holds, At, Undisturbed
  <1>5. ASSUME NEW w \in Workers, NEW n \in DOMAIN line, Claim(w, n)
        PROVE  AllOrderly'
    <2>1. /\ DOMAIN line' = DOMAIN line /\ At(w, "idle") /\ line[n].phase # "settled"
          /\ line[n].phase = "held" => n \in lapsed
          /\ line'[n].phase = "held" /\ line'[n].holder = issued + 1
          /\ \A m \in DOMAIN line : m # n => line'[m] = line[m]
          /\ work' = [work EXCEPT ![w] = [at |-> "claimed", input |-> n,
                                          token |-> issued + 1]]
          /\ lapsed' = lapsed \ {n} /\ UNCHANGED <<adrift, fine, revoked>>
      BY <1>5, Claimed DEF runtime, history
    <2>2. /\ work'[w] = [at |-> "claimed", input |-> n, token |-> issued + 1]
          /\ \A v \in Workers : v # w => work'[v] = work[v]
      BY <2>1 DEF TypeOK
    <2>3. ASSUME NEW m \in DOMAIN line, Undisturbed(m)' PROVE Orderly(m)'
      <3>1. Orderly(m)
        BY <1>1, <2>3
      <3>2. CASE m = n
        <4>1. \A v \in Workers : ~Works(v, n)
          BY <2>1, <3>1, <3>2, NoWorker DEF Orderly
        <4>2. \A v \in Workers : Works(v, n)' => v = w
          BY <2>2, <4>1 DEF Works, At
        <4>3. n \notin fine /\ n \notin revoked
          BY <2>1, <3>1, <3>2, <4>1 DEF Orderly
        <4> QED  BY <2>1, <2>2, <3>1, <3>2, <4>2, <4>3 DEF Orderly, Holds
      <3>3. CASE m # n
        BY <2>1, <2>2, <3>1, <3>3 DEF Orderly, Works, Holds, At
      <3> QED  BY <3>2, <3>3
    <2> QED  BY <2>1, <2>3
  <1>6. ASSUME NEW w \in Workers, Ack(w) \/ Release(w) PROVE AllOrderly'
    <2> DEFINE n == work[w].input
    <2>1. /\ DOMAIN line' = DOMAIN line /\ Works(w, n) /\ n \in DOMAIN line
          /\ \A m \in DOMAIN line : m # n => line'[m] = line[m]
          /\ Holds(w) => lapsed' = lapsed \ {n}
          /\ Holds(w) => line'[n].phase = IF IsOver(w) THEN "settled" ELSE "waiting"
          /\ ~Holds(w) => UNCHANGED <<line, lapsed>>
          /\ IsOver(w) \/ At(w, "refused")
          /\ UNCHANGED <<adrift, fine, revoked>>
      BY <1>6, Answered DEF Works, runtime, history
    <2>2. work'[w] = Idle /\ \A v \in Workers : v # w => work'[v] = work[v]
      BY <1>6, Answered DEF TypeOK
    <2>3. lapsed' \subseteq lapsed
      BY <2>1
    <2> HIDE DEF n
    <2>4. ASSUME NEW m \in DOMAIN line, Undisturbed(m)' PROVE Orderly(m)'
      <3>1. Orderly(m)
        BY <1>1, <2>4
      <3>2. CASE m = n
        <4>1. \A v \in Workers : Works(v, m) => v = w
          BY <2>1, <3>1, <3>2, OneWorker
        <4>2. \A v \in Workers : ~Works(v, m)'
          BY <2>2, <4>1 DEF Works, At, Idle
        <4>3. Holds(w) /\ work[w].input = m
          BY <2>1, <3>1, <3>2 DEF Orderly, n
        <4>4. m \notin revoked
          BY <3>1, <4>3 DEF Orderly, Holds
        <4>5. m \in fine => IsOver(w)
          <5>1. line[m].phase = "held"
            BY <4>3 DEF Holds
          <5>2. m \in fine => At(w, "returned")
            BY <3>1, <4>1, <5>1 DEF Orderly
          <5> QED  BY <5>2 DEF IsOver
        <4>6. m \in fine => line'[m].phase = "settled"
          BY <2>1, <3>2, <4>3, <4>5
        <4> QED  BY <2>1, <2>3, <3>1, <4>2, <4>4, <4>6 DEF Orderly
      <3>3. CASE m # n
        <4>1. \A v \in Workers : Works(v, m) => v # w
          BY <3>3 DEF Works, n
        <4>2. \A v \in Workers : Works(v, m)' => v # w
          BY <2>2 DEF Works, At, Idle
        <4> QED
          BY <2>1, <2>2, <2>3, <3>1, <3>3, <4>1, <4>2 DEF Orderly, Works, Holds, At
      <3> QED  BY <3>2, <3>3
    <2> QED  BY <2>1, <2>4
  <1> QED
    BY <1>2, <1>3, <1>4, <1>5, <1>6 DEF QueueStep

\* A step that begins a finished input begins one that something came between.
LEMMA RerunsAreAccidents ==
  ASSUME TypeOK, Claims, AllOrderly, [Next]_vars
  PROVE  \A n \in live' \ live : n \in fine \cup revoked => n \in outrun \cup torn
  <1>1. ASSUME NEW n \in live' \ live
        PROVE  n \in adrift \/ \E w \in Workers : At(w, "claimed") /\ work[w].input = n
    <2>1. CASE QueueStep
      BY <1>1, <2>1, QueueSteps DEF runtime
    <2>2. CASE RouteStep
      BY <1>1, <2>2 DEF RouteStep, Admit, Refuse, FailsEarly, TurnReturns, TurnRaises,
         Abandon, LeaveClaimed, SettleFails, TurnEndsAlone, AdmitAlone, RefuseAlone,
         Crash, Begins, Ends, runtime
    <2>3. CASE UNCHANGED vars
      BY <1>1, <2>3 DEF vars, runtime
    <2> QED  BY <2>1, <2>2, <2>3, StepsAre
  <1>2. ASSUME NEW n \in live' \ live, n \in fine \cup revoked, Undisturbed(n)
        PROVE  FALSE
    <2>1. n \in DOMAIN line /\ Orderly(n)
      BY <1>2, InputSets DEF AllOrderly
    <2>2. PICK w \in Workers : At(w, "claimed") /\ work[w].input = n
      BY <1>1, <1>2, <2>1 DEF Orderly
    <2>3. Works(w, n) /\ line[n].phase = "held"
      BY <2>1, <2>2 DEF Works, At, Orderly, Holds
    <2>4. \A v \in Workers : Works(v, n) => v = w
      BY <2>1, <2>3, OneWorker
    <2> QED  BY <1>2, <2>1, <2>2, <2>3, <2>4 DEF Orderly, At
  <1> QED  BY <1>2 DEF Undisturbed

--------------------------------------------------------------------------------
(* The theorems.                                                              *)

\* At the start nothing is queued and nobody is at work.
LEMMA Initially == Init => IInv
  <1> SUFFICES ASSUME Init PROVE IInv
    OBVIOUS
  <1>1. DOMAIN line = {} /\ line = [n \in {} |-> {}]
    BY DEF Init, Lane!Init
  <1>2. Idle \in [at : Place, input : {0} \cup DOMAIN line, token : 0..MaxToken]
    BY BoundsAreNaturals DEF Idle, Place
  <1>3. \A set \in {adrift, live, recent, ledger, over, fine, outrun, torn,
                    revoked} : set \subseteq DOMAIN line
    BY DEF Init
  <1>4. line \in [DOMAIN line -> [session : Sessions, turn : Turns,
                                  phase : {"waiting", "held", "settled"},
                                  holder : 0..MaxToken]]
    BY <1>1
  <1>5. TypeOK
    BY <1>1, <1>2, <1>3, <1>4, BoundsAreNaturals DEF Init, TypeOK
  <1>6. Claims /\ Runs /\ Endings
    BY DEF Init, Claims, Runs, Endings, At, Idle
  <1>7. SettledMeansRan /\ AllOrderly
    BY <1>1 DEF SettledMeansRan, AllOrderly
  <1> QED  BY <1>5, <1>6, <1>7 DEF IInv

\* Every step keeps every part.
LEMMA Inductive == IInv /\ [Next]_vars => IInv'
  <1> SUFFICES ASSUME IInv, [Next]_vars PROVE IInv'
    OBVIOUS
  <1>1. CASE UNCHANGED vars
    BY <1>1, TypesKept, ClaimsKept, RunsKept, EndingsKept, SettledMeansRanKept
    DEF IInv, vars, runtime, history, AllOrderly, Orderly, Undisturbed, Works, Holds, At
  <1> QED
    BY <1>1, StepsAre, TypesKept, ClaimsKept, RunsKept, EndingsKept,
       SettledMeansRanKept, OrderlyOnRoute, OrderlyInQueue DEF IInv

\* The invariant holds in every state of every behaviour.
LEMMA Invariance == Spec => []IInv
  BY Initially, Inductive, PTL DEF Spec

\* Two requests never run one input, nor two inputs of a session, at once, with
\* any number of requests and leases that run out (the route on top of the
\* runtime's admission).
THEOREM NothingRunsInParallel == Spec => []NoParallelRuns
  <1>1. IInv => NoParallelRuns
    BY DEF IInv, Runs, NoParallelRuns
  <1> QED  BY <1>1, Invariance, PTL

\* Input leaves the queue only when a turn of it ended or the user took it back
\* (the finally block of _execute_app_agent_runtime_message).
THEOREM NothingIsLost == Spec => []SettledMeansRan
  <1>1. IInv => SettledMeansRan
    BY DEF IInv
  <1> QED  BY <1>1, Invariance, PTL

\* What has returned or was taken back begins again only after an accident: a
\* lease that ran out, a crash, a request or a write that broke off.
THEOREM FinishedInputRests == Spec => OnlyAccidentsRerun
  <1>1. IInv /\ [Next]_vars =>
          [\A n \in live' \ live : n \in fine \cup revoked => n \in outrun \cup torn]_vars
    BY RerunsAreAccidents DEF IInv
  <1> QED  BY <1>1, Invariance, PTL DEF Spec, OnlyAccidentsRerun
=============================================================================
