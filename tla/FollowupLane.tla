---------------------------- MODULE FollowupLane ----------------------------
(***************************************************************************)
(* What the follow-up queue promises, with no file, no lock, no clock and  *)
(* no crash: each session has a line of inputs, of which only the oldest   *)
(* open one is ever in somebody's hands, and an input is settled once and  *)
(* for all.                                                                *)
(***************************************************************************)
EXTENDS Naturals

CONSTANTS
  Sessions,
  Turns,
  Numbers,     \* what inputs are numbered with
  Holders      \* who may hold an input; Nobody is not one of them

VARIABLE line  \* input number -> whose it is, what it asks, where it stands

Nobody == 0
Open   == {"waiting", "held"}

\* The oldest open input of its session.
IsNext(n) ==
  /\ line[n].phase \in Open
  /\ \A m \in DOMAIN line :
       (m < n /\ line[m].session = line[n].session) => line[m].phase = "settled"

Becomes(n, phase, holder) ==
  line' = [line EXCEPT ![n] = [session |-> @.session, turn |-> @.turn,
                               phase |-> phase, holder |-> holder]]

Init == line = [n \in {} |-> {}]

\* A new input joins at the end, unless its session already has that turn.
Accept(s, t, n) ==
  /\ \A m \in DOMAIN line :
       m < n /\ ~(line[m].session = s /\ line[m].turn = t)
  /\ line' = [m \in DOMAIN line \cup {n} |->
                IF m = n THEN [session |-> s, turn |-> t,
                               phase |-> "waiting", holder |-> Nobody]
                ELSE line[m]]

\* The next input is handed out, or taken over from a holder that lost it.
Hand(n, h) == IsNext(n) /\ h # line[n].holder /\ Becomes(n, "held", h)

GiveBack(n) == line[n].phase = "held" /\ Becomes(n, "waiting", Nobody)

Settle(n) == line[n].phase \in Open /\ Becomes(n, "settled", Nobody)

Next ==
  \/ \E s \in Sessions, t \in Turns, n \in Numbers : Accept(s, t, n)
  \/ \E n \in DOMAIN line, h \in Holders : Hand(n, h)
  \/ \E n \in DOMAIN line : GiveBack(n) \/ Settle(n)

Spec == Init /\ [][Next]_line
=============================================================================
