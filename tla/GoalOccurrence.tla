--------------------------- MODULE GoalOccurrence ---------------------------
(***************************************************************************)
(* What a background delivery promises for one scheduled occurrence of a   *)
(* goal: however often it is tried, it is settled at most once, for good,  *)
(* and the goal moves on to its next wake in that same step.  A completed  *)
(* occurrence may still be shown, or turn out to have lost its result.  A  *)
(* parked one may be opened again, and nothing more is said of it.         *)
(***************************************************************************)
EXTENDS Naturals

VARIABLES
  outcome,          \* "open", or how it was settled
  moves             \* how often the goal's schedule moved on for it

Init == outcome = "open" /\ moves = 0

Settle ==
  /\ outcome = "open"
  /\ outcome' \in {"completed", "denied", "failed", "parked"}
  /\ moves' = moves + 1

Show ==
  /\ outcome = "completed"
  /\ outcome' = "materialized"
  /\ UNCHANGED moves

LoseResult ==
  /\ outcome = "completed"
  /\ outcome' = "failed"
  /\ UNCHANGED moves

Reopen ==
  /\ outcome = "parked"
  /\ outcome' = "reopened"
  /\ UNCHANGED moves

Next == Settle \/ Show \/ LoseResult \/ Reopen

Spec == Init /\ [][Next]_<<outcome, moves>>
=============================================================================
