------------------------- MODULE MCFollowupDispatch -------------------------
(* The message route on a few inputs and two requests at a time.             *)
EXTENDS FollowupDispatch, TLC

Interchangeable ==
  Permutations(Sessions) \cup Permutations(Turns) \cup Permutations(Workers)
=============================================================================
