--------------------------- MODULE MCFollowupQueue ---------------------------
(* The follow-up queue on two sessions, three entries and two claims.        *)
EXTENDS FollowupQueue, TLC

Interchangeable == Permutations(Sessions) \cup Permutations(Turns)
=============================================================================
