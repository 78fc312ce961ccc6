--------------------------- MODULE MCGoalDelivery ---------------------------
(* One delivery, its clients, one approval, and a question or two.           *)
EXTENDS GoalDelivery, TLC

Interchangeable == Permutations(Clients)
=============================================================================
