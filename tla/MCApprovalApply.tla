-------------------------- MODULE MCApprovalApply --------------------------
(* A write to one project, what is done about it, and another client's write. *)
EXTENDS ApprovalApply, TLC

CONSTANTS w, d, r, s, v, x, p1, p2

Kinds   == [o \in Op |-> CASE o = w -> "write" [] o = d -> "dialog" [] o = x -> "plain"
                             [] o = v -> "resolve" [] OTHER -> "restore"]
Roots   == [o \in Op |-> CASE o \in {v, r} -> p2 [] o = x -> Global [] OTHER -> p1]
Targets == [o \in Op |-> IF o \in {w, x} THEN None ELSE w]

\* The dialog's answer meets one of those that come after the write, or these
\* meet each other; and a reader comes or a failure, not both.
Begun == {o \in {r, v} : approval[o] # "none"} \cup {o \in {s} : at[o] # "idle"}
NotAllAtOnce == /\ approval[d] = "none" \/ Cardinality(Begun) <= 1
                /\ reads + faults <= 1
=============================================================================
