----------------------------- MODULE AuditTrail -----------------------------
(***************************************************************************)
(* What the audit of the accepted memories promises: a row is staged, then *)
(* recorded once and while what it says is so, and leaves the stage when   *)
(* it is on record.  It may be staged again at any time.                   *)
(***************************************************************************)
EXTENDS Naturals

CONSTANT Rows

VARIABLES
  staged,           \* the rows that wait to be recorded
  entries,          \* how often each row is on record
  so                \* the rows that say what is so

trail == <<staged, entries, so>>

Init == staged = {} /\ entries = [e \in Rows |-> 0] /\ so \subseteq Rows

Stage(e) == staged' = staged \cup {e} /\ UNCHANGED <<entries, so>>

Record(e) ==
  /\ e \in staged \cap so /\ entries[e] = 0
  /\ entries' = [entries EXCEPT ![e] = 1]
  /\ UNCHANGED <<staged, so>>

Unstage(e) ==
  /\ entries[e] = 1
  /\ staged' = staged \ {e}
  /\ UNCHANGED <<entries, so>>

World == so' \subseteq Rows /\ UNCHANGED <<staged, entries>>

Next ==
  \/ \E e \in Rows : Stage(e) \/ Record(e) \/ Unstage(e)
  \/ World

Spec == Init /\ [][Next]_trail
=============================================================================
