--------------------------- MODULE MCTurnAdmission ---------------------------
(* Turn admission on a few turns of one or two sessions.                      *)
EXTENDS TurnAdmission, TLC

Interchangeable ==
  Permutations(Sessions) \cup Permutations(Clients) \cup Permutations(Inputs)

(* Stops and steers are each taken to where they become hard: without a steer *)
(* two turns and two stops have two sessions and two client ids to name; with *)
(* steers both turns have one identity, there is one stop, and no more steers *)
(* are accepted than there are inputs.                                        *)
Named == {k.session : k \in KeysOf(Turn)} \cup {k.client : k \in KeysOf(Turn)}

SteersOrStops ==
  \/ accepted = {}
  \/ /\ Cardinality(KeysOf(Turn)) <= 1
     /\ \A t \in asked : {t.session, t.client} \subseteq Named \cup {None}
     /\ Cardinality(accepted) <= Cardinality(Inputs)
     /\ stops <= 1
=============================================================================
