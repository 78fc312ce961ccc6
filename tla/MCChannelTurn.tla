---------------------------- MODULE MCChannelTurn ----------------------------
(* The coordinator with one session and few turns.                           *)
EXTENDS ChannelTurn
=============================================================================
