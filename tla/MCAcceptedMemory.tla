-------------------------- MODULE MCAcceptedMemory --------------------------
(* The store of accepted memories with a few memories and one backup.        *)
EXTENDS AcceptedMemory
=============================================================================
