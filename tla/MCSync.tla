------------------------------- MODULE MCSync -------------------------------
(* Instance of Sync for TLC: two messages, the hub's reader.               *)
EXTENDS Sync
=============================================================================
