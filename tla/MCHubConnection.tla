-------------------------- MODULE MCHubConnection --------------------------
(* Small instances of HubConnection for TLC.                               *)
EXTENDS HubConnection
=============================================================================
