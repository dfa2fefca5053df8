------------------------------ MODULE MCBrowser ------------------------------
(* Instance of Browser for TLC: two pages of a node, the hub's reader.   *)
EXTENDS Browser
=============================================================================
