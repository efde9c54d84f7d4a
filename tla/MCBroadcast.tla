----------------------------- MODULE MCBroadcast -----------------------------
(* Small instances of Broadcast.                                           *)
EXTENDS Broadcast
=============================================================================
