---------------------------- MODULE MCHeartbeat -----------------------------
(***************************************************************************)
(* Small instances of Heartbeat.                                           *)
(***************************************************************************)
EXTENDS Heartbeat, TLC

CONSTANTS c1, c2

TwoConns == {c1, c2}
=============================================================================
