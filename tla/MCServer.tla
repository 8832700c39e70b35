------------------------------ MODULE MCServer ------------------------------
(***************************************************************************)
(* A small instance of Server.                                             *)
(***************************************************************************)
EXTENDS Server

CONSTANT c1

OneConn == {c1}
=============================================================================
