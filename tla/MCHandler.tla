----------------------------- MODULE MCHandler ------------------------------
(***************************************************************************)
(* Small instances of Handler.                                             *)
(***************************************************************************)
EXTENDS Handler, TLC

CONSTANTS c1, c2

TwoConns == {c1, c2}
OneConn == {c1}

\* Connections are interchangeable.
ConnSymmetry == Permutations(Conns)
=============================================================================
