----------------------------- MODULE MCRegistry -----------------------------
(***************************************************************************)
(* Small instances of Registry.                                            *)
(***************************************************************************)
EXTENDS Registry, TLC

CONSTANTS c1, c2, u1, g1, caller

OneConn == {c1}
TwoConns == {c1, c2}
OneUser == {u1}
OneGroup == {g1}
OneCaller == {caller}
Empty == {}

AllOfU1 == [c \in Conns |-> u1]

\* Connections of one user are interchangeable.
ConnSymmetry == Permutations(Conns)
=============================================================================
