------------------------------ MODULE MCBatch -------------------------------
(***************************************************************************)
(* A small instance of Batch: more connections than workers.               *)
(***************************************************************************)
EXTENDS Batch, TLC

CONSTANTS c1, c2, c3, w1, w2, u1, u2, g1, all

ThreeConns == {c1, c2, c3}
TwoWorkers == {w1, w2}

\* Connections are the keys of their ids.
AllKeys == ThreeConns \cup {u1, u2, g1, all}
Sets == [k \in AllKeys |-> CASE k = u1 -> {c1, c2} [] k = u2 -> {c3} [] k = g1 -> {c1, c3}
                             [] k = all -> ThreeConns [] OTHER -> {k}]

\* One of each kind, with repetitions, gaps and nothing at all.
Named ==
  { [by |-> "ids", keys |-> <<c1, None, c2, c1>>], [by |-> "ids", keys |-> <<>>],
    [by |-> "users", keys |-> <<u1, u2, None, u1>>], [by |-> "users", keys |-> <<u1>>],
    [by |-> "set", keys |-> <<g1>>], [by |-> "set", keys |-> <<all>>] }
=============================================================================
