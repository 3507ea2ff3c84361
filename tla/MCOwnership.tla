---- MODULE MCOwnership ----
(***************************************************************************)
(* Small instances of Ownership for TLC.                                   *)
(***************************************************************************)
EXTENDS Ownership

CONSTANTS w1, w2, g1

FirstIsBest == [w \in {w1, w2} |-> IF w = w1 THEN 2 ELSE 1]
Both  == [g \in {g1} |-> {"submit", "snapshot"}]
====
