------------------------------ MODULE MCErasure ------------------------------
(***************************************************************************)
(* Small instances of Erasure: one item, and bounds spent on its pictures, *)
(* on an erasure and the one that follows it, or on both.                  *)
(***************************************************************************)
EXTENDS Erasure

Bound(claims, erasures, mishaps) == [claims |-> claims, erasures |-> erasures, mishaps |-> mishaps]

MCBounds == {Bound(2, 0, 2), Bound(0, 2, 2), Bound(2, 1, 1)}
==============================================================================
