---------------------------- MODULE MCRevealRenders ----------------------------
(***************************************************************************)
(* Small instances of RevealRenders.                                       *)
(***************************************************************************)
EXTENDS RevealRenders, TLC

\* Sets of interchangeable model values; Requests and Workers are pools.
PoolSymmetry ==
  Permutations(Free) \cup Permutations(Paid) \cup Permutations(Requests) \cup Permutations(Workers)

================================================================================
