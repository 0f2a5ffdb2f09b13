------------------------------- MODULE MCOrderArc -------------------------------
(***************************************************************************)
(* Small instances of OrderArc.  Two tiers, with the steps of Standard at  *)
(* the end of those of Express, so that a rush can find every mix of steps *)
(* behind, due and ahead.                                                  *)
(***************************************************************************)
EXTENDS OrderArc, TLC

MCTiers == {"EXPRESS", "STANDARD"}

MCTiming ==
  ("EXPRESS"  :> [PACKED |-> 1, OUT_FOR_DELIVERY |-> 2, ARRIVING_SOON |-> 3, DELIVERED |-> 4]) @@
  ("STANDARD" :> [PACKED |-> 1, OUT_FOR_DELIVERY |-> 3, ARRIVING_SOON |-> 4, DELIVERED |-> 5])


\* Requests are interchangeable.
RusherSymmetry == Permutations(Rushers)

================================================================================
