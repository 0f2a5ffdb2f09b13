------------------------------ MODULE MCCheckout ------------------------------
(***************************************************************************)
(* Small instances of Checkout: a checkout, its retry, and another         *)
(* device's; two rows of one variant and one of another.                   *)
(***************************************************************************)
EXTENDS Checkout, TLC

CONSTANTS shirt, shoes, a1, a2, a3, first, retry, other, key

MCPrice == (shirt :> 1) @@ (shoes :> 2)

MCItemOf == (a1 :> shirt) @@ (a2 :> shirt) @@ (a3 :> shoes)

MCKeyOf == (first :> key) @@ (retry :> key) @@ (other :> None)

================================================================================
