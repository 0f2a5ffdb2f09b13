------------------------------ MODULE MCReturns ------------------------------
(***************************************************************************)
(* Small instances of Returns: two accounts with money, a third that may   *)
(* be an empty shell or not there, and a return.                           *)
(***************************************************************************)
EXTENDS Returns, TLC

CONSTANTS k1, k2, r1, r2

Twins == Permutations(Clients)

MCOpening == (1 :> 2) @@ (2 :> 1)
MCLineOf == [r \in ReturnIds |-> "line"]

Req(kind, acc, to, amount, key) ==
  [kind |-> kind, acc |-> acc, to |-> to, amount |-> amount, key |-> key]

\* One of each kind; two keys, each used for more than one thing, or account; merges both ways.
MCRequests ==
  {Req("spend", 2, None, 1, k1), Req("undo", 2, None, 0, k1),
   Req("vault", 1, None, 1, k1), Req("vault", 1, None, 2, k2),
   Req("merge", 1, 2, 0, None), Req("merge", 2, 1, 0, None),
   Req("add", None, None, 1, k2), Req("check", 3, None, 1, None),
   Req("fix", 1, None, 0, None), Req("delete", 3, None, 0, None),
   Req("refund", None, None, 1, r1)}
==============================================================================
