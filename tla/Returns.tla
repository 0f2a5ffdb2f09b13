------------------------------ MODULE Returns ------------------------------
(***************************************************************************)
(* Returns of purchase lines and their refunds: routes/returns.ts, the     *)
(* refund of a failed package in routes/packages.ts, return_requests in    *)
(* repositories/postgres.ts and lib/returns/state-machine.ts, over the     *)
(* money ledger a refund is posted to.                                     *)
(*                                                                         *)
(* A change of state is one guarded update under the row's lock: a route   *)
(* whose earlier read refuses changes nothing, and is not a step.  Only a  *)
(* refund has steps of its own: its reads, its post, and its update.       *)
(***************************************************************************)
EXTENDS MoneyLedger

CONSTANTS
  ReturnIds,   \* return requests: the keys of their refunds
  LineOf       \* the purchase line each is for

\* A refund of nothing posts no row, and is left out.
ASSUME ReturnAssumption ==
  /\ ReturnIds \subseteq Keys /\ DOMAIN LineOf = ReturnIds
  /\ \A r \in Requests : r.kind = "refund" => r.key \in ReturnIds /\ r.amount > 0

VARIABLES
  ret,   \* return_requests.state, "NONE" for no row
  late   \* is its window deadline past?

returns == <<ret, late>>
vars == <<money, returns>>

Transitions ==
  [NONE             |-> {},
   REQUESTED        |-> {"INITIATED", "CANCELLED", "EXPIRED"},
   INITIATED        |-> {"PICKUP_SCHEDULED", "CONFIRMED", "CANCELLED", "EXPIRED"},
   PICKUP_SCHEDULED |-> {"INITIATED", "CONFIRMED", "CANCELLED", "EXPIRED"},
   CONFIRMED        |-> {"REFUNDED", "EXPIRED"},
   REFUNDED         |-> {},
   EXPIRED          |-> {},
   CANCELLED        |-> {}]

States == DOMAIN Transitions

\* returnStatesInto
Into(s) == {from \in States : s \in Transitions[from]}

\* OPEN_RETURN_STATES, which is what return_requests_open_line_uidx covers
OpenStates == {"REQUESTED", "INITIATED", "PICKUP_SCHEDULED", "CONFIRMED", "REFUNDED"}

Init ==
  /\ MoneyInit
  /\ ret = [r \in ReturnIds |-> "NONE"]
  /\ late = [r \in ReturnIds |-> FALSE]

(***************************************************************************)
(* The user's moves.                                                       *)
(***************************************************************************)
\* Mutant: an update by id alone, after the route's own check of what it read.
UpdateUnguarded(r, to, from) == ret[r] # "NONE" /\ ret' = [ret EXCEPT ![r] = to]

\* updateReturnRequest with fromStates
Update(r, to, from) == ret[r] \in from /\ ret' = [ret EXCEPT ![r] = to]

LineIsFree(r) == \A q \in ReturnIds : LineOf[q] = LineOf[r] => ret[q] \notin OpenStates

\* openReturnRequest; a line with an open return gets that one back.
OpenReturn(r) ==
  /\ ret[r] = "NONE"
  /\ LineIsFree(r)
  /\ ret' \in {[ret EXCEPT ![r] = s] : s \in {"REQUESTED", "INITIATED"}}
  /\ UNCHANGED late

\* POST /returns/:id/initiate, and pickup/cancel
Initiate(r) == Update(r, "INITIATED", Into("INITIATED")) /\ UNCHANGED late

\* A move within the window, whose end is read before the update and may have passed since;
\* expireNow past it
Within(r, to) ==
  /\ \/ Update(r, to, Into(to))
     \/ late[r] /\ Update(r, "EXPIRED", Into("EXPIRED"))
  /\ UNCHANGED late

Pickup(r) == Within(r, "PICKUP_SCHEDULED")

Confirm(r) == Within(r, "CONFIRMED")

\* expireOverdueReturnRequests, on every GET /returns
ExpireOverdue ==
  LET due == {r \in ReturnIds : late[r] /\ ret[r] \in Into("EXPIRED")}
  IN  /\ due # {}
      /\ ret' = [r \in ReturnIds |-> IF r \in due THEN "EXPIRED" ELSE ret[r]]
      /\ UNCHANGED late

WindowEnds(r) ==
  /\ ret[r] # "NONE" /\ ~late[r]
  /\ late' = [late EXCEPT ![r] = TRUE]
  /\ UNCHANGED ret

\* POST /returns/:id/window, to a later deadline
CorrectWindow(r) ==
  /\ late[r]
  /\ late' = [late EXCEPT ![r] = FALSE]
  /\ UNCHANGED ret

(***************************************************************************)
(* POST /returns/:id/refund                                                *)
(***************************************************************************)
\* The reads, and selectRefundAccount's choice among the active accounts listed, or of a new one
FindRefund(p) ==
  LET r == client[p].req.key
      ready == ret[r] \in Into("REFUNDED")
      prior == Taken("REFUND", r)
  IN  /\ Finding(p, "refund")
      /\ \/ ~ready /\ Steps(p, IF ret[r] = "REFUNDED" THEN "paid" ELSE "refused")
         \/ ready /\ prior /\ Steps(p, "move")
         \/ ready /\ ~prior /\ Steps(p, "insert")
         \/ /\ ready /\ ~prior
            /\ \E a \in Accounts : status[a] = "ACTIVE" /\ Begins(p, a)
            /\ UNCHANGED vault
      /\ UNCHANGED returns

\* guardedUpdate to REFUNDED; a return refunded meanwhile is a replay.
MoveRefund(p) ==
  LET r == client[p].req.key
  IN  /\ client[p].pc = "move"
      /\ \/ ret[r] = "REFUNDED" /\ Steps(p, "paid") /\ UNCHANGED ret
         \/ Update(r, "REFUNDED", {"CONFIRMED"}) /\ Steps(p, "paid")
         \/ ret[r] \notin {"CONFIRMED", "REFUNDED"} /\ Steps(p, "refused") /\ UNCHANGED ret
      /\ UNCHANGED late

ReturnStep(r) ==
  \/ OpenReturn(r) \/ Initiate(r) \/ Pickup(r) \/ Confirm(r)
  \/ WindowEnds(r) \/ CorrectWindow(r)

Next ==
  \/ MoneyNext /\ UNCHANGED returns
  \/ \E r \in ReturnIds : ReturnStep(r) /\ UNCHANGED money
  \/ ExpireOverdue /\ UNCHANGED money
  \/ \E p \in Clients : FindRefund(p) \/ MoveRefund(p)

Spec == Init /\ [][Next]_vars

(***************************************************************************)
(* Properties.                                                             *)
(***************************************************************************)
\* A return never reads as refunded without its credit on the ledger, whatever fails between the
\* post, which comes first, and the update of the return.
RefundedMeansCredited == \A r \in ReturnIds : ret[r] = "REFUNDED" => Taken("REFUND", r)

\* Once a refund is credited its return cannot go back to the user's moves: a concurrent pickup
\* or cancelled pickup that read it earlier is refused.  Only its window can still close it.
CreditedNeverReopens ==
  \A r \in ReturnIds : Taken("REFUND", r) => ret[r] \in {"CONFIRMED", "REFUNDED", "EXPIRED"}
===============================================================================
