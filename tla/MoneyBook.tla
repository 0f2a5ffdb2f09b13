------------------------------ MODULE MoneyBook ------------------------------
(***************************************************************************)
(* What the money ledger promises: accounts with a balance, and one book   *)
(* of rows that only grows.  Each row is new for its type and reference,   *)
(* so that a retry posts nothing, and is written at once with the balance  *)
(* it leads to, which is that of the moment and is not negative.  A merge  *)
(* moves all there is to another open account and closes the first.  Only  *)
(* a hand, and the reconciliation after it, change a balance without a row. *)
(* MoneyLedger is shown to implement this module with database             *)
(* transactions that lock, fail, are retried and are answered or not.      *)
(***************************************************************************)
EXTENDS Integers

CONSTANT Accounts

VARIABLES
  status,    \* of each account: "NONE" before it is opened
  balance,   \* of each account
  sum,       \* what the rows of an account add up to
  rows,      \* the book
  edited     \* accounts whose balance was changed by hand

book == <<status, balance, sum, rows, edited>>

Init ==
  /\ status \in [Accounts -> {"NONE", "ACTIVE"}]
  /\ sum \in [Accounts -> Nat] /\ balance = sum
  /\ \A a \in Accounts : status[a] = "NONE" => sum[a] = 0
  /\ \A x \in rows : status[x.acc] = "ACTIVE"
  /\ edited = {}

\* No row has this one's type and reference.
New(x) == \A y \in rows : y.type = x.type => y.ref # x.ref

\* x says where its account's balance goes, which is not below zero.
Continues(x) == x.after = balance[x.acc] + x.delta /\ x.after >= 0

Writes(x) ==
  /\ New(x) /\ Continues(x)
  /\ rows' = rows \cup {x}
  /\ balance' = [balance EXCEPT ![x.acc] = @ + x.delta]
  /\ sum' = [sum EXCEPT ![x.acc] = @ + x.delta]
  /\ UNCHANGED edited

\* A deposit, a spend, an undo, a refund, or a correction to what the merchant says
Post(x) == status[x.acc] # "NONE" /\ Writes(x) /\ UNCHANGED status

\* An account is opened with its first row.
Open(x) ==
  /\ status[x.acc] = "NONE"
  /\ Writes(x)
  /\ status' = [status EXCEPT ![x.acc] = "ACTIVE"]

\* Everything on the account of x moves to that of y.
Merge(x, y) ==
  LET s == x.acc
      t == y.acc
      all == balance[s]
  IN  /\ s # t /\ status[s] = "ACTIVE" /\ status[t] = "ACTIVE"
      /\ all > 0 /\ x.delta = -all /\ y.delta = all
      /\ x.type = "TRANSFER_OUT" /\ y.type = "TRANSFER_IN" /\ x.ref = <<s, t>> /\ y.ref = x.ref
      /\ \A z \in {x, y} : New(z) /\ Continues(z)
      /\ rows' = rows \cup {x, y}
      /\ balance' = [balance EXCEPT ![s] = 0, ![t] = @ + all]
      /\ sum' = [sum EXCEPT ![s] = @ - all, ![t] = @ + all]
      /\ status' = [status EXCEPT ![s] = "CLOSED"]
      /\ UNCHANGED edited

\* Accounts that never held anything go.
Drop(S) ==
  /\ \A a \in S : balance[a] = 0 /\ \A x \in rows : x.acc # a
  /\ status' = [a \in Accounts |-> IF a \in S THEN "NONE" ELSE status[a]]
  /\ UNCHANGED <<balance, sum, rows, edited>>

Heal(a) ==
  /\ balance' = [balance EXCEPT ![a] = sum[a]]
  /\ UNCHANGED <<status, sum, rows, edited>>

\* A hand, once an account
Edit(a) ==
  /\ a \notin edited /\ status[a] # "NONE"
  /\ edited' = edited \cup {a}
  /\ balance' = [balance EXCEPT ![a] = balance'[a]] /\ balance'[a] >= 0
  /\ UNCHANGED <<status, sum, rows>>

Next ==
  \/ \E x \in rows' \ rows : Post(x) \/ Open(x)
  \/ \E x, y \in rows' \ rows : Merge(x, y)
  \/ \E S \in SUBSET Accounts : Drop(S)
  \/ \E a \in Accounts : Heal(a) \/ Edit(a)

Spec == Init /\ [][Next]_book
===============================================================================
