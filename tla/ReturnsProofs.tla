---------------------------- MODULE ReturnsProofs ----------------------------
(***************************************************************************)
(* The types of the money ledger and the returns, their locks, balances,   *)
(* merges and refunds, for every set of accounts, clients and requests.    *)
(*                                                                         *)
(* A transaction writes balances it read under its row locks.  Inv says    *)
(* why they still hold when it writes: whoever is past a lock has seen     *)
(* the cache as it is, and no step changes the cache of a row that stays   *)
(* locked.  Every step has one of a few shapes (Shape): what it does to    *)
(* the clients and their locks, to each account, and to the returns.  The  *)
(* actions are shown to have these shapes, and the shapes to keep Inv.     *)
(***************************************************************************)
EXTENDS Returns, SumProofs, TLAPS

(***************************************************************************)
(* The invariant.                                                          *)
(***************************************************************************)
Sound(r) ==
  /\ r \in Request
  /\ r.kind \notin {"none", "add", "refund"} => r.acc \in Accounts
  /\ r.kind = "merge" => r.to \in Accounts \ {r.acc}
  /\ r.kind = "refund" => r.key \in ReturnIds

InTx(pc) == pc \in {"lock", "write"}

\* What a client at each position is about
Placed(p) ==
  /\ Sound(client[p].req)
  /\ InTx(client[p].pc) => client[p].req.acc \in Accounts
  /\ client[p].pc = "insert" =>
       client[p].req.kind \in {"add", "refund"} /\ \A a \in Accounts : client[p].seen[a] = 0
  /\ client[p].pc \in {"reserve", "release"} => client[p].req.kind = "vault"
  /\ client[p].pc = "move" => client[p].req.kind = "refund"

\* What a client holds: rows in the order of their ids, and their caches as they are
Holds(p) ==
  /\ ~InTx(client[p].pc) => Held(p) = {}
  /\ client[p].pc = "write" => Rest(p) = {}
  /\ client[p].pc = "lock" => Rest(p) # {} /\ \A a \in Held(p), b \in Rest(p) : a < b
  /\ \A a \in Held(p) : client[p].seen[a] = cache[a]

Balanced(a) ==
  /\ status[a] = "NONE" => cache[a] = 0 /\ RowsOf(a) = {}
  /\ a \notin edited => cache[a] = posted[a] /\ cache[a] >= 0

\* An account that is listed, and that no clean-up can remove
Listed(a) == status[a] = "ACTIVE" /\ RowsOf(a) # {}

OneListed == (\E a \in Accounts : status[a] = "CLOSED") => \E a \in Accounts : Listed(a)

\* Where a return stays once its refund is credited
Settled == {"CONFIRMED", "REFUNDED", "EXPIRED"}

Refunding(p) ==
  client[p].req.kind = "refund" /\ client[p].pc \in {"insert", "lock", "write", "move"}

Credited(p) ==
  /\ Refunding(p) => ret[client[p].req.key] \in Settled
  /\ client[p].pc = "move" => Taken("REFUND", client[p].req.key)

ReturnTypes ==
  /\ ret \in [ReturnIds -> States] /\ late \in [ReturnIds -> BOOLEAN]

Inv ==
  /\ MoneyTypeOK /\ ReturnTypes
  /\ \A p \in Clients : Placed(p) /\ Holds(p) /\ Credited(p)
  /\ \A a \in Accounts : Balanced(a)
  /\ OneListed
  /\ RefundedMeansCredited /\ CreditedNeverReopens

(***************************************************************************)
(* The shapes of steps: what becomes of the clients and their locks.       *)
(***************************************************************************)
Resting(pc, r) == [NoClient EXCEPT !.pc = pc, !.req = r]

\* What takes a client to a position outside of a transaction
Fits(pc, r) ==
  /\ pc = "insert" => r.kind \in {"add", "refund"}
  /\ pc \in {"reserve", "release"} => r.kind = "vault"
  /\ pc = "move" => r.kind = "refund" /\ \E x \in ledger' : x.type = "REFUND" /\ x.ref = r.key
  /\ r.kind = "refund" /\ pc \in {"insert", "move"} => ret[r.key] \in Settled

Away(p) ==
  \E pc \in Pcs, r \in Request :
    /\ ~InTx(pc) /\ Sound(r) /\ Fits(pc, r)
    /\ client' = [client EXCEPT ![p] = Resting(pc, r)]
    /\ lock' = Unlocked(p)

Begun(p) ==
  \E a \in Accounts :
    /\ ~InTx(client[p].pc)
    /\ client[p].req.kind = "merge" => a = client[p].req.acc
    /\ client[p].req.kind = "refund" => ret[client[p].req.key] \in Settled
    /\ client' = [client EXCEPT ![p].pc = "lock", ![p].began = clock', ![p].req.acc = a]
    /\ lock' = lock

Took(p) ==
  LET a == NextRow(p)
  IN  /\ client[p].pc = "lock"
      /\ lock' = [lock EXCEPT ![a] = p]
      /\ lock[a] = None
      /\ client' = [client EXCEPT ![p].seen[a] = cache[a],
                                  ![p].pc = IF Rest(p) = {a} THEN "write" ELSE "lock"]
      /\ cache' = cache

Retried(p) ==
  /\ InTx(client[p].pc)
  /\ client' = [client EXCEPT ![p].pc = "lock", ![p].began = clock']
  /\ lock' = Unlocked(p)

ClientsMove ==
  \/ UNCHANGED <<client, lock>>
  \/ \E p \in Clients : Away(p) \/ Begun(p) \/ Took(p) \/ Retried(p)

(***************************************************************************)
(* What becomes of an account.                                             *)
(***************************************************************************)
Kept(a) ==
  /\ cache'[a] = cache[a] /\ posted'[a] = posted[a]
  /\ status'[a] = status[a] /\ RowsOf(a)' = RowsOf(a)

Posted(a) ==
  /\ cache'[a] - posted'[a] = cache[a] - posted[a] /\ cache'[a] >= 0
  /\ status'[a] # "NONE" /\ RowsOf(a)' # {}

Healed(a) ==
  /\ cache'[a] = posted[a] /\ posted'[a] = posted[a]
  /\ status[a] # "NONE" /\ status'[a] = status[a] /\ RowsOf(a)' = RowsOf(a)

Dropped(a) ==
  /\ cache[a] = 0 /\ cache'[a] = 0 /\ posted'[a] = posted[a]
  /\ status'[a] = "NONE" /\ RowsOf(a) = {} /\ RowsOf(a)' = {}

ByHand(a) ==
  /\ a \in edited' \ edited /\ posted'[a] = posted[a]
  /\ status[a] # "NONE" /\ status'[a] = status[a] /\ RowsOf(a)' = RowsOf(a)

Booked(a) ==
  /\ Kept(a) \/ Posted(a) \/ Healed(a) \/ Dropped(a) \/ ByHand(a)
  /\ cache'[a] # cache[a] => lock'[a] = None

\* An account is closed when its money is on another that is listed.
Closing ==
  \A a \in Accounts :
    status'[a] = "CLOSED" => status[a] = "CLOSED" \/ \E b \in Accounts : Listed(b)'

(***************************************************************************)
(* What becomes of the ledger and the returns.                             *)
(***************************************************************************)
LedgerGrows ==
  /\ ledger \subseteq ledger' /\ edited \subseteq edited'
  /\ \A x \in ledger' \ ledger :
       x.type = "REFUND" => \E p \in Clients : Refunding(p) /\ x.ref = client[p].req.key

StoredTypes ==
  /\ status \in [Accounts -> {"NONE", "ACTIVE", "CLOSED"}]
  /\ cache \in [Accounts -> Int] /\ posted \in [Accounts -> Int] /\ Rows(ledger)
  /\ clock \in Nat /\ vault \in [spent : Nat, charged : Nat, unheard : Nat]
  /\ events \in 0 .. MaxEvents /\ edited \subseteq Accounts

Shape ==
  /\ ClientsMove
  /\ \A a \in Accounts : Booked(a)
  /\ Closing /\ LedgerGrows /\ StoredTypes'

ReturnsMove ==
  /\ ReturnTypes'
  /\ \A r \in ReturnIds :
       /\ ret[r] \in Settled => ret'[r] \in Settled
       /\ ret'[r] = "REFUNDED" => ret[r] = "REFUNDED" \/ Taken("REFUND", r)

(***************************************************************************)
(* The shapes keep the invariant: the clients.                             *)
(***************************************************************************)
ClientTypes ==
  /\ lock \in [Accounts -> Clients \cup {None}]
  /\ client \in [Clients -> [pc : Pcs, req : Request, began : Nat, seen : [Accounts -> Int]]]

LEMMA TypesParts == MoneyTypeOK <=> StoredTypes /\ ClientTypes
BY DEF MoneyTypeOK, StoredTypes, ClientTypes

LEMMA NoClientTypes ==
  NoClient \in [pc : Pcs, req : Request, began : Nat, seen : [Accounts -> Int]]
<1>1. NoRequest \in Request
  BY DEF NoRequest, Request, Kinds
<1>2. "idle" \in Pcs /\ [a \in Accounts |-> 0] \in [Accounts -> Int]
  BY DEF Pcs, AtRest
<1> QED BY <1>1, <1>2 DEF NoClient

LEMMA AwayTypes ==
  ASSUME NEW p \in Clients, ClientTypes, \A q \in Clients : Placed(q), Away(p)
  PROVE  ClientTypes' /\ \A q \in Clients : Placed(q)'
<1>1. PICK pc \in Pcs, r \in Request :
        /\ ~InTx(pc) /\ Sound(r) /\ Fits(pc, r)
        /\ client' = [client EXCEPT ![p] = Resting(pc, r)]
        /\ lock' = Unlocked(p)
  BY DEF Away
<1>2. Resting(pc, r) \in [pc : Pcs, req : Request, began : Nat, seen : [Accounts -> Int]]
  BY NoClientTypes DEF Resting
<1>3. ClientTypes'
  <2>1. lock' \in [Accounts -> Clients \cup {None}]
    BY <1>1 DEF ClientTypes, Unlocked
  <2> QED BY <1>1, <1>2, <2>1 DEF ClientTypes
<1>4. \A q \in Clients \ {p} : client'[q] = client[q]
  BY <1>1 DEF ClientTypes
<1>5. client'[p] = Resting(pc, r)
  BY <1>1 DEF ClientTypes
<1>6. Placed(p)'
  BY <1>1, <1>5 DEF Placed, Resting, NoClient, Fits, Sound
<1>7. ASSUME NEW q \in Clients \ {p} PROVE Placed(q)'
  BY <1>4, <1>7 DEF Placed, Sound
<1> QED BY <1>3, <1>6, <1>7

LEMMA BegunTypes ==
  ASSUME NEW p \in Clients, ClientTypes, clock' \in Nat, \A q \in Clients : Placed(q), Begun(p)
  PROVE  ClientTypes' /\ \A q \in Clients : Placed(q)'
<1>1. PICK a \in Accounts :
        /\ client[p].req.kind = "merge" => a = client[p].req.acc
        /\ client' = [client EXCEPT ![p].pc = "lock", ![p].began = clock', ![p].req.acc = a]
        /\ lock' = lock
  BY DEF Begun
<1>2. client[p] \in [pc : Pcs, req : Request, began : Nat, seen : [Accounts -> Int]]
  BY DEF ClientTypes
<1>3. [client[p].req EXCEPT !.acc = a] \in Request
  BY <1>2 DEF Request
<1>4. client' = [client EXCEPT ![p] = [client[p] EXCEPT !.pc = "lock", !.began = clock',
                                        !.req = [client[p].req EXCEPT !.acc = a]]]
  BY <1>1, <1>2 DEF ClientTypes, Request
<1>5. [client[p] EXCEPT !.pc = "lock", !.began = clock', !.req = [client[p].req EXCEPT !.acc = a]]
        \in [pc : Pcs, req : Request, began : Nat, seen : [Accounts -> Int]]
  BY <1>2, <1>3 DEF Pcs
<1>6. ClientTypes'
  BY <1>1, <1>4, <1>5 DEF ClientTypes
<1>7. /\ client'[p].pc = "lock" /\ client'[p].req = [client[p].req EXCEPT !.acc = a]
      /\ \A q \in Clients \ {p} : client'[q] = client[q]
  BY <1>2, <1>4 DEF ClientTypes
<1>8. Sound([client[p].req EXCEPT !.acc = a])
  BY <1>1, <1>2, <1>3 DEF Placed, Sound, Request
<1>9. Placed(p)'
  BY <1>2, <1>7, <1>8 DEF Placed, Sound, Request, InTx
<1>10. ASSUME NEW q \in Clients \ {p} PROVE Placed(q)'
  BY <1>7, <1>10 DEF Placed, Sound
<1> QED BY <1>6, <1>9, <1>10

LEMMA RestIn ==
  ASSUME NEW p \in Clients, ClientTypes, Placed(p), client[p].pc = "lock", Rest(p) # {}
  PROVE  NextRow(p) \in Rest(p) /\ NextRow(p) \in Accounts /\ \A b \in Rest(p) : NextRow(p) <= b
<1>1. /\ client[p].req.acc \in Accounts
      /\ client[p].req.kind = "merge" => client[p].req.to \in Accounts
  BY DEF Placed, Sound, InTx
<1>2. /\ Rest(p) \subseteq {client[p].req.acc, client[p].req.to} \cap Accounts
  BY <1>1 DEF Rest, Wanted
<1>3. Accounts \subseteq Nat
  BY MoneyAssumption
<1>4. \E a \in Rest(p) : \A b \in Rest(p) : a <= b
  <2>1. PICK a \in Rest(p) : TRUE
    OBVIOUS
  <2>2. \A b \in Rest(p) : b \in Nat
    BY <1>2, <1>3
  <2>3. CASE \A b \in Rest(p) : a <= b
    BY <2>1, <2>3
  <2>4. CASE \E b \in Rest(p) : b < a
    <3>1. PICK b \in Rest(p) : b < a
      BY <2>4
    <3>2. \A c \in Rest(p) : c = a \/ c = b
      BY <1>2, <2>1, <2>2, <3>1
    <3> QED BY <2>1, <2>2, <3>1, <3>2
  <2> QED BY <2>1, <2>2, <2>3, <2>4
<1> QED BY <1>2, <1>4 DEF NextRow

LEMMA TookTypes ==
  ASSUME NEW p \in Clients, ClientTypes, StoredTypes, \A q \in Clients : Placed(q),
         Rest(p) # {}, Took(p)
  PROVE  ClientTypes' /\ \A q \in Clients : Placed(q)'
<1>1. NextRow(p) \in Accounts
  BY RestIn DEF Took
<1>2. PICK a \in Accounts :
        /\ a = NextRow(p)
        /\ lock' = [lock EXCEPT ![a] = p]
        /\ client' = [client EXCEPT ![p].seen[a] = cache[a],
                                    ![p].pc = IF Rest(p) = {a} THEN "write" ELSE "lock"]
  BY <1>1 DEF Took
<1>3. PICK pc \in {"write", "lock"} : pc = IF Rest(p) = {a} THEN "write" ELSE "lock"
  OBVIOUS
<1>4. client[p] \in [pc : Pcs, req : Request, began : Nat, seen : [Accounts -> Int]]
  BY DEF ClientTypes
<1>5. cache[a] \in Int
  BY DEF StoredTypes
<1>6. client' = [client EXCEPT ![p] = [client[p] EXCEPT !.seen = [client[p].seen EXCEPT ![a] = cache[a]],
                                                         !.pc = pc]]
  BY <1>2, <1>3, <1>4 DEF ClientTypes
<1>7. [client[p].seen EXCEPT ![a] = cache[a]] \in [Accounts -> Int]
  BY <1>4, <1>5
<1>8. [client[p] EXCEPT !.seen = [client[p].seen EXCEPT ![a] = cache[a]], !.pc = pc]
        \in [pc : Pcs, req : Request, began : Nat, seen : [Accounts -> Int]]
  BY <1>4, <1>7 DEF Pcs
<1>9. lock' \in [Accounts -> Clients \cup {None}]
  BY <1>2 DEF ClientTypes
<1>10. ClientTypes'
  BY <1>6, <1>8, <1>9 DEF ClientTypes
<1>11. /\ client'[p].pc = pc /\ client'[p].req = client[p].req
       /\ \A q \in Clients \ {p} : client'[q] = client[q]
  BY <1>4, <1>6 DEF ClientTypes
<1>12. client[p].pc = "lock"
  BY DEF Took
<1>13. Placed(p)'
  BY <1>11, <1>12 DEF Placed, Sound, InTx
<1>14. ASSUME NEW q \in Clients \ {p} PROVE Placed(q)'
  BY <1>11, <1>14 DEF Placed, Sound
<1> QED BY <1>10, <1>13, <1>14

LEMMA RetriedTypes ==
  ASSUME NEW p \in Clients, ClientTypes, clock' \in Nat, \A q \in Clients : Placed(q), Retried(p)
  PROVE  ClientTypes' /\ \A q \in Clients : Placed(q)'
<1>1. /\ InTx(client[p].pc) /\ lock' = Unlocked(p)
      /\ client' = [client EXCEPT ![p] = [client[p] EXCEPT !.pc = "lock", !.began = clock']]
  BY DEF Retried, ClientTypes
<1>2. client[p] \in [pc : Pcs, req : Request, began : Nat, seen : [Accounts -> Int]]
  BY DEF ClientTypes
<1>3. [client[p] EXCEPT !.pc = "lock", !.began = clock']
        \in [pc : Pcs, req : Request, began : Nat, seen : [Accounts -> Int]]
  BY <1>2 DEF Pcs
<1>4. lock' \in [Accounts -> Clients \cup {None}]
  BY <1>1 DEF ClientTypes, Unlocked
<1>5. ClientTypes'
  BY <1>1, <1>3, <1>4 DEF ClientTypes
<1>6. /\ client'[p].pc = "lock" /\ client'[p].req = client[p].req
      /\ \A q \in Clients \ {p} : client'[q] = client[q]
  BY <1>1, <1>2 DEF ClientTypes
<1>7. Placed(p)'
  BY <1>1, <1>6 DEF Placed, Sound, InTx
<1>8. ASSUME NEW q \in Clients \ {p} PROVE Placed(q)'
  BY <1>6, <1>8 DEF Placed, Sound
<1> QED BY <1>5, <1>7, <1>8

(***************************************************************************)
(* The locks.                                                              *)
(***************************************************************************)
\* What a step leaves alone of another client's locks
Spared(q) ==
  /\ client'[q] = client[q]
  /\ \A a \in Accounts : lock'[a] = q <=> lock[a] = q

FreeOrSame == \A a \in Accounts : cache'[a] # cache[a] => lock'[a] = None

LEMMA SparedHolds ==
  ASSUME NEW q \in Clients, Holds(q), Spared(q), FreeOrSame
  PROVE  Holds(q)'
<1>1. Held(q)' = Held(q)
  BY DEF Held, Spared
<1>2. Rest(q)' = Rest(q)
  BY <1>1 DEF Rest, Wanted, Spared
<1>3. q # None
  BY MoneyAssumption
<1>4. \A a \in Held(q) : cache'[a] = cache[a]
  BY <1>3 DEF Held, Spared, FreeOrSame
<1> QED BY <1>1, <1>2, <1>4 DEF Holds, Spared

LEMMA UnlockedSpares ==
  ASSUME NEW p \in Clients, NEW q \in Clients \ {p}, ClientTypes, lock' = Unlocked(p),
         client'[q] = client[q]
  PROVE  Spared(q)
<1>1. p # None /\ q # None
  BY MoneyAssumption
<1> QED BY <1>1 DEF Spared, Unlocked

LEMMA UnlockedHeld ==
  ASSUME NEW p \in Clients, lock' = Unlocked(p)
  PROVE  Held(p)' = {}
<1>1. p # None
  BY MoneyAssumption
<1> QED BY <1>1 DEF Held, Unlocked

LEMMA AwayHolds ==
  ASSUME NEW p \in Clients, ClientTypes, FreeOrSame, \A q \in Clients : Holds(q), Away(p)
  PROVE  \A q \in Clients : Holds(q)'
<1>1. PICK pc \in Pcs, r \in Request :
        /\ ~InTx(pc)
        /\ client' = [client EXCEPT ![p] = Resting(pc, r)]
        /\ lock' = Unlocked(p)
  BY DEF Away
<1>2. \A q \in Clients \ {p} : client'[q] = client[q]
  BY <1>1 DEF ClientTypes
<1>3. ASSUME NEW q \in Clients \ {p} PROVE Holds(q)'
  BY <1>1, <1>2, UnlockedSpares, SparedHolds
<1>4. client'[p].pc = pc
  BY <1>1 DEF ClientTypes, Resting, NoClient
<1>5. Holds(p)'
  BY <1>1, <1>4, UnlockedHeld DEF Holds, InTx
<1> QED BY <1>3, <1>5

LEMMA BegunHolds ==
  ASSUME NEW p \in Clients, ClientTypes, FreeOrSame, \A q \in Clients : Holds(q), Begun(p)
  PROVE  \A q \in Clients : Holds(q)'
<1>1. PICK a \in Accounts :
        client' = [client EXCEPT ![p].pc = "lock", ![p].began = clock', ![p].req.acc = a]
  BY DEF Begun
<1>2. /\ \A q \in Clients \ {p} : client'[q] = client[q]
      /\ client'[p].pc = "lock"
  BY <1>1 DEF ClientTypes
<1>3. lock' = lock /\ ~InTx(client[p].pc)
  BY DEF Begun
<1>4. ASSUME NEW q \in Clients \ {p} PROVE Holds(q)'
  BY <1>2, <1>3, SparedHolds DEF Spared
<1>5. Held(p)' = {}
  BY <1>3 DEF Held, Holds
<1>6. Rest(p)' # {}
  BY <1>5 DEF Rest, Wanted
<1>7. Holds(p)'
  BY <1>2, <1>5, <1>6 DEF Holds, InTx
<1> QED BY <1>4, <1>7

LEMMA RetriedHolds ==
  ASSUME NEW p \in Clients, ClientTypes, FreeOrSame, \A q \in Clients : Holds(q), Retried(p)
  PROVE  \A q \in Clients : Holds(q)'
<1>1. /\ lock' = Unlocked(p)
      /\ client' = [client EXCEPT ![p].pc = "lock", ![p].began = clock']
  BY DEF Retried
<1>2. /\ \A q \in Clients \ {p} : client'[q] = client[q]
      /\ client'[p].pc = "lock"
  BY <1>1 DEF ClientTypes
<1>3. ASSUME NEW q \in Clients \ {p} PROVE Holds(q)'
  BY <1>1, <1>2, UnlockedSpares, SparedHolds
<1>4. Held(p)' = {}
  BY <1>1, UnlockedHeld
<1>5. Rest(p)' # {}
  BY <1>4 DEF Rest, Wanted
<1>6. Holds(p)'
  BY <1>2, <1>4, <1>5 DEF Holds, InTx
<1> QED BY <1>3, <1>6

LEMMA TookHolds ==
  ASSUME NEW p \in Clients, ClientTypes, Placed(p), \A q \in Clients : Holds(q), Took(p)
  PROVE  \A q \in Clients : Holds(q)'
<1>1. Rest(p) # {} /\ \A a \in Held(p), b \in Rest(p) : a < b
  BY DEF Took, Holds
<1>2. PICK a \in Accounts : a = NextRow(p) /\ a \in Rest(p) /\ \A b \in Rest(p) : a <= b
  BY <1>1, RestIn DEF Took
<1>3. /\ lock' = [lock EXCEPT ![a] = p] /\ lock[a] = None /\ cache' = cache
      /\ client' = [client EXCEPT ![p].seen[a] = cache[a],
                                  ![p].pc = IF Rest(p) = {a} THEN "write" ELSE "lock"]
  BY <1>2 DEF Took
<1>4. p # None /\ Accounts \subseteq Nat
  BY MoneyAssumption
<1>5. /\ \A q \in Clients \ {p} : client'[q] = client[q]
      /\ client'[p].pc = IF Rest(p) = {a} THEN "write" ELSE "lock"
      /\ client'[p].req = client[p].req
      /\ \A b \in Accounts : client'[p].seen[b] = IF b = a THEN cache[a] ELSE client[p].seen[b]
  BY <1>3 DEF ClientTypes
<1>6. ASSUME NEW q \in Clients \ {p} PROVE Holds(q)'
  <2>1. q # None
    BY MoneyAssumption
  <2>2. Spared(q) /\ FreeOrSame
    BY <1>3, <1>5, <2>1 DEF Spared, ClientTypes, FreeOrSame
  <2> QED BY <2>2, SparedHolds
<1>7. Held(p)' = Held(p) \cup {a}
  BY <1>3, <1>4 DEF Held, ClientTypes
<1>8. Rest(p)' = Rest(p) \ {a}
  BY <1>5, <1>7 DEF Rest, Wanted
<1>9. \A b \in Held(p)' : client'[p].seen[b] = cache'[b]
  BY <1>3, <1>5, <1>7 DEF Holds, Held
<1>10. \A b \in Rest(p) : b \in Nat
  <2>1. InTx(client[p].pc)
    BY DEF Took, InTx
  <2> QED BY <1>4, <2>1 DEF Placed, Sound, Rest, Wanted
<1>11. \A b \in Held(p)', c \in Rest(p)' : b < c
  <2>1. ASSUME NEW c \in Rest(p)' PROVE a < c
    <3>1. c \in Rest(p) /\ c # a
      BY <1>8
    <3>2. c \in Nat /\ a \in Nat /\ a <= c
      BY <1>2, <1>4, <1>10, <3>1
    <3> QED BY <3>1, <3>2
  <2> QED BY <1>1, <1>7, <1>8, <2>1
<1>12. client'[p].pc = "write" => Rest(p)' = {}
  BY <1>5, <1>8
<1>13. client'[p].pc = "lock" => Rest(p)' # {}
  BY <1>2, <1>5, <1>8
<1>14. InTx(client'[p].pc)
  BY <1>5 DEF InTx
<1>15. Holds(p)'
  BY <1>9, <1>11, <1>12, <1>13, <1>14 DEF Holds
<1> QED BY <1>6, <1>15

(***************************************************************************)
(* The accounts.                                                           *)
(***************************************************************************)
LEMMA BookedBalanced ==
  ASSUME NEW a \in Accounts, StoredTypes, StoredTypes', edited \subseteq edited',
         Balanced(a), Booked(a)
  PROVE  Balanced(a)'
<1>1. /\ cache[a] \in Int /\ cache'[a] \in Int /\ posted[a] \in Int /\ posted'[a] \in Int
      /\ a \notin edited' => a \notin edited
  BY DEF StoredTypes
<1>2. CASE Kept(a)
  BY <1>1, <1>2 DEF Balanced, Kept
<1>3. CASE Posted(a)
  BY <1>1, <1>3 DEF Balanced, Posted
<1>4. CASE Healed(a)
  BY <1>1, <1>4 DEF Balanced, Healed
<1>5. CASE Dropped(a)
  BY <1>1, <1>5 DEF Balanced, Dropped
<1>6. CASE ByHand(a)
  BY <1>1, <1>6 DEF Balanced, ByHand
<1> QED BY <1>2, <1>3, <1>4, <1>5, <1>6 DEF Booked

LEMMA BookedListed ==
  ASSUME StoredTypes, StoredTypes', \A a \in Accounts : Booked(a), Closing, OneListed
  PROVE  OneListed'
<1>1. SUFFICES ASSUME NEW c \in Accounts, status'[c] = "CLOSED"
               PROVE  \E a \in Accounts : Listed(a)'
  BY DEF OneListed
<1>2. CASE \E a \in Accounts : status'[a] = "CLOSED" /\ status[a] # "CLOSED"
  BY <1>2 DEF Closing
<1>3. CASE \A a \in Accounts : status'[a] = "CLOSED" => status[a] = "CLOSED"
  <2>1. PICK a \in Accounts : Listed(a)
    BY <1>1, <1>3 DEF OneListed
  <2>2. status'[a] \in {"NONE", "ACTIVE", "CLOSED"} /\ status'[a] # "CLOSED"
    BY <1>3, <2>1 DEF StoredTypes, Listed
  <2>3. Listed(a)'
    BY <2>1, <2>2 DEF Listed, Booked, Kept, Posted, Healed, Dropped, ByHand
  <2> QED BY <2>3
<1> QED BY <1>2, <1>3

(***************************************************************************)
(* The returns.                                                            *)
(***************************************************************************)
LEMMA TakenStays ==
  ASSUME NEW t, NEW r, ledger \subseteq ledger', Taken(t, r)
  PROVE  Taken(t, r)'
BY DEF Taken, Found

LEMMA RefundedStays ==
  ASSUME RefundedMeansCredited, ReturnsMove, LedgerGrows
  PROVE  RefundedMeansCredited'
BY TakenStays DEF RefundedMeansCredited, ReturnsMove, LedgerGrows

LEMMA CreditedStays ==
  ASSUME CreditedNeverReopens, ReturnsMove, LedgerGrows, \A p \in Clients : Credited(p)
  PROVE  CreditedNeverReopens'
<1>1. SUFFICES ASSUME NEW r \in ReturnIds, Taken("REFUND", r)'
               PROVE  ret'[r] \in Settled
  BY DEF CreditedNeverReopens, Settled
<1>2. ret[r] \in Settled
  <2>1. PICK x \in ledger' : x.type = "REFUND" /\ x.ref = r
    BY <1>1 DEF Taken, Found
  <2>2. CASE x \in ledger
    BY <2>1, <2>2 DEF CreditedNeverReopens, Taken, Found, Settled
  <2>3. CASE x \notin ledger
    BY <2>1, <2>3 DEF LedgerGrows, Credited
  <2> QED BY <2>2, <2>3
<1> QED BY <1>2 DEF ReturnsMove

LEMMA ClientsCredited ==
  ASSUME ClientTypes, ClientsMove, ReturnsMove, LedgerGrows,
         \A p \in Clients : Placed(p) /\ Credited(p)
  PROVE  \A p \in Clients : Credited(p)'
<1>1. ASSUME NEW q \in Clients, client'[q] = client[q] PROVE Credited(q)'
  <2>1. client[q].req.kind = "refund" => client[q].req.key \in ReturnIds
    BY DEF Placed, Sound
  <2> QED BY <1>1, <2>1, TakenStays DEF Credited, Refunding, ReturnsMove, LedgerGrows
<1>2. ASSUME NEW p \in Clients, Away(p) PROVE \A q \in Clients : Credited(q)'
  <2>1. PICK pc \in Pcs, r \in Request :
          /\ ~InTx(pc) /\ Sound(r) /\ Fits(pc, r)
          /\ client' = [client EXCEPT ![p] = Resting(pc, r)]
    BY <1>2 DEF Away
  <2>2. \A q \in Clients \ {p} : client'[q] = client[q]
    BY <2>1 DEF ClientTypes
  <2>3. client'[p].pc = pc /\ client'[p].req = r
    BY <2>1 DEF ClientTypes, Resting, NoClient
  <2>4. Credited(p)'
    BY <2>1, <2>3 DEF Credited, Refunding, Fits, Sound, InTx, ReturnsMove, Taken, Found
  <2> QED BY <1>1, <2>2, <2>4
<1>3. ASSUME NEW p \in Clients, Begun(p) PROVE \A q \in Clients : Credited(q)'
  <2>1. PICK a \in Accounts :
          /\ client[p].req.kind = "refund" => ret[client[p].req.key] \in Settled
          /\ client' = [client EXCEPT ![p].pc = "lock", ![p].began = clock', ![p].req.acc = a]
    BY <1>3 DEF Begun
  <2>2. \A q \in Clients \ {p} : client'[q] = client[q]
    BY <2>1 DEF ClientTypes
  <2>3. client[p].req \in Request
    BY DEF ClientTypes
  <2>4. /\ client'[p].pc = "lock" /\ client'[p].req.kind = client[p].req.kind
        /\ client'[p].req.key = client[p].req.key
    BY <2>1, <2>3 DEF ClientTypes, Request
  <2>5. Credited(p)'
    BY <2>1, <2>4 DEF Credited, Refunding, Placed, Sound, ReturnsMove
  <2> QED BY <1>1, <2>2, <2>5
<1>4. ASSUME NEW p \in Clients, InTx(client[p].pc), client'[p].req = client[p].req,
             InTx(client'[p].pc), \A q \in Clients \ {p} : client'[q] = client[q]
      PROVE  \A q \in Clients : Credited(q)'
  <2>1. Credited(p)'
    BY <1>4 DEF Credited, Refunding, Placed, Sound, InTx, ReturnsMove
  <2> QED BY <1>1, <1>4, <2>1
<1>5. ASSUME NEW p \in Clients, Took(p) PROVE \A q \in Clients : Credited(q)'
  BY <1>4, <1>5, ZenonT(30) DEF Took, ClientTypes, InTx
<1>6. ASSUME NEW p \in Clients, Retried(p) PROVE \A q \in Clients : Credited(q)'
  BY <1>4, <1>6 DEF Retried, ClientTypes, InTx
<1> QED BY <1>1, <1>2, <1>3, <1>5, <1>6 DEF ClientsMove

(***************************************************************************)
(* Every shape keeps the invariant.                                        *)
(***************************************************************************)
LEMMA ShapeKeeps == Inv /\ Shape /\ ReturnsMove => Inv'
<1> SUFFICES ASSUME Inv, Shape, ReturnsMove PROVE Inv'
  OBVIOUS
<1>1. StoredTypes /\ ClientTypes /\ StoredTypes'
  BY TypesParts DEF Inv, Shape
<1>2. FreeOrSame
  BY DEF Shape, Booked, FreeOrSame
<1>3. clock' \in Nat
  BY <1>1 DEF StoredTypes
<1>4. ClientTypes' /\ \A q \in Clients : Placed(q)' /\ Holds(q)'
  <2>1. CASE UNCHANGED <<client, lock>>
    <3>1. ClientTypes' /\ \A q \in Clients : Placed(q)'
      BY <1>1, <2>1 DEF ClientTypes, Placed, Sound, Inv
    <3>2. \A q \in Clients : Holds(q)'
      BY <1>2, <2>1, SparedHolds DEF Spared, Inv
    <3> QED BY <3>1, <3>2
  <2>2. ASSUME NEW p \in Clients, Away(p) \/ Begun(p) \/ Took(p) \/ Retried(p)
        PROVE  ClientTypes' /\ \A q \in Clients : Placed(q)' /\ Holds(q)'
    <3>1. CASE Away(p)
      BY <1>1, <1>2, <3>1, AwayTypes, AwayHolds DEF Inv
    <3>2. CASE Begun(p)
      BY <1>1, <1>2, <1>3, <3>2, BegunTypes, BegunHolds DEF Inv
    <3>3. CASE Took(p)
      <4>1. Rest(p) # {}
        BY <3>3 DEF Took, Inv, Holds
      <4> QED BY <1>1, <3>3, <4>1, TookTypes, TookHolds DEF Inv
    <3>4. CASE Retried(p)
      BY <1>1, <1>2, <1>3, <3>4, RetriedTypes, RetriedHolds DEF Inv
    <3> QED BY <2>2, <3>1, <3>2, <3>3, <3>4
  <2> QED BY <2>1, <2>2 DEF Shape, ClientsMove
<1>5. MoneyTypeOK'
  <2>1. MoneyTypeOK' <=> StoredTypes' /\ ClientTypes'
    BY DEF MoneyTypeOK, StoredTypes, ClientTypes
  <2> QED BY <1>1, <1>4, <2>1
<1>6. \A p \in Clients : Credited(p)'
  BY <1>1, ClientsCredited DEF Inv, Shape
<1>7. \A a \in Accounts : Balanced(a)'
  BY <1>1, BookedBalanced DEF Inv, Shape, LedgerGrows
<1>8. OneListed'
  BY <1>1, BookedListed DEF Inv, Shape
<1>9. RefundedMeansCredited' /\ CreditedNeverReopens'
  BY RefundedStays, CreditedStays DEF Inv, Shape
<1>10. ReturnTypes'
  BY DEF ReturnsMove
<1> QED BY <1>4, <1>5, <1>6, <1>7, <1>8, <1>9, <1>10 DEF Inv

(***************************************************************************)
(* The building blocks of the actions have these shapes.                   *)
(***************************************************************************)
Vaults == [spent : Nat, charged : Nat, unheard : Nat]

\* Nothing on the accounts or the ledger changes.
LEMMA QuietShape ==
  ASSUME Inv, ClientsMove, UNCHANGED <<stored, edited>>, clock' \in Nat,
         vault' \in Vaults, events' \in 0 .. MaxEvents
  PROVE  Shape
<1>1. StoredTypes
  BY TypesParts DEF Inv
<1>2. StoredTypes'
  BY <1>1 DEF StoredTypes, Rows, stored, Vaults
<1>3. \A a \in Accounts : Booked(a)
  BY DEF Booked, Kept, RowsOf, stored
<1>4. Closing /\ LedgerGrows
  BY DEF Closing, LedgerGrows, stored
<1> QED BY <1>2, <1>3, <1>4 DEF Shape

LEMMA Counts ==
  ASSUME Inv
  PROVE  /\ clock \in Nat /\ vault \in Vaults /\ events \in 0 .. MaxEvents
         /\ Counted => events' \in 0 .. MaxEvents
         /\ clock + 1 \in Nat
<1>1. MaxEvents \in Nat
  BY MoneyAssumption
<1> QED BY <1>1 DEF Inv, MoneyTypeOK, Vaults, Counted

LEMMA GoesAway ==
  ASSUME Inv, NEW p \in Clients, NEW pc \in Pcs, ~InTx(pc), Fits(pc, client[p].req), Goes(p, pc)
  PROVE  Away(p)
<1>1. client[p].req \in Request /\ Sound(client[p].req)
  BY DEF Inv, Placed, Sound
<1>2. NoRequest \in Request /\ Sound(NoRequest)
  BY DEF NoRequest, Request, Kinds, Sound
<1>3. Fits(pc, IF pc = "refused" THEN NoRequest ELSE client[p].req)
  BY DEF Fits, NoRequest
<1>5. PICK r \in Request : /\ r = IF pc = "refused" THEN NoRequest ELSE client[p].req
                           /\ Sound(r) /\ Fits(pc, r)
  BY <1>1, <1>2, <1>3
<1>6. client' = [client EXCEPT ![p] = Resting(pc, r)]
  BY <1>5 DEF Goes, Resting
<1>7. lock' = Unlocked(p)
  BY DEF Goes
<1> QED BY <1>5, <1>6, <1>7 DEF Away

LEMMA StepsShape ==
  ASSUME Inv, NEW p \in Clients, NEW pc \in Pcs, ~InTx(pc), Fits(pc, client[p].req), Steps(p, pc)
  PROVE  Shape
<1>1. ClientsMove
  BY GoesAway DEF Steps, ClientsMove
<1> QED BY <1>1, QuietShape, Counts DEF Steps, bounds

\* A client that ends or refuses
LEMMA EndsShape ==
  ASSUME Inv, NEW p \in Clients, NEW pc \in {"paid", "refused", "reread", "release"}, Steps(p, pc),
         pc = "release" => client[p].req.kind = "vault"
  PROVE  Shape
BY StepsShape DEF Fits, InTx, Pcs, AtRest

LEMMA BeginsShape ==
  ASSUME Inv, NEW p \in Clients, NEW a \in Accounts, ~InTx(client[p].pc), Begins(p, a),
         client[p].req.kind = "merge" => a = client[p].req.acc,
         client[p].req.kind = "refund" => ret[client[p].req.key] \in Settled,
         vault' \in Vaults
  PROVE  Shape
<1>1. Begun(p)
  BY DEF Begun, Begins
<1>2. clock' \in Nat
  BY Counts DEF Begins
<1> QED BY <1>1, <1>2, QuietShape, Counts DEF ClientsMove, Begins, bounds

LEMMA FailsShape ==
  ASSUME Inv, NEW p \in Clients, NEW d \in BOOLEAN, client[p].pc = "write", Fails(p, d),
         client[p].req.kind = "refund" /\ d => Taken("REFUND", client[p].req.key)
  PROVE  Shape
<1>1. ledger' = ledger
  BY DEF Fails, Steps, stored
<1>2. CASE AfterError(client[p].req.kind, d) = "move"
  <2>1. client[p].req.kind = "refund" /\ d
    BY <1>2 DEF AfterError
  <2>2. Fits("move", client[p].req)
    BY <1>1, <2>1 DEF Fits, Inv, Credited, Refunding, Taken, Found
  <2> QED BY <1>2, <2>2, StepsShape DEF Fails, Pcs, InTx
<1>3. CASE AfterError(client[p].req.kind, d) # "move"
  <2>1. PICK pc \in {"release", "refused", "reread"} :
          pc = AfterError(client[p].req.kind, d) /\ (pc = "release" => client[p].req.kind = "vault")
    BY <1>3 DEF AfterError
  <2> QED BY <2>1, EndsShape DEF Fails
<1> QED BY <1>2, <1>3

(***************************************************************************)
(* A commit.                                                               *)
(***************************************************************************)
\* What makes a commit's rows right
Writes(p, rows) ==
  /\ \A x \in rows :
       /\ x.acc \in Accounts /\ x.delta \in Int /\ x.after \in Int /\ x.at \in Nat
       /\ x.after = cache[x.acc] + x.delta /\ x.after >= 0
       /\ lock[x.acc] \in {p, None}
       /\ status'[x.acc] # "NONE"
       /\ x.type = "REFUND" => Refunding(p) /\ x.ref = client[p].req.key
  /\ \A x, y \in rows : x.acc = y.acc => x = y
  /\ client[p].req.kind = "refund" =>
       Refunding(p) /\ \E x \in rows : x.type = "REFUND" /\ x.ref = client[p].req.key
  /\ status' \in [Accounts -> {"NONE", "ACTIVE", "CLOSED"}]
  /\ \A a \in Accounts : (\A x \in rows : x.acc # a) => status'[a] = status[a]

LEMMA CommitBooks ==
  ASSUME Inv, NEW p \in Clients, NEW rows, Commit(p, rows), Writes(p, rows)
  PROVE  /\ \A a \in Accounts : Booked(a)
         /\ cache' \in [Accounts -> Int] /\ posted' \in [Accounts -> Int]
<1>1. cache \in [Accounts -> Int] /\ posted \in [Accounts -> Int]
  BY DEF Inv, MoneyTypeOK
<1> DEFINE Of(a) == CHOOSE x \in rows : x.acc = a
           moved == {x.acc : x \in rows}
<1>2. /\ cache' = [a \in Accounts |-> IF a \in moved THEN Of(a).after ELSE cache[a]]
      /\ posted' = [a \in Accounts |-> IF a \in moved THEN posted[a] + Of(a).delta ELSE posted[a]]
      /\ ledger' = ledger \cup rows
      /\ lock' = Unlocked(p)
  BY DEF Commit, Goes
<1>3. \A a \in moved : Of(a) \in rows /\ Of(a).acc = a
  OBVIOUS
<1> HIDE DEF Of
<1>4. ASSUME NEW a \in Accounts
      PROVE  Booked(a) /\ cache'[a] \in Int /\ posted'[a] \in Int
  <2>1. CASE a \in moved
    <3>1. PICK x \in rows : x = Of(a) /\ x.acc = a
      BY <1>3, <2>1
    <3>2. cache'[a] = x.after /\ posted'[a] = posted[a] + x.delta
      BY <1>2, <2>1, <3>1
    <3>3. /\ x.delta \in Int /\ x.after \in Int /\ x.after = cache[a] + x.delta /\ x.after >= 0
          /\ lock[a] \in {p, None} /\ status'[a] # "NONE"
      BY <3>1 DEF Writes
    <3>4. RowsOf(a)' # {}
      BY <1>2, <3>1 DEF RowsOf
    <3>5. lock'[a] = None
      BY <1>2, <3>3 DEF Unlocked
    <3>6. cache[a] \in Int /\ posted[a] \in Int
      BY <1>1
    <3>7. cache'[a] - posted'[a] = cache[a] - posted[a] /\ cache'[a] >= 0
      BY <3>2, <3>3, <3>6
    <3> QED BY <3>2, <3>3, <3>4, <3>5, <3>6, <3>7 DEF Booked, Posted
  <2>2. CASE a \notin moved
    <3>1. cache'[a] = cache[a] /\ posted'[a] = posted[a]
      BY <1>2, <2>2
    <3>2. RowsOf(a)' = RowsOf(a)
      BY <1>2, <2>2 DEF RowsOf
    <3>3. status'[a] = status[a]
      BY <2>2 DEF Writes
    <3> QED BY <1>1, <3>1, <3>2, <3>3 DEF Booked, Kept
  <2> QED BY <2>1, <2>2
<1> QED BY <1>2, <1>4

LEMMA CommitShape ==
  ASSUME Inv, NEW p \in Clients, NEW rows, Commit(p, rows), Writes(p, rows), Closing
  PROVE  Shape
<1>1. PICK pc \in {"move", "paid", "release", "refused"} :
        /\ Goes(p, pc)
        /\ pc = "move" => client[p].req.kind = "refund"
        /\ pc = "release" => client[p].req.kind = "vault"
  BY DEF Commit, AfterCommit, AfterError
<1>2. ledger' = ledger \cup rows /\ clock' = clock /\ edited' = edited
  BY DEF Commit
<1>3. Fits(pc, client[p].req)
  <2>1. pc = "move" => \E x \in ledger' : x.type = "REFUND" /\ x.ref = client[p].req.key
    BY <1>1, <1>2 DEF Writes
  <2>2. pc = "move" => ret[client[p].req.key] \in Settled
    BY <1>1 DEF Writes, Inv, Credited
  <2> QED BY <1>1, <2>1, <2>2 DEF Fits
<1>4. ClientsMove
  BY <1>1, <1>3, GoesAway DEF ClientsMove, Pcs, AtRest, InTx
<1>5. LedgerGrows
  BY <1>2 DEF LedgerGrows, Writes
<1>6. vault' \in Vaults
  <2>1. Charge(p) \in Nat
    BY DEF Charge, Inv, Placed, Sound, Request
  <2>2. vault \in Vaults
    BY Counts
  <2>3. PICK n \in Nat : n = Charge(p)
    BY <2>1
  <2>4. \/ vault' = [vault EXCEPT !.charged = vault.charged + n]
        \/ vault' = [vault EXCEPT !.charged = vault.charged + n, !.unheard = vault.unheard + n]
    BY <2>3 DEF Commit
  <2>5. /\ vault.spent \in Nat
        /\ vault.charged + n \in Nat /\ vault.unheard + n \in Nat
    BY <2>2 DEF Vaults
  <2>6. /\ [vault EXCEPT !.charged = vault.charged + n] \in Vaults
        /\ [vault EXCEPT !.charged = vault.charged + n, !.unheard = vault.unheard + n] \in Vaults
    BY <2>2, <2>5 DEF Vaults
  <2> QED BY <2>4, <2>6
<1>7. events' \in 0 .. MaxEvents
  BY Counts DEF Commit
<1>8. Rows(ledger')
  BY <1>2 DEF Rows, Writes, Inv, MoneyTypeOK
<1>9. StoredTypes'
  <2>1. clock' \in Nat /\ edited' \subseteq Accounts
    BY <1>2 DEF Inv, MoneyTypeOK
  <2>2. status' \in [Accounts -> {"NONE", "ACTIVE", "CLOSED"}]
    BY DEF Writes
  <2>3. cache' \in [Accounts -> Int] /\ posted' \in [Accounts -> Int]
    BY CommitBooks
  <2> QED BY <1>6, <1>7, <1>8, <2>1, <2>2, <2>3 DEF StoredTypes, Vaults
<1> QED BY <1>4, <1>5, <1>9, CommitBooks DEF Shape

(***************************************************************************)
(* The writes.                                                             *)
(***************************************************************************)
\* Who writes holds its rows, and has seen them as they are.
LEMMA WriterHolds ==
  ASSUME Inv, NEW p \in Clients, client[p].pc = "write"
  PROVE  /\ client[p].req \in Request /\ Sound(client[p].req)
         /\ client[p].began \in Nat /\ client[p].req.acc \in Accounts
         /\ \A a \in Wanted(p) \cap Accounts : lock[a] = p /\ client[p].seen[a] = cache[a]
         /\ lock[client[p].req.acc] = p
         /\ client[p].seen[client[p].req.acc] = cache[client[p].req.acc]
         /\ cache[client[p].req.acc] \in Int
         /\ client[p].req.kind = "refund" => Refunding(p)
<1>1. Placed(p) /\ Holds(p)
  BY DEF Inv
<1>2. client[p].req \in Request /\ Sound(client[p].req) /\ client[p].req.acc \in Accounts
  BY <1>1 DEF Placed, Sound, InTx
<1>3. client[p].began \in Nat
  BY DEF Inv, MoneyTypeOK
<1>4. \A a \in Wanted(p) : a \in Held(p)
  BY <1>1 DEF Holds, Rest
<1>5. \A a \in Wanted(p) \cap Accounts : lock[a] = p /\ client[p].seen[a] = cache[a]
  BY <1>1, <1>4 DEF Holds, Held
<1>6. client[p].req.acc \in Wanted(p)
  BY DEF Wanted
<1>7. cache[client[p].req.acc] \in Int
  BY <1>2 DEF Inv, MoneyTypeOK
<1> QED BY <1>2, <1>3, <1>5, <1>6, <1>7 DEF Refunding

LEMMA PostShape ==
  ASSUME Inv, NEW p \in Clients, NEW delta \in Int, NEW type, client[p].pc = "write",
         type = "REFUND" <=> client[p].req.kind = "refund", Post(p, delta, type)
  PROVE  Shape
<1> DEFINE a == client[p].req.acc
           row == Row(p, a, delta, type, client[p].req.key)
<1>1. /\ a \in Accounts /\ lock[a] = p /\ client[p].seen[a] = cache[a]
      /\ cache[a] \in Int /\ client[p].began \in Nat
      /\ client[p].req.kind = "refund" => Refunding(p)
  BY WriterHolds
<1>2. CASE Fails(p, FALSE)
  BY <1>2, FailsShape
<1>3. CASE Taken(type, client[p].req.key) /\ Fails(p, TRUE)
  BY <1>3, FailsShape
<1>4. CASE /\ status[a] # "NONE" /\ row.after >= 0
           /\ Commit(p, {row}) /\ UNCHANGED status
  <2>1. /\ row.acc = a /\ row.delta = delta /\ row.type = type /\ row.ref = client[p].req.key
        /\ row.at = client[p].began /\ row.after = client[p].seen[a] + delta
    BY DEF Row
  <2> HIDE DEF row
  <2>2. status \in [Accounts -> {"NONE", "ACTIVE", "CLOSED"}]
    BY DEF Inv, MoneyTypeOK
  <2>3. row.after = cache[a] + delta /\ row.after \in Int
    BY <1>1, <2>1
  <2>4. Writes(p, {row})
    BY <1>1, <1>4, <2>1, <2>2, <2>3 DEF Writes
  <2>5. Closing
    BY <1>4 DEF Closing
  <2> QED BY <1>4, <2>4, <2>5, CommitShape
<1> QED BY <1>2, <1>3, <1>4 DEF Post

LEMMA PostsShape ==
  ASSUME Inv, NEW p \in Clients, WriteSpend(p) \/ WriteVault(p) \/ WriteRefund(p)
  PROVE  Shape
<1>1. client[p].pc = "write"
  BY DEF WriteSpend, WriteVault, WriteRefund, Writing
<1>2. PICK n \in Int : n = client[p].req.amount
  BY <1>1, WriterHolds DEF Request
<1>3. PICK m \in Int : m = -client[p].req.amount
  BY <1>2
<1>4. CASE WriteSpend(p)
  <2>1. client[p].req.kind = "spend" /\ Post(p, m, "SPEND")
    BY <1>3, <1>4 DEF WriteSpend, Writing
  <2> QED BY <1>1, <2>1, PostShape
<1>5. CASE WriteVault(p)
  <2>1. client[p].req.kind = "vault" /\ Post(p, m, "SPEND")
    BY <1>3, <1>5 DEF WriteVault, Writing
  <2> QED BY <1>1, <2>1, PostShape
<1>6. CASE WriteRefund(p)
  <2>1. client[p].req.kind = "refund" /\ Post(p, n, "REFUND")
    BY <1>2, <1>6 DEF WriteRefund, Writing
  <2> QED BY <1>1, <2>1, PostShape
<1> QED BY <1>4, <1>5, <1>6

LEMMA UndoShape ==
  ASSUME Inv, NEW p \in Clients, WriteUndo(p)
  PROVE  Shape
<1>1. PICK x \in SpendOf(client[p].req) : Post(p, -x.delta, "DEPOSIT")
  BY DEF WriteUndo
<1>2. client[p].pc = "write" /\ client[p].req.kind = "undo"
  BY DEF WriteUndo, Writing
<1>3. x.delta \in Int
  BY <1>1 DEF SpendOf, Found, Inv, MoneyTypeOK, Rows
<1>4. PICK n \in Int : n = -x.delta
  BY <1>3
<1>5. Post(p, n, "DEPOSIT")
  BY <1>1, <1>4
<1> QED BY <1>2, <1>5, PostShape

LEMMA MergeShape ==
  ASSUME Inv, NEW p \in Clients, WriteMerge(p)
  PROVE  Shape
<1> DEFINE s == client[p].req.acc
           t == client[p].req.to
           n == client[p].seen[s]
           out == Row(p, s, -n, "TRANSFER_OUT", <<s, t>>)
           in == Row(p, t, n, "TRANSFER_IN", <<s, t>>)
<1>1. client[p].pc = "write" /\ client[p].req.kind = "merge"
  BY DEF WriteMerge, Writing
<1>2. /\ s \in Accounts /\ t \in Accounts /\ s # t
      /\ client[p].began \in Nat
  BY <1>1, WriterHolds DEF Sound
<1>3. /\ lock[s] = p /\ client[p].seen[s] = cache[s]
      /\ lock[t] = p /\ client[p].seen[t] = cache[t]
  BY <1>1, <1>2, WriterHolds DEF Wanted
<1>4. /\ cache[s] \in Int /\ cache[t] \in Int
      /\ status \in [Accounts -> {"NONE", "ACTIVE", "CLOSED"}]
      /\ Balanced(t)
  BY <1>2 DEF Inv, MoneyTypeOK
<1>5. CASE Steps(p, "paid") \/ Steps(p, "refused")
  BY <1>5, EndsShape
<1>6. CASE /\ status[s] # "NONE" /\ status[t] # "NONE" /\ Open(s, t) /\ n > 0
           /\ client[p].seen[t] + n >= 0
           /\ Commit(p, {out, in}) /\ status' = [status EXCEPT ![s] = "CLOSED"]
  <2>1. /\ out.acc = s /\ out.delta = -n /\ out.type = "TRANSFER_OUT" /\ out.at = client[p].began
        /\ out.after = client[p].seen[s] + (-n)
        /\ in.acc = t /\ in.delta = n /\ in.type = "TRANSFER_IN" /\ in.at = client[p].began
        /\ in.after = client[p].seen[t] + n
    BY DEF Row
  <2> HIDE DEF out, in
  <2>2. n = cache[s] /\ n \in Int /\ -n \in Int /\ n > 0
    BY <1>3, <1>4, <1>6
  <2>3. out.after = cache[s] + (-n) /\ out.after = 0
    BY <1>3, <1>4, <2>1, <2>2
  <2>4. in.after = cache[t] + n /\ in.after \in Int /\ in.after >= 0
    BY <1>3, <1>4, <1>6, <2>1, <2>2
  <2>5. status'[s] = "CLOSED" /\ status'[t] = "ACTIVE"
    BY <1>2, <1>4, <1>6 DEF Open
  <2>6. status' \in [Accounts -> {"NONE", "ACTIVE", "CLOSED"}]
    BY <1>4, <1>6
  <2>7. \A a \in Accounts : a # s => status'[a] = status[a]
    BY <1>4, <1>6
  <2>8. \A x \in {out, in} :
          /\ x.acc \in Accounts /\ x.delta \in Int /\ x.after \in Int /\ x.at \in Nat
          /\ x.after = cache[x.acc] + x.delta /\ x.after >= 0
          /\ lock[x.acc] \in {p, None}
          /\ status'[x.acc] # "NONE" /\ x.type # "REFUND"
    BY <1>2, <1>3, <2>1, <2>2, <2>3, <2>4, <2>5
  <2>9. Writes(p, {out, in})
    BY <1>1, <1>2, <2>1, <2>6, <2>7, <2>8 DEF Writes
  <2>10. PICK b \in Accounts : b = t
    BY <1>2
  <2>11. Listed(b)'
    <3>1. in \in ledger'
      BY <1>6 DEF Commit
    <3> QED BY <2>1, <2>5, <2>10, <3>1 DEF Listed, RowsOf
  <2>12. Closing
    BY <1>2, <2>7, <2>11 DEF Closing
  <2> QED BY <1>6, <2>9, <2>12, CommitShape
<1> QED BY <1>5, <1>6 DEF WriteMerge

LEMMA CheckShape ==
  ASSUME Inv, NEW p \in Clients, WriteCheck(p)
  PROVE  Shape
<1> DEFINE a == client[p].req.acc
<1>1. client[p].pc = "write" /\ client[p].req.kind = "check"
  BY DEF WriteCheck, Writing
<1>2. /\ a \in Accounts /\ lock[a] = p /\ client[p].seen[a] = cache[a] /\ cache[a] \in Int
      /\ client[p].began \in Nat /\ client[p].req.amount \in Nat
  BY <1>1, WriterHolds DEF Request
<1>3. CASE Fails(p, FALSE)
  BY <1>1, <1>3, FailsShape
<1>4. CASE Steps(p, "paid")
  BY <1>4, EndsShape
<1>5. ASSUME status[a] # "NONE", UNCHANGED status, NEW type \in {"DEPOSIT", "SPEND"}, NEW ref,
             NEW delta, delta = client[p].req.amount - client[p].seen[a],
             Commit(p, {Row(p, a, delta, type, ref)})
      PROVE  Shape
  <2> DEFINE row == Row(p, a, delta, type, ref)
  <2>1. /\ row.acc = a /\ row.delta = delta /\ row.type = type /\ row.at = client[p].began
        /\ row.after = client[p].seen[a] + delta
    BY DEF Row
  <2> HIDE DEF row
  <2>2. /\ row.delta \in Int /\ row.after = cache[a] + row.delta
        /\ row.after \in Int /\ row.after >= 0
    BY <1>2, <1>5, <2>1
  <2>3. status \in [Accounts -> {"NONE", "ACTIVE", "CLOSED"}]
    BY DEF Inv, MoneyTypeOK
  <2>4. Writes(p, {row})
    BY <1>1, <1>2, <1>5, <2>1, <2>2, <2>3 DEF Writes
  <2>5. Closing
    BY <1>5 DEF Closing
  <2> QED BY <1>5, <2>4, <2>5, CommitShape DEF row
<1> QED BY <1>3, <1>4, <1>5 DEF WriteCheck

LEMMA PaidMoves ==
  ASSUME Inv, NEW p \in Clients, Goes(p, "paid")
  PROVE  ClientsMove /\ \A a \in Accounts : lock[a] = p => lock'[a] = None
<1>1. Away(p)
  BY GoesAway DEF Pcs, AtRest, InTx, Fits
<1> QED BY <1>1 DEF ClientsMove, Goes, Unlocked

LEMMA FixShape ==
  ASSUME Inv, NEW p \in Clients, WriteFix(p)
  PROVE  Shape
<1> DEFINE b == client[p].req.acc
<1>1. client[p].pc = "write" /\ Goes(p, "paid")
  BY DEF WriteFix, Writing
<1>2. b \in Accounts /\ lock[b] = p
  BY <1>1, WriterHolds
<1>3. /\ UNCHANGED <<status, ledger, posted, clock, vault, events, edited>>
      /\ \/ cache' = [cache EXCEPT ![b] = posted[b]] /\ RowsOf(b) # {}
         \/ cache' = cache
  BY DEF WriteFix, bounds
<1>4. cache \in [Accounts -> Int] /\ posted \in [Accounts -> Int]
  BY DEF Inv, MoneyTypeOK
<1>5. \A a \in Accounts : RowsOf(a)' = RowsOf(a)
  BY <1>3 DEF RowsOf
<1>6. ASSUME NEW a \in Accounts PROVE Booked(a)
  <2>1. CASE cache'[a] = cache[a]
    BY <1>3, <1>5, <2>1 DEF Booked, Kept
  <2>2. CASE a = b /\ cache'[a] = posted[a] /\ RowsOf(b) # {}
    <3>1. status[a] # "NONE"
      BY <2>2 DEF Inv, Balanced
    <3>2. lock'[a] = None
      BY <1>1, <1>2, <2>2, PaidMoves
    <3> QED BY <1>3, <1>5, <2>2, <3>1, <3>2 DEF Booked, Healed
  <2> QED BY <1>3, <1>4, <2>1, <2>2
<1>7. cache' \in [Accounts -> Int]
  BY <1>3, <1>4
<1>8. StoredTypes'
  BY <1>3, <1>7 DEF StoredTypes, Inv, MoneyTypeOK
<1>9. Closing /\ LedgerGrows
  BY <1>3 DEF Closing, LedgerGrows
<1> QED BY <1>1, <1>6, <1>8, <1>9, PaidMoves DEF Shape

\* Empty shells disappear, one or more at once.
LEMMA DropShape ==
  ASSUME Inv, ClientsMove, NEW S \in SUBSET Accounts,
         \A a \in S : cache[a] = 0 /\ RowsOf(a) = {},
         status' = [a \in Accounts |-> IF a \in S THEN "NONE" ELSE status[a]],
         UNCHANGED <<cache, ledger, posted, clock, vault, events, edited>>
  PROVE  Shape
<1>1. status \in [Accounts -> {"NONE", "ACTIVE", "CLOSED"}]
  BY DEF Inv, MoneyTypeOK
<1>2. \A a \in Accounts : RowsOf(a)' = RowsOf(a)
  BY DEF RowsOf
<1>3. ASSUME NEW a \in Accounts PROVE Booked(a)
  <2>1. CASE a \in S
    BY <1>2, <2>1 DEF Booked, Dropped
  <2>2. CASE a \notin S
    BY <1>2, <2>2 DEF Booked, Kept
  <2> QED BY <2>1, <2>2
<1>4. StoredTypes'
  <2>1. status' \in [Accounts -> {"NONE", "ACTIVE", "CLOSED"}]
    BY <1>1
  <2> QED BY <2>1 DEF StoredTypes, Inv, MoneyTypeOK
<1>5. Closing /\ LedgerGrows
  BY DEF Closing, LedgerGrows
<1> QED BY <1>3, <1>4, <1>5 DEF Shape

LEMMA DeleteShape ==
  ASSUME Inv, NEW p \in Clients, WriteDelete(p)
  PROVE  Shape
<1> DEFINE b == client[p].req.acc
<1>1. client[p].pc = "write" /\ Goes(p, "paid")
  BY DEF WriteDelete, Writing
<1>2. b \in Accounts /\ client[p].seen[b] = cache[b]
  BY <1>1, WriterHolds
<1>3. status \in [Accounts -> {"NONE", "ACTIVE", "CLOSED"}]
  BY DEF Inv, MoneyTypeOK
<1>4. UNCHANGED <<cache, ledger, posted, clock, vault, events, edited>>
  BY DEF WriteDelete, bounds
<1>5. PICK S \in SUBSET Accounts :
        /\ \A a \in S : cache[a] = 0 /\ RowsOf(a) = {}
        /\ status' = [a \in Accounts |-> IF a \in S THEN "NONE" ELSE status[a]]
  <2>1. CASE cache[b] = 0 /\ RowsOf(b) = {} /\ status' = [status EXCEPT ![b] = "NONE"]
    <3>1. {b} \in SUBSET Accounts /\ \A a \in {b} : cache[a] = 0 /\ RowsOf(a) = {}
      BY <1>2, <2>1
    <3>2. status' = [a \in Accounts |-> IF a \in {b} THEN "NONE" ELSE status[a]]
      BY <1>3, <2>1
    <3> QED BY <3>1, <3>2
  <2>2. CASE status' = status
    <3>1. PICK S \in SUBSET Accounts : S = {}
      OBVIOUS
    <3>2. status' = [a \in Accounts |-> IF a \in S THEN "NONE" ELSE status[a]]
      BY <1>3, <2>2, <3>1
    <3> QED BY <3>1, <3>2
  <2> QED BY <1>2, <2>1, <2>2 DEF WriteDelete
<1>6. ClientsMove
  BY <1>1, PaidMoves
<1> QED BY <1>4, <1>5, <1>6, DropShape

LEMMA PurgeShape == ASSUME Inv, Purge PROVE Shape
<1> DEFINE S == {a \in Accounts : status[a] # "NONE" /\ cache[a] = 0 /\ RowsOf(a) = {}}
<1>1. /\ status' = [a \in Accounts |-> IF a \in S THEN "NONE" ELSE status[a]]
      /\ UNCHANGED <<cache, ledger, posted, clock, vault, events, edited>>
      /\ UNCHANGED <<client, lock>>
  BY DEF Purge, bounds
<1>2. \A a \in S : cache[a] = 0 /\ RowsOf(a) = {}
  OBVIOUS
<1> QED BY <1>1, <1>2, DropShape DEF ClientsMove

LEMMA EditShape == ASSUME Inv, NEW b \in Accounts, Edit(b) PROVE Shape
<1>1. PICK n \in Nat : cache' = [cache EXCEPT ![b] = n]
  BY DEF Edit
<1>2. /\ UNCHANGED <<status, ledger, posted, clock, lock, vault, client>>
      /\ status[b] # "NONE" /\ lock[b] = None /\ b \notin edited
      /\ edited' = edited \cup {b}
  BY DEF Edit
<1>3. cache \in [Accounts -> Int] /\ edited \subseteq Accounts
  BY DEF Inv, MoneyTypeOK
<1>4. \A a \in Accounts : RowsOf(a)' = RowsOf(a)
  BY <1>2 DEF RowsOf
<1>5. ASSUME NEW a \in Accounts PROVE Booked(a)
  <2>1. CASE a = b
    BY <1>2, <1>4, <2>1 DEF Booked, ByHand
  <2>2. CASE a # b
    BY <1>1, <1>2, <1>3, <1>4, <2>2 DEF Booked, Kept
  <2> QED BY <2>1, <2>2
<1>6. cache' \in [Accounts -> Int] /\ edited' \subseteq Accounts
  BY <1>1, <1>2, <1>3
<1>7. events' \in 0 .. MaxEvents
  BY Counts DEF Edit
<1>8. StoredTypes'
  BY <1>2, <1>6, <1>7 DEF StoredTypes, Inv, MoneyTypeOK
<1>9. Closing /\ LedgerGrows /\ ClientsMove
  BY <1>2 DEF Closing, LedgerGrows, ClientsMove
<1> QED BY <1>5, <1>8, <1>9 DEF Shape

LEMMA InsertShape == ASSUME Inv, NEW p \in Clients, Insert(p) PROVE Shape
<1> DEFINE r == client[p].req
           type == IF r.kind = "add" THEN "DEPOSIT" ELSE "REFUND"
<1>1. /\ client[p].pc = "insert" /\ r.kind \in {"add", "refund"}
      /\ \A a \in Accounts : client[p].seen[a] = 0
      /\ r.amount \in Nat /\ client[p].began \in Nat
      /\ r.kind = "refund" => Refunding(p) /\ ret[r.key] \in Settled
  BY DEF Insert, Inv, Placed, Credited, Refunding, Sound, Request, MoneyTypeOK
<1>2. CASE Taken(type, r.key) /\ Steps(p, AfterCommit(r.kind))
  <2>1. CASE r.kind = "add"
    BY <1>2, <2>1, EndsShape DEF AfterCommit
  <2>2. CASE r.kind = "refund"
    <3>1. Steps(p, "move")
      BY <1>2, <2>2 DEF AfterCommit
    <3>2. ledger' = ledger
      BY <3>1 DEF Steps, stored
    <3>3. Fits("move", r)
      BY <1>1, <1>2, <2>2, <3>2 DEF Fits, Taken, Found
    <3> QED BY <3>1, <3>3, StepsShape DEF Pcs, InTx
  <2> QED BY <1>1, <2>1, <2>2
<1>3. ASSUME NEW a \in Accounts, status[a] = "NONE", lock[a] = None,
             status' = [status EXCEPT ![a] = "ACTIVE"],
             Commit(p, {Row(p, a, r.amount, type, r.key)})
      PROVE  Shape
  <2> DEFINE row == Row(p, a, r.amount, type, r.key)
  <2>1. /\ row.acc = a /\ row.delta = r.amount /\ row.type = type /\ row.ref = r.key
        /\ row.at = client[p].began /\ row.after = client[p].seen[a] + r.amount
    BY DEF Row
  <2> HIDE DEF row
  <2>2. cache[a] = 0
    BY <1>3 DEF Inv, Balanced
  <2>3. /\ row.delta \in Int /\ row.after = cache[a] + row.delta
        /\ row.after \in Int /\ row.after >= 0
    BY <1>1, <2>1, <2>2
  <2>4. status \in [Accounts -> {"NONE", "ACTIVE", "CLOSED"}]
    BY DEF Inv, MoneyTypeOK
  <2>5. /\ status' \in [Accounts -> {"NONE", "ACTIVE", "CLOSED"}] /\ status'[a] = "ACTIVE"
        /\ \A b \in Accounts : b # a => status'[b] = status[b]
    BY <1>3, <2>4
  <2>6. row.type = "REFUND" <=> r.kind = "refund"
    BY <1>1, <2>1
  <2>7. Writes(p, {row})
    BY <1>1, <1>3, <2>1, <2>3, <2>5, <2>6 DEF Writes
  <2>8. Closing
    BY <2>5 DEF Closing
  <2> QED BY <1>3, <2>7, <2>8, CommitShape DEF row
<1> QED BY <1>2, <1>3 DEF Insert

(***************************************************************************)
(* The other steps of a client.                                            *)
(***************************************************************************)
LEMMA AskShape == ASSUME Inv, NEW p \in Clients, NEW r \in Requests, Ask(p, r) PROVE Shape
<1>1. r \in Request /\ Sound(r)
  BY MoneyAssumption, ReturnAssumption DEF Sound
<1>2. client' = [client EXCEPT ![p] = Resting("find", r)]
  BY DEF Ask, Resting
<1>3. lock' = Unlocked(p)
  <2>1. ~InTx(client[p].pc)
    BY DEF Ask, AtRest, InTx
  <2>2. Held(p) = {}
    BY <2>1 DEF Inv, Holds
  <2>3. lock' = lock /\ lock \in [Accounts -> Clients \cup {None}]
    BY DEF Ask, Inv, MoneyTypeOK
  <2> QED BY <2>2, <2>3 DEF Unlocked, Held
<1>4. "find" \in Pcs /\ ~InTx("find") /\ Fits("find", r)
  BY DEF Pcs, InTx, Fits
<1>5. Away(p)
  BY <1>1, <1>2, <1>3, <1>4 DEF Away
<1> QED BY <1>5, QuietShape, Counts DEF ClientsMove, Ask

LEMMA FindShape ==
  ASSUME Inv, NEW p \in Clients,
         FindSpend(p) \/ FindUndo(p) \/ FindMerge(p) \/ FindVault(p) \/ FindAdd(p) \/ FindOther(p)
  PROVE  Shape
<1>1. client[p].pc = "find" /\ ~InTx(client[p].pc)
  BY DEF FindSpend, FindUndo, FindMerge, FindVault, FindAdd, FindOther, Finding, InTx
<1>2. client[p].req.kind \notin {"none", "add", "refund"} => client[p].req.acc \in Accounts
  BY DEF Inv, Placed, Sound
<1>3. ASSUME Begin(p), client[p].req.kind \notin {"none", "add", "refund"} PROVE Shape
  BY <1>1, <1>2, <1>3, BeginsShape, Counts DEF Begin
<1>4. ASSUME NEW pc \in {"paid", "refused"}, Steps(p, pc) PROVE Shape
  BY <1>4, EndsShape
<1>5. CASE FindSpend(p)
  BY <1>3, <1>4, <1>5 DEF FindSpend, Finding
<1>6. CASE FindUndo(p)
  BY <1>3, <1>4, <1>6 DEF FindUndo, Finding
<1>7. CASE FindMerge(p)
  BY <1>3, <1>4, <1>7 DEF FindMerge, Finding
<1>8. CASE FindVault(p)
  <2>1. client[p].req.kind = "vault"
    BY <1>8 DEF FindVault, Finding
  <2>2. CASE Steps(p, "reserve")
    BY <2>1, <2>2, StepsShape DEF Fits, InTx, Pcs
  <2> QED BY <1>4, <1>8, <2>2 DEF FindVault
<1>9. CASE FindAdd(p)
  <2>1. client[p].req.kind = "add"
    BY <1>9 DEF FindAdd, Finding
  <2>2. CASE Steps(p, "insert")
    BY <2>1, <2>2, StepsShape DEF Fits, InTx, Pcs
  <2> QED BY <1>4, <1>9, <2>2 DEF FindAdd
<1>10. CASE FindOther(p)
  BY <1>3, <1>10 DEF FindOther
<1> QED BY <1>5, <1>6, <1>7, <1>8, <1>9, <1>10

LEMMA ReserveShape == ASSUME Inv, NEW p \in Clients, Reserve(p) PROVE Shape
<1>1. client[p].pc = "reserve" /\ ~InTx(client[p].pc)
  BY DEF Reserve, InTx
<1>2. client[p].req.kind = "vault" /\ client[p].req.acc \in Accounts /\ client[p].req.amount \in Nat
  BY <1>1 DEF Inv, Placed, Sound, Request
<1>3. CASE Steps(p, "refused")
  BY <1>3, EndsShape
<1>4. CASE /\ Begins(p, client[p].req.acc)
           /\ vault' = [vault EXCEPT !.spent = @ + client[p].req.amount]
  <2>1. vault' \in Vaults
    BY <1>2, <1>4, Counts DEF Vaults
  <2> QED BY <1>1, <1>2, <1>4, <2>1, BeginsShape
<1> QED BY <1>3, <1>4 DEF Reserve

LEMMA LockShape == ASSUME Inv, NEW p \in Clients, Lock(p) PROVE Shape
<1>1. Took(p)
  BY DEF Lock, Took, Granted, stored
<1> QED BY <1>1, QuietShape, Counts DEF Lock, ClientsMove, bounds

LEMMA ReleaseShape == ASSUME Inv, NEW p \in Clients, Release(p) PROVE Shape
<1>1. Away(p)
  BY GoesAway DEF Release, Pcs, InTx, Fits
<1>2. vault' \in Vaults
  <2>1. client[p].req.amount \in Nat
    BY DEF Inv, Placed, Sound, Request
  <2> QED BY <2>1, Counts DEF Release, Released, Vaults
<1> QED BY <1>1, <1>2, QuietShape, Counts DEF Release, ClientsMove, bounds

LEMMA AbortShape == ASSUME Inv, NEW p \in Clients, Aborts(p) PROVE Shape
<1>1. CASE Retried(p) /\ clock' = clock + 1
  BY <1>1, QuietShape, Counts DEF Aborts, ClientsMove
<1>2. CASE Goes(p, AfterError(client[p].req.kind, FALSE)) /\ clock' = clock
  <2>1. PICK pc \in {"release", "refused"} :
          Goes(p, pc) /\ (pc = "release" => client[p].req.kind = "vault")
    BY <1>2 DEF AfterError
  <2>2. Away(p)
    BY <2>1, GoesAway DEF Pcs, AtRest, InTx, Fits
  <2> QED BY <1>2, <2>2, QuietShape, Counts DEF Aborts, ClientsMove
<1> QED BY <1>1, <1>2 DEF Aborts, Retried, InTx

LEMMA CrashShape == ASSUME Inv, NEW p \in Clients, Crash(p) PROVE Shape
<1>1. NoRequest \in Request /\ Sound(NoRequest)
  BY DEF NoRequest, Request, Kinds, Sound
<1>2. Resting("idle", NoRequest) = NoClient
  <2>1. NoClient.pc = "idle" /\ NoClient.req = NoRequest
    BY DEF NoClient
  <2>2. /\ NoClient = [pc |-> NoClient.pc, req |-> NoClient.req,
                      began |-> NoClient.began, seen |-> NoClient.seen]
        /\ Resting("idle", NoRequest) = [pc |-> NoClient.pc, req |-> NoClient.req,
                      began |-> NoClient.began, seen |-> NoClient.seen]
    BY <2>1, NoClientTypes DEF Resting
  <2> QED BY <2>2
<1>3. "idle" \in Pcs /\ ~InTx("idle") /\ Fits("idle", NoRequest)
  BY DEF Pcs, AtRest, InTx, Fits
<1>4. Away(p)
  BY <1>1, <1>2, <1>3 DEF Crash, Away
<1> QED BY <1>4, QuietShape, Counts DEF Crash, ClientsMove

LEMMA MoneyStepShape == ASSUME Inv, NEW p \in Clients, MoneyStep(p) PROVE Shape
<1>1. CASE \E r \in Requests : Ask(p, r)
  BY <1>1, AskShape
<1>2. CASE FindSpend(p) \/ FindUndo(p) \/ FindMerge(p) \/ FindVault(p) \/ FindAdd(p) \/ FindOther(p)
  BY <1>2, FindShape
<1>3. CASE Reserve(p) \/ Lock(p) \/ Insert(p) \/ Release(p)
  BY <1>3, ReserveShape, LockShape, InsertShape, ReleaseShape
<1>4. CASE Reread(p)
  BY <1>4, EndsShape DEF Reread
<1>5. CASE WriteSpend(p) \/ WriteVault(p) \/ WriteRefund(p)
  BY <1>5, PostsShape
<1>6. CASE WriteUndo(p) \/ WriteMerge(p) \/ WriteCheck(p) \/ WriteFix(p) \/ WriteDelete(p)
  BY <1>6, UndoShape, MergeShape, CheckShape, FixShape, DeleteShape
<1>7. CASE Aborts(p) \/ Crash(p)
  BY <1>7, AbortShape, CrashShape
<1> QED BY <1>1, <1>2, <1>3, <1>4, <1>5, <1>6, <1>7 DEF MoneyStep

(***************************************************************************)
(* The steps of the returns.                                               *)
(***************************************************************************)
LEMMA Intos ==
  /\ \A s \in States : Into(s) \cap Settled \subseteq {"CONFIRMED"}
  /\ \A s \in States : "CONFIRMED" \in Into(s) => s \in Settled
  /\ Settled \subseteq States /\ "NONE" \in States \ Settled
  /\ {"REQUESTED", "INITIATED", "PICKUP_SCHEDULED"} \subseteq States
  /\ Into("REFUNDED") = {"CONFIRMED"}
BY DEF Into, States, Transitions, Settled

LEMMA UpdateMoves ==
  ASSUME Inv, NEW r \in ReturnIds, NEW to \in States \ {"REFUNDED"},
         Update(r, to, Into(to)), late' \in [ReturnIds -> BOOLEAN]
  PROVE  ReturnsMove
<1>1. ret \in [ReturnIds -> States] /\ ret' = [ret EXCEPT ![r] = to] /\ ret[r] \in Into(to)
  BY DEF Inv, ReturnTypes, Update
<1>2. ret[r] \in Settled => to \in Settled
  BY <1>1, Intos
<1> QED BY <1>1, <1>2 DEF ReturnsMove, ReturnTypes

LEMMA ReturnStepMoves ==
  ASSUME Inv, NEW r \in ReturnIds, ReturnStep(r)
  PROVE  ReturnsMove
<1>1. ret \in [ReturnIds -> States] /\ late \in [ReturnIds -> BOOLEAN]
  BY DEF Inv, ReturnTypes
<1>2. CASE OpenReturn(r)
  <2>1. PICK s \in {"REQUESTED", "INITIATED"} : ret' = [ret EXCEPT ![r] = s]
    BY <1>2 DEF OpenReturn
  <2>2. ret[r] = "NONE" /\ late' = late
    BY <1>2 DEF OpenReturn
  <2> QED BY <1>1, <2>1, <2>2, Intos DEF ReturnsMove, ReturnTypes
<1>3. ASSUME NEW to \in {"INITIATED", "PICKUP_SCHEDULED", "CONFIRMED", "EXPIRED"},
             Update(r, to, Into(to)), late' = late
      PROVE  ReturnsMove
  BY <1>1, <1>3, UpdateMoves, Intos DEF Settled
<1>4. CASE Initiate(r)
  BY <1>3, <1>4 DEF Initiate
<1>5. CASE Pickup(r)
  BY <1>3, <1>5 DEF Pickup, Within
<1>6. CASE Confirm(r)
  BY <1>3, <1>6 DEF Confirm, Within
<1>7. CASE WindowEnds(r) \/ CorrectWindow(r)
  BY <1>1, <1>7 DEF WindowEnds, CorrectWindow, ReturnsMove, ReturnTypes
<1> QED BY <1>2, <1>4, <1>5, <1>6, <1>7 DEF ReturnStep

LEMMA OverdueMoves == ASSUME Inv, ExpireOverdue PROVE ReturnsMove
<1>1. ret \in [ReturnIds -> States] /\ late \in [ReturnIds -> BOOLEAN]
  BY DEF Inv, ReturnTypes
<1> DEFINE due == {r \in ReturnIds : late[r] /\ ret[r] \in Into("EXPIRED")}
<1>2. ret' = [r \in ReturnIds |-> IF r \in due THEN "EXPIRED" ELSE ret[r]] /\ late' = late
  BY DEF ExpireOverdue
<1> HIDE DEF due
<1>3. \A r \in ReturnIds : ret'[r] \in {"EXPIRED", ret[r]}
  BY <1>2
<1>4. ReturnTypes'
  BY <1>1, <1>2, Intos DEF ReturnTypes, Settled
<1> QED BY <1>3, <1>4 DEF ReturnsMove, Settled

LEMMA SameMoves == ASSUME Inv, UNCHANGED returns PROVE ReturnsMove
BY DEF Inv, ReturnTypes, ReturnsMove, returns

LEMMA FindRefundShape ==
  ASSUME Inv, NEW p \in Clients, FindRefund(p)
  PROVE  Shape /\ ReturnsMove
<1> DEFINE r == client[p].req.key
<1>1. client[p].pc = "find" /\ client[p].req.kind = "refund" /\ UNCHANGED returns
  BY DEF FindRefund, Finding
<1>2. ret[r] \in Into("REFUNDED") => ret[r] \in Settled
  BY Intos DEF Settled
<1>3. ASSUME Steps(p, "paid") \/ Steps(p, "refused") PROVE Shape
  BY <1>3, EndsShape
<1>4. ASSUME ret[r] \in Into("REFUNDED"), Taken("REFUND", r), Steps(p, "move") PROVE Shape
  <2>1. Fits("move", client[p].req)
    BY <1>1, <1>2, <1>4 DEF Fits, Taken, Found, Steps, stored
  <2> QED BY <1>4, <2>1, StepsShape DEF Pcs, InTx
<1>5. ASSUME ret[r] \in Into("REFUNDED"), Steps(p, "insert") PROVE Shape
  <2>1. Fits("insert", client[p].req)
    BY <1>1, <1>2, <1>5 DEF Fits
  <2> QED BY <1>5, <2>1, StepsShape DEF Pcs, InTx
<1>6. ASSUME NEW a \in Accounts, ret[r] \in Into("REFUNDED"), Begins(p, a), UNCHANGED vault
      PROVE  Shape
  BY <1>1, <1>2, <1>6, BeginsShape, Counts DEF InTx
<1>7. Shape
  BY <1>3, <1>4, <1>5, <1>6 DEF FindRefund
<1> QED BY <1>1, <1>7, SameMoves

LEMMA MoveRefundShape ==
  ASSUME Inv, NEW p \in Clients, MoveRefund(p)
  PROVE  Shape /\ ReturnsMove
<1>1. /\ client[p].pc = "move" /\ client[p].req.kind = "refund"
      /\ Taken("REFUND", client[p].req.key)
      /\ client[p].req.key \in ReturnIds
  BY DEF MoveRefund, Inv, Placed, Credited, Sound
<1>2. Shape
  BY EndsShape DEF MoveRefund
<1>3. PICK r \in ReturnIds : r = client[p].req.key
  BY <1>1
<1>4. ASSUME UNCHANGED ret PROVE ReturnsMove
  BY <1>4, SameMoves DEF MoveRefund, returns
<1>5. ASSUME Update(r, "REFUNDED", {"CONFIRMED"}) PROVE ReturnsMove
  <2>1. ret' = [ret EXCEPT ![r] = "REFUNDED"] /\ late' = late
    BY <1>5 DEF Update, MoveRefund
  <2>2. ret \in [ReturnIds -> States] /\ late \in [ReturnIds -> BOOLEAN] /\ "REFUNDED" \in States
    BY Intos DEF Inv, ReturnTypes, Settled
  <2> QED BY <1>1, <1>3, <2>1, <2>2 DEF ReturnsMove, ReturnTypes, Settled
<1>6. ReturnsMove
  BY <1>3, <1>4, <1>5 DEF MoveRefund
<1> QED BY <1>2, <1>6

(***************************************************************************)
(* The invariant holds.                                                    *)
(***************************************************************************)
LEMMA NextShape == ASSUME Inv, [Next]_vars PROVE Shape /\ ReturnsMove
<1>1. ASSUME UNCHANGED money PROVE Shape
  <2>1. ClientsMove /\ UNCHANGED <<stored, edited>> /\ clock' = clock /\ vault' = vault /\ events' = events
    BY <1>1 DEF money, ClientsMove, stored, bounds
  <2> QED BY <2>1, QuietShape, Counts
<1>2. CASE MoneyNext /\ UNCHANGED returns
  BY <1>2, MoneyStepShape, PurgeShape, EditShape, SameMoves DEF MoneyNext
<1>3. CASE \E r \in ReturnIds : ReturnStep(r) /\ UNCHANGED money
  BY <1>1, <1>3, ReturnStepMoves
<1>4. CASE ExpireOverdue /\ UNCHANGED money
  BY <1>1, <1>4, OverdueMoves
<1>5. CASE \E p \in Clients : FindRefund(p) \/ MoveRefund(p)
  BY <1>5, FindRefundShape, MoveRefundShape
<1>6. CASE UNCHANGED vars
  BY <1>1, <1>6, SameMoves DEF vars
<1> QED BY <1>2, <1>3, <1>4, <1>5, <1>6 DEF Next

LEMMA NextInv == Inv /\ [Next]_vars => Inv'
BY NextShape, ShapeKeeps

LEMMA InitInv == Init => Inv
<1> SUFFICES ASSUME Init PROVE Inv
  OBVIOUS
<1>1. MoneyInit /\ ret = [r \in ReturnIds |-> "NONE"] /\ late = [r \in ReturnIds |-> FALSE]
  BY DEF Init
<1>2. /\ DOMAIN Opening \subseteq Accounts /\ \A a \in DOMAIN Opening : Opening[a] \in Nat
      /\ MaxEvents \in Nat
      /\ None \notin Clients
  BY MoneyAssumption
<1>3. cache \in [Accounts -> Nat] /\ posted = cache
  <2>1. cache = [a \in Accounts |-> IF a \in DOMAIN Opening THEN Opening[a] ELSE 0] /\ posted = cache
    BY <1>1 DEF MoneyInit
  <2> QED BY <1>2, <2>1
<1>4. /\ status \in [Accounts -> {"NONE", "ACTIVE"}]
      /\ \A a \in Accounts : status[a] = "NONE" => a \notin DOMAIN Opening
  BY <1>1, <1>2 DEF MoneyInit
<1>5. \A x \in ledger : \E a \in DOMAIN Opening :
        x = [acc |-> a, delta |-> Opening[a], type |-> "DEPOSIT", tag |-> "add", ref |-> <<a>>,
             after |-> Opening[a], at |-> 0]
  BY <1>1 DEF MoneyInit, OpeningRows
<1>6. Rows(ledger)
  BY <1>2, <1>5 DEF Rows
<1>7. \A a \in Accounts : status[a] = "NONE" => cache[a] = 0 /\ RowsOf(a) = {}
  <2>1. ASSUME NEW a \in Accounts, status[a] = "NONE" PROVE cache[a] = 0
    BY <1>1, <1>4, <2>1 DEF MoneyInit
  <2>2. ASSUME NEW a \in Accounts, status[a] = "NONE" PROVE RowsOf(a) = {}
    BY <1>4, <1>5, <2>2 DEF RowsOf
  <2> QED BY <2>1, <2>2
<1>8. \A a \in Accounts : Balanced(a)
  BY <1>3, <1>7 DEF Balanced
<1>9. OneListed
  BY <1>4 DEF OneListed
<1>10. \A r : ~Taken("REFUND", r)
  BY <1>5 DEF Taken, Found
<1>11. RefundedMeansCredited /\ CreditedNeverReopens
  BY <1>1, <1>10 DEF RefundedMeansCredited, CreditedNeverReopens
<1>12. ReturnTypes
  BY <1>1, Intos DEF ReturnTypes
<1>13. client = [p \in Clients |-> NoClient] /\ lock = [a \in Accounts |-> None]
  BY <1>1 DEF MoneyInit
<1>14. StoredTypes
  <2>1. clock \in Nat /\ events \in 0 .. MaxEvents /\ edited \subseteq Accounts
    BY <1>1, <1>2 DEF MoneyInit
  <2>2. vault \in [spent : Nat, charged : Nat, unheard : Nat]
    BY <1>1 DEF MoneyInit
  <2>3. status \in [Accounts -> {"NONE", "ACTIVE", "CLOSED"}]
    BY <1>4
  <2>4. cache \in [Accounts -> Int] /\ posted \in [Accounts -> Int]
    BY <1>3
  <2> QED BY <1>6, <2>1, <2>2, <2>3, <2>4 DEF StoredTypes
<1>15. ClientTypes
  BY <1>13, NoClientTypes DEF ClientTypes
<1>16. MoneyTypeOK
  BY <1>14, <1>15, TypesParts
<1>17. ASSUME NEW p \in Clients PROVE Placed(p) /\ Holds(p) /\ Credited(p)
  <2>1. client[p].pc = "idle" /\ client[p].req = NoRequest
    BY <1>13 DEF NoClient
  <2>2. Sound(NoRequest)
    BY DEF NoRequest, Request, Kinds, Sound
  <2>3. Held(p) = {}
    BY <1>2, <1>13 DEF Held
  <2> QED BY <2>1, <2>2, <2>3 DEF Placed, Holds, Credited, Refunding, InTx, NoRequest
<1> QED BY <1>8, <1>9, <1>11, <1>12, <1>16, <1>17 DEF Inv

LEMMA InvHolds == Spec => []Inv
BY InitInv, NextInv, PTL DEF Spec

(***************************************************************************)
(* The answers.  A request is answered as done from a row, its own or      *)
(* another try's, and rows stay: what is to be shown is that every row     *)
(* says what it was posted for, and that every "paid" comes from a row.    *)
(***************************************************************************)
\* The row that answers a request
OnLedger(r) ==
  /\ r.kind \in {"spend", "vault", "undo"} => Answered(r)
  /\ r.kind = "merge" => Taken("TRANSFER_OUT", <<r.acc, r.to>>)
  /\ r.kind = "add" => Taken("DEPOSIT", r.key)
  /\ r.kind = "refund" => Taken("REFUND", r.key)

\* A transfer out closed its account, a transfer in has one, and an undo gives back what a spend took.
RowRight(x) ==
  /\ x.type = "TRANSFER_OUT" => status[x.acc] = "CLOSED" /\ \E t : x.ref = <<x.acc, t>>
  /\ x.type = "TRANSFER_IN" => Taken("TRANSFER_OUT", x.ref)
  /\ x.type = "DEPOSIT" /\ x.tag = "undo" =>
       \E y \in Found("SPEND", x.ref) : y.acc = x.acc /\ x.delta = -y.delta

Honest ==
  /\ \A x \in ledger : RowRight(x)
  /\ \A p \in Clients : client[p].pc = "paid" => OnLedger(client[p].req)

\* An account that was merged away is not opened again.
ClosedStays ==
  \A a \in Accounts : status[a] = "CLOSED" /\ RowsOf(a) # {} => status'[a] = "CLOSED"

Answering(p) ==
  client'[p] = client[p] \/ (client[p].pc = "paid" => OnLedger(client[p].req))'

\* The shape of every step
Truthful ==
  /\ ledger \subseteq ledger' /\ \A x \in ledger' \ ledger : RowRight(x)'
  /\ ClosedStays
  /\ \A p \in Clients : Answering(p)

LEMMA OnLedgerStays ==
  ASSUME NEW r, ledger \subseteq ledger', OnLedger(r)
  PROVE  OnLedger(r)'
BY DEF OnLedger, Answered, SpendOf, VaultSpendOf, Undone, Taken, Found

LEMMA TruthfulKeeps == Inv /\ Honest /\ Truthful => Honest'
<1> SUFFICES ASSUME Inv, Honest, Truthful PROVE Honest'
  OBVIOUS
<1>1. ASSUME NEW x \in ledger PROVE RowRight(x)'
  <2>1. RowRight(x) /\ x.acc \in Accounts /\ RowsOf(x.acc) # {}
    BY DEF Honest, Inv, MoneyTypeOK, Rows, RowsOf
  <2> QED BY <2>1 DEF RowRight, Truthful, ClosedStays, Taken, Found
<1>2. ASSUME NEW p \in Clients, client'[p].pc = "paid" PROVE OnLedger(client[p].req)'
  <2>1. CASE client'[p] = client[p]
    <3>1. PICK r : r = client[p].req /\ OnLedger(r)
      BY <1>2, <2>1 DEF Honest
    <3>2. OnLedger(r)'
      BY <3>1, OnLedgerStays DEF Truthful
    <3> QED BY <2>1, <3>1, <3>2
  <2> QED BY <1>2, <2>1 DEF Truthful, Answering
<1> QED BY <1>1, <1>2 DEF Honest, Truthful

\* No row, no account and no answer
LEMMA MuteTruthful ==
  ASSUME UNCHANGED <<status, ledger>>,
         \A q \in Clients : client'[q] = client[q] \/ client'[q].pc # "paid"
  PROVE  Truthful
BY DEF Truthful, ClosedStays, Answering

LEMMA GoesAnswers ==
  ASSUME Inv, NEW p \in Clients, NEW pc, Goes(p, pc), NEW r, r = client[p].req,
         pc = "paid" => OnLedger(r)'
  PROVE  \A q \in Clients : Answering(q)
<1>1. /\ \A q \in Clients \ {p} : client'[q] = client[q]
      /\ client'[p].pc = pc /\ (pc = "paid" => client'[p].req = r)
  BY DEF Goes, NoClient, Inv, MoneyTypeOK
<1> QED BY <1>1 DEF Answering

LEMMA StepsTruthful ==
  ASSUME Inv, NEW p \in Clients, NEW pc, Steps(p, pc), pc = "paid" => OnLedger(client[p].req)
  PROVE  Truthful
<1>1. UNCHANGED <<status, ledger>> /\ Goes(p, pc)
  BY DEF Steps, stored
<1>2. PICK r : r = client[p].req
  OBVIOUS
<1>3. pc = "paid" => OnLedger(r)'
  BY <1>1, <1>2, OnLedgerStays
<1>4. \A q \in Clients : Answering(q)
  BY <1>1, <1>2, <1>3, GoesAnswers
<1> QED BY <1>1, <1>4 DEF Truthful, ClosedStays

LEMMA FailsTruthful ==
  ASSUME Inv, NEW p \in Clients, NEW d \in BOOLEAN, Fails(p, d)
  PROVE  Truthful
<1>1. AfterError(client[p].req.kind, d) # "paid"
  BY DEF AfterError
<1> QED BY <1>1, StepsTruthful DEF Fails

LEMMA CommitTruthful ==
  ASSUME Inv, NEW p \in Clients, NEW rows, Commit(p, rows), ClosedStays,
         \A x \in rows : RowRight(x)',
         NEW r, r = client[p].req, r.kind # "refund" => OnLedger(r)'
  PROVE  Truthful
<1>1. ledger' = ledger \cup rows
  BY DEF Commit
<1>2. PICK pc \in {"move", "paid", "release", "refused"} :
        Goes(p, pc) /\ (pc = "paid" => r.kind # "refund")
  BY DEF Commit, AfterCommit, AfterError
<1>3. \A q \in Clients : Answering(q)
  BY <1>2, GoesAnswers
<1> QED BY <1>1, <1>3 DEF Truthful

LEMMA PostTruthful ==
  ASSUME Inv, NEW p \in Clients, NEW delta, NEW type, Post(p, delta, type),
         NEW r, r = client[p].req, r.kind \in {"spend", "vault", "undo", "refund"},
         type = CASE r.kind = "undo" -> "DEPOSIT" [] r.kind = "refund" -> "REFUND" [] OTHER -> "SPEND",
         r.kind = "vault" => delta = -r.amount,
         r.kind = "undo" => \E y \in SpendOf(r) : delta = -y.delta
  PROVE  Truthful
<1> PICK row : row = Row(p, r.acc, delta, type, r.key)
  OBVIOUS
<1>1. CASE Fails(p, FALSE) \/ Fails(p, TRUE)
  BY <1>1, FailsTruthful
<1>2. CASE Commit(p, {row}) /\ UNCHANGED status
  <2>1. /\ row.acc = r.acc /\ row.delta = delta /\ row.type = type /\ row.ref = r.key
        /\ row.tag = r.kind
    BY DEF Row
  <2>2. row \in ledger' /\ ledger \subseteq ledger'
    BY <1>2 DEF Commit
  <2>3. RowRight(row)'
    <3>1. type \notin {"TRANSFER_OUT", "TRANSFER_IN"} /\ (type = "DEPOSIT" => r.kind = "undo")
      OBVIOUS
    <3>2. ASSUME r.kind = "undo"
          PROVE  \E y \in Found("SPEND", row.ref)' : y.acc = row.acc /\ row.delta = -y.delta
      <4>1. PICK y \in SpendOf(r) : delta = -y.delta
        BY <3>2
      <4>2. y \in Found("SPEND", r.key) /\ y.acc = r.acc
        BY <4>1 DEF SpendOf
      <4>3. y \in Found("SPEND", row.ref)'
        BY <2>1, <2>2, <4>2 DEF Found
      <4> QED BY <2>1, <4>1, <4>2, <4>3, Zenon
    <3> QED BY <2>1, <3>1, <3>2, Zenon DEF RowRight
  <2>4. r.kind # "refund" => OnLedger(r)'
    <3>1. CASE r.kind = "spend"
      BY <2>1, <2>2, <3>1 DEF OnLedger, Answered, SpendOf, Found
    <3>2. CASE r.kind = "vault"
      BY <2>1, <2>2, <3>2 DEF OnLedger, Answered, SpendOf, VaultSpendOf, Found
    <3>3. CASE r.kind = "undo"
      BY <2>1, <2>2, <3>3 DEF OnLedger, Answered, Undone, Found
    <3> QED BY <3>1, <3>2, <3>3
  <2>5. ClosedStays
    BY <1>2 DEF ClosedStays
  <2> QED BY <1>2, <2>3, <2>4, <2>5, CommitTruthful
<1> QED BY <1>1, <1>2 DEF Post

LEMMA PostsTruthful ==
  ASSUME Inv, NEW p \in Clients, WriteSpend(p) \/ WriteVault(p) \/ WriteRefund(p) \/ WriteUndo(p)
  PROVE  Truthful
<1>1. PICK r : r = client[p].req
  OBVIOUS
<1>2. CASE WriteSpend(p)
  <2>1. r.kind = "spend" /\ Post(p, -r.amount, "SPEND")
    BY <1>1, <1>2 DEF WriteSpend, Writing
  <2> QED BY <1>1, <2>1, PostTruthful
<1>3. CASE WriteVault(p)
  <2>1. r.kind = "vault" /\ Post(p, -r.amount, "SPEND")
    BY <1>1, <1>3 DEF WriteVault, Writing
  <2> QED BY <1>1, <2>1, PostTruthful
<1>4. CASE WriteRefund(p)
  <2>1. r.kind = "refund" /\ Post(p, r.amount, "REFUND")
    BY <1>1, <1>4 DEF WriteRefund, Writing
  <2> QED BY <1>1, <2>1, PostTruthful
<1>5. CASE WriteUndo(p)
  <2>1. r.kind = "undo" /\ \E y \in SpendOf(r) : Post(p, -y.delta, "DEPOSIT")
    BY <1>1, <1>5 DEF WriteUndo, Writing
  <2> QED BY <1>1, <2>1, PostTruthful
<1> QED BY <1>2, <1>3, <1>4, <1>5

LEMMA MergeTruthful == ASSUME Inv, NEW p \in Clients, WriteMerge(p) PROVE Truthful
<1>1. PICK r : r = client[p].req
  OBVIOUS
<1>2. client[p].pc = "write" /\ r.kind = "merge"
  BY <1>1 DEF WriteMerge, Writing
<1>3. r.acc \in Accounts
  BY <1>1, <1>2, WriterHolds
<1>4. CASE Taken("TRANSFER_OUT", <<r.acc, r.to>>) /\ Steps(p, "paid")
  <2>1. OnLedger(client[p].req)
    BY <1>1, <1>2, <1>4 DEF OnLedger
  <2> QED BY <1>4, <2>1, StepsTruthful
<1>5. CASE Steps(p, "refused")
  BY <1>5, StepsTruthful
<1>6. ASSUME NEW n, status' = [status EXCEPT ![r.acc] = "CLOSED"],
             Commit(p, {Row(p, r.acc, -n, "TRANSFER_OUT", <<r.acc, r.to>>),
                        Row(p, r.to, n, "TRANSFER_IN", <<r.acc, r.to>>)})
      PROVE  Truthful
  <2>1. PICK out, in :
          /\ out = Row(p, r.acc, -n, "TRANSFER_OUT", <<r.acc, r.to>>)
          /\ in = Row(p, r.to, n, "TRANSFER_IN", <<r.acc, r.to>>)
    OBVIOUS
  <2>2. /\ out.acc = r.acc /\ out.type = "TRANSFER_OUT" /\ out.ref = <<r.acc, r.to>>
        /\ in.type = "TRANSFER_IN" /\ in.ref = <<r.acc, r.to>>
    BY <2>1 DEF Row
  <2>3. Commit(p, {out, in})
    BY <1>6, <2>1
  <2>4. out \in ledger'
    BY <2>3 DEF Commit
  <2>5. status'[r.acc] = "CLOSED" /\ ClosedStays
    BY <1>3, <1>6 DEF Inv, MoneyTypeOK, ClosedStays
  <2>6. RowRight(out)' /\ RowRight(in)'
    BY <2>2, <2>4, <2>5 DEF RowRight, Taken, Found
  <2>7. OnLedger(r)'
    BY <1>2, <2>2, <2>4 DEF OnLedger, Taken, Found
  <2> QED BY <1>1, <2>3, <2>5, <2>6, <2>7, CommitTruthful
<1>7. \/ Taken("TRANSFER_OUT", <<r.acc, r.to>>) /\ Steps(p, "paid")
      \/ Steps(p, "refused")
      \/ \E n : /\ status' = [status EXCEPT ![r.acc] = "CLOSED"]
                /\ Commit(p, {Row(p, r.acc, -n, "TRANSFER_OUT", <<r.acc, r.to>>),
                              Row(p, r.to, n, "TRANSFER_IN", <<r.acc, r.to>>)})
  BY <1>1, Zenon DEF WriteMerge
<1> QED BY <1>4, <1>5, <1>6, <1>7

LEMMA CheckTruthful == ASSUME Inv, NEW p \in Clients, WriteCheck(p) PROVE Truthful
<1>1. PICK r : r = client[p].req
  OBVIOUS
<1>2. r.kind = "check" /\ (\A m : OnLedger(r))
  BY <1>1 DEF WriteCheck, Writing, OnLedger
<1>3. CASE Fails(p, FALSE)
  BY <1>3, FailsTruthful
<1>4. CASE Steps(p, "paid")
  BY <1>1, <1>2, <1>4, StepsTruthful
<1>5. ASSUME NEW delta, NEW ref, NEW type \in {"DEPOSIT", "SPEND"}, UNCHANGED status,
             Commit(p, {Row(p, r.acc, delta, type, ref)})
      PROVE  Truthful
  <2> PICK row : row = Row(p, r.acc, delta, type, ref)
    OBVIOUS
  <2>1. row.type = type /\ row.tag = "check"
    BY <1>1, <1>2 DEF Row
  <2>2. RowRight(row)'
    BY <2>1 DEF RowRight
  <2>3. OnLedger(r)'
    BY <1>2 DEF OnLedger
  <2>4. ClosedStays
    BY <1>5 DEF ClosedStays
  <2>5. Commit(p, {row})
    BY <1>5
  <2> QED BY <1>1, <2>2, <2>3, <2>4, <2>5, CommitTruthful
<1> QED BY <1>1, <1>3, <1>4, <1>5 DEF WriteCheck

LEMMA FixTruthful == ASSUME Inv, NEW p \in Clients, WriteFix(p) \/ WriteDelete(p) PROVE Truthful
<1>1. PICK r : r = client[p].req
  OBVIOUS
<1>2. OnLedger(r)' /\ Goes(p, "paid") /\ ledger' = ledger
  BY <1>1 DEF WriteFix, WriteDelete, Writing, OnLedger
<1>3. \A q \in Clients : Answering(q)
  BY <1>1, <1>2, GoesAnswers
<1>4. ClosedStays
  <2>1. CASE status' = status
    BY <2>1 DEF ClosedStays
  <2>2. CASE RowsOf(r.acc) = {} /\ status' = [status EXCEPT ![r.acc] = "NONE"]
    BY <2>2 DEF ClosedStays, Inv, MoneyTypeOK
  <2> QED BY <1>1, <2>1, <2>2 DEF WriteFix, WriteDelete
<1> QED BY <1>2, <1>3, <1>4 DEF Truthful

LEMMA InsertTruthful == ASSUME Inv, NEW p \in Clients, Insert(p) PROVE Truthful
<1>1. PICK r : r = client[p].req
  OBVIOUS
<1> DEFINE type == IF r.kind = "add" THEN "DEPOSIT" ELSE "REFUND"
<1>2. r.kind \in {"add", "refund"}
  BY <1>1 DEF Insert, Inv, Placed
<1>3. CASE Taken(type, r.key) /\ Steps(p, AfterCommit(r.kind))
  <2>1. AfterCommit(r.kind) = "paid" => OnLedger(client[p].req)
    BY <1>1, <1>2, <1>3 DEF OnLedger, AfterCommit
  <2> QED BY <1>3, <2>1, StepsTruthful
<1>4. ASSUME NEW a \in Accounts, status[a] = "NONE", status' = [status EXCEPT ![a] = "ACTIVE"],
             Commit(p, {Row(p, a, r.amount, type, r.key)})
      PROVE  Truthful
  <2> PICK row : row = Row(p, a, r.amount, type, r.key)
    OBVIOUS
  <2>1. row.type = type /\ row.ref = r.key /\ row.tag = r.kind
    BY <1>1 DEF Row
  <2>2. row \in ledger'
    BY <1>4 DEF Commit
  <2>3. ClosedStays
    BY <1>4 DEF ClosedStays, Inv, MoneyTypeOK
  <2>4. Commit(p, {row})
    BY <1>4
  <2>5. RowRight(row)'
    BY <1>2, <2>1 DEF RowRight
  <2>6. r.kind # "refund" => OnLedger(r)'
    BY <1>2, <2>1, <2>2 DEF OnLedger, Taken, Found
  <2> QED BY <1>1, <2>3, <2>4, <2>5, <2>6, CommitTruthful
<1> QED BY <1>1, <1>3, <1>4 DEF Insert

LEMMA FindTruthful ==
  ASSUME Inv, NEW p \in Clients,
         \/ FindSpend(p) \/ FindUndo(p) \/ FindMerge(p) \/ FindVault(p) \/ FindAdd(p) \/ FindOther(p)
         \/ FindRefund(p)
  PROVE  Truthful
<1>1. ASSUME NEW a, Begins(p, a) PROVE Truthful
  <2>1. UNCHANGED <<status, ledger>>
    BY <1>1 DEF Begins, stored
  <2>2. client'[p].pc = "lock" /\ \A q \in Clients \ {p} : client'[q] = client[q]
    BY <1>1 DEF Begins, Inv, MoneyTypeOK
  <2> QED BY <2>1, <2>2, MuteTruthful
<1>2. ASSUME NEW pc \in {"refused", "reserve", "insert", "move"}, Steps(p, pc) PROVE Truthful
  BY <1>2, StepsTruthful
<1>3. ASSUME Steps(p, "paid"), OnLedger(client[p].req) PROVE Truthful
  BY <1>3, StepsTruthful
<1>4. CASE FindSpend(p)
  BY <1>1, <1>2, <1>3, <1>4 DEF FindSpend, Finding, Begin, OnLedger, Answered
<1>5. CASE FindUndo(p)
  BY <1>1, <1>2, <1>3, <1>5 DEF FindUndo, Finding, Begin, OnLedger, Answered
<1>6. CASE FindMerge(p)
  BY <1>1, <1>2, <1>6 DEF FindMerge, Begin
<1>7. CASE FindVault(p)
  BY <1>1, <1>2, <1>3, <1>7 DEF FindVault, Finding, OnLedger, Answered
<1>8. CASE FindAdd(p)
  BY <1>2, <1>3, <1>8 DEF FindAdd, Finding, OnLedger
<1>9. CASE FindOther(p)
  BY <1>1, <1>9 DEF FindOther, Begin
<1>10. CASE FindRefund(p)
  <2>1. client[p].req.kind = "refund" /\ client[p].req.key \in ReturnIds
    BY <1>10 DEF FindRefund, Finding, Inv, Placed, Sound
  <2>2. ret[client[p].req.key] = "REFUNDED" => OnLedger(client[p].req)
    BY <2>1 DEF Inv, RefundedMeansCredited, OnLedger
  <2> QED BY <1>1, <1>2, <1>3, <1>10, <2>2 DEF FindRefund
<1> QED BY <1>4, <1>5, <1>6, <1>7, <1>8, <1>9, <1>10

LEMMA MoneyStepTruthful == ASSUME Inv, NEW p \in Clients, MoneyStep(p) PROVE Truthful
<1>1. client \in [Clients -> [pc : Pcs, req : Request, began : Nat, seen : [Accounts -> Int]]]
  BY DEF Inv, MoneyTypeOK
<1>2. ASSUME UNCHANGED <<status, ledger>>, NEW c, c.pc # "paid", client' = [client EXCEPT ![p] = c]
      PROVE  Truthful
  BY <1>1, <1>2, MuteTruthful
<1>3. CASE \E r \in Requests : Ask(p, r)
  BY <1>2, <1>3 DEF Ask, NoClient, stored
<1>4. CASE FindSpend(p) \/ FindUndo(p) \/ FindMerge(p) \/ FindVault(p) \/ FindAdd(p) \/ FindOther(p)
  BY <1>4, FindTruthful
<1>5. CASE Reserve(p)
  <2>1. CASE Steps(p, "refused")
    BY <2>1, StepsTruthful
  <2>2. CASE Begins(p, client[p].req.acc)
    <3>1. UNCHANGED <<status, ledger>> /\ client'[p].pc = "lock"
          /\ \A q \in Clients \ {p} : client'[q] = client[q]
      BY <1>1, <2>2 DEF Begins, stored
    <3> QED BY <3>1, MuteTruthful
  <2> QED BY <1>5, <2>1, <2>2 DEF Reserve
<1>6. CASE Lock(p)
  <2>1. UNCHANGED <<status, ledger>>
    BY <1>6 DEF Lock, stored
  <2>2. client'[p].pc # "paid" /\ \A q \in Clients \ {p} : client'[q] = client[q]
    BY <1>1, <1>6 DEF Lock
  <2> QED BY <2>1, <2>2, MuteTruthful
<1>7. CASE Release(p)
  BY <1>2, <1>7 DEF Release, Goes, NoClient, stored
<1>8. CASE Reread(p)
  <2>1. Answered(client[p].req) => OnLedger(client[p].req)
    BY DEF Answered, OnLedger
  <2> QED BY <1>8, <2>1, StepsTruthful DEF Reread
<1>9. CASE Aborts(p)
  <2>1. UNCHANGED <<status, ledger>>
    BY <1>9 DEF Aborts, stored
  <2>2. CASE client' = [client EXCEPT ![p].pc = "lock", ![p].began = clock']
    BY <1>1, <2>1, <2>2, MuteTruthful
  <2>3. CASE Goes(p, AfterError(client[p].req.kind, FALSE))
    <3>1. PICK pc : pc # "paid" /\ Goes(p, pc)
      BY <2>3 DEF AfterError
    <3>2. client'[p].pc # "paid" /\ \A q \in Clients \ {p} : client'[q] = client[q]
      BY <1>1, <3>1 DEF Goes, NoClient
    <3> QED BY <2>1, <3>2, MuteTruthful
  <2> QED BY <1>9, <2>2, <2>3 DEF Aborts
<1>10. CASE Crash(p)
  BY <1>2, <1>10 DEF Crash, NoClient, stored
<1> QED BY <1>3, <1>4, <1>5, <1>6, <1>7, <1>8, <1>9, <1>10, PostsTruthful, MergeTruthful,
           CheckTruthful, FixTruthful, InsertTruthful
        DEF MoneyStep

LEMMA NextTruthful == ASSUME Inv, [Next]_vars PROVE Truthful
<1>1. ASSUME UNCHANGED <<status, ledger, client>> PROVE Truthful
  BY <1>1, MuteTruthful
<1>2. CASE \E p \in Clients : MoneyStep(p)
  BY <1>2, MoneyStepTruthful
<1>3. CASE Purge
  <2>1. ClosedStays
    BY <1>3 DEF Purge, ClosedStays
  <2> QED BY <1>3, <2>1 DEF Purge, Truthful, Answering
<1>4. CASE \E a \in Accounts : Edit(a)
  BY <1>1, <1>4 DEF Edit
<1>5. CASE UNCHANGED money
  BY <1>1, <1>5 DEF money, stored
<1>6. CASE \E p \in Clients : FindRefund(p)
  BY <1>6, FindTruthful
<1>7. ASSUME NEW p \in Clients, MoveRefund(p) PROVE Truthful
  <2>1. /\ client[p].req.kind = "refund" /\ Taken("REFUND", client[p].req.key)
    BY <1>7 DEF MoveRefund, Inv, Placed, Credited
  <2>2. OnLedger(client[p].req)
    BY <2>1 DEF OnLedger
  <2> QED BY <1>7, <2>2, StepsTruthful DEF MoveRefund
<1> QED BY <1>2, <1>3, <1>4, <1>5, <1>6, <1>7 DEF Next, MoneyNext, vars

LEMMA InitHonest == Init => Honest
<1> SUFFICES ASSUME Init PROVE Honest
  OBVIOUS
<1>1. \A x \in ledger : x.type = "DEPOSIT" /\ x.tag = "add"
  BY DEF Init, MoneyInit, OpeningRows
<1>2. \A p \in Clients : client[p].pc = "idle"
  BY DEF Init, MoneyInit, NoClient
<1> QED BY <1>1, <1>2 DEF Honest, RowRight

LEMMA HonestHolds == Spec => []Honest
<1>1. Inv /\ Honest /\ [Next]_vars => Honest'
  BY NextTruthful, TruthfulKeeps
<1> QED BY <1>1, InitHonest, InvHolds, PTL DEF Spec

(***************************************************************************)
(* The book.  Only commits, reconciliations, clean-ups and hands change    *)
(* what is stored, and each is one step of MoneyBook: a commit's rows were *)
(* computed from balances that are still there, under the row locks, and   *)
(* are new, since the lookup of the reference is part of the transaction.  *)
(***************************************************************************)
Bookkeeping == Book!Next \/ UNCHANGED <<stored, edited>>

LEMMA NewRow ==
  ASSUME NEW x, ~Taken(x.type, x.ref)
  PROVE  Book!New(x)
BY DEF Taken, Found, Book!New

\* A commit of one row
LEMMA RowWritten ==
  ASSUME Inv, NEW p \in Clients, NEW x, Commit(p, {x}), x.acc \in Accounts,
         x.after = cache[x.acc] + x.delta, x.after >= 0, ~Taken(x.type, x.ref)
  PROVE  x \in ledger' \ ledger /\ Book!Writes(x)
<1>1. cache \in [Accounts -> Int] /\ posted \in [Accounts -> Int]
  BY DEF Inv, MoneyTypeOK
<1> DEFINE Of(a) == CHOOSE y \in {x} : y.acc = a
           moved == {y.acc : y \in {x}}
<1>2. /\ cache' = [a \in Accounts |-> IF a \in moved THEN Of(a).after ELSE cache[a]]
      /\ posted' = [a \in Accounts |-> IF a \in moved THEN posted[a] + Of(a).delta ELSE posted[a]]
      /\ ledger' = ledger \cup {x} /\ edited' = edited
  BY DEF Commit
<1>3. moved = {x.acc} /\ Of(x.acc) = x
  OBVIOUS
<1> HIDE DEF Of, moved
<1>4. cache' = [cache EXCEPT ![x.acc] = @ + x.delta]
  BY <1>1, <1>2, <1>3
<1>5. posted' = [posted EXCEPT ![x.acc] = @ + x.delta]
  BY <1>1, <1>2, <1>3
<1>6. Book!New(x) /\ Book!Continues(x)
  BY NewRow DEF Book!Continues
<1>7. x \notin ledger
  BY DEF Taken, Found
<1> QED BY <1>2, <1>4, <1>5, <1>6, <1>7 DEF Book!Writes

LEMMA PostBooks ==
  ASSUME Inv, NEW p \in Clients, NEW delta \in Int, NEW type, client[p].pc = "write",
         Post(p, delta, type)
  PROVE  Bookkeeping
<1> DEFINE a == client[p].req.acc
           row == Row(p, a, delta, type, client[p].req.key)
<1>1. a \in Accounts /\ client[p].seen[a] = cache[a]
  BY WriterHolds
<1>2. CASE Fails(p, FALSE) \/ Fails(p, TRUE)
  BY <1>2 DEF Fails, Steps, bounds, Bookkeeping
<1>3. CASE /\ status[a] # "NONE" /\ row.after >= 0 /\ ~Taken(type, client[p].req.key)
           /\ Commit(p, {row}) /\ UNCHANGED status
  <2>1. /\ row.acc = a /\ row.delta = delta /\ row.type = type /\ row.ref = client[p].req.key
        /\ row.after = client[p].seen[a] + delta
    BY DEF Row
  <2> HIDE DEF row
  <2>2. row \in ledger' \ ledger /\ Book!Writes(row)
    BY <1>1, <1>3, <2>1, RowWritten
  <2>3. Book!Post(row)
    BY <1>3, <2>1, <2>2 DEF Book!Post
  <2> QED BY <2>2, <2>3 DEF Bookkeeping, Book!Next
<1> QED BY <1>2, <1>3 DEF Post

LEMMA PostsBook ==
  ASSUME Inv, NEW p \in Clients, WriteSpend(p) \/ WriteVault(p) \/ WriteRefund(p) \/ WriteUndo(p)
  PROVE  Bookkeeping
<1>1. client[p].pc = "write"
  BY DEF WriteSpend, WriteVault, WriteRefund, WriteUndo, Writing
<1>2. PICK n \in Int : n = client[p].req.amount
  BY <1>1, WriterHolds DEF Request
<1>3. PICK m \in Int : m = -client[p].req.amount
  BY <1>2
<1>4. CASE WriteSpend(p) \/ WriteVault(p)
  BY <1>1, <1>3, <1>4, PostBooks DEF WriteSpend, WriteVault
<1>5. CASE WriteRefund(p)
  BY <1>1, <1>2, <1>5, PostBooks DEF WriteRefund
<1>6. CASE WriteUndo(p)
  <2>1. PICK x \in SpendOf(client[p].req) : Post(p, -x.delta, "DEPOSIT")
    BY <1>6 DEF WriteUndo
  <2>2. x.delta \in Int
    BY DEF SpendOf, Found, Inv, MoneyTypeOK, Rows
  <2>3. PICK k \in Int : k = -x.delta
    BY <2>2
  <2>4. Post(p, k, "DEPOSIT")
    BY <2>1, <2>3
  <2> QED BY <1>1, <2>4, PostBooks
<1> QED BY <1>4, <1>5, <1>6

LEMMA CheckBooks == ASSUME Inv, NEW p \in Clients, WriteCheck(p) PROVE Bookkeeping
<1> DEFINE a == client[p].req.acc
<1>1. client[p].pc = "write"
  BY DEF WriteCheck, Writing
<1>2. /\ a \in Accounts /\ client[p].seen[a] = cache[a] /\ cache[a] \in Int
      /\ client[p].req.amount \in Nat
  BY <1>1, WriterHolds DEF Request
<1>3. CASE Fails(p, FALSE) \/ Steps(p, "paid")
  BY <1>3 DEF Fails, Steps, bounds, Bookkeeping
<1>4. ASSUME status[a] # "NONE", UNCHANGED status, NEW type, NEW ref, ~Taken(type, ref),
             NEW delta, delta = client[p].req.amount - client[p].seen[a],
             Commit(p, {Row(p, a, delta, type, ref)})
      PROVE  Bookkeeping
  <2> DEFINE row == Row(p, a, delta, type, ref)
  <2>1. /\ row.acc = a /\ row.delta = delta /\ row.type = type /\ row.ref = ref
        /\ row.after = client[p].seen[a] + delta
    BY DEF Row
  <2>2. Commit(p, {row})
    BY <1>4
  <2> HIDE DEF row
  <2>3. row.after = cache[a] + row.delta /\ row.after >= 0
    BY <1>2, <1>4, <2>1
  <2>4. row \in ledger' \ ledger /\ Book!Writes(row)
    BY <1>2, <1>4, <2>1, <2>2, <2>3, RowWritten
  <2>5. Book!Post(row)
    BY <1>4, <2>1, <2>4 DEF Book!Post
  <2> QED BY <2>4, <2>5 DEF Bookkeeping, Book!Next
<1> QED BY <1>3, <1>4 DEF WriteCheck

LEMMA InsertBooks == ASSUME Inv, NEW p \in Clients, Insert(p) PROVE Bookkeeping
<1> DEFINE r == client[p].req
           type == IF r.kind = "add" THEN "DEPOSIT" ELSE "REFUND"
<1>1. r.amount \in Nat /\ \A a \in Accounts : client[p].seen[a] = 0
  BY DEF Insert, Inv, Placed, Sound, Request
<1>2. CASE Steps(p, AfterCommit(r.kind))
  BY <1>2 DEF Steps, bounds, Bookkeeping
<1>3. ASSUME NEW a \in Accounts, status[a] = "NONE", ~Taken(type, r.key),
             status' = [status EXCEPT ![a] = "ACTIVE"],
             Commit(p, {Row(p, a, r.amount, type, r.key)})
      PROVE  Bookkeeping
  <2> DEFINE row == Row(p, a, r.amount, type, r.key)
  <2>1. /\ row.acc = a /\ row.delta = r.amount /\ row.type = type /\ row.ref = r.key
        /\ row.after = client[p].seen[a] + r.amount
    BY DEF Row
  <2>2. Commit(p, {row})
    BY <1>3
  <2> HIDE DEF row, type
  <2>3. cache[a] = 0
    BY <1>3 DEF Inv, Balanced
  <2>4. row.after = cache[a] + row.delta /\ row.after >= 0
    BY <1>1, <2>1, <2>3
  <2>5. row \in ledger' \ ledger /\ Book!Writes(row)
    BY <1>3, <2>1, <2>2, <2>4, RowWritten
  <2>6. Book!Open(row)
    BY <1>3, <2>1, <2>5 DEF Book!Open
  <2> QED BY <2>5, <2>6 DEF Bookkeeping, Book!Next
<1> QED BY <1>2, <1>3 DEF Insert

LEMMA MergeBooks == ASSUME Inv, Honest, NEW p \in Clients, WriteMerge(p) PROVE Bookkeeping
<1> DEFINE s == client[p].req.acc
           t == client[p].req.to
           n == client[p].seen[s]
           out == Row(p, s, -n, "TRANSFER_OUT", <<s, t>>)
           in == Row(p, t, n, "TRANSFER_IN", <<s, t>>)
<1>1. client[p].pc = "write" /\ client[p].req.kind = "merge"
  BY DEF WriteMerge, Writing
<1>2. s \in Accounts /\ t \in Accounts /\ s # t
  BY <1>1, WriterHolds DEF Sound
<1>3. client[p].seen[s] = cache[s] /\ client[p].seen[t] = cache[t]
  BY <1>1, <1>2, WriterHolds DEF Wanted
<1>4. /\ cache \in [Accounts -> Int] /\ posted \in [Accounts -> Int]
      /\ status \in [Accounts -> {"NONE", "ACTIVE", "CLOSED"}]
  BY DEF Inv, MoneyTypeOK
<1>5. CASE Steps(p, "paid") \/ Steps(p, "refused")
  BY <1>5 DEF Steps, bounds, Bookkeeping
<1>6. CASE /\ status[s] # "NONE" /\ status[t] # "NONE" /\ ~Taken("TRANSFER_OUT", <<s, t>>)
           /\ Open(s, t) /\ n > 0 /\ client[p].seen[t] + n >= 0
           /\ Commit(p, {out, in}) /\ status' = [status EXCEPT ![s] = "CLOSED"]
  <2>1. /\ out.acc = s /\ out.delta = -n /\ out.type = "TRANSFER_OUT" /\ out.ref = <<s, t>>
        /\ out.after = client[p].seen[s] + (-n)
        /\ in.acc = t /\ in.delta = n /\ in.type = "TRANSFER_IN" /\ in.ref = <<s, t>>
        /\ in.after = client[p].seen[t] + n
    BY DEF Row
  <2> HIDE DEF out, in
  <2>2. n = cache[s] /\ cache[s] \in Int /\ cache[t] \in Int
    BY <1>2, <1>3, <1>4
  <2>3. status[s] = "ACTIVE" /\ status[t] = "ACTIVE"
    BY <1>2, <1>4, <1>6 DEF Open
  <2>4. ~Taken("TRANSFER_IN", <<s, t>>)
    BY <1>6 DEF Honest, RowRight, Taken, Found
  <2>5. \A z \in {out, in} : Book!New(z)
    BY <1>6, <2>1, <2>4, NewRow
  <2>6. /\ out.after = 0 /\ out.after = cache[s] + out.delta
        /\ in.after = cache[t] + in.delta /\ in.after >= 0
    BY <1>3, <1>6, <2>1, <2>2
  <2>7. \A z \in {out, in} : Book!Continues(z)
    BY <2>1, <2>6 DEF Book!Continues
  <2> DEFINE Of(a) == CHOOSE y \in {out, in} : y.acc = a
             moved == {y.acc : y \in {out, in}}
  <2>8. /\ cache' = [a \in Accounts |-> IF a \in moved THEN Of(a).after ELSE cache[a]]
        /\ posted' = [a \in Accounts |-> IF a \in moved THEN posted[a] + Of(a).delta ELSE posted[a]]
        /\ ledger' = ledger \cup {out, in} /\ edited' = edited
    BY <1>6 DEF Commit
  <2>9. moved = {s, t} /\ Of(s) = out /\ Of(t) = in
    BY <1>2, <2>1
  <2> HIDE DEF Of, moved
  <2>10. cache' = [cache EXCEPT ![s] = 0, ![t] = cache[t] + cache[s]]
    BY <1>2, <1>4, <2>1, <2>2, <2>6, <2>8, <2>9
  <2>11. posted' = [posted EXCEPT ![s] = posted[s] - cache[s], ![t] = posted[t] + cache[s]]
    BY <1>2, <1>4, <2>1, <2>2, <2>8, <2>9
  <2>12. out \notin ledger /\ in \notin ledger
    BY <1>6, <2>1, <2>4 DEF Taken, Found
  <2>13. Book!Merge(out, in)
    BY <1>2, <1>6, <2>1, <2>2, <2>3, <2>5, <2>7, <2>8, <2>10, <2>11 DEF Book!Merge
  <2> QED BY <2>8, <2>12, <2>13 DEF Bookkeeping, Book!Next
<1> QED BY <1>5, <1>6 DEF WriteMerge

LEMMA FixBooks == ASSUME Inv, NEW p \in Clients, WriteFix(p) PROVE Bookkeeping
<1> DEFINE a == client[p].req.acc
<1>1. client[p].pc = "write"
  BY DEF WriteFix, Writing
<1>2. a \in Accounts
  BY <1>1, WriterHolds
<1>3. /\ UNCHANGED <<status, ledger, posted, edited>>
      /\ \/ cache' = [cache EXCEPT ![a] = posted[a]]
         \/ cache' = cache
  BY DEF WriteFix, bounds
<1> QED BY <1>2, <1>3 DEF Bookkeeping, Book!Next, Book!Heal, stored

LEMMA DropBooks ==
  ASSUME NEW S \in SUBSET Accounts, \A a \in S : cache[a] = 0 /\ RowsOf(a) = {},
         status' = [a \in Accounts |-> IF a \in S THEN "NONE" ELSE status[a]],
         UNCHANGED <<cache, ledger, posted, edited>>
  PROVE  Bookkeeping
BY DEF Bookkeeping, Book!Next, Book!Drop, RowsOf

LEMMA DeleteBooks == ASSUME Inv, NEW p \in Clients, WriteDelete(p) PROVE Bookkeeping
<1> DEFINE a == client[p].req.acc
<1>1. client[p].pc = "write"
  BY DEF WriteDelete, Writing
<1>2. a \in Accounts /\ client[p].seen[a] = cache[a]
  BY <1>1, WriterHolds
<1>3. UNCHANGED <<cache, ledger, posted, edited>>
  BY DEF WriteDelete, bounds
<1>4. CASE cache[a] = 0 /\ RowsOf(a) = {} /\ status' = [status EXCEPT ![a] = "NONE"]
  <2>1. {a} \in SUBSET Accounts /\ \A b \in {a} : cache[b] = 0 /\ RowsOf(b) = {}
    BY <1>2, <1>4
  <2>2. status' = [b \in Accounts |-> IF b \in {a} THEN "NONE" ELSE status[b]]
    BY <1>4 DEF Inv, MoneyTypeOK
  <2> QED BY <1>3, <2>1, <2>2, DropBooks
<1>5. CASE status' = status
  BY <1>3, <1>5 DEF Bookkeeping, stored
<1> QED BY <1>2, <1>4, <1>5 DEF WriteDelete

LEMMA PurgeBooks == ASSUME Inv, Purge PROVE Bookkeeping
<1> DEFINE S == {a \in Accounts : status[a] # "NONE" /\ cache[a] = 0 /\ RowsOf(a) = {}}
<1>1. /\ S \in SUBSET Accounts /\ \A a \in S : cache[a] = 0 /\ RowsOf(a) = {}
      /\ status' = [a \in Accounts |-> IF a \in S THEN "NONE" ELSE status[a]]
      /\ UNCHANGED <<cache, ledger, posted, edited>>
  BY DEF Purge, bounds
<1> QED BY <1>1, DropBooks

LEMMA EditBooks == ASSUME Inv, NEW a \in Accounts, Edit(a) PROVE Bookkeeping
<1>1. PICK n \in Nat : cache' = [cache EXCEPT ![a] = n]
  BY DEF Edit
<1>2. cache'[a] = n
  BY <1>1 DEF Inv, MoneyTypeOK
<1>3. cache' = [cache EXCEPT ![a] = cache'[a]] /\ cache'[a] >= 0
  <2>1. cache'[a] >= 0
    BY <1>2
  <2>2. [cache EXCEPT ![a] = n] = [cache EXCEPT ![a] = cache'[a]]
    BY <1>2, Zenon
  <2> QED BY <1>1, <2>1, <2>2, Zenon
<1>4. /\ a \notin edited /\ status[a] # "NONE" /\ edited' = edited \cup {a}
      /\ UNCHANGED <<status, posted, ledger>>
  BY DEF Edit
<1>5. Book!Edit(a)
  BY <1>3, <1>4 DEF Book!Edit
<1> QED BY <1>5 DEF Bookkeeping, Book!Next

LEMMA NextBooks == ASSUME Inv, Honest, [Next]_vars PROVE Bookkeeping
<1>1. ASSUME UNCHANGED <<stored, edited>> PROVE Bookkeeping
  BY <1>1 DEF Bookkeeping
<1>2. ASSUME NEW p \in Clients, MoneyStep(p) PROVE Bookkeeping
  <2>1. CASE \E r \in Requests : Ask(p, r)
    BY <1>1, <2>1 DEF Ask
  <2>2. ASSUME NEW pc, Steps(p, pc) PROVE Bookkeeping
    BY <1>1, <2>2 DEF Steps, bounds
  <2>3. ASSUME NEW a, Begins(p, a) PROVE Bookkeeping
    BY <1>1, <2>3 DEF Begins, bounds
  <2>4. CASE FindSpend(p) \/ FindUndo(p) \/ FindMerge(p) \/ FindVault(p) \/ FindAdd(p) \/ FindOther(p)
    BY <2>2, <2>3, <2>4 DEF FindSpend, FindUndo, FindMerge, FindVault, FindAdd, FindOther, Begin
  <2>5. CASE Reserve(p) \/ Reread(p)
    BY <2>2, <2>3, <2>5 DEF Reserve, Reread
  <2>6. CASE Lock(p) \/ Release(p) \/ Aborts(p) \/ Crash(p)
    BY <1>1, <2>6 DEF Lock, Release, Aborts, Crash, bounds
  <2> QED BY <1>2, <2>1, <2>4, <2>5, <2>6, PostsBook, MergeBooks, CheckBooks, FixBooks, DeleteBooks,
             InsertBooks
          DEF MoneyStep
<1>3. CASE UNCHANGED money
  BY <1>1, <1>3 DEF money, bounds
<1>4. ASSUME NEW p \in Clients, FindRefund(p) \/ MoveRefund(p) PROVE Bookkeeping
  BY <1>1, <1>4 DEF FindRefund, MoveRefund, Steps, Begins, bounds
<1> QED BY <1>2, <1>3, <1>4, PurgeBooks, EditBooks DEF Next, MoneyNext, vars

LEMMA InitBooks == Init => Book!Init
<1> SUFFICES ASSUME Init PROVE Book!Init
  OBVIOUS
<1>1. Inv /\ MoneyInit
  BY InitInv DEF Init
<1>2. /\ DOMAIN Opening \subseteq Accounts /\ \A a \in DOMAIN Opening : Opening[a] \in Nat
  BY MoneyAssumption
<1>3. /\ cache = [a \in Accounts |-> IF a \in DOMAIN Opening THEN Opening[a] ELSE 0]
      /\ posted = cache /\ edited = {}
      /\ status \in [Accounts -> {"NONE", "ACTIVE"}]
      /\ \A a \in DOMAIN Opening : status[a] = "ACTIVE"
  BY <1>1 DEF MoneyInit
<1>4. posted \in [Accounts -> Nat]
  BY <1>2, <1>3
<1>5. \A a \in Accounts : status[a] = "NONE" => posted[a] = 0
  BY <1>3
<1>6. \A x \in ledger : x.acc \in DOMAIN Opening
  BY <1>1 DEF MoneyInit, OpeningRows
<1> QED BY <1>3, <1>4, <1>5, <1>6 DEF Book!Init

(***************************************************************************)
(* The cap.  A reservation is made before the post and given back, or      *)
(* turned into a charge, after it: what is reserved by requests under way  *)
(* is a sum over the clients, to which a step changes one term.            *)
(***************************************************************************)
\* What a client's vault spend has reserved, and not been charged for
Reserved(p) ==
  IF client[p].req.kind = "vault" /\ client[p].pc \in {"lock", "write", "release"}
  THEN client[p].req.amount ELSE 0

Covered ==
  /\ vault.charged + SumFunction([p \in Clients |-> Reserved(p)]) <= vault.spent + vault.unheard
  /\ vault.spent <= Cap

\* A client's step charges and reserves no more than it adds to what is spent.
Banked(p) ==
  /\ \A q \in Clients \ {p} : client'[q] = client[q]
  /\ vault'.charged + Reserved(p)' - (vault'.spent + vault'.unheard) <=
       vault.charged + Reserved(p) - (vault.spent + vault.unheard)
  /\ vault.spent <= Cap => vault'.spent <= Cap

Banking == UNCHANGED <<client, vault>> \/ \E p \in Clients : Banked(p)

LEMMA ReservedType ==
  ASSUME ClientTypes, NEW p \in Clients
  PROVE  Reserved(p) \in Nat
<1>1. client[p].req.amount \in Nat
  BY DEF ClientTypes, Request
<1> QED BY <1>1 DEF Reserved

LEMMA BankingKeeps ==
  ASSUME ClientTypes, ClientTypes', vault \in Vaults, vault' \in Vaults, Covered, Banking
  PROVE  Covered'
<1> DEFINE f == [p \in Clients |-> Reserved(p)]
           g == [p \in Clients |-> Reserved(p)']
<1>1. f \in [Clients -> Nat] /\ g \in [Clients -> Nat]
  <2>1. \A p \in Clients : Reserved(p) \in Nat
    BY ReservedType
  <2>2. \A p \in Clients : Reserved(p)' \in Nat
    BY DEF ClientTypes, Request, Reserved
  <2> QED BY <2>1, <2>2
<1>2. f \in [Clients -> Int] /\ g \in [Clients -> Int]
  BY <1>1
<1>3. SumFunction(f) \in Nat /\ SumFunction(g) \in Nat
  BY <1>1, SumType, MoneyAssumption
<1>4. /\ vault.spent \in Nat /\ vault.charged \in Nat /\ vault.unheard \in Nat
      /\ vault'.spent \in Nat /\ vault'.charged \in Nat /\ vault'.unheard \in Nat
  BY DEF Vaults
<1>5. CASE UNCHANGED <<client, vault>>
  BY <1>5 DEF Covered, Reserved
<1>6. ASSUME NEW p \in Clients, Banked(p) PROVE Covered'
  <2>1. \A q \in Clients \ {p} : g[q] = f[q]
    BY <1>6 DEF Banked, Reserved
  <2>2. f[p] = Reserved(p) /\ g[p] = Reserved(p)' /\ f[p] \in Nat /\ g[p] \in Nat
    BY <1>1
  <2> HIDE DEF f, g
  <2>3. SumFunction(g) = SumFunction(f) + g[p] - f[p]
    BY <1>2, <2>1, SumChanges, MoneyAssumption
  <2>4. vault'.charged + g[p] - (vault'.spent + vault'.unheard) <=
          vault.charged + f[p] - (vault.spent + vault.unheard)
    BY <1>6, <2>2 DEF Banked
  <2>5. vault.charged + SumFunction(f) <= vault.spent + vault.unheard
    BY DEF Covered, f
  <2>6. vault'.charged + SumFunction(g) <= vault'.spent + vault'.unheard
    BY <1>3, <1>4, <2>2, <2>3, <2>4, <2>5
  <2>7. vault'.spent <= Cap
    BY <1>6 DEF Banked, Covered
  <2> QED BY <2>6, <2>7 DEF Covered, g
<1> QED BY <1>5, <1>6 DEF Banking

\* Nothing is charged, and no more is reserved.
LEMMA IdleBanks ==
  ASSUME Inv, NEW p \in Clients, vault' = vault, \A q \in Clients \ {p} : client'[q] = client[q],
         Reserved(p)' \in {0, Reserved(p)}
  PROVE  Banking
<1>1. Reserved(p) \in Nat
  BY ReservedType, TypesParts DEF Inv
<1>2. vault \in Vaults
  BY Counts
<1> QED BY <1>1, <1>2 DEF Banking, Banked, Vaults

LEMMA GoesReserves ==
  ASSUME Inv, NEW p \in Clients, NEW pc, Goes(p, pc), ~InTx(pc)
  PROVE  /\ \A q \in Clients \ {p} : client'[q] = client[q]
         /\ Reserved(p)' = IF pc = "release" /\ client[p].req.kind = "vault"
                           THEN client[p].req.amount ELSE 0
<1>1. /\ \A q \in Clients \ {p} : client'[q] = client[q]
      /\ client'[p].pc = pc /\ client'[p].req = IF pc = "refused" THEN NoRequest ELSE client[p].req
  BY DEF Goes, NoClient, Inv, MoneyTypeOK
<1> QED BY <1>1 DEF Reserved, InTx

LEMMA StepsBanking ==
  ASSUME Inv, NEW p \in Clients, NEW pc, Goes(p, pc), vault' = vault, ~InTx(pc),
         pc = "release" => InTx(client[p].pc)
  PROVE  Banking
<1>1. \A q \in Clients \ {p} : client'[q] = client[q]
  BY GoesReserves
<1>2. Reserved(p)' \in {0, Reserved(p)}
  BY GoesReserves DEF Reserved, InTx
<1> QED BY <1>1, <1>2, IdleBanks

LEMMA BeginsBanking ==
  ASSUME Inv, NEW p \in Clients, NEW a, Begins(p, a)
  PROVE  /\ \A q \in Clients \ {p} : client'[q] = client[q]
         /\ Reserved(p)' = IF client[p].req.kind = "vault" THEN client[p].req.amount ELSE 0
<1>1. client[p].req \in Request
  BY DEF Inv, MoneyTypeOK
<1>2. /\ \A q \in Clients \ {p} : client'[q] = client[q]
      /\ client'[p].pc = "lock" /\ client'[p].req.kind = client[p].req.kind
      /\ client'[p].req.amount = client[p].req.amount
  BY <1>1 DEF Begins, Inv, MoneyTypeOK, Request
<1> QED BY <1>2 DEF Reserved

LEMMA FindBanking ==
  ASSUME Inv, NEW p \in Clients,
         \/ FindSpend(p) \/ FindUndo(p) \/ FindMerge(p) \/ FindVault(p) \/ FindAdd(p) \/ FindOther(p)
         \/ FindRefund(p)
  PROVE  Banking
<1>1. ASSUME NEW pc \in {"paid", "refused", "reserve", "insert", "move"}, Steps(p, pc) PROVE Banking
  BY <1>1, StepsBanking DEF Steps, InTx
<1>2. ASSUME NEW a, Begins(p, a), vault' = vault, client[p].req.kind # "vault" PROVE Banking
  BY <1>2, BeginsBanking, IdleBanks
<1>3. CASE FindSpend(p)
  BY <1>1, <1>2, <1>3 DEF FindSpend, Finding, Begin
<1>4. CASE FindUndo(p)
  BY <1>1, <1>2, <1>4 DEF FindUndo, Finding, Begin
<1>5. CASE FindMerge(p)
  BY <1>1, <1>2, <1>5 DEF FindMerge, Finding, Begin
<1>6. CASE FindVault(p)
  BY <1>1, <1>6 DEF FindVault
<1>7. CASE FindAdd(p)
  BY <1>1, <1>7 DEF FindAdd
<1>8. CASE FindOther(p)
  BY <1>2, <1>8 DEF FindOther, Begin
<1>9. CASE FindRefund(p)
  BY <1>1, <1>2, <1>9 DEF FindRefund, Finding
<1> QED BY <1>3, <1>4, <1>5, <1>6, <1>7, <1>8, <1>9

LEMMA ReserveBanking == ASSUME Inv, NEW p \in Clients, Reserve(p) PROVE Banking
<1>1. CASE Steps(p, "refused")
  BY <1>1, StepsBanking DEF Steps, InTx
<1>2. CASE /\ UnderCap(p) /\ Begins(p, client[p].req.acc)
           /\ vault' = [vault EXCEPT !.spent = @ + client[p].req.amount]
  <2>1. client[p].pc = "reserve" /\ client[p].req.amount \in Nat
    BY DEF Reserve, Inv, MoneyTypeOK, Request
  <2>2. Reserved(p) = 0 /\ Reserved(p)' \in {0, client[p].req.amount}
    BY <1>2, <2>1, BeginsBanking DEF Reserved
  <2>3. vault \in Vaults
    BY Counts
  <2>4. /\ vault'.spent = vault.spent + client[p].req.amount
        /\ vault'.charged = vault.charged /\ vault'.unheard = vault.unheard
        /\ vault.spent \in Nat /\ vault.charged \in Nat /\ vault.unheard \in Nat
    BY <1>2, <2>3 DEF Vaults
  <2>5. vault'.spent <= Cap
    BY <1>2, <2>4 DEF UnderCap
  <2>6. \A q \in Clients \ {p} : client'[q] = client[q]
    BY <1>2, BeginsBanking
  <2> QED BY <2>1, <2>2, <2>4, <2>5, <2>6 DEF Banking, Banked
<1> QED BY <1>1, <1>2 DEF Reserve

LEMMA CommitBanking ==
  ASSUME Inv, NEW p \in Clients, NEW rows, Commit(p, rows),
         client[p].req.kind = "vault" => client[p].pc = "write"
  PROVE  Banking
<1>1. PICK n \in Nat : n = Charge(p)
  BY DEF Charge, Inv, MoneyTypeOK, Request
<1>2. Reserved(p) = n \/ (n = 0 /\ Reserved(p) \in Nat)
  BY <1>1, TypesParts, ReservedType DEF Reserved, Charge, Inv
<1>3. vault \in Vaults /\ Cap \in Nat
  BY Counts, MoneyAssumption
<1>4. CASE /\ Goes(p, AfterCommit(client[p].req.kind))
           /\ vault' = [vault EXCEPT !.charged = @ + Charge(p)]
  <2>1. AfterCommit(client[p].req.kind) \in {"paid", "move"}
    BY DEF AfterCommit
  <2>2. Reserved(p)' = 0 /\ \A q \in Clients \ {p} : client'[q] = client[q]
    BY <1>4, <2>1, GoesReserves DEF InTx
  <2>3. vault'.charged = vault.charged + n /\ vault'.spent = vault.spent /\ vault'.unheard = vault.unheard
    BY <1>1, <1>3, <1>4 DEF Vaults
  <2> QED BY <1>2, <1>3, <2>2, <2>3 DEF Banking, Banked, Vaults
<1>5. CASE /\ Goes(p, AfterError(client[p].req.kind, FALSE))
           /\ vault' = [vault EXCEPT !.charged = @ + Charge(p), !.unheard = @ + Charge(p)]
  <2>1. AfterError(client[p].req.kind, FALSE) \in {"release", "refused"}
    BY DEF AfterError
  <2>2. Reserved(p)' \in {0, n} /\ \A q \in Clients \ {p} : client'[q] = client[q]
    BY <1>1, <1>5, <2>1, GoesReserves DEF InTx, Charge
  <2>3. /\ vault'.charged = vault.charged + n /\ vault'.spent = vault.spent
        /\ vault'.unheard = vault.unheard + n
    BY <1>1, <1>3, <1>5 DEF Vaults
  <2> QED BY <1>2, <1>3, <2>2, <2>3 DEF Banking, Banked, Vaults
<1> QED BY <1>4, <1>5 DEF Commit

LEMMA FailsBanking ==
  ASSUME Inv, NEW p \in Clients, NEW d \in BOOLEAN, client[p].pc = "write", Fails(p, d)
  PROVE  Banking
<1>1. ~InTx(AfterError(client[p].req.kind, d)) /\ InTx(client[p].pc)
  BY DEF AfterError, InTx
<1> QED BY <1>1, StepsBanking DEF Fails, Steps

LEMMA WriteBanking ==
  ASSUME Inv, NEW p \in Clients,
         \/ WriteSpend(p) \/ WriteVault(p) \/ WriteRefund(p) \/ WriteUndo(p)
         \/ WriteMerge(p) \/ WriteCheck(p) \/ WriteFix(p) \/ WriteDelete(p)
  PROVE  Banking
<1>1. client[p].pc = "write"
  BY DEF WriteSpend, WriteVault, WriteRefund, WriteUndo, WriteMerge, WriteCheck, WriteFix,
         WriteDelete, Writing
<1>2. ASSUME NEW rows, Commit(p, rows) PROVE Banking
  BY <1>1, <1>2, CommitBanking
<1>3. ASSUME NEW pc \in {"paid", "refused"}, Goes(p, pc), vault' = vault PROVE Banking
  BY <1>3, StepsBanking DEF InTx
<1>4. ASSUME NEW delta, NEW type, Post(p, delta, type) PROVE Banking
  <2>1. Fails(p, FALSE) \/ Fails(p, TRUE) \/ \E rows : Commit(p, rows)
    BY <1>4, Zenon DEF Post
  <2> QED BY <1>1, <1>2, <2>1, FailsBanking
<1>5. CASE WriteSpend(p) \/ WriteVault(p) \/ WriteRefund(p) \/ WriteUndo(p)
  BY <1>4, <1>5 DEF WriteSpend, WriteVault, WriteRefund, WriteUndo
<1>6. CASE WriteMerge(p)
  <2>1. Steps(p, "paid") \/ Steps(p, "refused") \/ \E rows : Commit(p, rows)
    BY <1>6, Zenon DEF WriteMerge
  <2> QED BY <1>2, <1>3, <2>1 DEF Steps
<1>7. CASE WriteCheck(p)
  BY <1>1, <1>2, <1>3, <1>7, FailsBanking DEF WriteCheck, Steps
<1>8. CASE WriteFix(p) \/ WriteDelete(p)
  BY <1>3, <1>8 DEF WriteFix, WriteDelete
<1> QED BY <1>5, <1>6, <1>7, <1>8

LEMMA InsertBanking == ASSUME Inv, NEW p \in Clients, Insert(p) PROVE Banking
<1>1. client[p].req.kind \in {"add", "refund"}
  BY DEF Insert, Inv, Placed
<1>2. ASSUME NEW rows, Commit(p, rows) PROVE Banking
  BY <1>1, <1>2, CommitBanking
<1>3. CASE Steps(p, AfterCommit(client[p].req.kind))
  <2>1. AfterCommit(client[p].req.kind) \in {"paid", "move"}
    BY DEF AfterCommit
  <2> QED BY <1>3, <2>1, StepsBanking DEF Steps, InTx
<1> QED BY <1>2, <1>3 DEF Insert

\* A reservation is given back as a whole, or down to nothing.
LEMMA ReleaseBanking == ASSUME Inv, NEW p \in Clients, Release(p) PROVE Banking
<1>1. PICK n \in Nat : n = client[p].req.amount
  BY DEF Inv, MoneyTypeOK, Request
<1>2. client[p].pc = "release" /\ Goes(p, "reread") /\ vault' = [vault EXCEPT !.spent = Released(@, n)]
  BY <1>1 DEF Release
<1>3. Reserved(p) = n
  BY <1>1, <1>2 DEF Reserved, Inv, Placed
<1>4. Reserved(p)' = 0 /\ \A q \in Clients \ {p} : client'[q] = client[q]
  BY <1>2, GoesReserves DEF InTx
<1>5. vault \in Vaults /\ Cap \in Nat
  BY Counts, MoneyAssumption
<1>6. /\ vault'.spent = Released(vault.spent, n)
      /\ vault'.charged = vault.charged /\ vault'.unheard = vault.unheard
  BY <1>2, <1>5 DEF Vaults
<1>7. vault.spent \in Nat /\ vault.charged \in Nat /\ vault.unheard \in Nat
  BY <1>5 DEF Vaults
<1>8. vault'.spent <= vault.spent /\ vault.spent - n <= vault'.spent /\ vault'.spent \in Nat
  BY <1>6, <1>7 DEF Released
<1>9. vault.spent <= Cap => vault'.spent <= Cap
  BY <1>5, <1>7, <1>8
<1>10. vault'.charged + 0 - (vault'.spent + vault'.unheard) <=
         vault.charged + n - (vault.spent + vault.unheard)
  BY <1>6, <1>7, <1>8
<1>11. Banked(p)
  BY <1>3, <1>4, <1>9, <1>10 DEF Banked
<1> QED BY <1>11 DEF Banking

LEMMA MoneyStepBanking == ASSUME Inv, NEW p \in Clients, MoneyStep(p) PROVE Banking
<1>1. ClientTypes
  BY TypesParts DEF Inv
<1>2. CASE \E r \in Requests : Ask(p, r)
  <2>1. vault' = vault /\ client'[p].pc = "find" /\ \A q \in Clients \ {p} : client'[q] = client[q]
    BY <1>1, <1>2 DEF Ask, ClientTypes, NoClient
  <2> QED BY <2>1, IdleBanks DEF Reserved
<1>3. CASE FindSpend(p) \/ FindUndo(p) \/ FindMerge(p) \/ FindVault(p) \/ FindAdd(p) \/ FindOther(p)
  BY <1>3, FindBanking
<1>4. CASE Lock(p)
  <2>1. /\ vault' = vault /\ client[p].pc = "lock" /\ client'[p].pc \in {"lock", "write"}
        /\ client'[p].req = client[p].req /\ \A q \in Clients \ {p} : client'[q] = client[q]
    BY <1>1, <1>4 DEF Lock, ClientTypes
  <2> QED BY <2>1, IdleBanks DEF Reserved
<1>5. CASE Reread(p)
  BY <1>5, StepsBanking DEF Reread, Steps, InTx
<1>6. CASE Aborts(p)
  <2>1. vault' = vault
    BY <1>6 DEF Aborts
  <2>2. ASSUME InTx(client[p].pc), client' = [client EXCEPT ![p].pc = "lock", ![p].began = clock']
        PROVE  Banking
    <3>1. /\ client'[p].pc = "lock" /\ client'[p].req = client[p].req
          /\ \A q \in Clients \ {p} : client'[q] = client[q]
      BY <1>1, <2>2 DEF ClientTypes
    <3>2. Reserved(p)' = Reserved(p)
      BY <2>2, <3>1 DEF Reserved, InTx
    <3> QED BY <2>1, <3>1, <3>2, IdleBanks
  <2>3. ASSUME client[p].pc \in {"lock", "write", "insert"}, Goes(p, AfterError(client[p].req.kind, FALSE))
        PROVE  Banking
    <3>1. PICK pc \in {"release", "refused"} : Goes(p, pc) /\ (pc = "release" => client[p].req.kind = "vault")
      BY <2>3 DEF AfterError
    <3>2. pc = "release" => InTx(client[p].pc)
      BY <2>3, <3>1 DEF Inv, Placed, InTx
    <3> QED BY <2>1, <3>1, <3>2, StepsBanking DEF InTx
  <2> QED BY <1>6, <2>2, <2>3 DEF Aborts, InTx
<1>7. CASE Crash(p)
  <2>1. vault' = vault /\ client'[p].pc = "idle" /\ \A q \in Clients \ {p} : client'[q] = client[q]
    BY <1>1, <1>7 DEF Crash, ClientTypes, NoClient
  <2> QED BY <2>1, IdleBanks DEF Reserved
<1> QED BY <1>2, <1>3, <1>4, <1>5, <1>6, <1>7, ReserveBanking, InsertBanking, ReleaseBanking,
           WriteBanking
        DEF MoneyStep

LEMMA NextBanking == ASSUME Inv, [Next]_vars PROVE Banking
<1>1. CASE \E p \in Clients : MoneyStep(p)
  BY <1>1, MoneyStepBanking
<1>2. CASE Purge \/ \E a \in Accounts : Edit(a)
  BY <1>2 DEF Purge, Edit, Banking
<1>3. CASE UNCHANGED money
  BY <1>3 DEF money, Banking
<1>4. CASE \E p \in Clients : FindRefund(p)
  BY <1>4, FindBanking
<1>5. CASE \E p \in Clients : MoveRefund(p)
  BY <1>5, StepsBanking DEF MoveRefund, Steps, InTx
<1> QED BY <1>1, <1>2, <1>3, <1>4, <1>5 DEF Next, MoneyNext, vars

LEMMA InitCovered == Init => Covered
<1> SUFFICES ASSUME Init PROVE Covered
  OBVIOUS
<1>1. vault = [spent |-> 0, charged |-> 0, unheard |-> 0] /\ Cap \in Nat
  BY MoneyAssumption DEF Init, MoneyInit
<1>2. [p \in Clients |-> Reserved(p)] \in [Clients -> {0}]
  BY DEF Init, MoneyInit, NoClient, Reserved
<1>3. SumFunction([p \in Clients |-> Reserved(p)]) = 0
  BY <1>2, SumOfZeros, MoneyAssumption
<1> QED BY <1>1, <1>3 DEF Covered

LEMMA CoveredHolds == Spec => []Covered
<1>1. ASSUME Inv, Inv', Covered, [Next]_vars PROVE Covered'
  <2>1. ClientTypes /\ ClientTypes' /\ vault \in Vaults /\ vault' \in Vaults
    BY <1>1 DEF Inv, MoneyTypeOK, ClientTypes, Vaults
  <2> QED BY <1>1, <2>1, NextBanking, BankingKeeps
<1> QED BY <1>1, InitCovered, InvHolds, PTL DEF Spec

(***************************************************************************)
(* The theorems.                                                           *)
(***************************************************************************)
\* The state of the money ledger has its types: balances are integers, what a member has spent is
\* never negative, and the bounded events stay within their bound.
THEOREM MoneyTypes == Spec => []MoneyTypeOK
<1>1. Inv => MoneyTypeOK
  BY DEF Inv
<1> QED BY <1>1, InvHolds, PTL

\* postLedgerEntry, mergeAccountInto, setAccountBalance, reconcileAccountCache and the inserts
\* never move a cache away from the sum of its ledger, however many of them run at once.
THEOREM Drifts == Spec => DriftOnlyHealed
<1>1. ASSUME Inv, [Next]_vars
      PROVE  [\A a \in Accounts : a \in edited' \ edited \/ Drift(a)' \in {Drift(a), 0}]_money
  <2>1. Shape
    BY <1>1, NextShape
  <2>2. ASSUME NEW a \in Accounts
        PROVE  a \in edited' \ edited \/ cache'[a] - posted'[a] \in {cache[a] - posted[a], 0}
    <3>1. cache[a] \in Int /\ posted[a] \in Int /\ cache'[a] \in Int /\ posted'[a] \in Int
      BY <1>1, <2>1 DEF Shape, StoredTypes, Inv, MoneyTypeOK
    <3> QED BY <2>1, <3>1 DEF Shape, Booked, Kept, Posted, Healed, Dropped, ByHand
  <2> QED BY <2>2 DEF Drift
<1> QED BY <1>1, InvHolds, PTL DEF Spec, DriftOnlyHealed

\* Transactions that take row locks never wait for each other in a circle: mergeAccountInto takes
\* its two in the order of their ids, every other takes one.
THEOREM LocksInOrder == Spec => []LocksAscend
<1>1. ASSUME Inv, NEW p \in Clients, NEW q \in Clients, WaitsFor(p, q), client[q].pc = "lock"
      PROVE  NextRow(p) < NextRow(q)
  <2>1. /\ ClientTypes /\ Placed(p) /\ Placed(q) /\ Holds(p) /\ Holds(q)
    BY <1>1, TypesParts DEF Inv
  <2>2. client[p].pc = "lock" /\ lock[NextRow(p)] = q
    BY <1>1 DEF WaitsFor
  <2>3. NextRow(p) \in Accounts /\ NextRow(q) \in Rest(q)
    BY <1>1, <2>1, <2>2, RestIn DEF Holds
  <2>4. NextRow(p) \in Held(q)
    BY <2>2, <2>3 DEF Held
  <2> QED BY <1>1, <2>1, <2>3, <2>4 DEF Holds
<1>2. Inv => LocksAscend
  BY <1>1 DEF LocksAscend
<1> QED BY <1>2, InvHolds, PTL

\* Concurrent spends, vault spends and merges never take more from an account than was put on it.
THEOREM Overdrafts == Spec => []NeverOverdrawn
<1>1. Inv => NeverOverdrawn
  BY DEF Inv, Balanced, NeverOverdrawn
<1> QED BY <1>1, InvHolds, PTL

\* Merges, in any direction and retried at will, leave an account open to hold what they moved.
THEOREM Merges == Spec => []MergesLeaveOneOpen
<1>1. Inv => MergesLeaveOneOpen
  BY DEF Inv, OneListed, Listed, MergesLeaveOneOpen
<1> QED BY <1>1, InvHolds, PTL

\* POST /returns/:id/refund never leaves a return refunded without its credit on the ledger.
THEOREM Refunds == Spec => []RefundedMeansCredited
<1>1. Inv => RefundedMeansCredited
  BY DEF Inv
<1> QED BY <1>1, InvHolds, PTL

\* A return whose refund is credited is never moved back by a pickup, a cancelled pickup or any
\* other of the user's calls that were under way.
THEOREM Credits == Spec => []CreditedNeverReopens
<1>1. Inv => CreditedNeverReopens
  BY DEF Inv
<1> QED BY <1>1, InvHolds, PTL
\* A request answered as done is on the ledger: an answer from a replay, from a twin's row or from
\* a second look after an error is about a row of this account, this key and this purpose.
THEOREM Answers == Spec => []AnswersHold
<1>1. ASSUME Inv, Honest, NEW p \in Clients, NEW r, r = client[p].req, client[p].pc = "paid"
      PROVE  /\ r.kind \in {"spend", "vault", "undo"} => Answered(r)
             /\ r.kind = "undo" => \E x \in Found("DEPOSIT", r.key), y \in SpendOf(r) : x.delta = -y.delta
             /\ r.kind = "merge" => status[r.acc] = "CLOSED"
             /\ r.kind = "add" => Taken("DEPOSIT", r.key)
             /\ r.kind = "refund" => Taken("REFUND", r.key)
  <2>1. OnLedger(r)
    BY <1>1 DEF Honest
  <2>2. ASSUME r.kind = "undo"
        PROVE  \E x \in Found("DEPOSIT", r.key), y \in SpendOf(r) : x.delta = -y.delta
    <3>1. PICK x \in Found("DEPOSIT", r.key) : x.tag = "undo" /\ x.acc = r.acc
      BY <2>1, <2>2 DEF OnLedger, Answered, Undone
    <3>2. RowRight(x) /\ x.type = "DEPOSIT" /\ x.ref = r.key
      BY <1>1, <3>1 DEF Honest, Found
    <3> QED BY <3>1, <3>2 DEF RowRight, SpendOf
  <2>3. ASSUME r.kind = "merge" PROVE status[r.acc] = "CLOSED"
    <3>1. PICK x \in ledger : x.type = "TRANSFER_OUT" /\ x.ref = <<r.acc, r.to>>
      BY <2>1, <2>3 DEF OnLedger, Taken, Found
    <3>2. PICK t : x.ref = <<x.acc, t>>
      BY <1>1, <3>1 DEF Honest, RowRight
    <3>3. x.acc = r.acc
      BY <3>1, <3>2
    <3> QED BY <1>1, <3>1, <3>3 DEF Honest, RowRight
  <2> QED BY <2>1, <2>2, <2>3 DEF OnLedger
<1>2. Inv /\ Honest => AnswersHold
  BY <1>1 DEF AnswersHold
<1> QED BY <1>2, InvHolds, HonestHolds, PTL

\* What the member was charged is within what tryReserveHouseholdVaultSpend has reserved, and that
\* within the cap, but for commits whose answer was lost, for any number of requests at once.
THEOREM Caps == Spec => []CapCoversCharges
<1>1. ASSUME Inv, Covered PROVE CapCoversCharges
  <2>1. [p \in Clients |-> Reserved(p)] \in [Clients -> Nat]
    BY <1>1, TypesParts, ReservedType DEF Inv
  <2>2. SumFunction([p \in Clients |-> Reserved(p)]) \in Nat
    BY <2>1, SumType, MoneyAssumption
  <2>3. vault \in Vaults
    BY <1>1, Counts
  <2> QED BY <1>1, <2>2, <2>3 DEF Covered, CapCoversCharges, Vaults
<1> QED BY <1>1, InvHolds, CoveredHolds, PTL
\* Whatever requests run at once, fail, retry or are not heard of, what is stored changes as in the
\* book: one row, or a merge's two, at a time, new for its reference, from the balance of the moment.
THEOREM LedgerImplementsBook == Spec => ImplementsBook
<1>1. Inv /\ Honest /\ [Next]_vars => [Book!Next]_Book!book
  BY NextBooks DEF Bookkeeping, stored, Book!book
<1> QED BY <1>1, InitBooks, InvHolds, HonestHolds, PTL DEF Spec, ImplementsBook, Book!Spec
=============================================================================
