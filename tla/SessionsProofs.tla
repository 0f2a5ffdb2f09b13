-------------------------- MODULE SessionsProofs ---------------------------
(***************************************************************************)
(* Theorems about Sessions: its types, the users and the store on its own  *)
(* steps, and where its pairs are as long as nothing is lost on the way.   *)
(***************************************************************************)
EXTENDS Sessions, SequenceTheorems, TLAPS

(***************************************************************************)
(* The types of the sessions' state, in parts.                             *)
(***************************************************************************)
HandlerPcs == {"idle", "verify", "find", "insert", "grant", "consume", "save", "answer"}
Signing == {"verify", "find", "insert", "grant", "save"}

\* The values of a type in which S are the pairs issued
Requested(S) == [pc : HandlerPcs, user : Users \cup {None}, pair : {0} \cup S,
                 answer : {Refused, Failed} \cup S]
Renewals(S) == [pc : {"idle", "asked", "body", "left"}, of : {0} \cup S, at : Handlers \cup {None},
                got : {0} \cup S]
CallsOf(S) == [pc : {"idle", "sent", "waiting"}, sent : {0} \cup S]
Stores(S) == [kept : {SignedOut} \cup S, writing : {Nothing, SignedOut} \cup S,
              pending : {Nothing, SignedOut} \cup S, bad : BOOLEAN]

Ledgers ==
  /\ known \subseteq Users /\ grants \in [Users -> Nat] /\ code \subseteq Users
  /\ owner \in Seq(Users)
  /\ live \subseteq Issued /\ expired \subseteq Issued /\ revoking \subseteq Issued

\* A request that works on a user knows which.
Addressed == \A h \in Handlers : handler[h].pc \in Signing => handler[h].user \in Users

RequestsFit == handler \in [Handlers -> Requested(Issued)] /\ Addressed

\* A renewal that is asked for knows where, and one that has a pair to revoke knows which.
RenewalFits ==
  /\ renewal \in Renewals(Issued)
  /\ renewal.pc = "asked" => renewal.at \in Handlers
  /\ renewal.pc = "left" => renewal.got \in Issued

StoreFits == store \in Stores(Issued)

SessionFits == session \in {SignedOut} \cup Issued /\ who \in Users \cup {None}

AppFits ==
  /\ SessionFits
  /\ signing \in Handlers \cup {None}
  /\ RenewalFits
  /\ call \in [Calls -> CallsOf(Issued)]
  /\ StoreFits
  /\ mixed \in BOOLEAN /\ faults \in 0 .. MaxFaults /\ withheld \subseteq Users

SessionTypes == Ledgers /\ RequestsFit /\ AppFits

LEMMA TypesAreParts == SessionTypes => TypeOK
BY DEF SessionTypes, Ledgers, RequestsFit, AppFits, RenewalFits, StoreFits, SessionFits, TypeOK,
       Requested, Renewals, CallsOf, Stores, HandlerPcs

\* What the updates of requests, renewals and the store's writer preserve
LEMMA RequestValues ==
  ASSUME NEW S, NEW x \in Requested(S)
  PROVE  /\ x.pc \in HandlerPcs /\ x.user \in Users \cup {None}
         /\ x.pair \in {0} \cup S /\ x.answer \in {Refused, Failed} \cup S
         /\ \A pc \in HandlerPcs : [x EXCEPT !.pc = pc] \in Requested(S)
         /\ \A pc \in HandlerPcs, u \in Users : [x EXCEPT !.pc = pc, !.user = u] \in Requested(S)
         /\ \A n \in {Refused, Failed} \cup S : [x EXCEPT !.pc = "answer", !.answer = n] \in Requested(S)
         /\ \A T : S \subseteq T => x \in Requested(T)
BY DEF Requested, HandlerPcs

LEMMA FreshRequests ==
  ASSUME NEW S
  PROVE  /\ NoHandler \in Requested(S)
         /\ [NoHandler EXCEPT !.pc = "answer", !.answer = Failed] \in Requested(S)
         /\ \A pc \in HandlerPcs, u \in Users : [NoHandler EXCEPT !.pc = pc, !.user = u] \in Requested(S)
         /\ \A t \in S : [NoHandler EXCEPT !.pc = "consume", !.pair = t] \in Requested(S)
BY DEF Requested, HandlerPcs, NoHandler, Refused, Failed

LEMMA StoreValues ==
  ASSUME NEW S, NEW x \in Stores(S)
  PROVE  /\ x.kept \in {SignedOut} \cup S
         /\ x.writing \in {Nothing, SignedOut} \cup S /\ x.pending \in {Nothing, SignedOut} \cup S
         /\ \A t \in {SignedOut} \cup S : [x EXCEPT !.writing = t] \in Stores(S)
         /\ \A t \in {SignedOut} \cup S : [x EXCEPT !.pending = t] \in Stores(S)
         /\ \A T : S \subseteq T => x \in Stores(T)
BY DEF Stores

(***************************************************************************)
(* Ledgers.                                                                *)
(***************************************************************************)
LEMMA IssuedGrows ==
  ASSUME owner \in Seq(Users), NEW u \in Users, owner' = Append(owner, u)
  PROVE  /\ owner' \in Seq(Users) /\ Issued \subseteq Issued' /\ Len(owner) + 1 \in Issued'
         /\ Issued' = Issued \cup {Len(owner) + 1}
         /\ \A t \in Issued : owner'[t] = owner[t]
         /\ owner'[Len(owner) + 1] = u
BY AppendProperties DEF Issued

LEMMA OwnersAreUsers ==
  ASSUME Ledgers, NEW t \in Issued
  PROVE  owner[t] \in Users
BY DEF Ledgers, Issued

LEMMA LedgersStay ==
  ASSUME Ledgers, UNCHANGED <<server, revoking>>
  PROVE  Ledgers'
BY DEF Ledgers, server, Issued

LEMMA ServeLedgers ==
  ASSUME SessionTypes, NEW h \in Handlers, Serve(h)
  PROVE  Ledgers'
<1> DEFINE x == handler[h]
<1>t. Ledgers /\ RequestsFit /\ x \in Requested(Issued)
  BY DEF SessionTypes, RequestsFit
<1>u. x.pc \in Signing => x.user \in Users
  BY <1>t DEF RequestsFit, Addressed
<1>1. CASE Verify(h)
  BY <1>1, <1>t DEF Verify, Ledgers, Issued
<1>2. CASE Find(h)
  BY <1>2, <1>t, LedgersStay DEF Find
<1>3. CASE Insert(h)
  BY <1>3, <1>t, <1>u DEF Insert, Ledgers, Issued, Signing
<1>4. CASE Grant(h)
  <2>1. grants' \in [Users -> Nat]
    BY <1>4, <1>t, <1>u DEF Grant, Ledgers, Signing
  <2> QED BY <2>1, <1>4, <1>t DEF Grant, Ledgers, Issued
<1>5. CASE Consume(h)
  BY <1>5, <1>t DEF Consume, Ledgers, Issued
<1>6. CASE Save(h)
  <2>1. x.user \in Users
    BY <1>6, <1>u DEF Save, Signing
  <2>2. /\ owner' \in Seq(Users) /\ Issued \subseteq Issued' /\ Len(owner) + 1 \in Issued'
    BY <2>1, <1>6, <1>t, IssuedGrows DEF Save, Ledgers
  <2> QED BY <2>2, <1>6, <1>t DEF Save, Ledgers
<1>7. CASE Unheard(h)
  BY <1>7, <1>t, LedgersStay DEF Unheard
<1> QED BY <1>1, <1>2, <1>3, <1>4, <1>5, <1>6, <1>7 DEF Serve

LEMMA RevokingLedgers ==
  ASSUME SessionTypes, SignOut \/ LeftBody
  PROVE  Ledgers'
<1>t. Ledgers /\ RequestsFit /\ RenewalFits /\ SessionFits
  BY DEF SessionTypes, AppFits
<1>1. CASE SignOut
  BY <1>1, <1>t DEF SignOut, Ledgers, server, Issued, SessionFits
<1>2. CASE LeftBody
  <2>1. renewal.got \in Issued
    BY <1>2, <1>t DEF LeftBody, RenewalFits
  <2>2. revoking' \subseteq Issued /\ UNCHANGED server
    BY <2>1, <1>2, <1>t DEF LeftBody, Leftover, Ledgers
  <2> QED BY <2>2, <1>t DEF Ledgers, server, Issued
<1> QED BY <1>1, <1>2

LEMMA NextLedgers ==
  ASSUME SessionTypes, Next
  PROVE  Ledgers'
<1>t. Ledgers
  BY DEF SessionTypes
<1>1. ASSUME NEW u \in Users, SendCode(u) PROVE Ledgers'
  BY <1>1, <1>t DEF SendCode, Ledgers, Issued
<1>2. ASSUME NEW u \in Users, SignIn(u) PROVE Ledgers'
  BY <1>2, <1>t, LedgersStay DEF SignIn
<1>3. ASSUME NEW t \in Pairs, Revoke(t) \/ Expire(t) \/ LoseRevoke(t) PROVE Ledgers'
  BY <1>3, <1>t DEF Revoke, Expire, LoseRevoke, Ledgers, Issued, server
<1>4. ASSUME NEW c \in Calls, Send(c) \/ Reply(c) PROVE Ledgers'
  BY <1>4, <1>t, LedgersStay DEF Send, Reply
<1>5. CASE SignedIn \/ Renewing \/ Body \/ Land \/ Crash \/ GiveUp \/ Kill
  BY <1>5, <1>t, LedgersStay DEF SignedIn, Renewing, Body, Land, Crash, GiveUp, Kill
<1>6. ASSUME NEW h \in Handlers, DatabaseErrs(h) PROVE Ledgers'
  BY <1>6, <1>t, LedgersStay DEF DatabaseErrs
<1> QED BY <1>1, <1>2, <1>3, <1>4, <1>5, <1>6, ServeLedgers, RevokingLedgers DEF Next

(***************************************************************************)
(* The server's requests.                                                  *)
(***************************************************************************)
\* The request of h becomes x.
Becoming(h, x) == handler' = [handler EXCEPT ![h] = x]

LEMMA RequestsStay ==
  ASSUME RequestsFit, UNCHANGED <<handler, owner>>
  PROVE  RequestsFit'
BY DEF RequestsFit, Addressed, Issued

LEMMA RequestChanges ==
  ASSUME RequestsFit, NEW h \in Handlers, NEW x \in Requested(Issued'), Becoming(h, x),
         Issued \subseteq Issued', x.pc \in Signing => x.user \in Users
  PROVE  RequestsFit'
<1>1. \A g \in Handlers : handler[g] \in Requested(Issued')
  BY RequestValues DEF RequestsFit
<1>2. handler' \in [Handlers -> Requested(Issued')]
  BY <1>1 DEF RequestsFit, Becoming
<1>3. Addressed'
  BY DEF RequestsFit, Addressed, Becoming
<1>4. (handler \in [Handlers -> Requested(Issued)])'
  BY <1>2 DEF Requested, Issued
<1> QED BY <1>3, <1>4 DEF RequestsFit

LEMMA ServeRequests ==
  ASSUME SessionTypes, NEW h \in Handlers, Serve(h)
  PROVE  RequestsFit'
<1> DEFINE x == handler[h]
<1>t. Ledgers /\ RequestsFit /\ x \in Requested(Issued)
  BY DEF SessionTypes, RequestsFit
<1>u. x.pc \in Signing => x.user \in Users
  BY <1>t DEF RequestsFit, Addressed
<1>m. ASSUME NEW pc \in HandlerPcs, Moves(h, pc), x.user \in Users, owner' = owner
      PROVE  RequestsFit'
  <2>1. PICK y \in Requested(Issued) : y = [x EXCEPT !.pc = pc]
    BY <1>t, RequestValues
  <2>2. y.user = x.user /\ Becoming(h, y)
    BY <1>m, <1>t, <2>1 DEF Moves, Becoming, Requested, RequestsFit
  <2> QED BY <2>1, <2>2, <1>m, <1>t, RequestChanges DEF Issued
<1>a. ASSUME NEW n \in {Refused, Failed} \cup Issued', Answers(h, n), Issued \subseteq Issued'
      PROVE  RequestsFit'
  <2>1. PICK y \in Requested(Issued') : y = [x EXCEPT !.pc = "answer", !.answer = n]
    BY <1>a, <1>t, RequestValues
  <2>2. y.pc = "answer" /\ Becoming(h, y)
    BY <1>a, <1>t, <2>1 DEF Answers, Becoming, Requested, RequestsFit
  <2> QED BY <2>1, <2>2, <1>a, <1>t, RequestChanges DEF Signing
<1>1. CASE Verify(h)
  <2>1. owner' = owner /\ Issued' = Issued /\ x.user \in Users
    BY <1>1, <1>u DEF Verify, Issued, Signing
  <2> QED BY <2>1, <1>1, <1>m, <1>a DEF Verify, HandlerPcs
<1>2. CASE Find(h)
  <2>1. owner' = owner /\ x.user \in Users
    BY <1>2, <1>u DEF Find, server, Signing
  <2> QED BY <2>1, <1>2, <1>m DEF Find, HandlerPcs
<1>3. CASE Insert(h)
  <2>1. owner' = owner /\ Issued' = Issued /\ x.user \in Users
    BY <1>3, <1>u DEF Insert, Issued, Signing
  <2> QED BY <2>1, <1>3, <1>m, <1>a DEF Insert, HandlerPcs
<1>4. CASE Grant(h)
  <2>1. owner' = owner /\ x.user \in Users
    BY <1>4, <1>u DEF Grant, Signing
  <2> QED BY <2>1, <1>4, <1>m DEF Grant, HandlerPcs
<1>5. CASE Consume(h)
  <2>1. owner' = owner /\ Issued' = Issued
    BY <1>5 DEF Consume, Issued
  <2>2. CASE x.pair \in live
    <3>1. owner[x.pair] \in Users
      BY <2>2, <1>t, OwnersAreUsers DEF Ledgers
    <3>2. PICK y \in Requested(Issued) : y = [x EXCEPT !.pc = "save", !.user = owner[x.pair]]
      BY <3>1, <1>t, RequestValues DEF HandlerPcs
    <3>3. y.user = owner[x.pair] /\ Becoming(h, y)
      BY <1>5, <2>2, <3>2, <1>t DEF Consume, Becoming, Requested, RequestsFit
    <3> QED BY <3>1, <3>2, <3>3, <2>1, <1>t, RequestChanges
  <2>3. CASE x.pair \notin live
    BY <2>1, <2>3, <1>5, <1>a DEF Consume
  <2> QED BY <2>2, <2>3
<1>6. CASE Save(h)
  <2>1. x.user \in Users
    BY <1>6, <1>u DEF Save, Signing
  <2>2. Issued \subseteq Issued' /\ Len(owner) + 1 \in Issued'
    BY <2>1, <1>6, <1>t, IssuedGrows DEF Save, Ledgers
  <2> QED BY <2>2, <1>6, <1>a DEF Save
<1>7. CASE Unheard(h)
  <2>1. Issued' = Issued /\ NoHandler \in Requested(Issued) /\ NoHandler.pc \notin Signing
    BY <1>7, FreshRequests DEF Unheard, server, Issued, NoHandler, Signing
  <2> QED BY <2>1, <1>7, <1>t, RequestChanges DEF Unheard, Becoming
<1> QED BY <1>1, <1>2, <1>3, <1>4, <1>5, <1>6, <1>7 DEF Serve

\* A renewal begins with the session's pair.
LEMMA RenewFits ==
  ASSUME RequestsFit, SessionFits, session # SignedOut, Renew, owner' = owner
  PROVE  /\ RequestsFit' /\ renewal' \in Renewals(Issued) /\ renewal'.at \in Handlers
         /\ \E h \in Idle : handler' = [handler EXCEPT ![h] = [NoHandler EXCEPT !.pc = "consume", !.pair = session]]
                            /\ renewal' = [pc |-> "asked", of |-> session, at |-> h, got |-> 0]
<1>1. PICK h \in Idle : h = CHOOSE x \in Idle : TRUE
  BY DEF Renew
<1>2. h \in Handlers /\ session \in Issued /\ Issued' = Issued
  BY DEF Idle, SessionFits, Issued
<1>3. PICK y \in Requested(Issued) : y = [NoHandler EXCEPT !.pc = "consume", !.pair = session]
  BY <1>2, FreshRequests
<1>4. y.pc = "consume" /\ Becoming(h, y) /\ renewal' = [pc |-> "asked", of |-> session, at |-> h, got |-> 0]
  BY <1>1, <1>3 DEF Renew, Becoming, NoHandler
<1>5. RequestsFit'
  BY <1>2, <1>3, <1>4, RequestChanges DEF Signing
<1>6. renewal' \in Renewals(Issued) /\ renewal'.at \in Handlers
  BY <1>2, <1>4 DEF Renewals
<1> QED BY <1>3, <1>4, <1>5, <1>6 DEF Becoming

LEMMA ErringRequests ==
  ASSUME SessionTypes, NEW h \in Handlers, DatabaseErrs(h)
  PROVE  RequestsFit'
<1>t. RequestsFit /\ handler[h] \in Requested(Issued)
  BY DEF SessionTypes, RequestsFit
<1>1. PICK y \in Requested(Issued) : y = [handler[h] EXCEPT !.pc = "answer", !.answer = Failed]
  BY <1>t, RequestValues
<1>2. y.pc = "answer" /\ Becoming(h, y) /\ Issued' = Issued
  BY <1>1, <1>t DEF DatabaseErrs, Answers, Becoming, Requested, RequestsFit, server, Issued
<1> QED BY <1>1, <1>2, <1>t, RequestChanges DEF Signing

LEMMA NextRequests ==
  ASSUME SessionTypes, Next
  PROVE  RequestsFit'
<1>t. Ledgers /\ RequestsFit /\ SessionFits /\ RenewalFits
  BY DEF SessionTypes, AppFits
<1>1. ASSUME NEW u \in Users, SendCode(u) PROVE RequestsFit'
  BY <1>1, <1>t, RequestsStay DEF SendCode
<1>2. ASSUME NEW u \in Users, SignIn(u) PROVE RequestsFit'
  <2>1. PICK h \in Idle, pc \in {"verify", "find"} :
          handler' = [handler EXCEPT ![h] = [NoHandler EXCEPT !.pc = pc, !.user = u]]
    BY <1>2 DEF SignIn
  <2>2. PICK y \in Requested(Issued) : y = [NoHandler EXCEPT !.pc = pc, !.user = u]
    BY FreshRequests DEF HandlerPcs
  <2>3. y.user = u /\ Becoming(h, y) /\ h \in Handlers /\ Issued' = Issued
    BY <2>1, <2>2, <1>2 DEF Becoming, NoHandler, Idle, SignIn, server, Issued
  <2> QED BY <2>2, <2>3, <1>t, RequestChanges
<1>3. ASSUME NEW t \in Pairs, Revoke(t) \/ Expire(t) \/ LoseRevoke(t) PROVE RequestsFit'
  BY <1>3, <1>t, RequestsStay DEF Revoke, Expire, LoseRevoke, server
<1>4. ASSUME NEW c \in Calls, Send(c) PROVE RequestsFit'
  BY <1>4, <1>t, RequestsStay DEF Send, server
<1>5. ASSUME NEW c \in Calls, Reply(c) PROVE RequestsFit'
  <2>1. owner' = owner /\ (UNCHANGED handler \/ (Renew /\ session # SignedOut))
    BY <1>5 DEF Reply, server
  <2> QED BY <2>1, <1>t, RequestsStay, RenewFits
<1>6. CASE SignedIn \/ Renewing
  <2>1. PICK h \in Handlers : Becoming(h, NoHandler)
    BY <1>6, <1>t DEF SignedIn, Renewing, Becoming, SessionTypes, AppFits, RenewalFits
  <2>2. Issued' = Issued /\ NoHandler \in Requested(Issued) /\ NoHandler.pc \notin Signing
    BY <1>6, FreshRequests DEF SignedIn, Renewing, server, Issued, NoHandler, Signing
  <2> QED BY <2>1, <2>2, <1>t, RequestChanges
<1>7. CASE SignOut \/ Body \/ LeftBody \/ Land \/ GiveUp \/ Kill
  BY <1>7, <1>t, RequestsStay DEF SignOut, Body, LeftBody, Land, GiveUp, Kill, server
<1>8. CASE Crash
  <2>1. Issued' = Issued
    BY <1>8 DEF Crash, server, Issued
  <2>2. PICK y \in Requested(Issued) : y = [NoHandler EXCEPT !.pc = "answer", !.answer = Failed]
    BY FreshRequests
  <2>3. y.pc = "answer" /\ NoHandler.pc = "idle" /\ NoHandler \in Requested(Issued)
    BY <2>2, FreshRequests DEF NoHandler
  <2>4. handler' = [h \in Handlers |-> IF h \in Idle THEN NoHandler ELSE y]
    BY <2>2, <1>8 DEF Crash
  <2>5. handler' \in [Handlers -> Requested(Issued)] /\ Addressed'
    BY <2>3, <2>4 DEF Addressed, Signing
  <2> QED BY <2>1, <2>5 DEF RequestsFit, Requested
<1> QED BY <1>1, <1>2, <1>3, <1>4, <1>5, <1>6, <1>7, <1>8, ServeRequests, ErringRequests DEF Next

(***************************************************************************)
(* The app.                                                                *)
(***************************************************************************)
LEMMA AppStays ==
  ASSUME AppFits, Issued \subseteq Issued', UNCHANGED device,
         faults' \in 0 .. MaxFaults, withheld' \subseteq Users
  PROVE  AppFits'
<1>1. SessionFits' /\ RenewalFits' /\ StoreFits'
  BY StoreValues DEF AppFits, SessionFits, RenewalFits, StoreFits, device, Renewals
<1>2. call' \in [Calls -> CallsOf(Issued)]'
  BY DEF AppFits, device, CallsOf
<1> QED BY <1>1, <1>2 DEF AppFits, device

LEMMA ServeApp ==
  ASSUME SessionTypes, NEW h \in Handlers, Serve(h)
  PROVE  AppFits'
<1>t. AppFits /\ Ledgers /\ Addressed
  BY DEF SessionTypes, RequestsFit
<1>1. UNCHANGED device /\ faults' \in 0 .. MaxFaults /\ withheld' \subseteq Users
  BY <1>t DEF Serve, Verify, Find, Insert, Grant, Consume, Save, Unheard, AppFits
<1>2. CASE Save(h)
  <2>1. handler[h].user \in Users
    BY <1>2, <1>t DEF Save, Addressed, Signing
  <2> QED BY <2>1, <1>1, <1>2, <1>t, IssuedGrows, AppStays DEF Save, Ledgers
<1>3. CASE ~Save(h)
  <2>1. Issued' = Issued
    BY <1>3 DEF Serve, Verify, Find, Insert, Grant, Consume, Unheard, server, Issued
  <2> QED BY <2>1, <1>1, <1>t, AppStays
<1> QED BY <1>2, <1>3

\* The session becomes another pair's, and the store is told.
LEMMA BecomesFits ==
  ASSUME SessionFits, StoreFits, NEW t \in {SignedOut} \cup Issued, NEW u \in Users \cup {None},
         Becomes(t, u), Issued' = Issued
  PROVE  SessionFits' /\ StoreFits'
<1>1. store' \in Stores(Issued)
  BY StoreValues DEF Becomes, Queued, StoreFits
<1> QED BY <1>1 DEF Becomes, SessionFits, StoreFits, Stores

LEMMA EndsFits ==
  ASSUME AppFits, NEW n, Ends(n), Issued' = Issued
  PROVE  RenewalFits' /\ call' \in [Calls -> CallsOf(Issued)]'
<1>1. RenewalFits'
  BY DEF Ends, Over, NoRenewal, RenewalFits, Renewals
<1>2. NoCall \in CallsOf(Issued)
  BY DEF NoCall, CallsOf
<1>3. call' \in [Calls -> CallsOf(Issued)]
  BY <1>2 DEF Ends, AppFits
<1> QED BY <1>1, <1>3 DEF CallsOf

LEMMA CallChanges ==
  ASSUME call \in [Calls -> CallsOf(Issued)], NEW c \in Calls,
         \/ call' = [call EXCEPT ![c] = NoCall]
         \/ call' = [call EXCEPT ![c].pc = "waiting"]
         \/ call' = [call EXCEPT ![c] = [pc |-> "sent", sent |-> session]] /\ session \in Issued,
         Issued' = Issued
  PROVE  call' \in [Calls -> CallsOf(Issued)]'
<1>1. \E x \in CallsOf(Issued) : call' = [call EXCEPT ![c] = x]
  <2>1. NoCall \in CallsOf(Issued) /\ [call[c] EXCEPT !.pc = "waiting"] \in CallsOf(Issued)
    BY DEF NoCall, CallsOf
  <2>2. session \in Issued => [pc |-> "sent", sent |-> session] \in CallsOf(Issued)
    BY DEF CallsOf
  <2>3. CASE call' = [call EXCEPT ![c].pc = "waiting"]
    <3>1. PICK x \in CallsOf(Issued) : x = [call[c] EXCEPT !.pc = "waiting"]
      BY <2>1
    <3> QED BY <2>3, <3>1
  <2> QED BY <2>1, <2>2, <2>3
<1>2. call' \in [Calls -> CallsOf(Issued)]
  BY <1>1
<1> QED BY <1>2 DEF CallsOf

LEMMA NextApp ==
  ASSUME SessionTypes, SessionAssumption, Next
  PROVE  AppFits'
<1>t. Ledgers /\ RequestsFit /\ AppFits /\ SessionFits /\ RenewalFits /\ StoreFits
  BY DEF SessionTypes, AppFits
<1>a. \A h \in Handlers : handler[h].answer \in {Refused, Failed} \cup Issued /\ handler[h].user \in Users \cup {None}
  BY <1>t, RequestValues DEF RequestsFit
<1>f. faults' = faults \/ Faulty => faults' \in 0 .. MaxFaults
  BY <1>t DEF Faulty, AppFits, SessionAssumption
<1>g. \A hs \in SUBSET Handlers : Ungranted(hs) \subseteq Users
  BY <1>t DEF Ungranted, RequestsFit, Addressed, Signing
<1>c. UNCHANGED call /\ Issued' = Issued => call' \in [Calls -> CallsOf(Issued)]'
  BY <1>t DEF AppFits, CallsOf
<1>r. UNCHANGED renewal /\ Issued' = Issued => RenewalFits'
  BY <1>t DEF RenewalFits, Renewals
<1>s. UNCHANGED store /\ Issued' = Issued => StoreFits'
  BY <1>t DEF StoreFits, Stores
<1>w. UNCHANGED <<session, who>> /\ Issued' = Issued => SessionFits'
  BY <1>t DEF SessionFits
<1>1. ASSUME NEW u \in Users, SendCode(u) PROVE AppFits'
  BY <1>1, <1>t, AppStays DEF SendCode, Issued, AppFits
<1>2. ASSUME NEW u \in Users, SignIn(u) PROVE AppFits'
  <2>1. Issued' = Issued /\ signing' \in Handlers
    BY <1>2 DEF SignIn, server, Issued, Idle
  <2> QED BY <2>1, <1>2, <1>t, <1>c, <1>r, <1>s, <1>w DEF SignIn, AppFits
<1>3. ASSUME NEW t \in Pairs, Revoke(t) \/ Expire(t) \/ LoseRevoke(t) PROVE AppFits'
  <2>1. Issued' = Issued /\ (faults' = faults \/ Faulty)
    BY <1>3 DEF Revoke, Expire, LoseRevoke, server, Issued
  <2> QED BY <2>1, <1>3, <1>t, <1>f, <1>c, <1>r, <1>s, <1>w DEF Revoke, Expire, LoseRevoke, AppFits, device
<1>4. ASSUME NEW c \in Calls, Send(c) PROVE AppFits'
  <2>1. Issued' = Issued /\ session \in Issued
    BY <1>4, <1>t DEF Send, server, Issued, SessionFits
  <2>2. call' \in [Calls -> CallsOf(Issued)]'
    BY <2>1, <1>4, <1>t, CallChanges DEF Send, AppFits
  <2> QED BY <2>1, <2>2, <1>4, <1>t, <1>r, <1>s, <1>w DEF Send, AppFits
<1>5. ASSUME NEW c \in Calls, Reply(c) PROVE AppFits'
  <2>1. Issued' = Issued /\ owner' = owner
    BY <1>5 DEF Reply, server, Issued
  <2>2. call' \in [Calls -> CallsOf(Issued)]'
    BY <2>1, <1>5, <1>t, CallChanges DEF Reply, AppFits
  <2>3. UNCHANGED renewal \/ (Renew /\ session # SignedOut)
    BY <1>5 DEF Reply
  <2>4. RenewalFits'
    <3>1. CASE UNCHANGED renewal
      BY <3>1, <2>1, <1>r
    <3>2. CASE Renew /\ session # SignedOut
      BY <3>2, <2>1, <1>t, RenewFits DEF RenewalFits, Renewals
    <3> QED BY <3>1, <3>2, <2>3
  <2> QED BY <2>1, <2>2, <2>4, <1>5, <1>t, <1>s, <1>w DEF Reply, AppFits
<1>6. CASE SignedIn
  <2>1. Issued' = Issued /\ signing \in Handlers /\ handler[signing].answer \in {Refused, Failed} \cup Issued
        /\ handler[signing].user \in Users \cup {None}
    BY <1>6, <1>t, <1>a DEF SignedIn, server, Issued, AppFits
  <2>2. SessionFits' /\ StoreFits'
    <3>1. CASE IsPair(handler[signing].answer)
      BY <3>1, <2>1, <1>6, <1>t, BecomesFits DEF SignedIn, IsPair, Refused, Failed
    <3>2. CASE ~IsPair(handler[signing].answer)
      BY <3>2, <2>1, <1>6, <1>s, <1>w DEF SignedIn
    <3> QED BY <3>1, <3>2
  <2> QED BY <2>1, <2>2, <1>6, <1>t, <1>c, <1>r DEF SignedIn, AppFits
<1>7. CASE SignOut
  <2>1. Issued' = Issued
    BY <1>7 DEF SignOut, server, Issued
  <2>2. SessionFits' /\ StoreFits'
    BY <2>1, <1>7, <1>t, BecomesFits DEF SignOut
  <2> QED BY <2>1, <2>2, <1>7, <1>t, <1>c, <1>r DEF SignOut, AppFits
<1>8. CASE Renewing
  <2> DEFINE n == handler[renewal.at].answer
  <2>1. Issued' = Issued /\ n \in {Refused, Failed} \cup Issued
    BY <1>8, <1>t, <1>a DEF Renewing, server, Issued, RenewalFits
  <2>f. UNCHANGED <<signing, mixed, faults, withheld>>
    BY <1>8 DEF Renewing
  <2> SUFFICES SessionFits' /\ StoreFits' /\ RenewalFits' /\ call' \in [Calls -> CallsOf(Issued)]'
    BY <2>f, <1>t DEF AppFits
  <2>2. CASE Ends(0) /\ UNCHANGED <<session, who, store>>
    BY <2>1, <2>2, <1>t, <1>s, <1>w, EndsFits
  <2>3. CASE Ends(0) /\ Becomes(SignedOut, None)
    BY <2>1, <2>3, <1>t, BecomesFits, EndsFits
  <2>4. CASE /\ IsPair(n) /\ UNCHANGED <<session, who, store, call>>
             /\ \E pc \in {"body", "left"} : renewal' = [renewal EXCEPT !.pc = pc, !.at = None, !.got = n]
    <3>1. n \in Issued
      BY <2>1, <2>4 DEF IsPair, Refused, Failed
    <3>2. RenewalFits'
      BY <3>1, <2>1, <2>4, <1>t DEF RenewalFits, Renewals
    <3> QED BY <3>2, <2>1, <2>4, <1>c, <1>s, <1>w
  <2> QED BY <2>2, <2>3, <2>4, <1>8 DEF Renewing, Reads, Renewed
<1>9. CASE Body
  <2>1. Issued' = Issued /\ renewal.got \in {0} \cup Issued /\ who \in Users \cup {None}
    BY <1>9, <1>t DEF Body, server, Issued, RenewalFits, Renewals, SessionFits
  <2>2. /\ \/ Becomes(renewal.got, who) /\ mixed' \in BOOLEAN /\ faults' = faults
           \/ UNCHANGED <<session, who, store, mixed>> /\ Faulty
        /\ \E m : Ends(m)
        /\ UNCHANGED <<signing, withheld>>
    BY <1>9, <1>t DEF Body, AppFits
  <2>3. SessionFits' /\ StoreFits'
    BY <2>1, <2>2, <1>t, <1>s, <1>w, BecomesFits DEF SignedOut
  <2>4. RenewalFits' /\ call' \in [Calls -> CallsOf(Issued)]'
    BY <2>1, <2>2, <1>t, EndsFits
  <2> QED BY <2>2, <2>3, <2>4, <1>t, <1>f DEF AppFits
<1>10. CASE Land
  <2>1. Issued' = Issued
    BY <1>10 DEF Land, server, Issued
  <2>2. StoreFits'
    BY <2>1, <1>10, <1>t DEF Land, StoreFits, Stores, Nothing
  <2> QED BY <2>1, <2>2, <1>10, <1>t, <1>f, <1>c, <1>r, <1>w DEF Land, AppFits
<1>11. CASE Crash
  BY <1>11, <1>t, <1>f, <1>g, <1>c, <1>r, <1>s, <1>w DEF Crash, server, device, Issued, AppFits
<1>12. CASE GiveUp
  <2>1. Issued' = Issued
    BY <1>12 DEF GiveUp, server, Issued
  <2>2. RenewalFits' /\ call' \in [Calls -> CallsOf(Issued)]'
    BY <2>1, <1>12, <1>t, <1>c, <1>r, EndsFits DEF GiveUp
  <2> QED BY <2>1, <2>2, <1>12, <1>t, <1>f, <1>s, <1>w DEF GiveUp, AppFits
<1>13. CASE Kill
  <2>1. Issued' = Issued /\ store.kept \in {SignedOut} \cup Issued
    BY <1>13, <1>t, StoreValues DEF Kill, server, Issued, StoreFits
  <2>2. SessionFits'
    BY <2>1, <1>13, <1>t, OwnersAreUsers DEF Kill, SessionFits
  <2>3. StoreFits'
    BY <2>1, <1>13 DEF Kill, StoreFits, Stores
  <2>4. RenewalFits' /\ call' \in [Calls -> CallsOf(Issued)]'
    BY <2>1, <1>13 DEF Kill, NoRenewal, NoCall, RenewalFits, Renewals, CallsOf
  <2> QED BY <2>2, <2>3, <2>4, <1>13, <1>t, <1>f DEF Kill, AppFits
<1>14. CASE LeftBody
  <2>1. Issued' = Issued
    BY <1>14 DEF LeftBody, server, Issued
  <2>2. RenewalFits' /\ call' \in [Calls -> CallsOf(Issued)]'
    BY <2>1, <1>14, <1>t, EndsFits DEF LeftBody
  <2> QED BY <2>1, <2>2, <1>14, <1>t, <1>f, <1>s, <1>w DEF LeftBody, AppFits
<1>15. ASSUME NEW h \in Handlers, DatabaseErrs(h) PROVE AppFits'
  <2>1. withheld' \subseteq Users
    BY <1>15, <1>t, <1>g DEF DatabaseErrs, AppFits
  <2> QED BY <2>1, <1>15, <1>t, <1>f, AppStays DEF DatabaseErrs, server, Issued
<1> QED BY <1>1, <1>2, <1>3, <1>4, <1>5, <1>6, <1>7, <1>8, <1>9, <1>10, <1>11, <1>12, <1>13, <1>14, <1>15,
           ServeApp DEF Next

(***************************************************************************)
(* Users, their grants, and their pairs.                                   *)
(***************************************************************************)
\* Who works on a user's row
OnRow == {"grant", "save"}

\* The row a request works on is there, and so is that of the owner of every good pair.
RowsThere ==
  /\ \A h \in Handlers : handler[h].pc \in OnRow => handler[h].user \in known
  /\ \A t \in live : owner[t] \in known

\* A grant that is under way is the only one, and the first.
GrantsSound ==
  \A u \in Users :
    /\ u \notin known => grants[u] = 0
    /\ \A h, g \in Handlers :
         /\ handler[h].pc = "grant" /\ handler[h].user = u
         /\ handler[g].pc = "grant" /\ handler[g].user = u
         => h = g
    /\ \A h \in Handlers : handler[h].pc = "grant" /\ handler[h].user = u => grants[u] = 0

UsersSound == RowsThere /\ GrantsSound /\ OnboardingGrantedOnce

\* Nobody takes up a user's row, and who works on one goes on.
LEMMA UsersStay ==
  ASSUME UsersSound, UNCHANGED <<known, grants, owner>>, live' \subseteq live,
         withheld \subseteq withheld',
         \A h \in Handlers : handler'[h].pc \in OnRow =>
           handler'[h].pc = handler[h].pc /\ handler'[h].user = handler[h].user,
         \A h \in Handlers : handler[h].pc = "grant" =>
           \/ handler'[h].pc = "grant" /\ handler'[h].user = handler[h].user
           \/ handler[h].user \in withheld'
  PROVE  UsersSound'
<1>1. RowsThere'
  BY DEF UsersSound, RowsThere, OnRow
<1>2. GrantsSound'
  BY DEF UsersSound, GrantsSound, OnRow
<1>3. OnboardingGrantedOnce'
  <2> SUFFICES ASSUME NEW u \in Users
               PROVE  /\ grants[u] <= 1
                      /\ u \in known =>
                           \/ grants[u] = 1 \/ u \in withheld'
                           \/ \E h \in Handlers : handler'[h].pc = "grant" /\ handler'[h].user = u
    BY DEF OnboardingGrantedOnce
  <2> QED BY DEF UsersSound, OnboardingGrantedOnce
<1> QED BY <1>1, <1>2, <1>3 DEF UsersSound

LEMMA UsersAlone ==
  ASSUME UsersSound, UNCHANGED <<known, grants, owner, live, withheld, handler>>
  PROVE  UsersSound'
BY UsersStay DEF OnRow

LEMMA ServeUsers ==
  ASSUME SessionTypes, UsersSound, NEW h \in Handlers, Serve(h)
  PROVE  UsersSound'
<1> DEFINE x == handler[h]
<1>t. Ledgers /\ RequestsFit /\ Addressed /\ UsersSound
  BY DEF SessionTypes, RequestsFit
<1>p. x \in Requested(Issued) /\ (x.pc \in Signing => x.user \in Users)
  BY <1>t DEF RequestsFit, Addressed
<1>m. ASSUME NEW pc, Moves(h, pc)
      PROVE  /\ handler'[h].pc = pc /\ handler'[h].user = x.user
             /\ \A g \in Handlers \ {h} : handler'[g] = handler[g]
  BY <1>m, <1>p, <1>t DEF Moves, RequestsFit, Requested
<1>n. ASSUME NEW n, Answers(h, n)
      PROVE  handler'[h].pc = "answer" /\ \A g \in Handlers \ {h} : handler'[g] = handler[g]
  BY <1>n, <1>p, <1>t DEF Answers, RequestsFit, Requested
<1>d. /\ x.pc \in Signing => x.user \in Users
      /\ \A pc : Moves(h, pc) => /\ handler'[h].pc = pc /\ handler'[h].user = x.user
                                 /\ \A g \in Handlers \ {h} : handler'[g] = handler[g]
      /\ \A n : Answers(h, n) => /\ handler'[h].pc = "answer"
                                 /\ \A g \in Handlers \ {h} : handler'[g] = handler[g]
  BY <1>p, <1>m, <1>n
<1>1. CASE Verify(h)
  BY <1>1, <1>d, <1>t, UsersStay DEF Verify, OnRow
<1>2. CASE Find(h)
  <2>1. UNCHANGED <<known, grants, owner, live, withheld>> /\ x.pc = "find"
    BY <1>2 DEF Find, server
  <2>2. CASE x.user \in known
    <3>1. handler'[h].pc = "save" /\ handler'[h].user = x.user /\ \A g \in Handlers \ {h} : handler'[g] = handler[g]
      BY <1>2, <2>2, <1>d DEF Find
    <3>2. RowsThere'
      BY <3>1, <2>1, <2>2, <1>t DEF UsersSound, RowsThere
    <3>3. GrantsSound'
      BY <3>1, <2>1, <1>t DEF UsersSound, GrantsSound
    <3>4. OnboardingGrantedOnce'
      BY <3>1, <2>1, <1>t DEF UsersSound, OnboardingGrantedOnce
    <3> QED BY <3>2, <3>3, <3>4 DEF UsersSound
  <2>3. CASE x.user \notin known
    <3>1. handler'[h].pc = "insert" /\ \A g \in Handlers \ {h} : handler'[g] = handler[g]
      BY <1>2, <2>3, <1>d DEF Find
    <3> QED BY <3>1, <2>1, <1>t, UsersStay DEF OnRow
  <2> QED BY <2>2, <2>3
<1>3. CASE Insert(h)
  <2>1. /\ UNCHANGED <<grants, owner, live, withheld>> /\ x.pc = "insert" /\ known' = known \cup {x.user}
        /\ x.user \in Users
    BY <1>3, <1>d DEF Insert, Signing
  <2>2. CASE x.user \in known
    <3>1. handler'[h].pc = "answer" /\ \A g \in Handlers \ {h} : handler'[g] = handler[g]
      BY <1>3, <2>2, <1>d DEF Insert, Twin
    <3>2. known' = known
      BY <2>1, <2>2
    <3> QED BY <3>1, <3>2, <2>1, <1>t, UsersStay DEF OnRow
  <2>3. CASE x.user \notin known
    <3>1. /\ handler'[h].pc = "grant" /\ handler'[h].user = x.user
          /\ \A g \in Handlers \ {h} : handler'[g] = handler[g]
      BY <1>3, <2>3, <1>d DEF Insert, Twin
    <3>2. \A g \in Handlers : handler[g].pc \in OnRow => handler[g].user # x.user
      BY <2>3, <1>t DEF UsersSound, RowsThere
    <3>3. RowsThere'
      BY <3>1, <2>1, <1>t DEF UsersSound, RowsThere, OnRow
    <3>4. GrantsSound'
      BY <3>1, <3>2, <2>1, <2>3, <1>t DEF UsersSound, GrantsSound, OnRow
    <3>5. OnboardingGrantedOnce'
      BY <3>1, <2>1, <1>t DEF UsersSound, OnboardingGrantedOnce
    <3> QED BY <3>3, <3>4, <3>5 DEF UsersSound
  <2> QED BY <2>2, <2>3
<1>4. CASE Grant(h)
  <2>1. /\ UNCHANGED <<known, owner, live, withheld>> /\ x.pc = "grant" /\ x.user \in Users
        /\ handler'[h].pc = "save" /\ handler'[h].user = x.user
        /\ \A g \in Handlers \ {h} : handler'[g] = handler[g]
    BY <1>4, <1>d DEF Grant, Signing
  <2>2. grants[x.user] = 0 /\ x.user \in known
    BY <2>1, <1>t DEF UsersSound, GrantsSound, RowsThere, OnRow
  <2>3. /\ grants'[x.user] = 1 /\ \A u \in Users \ {x.user} : grants'[u] = grants[u]
    BY <1>4, <2>1, <2>2, <1>t DEF Grant, Ledgers
  <2>4. RowsThere'
    BY <2>1, <2>2, <1>t DEF UsersSound, RowsThere, OnRow
  <2>5. GrantsSound'
    BY <2>1, <2>2, <2>3, <1>t DEF UsersSound, GrantsSound
  <2>6. OnboardingGrantedOnce'
    BY <2>1, <2>3, <1>t DEF UsersSound, OnboardingGrantedOnce
  <2> QED BY <2>4, <2>5, <2>6 DEF UsersSound
<1>5. CASE Consume(h)
  <2>1. UNCHANGED <<known, grants, owner, withheld>> /\ live' \subseteq live /\ x.pc = "consume"
    BY <1>5 DEF Consume
  <2>2. CASE x.pair \in live
    <3>1. /\ handler'[h].pc = "save" /\ handler'[h].user = owner[x.pair]
          /\ \A g \in Handlers \ {h} : handler'[g] = handler[g]
      BY <1>5, <2>2, <1>t DEF Consume, RequestsFit, Requested
    <3>2. owner[x.pair] \in known
      BY <2>2, <1>t DEF UsersSound, RowsThere
    <3>3. RowsThere'
      BY <3>1, <3>2, <2>1, <1>t DEF UsersSound, RowsThere
    <3>4. GrantsSound'
      BY <3>1, <2>1, <1>t DEF UsersSound, GrantsSound
    <3>5. OnboardingGrantedOnce'
      BY <3>1, <2>1, <1>t DEF UsersSound, OnboardingGrantedOnce
    <3> QED BY <3>3, <3>4, <3>5 DEF UsersSound
  <2>3. CASE x.pair \notin live
    BY <2>1, <2>3, <1>5, <1>d, <1>t, UsersStay DEF Consume, OnRow
  <2> QED BY <2>2, <2>3
<1>6. CASE Save(h)
  <2>1. /\ UNCHANGED <<known, grants, withheld>> /\ x.pc = "save" /\ x.user \in Users
        /\ handler'[h].pc = "answer" /\ \A g \in Handlers \ {h} : handler'[g] = handler[g]
    BY <1>6, <1>d DEF Save, Signing
  <2>2. x.user \in known
    BY <2>1, <1>t DEF UsersSound, RowsThere, OnRow
  <2>3. \A t \in live' : owner'[t] \in known
    <3>1. /\ live' = live \cup {Len(owner) + 1} /\ live \subseteq Issued
          /\ owner' = Append(owner, x.user) /\ owner \in Seq(Users)
      BY <1>6, <1>t DEF Save, Ledgers
    <3> QED BY <3>1, <2>1, <2>2, <1>t, IssuedGrows DEF UsersSound, RowsThere
  <2>4. RowsThere'
    BY <2>1, <2>3, <1>t DEF UsersSound, RowsThere, OnRow
  <2>5. GrantsSound'
    BY <2>1, <1>t DEF UsersSound, GrantsSound
  <2>6. OnboardingGrantedOnce'
    BY <2>1, <1>t DEF UsersSound, OnboardingGrantedOnce
  <2> QED BY <2>4, <2>5, <2>6 DEF UsersSound
<1>7. CASE Unheard(h)
  <2>1. /\ x.pc = "answer" /\ handler'[h].pc = "idle"
        /\ \A g \in Handlers \ {h} : handler'[g] = handler[g]
    BY <1>7, <1>t DEF Unheard, NoHandler, RequestsFit
  <2> QED BY <2>1, <1>7, <1>t, UsersStay DEF Unheard, server, OnRow
<1> QED BY <1>1, <1>2, <1>3, <1>4, <1>5, <1>6, <1>7 DEF Serve

LEMMA NextUsers ==
  ASSUME SessionTypes, UsersSound, Next
  PROVE  UsersSound'
<1>t. RequestsFit /\ SessionFits /\ UsersSound
  BY DEF SessionTypes, AppFits
<1>1. ASSUME NEW u \in Users, SendCode(u) PROVE UsersSound'
  BY <1>1, <1>t, UsersAlone DEF SendCode
<1>2. ASSUME NEW u \in Users, SignIn(u) PROVE UsersSound'
  <2>1. PICK h \in Idle, pc \in {"verify", "find"} :
          handler' = [handler EXCEPT ![h] = [NoHandler EXCEPT !.pc = pc, !.user = u]]
    BY <1>2 DEF SignIn
  <2>2. /\ h \in Handlers /\ handler[h].pc = "idle" /\ handler'[h].pc = pc
        /\ \A g \in Handlers \ {h} : handler'[g] = handler[g]
    BY <2>1, <1>t DEF Idle, NoHandler, RequestsFit
  <2> QED BY <2>1, <2>2, <1>2, <1>t, UsersStay DEF SignIn, server, OnRow
<1>3. ASSUME NEW t \in Pairs, Revoke(t) \/ Expire(t) \/ LoseRevoke(t) PROVE UsersSound'
  BY <1>3, <1>t, UsersStay DEF Revoke, Expire, LoseRevoke, server, OnRow
<1>4. ASSUME NEW c \in Calls, Send(c) PROVE UsersSound'
  BY <1>4, <1>t, UsersAlone DEF Send, server
<1>5. ASSUME NEW c \in Calls, Reply(c) PROVE UsersSound'
  <2>1. UNCHANGED <<known, grants, owner, live, withheld>> /\ owner' = owner
        /\ (UNCHANGED handler \/ (Renew /\ session # SignedOut))
    BY <1>5 DEF Reply, server
  <2>2. CASE UNCHANGED handler
    BY <2>1, <2>2, <1>t, UsersAlone
  <2>3. CASE Renew /\ session # SignedOut
    <3>1. PICK h \in Idle :
            handler' = [handler EXCEPT ![h] = [NoHandler EXCEPT !.pc = "consume", !.pair = session]]
      BY <2>1, <2>3, <1>t, RenewFits
    <3>2. /\ h \in Handlers /\ handler[h].pc = "idle" /\ handler'[h].pc = "consume"
          /\ \A g \in Handlers \ {h} : handler'[g] = handler[g]
      BY <3>1, <1>t DEF Idle, NoHandler, RequestsFit
    <3> QED BY <3>2, <2>1, <1>t, UsersStay DEF OnRow
  <2> QED BY <2>1, <2>2, <2>3
<1>6. CASE SignedIn \/ Renewing
  <2>1. PICK h \in Handlers : handler[h].pc = "answer" /\ handler' = [handler EXCEPT ![h] = NoHandler]
    BY <1>6 DEF SignedIn, Renewing, SessionTypes, AppFits, RenewalFits
  <2>2. handler'[h].pc = "idle" /\ \A g \in Handlers \ {h} : handler'[g] = handler[g]
    BY <2>1, <1>t DEF NoHandler, RequestsFit
  <2> QED BY <2>1, <2>2, <1>6, <1>t, UsersStay DEF SignedIn, Renewing, server, OnRow
<1>7. CASE SignOut \/ Body \/ Land \/ GiveUp \/ Kill
  BY <1>7, <1>t, UsersAlone DEF SignOut, Body, Land, GiveUp, Kill, server
<1>8. CASE Crash
  <2>1. UNCHANGED <<known, grants, owner, live>> /\ withheld' = withheld \cup Ungranted(Handlers)
    BY <1>8 DEF Crash, server
  <2>2. \A h \in Handlers : handler'[h].pc \in {"idle", "answer"}
    BY <1>8 DEF Crash, NoHandler
  <2> QED BY <2>1, <2>2, <1>t, UsersStay DEF OnRow, Ungranted
<1>9. CASE LeftBody
  BY <1>9, <1>t, UsersAlone DEF LeftBody, server
<1>10. ASSUME NEW h \in Handlers, DatabaseErrs(h) PROVE UsersSound'
  <2>1. UNCHANGED <<known, grants, owner, live>> /\ withheld' = withheld \cup Ungranted({h})
    BY <1>10 DEF DatabaseErrs, server
  <2>2. handler'[h].pc = "answer" /\ \A g \in Handlers \ {h} : handler'[g] = handler[g]
    BY <1>10, <1>t DEF DatabaseErrs, Answers, RequestsFit, Requested
  <2> QED BY <2>1, <2>2, <1>t, UsersStay DEF OnRow, Ungranted
<1> QED BY <1>1, <1>2, <1>3, <1>4, <1>5, <1>6, <1>7, <1>8, <1>9, <1>10, ServeUsers DEF Next

(***************************************************************************)
(* The secure store.                                                       *)
(***************************************************************************)
\* The newest value that waits, is being written, or was written is the session.
StoreSound ==
  /\ store.pending # Nothing => store.writing # Nothing /\ store.pending = session
  /\ store.pending = Nothing /\ store.writing # Nothing => store.writing = session
  /\ StoreCatchesUp

LEMMA BecomesStored ==
  ASSUME StoreFits, StoreSound, NEW t, t # Nothing, NEW u, Becomes(t, u)
  PROVE  StoreSound'
BY DEF StoreFits, Stores, StoreSound, StoreCatchesUp, Becomes, Queued

LEMMA NextStored ==
  ASSUME SessionTypes, StoreSound, Next
  PROVE  StoreSound'
<1>t. RequestsFit /\ RenewalFits /\ SessionFits /\ StoreFits
  BY DEF SessionTypes, AppFits
<1>1. UNCHANGED <<session, store>> => StoreSound'
  BY DEF StoreSound, StoreCatchesUp
<1>2. CASE SignedIn \/ SignOut \/ Renewing
  <2>1. \/ \E t, u : t # Nothing /\ Becomes(t, u)
        \/ UNCHANGED <<session, store>>
    BY <1>2 DEF SignedIn, SignOut, Renewing, IsPair, SignedOut, Nothing
  <2> QED BY <2>1, <1>1, <1>t, BecomesStored
<1>3. CASE Body
  <2>1. renewal.got # Nothing
    BY <1>t DEF RenewalFits, Renewals, Issued, Nothing
  <2> QED BY <2>1, <1>3, <1>1, <1>t, BecomesStored DEF Body
<1>4. CASE Land
  BY <1>4, <1>t DEF Land, StoreFits, Stores, StoreSound, StoreCatchesUp, Nothing
<1>5. CASE Kill
  BY <1>5 DEF Kill, StoreSound, StoreCatchesUp
<1>6. ASSUME NEW c \in Calls, Send(c) \/ Reply(c) PROVE StoreSound'
  BY <1>6, <1>1 DEF Send, Reply
<1>7. ASSUME NEW h \in Handlers, Serve(h) \/ DatabaseErrs(h) PROVE StoreSound'
  BY <1>7, <1>1 DEF Serve, Verify, Find, Insert, Grant, Consume, Save, Unheard, DatabaseErrs, device
<1>8. ASSUME NEW t \in Pairs, Revoke(t) \/ Expire(t) \/ LoseRevoke(t) PROVE StoreSound'
  BY <1>8, <1>1 DEF Revoke, Expire, LoseRevoke, device
<1>9. ASSUME NEW u \in Users, SendCode(u) \/ SignIn(u) PROVE StoreSound'
  BY <1>9, <1>1 DEF SendCode, SignIn, device
<1>10. CASE Crash \/ GiveUp \/ LeftBody
  BY <1>10, <1>1 DEF Crash, GiveUp, LeftBody, device
<1> QED BY <1>2, <1>3, <1>4, <1>5, <1>6, <1>7, <1>8, <1>9, <1>10 DEF Next

(***************************************************************************)
(* Starting, and doing nothing.                                            *)
(***************************************************************************)
LEMMA SignedOutStarts ==
  ASSUME Init
  PROVE  SessionTypes /\ UsersSound /\ StoreSound
<1>1. Ledgers
  BY DEF Init, Ledgers
<1>2. RequestsFit
  BY FreshRequests DEF Init, RequestsFit, Addressed, Signing, NoHandler
<1>3. SessionFits /\ RenewalFits /\ call \in [Calls -> CallsOf(Issued)] /\ StoreFits
  BY DEF Init, SessionFits, RenewalFits, Renewals, NoRenewal, CallsOf, NoCall, StoreFits, Stores
<1>4. AppFits
  <2>1. signing = None /\ mixed = FALSE /\ faults = 0 /\ withheld = {}
    BY DEF Init
  <2>2. faults \in 0 .. MaxFaults
    BY <2>1, SessionAssumption
  <2> QED BY <1>3, <2>1, <2>2 DEF AppFits
<1>5. UsersSound
  BY DEF Init, UsersSound, RowsThere, GrantsSound, OnboardingGrantedOnce, OnRow, NoHandler
<1>6. StoreSound
  BY DEF Init, StoreSound, StoreCatchesUp
<1> QED BY <1>1, <1>2, <1>4, <1>5, <1>6 DEF SessionTypes

LEMMA SessionsStay ==
  ASSUME SessionTypes, UsersSound, StoreSound, UNCHANGED vars
  PROVE  SessionTypes' /\ UsersSound' /\ StoreSound'
<1>1. UNCHANGED <<server, handler, revoking, device, faults, withheld>>
  BY DEF vars
<1>2. Ledgers' /\ RequestsFit'
  BY <1>1, LedgersStay, RequestsStay DEF SessionTypes, server
<1>i. Issued' = Issued
  BY <1>1 DEF server, Issued
<1>3. AppFits'
  BY <1>1, <1>i, AppStays DEF SessionTypes, AppFits
<1>4. UsersSound'
  BY <1>1, UsersAlone DEF server
<1>5. StoreSound'
  BY <1>1 DEF device, StoreSound, StoreCatchesUp
<1> QED BY <1>2, <1>3, <1>4, <1>5 DEF SessionTypes

(***************************************************************************)
(* Where the pairs are as long as nothing is lost on the way.              *)
(***************************************************************************)
\* Who waits for a request: the sign-in screen, or the renewal that asked for it.
Heard ==
  /\ \A h \in Handlers : handler[h].pc # "idle" =>
       h = signing \/ (renewal.pc = "asked" /\ h = renewal.at)
  /\ signing # None => handler[signing].pc \notin {"idle", "consume"}
  /\ renewal.pc = "asked" =>
       /\ renewal.at # signing
       /\ handler[renewal.at].pc \in {"consume", "save", "answer"}
       /\ handler[renewal.at].pc = "consume" => handler[renewal.at].pair = renewal.of
  /\ \A h \in Handlers : handler[h].pc # "answer" => handler[h].answer = 0

\* A pair is in one place: an answer, the renewal's hands, the session, or on its way to be revoked.
Apart ==
  /\ \A h \in Handlers : IsPair(handler[h].answer) =>
       /\ handler[h].answer \in live \ revoking
       /\ handler[h].answer \notin {session, renewal.got, renewal.of}
  /\ \A g, h \in Handlers : IsPair(handler[g].answer) /\ handler[g].answer = handler[h].answer => g = h
  /\ session \notin revoking

\* A renewal that was answered has spent its pair, and brings another one.
Rotated ==
  /\ renewal.pc = "idle" <=> renewal.of = 0
  /\ IF renewal.pc \in {"body", "left"}
       THEN renewal.got \in live \ revoking /\ renewal.got \notin {0, session}
       ELSE renewal.got = 0
  /\ \/ renewal.pc \in {"body", "left"}
     \/ renewal.pc = "asked" /\ handler[renewal.at].pc # "consume"
     => renewal.of \notin live
  /\ renewal.pc = "left" => renewal.of # session

\* A sign-in that a late renewal did not overtake is of a device that is signed out.
SignsIn == ~mixed /\ signing # None => session = SignedOut

\* HeldPairIsGood and OnlyHeldPairsLive, but for the faults
HeldGood ==
  session # SignedOut =>
    \/ session \in live
    \/ /\ renewal.of = session
       /\ renewal.pc = "asked" =>
            handler[renewal.at].pc = "save" \/ IsPair(handler[renewal.at].answer)

HeldOnly ==
  ~mixed => \A t \in live : \/ t \in {session, renewal.got} \cup revoking
                            \/ \E h \in Handlers : handler[h].pc # "idle" /\ handler[h].answer = t

Undisturbed == Heard /\ Apart /\ Rotated /\ SignsIn /\ HeldGood /\ HeldOnly

\* What these speak of
hands == <<live, handler, revoking, session, signing, renewal, mixed>>

LEMMA UndisturbedStays ==
  ASSUME Undisturbed, UNCHANGED hands
  PROVE  Undisturbed'
<1>1. UNCHANGED <<live, handler, revoking, session, signing, renewal, mixed>>
  BY DEF hands
<1>2. Heard' /\ Apart'
  BY <1>1 DEF Undisturbed, Heard, Apart
<1>3. Rotated' /\ SignsIn' /\ HeldGood' /\ HeldOnly'
  BY <1>1 DEF Undisturbed, Rotated, SignsIn, HeldGood, HeldOnly
<1> QED BY <1>2, <1>3 DEF Undisturbed

LEMMA Moved ==
  ASSUME RequestsFit, NEW h \in Handlers, NEW pc, Moves(h, pc)
  PROVE  /\ handler'[h].pc = pc /\ handler'[h].pair = handler[h].pair /\ handler'[h].answer = handler[h].answer
         /\ \A g \in Handlers \ {h} : handler'[g] = handler[g]
BY DEF RequestsFit, Requested, Moves

LEMMA Answered ==
  ASSUME RequestsFit, NEW h \in Handlers, NEW n, Answers(h, n)
  PROVE  /\ handler'[h].pc = "answer" /\ handler'[h].answer = n
         /\ \A g \in Handlers \ {h} : handler'[g] = handler[g]
BY DEF RequestsFit, Requested, Answers

LEMMA PairsArePairs ==
  ASSUME SessionTypes
  PROVE  /\ \A t \in live : t \in Nat \ {0} /\ IsPair(t)
         /\ ~IsPair(0) /\ ~IsPair(Refused) /\ ~IsPair(Failed)
         /\ \A h \in Handlers : handler[h].answer \in {0, Failed} \cup Issued
         /\ session \in {0} \cup Issued /\ renewal.of \in {0} \cup Issued /\ renewal.got \in {0} \cup Issued
         /\ renewal.pc \in {"idle", "asked", "body", "left"}
         /\ revoking \subseteq Issued /\ \A t \in Issued : t \in Nat \ {0} /\ IsPair(t)
         /\ owner \in Seq(Users) /\ None \notin Handlers /\ faults \in Nat
<1>1. \A t \in Issued : t \in Nat \ {0}
  BY DEF SessionTypes, Ledgers, Issued
<1>2. \A h \in Handlers : handler[h].answer \in {0, Failed} \cup Issued
  BY DEF SessionTypes, RequestsFit, Requested, Refused
<1> QED BY <1>1, <1>2, SessionAssumption
        DEF SessionTypes, Ledgers, AppFits, RenewalFits, Renewals, SessionFits, IsPair, Refused, Failed, SignedOut

\* The sign-in's request moves on, without a pair.
LEMMA SigningMoves ==
  ASSUME SessionTypes, Undisturbed, NEW h \in Handlers,
         handler[h].pc \notin {"idle", "consume", "save", "answer"},
         handler'[h].pc \notin {"idle", "consume"}, ~IsPair(handler'[h].answer),
         handler'[h].pc # "answer" => handler'[h].answer = 0,
         \A g \in Handlers \ {h} : handler'[g] = handler[g],
         UNCHANGED <<live, revoking, session, signing, renewal, mixed>>
  PROVE  Undisturbed'
<1>1. h = signing /\ handler[h].answer = 0 /\ (renewal.pc = "asked" => renewal.at # h /\ renewal.at \in Handlers)
  BY DEF Undisturbed, Heard, SessionTypes, AppFits, RenewalFits
<1>2. renewal.pc = "asked" => handler'[renewal.at] = handler[renewal.at]
  BY <1>1
<1>3. Heard'
  BY <1>1, <1>2 DEF Undisturbed, Heard
<1>4. Apart'
  BY <1>1 DEF Undisturbed, Apart
<1>5. Rotated' /\ SignsIn' /\ HeldGood'
  BY <1>2 DEF Undisturbed, Rotated, SignsIn, HeldGood
<1>6. HeldOnly'
  BY <1>1, PairsArePairs DEF Undisturbed, HeldOnly
<1> QED BY <1>3, <1>4, <1>5, <1>6 DEF Undisturbed

\* The renewal's request spends its pair.
LEMMA ConsumeHolds ==
  ASSUME SessionTypes, Undisturbed, NEW h \in Handlers, Consume(h)
  PROVE  Undisturbed'
<1>t. RequestsFit
  BY DEF SessionTypes
<1>1. /\ handler[h].pc = "consume" /\ handler[h].answer = 0
      /\ h # signing /\ renewal.pc = "asked" /\ h = renewal.at /\ handler[h].pair = renewal.of
      /\ renewal.of # 0 /\ renewal.got = 0
  BY PairsArePairs DEF Undisturbed, Heard, Rotated, Consume
<1>2. live' = live \ {renewal.of} /\ UNCHANGED <<revoking, session, signing, renewal, mixed>>
  BY <1>1 DEF Consume, device
<1>3. /\ \A g \in Handlers \ {h} : handler'[g] = handler[g]
      /\ \/ renewal.of \in live /\ handler'[h].pc = "save" /\ handler'[h].answer = 0
         \/ renewal.of \notin live /\ handler'[h].pc = "answer" /\ handler'[h].answer = 0
  <2>1. CASE renewal.of \in live
    BY <2>1, <1>1, <1>t DEF Consume, RequestsFit, Requested
  <2>2. CASE renewal.of \notin live
    BY <2>2, <1>1, <1>t, Answered DEF Consume, Refused
  <2> QED BY <2>1, <2>2
<1>a. signing \in Handlers \cup {None}
  BY DEF SessionTypes, AppFits
<1>4. Heard'
  BY <1>1, <1>2, <1>3, <1>a DEF Undisturbed, Heard
<1>5. Apart'
  BY <1>1, <1>2, <1>3, PairsArePairs DEF Undisturbed, Apart
<1>6. Rotated' /\ SignsIn'
  BY <1>1, <1>2, <1>3 DEF Undisturbed, Rotated, SignsIn
<1>7. HeldGood'
  <2>1. session # SignedOut => session \in live
    BY <1>1, PairsArePairs DEF Undisturbed, HeldGood
  <2> QED BY <2>1, <1>1, <1>2, <1>3 DEF HeldGood
<1>8. HeldOnly'
  BY <1>1, <1>2, <1>3, PairsArePairs DEF Undisturbed, HeldOnly
<1> QED BY <1>4, <1>5, <1>6, <1>7, <1>8 DEF Undisturbed

\* A pair is issued, as an answer.
LEMMA SaveHolds ==
  ASSUME SessionTypes, Undisturbed, NEW h \in Handlers, Save(h)
  PROVE  Undisturbed'
<1>t. RequestsFit
  BY DEF SessionTypes
<1>n. PICK t \in Nat : t = Len(owner) + 1 /\ t \notin Issued /\ IsPair(t)
  BY PairsArePairs DEF Issued, IsPair
<1>1. /\ handler[h].pc = "save" /\ handler[h].answer = 0
      /\ h = signing \/ (renewal.pc = "asked" /\ h = renewal.at)
  BY DEF Undisturbed, Heard, Save
<1>2. live' = live \cup {t} /\ UNCHANGED <<revoking, session, signing, renewal, mixed>>
  BY <1>n DEF Save, device
<1>3. /\ \A g \in Handlers \ {h} : handler'[g] = handler[g]
      /\ handler'[h].pc = "answer" /\ handler'[h].answer = t
  BY <1>n, <1>t, Answered DEF Save
<1>a. (renewal.pc = "asked" => renewal.at \in Handlers) /\ signing \in Handlers \cup {None}
  BY DEF SessionTypes, AppFits, RenewalFits
<1>f. /\ t # session /\ t # renewal.got /\ t # renewal.of /\ t \notin revoking /\ t # 0
      /\ \A g \in Handlers : handler[g].answer # t
  BY <1>n, PairsArePairs DEF IsPair, Failed
<1>4. Heard'
  BY <1>1, <1>2, <1>3, <1>a DEF Undisturbed, Heard
<1>5. Apart'
  BY <1>1, <1>2, <1>3, <1>f DEF Undisturbed, Apart
<1>6. Rotated' /\ SignsIn'
  BY <1>1, <1>2, <1>3, <1>f, <1>a DEF Undisturbed, Rotated, SignsIn
<1>7. HeldGood'
  BY <1>1, <1>2, <1>3, <1>n, <1>a DEF Undisturbed, HeldGood
<1>8. HeldOnly'
  BY <1>1, <1>2, <1>3, PairsArePairs DEF Undisturbed, HeldOnly
<1> QED BY <1>4, <1>5, <1>6, <1>7, <1>8 DEF Undisturbed

LEMMA ServeHolds ==
  ASSUME SessionTypes, Undisturbed, NEW h \in Handlers, Serve(h)
  PROVE  Undisturbed'
<1>t. RequestsFit
  BY DEF SessionTypes
<1>p. ~IsPair(0) /\ ~IsPair(Refused) /\ ~IsPair(Failed)
  BY PairsArePairs
<1>1. CASE Verify(h) \/ Find(h) \/ Insert(h) \/ Grant(h)
  <2>1. handler[h].pc \in {"verify", "find", "insert", "grant"} /\ handler[h].answer = 0
    BY <1>1 DEF Verify, Find, Insert, Grant, Undisturbed, Heard
  <2>2. UNCHANGED <<live, revoking, session, signing, renewal, mixed>>
    BY <1>1 DEF Verify, Find, Insert, Grant, server, device
  <2>3. \/ \E pc \in {"find", "save", "insert", "grant"} : Moves(h, pc)
        \/ Answers(h, Refused) \/ Answers(h, Failed)
    BY <1>1 DEF Verify, Find, Insert, Grant
  <2>4. CASE \E pc \in {"find", "save", "insert", "grant"} : Moves(h, pc)
    <3>1. PICK pc \in {"find", "save", "insert", "grant"} : Moves(h, pc)
      BY <2>4
    <3>2. /\ handler'[h].pc = pc /\ handler'[h].answer = 0
          /\ \A g \in Handlers \ {h} : handler'[g] = handler[g]
      BY <3>1, <2>1, <1>t, Moved
    <3> QED BY <3>2, <2>1, <2>2, <1>p, SigningMoves
  <2>5. CASE Answers(h, Refused) \/ Answers(h, Failed)
    <3>1. /\ handler'[h].pc = "answer" /\ ~IsPair(handler'[h].answer)
          /\ \A g \in Handlers \ {h} : handler'[g] = handler[g]
      BY <2>5, <1>t, <1>p, Answered
    <3> QED BY <3>1, <2>1, <2>2, SigningMoves
  <2> QED BY <2>3, <2>4, <2>5
<1>2. CASE Unheard(h)
  BY <1>2 DEF Unheard, Undisturbed, Heard
<1> QED BY <1>1, <1>2, ConsumeHolds, SaveHolds DEF Serve

LEMMA RevokeHolds ==
  ASSUME SessionTypes, Undisturbed, NEW t, Revoke(t)
  PROVE  Undisturbed'
<1>1. /\ t \in revoking /\ revoking' = revoking \ {t} /\ live' = live \ {t}
      /\ UNCHANGED <<handler, session, signing, renewal, mixed>>
  BY DEF Revoke, device
<1>2. Heard' /\ Apart'
  BY <1>1 DEF Undisturbed, Heard, Apart
<1>3. Rotated' /\ SignsIn'
  BY <1>1 DEF Undisturbed, Rotated, SignsIn
<1>4. HeldGood' /\ HeldOnly'
  BY <1>1 DEF Undisturbed, Apart, HeldGood, HeldOnly
<1> QED BY <1>2, <1>3, <1>4 DEF Undisturbed

LEMMA SignInHolds ==
  ASSUME SessionTypes, Undisturbed, NEW u \in Users, SignIn(u)
  PROVE  Undisturbed'
<1>t. /\ RequestsFit /\ None \notin Handlers
      /\ signing \in Handlers \cup {None} /\ (renewal.pc = "asked" => renewal.at \in Handlers)
  BY PairsArePairs DEF SessionTypes, AppFits, RenewalFits
<1>1. PICK h \in Idle, pc \in {"verify", "find"} :
        signing' = h /\ handler' = [handler EXCEPT ![h] = [NoHandler EXCEPT !.pc = pc, !.user = u]]
  BY DEF SignIn
<1>2. /\ h \in Handlers /\ handler[h].pc = "idle" /\ handler[h].answer = 0
      /\ handler'[h].pc = pc /\ handler'[h].answer = 0
      /\ \A g \in Handlers \ {h} : handler'[g] = handler[g]
  BY <1>1, <1>t DEF Idle, NoHandler, RequestsFit, Undisturbed, Heard
<1>3. session = SignedOut /\ signing = None /\ UNCHANGED <<live, revoking, session, renewal, mixed>>
  BY DEF SignIn, server
<1>4. renewal.pc = "asked" => renewal.at # h /\ handler'[renewal.at] = handler[renewal.at]
  BY <1>2, <1>t DEF Undisturbed, Heard
<1>5. Heard'
  BY <1>1, <1>2, <1>3, <1>4, <1>t DEF Undisturbed, Heard
<1>6. Apart'
  BY <1>2, <1>3, PairsArePairs DEF Undisturbed, Apart
<1>7. Rotated' /\ SignsIn' /\ HeldGood'
  BY <1>3, <1>4 DEF Undisturbed, Rotated, SignsIn, HeldGood
<1>8. HeldOnly'
  BY <1>2, <1>3 DEF Undisturbed, HeldOnly
<1> QED BY <1>5, <1>6, <1>7, <1>8 DEF Undisturbed

LEMMA SignedInHolds ==
  ASSUME SessionTypes, Undisturbed, SignedIn
  PROVE  Undisturbed'
<1>t. /\ RequestsFit /\ None \notin Handlers /\ signing \in Handlers
      /\ (renewal.pc = "asked" => renewal.at \in Handlers)
  BY PairsArePairs DEF SessionTypes, AppFits, RenewalFits, SignedIn
<1>1. /\ handler[signing].pc = "answer" /\ handler'[signing].pc = "idle" /\ handler'[signing].answer = 0
      /\ \A g \in Handlers \ {signing} : handler'[g] = handler[g]
  BY <1>t DEF SignedIn, RequestsFit, NoHandler
<1>2. signing' = None /\ UNCHANGED <<live, revoking, renewal, mixed>>
  BY DEF SignedIn, server
<1>3. \/ IsPair(handler[signing].answer) /\ session' = handler[signing].answer
      \/ ~IsPair(handler[signing].answer) /\ session' = session
  BY DEF SignedIn, Becomes
<1>4. renewal.pc = "asked" => renewal.at # signing /\ handler'[renewal.at] = handler[renewal.at]
  BY <1>1, <1>t DEF Undisturbed, Heard
<1>5. Heard'
  BY <1>1, <1>2, <1>4, <1>t DEF Undisturbed, Heard
<1>6. SignsIn'
  BY <1>2 DEF SignsIn
<1>7. CASE IsPair(handler[signing].answer)
  <2>1. PICK n : n = handler[signing].answer /\ session' = n /\ n \in live \ revoking /\ n # renewal.got /\ n # 0
                 /\ \A g \in Handlers \ {signing} : IsPair(handler[g].answer) => handler[g].answer # n
    BY <1>3, <1>7, <1>t, PairsArePairs DEF Undisturbed, Apart
  <2>2. Apart'
    BY <2>1, <1>1, <1>2, PairsArePairs DEF Undisturbed, Apart
  <2>3. Rotated' /\ HeldGood'
    BY <2>1, <1>2, <1>4 DEF Undisturbed, Rotated, HeldGood
  <2>4. ~mixed => session \notin live
    BY <1>t, PairsArePairs DEF Undisturbed, SignsIn, SignedOut
  <2>5. HeldOnly'
    BY <2>1, <2>4, <1>1, <1>2 DEF Undisturbed, HeldOnly
  <2> QED BY <2>2, <2>3, <2>5, <1>5, <1>6 DEF Undisturbed
<1>8. CASE ~IsPair(handler[signing].answer)
  <2>1. session' = session
    BY <1>3, <1>8
  <2>2. Apart'
    BY <2>1, <1>1, <1>2, PairsArePairs DEF Undisturbed, Apart
  <2>3. Rotated' /\ HeldGood'
    BY <2>1, <1>2, <1>4 DEF Undisturbed, Rotated, HeldGood
  <2>4. HeldOnly'
    BY <2>1, <1>1, <1>2, <1>8, <1>t, PairsArePairs DEF Undisturbed, HeldOnly
  <2> QED BY <2>2, <2>3, <2>4, <1>5, <1>6 DEF Undisturbed
<1> QED BY <1>7, <1>8

LEMMA SignOutHolds ==
  ASSUME SessionTypes, Undisturbed, SignOut
  PROVE  Undisturbed'
<1>1. /\ session # 0 /\ session' = 0 /\ revoking' = revoking \cup {session}
      /\ UNCHANGED <<live, handler, signing, renewal, mixed>>
  BY DEF SignOut, Becomes, SignedOut, server
<1>2. Heard'
  BY <1>1 DEF Undisturbed, Heard
<1>3. Apart'
  BY <1>1, PairsArePairs DEF Undisturbed, Apart
<1>4. Rotated' /\ SignsIn' /\ HeldGood' /\ HeldOnly'
  BY <1>1 DEF Undisturbed, Rotated, SignsIn, HeldGood, HeldOnly, SignedOut
<1> QED BY <1>2, <1>3, <1>4 DEF Undisturbed

\* A renewal begins: of a session whose pair is still good.
LEMMA RenewHolds ==
  ASSUME SessionTypes, Undisturbed, session # SignedOut, renewal.pc = "idle", Renew,
         UNCHANGED <<live, revoking, session, signing, mixed>>
  PROVE  Undisturbed'
<1>t. /\ RequestsFit /\ None \notin Handlers /\ signing \in Handlers \cup {None}
  BY PairsArePairs DEF SessionTypes, AppFits
<1>1. PICK h \in Idle :
        /\ handler' = [handler EXCEPT ![h] = [NoHandler EXCEPT !.pc = "consume", !.pair = session]]
        /\ renewal' = [pc |-> "asked", of |-> session, at |-> h, got |-> 0]
  BY DEF Renew
<1>2. /\ h \in Handlers /\ handler[h].pc = "idle" /\ handler[h].answer = 0
      /\ handler'[h].pc = "consume" /\ handler'[h].pair = session /\ handler'[h].answer = 0
      /\ \A g \in Handlers \ {h} : handler'[g] = handler[g]
  BY <1>1, <1>t DEF Idle, NoHandler, RequestsFit, Undisturbed, Heard
<1>3. renewal'.pc = "asked" /\ renewal'.of = session /\ renewal'.at = h /\ renewal'.got = 0
  BY <1>1
<1>4. renewal.of = 0 /\ renewal.got = 0 /\ session # 0 /\ session \in live
  BY DEF Undisturbed, Rotated, HeldGood, SignedOut
<1>5. signing # h
  BY <1>2, <1>t DEF Undisturbed, Heard
<1>6. Heard'
  BY <1>2, <1>3, <1>5, <1>t DEF Undisturbed, Heard
<1>7. Apart'
  BY <1>2, <1>3, PairsArePairs DEF Undisturbed, Apart
<1>8. Rotated' /\ SignsIn' /\ HeldGood'
  BY <1>2, <1>3, <1>4 DEF Undisturbed, Rotated, SignsIn, HeldGood
<1>9. HeldOnly'
  BY <1>2, <1>3, <1>4, PairsArePairs DEF Undisturbed, HeldOnly
<1> QED BY <1>6, <1>7, <1>8, <1>9 DEF Undisturbed

\* The renewal's answer: its pair is in the renewal's hands, whether the session has ended or not.
LEMMA RenewingHolds ==
  ASSUME SessionTypes, Undisturbed, Renewing
  PROVE  Undisturbed'
<1>t. /\ RequestsFit /\ None \notin Handlers /\ signing \in Handlers \cup {None}
      /\ renewal.at \in Handlers /\ renewal.pc = "asked" /\ handler[renewal.at].pc = "answer"
      /\ renewal \in Renewals(Issued)
  BY PairsArePairs DEF SessionTypes, AppFits, RenewalFits, Renewing
<1> DEFINE h == renewal.at
           n == handler[h].answer
<1>1. /\ handler'[h].pc = "idle" /\ handler'[h].answer = 0
      /\ \A g \in Handlers \ {h} : handler'[g] = handler[g]
  BY <1>t DEF Renewing, RequestsFit, NoHandler
<1>2. h # signing /\ renewal.of # 0 /\ renewal.of \notin live /\ renewal.got = 0
  BY <1>t DEF Undisturbed, Heard, Rotated
<1>3. UNCHANGED <<live, signing, mixed>>
  BY DEF Renewing, server
<1>4. IsPair(n) =>
        /\ n \in live \ revoking /\ n \notin {0, session, renewal.of}
        /\ \A g \in Handlers \ {h} : IsPair(handler[g].answer) => handler[g].answer # n
  BY <1>t, PairsArePairs DEF Undisturbed, Apart
<1>5. renewal'.pc # "asked" => Heard'
  BY <1>1, <1>2, <1>3, <1>t DEF Undisturbed, Heard
<1>6. CASE session # renewal.of /\ IsPair(n)
  <2>1. /\ session' = session /\ revoking' = revoking
        /\ renewal' = [renewal EXCEPT !.pc = "left", !.at = None, !.got = n]
    BY <1>6 DEF Renewing, Reads
  <2>2. renewal'.pc = "left" /\ renewal'.of = renewal.of /\ renewal'.got = n
    BY <2>1, <1>t DEF Renewals
  <2>3. Apart'
    BY <2>1, <2>2, <1>1, <1>3, <1>4, PairsArePairs DEF Undisturbed, Apart
  <2>4. Rotated' /\ SignsIn' /\ HeldGood'
    BY <2>1, <2>2, <1>2, <1>3, <1>4, <1>6 DEF Undisturbed, Rotated, SignsIn, HeldGood
  <2>5. HeldOnly'
    BY <2>1, <2>2, <1>1, <1>2, <1>3, PairsArePairs DEF Undisturbed, HeldOnly
  <2> QED BY <1>5, <2>2, <2>3, <2>4, <2>5 DEF Undisturbed
<1>8. CASE session # renewal.of /\ ~IsPair(n)
  <2>1. session' = session /\ revoking' = revoking /\ renewal' = NoRenewal
    BY <1>8 DEF Renewing, Ends, Over
  <2>2. renewal'.pc = "idle" /\ renewal'.of = 0 /\ renewal'.got = 0
    BY <2>1 DEF NoRenewal
  <2>3. Apart'
    BY <2>1, <2>2, <1>1, <1>3, PairsArePairs DEF Undisturbed, Apart
  <2>4. Rotated' /\ SignsIn' /\ HeldGood'
    BY <2>1, <2>2, <1>8, <1>3 DEF Undisturbed, Rotated, SignsIn, HeldGood
  <2>5. HeldOnly'
    BY <2>1, <2>2, <1>1, <1>2, <1>3, <1>8, PairsArePairs DEF Undisturbed, HeldOnly
  <2> QED BY <1>5, <2>2, <2>3, <2>4, <2>5 DEF Undisturbed
<1>7. CASE session = renewal.of
  <2>1. IsPair(n)
    BY <1>7, <1>2, <1>t DEF Undisturbed, HeldGood, SignedOut
  <2>2. /\ session' = session /\ revoking' = revoking
        /\ renewal' = [renewal EXCEPT !.pc = "body", !.at = None, !.got = n]
    BY <1>7, <2>1 DEF Renewing, Renewed, Reads
  <2>3. renewal'.pc = "body" /\ renewal'.of = renewal.of /\ renewal'.got = n
    BY <2>2, <1>t DEF Renewals
  <2>4. Apart'
    BY <2>2, <2>3, <1>1, <1>3, <1>4, PairsArePairs DEF Undisturbed, Apart
  <2>5. Rotated' /\ SignsIn' /\ HeldGood'
    BY <2>1, <2>2, <2>3, <1>2, <1>3, <1>4, <1>7 DEF Undisturbed, Rotated, SignsIn, HeldGood
  <2>6. HeldOnly'
    BY <2>1, <2>2, <2>3, <1>1, <1>2, <1>3, PairsArePairs DEF Undisturbed, HeldOnly
  <2> QED BY <1>5, <2>3, <2>4, <2>5, <2>6 DEF Undisturbed
<1> QED BY <1>6, <1>7, <1>8

\* The renewal's pair becomes the session, whatever became of the session meanwhile.
LEMMA BodyHolds ==
  ASSUME SessionTypes, Undisturbed, Body, UNCHANGED faults
  PROVE  Undisturbed'
<1>1. /\ renewal.pc = "body" /\ session' = renewal.got /\ mixed' = (mixed \/ session # renewal.of)
      /\ renewal' = NoRenewal /\ UNCHANGED <<live, handler, revoking, signing>>
  BY PairsArePairs DEF Body, Becomes, Ends, Over, Faulty, server
<1>2. renewal'.pc = "idle" /\ renewal'.of = 0 /\ renewal'.got = 0
  BY <1>1 DEF NoRenewal
<1>3. /\ renewal.of # 0 /\ renewal.of \notin live
      /\ renewal.got \in live \ revoking /\ renewal.got # 0
  BY <1>1 DEF Undisturbed, Rotated
<1>4. Heard'
  BY <1>1, <1>2 DEF Undisturbed, Heard
<1>5. Apart'
  BY <1>1, <1>2, <1>3, PairsArePairs DEF Undisturbed, Apart
<1>6. Rotated' /\ HeldGood'
  BY <1>1, <1>2, <1>3 DEF Undisturbed, Rotated, HeldGood
<1>7. SignsIn'
  BY <1>1, <1>3 DEF Undisturbed, SignsIn, SignedOut
<1>8. HeldOnly'
  BY <1>1, <1>2, <1>3 DEF Undisturbed, HeldOnly
<1> QED BY <1>4, <1>5, <1>6, <1>7, <1>8 DEF Undisturbed

\* The pair of a session that ended is on its way to be revoked.
LEMMA LeftBodyHolds ==
  ASSUME SessionTypes, Undisturbed, LeftBody, UNCHANGED faults
  PROVE  Undisturbed'
<1>1. /\ renewal.pc = "left" /\ revoking' = revoking \cup {renewal.got}
      /\ renewal' = NoRenewal /\ UNCHANGED <<live, handler, session, signing, mixed>>
  BY PairsArePairs DEF LeftBody, Leftover, Ends, Over, Faulty, server
<1>2. renewal'.pc = "idle" /\ renewal'.of = 0 /\ renewal'.got = 0
  BY <1>1 DEF NoRenewal
<1>3. renewal.of # session /\ renewal.got # session /\ renewal.got # 0
  BY <1>1 DEF Undisturbed, Rotated
<1>4. Heard'
  BY <1>1, <1>2 DEF Undisturbed, Heard
<1>5. Apart'
  BY <1>1, <1>2, <1>3, PairsArePairs DEF Undisturbed, Apart
<1>6. Rotated' /\ SignsIn' /\ HeldGood'
  BY <1>1, <1>2, <1>3 DEF Undisturbed, Rotated, SignsIn, HeldGood
<1>7. HeldOnly'
  BY <1>1, <1>2 DEF Undisturbed, HeldOnly
<1> QED BY <1>4, <1>5, <1>6, <1>7 DEF Undisturbed

LEMMA NextUndisturbed ==
  ASSUME SessionTypes, Undisturbed, Next, UNCHANGED faults
  PROVE  Undisturbed'
<1>f. ~Faulty
  BY PairsArePairs DEF Faulty
<1>1. ASSUME NEW u \in Users, SendCode(u) PROVE Undisturbed'
  BY <1>1, UndisturbedStays DEF SendCode, device, hands
<1>2. ASSUME NEW t \in Pairs, Expire(t) PROVE Undisturbed'
  BY <1>2, UndisturbedStays DEF Expire, device, hands
<1>3. ASSUME NEW c \in Calls, Send(c) PROVE Undisturbed'
  BY <1>3, UndisturbedStays DEF Send, server, hands
<1>4. ASSUME NEW c \in Calls, Reply(c) PROVE Undisturbed'
  <2>1. UNCHANGED <<live, revoking, session, signing, mixed>>
    BY <1>4 DEF Reply, server
  <2>2. \/ UNCHANGED <<handler, renewal>>
        \/ ~Shared /\ session # SignedOut /\ Renew
    BY <1>4 DEF Reply
  <2>3. CASE UNCHANGED <<handler, renewal>>
    BY <2>1, <2>3, UndisturbedStays DEF hands
  <2>4. CASE ~Shared /\ session # SignedOut /\ Renew
    BY <2>1, <2>4, RenewHolds DEF Shared
  <2> QED BY <2>2, <2>3, <2>4
<1>5. CASE Land
  BY <1>5, UndisturbedStays DEF Land, server, hands
<1>6. /\ ~Crash /\ ~GiveUp /\ ~Kill /\ \A t \in Pairs : ~LoseRevoke(t)
      /\ \A h \in Handlers : ~DatabaseErrs(h)
  BY <1>f DEF Crash, GiveUp, Kill, LoseRevoke, DatabaseErrs
<1> QED BY <1>1, <1>2, <1>3, <1>4, <1>5, <1>6, ServeHolds, RevokeHolds, SignInHolds, SignedInHolds,
           SignOutHolds, RenewingHolds, BodyHolds, LeftBodyHolds DEF Next

LEMMA FaultsCount ==
  ASSUME SessionTypes, Next, faults' = 0
  PROVE  UNCHANGED faults
<1>1. faults \in Nat /\ ~Faulty
  BY PairsArePairs DEF Faulty
<1>2. ASSUME NEW u \in Users, SendCode(u) \/ SignIn(u) PROVE UNCHANGED faults
  BY <1>2 DEF SendCode, SignIn
<1>3. ASSUME NEW h \in Handlers, Serve(h) \/ DatabaseErrs(h) PROVE UNCHANGED faults
  BY <1>3, <1>1 DEF Serve, Verify, Find, Insert, Grant, Consume, Save, Unheard, DatabaseErrs
<1>4. ASSUME NEW t \in Pairs, Revoke(t) \/ Expire(t) \/ LoseRevoke(t) PROVE UNCHANGED faults
  BY <1>4, <1>1 DEF Revoke, Expire, LoseRevoke
<1>5. ASSUME NEW c \in Calls, Send(c) \/ Reply(c) PROVE UNCHANGED faults
  BY <1>5 DEF Send, Reply
<1>6. CASE SignedIn \/ SignOut \/ Renewing \/ Body \/ LeftBody \/ Land \/ Crash \/ GiveUp \/ Kill
  BY <1>6, <1>1 DEF SignedIn, SignOut, Renewing, Body, LeftBody, Land, Crash, GiveUp, Kill
<1> QED BY <1>2, <1>3, <1>4, <1>5, <1>6 DEF Next

\* Types of the sessions on their own, without erasures beside them.
LEMMA SessionsTyped == Spec => []SessionTypes
<1>1. Init => SessionTypes
  BY SignedOutStarts
<1>2. SessionTypes /\ [Next]_vars => SessionTypes'
  <2>1. ASSUME SessionTypes, Next PROVE SessionTypes'
    BY <2>1, NextLedgers, NextRequests, NextApp, SessionAssumption DEF SessionTypes
  <2>2. ASSUME SessionTypes, UNCHANGED vars PROVE SessionTypes'
    <3>1. UNCHANGED <<server, handler, revoking, device, faults, withheld>>
      BY <2>2 DEF vars
    <3>2. Ledgers' /\ RequestsFit' /\ Issued' = Issued
      BY <3>1, <2>2, LedgersStay, RequestsStay DEF SessionTypes, server, Issued
    <3>3. AppFits'
      BY <3>1, <3>2, <2>2, AppStays DEF SessionTypes, AppFits
    <3> QED BY <3>2, <3>3 DEF SessionTypes
  <2> QED BY <2>1, <2>2
<1> QED BY <1>1, <1>2, PTL DEF Spec

LEMMA UndisturbedAlways == Spec => [](faults = 0 => Undisturbed)
<1>1. Init => Undisturbed
  <2>1. ASSUME Init PROVE Heard /\ Apart /\ Rotated /\ SignsIn /\ HeldGood /\ HeldOnly
    BY <2>1, SignedOutStarts, PairsArePairs
       DEF Init, Heard, Apart, Rotated, SignsIn, HeldGood, HeldOnly, NoHandler, NoRenewal
  <2> QED BY <2>1 DEF Undisturbed
<1>2. SessionTypes /\ (faults = 0 => Undisturbed) /\ [Next]_vars => (faults = 0 => Undisturbed)'
  <2>1. ASSUME SessionTypes, faults = 0 => Undisturbed, Next, faults' = 0 PROVE Undisturbed'
    BY <2>1, FaultsCount, NextUndisturbed
  <2>2. ASSUME faults = 0 => Undisturbed, UNCHANGED vars, faults' = 0 PROVE Undisturbed'
    BY <2>2, UndisturbedStays DEF vars, server, device, hands
  <2> QED BY <2>1, <2>2
<1> QED BY <1>1, <1>2, SessionsTyped, PTL DEF Spec

\* As long as nothing is lost on the way, the app's pair is good, or is being renewed by a request
\* that brings another (client.ts: renewSession, tokens.ts: refreshAccessToken): no interleaving of calls,
\* renewals, sign-ins and sign-outs makes the server refuse a device that did nothing wrong.
THEOREM PairStaysGood == Spec => []HeldPairIsGood
<1>1. Undisturbed => HeldGood
  BY DEF Undisturbed
<1>2. (faults = 0 => Undisturbed) => HeldPairIsGood
  BY <1>1 DEF HeldGood, HeldPairIsGood
<1> QED BY <1>2, UndisturbedAlways, PTL

\* As long as nothing is lost and no renewal replaced another session's pair, the server keeps no
\* good pair that nobody holds or revokes (client.ts: renewSession, stores/session.ts: signOut).
THEOREM NoPairLeftOver == Spec => []OnlyHeldPairsLive
<1>1. Undisturbed => HeldOnly
  BY DEF Undisturbed
<1>2. (faults = 0 => Undisturbed) => OnlyHeldPairsLive
  BY <1>1 DEF HeldOnly, OnlyHeldPairsLive, Idle
<1> QED BY <1>2, UndisturbedAlways, PTL
=============================================================================
