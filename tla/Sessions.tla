------------------------------ MODULE Sessions ------------------------------
(***************************************************************************)
(* Signing in and staying signed in: the server's sign-in and rotation of  *)
(* refresh tokens (lib/auth/tokens.ts, otp.ts and their tables), and the   *)
(* app's session: api/client.ts renews it, stores/session.ts holds it and  *)
(* stores/sessionTokens.ts keeps it between launches.                      *)
(*                                                                         *)
(* One device, and whoever signs in on it.  A pair of tokens is a number:  *)
(* its access token expires some time, its refresh token is good once.     *)
(* The app runs between awaits; the server's handlers run beside it.       *)
(***************************************************************************)
EXTENDS Integers, FiniteSets, Sequences

CONSTANTS
  Users,
  Calls,       \* API calls the app can have open
  Handlers,    \* requests the server can work on
  None,        \* nobody, or no handler
  MaxTokens,   \* bound on the pairs issued
  MaxFaults,   \* bound on timeouts, lost answers and writes, killed apps, database errors and crashes
  MaxBoth      \* bound on pairs and faults together

ASSUME SessionAssumption ==
  /\ None \notin Users \cup Handlers
  /\ MaxTokens \in Nat /\ MaxFaults \in Nat /\ MaxBoth \in Nat

VARIABLES
  known,      \* users with a row
  grants,     \* onboarding grants on each user's ledger
  code,       \* users whose latest code can be redeemed
  live,       \* refresh_tokens
  owner,      \* the user each pair issued was issued to
  expired,    \* access tokens past their 15 minutes
  handler,    \* the server's requests
  revoking,   \* POST /auth/logout on its way
  session,    \* the session store's pair, 0 when signed out
  who,        \* who signed in to this session (history)
  signing,    \* the sign-in screen's request
  renewal,    \* client.ts renewing, and the pair it renews
  call,       \* calls open, with the token each was sent with
  store,      \* the secure store and its writer
  mixed,      \* did a late renewal replace another session's pair? (history)
  faults,
  withheld    \* users whose grant a crash or an error withheld (history)

server == <<known, grants, code, live, owner, expired>>
device == <<session, who, signing, renewal, call, store, mixed>>
vars == <<server, handler, revoking, device, faults, withheld>>

\* Answers, and values of the store's writer, that are not a pair
Refused == 0
Failed == -1
SignedOut == 0
Nothing == -1

Pairs == 1 .. MaxTokens
Issued == 1 .. Len(owner)

NoHandler == [pc |-> "idle", user |-> None, pair |-> 0, answer |-> 0]
NoRenewal == [pc |-> "idle", of |-> 0, at |-> None, got |-> 0]
NoCall == [pc |-> "idle", sent |-> 0]

Init ==
  /\ known = {} /\ grants = [u \in Users |-> 0] /\ code = {}
  /\ live = {} /\ owner = <<>> /\ expired = {}
  /\ handler = [h \in Handlers |-> NoHandler]
  /\ revoking = {}
  /\ session = SignedOut /\ who = None /\ signing = None
  /\ renewal = NoRenewal
  /\ call = [c \in Calls |-> NoCall]
  /\ store = [kept |-> SignedOut, writing |-> Nothing, pending |-> Nothing, bad |-> FALSE]
  /\ mixed = FALSE /\ faults = 0 /\ withheld = {}

Faulty == faults < MaxFaults /\ faults + Len(owner) < MaxBoth /\ faults' = faults + 1

Idle == {h \in Handlers : handler[h].pc = "idle"}

\* Room within the bounds for the pairs that what is open may be issued.
Room ==
  LET pairs == Len(owner) + Cardinality(Handlers \ Idle) + Cardinality({c \in Calls : call[c].pc # "idle"})
  IN  pairs < MaxTokens /\ pairs + faults < MaxBoth

(***************************************************************************)
(* The server.                                                             *)
(***************************************************************************)
Moves(h, pc) == handler' = [handler EXCEPT ![h].pc = pc]

Answers(h, n) == handler' = [handler EXCEPT ![h].pc = "answer", ![h].answer = n]

\* POST /auth/otp: saveOtp, from the sign-in screen
SendCode(u) ==
  /\ session = SignedOut /\ signing = None
  /\ u \notin code
  /\ code' = code \cup {u}
  /\ UNCHANGED <<known, grants, live, owner, expired, handler, revoking, device, faults, withheld>>

\* consumeOtp
Verify(h) ==
  LET u == handler[h].user
  IN  /\ handler[h].pc = "verify"
      /\ code' = code \ {u}
      /\ IF u \in code THEN Moves(h, "find") ELSE Answers(h, Refused)
      /\ UNCHANGED <<known, grants, live, owner, expired, revoking, device, faults, withheld>>

\* createUser, findOrCreateGoogleUser: the lookup
Find(h) ==
  /\ handler[h].pc = "find"
  /\ Moves(h, IF handler[h].user \in known THEN "save" ELSE "insert")
  /\ UNCHANGED <<server, revoking, device, faults, withheld>>

\* Mutant: no unique phone or Google id.
TwinAllowed(u) == FALSE

\* A row inserted by another request meanwhile
Twin(u) == u \in known

\* The insert; a twin's row fails it.
Insert(h) ==
  LET u == handler[h].user
  IN  /\ handler[h].pc = "insert"
      /\ known' = known \cup {u}
      /\ IF Twin(u) THEN Answers(h, Failed) ELSE Moves(h, "grant")
      /\ UNCHANGED <<grants, code, live, owner, expired, revoking, device, faults, withheld>>

\* The onboarding grant, of a new user only
Grant(h) ==
  /\ handler[h].pc = "grant"
  /\ grants' = [grants EXCEPT ![handler[h].user] = @ + 1]
  /\ Moves(h, "save")
  /\ UNCHANGED <<known, code, live, owner, expired, revoking, device, faults, withheld>>

\* consumeRefreshToken
Consume(h) ==
  LET t == handler[h].pair
  IN  /\ handler[h].pc = "consume"
      /\ live' = live \ {t}
      /\ IF t \in live
           THEN handler' = [handler EXCEPT ![h].pc = "save", ![h].user = owner[t]]
           ELSE Answers(h, Refused)
      /\ UNCHANGED <<known, grants, code, owner, expired, revoking, device, faults, withheld>>

\* issueTokens
Save(h) ==
  LET t == Len(owner) + 1
  IN  /\ handler[h].pc = "save"
      /\ owner' = Append(owner, handler[h].user)
      /\ live' = live \cup {t}
      /\ Answers(h, t)
      /\ UNCHANGED <<known, grants, code, expired, revoking, device, faults, withheld>>

\* An answer that nobody waits for any more
Unheard(h) ==
  /\ handler[h].pc = "answer" /\ h \notin {signing, renewal.at}
  /\ handler' = [handler EXCEPT ![h] = NoHandler]
  /\ UNCHANGED <<server, revoking, device, faults, withheld>>

\* POST /auth/logout
Revoke(t) ==
  /\ t \in revoking
  /\ revoking' = revoking \ {t}
  /\ live' = live \ {t}
  /\ UNCHANGED <<known, grants, code, owner, expired, handler, device, faults, withheld>>

\* An access token expires; when matters only to the calls sent with it.
Expire(t) ==
  /\ \E c \in Calls : call[c].sent = t
  /\ t \in Issued \ expired
  /\ expired' = expired \cup {t}
  /\ UNCHANGED <<known, grants, code, live, owner, handler, revoking, device, faults, withheld>>

\* The users of the sign-ins in hs that are between the row and the grant: the next sign-in finds
\* the row, and grants nothing.
Ungranted(hs) == {handler[h].user : h \in {x \in hs : handler[x].pc = "grant"}}

\* An await of the handler throws: the answer is a 500.  A statement that is done nevertheless
\* throws at the handler's next step.
DatabaseErrs(h) ==
  /\ Faulty /\ handler[h].pc \notin {"idle", "answer"}
  /\ Answers(h, Failed)
  /\ withheld' = withheld \cup Ungranted({h})
  /\ UNCHANGED <<server, revoking, device>>

\* The process dies: what it works on stays where it is, and every answer is an error.
Crash ==
  /\ Faulty /\ Idle # Handlers
  /\ handler' = [h \in Handlers |-> IF h \in Idle THEN NoHandler
                                    ELSE [NoHandler EXCEPT !.pc = "answer", !.answer = Failed]]
  /\ withheld' = withheld \cup Ungranted(Handlers)
  /\ UNCHANGED <<server, revoking, device>>

(***************************************************************************)
(* The secure store: one write at a time, and then the newest value.       *)
(***************************************************************************)
\* Mutant: a value that comes during a write is not written.
QueuedOnlyWhenFree(t) == IF store.writing = Nothing THEN [store EXCEPT !.writing = t] ELSE store

\* saveStoredSession
Queued(t) ==
  IF store.writing = Nothing THEN [store EXCEPT !.writing = t] ELSE [store EXCEPT !.pending = t]

\* Every change of the session store's tokens is saved.
Becomes(t, user) ==
  /\ session' = t /\ who' = user
  /\ store' = IF t = session THEN store ELSE Queued(t)

\* A write lands, or fails and is reported.
Land ==
  LET next == [store EXCEPT !.writing = store.pending, !.pending = Nothing]
  IN  /\ store.writing # Nothing
      /\ \/ store' = [next EXCEPT !.kept = store.writing, !.bad = FALSE] /\ UNCHANGED faults
         \/ store' = [next EXCEPT !.bad = TRUE] /\ Faulty
      /\ UNCHANGED <<server, handler, revoking, session, who, signing, renewal, call, mixed, withheld>>

(***************************************************************************)
(* Signing in and out.                                                     *)
(***************************************************************************)
\* The sign-in screen, with a code or with Google: one request at a time
SignIn(u) ==
  /\ session = SignedOut /\ signing = None
  /\ Room /\ Idle # {}
  /\ LET h == CHOOSE x \in Idle : TRUE
     IN  /\ signing' = h
         /\ \E pc \in {"verify", "find"} :
              handler' = [handler EXCEPT ![h] = [NoHandler EXCEPT !.pc = pc, !.user = u]]
  /\ UNCHANGED <<server, revoking, session, who, renewal, call, store, mixed, faults, withheld>>

IsPair(n) == n > 0

\* setSession with the answer's pair
SignedIn ==
  LET x == handler[signing]
  IN  /\ signing # None /\ x.pc = "answer"
      /\ IF IsPair(x.answer) THEN Becomes(x.answer, x.user) ELSE UNCHANGED <<session, who, store>>
      /\ handler' = [handler EXCEPT ![signing] = NoHandler]
      /\ signing' = None
      /\ UNCHANGED <<server, revoking, renewal, call, mixed, faults, withheld>>

\* signOut: the session ends at once, and the server is asked to revoke its pair.
SignOut ==
  /\ session # SignedOut
  /\ Becomes(SignedOut, None)
  /\ revoking' = revoking \cup {session}
  /\ UNCHANGED <<server, handler, signing, renewal, call, mixed, faults, withheld>>

(***************************************************************************)
(* API calls, and the renewal they share.                                  *)
(***************************************************************************)
\* Calls are interchangeable: the first that is not open.
Send(c) ==
  /\ session # SignedOut /\ Room
  /\ call[c].pc = "idle" /\ c = CHOOSE x \in Calls : call[x].pc = "idle"
  /\ call' = [call EXCEPT ![c] = [pc |-> "sent", sent |-> session]]
  /\ UNCHANGED <<server, handler, revoking, session, who, signing, renewal, store, mixed, faults, withheld>>

\* Mutant: every 401 starts a renewal of its own.
SharedNever == FALSE

\* renewing ??= ...
Shared == renewal.pc # "idle"

\* renewSession, up to its fetch
Renew ==
  /\ Idle # {}
  /\ LET h == CHOOSE x \in Idle : TRUE
     IN  /\ handler' = [handler EXCEPT ![h] = [NoHandler EXCEPT !.pc = "consume", !.pair = session]]
         /\ renewal' = [pc |-> "asked", of |-> session, at |-> h, got |-> 0]

\* apiFetch: a call answered 401 is repeated with the session's pair, if that is another one, or
\* else with the renewal's.
Reply(c) ==
  LET refused == call[c].sent \in expired
      another == session \notin {SignedOut, call[c].sent}
      ends == call' = [call EXCEPT ![c] = NoCall]
      waits == call' = [call EXCEPT ![c].pc = "waiting"]
  IN  /\ call[c].pc = "sent"
      /\ \/ (~refused \/ another) /\ ends /\ UNCHANGED <<handler, renewal>>
         \/ refused /\ ~another /\ Shared /\ waits /\ UNCHANGED <<handler, renewal>>
         \/ refused /\ ~another /\ ~Shared /\ session = SignedOut /\ ends /\ UNCHANGED <<handler, renewal>>
         \/ refused /\ ~another /\ ~Shared /\ session # SignedOut /\ waits /\ Renew
      /\ UNCHANGED <<server, revoking, session, who, signing, store, mixed, faults, withheld>>

\* Mutant: the shared renewal is forgotten after a success only.
OverIfRenewed(got) == IF IsPair(got) THEN NoRenewal ELSE [NoRenewal EXCEPT !.pc = "over"]

\* finally: renewing = null
Over(got) == NoRenewal

\* The renewal ends, and every call that waits for it goes on or fails.
Ends(got) ==
  /\ renewal' = Over(got)
  /\ call' = [c \in Calls |-> IF call[c].pc = "waiting" THEN NoCall ELSE call[c]]

\* Mutant: the pair of an ended session is thrown away.
LeftoverForgotten(n) == {}

\* The pair to revoke of a renewal whose session ended
Leftover(n) == {n}

\* Mutant: any answer but a 401 is taken for a pair.
RenewedUnlessRefused(n) == n # Refused

Renewed(n) == IsPair(n)

\* The body of an answer with pair n is awaited.
Reads(pc, n) ==
  /\ renewal' = [renewal EXCEPT !.pc = pc, !.at = None, !.got = n]
  /\ UNCHANGED call

\* The headers of the renewal's answer
Renewing ==
  LET n == handler[renewal.at].answer
      same == session = renewal.of
  IN  /\ renewal.pc = "asked" /\ handler[renewal.at].pc = "answer"
      /\ handler' = [handler EXCEPT ![renewal.at] = NoHandler]
      /\ \/ /\ ~same
            /\ IF IsPair(n) THEN Reads("left", n) ELSE Ends(0)
            /\ UNCHANGED <<session, who, store>>
         \/ /\ same /\ Renewed(n)
            /\ Reads("body", n)
            /\ UNCHANGED <<session, who, store>>
         \/ /\ same /\ ~Renewed(n)
            /\ IF n = Refused THEN Becomes(SignedOut, None) ELSE UNCHANGED <<session, who, store>>
            /\ Ends(0)
      /\ UNCHANGED <<server, revoking, signing, mixed, faults, withheld>>

\* await res.json(), and setTokens; or the body breaks off.
Body ==
  /\ renewal.pc = "body"
  /\ \/ /\ Becomes(renewal.got, who)
        /\ mixed' = (mixed \/ session # renewal.of)
        /\ Ends(renewal.got)
        /\ UNCHANGED faults
     \/ Ends(0) /\ Faulty /\ UNCHANGED <<session, who, store, mixed>>
  /\ UNCHANGED <<server, handler, revoking, signing, withheld>>

\* await res.json() of a renewal whose session ended, and logout; or the body breaks off.
LeftBody ==
  /\ renewal.pc = "left"
  /\ Ends(0)
  /\ \/ revoking' = revoking \cup Leftover(renewal.got) /\ UNCHANGED faults
     \/ Faulty /\ UNCHANGED revoking
  /\ UNCHANGED <<server, handler, session, who, signing, store, mixed, withheld>>

(***************************************************************************)
(* Faults on the way and on the device.                                    *)
(***************************************************************************)
\* fetchWithTimeout gives up on a request that the server goes on with, or loses it.
GiveUp ==
  /\ Faulty
  /\ \/ signing # None /\ signing' = None /\ UNCHANGED <<renewal, call>>
     \/ renewal.pc = "asked" /\ Ends(0) /\ UNCHANGED signing
  /\ UNCHANGED <<server, handler, revoking, session, who, store, mixed, withheld>>

LoseRevoke(t) ==
  /\ t \in revoking /\ Faulty
  /\ revoking' = revoking \ {t}
  /\ UNCHANGED <<server, handler, device, withheld>>

\* The app is killed, and opened again with what the secure store holds.
Kill ==
  /\ Faulty
  /\ session' = store.kept
  /\ who' = IF store.kept = SignedOut THEN None ELSE owner[store.kept]
  /\ signing' = None /\ renewal' = NoRenewal
  /\ call' = [c \in Calls |-> NoCall]
  /\ store' = [kept |-> store.kept, writing |-> Nothing, pending |-> Nothing, bad |-> FALSE]
  /\ UNCHANGED <<server, handler, revoking, mixed, withheld>>

Serve(h) ==
  Verify(h) \/ Find(h) \/ Insert(h) \/ Grant(h) \/ Consume(h) \/ Save(h) \/ Unheard(h)

Next ==
  \/ \E u \in Users : SendCode(u) \/ SignIn(u)
  \/ \E h \in Handlers : Serve(h) \/ DatabaseErrs(h)
  \/ \E t \in Pairs : Revoke(t) \/ Expire(t) \/ LoseRevoke(t)
  \/ \E c \in Calls : Send(c) \/ Reply(c)
  \/ SignedIn \/ SignOut \/ Renewing \/ Body \/ LeftBody \/ Land
  \/ Crash \/ GiveUp \/ Kill

Spec == Init /\ [][Next]_vars

\* The server works on what it has, and the app goes on when the headers of the renewal's answer
\* are there.  A body has no deadline (fetchWithTimeout's ends with the headers): none is assumed.
SessionFairness == WF_vars(\E h \in Handlers : Serve(h)) /\ WF_vars(Renewing)

(***************************************************************************)
(* Properties.                                                             *)
(***************************************************************************)
TypeOK ==
  /\ known \subseteq Users /\ grants \in [Users -> Nat] /\ code \subseteq Users
  /\ owner \in Seq(Users)
  /\ live \subseteq Issued /\ expired \subseteq Issued /\ revoking \subseteq Issued
  /\ handler \in [Handlers -> [pc : {"idle", "verify", "find", "insert", "grant", "consume", "save", "answer"},
                               user : Users \cup {None}, pair : {0} \cup Issued,
                               answer : {Refused, Failed} \cup Issued]]
  /\ session \in {SignedOut} \cup Issued /\ who \in Users \cup {None}
  /\ signing \in Handlers \cup {None}
  /\ renewal \in [pc : {"idle", "asked", "body", "left"}, of : {0} \cup Issued,
                  at : Handlers \cup {None}, got : {0} \cup Issued]
  /\ call \in [Calls -> [pc : {"idle", "sent", "waiting"}, sent : {0} \cup Issued]]
  /\ store \in [kept : {SignedOut} \cup Issued, writing : {Nothing, SignedOut} \cup Issued,
                pending : {Nothing, SignedOut} \cup Issued, bad : BOOLEAN]
  /\ mixed \in BOOLEAN /\ faults \in 0 .. MaxFaults /\ withheld \subseteq Users

\* As long as nothing is lost on the way, the app never signs itself out: its pair is good, or
\* spent by its own renewal, whose answer will not be a refusal.  Two calls that expire together
\* must not both spend it, nor may a session renew the pair that another one ended.
HeldPairIsGood ==
  faults = 0 /\ session # SignedOut =>
    \/ session \in live
    \/ /\ renewal.of = session
       /\ renewal.pc = "asked" =>
            handler[renewal.at].pc = "save" \/ IsPair(handler[renewal.at].answer)

\* As long as nothing is lost on the way, and no renewal came too late, the server keeps no pair
\* that nobody holds: signing out during a renewal revokes the pair that it brings.
OnlyHeldPairsLive ==
  faults = 0 /\ ~mixed =>
    live \subseteq {session, renewal.got} \cup revoking
                     \cup {handler[h].answer : h \in Handlers \ Idle}

\* A user is granted the onboarding coins at most once, however many sign-ins race or are
\* repeated, and a user with a row has them, or is about to have them, unless the very sign-in that
\* inserted the row died, or met a database error, before the grant.
OnboardingGrantedOnce ==
  \A u \in Users :
    /\ grants[u] <= 1
    /\ u \in known =>
         \/ grants[u] = 1 \/ u \in withheld
         \/ \E h \in Handlers : handler[h].pc = "grant" /\ handler[h].user = u

\* When the store's writer is done it holds the session, or nothing after a sign-out: a sign-out
\* during the write of a renewal is not overwritten by it, nor forgotten.
StoreCatchesUp == store.writing = Nothing /\ ~store.bad => store.kept = session

Waiting == \E c \in Calls : call[c].pc = "waiting"

Reading == renewal.pc \in {"body", "left"}

\* Calls that wait for a renewal are answered, all of them, whatever becomes of the session and
\* of the request, unless the body of the renewal's answer neither arrives nor breaks off.
CallsAnswered == (Waiting ~> ~Waiting) \/ <>[]Reading

\* api/client.ts:149 says that a renewal of a session that ended, or became someone else's, is
\* revoked: the session is that of the user who signed in.
SessionIsTheSignedInUsers == session # SignedOut => who = owner[session]
=============================================================================
