------------------------- MODULE AuthSessionsProofs -------------------------
(***************************************************************************)
(* Sessions that were ended stay ended and sessions are of the account of  *)
(* now, for any number of browsers, credentials, restarts and losses of    *)
(* auth.json, if no write of it failed and the secret is not set by the    *)
(* environment.                                                            *)
(* And an address is locked out exactly when MaxFailures of its failures   *)
(* count, however the clock and the attempts interleave.                   *)
(***************************************************************************)
EXTENDS AuthSessions, SequenceTheorems, WellFoundedInduction, TLAPS

-----------------------------------------------------------------------------
(* Types. *)

Types ==
  /\ auth \in AuthState /\ saved \in AuthState \union {NoOne}
  /\ cookie \in [Browser -> Cookie \union {NoOne}]
  /\ drawn \in 0 .. MaxDraws /\ retired \subseteq 0 .. MaxDraws
  /\ unsaved \in BOOLEAN

LEMMA VersionTyped ==
  ASSUME NEW s \in AuthState, s.version < MaxVersion
  PROVE  /\ NextVersion(s) \in AuthState
         /\ NextVersion(s).version = s.version + 1 /\ NextVersion(s).account = s.account
         /\ NextVersion(s).secret = s.secret /\ NextVersion(s).key = s.key
<1>1. s.version + 1 \in 1 .. MaxVersion
  BY Bounds DEF AuthState
<1> QED BY <1>1 DEF NextVersion, AuthState

LEMMA AccountTyped ==
  ASSUME NEW s \in AuthState, s.version < MaxVersion, NEW c \in Credential
  PROVE  /\ WithAccount(s, c) \in AuthState
         /\ WithAccount(s, c).version = s.version + 1 /\ WithAccount(s, c).account = c
         /\ WithAccount(s, c).secret = s.secret /\ WithAccount(s, c).key = s.key
<1> DEFINE t == NextVersion(s)
<1>1. /\ t \in AuthState
      /\ t.version = s.version + 1 /\ t.secret = s.secret /\ t.key = s.key
  BY VersionTyped
<1>2. WithAccount(s, c) = [t EXCEPT !.account = c]
  BY DEF WithAccount
<1> HIDE DEF t
<1> QED BY <1>1, <1>2 DEF AuthState

LEMMA FreshTyped ==
  ASSUME drawn \in 0 .. MaxDraws, drawn < MaxDraws, ~EnvSecret
  PROVE  /\ Fresh \in AuthState
         /\ Fresh.secret = drawn + 1 /\ Fresh.key = drawn + 1
<1>1. 1 \in 1 .. MaxVersion /\ drawn + 1 \in 0 .. MaxDraws
  BY Bounds
<1>2. Fresh = [account |-> NoOne, version |-> 1, secret |-> drawn + 1, key |-> drawn + 1]
  BY DEF Fresh
<1> QED BY <1>1, <1>2 DEF AuthState

-----------------------------------------------------------------------------
(* The invariant. *)

\* What is written is what the process knows.  A cookie of the secret of now is
\* of an earlier version if it was ended, and of the account of now if it is
\* of the version of now.  Secrets and keys are drawn once.
SessionInv ==
  /\ saved # NoOne => saved = auth
  /\ auth.secret <= drawn /\ auth.key <= drawn
  /\ retired \subseteq 0 .. drawn /\ auth.key \notin retired
  /\ \A b \in Browser : cookie[b] # NoOne =>
        /\ cookie[b].secret <= drawn
        /\ cookie[b].secret = auth.secret =>
              /\ cookie[b].v <= auth.version
              /\ cookie[b].ended => cookie[b].v < auth.version
              /\ cookie[b].v = auth.version => cookie[b].by \in {auth.account, "oidc"}

Inv == Types /\ (~unsaved => SessionInv)

LEMMA InitInv == Init => Inv
<1> SUFFICES ASSUME Init PROVE Inv
  OBVIOUS
<1>1. /\ auth.secret = 0 /\ auth.key = 0 /\ drawn = 0 /\ saved = auth /\ retired = {}
      /\ auth = [account |-> NoOne, version |-> 1, secret |-> 0, key |-> 0]
      /\ cookie = [b \in Browser |-> NoOne] /\ unsaved = FALSE
  BY DEF Init
<1>2. auth \in AuthState
  BY <1>1, Bounds DEF AuthState
<1>3. Types
  <2>1. drawn \in 0 .. MaxDraws /\ retired \subseteq 0 .. MaxDraws
    BY <1>1, Bounds
  <2>2. cookie \in [Browser -> Cookie \union {NoOne}]
    BY <1>1
  <2> QED BY <1>1, <1>2, <2>1, <2>2, Zenon DEF Types
<1>4. SessionInv
  BY <1>1 DEF SessionInv
<1> QED BY <1>3, <1>4 DEF Inv

\* What a write does: auth.json is what was written, or the failure is noted.
LEMMA WriteTyped ==
  ASSUME Types, NEW s \in AuthState, Writes(s)
  PROVE  /\ auth' = s /\ auth' \in AuthState /\ saved' \in AuthState \union {NoOne}
         /\ unsaved' \in BOOLEAN
         /\ ~unsaved' => ~unsaved /\ saved' = s
<1>1. /\ auth' = s
      /\ \/ saved' = s /\ unsaved' = unsaved
         \/ unsaved' = TRUE /\ saved' = saved
  BY DEF Writes
<1>2. saved \in AuthState \union {NoOne} /\ unsaved \in BOOLEAN
  BY DEF Types
<1>3. unsaved' \in BOOLEAN /\ (~unsaved' => ~unsaved /\ saved' = s)
  BY <1>1, <1>2, Zenon
<1> QED BY <1>1, <1>2, <1>3

LEMMA IssueTyped ==
  ASSUME NEW by \in Credential \union {"oidc"}, auth' \in AuthState
  PROVE  /\ Issue(by) \in Cookie /\ Issue(by) # NoOne
         /\ Issue(by).by = by /\ Issue(by).v = auth'.version
         /\ Issue(by).secret = auth'.secret /\ Issue(by).ended = FALSE
<1>1. auth'.version \in 1 .. MaxVersion /\ auth'.secret \in 0 .. MaxDraws
  BY DEF AuthState
<1>2. Issue(by) \in Cookie
  BY <1>1 DEF Issue, Cookie
<1> QED BY <1>2, NoOneIsNobody DEF Issue

LEMMA EndTyped ==
  ASSUME NEW cs \in [Browser -> Cookie \union {NoOne}]
  PROVE  /\ End(cs) \in [Browser -> Cookie \union {NoOne}]
         /\ \A b \in Browser : End(cs)[b] # NoOne =>
               /\ cs[b] # NoOne
               /\ End(cs)[b].v = cs[b].v /\ End(cs)[b].secret = cs[b].secret
<1>1. \A k \in Cookie : LET e == [k EXCEPT !.ended = TRUE] IN
         e \in Cookie /\ e.v = k.v /\ e.secret = k.secret
  BY DEF Cookie
<1>2. \A b \in Browser : \/ cs[b] = NoOne /\ End(cs)[b] = NoOne
                         \/ cs[b] \in Cookie /\ End(cs)[b] = [cs[b] EXCEPT !.ended = TRUE]
  BY DEF End
<1> QED BY <1>1, <1>2 DEF End

-----------------------------------------------------------------------------
(* The steps. *)

\* A step that writes a later version of the account and ends every session but
\* the one it issues.
LEMMA NewVersionInv ==
  ASSUME Inv, NEW s \in AuthState, Writes(s), UNCHANGED <<drawn, retired>>,
         s.version = auth.version + 1, s.secret = auth.secret, s.key = auth.key,
         cookie' \in [Browser -> Cookie \union {NoOne}],
         \A b \in Browser : cookie'[b] # NoOne =>
            \/ cookie[b] # NoOne /\ cookie'[b].v = cookie[b].v /\ cookie'[b].secret = cookie[b].secret
            \/ /\ cookie'[b].v = s.version /\ cookie'[b].secret = s.secret
               /\ cookie'[b].by \in {s.account, "oidc"} /\ ~cookie'[b].ended
  PROVE  Inv'
<1>1. /\ auth' = s /\ auth' \in AuthState /\ saved' \in AuthState \union {NoOne}
      /\ unsaved' \in BOOLEAN /\ (~unsaved' => ~unsaved /\ saved' = s)
  BY WriteTyped DEF Inv
<1>2. Types'
  BY <1>1 DEF Inv, Types
<1>3. /\ auth \in AuthState /\ auth.version \in Nat /\ auth.secret \in Nat /\ drawn \in Nat
      /\ \A b \in Browser : cookie[b] # NoOne => cookie[b].v \in Nat /\ cookie[b].secret \in Nat
  BY DEF Inv, Types, AuthState, Cookie
<1>4. ASSUME ~unsaved' PROVE SessionInv'
  <2>1. SessionInv /\ saved' = s
    BY <1>1, <1>4 DEF Inv
  <2> SUFFICES ASSUME NEW b \in Browser, cookie'[b] # NoOne
               PROVE  /\ cookie'[b].secret <= drawn
                      /\ cookie'[b].secret = s.secret =>
                            /\ cookie'[b].v <= s.version
                            /\ cookie'[b].ended => cookie'[b].v < s.version
                            /\ cookie'[b].v = s.version => cookie'[b].by \in {s.account, "oidc"}
    BY <1>1, <2>1 DEF SessionInv
  <2>2. CASE /\ cookie[b] # NoOne
             /\ cookie'[b].v = cookie[b].v /\ cookie'[b].secret = cookie[b].secret
    BY <1>3, <2>1, <2>2 DEF SessionInv
  <2>3. CASE /\ cookie'[b].v = s.version /\ cookie'[b].secret = s.secret
             /\ cookie'[b].by \in {s.account, "oidc"} /\ ~cookie'[b].ended
    BY <1>3, <2>1, <2>3 DEF SessionInv
  <2> QED BY <2>2, <2>3
<1> QED BY <1>2, <1>4 DEF Inv

\* A step that issues a session, or takes one away, under the account as it is.
LEMMA CookieInv ==
  ASSUME Inv, UNCHANGED <<auth, saved, unsaved, drawn, retired>>, NEW b \in Browser,
         NEW k \in Cookie \union {NoOne}, cookie' = [cookie EXCEPT ![b] = k],
         k # NoOne => /\ k.v = auth.version /\ k.secret = auth.secret /\ ~k.ended
                      /\ k.by \in {auth.account, "oidc"}
  PROVE  Inv'
<1>1. Types'
  BY DEF Inv, Types
<1>2. auth.version \in Nat /\ auth.secret \in Nat
  BY DEF Inv, Types, AuthState
<1>3. ASSUME ~unsaved PROVE SessionInv'
  <2>1. SessionInv /\ cookie'[b] = k /\ \A c \in Browser \ {b} : cookie'[c] = cookie[c]
    BY <1>3 DEF Inv, Types
  <2> QED BY <1>2, <2>1 DEF SessionInv
<1> QED BY <1>1, <1>3 DEF Inv

LEMMA SetupInv ==
  ASSUME Inv, NEW b \in Browser, NEW c \in Credential, Setup(b, c) \/ ChangePassword(b, c)
  PROVE  Inv'
<1> DEFINE s == WithAccount(auth, c)
           by == IF Setup(b, c) THEN c ELSE IF cookie[b].by = "oidc" THEN "oidc" ELSE c
<1>1. /\ auth \in AuthState /\ auth.version < MaxVersion /\ Writes(s) /\ UNCHANGED <<drawn, retired>>
      /\ cookie \in [Browser -> Cookie \union {NoOne}]
  BY DEF Inv, Types, Setup, ChangePassword
<1>2. /\ s \in AuthState /\ s.version = auth.version + 1 /\ s.secret = auth.secret
      /\ s.key = auth.key /\ s.account = c
  BY <1>1, AccountTyped
<1>3. by \in {c, "oidc"} /\ cookie' = [End(cookie) EXCEPT ![b] = Issue(by)]
  BY DEF Setup, ChangePassword
<1> HIDE DEF s, by
<1>4. auth' = s /\ auth' \in AuthState
  BY <1>1, <1>2, WriteTyped DEF Inv
<1>5. /\ Issue(by) \in Cookie /\ Issue(by).by = by /\ Issue(by).v = s.version
      /\ Issue(by).secret = s.secret /\ Issue(by).ended = FALSE
  BY <1>3, <1>4, IssueTyped
<1>6. cookie' \in [Browser -> Cookie \union {NoOne}]
  BY <1>1, <1>3, <1>5, EndTyped
<1>7. \A d \in Browser : cookie'[d] # NoOne =>
         \/ cookie[d] # NoOne /\ cookie'[d].v = cookie[d].v /\ cookie'[d].secret = cookie[d].secret
         \/ /\ cookie'[d].v = s.version /\ cookie'[d].secret = s.secret
            /\ cookie'[d].by \in {s.account, "oidc"} /\ ~cookie'[d].ended
  <2>1. End(cookie) \in [Browser -> Cookie \union {NoOne}]
    BY <1>1, EndTyped
  <2>2. cookie'[b] = Issue(by) /\ \A d \in Browser \ {b} : cookie'[d] = End(cookie)[d]
    BY <1>3, <2>1
  <2> QED BY <1>1, <1>2, <1>3, <1>5, <2>2, EndTyped
<1> QED BY <1>1, <1>2, <1>6, <1>7, NewVersionInv

LEMMA RevokeInv == ASSUME Inv, NEW b \in Browser, RevokeSessions(b) PROVE Inv'
<1> DEFINE s == NextVersion(auth)
<1>1. /\ auth \in AuthState /\ auth.version < MaxVersion /\ Writes(s) /\ UNCHANGED <<drawn, retired>>
      /\ cookie \in [Browser -> Cookie \union {NoOne}]
      /\ cookie' = [End(cookie) EXCEPT ![b] = NoOne]
  BY DEF Inv, Types, RevokeSessions
<1>2. s \in AuthState /\ s.version = auth.version + 1 /\ s.secret = auth.secret /\ s.key = auth.key
  BY <1>1, VersionTyped
<1> HIDE DEF s
<1>3. End(cookie) \in [Browser -> Cookie \union {NoOne}]
  BY <1>1, EndTyped
<1>4. cookie' \in [Browser -> Cookie \union {NoOne}]
  BY <1>1, <1>3
<1>5. cookie'[b] = NoOne /\ \A d \in Browser \ {b} : cookie'[d] = End(cookie)[d]
  BY <1>1, <1>3
<1> QED BY <1>1, <1>2, <1>4, <1>5, EndTyped, NewVersionInv

LEMMA RegenerateInv == ASSUME Inv, NEW b \in Browser, RegenerateKey(b) PROVE Inv'
<1> DEFINE s == [auth EXCEPT !.key = drawn + 1]
<1>1. /\ Writes(s) /\ UNCHANGED cookie /\ drawn' = drawn + 1
      /\ retired' = retired \union {auth.key} /\ auth \in AuthState
      /\ drawn + 1 \in 0 .. MaxDraws /\ drawn \in Nat
  BY Bounds DEF Inv, Types, RegenerateKey
<1>2. /\ s \in AuthState /\ s.key = drawn + 1 /\ s.secret = auth.secret
      /\ s.version = auth.version /\ s.account = auth.account
  BY <1>1 DEF AuthState
<1> HIDE DEF s
<1>3. /\ auth' = s /\ auth' \in AuthState /\ saved' \in AuthState \union {NoOne}
      /\ unsaved' \in BOOLEAN /\ (~unsaved' => ~unsaved /\ saved' = s)
  BY <1>1, <1>2, WriteTyped DEF Inv
<1>4. Types'
  BY <1>1, <1>3 DEF Inv, Types, AuthState
<1>5. ASSUME ~unsaved' PROVE SessionInv'
  <2>1. SessionInv /\ auth.key \in Nat /\ auth.secret \in Nat
    BY <1>1, <1>3, <1>5 DEF Inv, AuthState
  <2>2. \A b2 \in Browser : cookie[b2] # NoOne => cookie[b2].secret \in Nat
    BY DEF Inv, Types, Cookie
  <2>3. retired' \subseteq 0 .. drawn' /\ auth'.key \notin retired'
    <3>1. auth.key \in 0 .. drawn /\ retired \subseteq 0 .. drawn
      BY <1>1, <2>1 DEF SessionInv
    <3>2. \A k \in 0 .. drawn : k \in 0 .. drawn + 1 /\ k # drawn + 1
      BY <1>1
    <3>3. auth'.key = drawn + 1
      BY <1>2, <1>3
    <3> QED BY <1>1, <3>1, <3>2, <3>3
  <2>4. auth'.secret <= drawn' /\ auth'.key <= drawn'
    BY <1>1, <1>2, <1>3, <2>1 DEF SessionInv
  <2>5. \A d \in Browser : cookie[d] # NoOne => cookie[d].secret <= drawn'
    BY <1>1, <2>1, <2>2 DEF SessionInv
  <2> QED BY <1>1, <1>2, <1>3, <1>5, <2>1, <2>3, <2>4, <2>5 DEF SessionInv
<1> QED BY <1>4, <1>5 DEF Inv

\* A start reads auth.json, or begins anew with a secret of its own; then the
\* account of the environment is set unless it is the account.
LEMMA RestartInv ==
  ASSUME Inv, ~EnvSecret, NEW env \in Credential \union {NoOne}, Restart(env)
  PROVE  Inv'
<1> DEFINE s == Started
           set == env \notin {NoOne, s.account}
           t == IF set THEN WithAccount(s, env) ELSE s
<1>1. /\ saved = NoOne => drawn < MaxDraws
      /\ set => s.version < MaxVersion
      /\ Writes(t)
      /\ cookie' = IF set THEN End(cookie) ELSE cookie
      /\ drawn' = IF saved = NoOne THEN drawn + 1 ELSE drawn
      /\ retired' = IF saved = NoOne THEN retired \union {auth.key} ELSE retired
  BY DEF Restart
<1>2. /\ auth \in AuthState /\ drawn \in 0 .. MaxDraws /\ retired \subseteq 0 .. MaxDraws
      /\ cookie \in [Browser -> Cookie \union {NoOne}] /\ saved \in AuthState \union {NoOne}
  BY DEF Inv, Types
<1>3. CASE saved = NoOne
  <2>1. s \in AuthState /\ s.secret = drawn + 1 /\ s.key = drawn + 1
    BY <1>1, <1>2, <1>3, FreshTyped DEF Started
  <2>2. t \in AuthState /\ t.secret = drawn + 1 /\ t.key = drawn + 1
    BY <1>1, <2>1, AccountTyped
  <2> HIDE DEF t, s, set
  <2>3. /\ auth' = t /\ auth' \in AuthState /\ saved' \in AuthState \union {NoOne}
        /\ unsaved' \in BOOLEAN /\ (~unsaved' => ~unsaved /\ saved' = t)
    BY <1>1, <2>2, WriteTyped DEF Inv
  <2>4. /\ cookie' \in [Browser -> Cookie \union {NoOne}]
        /\ \A b \in Browser : cookie'[b] # NoOne =>
              cookie[b] # NoOne /\ cookie'[b].secret = cookie[b].secret
    BY <1>1, <1>2, EndTyped
  <2>5. drawn' = drawn + 1 /\ drawn' \in 0 .. MaxDraws /\ drawn \in Nat
    BY <1>1, <1>2, <1>3, Bounds
  <2>6. retired' \subseteq 0 .. MaxDraws
    BY <1>1, <1>2, <1>3 DEF AuthState
  <2>7. Types'
    BY <2>3, <2>4, <2>5, <2>6 DEF Types
  <2>8. ASSUME ~unsaved' PROVE SessionInv'
    <3>1. SessionInv
      BY <2>3, <2>8 DEF Inv
    <3>2. auth.key \in 0 .. drawn /\ retired \subseteq 0 .. drawn
      BY <1>2, <3>1 DEF SessionInv, AuthState
    <3>3. retired' \subseteq 0 .. drawn' /\ auth'.key \notin retired'
      <4>1. \A k \in 0 .. drawn : k \in 0 .. drawn + 1 /\ k # drawn + 1
        BY <2>5
      <4>2. auth'.key = drawn + 1 /\ retired' = retired \union {auth.key}
        BY <1>1, <1>3, <2>2, <2>3
      <4> QED BY <2>5, <3>2, <4>1, <4>2
    <3>4. \A b \in Browser : cookie'[b] # NoOne => cookie'[b].secret \in 0 .. drawn
      BY <1>2, <2>4, <3>1 DEF SessionInv, Cookie
    <3> QED BY <2>2, <2>3, <2>5, <2>8, <3>3, <3>4 DEF SessionInv
  <2> QED BY <2>7, <2>8 DEF Inv
<1>4. CASE saved # NoOne
  <2>1. s = saved /\ s \in AuthState /\ UNCHANGED <<drawn, retired>>
    BY <1>1, <1>2, <1>4 DEF Started
  <2>2. t \in AuthState
    BY <1>1, <2>1, AccountTyped
  <2>3. /\ auth' = t /\ auth' \in AuthState /\ saved' \in AuthState \union {NoOne}
        /\ unsaved' \in BOOLEAN /\ (~unsaved' => ~unsaved /\ saved' = t)
    BY <1>1, <2>2, WriteTyped DEF Inv
  <2>4. cookie' \in [Browser -> Cookie \union {NoOne}]
    BY <1>1, <1>2, EndTyped
  <2>5. Types'
    BY <1>2, <2>1, <2>3, <2>4 DEF Types
  <2>6. ASSUME ~unsaved' PROVE Inv'
    <3>1. SessionInv /\ s = auth
      BY <1>4, <2>1, <2>3, <2>6 DEF Inv, SessionInv
    <3>2. CASE set
      <4>1. /\ t.version = auth.version + 1 /\ t.secret = auth.secret /\ t.key = auth.key
        BY <1>1, <2>1, <3>1, <3>2, AccountTyped
      <4> HIDE DEF t, s
      <4>2. \A b \in Browser : cookie'[b] # NoOne =>
               cookie[b] # NoOne /\ cookie'[b].v = cookie[b].v /\ cookie'[b].secret = cookie[b].secret
        BY <1>1, <1>2, <3>2, EndTyped
      <4> QED BY <1>1, <2>1, <2>2, <2>4, <4>1, <4>2, NewVersionInv
    <3>3. CASE ~set
      <4>1. auth' = auth /\ saved' = auth /\ UNCHANGED <<cookie, drawn, retired>>
        BY <1>1, <2>1, <2>3, <2>6, <3>1, <3>3
      <4> QED BY <2>5, <3>1, <4>1 DEF Inv, SessionInv
    <3> QED BY <3>2, <3>3
  <2> QED BY <2>5, <2>6 DEF Inv
<1> QED BY <1>3, <1>4

LEMMA LoseInv == ASSUME Inv, LoseFile PROVE Inv'
BY DEF LoseFile, Inv, Types, SessionInv

LEMMA NextInv == ASSUME Inv, ~EnvSecret, [Next]_vars PROVE Inv'
<1>1. ASSUME NEW b \in Browser, SignIn(b) PROVE Inv'
  <2>1. ASSUME NEW c \in Credential, Setup(b, c) PROVE Inv'
    BY <2>1, SetupInv
  <2>2. ASSUME NEW c \in Credential, NEW a \in Address, Login(b, a, c) PROVE Inv'
    <3>1. /\ UNCHANGED <<auth, saved, unsaved, drawn, retired>> /\ auth' \in AuthState
          /\ c = auth.account /\ cookie' = [cookie EXCEPT ![b] = Issue(c)]
      BY <2>2 DEF Login, Inv, Types
    <3> QED BY <3>1, IssueTyped, CookieInv
  <2>3. CASE OidcComplete(b)
    <3>1. /\ UNCHANGED <<auth, saved, unsaved, drawn, retired>> /\ auth' \in AuthState
          /\ cookie' = [cookie EXCEPT ![b] = Issue("oidc")]
      BY <2>3 DEF OidcComplete, Inv, Types
    <3> QED BY <3>1, IssueTyped, CookieInv
  <2>4. CASE OidcLogin(b) \/ OidcCallback(b) \/ OidcFail(b)
    BY <2>4 DEF OidcLogin, OidcCallback, OidcFail, Inv, Types, SessionInv
  <2> QED BY <1>1, <2>1, <2>2, <2>3, <2>4 DEF SignIn
<1>2. ASSUME NEW b \in Browser, Manage(b) PROVE Inv'
  <2>1. CASE Logout(b)
    <3>1. UNCHANGED <<auth, saved, unsaved, drawn, retired>> /\ cookie' = [cookie EXCEPT ![b] = NoOne]
      BY <2>1 DEF Logout
    <3> QED BY <3>1, CookieInv
  <2> QED BY <1>2, <2>1, SetupInv, RevokeInv, RegenerateInv DEF Manage
<1>3. CASE \/ \E a \in Address : FailedLogin(a)
           \/ \E m \in Methods : Configure(m)
           \/ Tick
           \/ UNCHANGED vars
  BY <1>3 DEF FailedLogin, Configure, Tick, vars, Inv, Types, SessionInv
<1> QED BY <1>1, <1>2, <1>3, RestartInv, LoseInv DEF Next

LEMMA Correct == ~EnvSecret /\ Spec => []Inv
<1> SUFFICES ASSUME ~EnvSecret PROVE Spec => []Inv
  OBVIOUS
<1>1. Inv /\ [Next]_vars => Inv'
  BY NextInv
<1> QED BY <1>1, InitInv, PTL DEF Spec

\* Changing the password and signing out all sessions end sessions for good,
\* across restarts and the loss of auth.json, and a replaced API key does not
\* come back (AuthStore, resolve_principal).
THEOREM EndedSessionsStayEnded == ASSUME ~EnvSecret PROVE Spec => []EndedStaysEnded
<1>1. Inv => EndedStaysEnded
  <2> SUFFICES ASSUME Inv, ~unsaved PROVE EndedStaysEnded
    BY DEF EndedStaysEnded
  <2>1. \A b \in Browser : Accepted(b) => ~cookie[b].ended
    <3>1. auth.version \in Nat
      BY DEF Inv, Types, AuthState
    <3> QED BY <3>1 DEF Inv, SessionInv, Accepted
  <2> QED BY <2>1 DEF Inv, SessionInv, EndedStaysEnded
<1> QED BY <1>1, Correct, PTL

\* A session that is accepted and was opened with a password belongs to the
\* account of now (resolve_principal).
THEOREM SessionsBelongToTheAccount == ASSUME ~EnvSecret PROVE Spec => []SessionsAreOfTheAccount
<1>1. Inv => SessionsAreOfTheAccount
  BY DEF Inv, SessionInv, SessionsAreOfTheAccount, Accepted
<1> QED BY <1>1, Correct, PTL
-----------------------------------------------------------------------------
(***************************************************************************)
(* The throttle.  The failures of an address rise, none is later than now, *)
(* and they are never more than the limit: so pruning leaves all of them   *)
(* or less than the limit.                                                 *)
(***************************************************************************)
Failed(f, n) ==
  /\ \A i, j \in 1 .. Len(f) : i <= j => f[i] <= f[j]
  /\ \A i \in 1 .. Len(f) : f[i] <= n
  /\ Len(f) <= MaxFailures

ThrottleInv ==
  /\ now \in Nat
  /\ failures \in [Address -> Seq(Nat)]
  /\ \A a \in Address : Failed(failures[a], now)

\* Numbers up to n have a greatest one if there are any.
LEMMA GreatestNumber ==
  ASSUME NEW n \in Nat, NEW T \in SUBSET (0 .. n), T # {}
  PROVE  Max(T) \in T /\ \A k \in T : k <= Max(T)
<1> DEFINE U == {n - k : k \in T}
           R == OpToRel(<, Nat)
<1>1. IsWellFoundedOn(R, Nat)
  BY NatLessThanWellFounded
<1>2. \A i, j \in Nat : i < j => <<i, j>> \in R
  BY DEF OpToRel
<1> HIDE DEF R
<1>3. U \subseteq Nat /\ U # {} /\ \A k \in T : k \in Nat
  <2>1. \A k \in T : k \in Nat /\ n - k \in Nat
    <3>1. \A k \in 0 .. n : k \in Nat /\ n - k \in Nat
      OBVIOUS
    <3> QED BY <3>1
  <2> QED BY <2>1
<1>4. PICK x \in U : \A y \in U : ~(<<y, x>> \in R)
  BY <1>1, <1>3, WFMin
<1>5. PICK m \in T : x = n - m
  BY <1>4
<1>6. ASSUME NEW k \in T PROVE m >= k
  <2>1. n - k \in U /\ n - k \in Nat /\ x \in Nat
    BY <1>3, <1>4
  <2>2. ~(n - k < x)
    BY <1>2, <1>4, <2>1
  <2> QED BY <1>5, <2>1, <2>2
<1>7. Max(T) \in T /\ \A k \in T : Max(T) >= k
  BY <1>6, Zenon DEF Max
<1>8. ASSUME NEW k \in T PROVE k <= Max(T)
  <2>1. k \in Nat /\ Max(T) \in Nat /\ Max(T) >= k
    BY <1>3, <1>7
  <2> QED BY <2>1
<1> QED BY <1>7, <1>8

\* What is left of the failures f at time t.
LEMMA Pruned ==
  ASSUME NEW f \in Seq(Nat), NEW n \in Nat, Failed(f, n), NEW t \in Nat
  PROVE  LET r == SubSeq(f, Max(Stale(f, t)) + 1, Len(f))
         IN  /\ r \in Seq(Nat) /\ Failed(r, n) /\ Len(r) <= Len(f)
             /\ f # <<>> /\ t - f[1] > Window => Len(r) < Len(f)
             /\ f # <<>> /\ ~(t - f[1] > Window) => r = f
<1> DEFINE k == Max(Stale(f, t))
           r == SubSeq(f, k + 1, Len(f))
<1>1. Len(f) \in Nat /\ \A i \in 1 .. Len(f) : f[i] \in Nat
  OBVIOUS
<1>2. Stale(f, t) \in SUBSET (0 .. Len(f)) /\ 0 \in Stale(f, t)
  BY <1>1 DEF Stale
<1>3. k \in Stale(f, t) /\ \A l \in Stale(f, t) : l <= k
  BY <1>1, <1>2, GreatestNumber
<1> HIDE DEF k
<1>4. k \in 0 .. Len(f) /\ \A i \in k + 1 .. Len(f) : f[i] \in Nat
  BY <1>1, <1>3 DEF Stale
<1>5. /\ r \in Seq(Nat) /\ Len(r) = Len(f) - k
      /\ \A i \in 1 .. Len(f) - k : r[i] = f[k + i]
  <2>1. k + 1 \in Int /\ Len(f) \in Int
    BY <1>1, <1>4
  <2>2. /\ r \in Seq(Nat) /\ Len(r) = IF k + 1 <= Len(f) THEN Len(f) - (k + 1) + 1 ELSE 0
        /\ \A i \in 1 .. Len(f) - (k + 1) + 1 : r[i] = f[(k + 1) + i - 1]
    BY <1>4, <2>1, SubSeqProperties
  <2>3. \A i \in 1 .. Len(f) - k : i \in 1 .. Len(f) - (k + 1) + 1 /\ (k + 1) + i - 1 = k + i
    BY <1>1, <1>4
  <2> QED BY <1>1, <1>4, <2>2, <2>3
<1>6. Failed(r, n)
  <2>1. \A i \in 1 .. Len(r) : k + i \in 1 .. Len(f) /\ r[i] = f[k + i]
    BY <1>1, <1>4, <1>5
  <2>2. \A i, j \in 1 .. Len(r) : i <= j => k + i <= k + j
    BY <1>1, <1>4, <1>5
  <2>3. Len(r) <= MaxFailures
    BY <1>1, <1>4, <1>5, Bounds DEF Failed
  <2> HIDE DEF r
  <2> QED BY <2>1, <2>2, <2>3 DEF Failed
<1>7. ASSUME f # <<>>, t - f[1] > Window PROVE k >= 1
  <2>1. 1 \in 0 .. Len(f) /\ \A i \in 1 .. 1 : i = 1
    BY <1>1, <1>7
  <2>2. 1 \in Stale(f, t)
    BY <1>7, <2>1 DEF Stale
  <2> QED BY <1>3, <1>4, <2>2
<1>8. ASSUME f # <<>>, ~(t - f[1] > Window) PROVE k = 0
  <2>1. CASE k >= 1
    <3>1. 1 \in 1 .. k
      BY <1>4, <2>1
    <3> QED BY <1>3, <1>8, <3>1 DEF Stale
  <2> QED BY <1>4, <2>1
<1>9. k = 0 => r = f
  BY <1>5, SubSeqFull
<1>10. k >= 1 => Len(r) < Len(f)
  BY <1>1, <1>4, <1>5
<1>11. Len(r) <= Len(f)
  BY <1>1, <1>4, <1>5
<1> HIDE DEF r
<1> QED BY <1>5, <1>6, <1>7, <1>8, <1>9, <1>10, <1>11 DEF r, k

LEMMA InitThrottle == Init => ThrottleInv
<1> SUFFICES ASSUME Init PROVE ThrottleInv
  OBVIOUS
<1>1. Len(<<>>) = 0 /\ <<>> \in Seq(Nat)
  OBVIOUS
<1>2. \A a \in Address : failures[a] = <<>>
  BY DEF Init
<1>3. failures \in [Address -> Seq(Nat)] /\ now = 0
  BY <1>1 DEF Init
<1> QED BY <1>1, <1>2, <1>3, Bounds DEF ThrottleInv, Failed

\* An attempt is counted only while less than the limit count.
LEMMA FailedLoginThrottle == ASSUME ThrottleInv, NEW a \in Address, FailedLogin(a) PROVE ThrottleInv'
<1> DEFINE r == Recent(a, now)
           g == Append(r, now)
<1>1. /\ failures \in [Address -> Seq(Nat)] /\ now \in Nat /\ Failed(failures[a], now)
      /\ failures' = [failures EXCEPT ![a] = g] /\ now' = now
  BY DEF ThrottleInv, FailedLogin
<1>2. r \in Seq(Nat) /\ Failed(r, now)
  BY <1>1, Pruned DEF Recent
<1>3. Len(r) < MaxFailures
  <2>1. RetryAfter(a, now) = 0
    BY DEF FailedLogin
  <2>2. CASE ~(Len(r) < MaxFailures)
    <3>1. Window - (now - r[1]) + 1 = 0
      BY <2>1, <2>2 DEF RetryAfter
    <3>2. failures[a] # <<>> /\ ~(now - failures[a][1] > Window)
      <4>1. Len(r) <= Len(failures[a])
        BY <1>1, Pruned DEF Recent
      <4>2. Len(failures[a]) \in Nat /\ Len(failures[a]) <= MaxFailures
        BY <1>1 DEF Failed
      <4>3. Len(r) \in Nat
        BY <1>2
      <4>4. failures[a] # <<>> /\ now - failures[a][1] > Window => Len(r) < Len(failures[a])
        BY <1>1, Pruned DEF Recent
      <4> HIDE DEF r
      <4>5. Len(failures[a]) = MaxFailures /\ Len(r) = MaxFailures
        BY <2>2, <4>1, <4>2, <4>3, Bounds
      <4>6. failures[a] # <<>>
        <5>1. failures[a] = <<>> => Len(failures[a]) = 0
          OBVIOUS
        <5> QED BY <4>5, <5>1, Bounds
      <4>7. ~(Len(r) < Len(failures[a]))
        BY <4>2, <4>5
      <4> QED BY <4>4, <4>6, <4>7
    <3>3. r = failures[a]
      BY <1>1, <3>2, Pruned DEF Recent
    <3>4. r[1] \in Nat
      BY <1>2, <3>2, <3>3
    <3> HIDE DEF r
    <3> QED BY <1>1, <3>1, <3>2, <3>3, <3>4, Bounds
  <2> QED BY <2>2
<1> HIDE DEF r
<1>4. /\ g \in Seq(Nat) /\ Len(g) = Len(r) + 1 /\ Len(r) \in Nat
      /\ \A i \in 1 .. Len(r) : g[i] = r[i]
      /\ g[Len(r) + 1] = now
  BY <1>1, <1>2
<1>5. \A i \in 1 .. Len(r) : r[i] \in Nat
  BY <1>2
<1> HIDE DEF g
<1>6. Failed(g, now)
  <2>1. \A i \in 1 .. Len(g) : i \in 1 .. Len(r) \/ i = Len(r) + 1
    BY <1>4
  <2>2. \A i \in 1 .. Len(g) : g[i] <= now
    <3>1. \A i \in 1 .. Len(r) : g[i] <= now
      BY <1>2, <1>4 DEF Failed
    <3>2. g[Len(r) + 1] <= now
      BY <1>1, <1>4
    <3> QED BY <2>1, <3>1, <3>2
  <2>3. ASSUME NEW i \in 1 .. Len(g), NEW j \in 1 .. Len(g), i <= j PROVE g[i] <= g[j]
    <3>1. CASE j = Len(r) + 1
      BY <1>4, <2>2, <3>1
    <3>2. CASE j \in 1 .. Len(r)
      <4>1. i \in 1 .. Len(r)
        BY <1>4, <2>3, <3>2
      <4> QED BY <1>2, <1>4, <2>3, <3>2, <4>1 DEF Failed
    <3> QED BY <2>1, <3>1, <3>2
  <2>4. Len(g) <= MaxFailures
    BY <1>3, <1>4, Bounds
  <2> QED BY <2>2, <2>3, <2>4 DEF Failed
<1>7. failures' \in [Address -> Seq(Nat)]
  BY <1>1, <1>4
<1>8. \A b \in Address : failures'[b] = IF b = a THEN g ELSE failures[b]
  BY <1>1
<1> QED BY <1>1, <1>6, <1>7, <1>8 DEF ThrottleInv

LEMMA NextThrottle == ThrottleInv /\ [Next]_vars => ThrottleInv'
<1> SUFFICES ASSUME ThrottleInv, [Next]_vars PROVE ThrottleInv'
  OBVIOUS
<1>1. Len(<<>>) = 0 /\ <<>> \in Seq(Nat)
  OBVIOUS
<1>2. Failed(<<>>, now)
  BY <1>1, Bounds DEF Failed
<1>3. CASE UNCHANGED <<failures, now>>
  BY <1>3 DEF ThrottleInv
<1>4. CASE Tick
  <2>1. now' = now + 1 /\ failures' = failures /\ now' \in Nat
    BY <1>4 DEF Tick, ThrottleInv
  <2>2. ASSUME NEW a \in Address PROVE Failed(failures'[a], now')
    <3>1. Failed(failures[a], now) /\ failures[a] \in Seq(Nat)
      BY DEF ThrottleInv
    <3>2. \A i \in 1 .. Len(failures[a]) : failures[a][i] \in Nat
      BY <3>1
    <3>3. \A i \in 1 .. Len(failures[a]) : failures[a][i] <= now + 1
      BY <3>1, <3>2 DEF Failed, ThrottleInv
    <3> QED BY <2>1, <3>1, <3>3 DEF Failed
  <2> QED BY <2>1, <2>2 DEF ThrottleInv
<1>5. ASSUME NEW b \in Browser, NEW a \in Address, NEW c \in Credential, Login(b, a, c)
      PROVE  ThrottleInv'
  <2>1. failures' = [failures EXCEPT ![a] = <<>>] /\ now' = now
    BY <1>5 DEF Login
  <2>2. failures' \in [Address -> Seq(Nat)]
    BY <1>1, <2>1 DEF ThrottleInv
  <2>3. \A d \in Address : failures'[d] = IF d = a THEN <<>> ELSE failures[d]
    BY <2>1 DEF ThrottleInv
  <2> QED BY <1>2, <2>1, <2>2, <2>3 DEF ThrottleInv
<1>6. ASSUME NEW env, Restart(env) PROVE ThrottleInv'
  <2>1. failures' = [a \in Address |-> <<>>] /\ now' = now
    BY <1>6 DEF Restart
  <2> QED BY <1>1, <1>2, <2>1 DEF ThrottleInv
<1>7. ASSUME NEW b \in Browser, SignIn(b) PROVE ThrottleInv'
  <2>1. ASSUME NEW c \in Credential, Setup(b, c) PROVE ThrottleInv'
    BY <1>3, <2>1 DEF Setup
  <2> QED BY <1>3, <1>5, <1>7, <2>1 DEF SignIn, OidcLogin, OidcCallback, OidcComplete, OidcFail
<1>8. ASSUME NEW b \in Browser, Manage(b) PROVE ThrottleInv'
  BY <1>3, <1>8 DEF Manage, ChangePassword, RevokeSessions, Logout, RegenerateKey
<1>9. CASE LoseFile \/ \E m \in Methods : Configure(m)
  BY <1>3, <1>9 DEF LoseFile, Configure
<1>10. CASE UNCHANGED vars
  BY <1>3, <1>10 DEF vars
<1> QED BY <1>4, <1>6, <1>7, <1>8, <1>9, <1>10, FailedLoginThrottle DEF Next

(***************************************************************************)
(* No address has more failures in a window than the limit, and the wait a *)
(* locked-out one is told is exact (LoginThrottle.retry_after): once it is *)
(* over the next attempt is let in, one unit before it is not.             *)
(***************************************************************************)
THEOREM LockoutsAreExact == Spec => []LockoutIsExact
<1>1. ThrottleInv => LockoutIsExact
  <2> SUFFICES ASSUME ThrottleInv, NEW a \in Address
               PROVE  LET wait == RetryAfter(a, now) IN
                      /\ Len(Recent(a, now)) <= MaxFailures
                      /\ wait > 0 => /\ Len(Recent(a, now + wait)) < MaxFailures
                                     /\ Len(Recent(a, now + wait - 1)) >= MaxFailures
    BY DEF LockoutIsExact
  <2> DEFINE f == failures[a]
             r == Recent(a, now)
             wait == RetryAfter(a, now)
  <2>1. f \in Seq(Nat) /\ Failed(f, now) /\ now \in Nat /\ Len(f) \in Nat /\ Len(f) <= MaxFailures
    BY DEF ThrottleInv, Failed
  <2>2. Failed(r, now) /\ r \in Seq(Nat) /\ Len(r) <= Len(f) /\ Len(r) \in Nat
    <3>1. Failed(r, now) /\ r \in Seq(Nat) /\ Len(r) <= Len(f)
      BY <2>1, Pruned DEF Recent
    <3> HIDE DEF r
    <3> QED BY <3>1
  <2>3. ASSUME wait > 0
        PROVE  /\ Len(Recent(a, now + wait)) < MaxFailures
               /\ Len(Recent(a, now + wait - 1)) >= MaxFailures
    <3>1. Len(r) >= MaxFailures
      BY <2>2, <2>3, Bounds DEF RetryAfter
    <3>2. Len(f) = MaxFailures /\ f # <<>> /\ ~(Len(r) < Len(f))
      BY <2>1, <2>2, <3>1, Bounds
    <3>3. ~(now - f[1] > Window) /\ r = f
      BY <2>1, <3>2, Pruned DEF Recent
    <3>4. wait = Window - (now - f[1]) + 1 /\ f[1] \in Nat /\ f[1] <= now
      BY <2>1, <2>2, <3>1, <3>2, <3>3, Bounds DEF RetryAfter, Failed
    <3> HIDE DEF wait
    <3>5. /\ now + wait \in Nat /\ now + wait - 1 \in Nat
          /\ (now + wait) - f[1] > Window /\ ~((now + wait - 1) - f[1] > Window)
      <4>1. \A n, x, w \in Nat : x <= n /\ ~(n - x > w)
               => LET d == w - (n - x) + 1 IN
                  /\ n + d \in Nat /\ n + d - 1 \in Nat
                  /\ (n + d) - x > w /\ ~((n + d - 1) - x > w)
        OBVIOUS
      <4> QED BY <2>1, <3>3, <3>4, <4>1, Bounds
    <3>6. Len(Recent(a, now + wait)) < Len(f)
      BY <2>1, <3>2, <3>5, Pruned DEF Recent
    <3>7. Recent(a, now + wait - 1) = f
      BY <2>1, <3>2, <3>5, Pruned DEF Recent
    <3> QED BY <2>1, <3>2, <3>6, <3>7
  <2> HIDE DEF wait
  <2>4. Len(r) <= MaxFailures
    BY <2>2 DEF Failed
  <2> QED BY <2>3, <2>4 DEF wait
<1> QED BY <1>1, InitThrottle, NextThrottle, PTL DEF Spec
=============================================================================
