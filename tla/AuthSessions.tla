---------------------------- MODULE AuthSessions ----------------------------
(* The admin account, sign-in, sessions and the login throttle of the web
   interface (auth_store.py, web/security.py, web/routes/auth.py, web/oidc.py).

   A session is a signed cookie that names the version of the credentials it
   was issued under; the server keeps no list of sessions.  The handlers run on
   the event loop and are atomic, except the single sign-on callback, which
   waits for the provider.  What a handler changes is written to auth.json
   before it answers; the write may fail, which is only logged.

   A credential stands for a user name with its password, a time unit for the
   unit of the throttle's window.  Cryptography is taken to work. *)
EXTENDS Naturals, Sequences, FiniteSets, FiniteSetsExt

CONSTANTS
    Browser,      \* browsers that keep a session cookie
    Address,      \* addresses the requests come from
    Credential,   \* user name and password
    NoOne,        \* no account, no cookie
    MaxFailures,  \* failed logins that lock an address out
    Window,       \* how long they count
    Methods,      \* the values auth.method takes
    EnvSecret,    \* whether BOOMARR_SECRET_KEY signs the cookies
    MaxTime, MaxVersion, MaxDraws  \* bounds: clock, credential changes, secrets drawn

\* The account, the credential version, and the signing secret and API key as
\* ordinals of the draw they come from.
AuthState == [account: Credential \union {NoOne}, version: 1 .. MaxVersion,
              secret: 0 .. MaxDraws, key: 0 .. MaxDraws]
\* The session cookie: for whom, or by single sign-on; under which version and
\* secret; history: it was revoked.
Cookie == [by: Credential \union {"oidc"}, v: 1 .. MaxVersion, secret: 0 .. MaxDraws,
           ended: BOOLEAN]

ASSUME Bounds ==
    /\ MaxFailures \in Nat \ {0} /\ Window \in Nat /\ EnvSecret \in BOOLEAN
    /\ MaxTime \in Nat /\ MaxVersion \in Nat \ {0} /\ MaxDraws \in Nat
ASSUME NoOneIsNobody == NoOne \notin Credential \union AuthState \union Cookie

VARIABLES
    auth,      \* AuthStore._state
    saved,     \* what auth.json holds, or NoOne
    method,    \* auth.method; "sso": forms with auth.oidc.enabled
    cookie,    \* per browser: its session cookie
    sign,      \* per browser: its single sign-on: no, asked (the cookie with the
               \* state is set), or waiting (the callback asks the provider)
    failures,  \* LoginThrottle._failures, per address
    now,       \* the clock
    unsaved,   \* history: a write of auth.json failed
    drawn,     \* secrets and API keys drawn so far
    retired    \* history: API keys that were replaced

vars == <<auth, saved, method, cookie, sign, failures, now, unsaved, drawn, retired>>

Fresh == [account |-> NoOne, version |-> 1,
          secret |-> IF EnvSecret THEN 0 ELSE drawn + 1, key |-> drawn + 1]

Init ==
    /\ auth = [account |-> NoOne, version |-> 1, secret |-> 0, key |-> 0]
    /\ saved = auth
    /\ method \in Methods
    /\ cookie = [b \in Browser |-> NoOne]
    /\ sign = [b \in Browser |-> "no"]
    /\ failures = [a \in Address |-> <<>>]
    /\ now = 0 /\ unsaved = FALSE /\ drawn = 0 /\ retired = {}
----------------------------------------------------------------------------
(* Persistence.  Definitions whose name ends in Bug are mutants of the
   definition after them. *)

\* _persist: the file is replaced as a whole, or not at all.
WritesBug(s) ==
    /\ auth' = s
    /\ saved' = auth
    /\ UNCHANGED unsaved
Writes(s) ==
    /\ auth' = s
    /\ \/ saved' = s /\ UNCHANGED unsaved
       \/ unsaved' = TRUE /\ UNCHANGED saved

NextVersion(s) == [s EXCEPT !.version = @ + 1]
WithAccountBug(s, c) == [s EXCEPT !.account = c]
WithAccount(s, c) == [NextVersion(s) EXCEPT !.account = c]

\* Every cookie that was issued so far is revoked.
End(cs) == [b \in Browser |-> IF cs[b] = NoOne THEN NoOne ELSE [cs[b] EXCEPT !.ended = TRUE]]
Issue(by) == [by |-> by, v |-> auth'.version, secret |-> auth'.secret, ended |-> FALSE]
----------------------------------------------------------------------------
(* Requests. *)

\* resolve_principal, for a session.
Accepted(b) ==
    /\ method # "none"
    /\ cookie[b] # NoOne
    /\ cookie[b].secret = auth.secret
    /\ cookie[b].v = auth.version

PasswordLogin == method # "none"

\* _prune: the oldest failures go as long as they are older than the window.
Stale(f, t) == {k \in 0 .. Len(f) : \A i \in 1 .. k : t - f[i] > Window}
Recent(a, t) == SubSeq(failures[a], Max(Stale(failures[a], t)) + 1, Len(failures[a]))
RetryAfterBug(a, t) ==
    LET r == Recent(a, t) IN IF Len(r) < MaxFailures THEN 0 ELSE Window - (t - r[1])
RetryAfter(a, t) ==
    LET r == Recent(a, t) IN IF Len(r) < MaxFailures THEN 0 ELSE Window - (t - r[1]) + 1

\* The first account, from a local address or with the setup token.
Setup(b, c) ==
    /\ method # "none" /\ auth.account = NoOne /\ auth.version < MaxVersion
    /\ Writes(WithAccount(auth, c))
    /\ cookie' = [End(cookie) EXCEPT ![b] = Issue(c)]
    /\ UNCHANGED <<method, sign, failures, now, drawn, retired>>

Login(b, a, c) ==
    /\ PasswordLogin /\ RetryAfter(a, now) = 0
    /\ c = auth.account
    /\ UNCHANGED auth
    /\ cookie' = [cookie EXCEPT ![b] = Issue(c)]
    /\ failures' = [failures EXCEPT ![a] = <<>>]
    /\ UNCHANGED <<saved, method, sign, now, unsaved, drawn, retired>>

FailedLogin(a) ==
    /\ PasswordLogin /\ RetryAfter(a, now) = 0
    /\ failures' = [failures EXCEPT ![a] = Append(Recent(a, now), now)]
    /\ UNCHANGED <<auth, saved, method, cookie, sign, now, unsaved, drawn, retired>>

\* With the current password: other sessions end, this one goes on.
ChangePassword(b, c) ==
    /\ Accepted(b) /\ auth.account # NoOne /\ auth.version < MaxVersion
    /\ Writes(WithAccount(auth, c))
    /\ cookie' = [End(cookie) EXCEPT ![b] = Issue(IF cookie[b].by = "oidc" THEN "oidc" ELSE c)]
    /\ UNCHANGED <<method, sign, failures, now, drawn, retired>>

RevokeSessions(b) ==
    /\ Accepted(b) /\ auth.version < MaxVersion
    /\ Writes(NextVersion(auth))
    /\ cookie' = [End(cookie) EXCEPT ![b] = NoOne]
    /\ UNCHANGED <<method, sign, failures, now, drawn, retired>>

\* It signs out, or its session is older than auth.session_days.
Logout(b) ==
    /\ cookie[b] # NoOne
    /\ cookie' = [cookie EXCEPT ![b] = NoOne]
    /\ UNCHANGED <<auth, saved, method, sign, failures, now, unsaved, drawn, retired>>

RegenerateKey(b) ==
    /\ Accepted(b) /\ drawn < MaxDraws
    /\ Writes([auth EXCEPT !.key = drawn + 1])
    /\ drawn' = drawn + 1
    /\ retired' = retired \union {auth.key}
    /\ UNCHANGED <<method, cookie, sign, failures, now>>
----------------------------------------------------------------------------
(* Single sign-on. *)

OidcEnabled == method = "sso"

\* The redirect to the provider: state, nonce and verifier go into a cookie
\* that replaces the one of another tab.
OidcLogin(b) ==
    /\ OidcEnabled /\ sign[b] = "no"
    /\ sign' = [sign EXCEPT ![b] = "asked"]
    /\ UNCHANGED <<auth, saved, method, cookie, failures, now, unsaved, drawn, retired>>

\* The callback whose state is that of the cookie asks the provider.
OidcCallback(b) ==
    /\ OidcEnabled /\ sign[b] = "asked"
    /\ sign' = [sign EXCEPT ![b] = "waiting"]
    /\ UNCHANGED <<auth, saved, method, cookie, failures, now, unsaved, drawn, retired>>

\* The provider answered with a valid token of an allowed user: the session is
\* of the credential version of now.
OidcComplete(b) ==
    /\ sign[b] = "waiting"
    /\ sign' = [sign EXCEPT ![b] = "no"]
    /\ UNCHANGED auth
    /\ cookie' = [cookie EXCEPT ![b] = Issue("oidc")]
    /\ UNCHANGED <<saved, method, failures, now, unsaved, drawn, retired>>

OidcFail(b) ==
    /\ sign[b] \in {"asked", "waiting"}
    /\ sign' = [sign EXCEPT ![b] = "no"]
    /\ UNCHANGED <<auth, saved, method, cookie, failures, now, unsaved, drawn, retired>>
----------------------------------------------------------------------------
(* The process and its surroundings. *)

\* A new process reads auth.json, or starts with a new state, and writes it;
\* then the account of its environment is set unless it is the account.
Started == IF saved # NoOne THEN saved ELSE Fresh

Restart(env) ==
    /\ saved = NoOne => drawn < MaxDraws
    /\ LET s == Started
           set == env \notin {NoOne, s.account}
       IN /\ set => s.version < MaxVersion
          /\ Writes(IF set THEN WithAccount(s, env) ELSE s)
          /\ cookie' = IF set THEN End(cookie) ELSE cookie
          /\ drawn' = IF saved = NoOne THEN drawn + 1 ELSE drawn
          /\ retired' = IF saved = NoOne THEN retired \union {auth.key} ELSE retired
    /\ sign' = [b \in Browser |-> IF sign[b] = "waiting" THEN "asked" ELSE sign[b]]
    /\ failures' = [a \in Address |-> <<>>]
    /\ UNCHANGED <<method, now>>

\* The file is deleted or cannot be read at the next start.
LoseFile ==
    /\ saved # NoOne
    /\ saved' = NoOne
    /\ UNCHANGED <<auth, method, cookie, sign, failures, now,
                   unsaved, drawn, retired>>

\* Settings of the configuration take effect at once.
Configure(m) ==
    /\ m # method
    /\ method' = m
    /\ UNCHANGED <<auth, saved, cookie, sign, failures, now, unsaved, drawn, retired>>

Tick ==
    /\ now < MaxTime
    /\ now' = now + 1
    /\ UNCHANGED <<auth, saved, method, cookie, sign, failures, unsaved, drawn, retired>>

SignIn(b) == \/ \E c \in Credential : Setup(b, c) \/ \E a \in Address : Login(b, a, c)
             \/ OidcLogin(b) \/ OidcCallback(b) \/ OidcComplete(b) \/ OidcFail(b)
Manage(b) == \/ \E c \in Credential : ChangePassword(b, c)
             \/ RevokeSessions(b) \/ Logout(b) \/ RegenerateKey(b)

Next ==
    \/ \E b \in Browser : SignIn(b) \/ Manage(b)
    \/ \E a \in Address : FailedLogin(a)
    \/ \E env \in Credential \union {NoOne} : Restart(env)
    \/ LoseFile \/ Tick
    \/ \E m \in Methods : Configure(m)

Spec == Init /\ [][Next]_vars
----------------------------------------------------------------------------
(* Properties. *)

TypeOK ==
    /\ auth \in AuthState /\ saved \in AuthState \union {NoOne}
    /\ method \in Methods
    /\ cookie \in [Browser -> Cookie \union {NoOne}]
    /\ sign \in [Browser -> {"no", "asked", "waiting"}]
    /\ failures \in [Address -> Seq(0 .. MaxTime)]
    /\ now \in 0 .. MaxTime
    /\ unsaved \in BOOLEAN /\ drawn \in 0 .. MaxDraws /\ retired \subseteq 0 .. MaxDraws

\* Changing the password and "Sign out all sessions" end every session for
\* good, also across a restart and when auth.json is lost, and a replaced API
\* key does not come back, unless a write of auth.json failed.
EndedStaysEnded ==
    unsaved \/ /\ \A b \in Browser : Accepted(b) => ~cookie[b].ended
               /\ auth.key \notin retired

\* A session of the login page belongs to the account of now.
SessionsAreOfTheAccount ==
    \A b \in Browser : Accepted(b) /\ ~unsaved => cookie[b].by \in {auth.account, "oidc"}

\* An address never has more failures in a window than the limit, and the wait
\* it is told is exact: then it is let in again, one unit earlier it is not.
LockoutIsExact ==
    \A a \in Address :
        LET wait == RetryAfter(a, now) IN
        /\ Len(Recent(a, now)) <= MaxFailures
        /\ wait > 0 => /\ Len(Recent(a, now + wait)) < MaxFailures
                       /\ Len(Recent(a, now + wait - 1)) >= MaxFailures
=============================================================================
