---------------------------- MODULE AuthCodeGrant ----------------------------
(***************************************************************************)
(* Interactive sign-in and the authorization code grant: the authorize     *)
(* endpoint with its sign-in pages and SSO sessions, the                   *)
(* authorization_codes table and its redemption, logout, and the           *)
(* administration of what they rely on (accounts, apps, redirect URIs).    *)
(*                                                                         *)
(* A sign-in page carries the validated request, signed with a key of the  *)
(* running process: `pages` holds those the current process would verify.  *)
(* A browser may post one long after it was shown, when the session, the   *)
(* account, the app or its redirect URI have changed.                      *)
(*                                                                         *)
(* A proof key is what a client knows: its code_verifier, which stands for *)
(* the code_challenge made from it as well.  Requests that end in an error *)
(* page, a redirected error or invalid_client and change nothing are not   *)
(* actions.                                                                *)
(***************************************************************************)
EXTENDS Naturals, FiniteSets

CONSTANTS
    Codes,          \* authorization codes (never drawn twice): the bound on codes
    Sessions,       \* session ids (never drawn twice): the bound on sign-ins
    Users, Apps, Uris, Browsers,
    Proofs,         \* PKCE verifiers
    Confidential,   \* the apps that authenticate with a secret
    CodeLifetime,   \* tokenLifetimes.authCode
    SessionLifetime,
    MaxPages,       \* bound on the sign-in pages in browsers' hands
    MaxTime,        \* bound on the clock
    NoSession, NoProof,
    Undrawn, Gone   \* no row yet, no row any more

VARIABLES
    authorization_codes, \* the table, by primary key
    sessions,       \* the table, by primary key
    accounts,       \* users: "enabled", "disabled" or "absent"
    apps,           \* registered apps
    redirects,      \* app_redirect_uris of each app
    cookie,         \* el_session of each browser
    pages,          \* signed sign-in requests in the hands of browsers
    now,
    granted         \* history: what a code was redeemed for

vars == <<authorization_codes, sessions, accounts, apps, redirects, cookie, pages, now, granted>>

Code == [app : Apps, user : Users, uri : Uris, challenge : Proofs \cup {NoProof},
         expiresAt : Nat, consumed : BOOLEAN]

Session == [user : Users, expiresAt : Nat]

\* A validated authorization request: what the signed state of a page holds.
Request == [app : Apps, uri : Uris, challenge : Proofs \cup {NoProof}]

Worth == [user : Users, app : Apps, uri : Uris]

ASSUME ConstantsAssumption ==
    /\ Confidential \subseteq Apps
    /\ CodeLifetime \in Nat /\ SessionLifetime \in Nat \ {0}
    /\ MaxTime \in Nat /\ MaxPages \in Nat
    /\ NoSession \notin Sessions
    /\ NoProof \notin Proofs
    /\ Undrawn # Gone
    /\ {Undrawn, Gone} \cap (Code \cup Session \cup Worth) = {}

TypeOK ==
    /\ authorization_codes \in [Codes -> Code \cup {Undrawn, Gone}]
    /\ sessions \in [Sessions -> Session \cup {Undrawn, Gone}]
    /\ accounts \in [Users -> {"enabled", "disabled", "absent"}]
    /\ apps \subseteq Apps
    /\ redirects \in [Apps -> SUBSET Uris]
    /\ cookie \in [Browsers -> Sessions \cup {NoSession}]
    /\ pages \subseteq Request
    /\ now \in Nat
    /\ granted \in [Codes -> Worth \cup {Undrawn}]

Init ==
    /\ authorization_codes = [c \in Codes |-> Undrawn]
    /\ sessions = [s \in Sessions |-> Undrawn]
    /\ accounts = [u \in Users |-> "enabled"]
    /\ apps = Apps
    /\ redirects = [a \in Apps |-> Uris]
    /\ cookie = [b \in Browsers |-> NoSession]
    /\ pages = {}
    /\ now = 0
    /\ granted = [c \in Codes |-> Undrawn]

-----------------------------------------------------------------------------
HasCode(c) == authorization_codes[c] \notin {Undrawn, Gone}

HasSession(s) == s \in Sessions /\ sessions[s] \notin {Undrawn, Gone}

RegisteredUri(a, uri) == a \in apps /\ uri \in redirects[a]

\* resolveSession.
LiveSession(s) ==
    /\ HasSession(s)
    /\ now < sessions[s].expiresAt
    /\ accounts[sessions[s].user] = "enabled"

\* validateAuthorize: a public client has to send a code_challenge.
ValidRequest(q) ==
    /\ RegisteredUri(q.app, q.uri)
    /\ q.app \in Confidential \/ q.challenge # NoProof

IssueCode(c, q, u) ==
    /\ authorization_codes[c] = Undrawn
    /\ authorization_codes' = [authorization_codes EXCEPT ![c] =
           [app |-> q.app, user |-> u, uri |-> q.uri, challenge |-> q.challenge,
            expiresAt |-> now + CodeLifetime, consumed |-> FALSE]]

-----------------------------------------------------------------------------
(* GET and POST /authorize *)

SessionSubject(s) == sessions[s].user

\* SSO: no prompt, or prompt=none.
AuthorizeSso(b, q, c) ==
    /\ ValidRequest(q)
    /\ LiveSession(cookie[b])
    /\ IssueCode(c, q, SessionSubject(cookie[b]))
    /\ UNCHANGED <<sessions, accounts, apps, redirects, cookie, pages, now, granted>>

\* The sign-in page: no session, or prompt=login or select_account.
AuthorizePage(q) ==
    /\ ValidRequest(q)
    /\ Cardinality(pages \cup {q}) <= MaxPages
    /\ pages' = pages \cup {q}
    /\ UNCHANGED <<authorization_codes, sessions, accounts, apps, redirects, cookie, now, granted>>

\* The signed state is taken at its word.
StillRegistered_Trusted(q) == q.app \in apps

\* The app and the redirect URI of the signed state are looked up again.
StillRegistered(q) == RegisteredUri(q.app, q.uri)

\* A new session replaces the browser's, and the code is issued.
SignInSubmit(b, q, u, s, c) ==
    /\ q \in pages
    /\ StillRegistered(q)
    /\ accounts[u] = "enabled"
    /\ sessions[s] = Undrawn
    /\ sessions' = [sessions EXCEPT ![s] = [user |-> u, expiresAt |-> now + SessionLifetime]]
    /\ cookie' = [cookie EXCEPT ![b] = s]
    /\ IssueCode(c, q, u)
    /\ UNCHANGED <<accounts, apps, redirects, pages, now, granted>>

\* GET /logout: the session of the cookie, valid or not.
Logout(b) ==
    /\ cookie[b] # NoSession
    /\ sessions' = IF HasSession(cookie[b]) THEN [sessions EXCEPT ![cookie[b]] = Gone] ELSE sessions
    /\ cookie' = [cookie EXCEPT ![b] = NoSession]
    /\ UNCHANGED <<authorization_codes, accounts, apps, redirects, pages, now, granted>>

-----------------------------------------------------------------------------
(* POST /token, grant_type authorization_code *)

\* redeemAuthCode's checks, in a request of app a with redirect_uri and code_verifier.
Redeemable(c, a, uri, proof) ==
    LET row == authorization_codes[c]
    IN  /\ HasCode(c)
        /\ ~row.consumed
        /\ now < row.expiresAt
        /\ row.app = a
        /\ row.uri = uri
        /\ row.challenge # NoProof => proof = row.challenge

\* Looking at the row without marking it.
Consume_Read(c) == UNCHANGED authorization_codes

\* UPDATE ... SET consumed = 1 WHERE consumed = 0.
Consume(c) == authorization_codes' = [authorization_codes EXCEPT ![c].consumed = TRUE]

Redeem(c, a, uri, proof) ==
    /\ a \in apps
    /\ Redeemable(c, a, uri, proof)
    /\ Consume(c)
    /\ granted' = [granted EXCEPT ![c] =
          [user |-> authorization_codes[c].user, app |-> a, uri |-> uri]]
    /\ UNCHANGED <<sessions, accounts, apps, redirects, cookie, pages, now>>

\* The code is consumed before the scope asked for is compared with the one granted:
\* invalid_scope spends it.
RedeemInvalidScope(c, a, uri, proof) ==
    /\ a \in apps
    /\ Redeemable(c, a, uri, proof)
    /\ Consume(c)
    /\ UNCHANGED <<sessions, accounts, apps, redirects, cookie, pages, now, granted>>

-----------------------------------------------------------------------------
(* Administration, restarts and time *)

\* PATCH accountEnabled.
SetEnabled(u, state) ==
    /\ accounts[u] # "absent"
    /\ accounts' = [accounts EXCEPT ![u] = state]
    /\ UNCHANGED <<authorization_codes, sessions, apps, redirects, cookie, pages, now, granted>>

\* DELETE of a user without the foreign key of authorization_codes.
DeleteUser_Unchecked(u) ==
    /\ accounts[u] # "absent"
    /\ accounts' = [accounts EXCEPT ![u] = "absent"]
    /\ sessions' = [s \in Sessions |->
          IF HasSession(s) /\ sessions[s].user = u THEN Gone ELSE sessions[s]]
    /\ UNCHANGED <<authorization_codes, apps, redirects, cookie, pages, now, granted>>

\* DELETE cascades to sessions; the rows of authorization_codes prevent it, consumed
\* and expired ones as well.
DeleteUser(u) ==
    /\ accounts[u] # "absent"
    /\ \A c \in Codes : HasCode(c) => authorization_codes[c].user # u
    /\ accounts' = [accounts EXCEPT ![u] = "absent"]
    /\ sessions' = [s \in Sessions |->
          IF HasSession(s) /\ sessions[s].user = u THEN Gone ELSE sessions[s]]
    /\ UNCHANGED <<authorization_codes, apps, redirects, cookie, pages, now, granted>>

\* DELETE cascades to the redirect URIs.
DeleteApp(a) ==
    /\ a \in apps
    /\ \A c \in Codes : HasCode(c) => authorization_codes[c].app # a
    /\ apps' = apps \ {a}
    /\ redirects' = [redirects EXCEPT ![a] = {}]
    /\ UNCHANGED <<authorization_codes, sessions, accounts, cookie, pages, now, granted>>

\* Codes already issued to the URI stay redeemable.
RemoveRedirectUri(a, uri) ==
    /\ RegisteredUri(a, uri)
    /\ redirects' = [redirects EXCEPT ![a] = @ \ {uri}]
    /\ UNCHANGED <<authorization_codes, sessions, accounts, apps, cookie, pages, now, granted>>

AddRedirectUri(a, uri) ==
    /\ a \in apps /\ uri \notin redirects[a]
    /\ redirects' = [redirects EXCEPT ![a] = @ \cup {uri}]
    /\ UNCHANGED <<authorization_codes, sessions, accounts, apps, cookie, pages, now, granted>>

\* POST /admin/api/reset: the process, and so the signing key of pages, lives on.
Reset(reseed) ==
    /\ authorization_codes' =
          [c \in Codes |-> IF HasCode(c) THEN Gone ELSE authorization_codes[c]]
    /\ sessions' = [s \in Sessions |-> IF HasSession(s) THEN Gone ELSE sessions[s]]
    /\ accounts' = [u \in Users |-> IF reseed THEN "enabled" ELSE "absent"]
    /\ apps' = IF reseed THEN Apps ELSE {}
    /\ redirects' = [a \in Apps |-> IF reseed THEN Uris ELSE {}]
    /\ UNCHANGED <<cookie, pages, now, granted>>

\* POST /admin/api/seed with force: INSERT OR IGNORE of the seeded rows.
Seed ==
    /\ accounts' = [u \in Users |-> IF accounts[u] = "absent" THEN "enabled" ELSE accounts[u]]
    /\ apps' = Apps
    /\ redirects' = [a \in Apps |-> Uris]
    /\ UNCHANGED <<authorization_codes, sessions, cookie, pages, now, granted>>

Restart ==
    /\ pages' = {}
    /\ UNCHANGED <<authorization_codes, sessions, accounts, apps, redirects, cookie, now, granted>>

Tick ==
    /\ now < MaxTime
    /\ now' = now + 1
    /\ UNCHANGED <<authorization_codes, sessions, accounts, apps, redirects, cookie, pages, granted>>

-----------------------------------------------------------------------------
Next ==
    \/ \E b \in Browsers, q \in Request, c \in Codes : AuthorizeSso(b, q, c)
    \/ \E q \in Request : AuthorizePage(q)
    \/ \E b \in Browsers, q \in pages, u \in Users, s \in Sessions, c \in Codes :
            SignInSubmit(b, q, u, s, c)
    \/ \E b \in Browsers : Logout(b)
    \/ \E c \in Codes, a \in Apps, uri \in Uris, proof \in Proofs \cup {NoProof} :
            Redeem(c, a, uri, proof)
    \/ \E c \in Codes, a \in Apps, uri \in Uris, proof \in Proofs \cup {NoProof} :
            RedeemInvalidScope(c, a, uri, proof)
    \/ \E u \in Users, state \in {"enabled", "disabled"} : SetEnabled(u, state)
    \/ \E u \in Users : DeleteUser(u)
    \/ \E a \in Apps : DeleteApp(a)
    \/ \E a \in Apps, uri \in Uris : RemoveRedirectUri(a, uri)
    \/ \E a \in Apps, uri \in Uris : AddRedirectUri(a, uri)
    \/ \E reseed \in BOOLEAN : Reset(reseed)
    \/ Seed
    \/ Restart
    \/ Tick

Spec == Init /\ [][Next]_vars

-----------------------------------------------------------------------------
(* Properties *)

\* A code whose row exists names a user and an app that exist: the redemption that has
\* consumed a code never finds its user gone, although accounts are deleted and reset
\* while codes are open.
CodesReferToDirectory ==
    \A c \in Codes : HasCode(c) =>
        /\ accounts[authorization_codes[c].user] # "absent"
        /\ authorization_codes[c].app \in apps

\* Every variable has its type, and no code outlives what it names.
CodesSound == TypeOK /\ CodesReferToDirectory

\* A code is only ever issued for a user whose account is enabled and to a redirect URI
\* registered for the app at that moment, and it leaves the browser in a live session of
\* that user: however old the page it came from.
IssuedToSignedIn ==
    \A c \in Codes :
        (authorization_codes[c] = Undrawn /\ authorization_codes'[c] # Undrawn)
        => LET row == authorization_codes'[c]
           IN  /\ accounts[row.user] = "enabled"
               /\ RegisteredUri(row.app, row.uri)
               /\ \E b \in Browsers :
                     /\ cookie'[b] \in Sessions
                     /\ sessions'[cookie'[b]] \in Session
                     /\ sessions'[cookie'[b]].user = row.user
                     /\ now < sessions'[cookie'[b]].expiresAt

\* The same of every step: see IssuedToSignedIn.
CodesFollowSignIn == [][IssuedToSignedIn]_vars

\* What a code is worth while it can still be redeemed.
OpenCodes == [c \in Codes |->
    IF HasCode(c) /\ ~authorization_codes[c].consumed
    THEN [user |-> authorization_codes[c].user, app |-> authorization_codes[c].app,
          uri |-> authorization_codes[c].uri]
    ELSE Undrawn]

OneTimeCodes == INSTANCE AuthorizationCode WITH open <- OpenCodes, Nothing <- Undrawn

\* Each code is worth tokens once at most, and for what it was issued for: see
\* AuthorizationCode.
ImplementsAuthorizationCode == OneTimeCodes!Spec
=============================================================================
