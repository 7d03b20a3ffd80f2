--------------------------- MODULE RefreshTokens ---------------------------
(***************************************************************************)
(* Refresh tokens: the refresh_tokens table, the rotation service over it  *)
(* and the part of the token endpoint that delivers a token to a client.   *)
(*                                                                         *)
(* A handler runs without interruption up to the await in                  *)
(* buildTokenResponse (the access token is being signed) and is resumed    *)
(* later, so a request is two steps here: the one that changes the         *)
(* database (RedeemRotate, BeginGrant) and the one that answers.  Anything *)
(* may happen in between: another redemption of the same chain, an admin   *)
(* reset or deletion, a crash of the process.                              *)
(*                                                                         *)
(* Requests refused before anything is written (unknown, expired or        *)
(* foreign token, over-broad scope) leave every variable unchanged and are *)
(* not actions of their own.                                               *)
(***************************************************************************)
EXTENDS Naturals

CONSTANTS
    Tokens,         \* opaque values the random generator may draw; finite: the bound on issued tokens
    Users,          \* ids of the seeded users
    Apps,           \* ids of the seeded app registrations
    Scopes,         \* scope identifiers a grant may hold
    OfflineScopes,  \* those whose bare name is offline_access
    Requests,       \* slots for requests being served at once: the bound on concurrency
    Lifetime,       \* tokenLifetimes.refreshToken
    MaxTime,        \* bound on the clock
    NoToken, NoRow, Idle

VARIABLES
    refresh_tokens, \* the table, by primary key (the token's hash); NoRow where there is none
    directory,      \* ids with a row in users or app_registrations
    now,            \* clock()
    inflight,       \* the arguments of each suspended buildTokenResponse call
    held,           \* tokens that have reached a client
    root,           \* history: the first token of the chain a token was drawn for
    replayed        \* history: chains (by root) in which a revoked token was presented

vars == <<refresh_tokens, directory, now, inflight, held, root, replayed>>

Grants == SUBSET Scopes

Row == [app : Apps, user : Users, scopes : Grants, expiresAt : Nat,
        rotatedFrom : Tokens \cup {NoToken}, revoked : BOOLEAN, createdAt : Nat]

Request == [app : Apps, user : Users, scopes : Grants,
            refreshToken : Tokens \cup {NoToken}]

ASSUME ConstantsAssumption ==
    /\ OfflineScopes \subseteq Scopes
    /\ Lifetime \in Nat
    /\ MaxTime \in Nat
    /\ NoToken \notin Tokens
    /\ NoRow \notin Row
    /\ Idle \notin Request

TypeOK ==
    /\ refresh_tokens \in [Tokens -> Row \cup {NoRow}]
    /\ directory \subseteq Users \cup Apps
    /\ now \in Nat
    /\ inflight \in [Requests -> Request \cup {Idle}]
    /\ held \subseteq Tokens
    /\ root \in [Tokens -> Tokens \cup {NoToken}]
    /\ replayed \subseteq Tokens \cup {NoToken}

Init ==
    /\ refresh_tokens = [t \in Tokens |-> NoRow]
    /\ directory = Users \cup Apps
    /\ now = 0
    /\ inflight = [r \in Requests |-> Idle]
    /\ held = {}
    /\ root = [t \in Tokens |-> NoToken]
    /\ replayed = {}

-----------------------------------------------------------------------------
Exists(t) == refresh_tokens[t] # NoRow

Live(t) == Exists(t) /\ ~refresh_tokens[t].revoked

\* 256 random bits: a value is never drawn twice.
Fresh == {t \in Tokens : root[t] = NoToken}

CarriesOfflineAccess(S) == S \cap OfflineScopes # {}

\* The row insertRow writes; the INSERT fails unless both foreign keys resolve.
NewRow(a, u, S, parent) ==
    [app |-> a, user |-> u, scopes |-> S, expiresAt |-> now + Lifetime,
     rotatedFrom |-> parent, revoked |-> FALSE, createdAt |-> now]

\* `expiresAt < now` for `expiresAt <= now`.
RedeemableUntilTheLastSecond(t, a, requested) ==
    /\ Live(t)
    /\ now <= refresh_tokens[t].expiresAt
    /\ refresh_tokens[t].app = a
    /\ requested \subseteq refresh_tokens[t].scopes

\* The service's checks.
Redeemable(t, a, requested) ==
    /\ Live(t)
    /\ now < refresh_tokens[t].expiresAt
    /\ refresh_tokens[t].app = a
    /\ requested \subseteq refresh_tokens[t].scopes

\* The service's answer carries the scopes asked for, or all of them.
Granted(t, requested) ==
    IF requested = {} THEN refresh_tokens[t].scopes ELSE requested

\* A rotation that forgets to revoke the presented token.
RotateWithoutRevoking(t, n, S) ==
    refresh_tokens' = [refresh_tokens EXCEPT
        ![n] = NewRow(refresh_tokens[t].app, refresh_tokens[t].user, S, t)]

\* The presented token is revoked and its successor inserted, in one transaction.
Rotate(t, n, S) ==
    refresh_tokens' = [refresh_tokens EXCEPT
        ![t].revoked = TRUE,
        ![n] = NewRow(refresh_tokens[t].app, refresh_tokens[t].user, S, t)]

\* The successor goes into the answer only if the narrowed grant keeps offline_access.
SuccessorEmbedded(n, S) == IF CarriesOfflineAccess(S) THEN n ELSE NoToken

\* b's row points back at a: the edge revokeFamily walks in both directions.
Link(a, b) == Exists(b) /\ refresh_tokens[b].rotatedFrom = a

\* A walk from a token to its descendants only.
ClosedUnderDescendants(C) == \A a, b \in Tokens : Link(a, b) => (a \in C => b \in C)

ChainClosed(C) == \A a, b \in Tokens : Link(a, b) => (a \in C <=> b \in C)

\* The `seen` set the walk from t ends with: the least closed set that holds t.
Family(t) ==
    {s \in Tokens : \A C \in SUBSET Tokens : t \in C /\ ChainClosed(C) => s \in C}

\* Revoking the presented token and its parent alone, or everything the user has at
\* the app.
RevokeParentAlso(t) ==
    refresh_tokens' = [s \in Tokens |->
        IF Exists(s) /\ (s = t \/ s = refresh_tokens[t].rotatedFrom)
        THEN [refresh_tokens[s] EXCEPT !.revoked = TRUE]
        ELSE refresh_tokens[s]]

RevokeOfUserAndApp(t) ==
    refresh_tokens' = [s \in Tokens |->
        IF Exists(s) /\ refresh_tokens[s].user = refresh_tokens[t].user
                     /\ refresh_tokens[s].app = refresh_tokens[t].app
        THEN [refresh_tokens[s] EXCEPT !.revoked = TRUE]
        ELSE refresh_tokens[s]]

RevokeFamily(t) ==
    refresh_tokens' = [s \in Tokens |->
        IF s \in Family(t) /\ Exists(s)
        THEN [refresh_tokens[s] EXCEPT !.revoked = TRUE]
        ELSE refresh_tokens[s]]

-----------------------------------------------------------------------------
\* An authorization code or an approved device code has been redeemed for u at a
\* and the response builder has been called (its refreshToken argument is absent).
BeginGrant(r, a, u, S) ==
    /\ inflight[r] = Idle
    /\ {a, u} \subseteq directory
    /\ inflight' = [inflight EXCEPT ![r] =
                        [app |-> a, user |-> u, scopes |-> S, refreshToken |-> NoToken]]
    /\ UNCHANGED <<refresh_tokens, directory, now, held, root, replayed>>

\* A redemption that succeeds.  The user is looked up only after the rotation.
RedeemRotate(r, t, a, requested, n) ==
    LET row == refresh_tokens[t]
        granted == Granted(t, requested)
    IN  /\ inflight[r] = Idle
        /\ t \in held
        /\ a \in directory
        /\ Redeemable(t, a, requested)
        /\ n \in Fresh
        /\ Rotate(t, n, granted)
        /\ root' = [root EXCEPT ![n] = root[t]]
        /\ inflight' = IF row.user \in directory
                       THEN [inflight EXCEPT ![r] =
                              [app |-> row.app, user |-> row.user, scopes |-> granted,
                               refreshToken |-> SuccessorEmbedded(n, granted)]]
                       ELSE inflight
        /\ UNCHANGED <<directory, now, held, replayed>>

\* A revoked token is presented by some client: its whole chain is revoked.  The
\* check comes before expiry and before the client binding.
RedeemReplay(t) ==
    /\ t \in held
    /\ directory \cap Apps # {}
    /\ Exists(t) /\ refresh_tokens[t].revoked
    /\ RevokeFamily(t)
    /\ replayed' = replayed \cup {root[t]}
    /\ UNCHANGED <<directory, now, inflight, held, root>>

\* The answer leaves the server; a client whose connection is gone never gets it.
Deliver(t) == held' = held \/ held' = held \cup {t}

Answered(r) == inflight' = [inflight EXCEPT ![r] = Idle]

\* The pre-issued successor is embedded verbatim.
AnswerRotated(r) ==
    /\ inflight[r] # Idle
    /\ inflight[r].refreshToken # NoToken
    /\ Deliver(inflight[r].refreshToken)
    /\ Answered(r)
    /\ UNCHANGED <<refresh_tokens, directory, now, root, replayed>>

NeedsRoot(r) ==
    /\ inflight[r] # Idle
    /\ inflight[r].refreshToken = NoToken
    /\ CarriesOfflineAccess(inflight[r].scopes)

\* A new chain starts: the resumed builder issues the first refresh token.
AnswerIssued(r, n) ==
    LET q == inflight[r]
    IN  /\ NeedsRoot(r)
        /\ {q.app, q.user} \subseteq directory
        /\ n \in Fresh
        /\ refresh_tokens' = [refresh_tokens EXCEPT
                                 ![n] = NewRow(q.app, q.user, q.scopes, NoToken)]
        /\ root' = [root EXCEPT ![n] = n]
        /\ Deliver(n)
        /\ Answered(r)
        /\ UNCHANGED <<directory, now, replayed>>

\* The call throws and the request ends in an error: an INSERT whose user or app has
\* gone meanwhile, or a mint that finds no active signing key (module SigningKeys).
AnswerFailed(r) ==
    /\ inflight[r] # Idle
    /\ Answered(r)
    /\ UNCHANGED <<refresh_tokens, directory, now, held, root, replayed>>

\* The grant does not carry offline_access: no refresh token in the answer.
AnswerWithout(r) ==
    /\ inflight[r] # Idle
    /\ inflight[r].refreshToken = NoToken
    /\ ~CarriesOfflineAccess(inflight[r].scopes)
    /\ Answered(r)
    /\ UNCHANGED <<refresh_tokens, directory, now, held, root, replayed>>

-----------------------------------------------------------------------------
\* Deleting a user or an app without the foreign keys.
DeleteUnchecked(p) ==
    /\ p \in directory
    /\ directory' = directory \ {p}
    /\ UNCHANGED <<refresh_tokens, now, inflight, held, root, replayed>>

\* DELETE /admin/api/users/:id or /apps/:id; the foreign keys of refresh_tokens
\* have no ON DELETE clause, so a referenced row cannot go.
DeletePrincipal(p) ==
    /\ p \in directory
    /\ \A t \in Tokens : Exists(t) => p \notin {refresh_tokens[t].app, refresh_tokens[t].user}
    /\ directory' = directory \ {p}
    /\ UNCHANGED <<refresh_tokens, now, inflight, held, root, replayed>>

\* POST /admin/api/reset: every data table is emptied, then the seed is re-applied
\* on request.  Suspended requests are not told.
Reset(reseed) ==
    /\ refresh_tokens' = [t \in Tokens |-> NoRow]
    /\ directory' = IF reseed THEN Users \cup Apps ELSE {}
    /\ UNCHANGED <<now, inflight, held, root, replayed>>

\* POST /admin/api/seed with force: INSERT OR IGNORE of the seeded rows.
Seed ==
    /\ directory' = Users \cup Apps
    /\ UNCHANGED <<refresh_tokens, now, inflight, held, root, replayed>>

\* The process dies and is started again on the same database file.
Crash ==
    /\ inflight' = [r \in Requests |-> Idle]
    /\ UNCHANGED <<refresh_tokens, directory, now, held, root, replayed>>

Tick ==
    /\ now < MaxTime
    /\ now' = now + 1
    /\ UNCHANGED <<refresh_tokens, directory, inflight, held, root, replayed>>

Next ==
    \/ \E r \in Requests, a \in Apps, u \in Users, S \in Grants : BeginGrant(r, a, u, S)
    \/ \E r \in Requests, t \in Tokens, a \in Apps, S \in Grants, n \in Tokens :
            RedeemRotate(r, t, a, S, n)
    \/ \E t \in Tokens : RedeemReplay(t)
    \/ \E r \in Requests : AnswerRotated(r)
    \/ \E r \in Requests, n \in Tokens : AnswerIssued(r, n)
    \/ \E r \in Requests : AnswerFailed(r)
    \/ \E r \in Requests : AnswerWithout(r)
    \/ \E p \in Users \cup Apps : DeletePrincipal(p)
    \/ \E reseed \in BOOLEAN : Reset(reseed)
    \/ Seed
    \/ Crash
    \/ Tick

Spec == Init /\ [][Next]_vars

-----------------------------------------------------------------------------
(* Properties *)

\* A sign-in never has two redeemable refresh tokens, whatever is redeemed,
\* replayed or lost, and in whatever order: rotate's compare-and-set.
OneLivePerChain ==
    \A s, t \in Tokens : Live(s) /\ Live(t) /\ root[s] = root[t] => s = t

\* Once a revoked token of a chain has been presented, no token of that chain is
\* redeemable again: also not the successor of a rotation still being answered.
ReplayedChainIsDead ==
    \A t \in Tokens : Live(t) => root[t] \notin replayed

\* The walk of revokeFamily finds the whole chain of the presented token and
\* nothing else: independent sign-ins of the same user and app are not affected.
FamilyIsChain ==
    \A t \in Tokens : Exists(t) =>
        Family(t) = {s \in Tokens : Exists(s) /\ root[s] = root[t]}

\* s keeps p's binding to app and user, gains no scope, and was issued while p was
\* still valid.
NarrowsFrom(s, p) ==
    LET row == refresh_tokens[s]
        parent == refresh_tokens[p]
    IN  /\ Exists(p)
        /\ parent.revoked
        /\ row.app = parent.app
        /\ row.user = parent.user
        /\ row.scopes \subseteq parent.scopes
        /\ parent.createdAt <= row.createdAt
        /\ row.createdAt < parent.expiresAt

\* A rotation keeps the binding to app and user, never gains a scope, and happened
\* while the rotated token was still valid; what it rotated is never redeemable again.
RotationNarrows ==
    \A t \in Tokens : Exists(t) /\ refresh_tokens[t].rotatedFrom # NoToken =>
        NarrowsFrom(t, refresh_tokens[t].rotatedFrom)

\* A client only ever holds refresh tokens whose grant carries offline_access, both
\* from a first issue and from a narrowed rotation.
HeldCarriesOfflineAccess ==
    \A t \in held : Exists(t) => CarriesOfflineAccess(refresh_tokens[t].scopes)

\* Every row refers to a user and an app that exist, although requests suspended
\* across a deletion or a reset still insert rows afterwards; so the redemption that
\* has rotated never fails to find its user.
RowsReferToDirectory ==
    \A t \in Tokens : Exists(t) =>
        {refresh_tokens[t].app, refresh_tokens[t].user} \subseteq directory

\* What rows and clients hold, and the shape of the chains, as one invariant each: no row
\* without its user or app and no token in a client's hands that offline_access did not pay
\* for; one redeemable token in each chain, and a walk that finds the chain.
RowsSound == TypeOK /\ RowsReferToDirectory /\ HeldCarriesOfflineAccess

ChainsSound == OneLivePerChain /\ FamilyIsChain

\* A redeemable token stops being redeemable only because it was rotated into a
\* redeemable successor, because its own chain was replayed, or by a reset: never
\* by what happens to another sign-in of the same user and app.
ChainEndsForCause ==
    [][\A t \in Tokens : Live(t) /\ ~Live(t)' =>
          \/ \E n \in Tokens : Live(n)' /\ refresh_tokens'[n].rotatedFrom = t
          \/ root[t] \in replayed'
          \/ \A s \in Tokens : refresh_tokens'[s] = NoRow]_vars

\* The table with its rotation service implements single-use renewable chains: see
\* RotationChain.  A chain is named by its first token.
Redeemables == [c \in Tokens |-> {t \in Tokens : Live(t) /\ root[t] = c}]

Chains == INSTANCE RotationChain WITH redeemable <- Redeemables, used <- Tokens \ Fresh

\* Every step opens a chain, renews one, ends one, ends all, or changes no chain.
ImplementsRotationChain == Chains!Spec
=============================================================================
