----------------------------- MODULE DeviceGrant -----------------------------
(***************************************************************************)
(* The device authorization grant: the device_codes and sessions tables,   *)
(* the approval pages (lookup, signin, decide) and the polling grant.      *)
(*                                                                         *)
(* The approval pages carry a state signed with a key of the running       *)
(* process.  `pages` holds the states the current process would verify: a  *)
(* restart empties it.  A browser may post any of them at any time, in any *)
(* order, with whatever session cookie it has by then.                     *)
(*                                                                         *)
(* Requests that are answered with an error page or authorization_pending  *)
(* and change nothing are not actions.                                     *)
(***************************************************************************)
EXTENDS Naturals

CONSTANTS
    Codes,          \* device codes (opaque, never drawn twice): bounds the requests
    UserCodes,      \* the codes people type; drawn again once their row is gone
    Users, Apps,
    Sessions,       \* session ids (never drawn twice): bounds the sign-ins
    Browsers,
    DeviceLifetime, \* tokenLifetimes.deviceCode
    SessionLifetime,
    MaxTime,        \* bound on the clock
    NoUser, NoSession,
    Undrawn, Gone   \* no row yet, no row any more

VARIABLES
    device_codes,   \* the table, by primary key
    sessions,       \* the table, by primary key
    accounts,       \* users: "enabled", "disabled" or "absent"
    apps,           \* registered apps
    cookie,         \* el_session of each browser
    pages,          \* signed states in the hands of browsers
    now,
    answering,      \* redeemed codes whose token response is being built
    granted,        \* history: for whom a code was redeemed
    answers         \* what the polling client has been told, authorization_pending apart

vars == <<device_codes, sessions, accounts, apps, cookie, pages, now, answering, granted, answers>>

Code == [user_code : UserCodes, app : Apps, user : Users \cup {NoUser},
         status : {"pending", "approved", "denied"}, expiresAt : Nat]

Session == [user : Users, expiresAt : Nat]

Page == [userCode : UserCodes, sid : Sessions \cup {NoSession}]

ASSUME ConstantsAssumption ==
    /\ DeviceLifetime \in Nat /\ SessionLifetime \in Nat /\ MaxTime \in Nat
    /\ NoUser \notin Users
    /\ NoSession \notin Sessions
    /\ {Undrawn, Gone} \cap (Code \cup Session) = {}
    /\ Undrawn # Gone

TypeOK ==
    /\ device_codes \in [Codes -> Code \cup {Undrawn, Gone}]
    /\ sessions \in [Sessions -> Session \cup {Undrawn, Gone}]
    /\ accounts \in [Users -> {"enabled", "disabled", "absent"}]
    /\ apps \subseteq Apps
    /\ cookie \in [Browsers -> Sessions \cup {NoSession}]
    /\ pages \subseteq Page
    /\ now \in Nat
    /\ answering \subseteq Codes
    /\ granted \in [Codes -> Users \cup {NoUser}]
    /\ answers \in [Codes -> SUBSET {"tokens", "denied", "expired", "refused"}]

Init ==
    /\ device_codes = [c \in Codes |-> Undrawn]
    /\ sessions = [s \in Sessions |-> Undrawn]
    /\ accounts = [u \in Users |-> "enabled"]
    /\ apps = Apps
    /\ cookie = [b \in Browsers |-> NoSession]
    /\ pages = {}
    /\ now = 0
    /\ answering = {}
    /\ granted = [c \in Codes |-> NoUser]
    /\ answers = [c \in Codes |-> {}]

-----------------------------------------------------------------------------
HasRow(c) == device_codes[c] \notin {Undrawn, Gone}

\* Codes and session ids are random: which of those not drawn yet it is makes no difference.
IsNext(table, x) == table[x] = Undrawn /\ x = CHOOSE y \in DOMAIN table : table[y] = Undrawn

HasSession(s) == s \in Sessions /\ sessions[s] \notin {Undrawn, Gone}

Expired(c) == device_codes[c].expiresAt <= now

\* loadPendingByUserCode; the UPDATEs that follow repeat its check on status.
Undecided(c) == HasRow(c) /\ ~Expired(c) /\ device_codes[c].status = "pending"

\* resolveSession.
LiveSession(s) ==
    /\ HasSession(s)
    /\ now < sessions[s].expiresAt
    /\ accounts[sessions[s].user] = "enabled"

Remove(c) == device_codes' = [device_codes EXCEPT ![c] = Gone]

Told(c, a) == answers' = [answers EXCEPT ![c] =
    IF a = "refused" /\ @ # {} THEN @ ELSE (@ \ {"refused"}) \cup {a}]

-----------------------------------------------------------------------------
(* POST /devicecode *)

\* Drawing a user code without looking for a row that has it.
AnyUserCode(k) == k \in UserCodes

\* userCodeExists, and the UNIQUE constraint if ten draws collide.
UnusedUserCode(k) ==
    k \in UserCodes /\ \A d \in Codes : HasRow(d) => device_codes[d].user_code # k

\* The guard on the clock bounds the model: every code it issues can expire in it.
Authorize(c, k, a) ==
    /\ a \in apps
    /\ IsNext(device_codes, c)
    /\ UnusedUserCode(k)
    /\ now + DeviceLifetime <= MaxTime
    /\ device_codes' = [device_codes EXCEPT ![c] =
           [user_code |-> k, app |-> a, user |-> NoUser, status |-> "pending",
            expiresAt |-> now + DeviceLifetime]]
    /\ UNCHANGED <<sessions, accounts, apps, cookie, pages, now, answering, granted, answers>>

-----------------------------------------------------------------------------
(* POST /devicecode/verify *)

\* Every step drops a row it finds expired.
DropExpired(c) ==
    /\ HasRow(c) /\ Expired(c)
    /\ Remove(c)
    /\ UNCHANGED <<sessions, accounts, apps, cookie, pages, now, answering, granted, answers>>

\* Consent for a live session, the sign-in page (with an empty sid) otherwise.
Lookup(b, c) ==
    /\ Undecided(c)
    /\ pages' = pages \cup
          {[userCode |-> device_codes[c].user_code,
            sid |-> IF LiveSession(cookie[b]) THEN cookie[b] ELSE NoSession]}
    /\ UNCHANGED <<device_codes, sessions, accounts, apps, cookie, now, answering, granted, answers>>

\* The state's sid is not looked at; a new session replaces the browser's.
Signin(b, p, c, u, s) ==
    /\ p \in pages
    /\ device_codes[c] \in Code /\ device_codes[c].user_code = p.userCode
    /\ Undecided(c)
    /\ accounts[u] = "enabled"
    /\ IsNext(sessions, s)
    /\ sessions' = [sessions EXCEPT ![s] = [user |-> u, expiresAt |-> now + SessionLifetime]]
    /\ cookie' = [cookie EXCEPT ![b] = s]
    /\ pages' = pages \cup {[userCode |-> p.userCode, sid |-> s]}
    /\ UNCHANGED <<device_codes, accounts, apps, now, answering, granted, answers>>

\* A page from any session is good enough.
Verified_AnySession(b, p) == p \in pages /\ LiveSession(cookie[b])

\* The page must come from the session the browser is in.
Verified(b, p) == p \in pages /\ LiveSession(cookie[b]) /\ p.sid = cookie[b]

Approver(b) == sessions[cookie[b]].user

Decide(b, p, c, decision) ==
    /\ Verified(b, p)
    /\ HasRow(c) /\ device_codes[c].user_code = p.userCode
    /\ Undecided(c)
    /\ \/ /\ decision = "approve"
          /\ device_codes' = [device_codes EXCEPT
                 ![c].status = "approved", ![c].user = Approver(b)]
       \/ /\ decision = "deny"
          /\ device_codes' = [device_codes EXCEPT ![c].status = "denied"]
    /\ UNCHANGED <<sessions, accounts, apps, cookie, pages, now, answering, granted, answers>>

\* GET /logout: the session of the cookie, valid or not.
Logout(b) ==
    /\ cookie[b] # NoSession
    /\ sessions' = IF HasSession(cookie[b]) THEN [sessions EXCEPT ![cookie[b]] = Gone] ELSE sessions
    /\ cookie' = [cookie EXCEPT ![b] = NoSession]
    /\ UNCHANGED <<device_codes, accounts, apps, pages, now, answering, granted, answers>>

-----------------------------------------------------------------------------
(* POST /token, grant_type device_code *)

\* The client of a code that has been drawn and belongs to an app that still exists.
Polls(c) == HasRow(c) /\ device_codes[c].app \in apps

\* Expiry looked at for decided requests only.
PollExpired_Decided(c) ==
    /\ Polls(c) /\ Expired(c) /\ device_codes[c].status # "pending"
    /\ Remove(c)
    /\ Told(c, "expired")
    /\ UNCHANGED <<sessions, accounts, apps, cookie, pages, now, answering, granted>>

PollExpired(c) ==
    /\ Polls(c) /\ Expired(c)
    /\ Remove(c)
    /\ Told(c, "expired")
    /\ UNCHANGED <<sessions, accounts, apps, cookie, pages, now, answering, granted>>

PollDenied(c) ==
    /\ Polls(c) /\ ~Expired(c) /\ device_codes[c].status = "denied"
    /\ Remove(c)
    /\ Told(c, "denied")
    /\ UNCHANGED <<sessions, accounts, apps, cookie, pages, now, answering, granted>>

\* The approved row is read but not deleted.
ConsumeApproved_Read(c) == device_codes[c].status = "approved" /\ UNCHANGED device_codes

\* DELETE ... RETURNING: read and removed at once.
ConsumeApproved(c) == device_codes[c].status = "approved" /\ Remove(c)

\* The user is looked up after the row is gone.
PollApproved(c) ==
    LET u == device_codes[c].user
    IN  /\ Polls(c) /\ ~Expired(c)
        /\ ConsumeApproved(c)
        /\ \/ /\ u \in Users /\ accounts[u] = "enabled"
              /\ granted' = [granted EXCEPT ![c] = u]
              /\ answering' = answering \cup {c}
              /\ UNCHANGED answers
           \/ /\ u \notin Users \/ accounts[u] # "enabled"
              /\ Told(c, "refused")
              /\ UNCHANGED <<granted, answering>>
        /\ UNCHANGED <<sessions, accounts, apps, cookie, pages, now>>

\* invalid_grant for a code without a row, invalid_client for an app that is gone.
PollRefused(c) ==
    /\ device_codes[c] # Undrawn
    /\ ~Polls(c)
    /\ Told(c, "refused")
    /\ UNCHANGED <<device_codes, sessions, accounts, apps, cookie, pages, now, answering, granted>>

Poll(c) == PollExpired(c) \/ PollDenied(c) \/ PollApproved(c) \/ PollRefused(c)

\* The response is complete, or building it failed, or it never arrives.
Answer(c) ==
    /\ c \in answering
    /\ answering' = answering \ {c}
    /\ Told(c, "tokens") \/ Told(c, "refused") \/ UNCHANGED answers
    /\ UNCHANGED <<device_codes, sessions, accounts, apps, cookie, pages, now, granted>>

-----------------------------------------------------------------------------
(* Administration, restarts and time *)

\* PATCH accountEnabled, and DELETE with the cascade to sessions.
SetAccount(u, state) ==
    /\ accounts[u] # "absent" /\ accounts[u] # state
    /\ accounts' = [accounts EXCEPT ![u] = state]
    /\ sessions' = [s \in Sessions |->
          IF state = "absent" /\ HasSession(s) /\ sessions[s].user = u THEN Gone ELSE sessions[s]]
    /\ UNCHANGED <<device_codes, apps, cookie, pages, now, answering, granted, answers>>

\* The foreign key of device_codes keeps an app with open requests.
DeleteApp(a) ==
    /\ a \in apps
    /\ \A c \in Codes : HasRow(c) => device_codes[c].app # a
    /\ apps' = apps \ {a}
    /\ UNCHANGED <<device_codes, sessions, accounts, cookie, pages, now, answering, granted, answers>>

\* POST /admin/api/reset: the process, and so the signing key of pages, lives on.
Reset(reseed) ==
    /\ device_codes' = [c \in Codes |-> IF HasRow(c) THEN Gone ELSE device_codes[c]]
    /\ sessions' = [s \in Sessions |-> IF HasSession(s) THEN Gone ELSE sessions[s]]
    /\ accounts' = [u \in Users |-> IF reseed THEN "enabled" ELSE "absent"]
    /\ apps' = IF reseed THEN Apps ELSE {}
    /\ UNCHANGED <<cookie, pages, now, answering, granted, answers>>

\* POST /admin/api/seed with force: INSERT OR IGNORE of the seeded rows.
Seed ==
    /\ accounts' = [u \in Users |-> IF accounts[u] = "absent" THEN "enabled" ELSE accounts[u]]
    /\ apps' = Apps
    /\ UNCHANGED <<device_codes, sessions, cookie, pages, now, answering, granted, answers>>

Restart ==
    /\ pages' = {}
    /\ answering' = {}
    /\ UNCHANGED <<device_codes, sessions, accounts, apps, cookie, now, granted, answers>>

Tick ==
    /\ now < MaxTime
    /\ now' = now + 1
    /\ UNCHANGED <<device_codes, sessions, accounts, apps, cookie, pages, answering, granted, answers>>

-----------------------------------------------------------------------------
Next ==
    \/ \E c \in Codes, k \in UserCodes, a \in Apps : Authorize(c, k, a)
    \/ \E c \in Codes : DropExpired(c)
    \/ \E b \in Browsers, c \in Codes : Lookup(b, c)
    \/ \E b \in Browsers, p \in pages, c \in Codes, u \in Users, s \in Sessions : Signin(b, p, c, u, s)
    \/ \E b \in Browsers, p \in pages, c \in Codes, decision \in {"approve", "deny"} :
            Decide(b, p, c, decision)
    \/ \E b \in Browsers : Logout(b)
    \/ \E c \in Codes : PollExpired(c)
    \/ \E c \in Codes : PollDenied(c)
    \/ \E c \in Codes : PollApproved(c)
    \/ \E c \in Codes : PollRefused(c)
    \/ \E c \in Codes : Answer(c)
    \/ \E u \in Users, state \in {"enabled", "disabled", "absent"} : SetAccount(u, state)
    \/ \E a \in Apps : DeleteApp(a)
    \/ \E reseed \in BOOLEAN : Reset(reseed)
    \/ Seed
    \/ Restart
    \/ Tick

Spec == Init /\ [][Next]_vars

\* The client polls until it has an answer, a response once begun is finished, and
\* time passes.
FairSpec ==
    /\ Spec
    /\ \A c \in Codes : WF_vars(Poll(c) /\ answers[c] = {}) /\ WF_vars(Answer(c))
    /\ WF_vars(Tick)

-----------------------------------------------------------------------------
(* Properties *)

\* A user code names one open request: approving it cannot approve another.
UserCodesUnique ==
    \A c, d \in Codes :
        HasRow(c) /\ HasRow(d) /\ device_codes[c].user_code = device_codes[d].user_code => c = d

\* However its client polls, a code has one fate: it is never reported denied and
\* expired, or denied and granted, whatever the decision raced with.
OneFate ==
    \A c \in Codes : \A x, y \in answers[c] \ {"refused"} : x = y

\* The three together, whatever is drawn, decided, polled, reset or restarted in between.
DevicesSound == TypeOK /\ UserCodesUnique /\ OneFate

\* A request is approved only out of a consent page for it that was shown in a session
\* of the approving user which is still alive and whose account is enabled.
ApprovedFromConsent ==
    \A c \in Codes :
        (HasRow(c) /\ device_codes[c].status = "pending" /\ device_codes'[c] # Gone
            /\ device_codes'[c].status = "approved")
        => \E p \in pages :
              /\ p.userCode = device_codes[c].user_code
              /\ HasSession(p.sid)
              /\ sessions[p.sid].user = device_codes'[c].user
              /\ now < sessions[p.sid].expiresAt
              /\ accounts[device_codes'[c].user] = "enabled"

\* The same of every step: see ApprovedFromConsent.
ApprovalFollowsConsent == [][ApprovedFromConsent]_vars

\* The stage a request is at, and who has approved it.
Stage == [c \in Codes |-> IF device_codes[c] = Undrawn THEN "none"
                         ELSE IF HasRow(c) THEN device_codes[c].status ELSE "closed"]

ApprovedBy == [c \in Codes |-> IF HasRow(c) THEN device_codes[c].user ELSE NoUser]

Lifecycle == INSTANCE DeviceAuthorization WITH status <- Stage, approver <- ApprovedBy

\* Each device code goes through one decision and one redemption at most: see
\* DeviceAuthorization.
ImplementsDeviceAuthorization == Lifecycle!Spec

\* A client that keeps polling learns the fate of its code, whatever the user does, and
\* although a response may be lost, the process restarted or the database reset.
PollingEnds == \A c \in Codes : device_codes[c] # Undrawn ~> answers[c] # {}
=============================================================================
