------------------------------ MODULE Directory ------------------------------
(***************************************************************************)
(* The directory and its administration: the tables of users, groups,      *)
(* memberships, app registrations and what belongs to an app, with the     *)
(* foreign keys of the schema; the admin API's create, patch and delete    *)
(* requests; the deterministic seed and the reset.                         *)
(*                                                                         *)
(* Each handler is synchronous: a request is one step.  Requests for an    *)
(* unknown id are answered 404 and change nothing: they are not actions.   *)
(* Columns no request decides on (names, secrets' hashes, is_enabled,      *)
(* token configuration) are left out.                                      *)
(***************************************************************************)
EXTENDS Naturals, Sequences, FiniteSets

CONSTANTS
    Users, Upns,        \* user ids and user_principal_names
    Groups,
    Apps, AppIdUris,    \* app ids and non-null app_id_uris
    Redirects,          \* redirect URIs
    OtherParts,         \* scope values, role values and secret ids
    SeedUpn,            \* the seeded users, each with its user_principal_name
    SeedMembers,        \* the seeded memberships
    SeedUri,            \* the seeded apps, each with its app_id_uri
    SeedParts,          \* what the seeded apps have
    MaxRows,            \* bound on the rows of codes and tokens
    NoUri, NoUser, Absent

VARIABLES
    tenant,             \* the tenants row is there
    users,              \* the user_principal_name of each user there is
    groups,
    members,            \* group_members
    apps,               \* the app_id_uri of each app registration there is
    parts,              \* <<app, value>>: app_redirect_uris, app_scopes, app_roles, app_secrets
    rows,               \* authorization_codes, refresh_tokens and device_codes
    answer              \* the last admin request and how it was answered

directory == <<tenant, users, groups, members, apps, parts, rows>>
vars == <<directory, answer>>

SeedUsers == DOMAIN SeedUpn
SeedApps == DOMAIN SeedUri
SeedGroups == {m[1] : m \in SeedMembers}
PartValues == Redirects \cup OtherParts

\* Device codes name an app only: their user_id is no foreign key.
Row == [user : Users \cup {NoUser}, app : Apps]

Answer == [op : {"none", "change", "skip", "seed", "clear", "reset"},
           code : {"done", "conflict", "invalid_reference"}]

ASSUME ConstantsAssumption ==
    /\ SeedUsers \subseteq Users /\ \A u \in SeedUsers : SeedUpn[u] \in Upns
    /\ \A u, v \in SeedUsers : SeedUpn[u] = SeedUpn[v] => u = v
    /\ SeedMembers \subseteq Groups \X SeedUsers
    /\ SeedApps \subseteq Apps /\ \A a \in SeedApps : SeedUri[a] \in AppIdUris
    /\ \A a, b \in SeedApps : SeedUri[a] = SeedUri[b] => a = b
    /\ SeedParts \subseteq SeedApps \X PartValues
    /\ MaxRows \in Nat
    /\ NoUser \notin Users /\ NoUri \notin AppIdUris
    /\ Absent \notin Upns \cup AppIdUris \cup {NoUri}

\* All seeded users are in Engineering: a seed that cannot bring one of them in fails.
ASSUME MembershipAssumption ==
    \A u \in SeedUsers : \E m \in SeedMembers : m[2] = u

TypeOK ==
    /\ tenant \in BOOLEAN
    /\ users \in [Users -> Upns \cup {Absent}]
    /\ groups \subseteq Groups
    /\ members \subseteq Groups \X Users
    /\ apps \in [Apps -> AppIdUris \cup {NoUri, Absent}]
    /\ parts \subseteq Apps \X PartValues
    /\ rows \subseteq Row
    /\ answer \in Answer

-----------------------------------------------------------------------------
IsUser(u) == users[u] # Absent

IsApp(a) == apps[a] # Absent

UpnTaken(upn) == \E u \in Users : users[u] = upn

UriTaken(uri) == uri # NoUri /\ \E a \in Apps : apps[a] = uri

Answered(op, code) == answer' = [op |-> op, code |-> code]

\* The handler, or the constraint it runs into, refuses.
Refused(op, code) == Answered(op, code) /\ UNCHANGED directory

-----------------------------------------------------------------------------
(* Users and groups *)

\* Ids drawn by the server are fresh ones, never a seeded id.
CreateUser(u, upn) ==
    /\ u \notin SeedUsers /\ ~IsUser(u)
    /\ \/ UpnTaken(upn) /\ Refused("change", "conflict")
       \/ ~UpnTaken(upn) /\ ~tenant /\ Refused("change", "invalid_reference")
       \/ /\ ~UpnTaken(upn) /\ tenant
          /\ users' = [users EXCEPT ![u] = upn]
          /\ Answered("change", "done")
          /\ UNCHANGED <<tenant, groups, members, apps, parts, rows>>

PatchUser(u, upn) ==
    /\ IsUser(u)
    /\ \/ \E v \in Users \ {u} : users[v] = upn
          /\ Refused("change", "conflict")
       \/ /\ \A v \in Users \ {u} : users[v] # upn
          /\ users' = [users EXCEPT ![u] = upn]
          /\ Answered("change", "done")
          /\ UNCHANGED <<tenant, groups, members, apps, parts, rows>>

\* Codes and refresh tokens keep their user: a delete is refused.
HasRowsOfUser(u) == \E r \in rows : r.user = u

\* The memberships are left behind.
DeleteUser_Bare(u) ==
    /\ IsUser(u) /\ ~HasRowsOfUser(u)
    /\ users' = [users EXCEPT ![u] = Absent]
    /\ Answered("change", "done")
    /\ UNCHANGED <<tenant, groups, members, apps, parts, rows>>

DeleteUser(u) ==
    /\ IsUser(u)
    /\ \/ HasRowsOfUser(u) /\ Refused("change", "invalid_reference")
       \/ /\ ~HasRowsOfUser(u)
          /\ users' = [users EXCEPT ![u] = Absent]
          /\ members' = {m \in members : m[2] # u}
          /\ Answered("change", "done")
          /\ UNCHANGED <<tenant, groups, apps, parts, rows>>

CreateGroup(g) ==
    /\ g \notin SeedGroups /\ g \notin groups
    /\ \/ ~tenant /\ Refused("change", "invalid_reference")
       \/ /\ tenant
          /\ groups' = groups \cup {g}
          /\ Answered("change", "done")
          /\ UNCHANGED <<tenant, users, members, apps, parts, rows>>

DeleteGroup(g) ==
    /\ g \in groups
    /\ groups' = groups \ {g}
    /\ members' = {m \in members : m[1] # g}
    /\ Answered("change", "done")
    /\ UNCHANGED <<tenant, users, apps, parts, rows>>

Membership(g, u) == <<g, u>>

AddMember(g, u) ==
    /\ g \in groups
    /\ \/ ~IsUser(u) /\ Refused("change", "invalid_reference")
       \/ /\ IsUser(u)
          /\ members' = members \cup {Membership(g, u)}
          /\ Answered("change", "done")
          /\ UNCHANGED <<tenant, users, groups, apps, parts, rows>>

RemoveMember(g, u) ==
    /\ g \in groups
    /\ members' = members \ {Membership(g, u)}
    /\ Answered("change", "done")
    /\ UNCHANGED <<tenant, users, groups, apps, parts, rows>>

-----------------------------------------------------------------------------
(* App registrations *)

\* The redirect URIs that are in before the first one met twice.
InsertedRedirects(list) ==
    {list[i] : i \in {j \in DOMAIN list : \A k, l \in 1..j : list[k] = list[l] => k = l}}

NoRepetition(list) == \A k, l \in DOMAIN list : list[k] = list[l] => k = l

\* The app and its redirect URIs are inserted one by one, not in a transaction: a list
\* with a repetition is answered 409 and leaves what was inserted before it.
CreateApp(a, uri, list) ==
    /\ a \notin SeedApps /\ ~IsApp(a)
    /\ \/ UriTaken(uri) /\ Refused("change", "conflict")
       \/ ~UriTaken(uri) /\ ~tenant /\ Refused("change", "invalid_reference")
       \/ /\ ~UriTaken(uri) /\ tenant
          /\ apps' = [apps EXCEPT ![a] = uri]
          /\ parts' = parts \cup ({a} \X InsertedRedirects(list))
          /\ Answered("change", IF NoRepetition(list) THEN "done" ELSE "conflict")
          /\ UNCHANGED <<tenant, users, groups, members, rows>>

\* No look at the other apps.
PatchApp_Unchecked(a, uri) ==
    /\ IsApp(a)
    /\ apps' = [apps EXCEPT ![a] = uri]
    /\ Answered("change", "done")
    /\ UNCHANGED <<tenant, users, groups, members, parts, rows>>

\* getByAppIdUri finds one app with the URI; it is no clash if that is the app itself.
PatchApp(a, uri) ==
    /\ IsApp(a)
    /\ \/ /\ uri # NoUri /\ \E b \in Apps \ {a} : apps[b] = uri
          /\ Refused("change", "conflict")
       \/ /\ \/ uri = NoUri
             \/ apps[a] = uri
             \/ \A b \in Apps : apps[b] # uri
          /\ apps' = [apps EXCEPT ![a] = uri]
          /\ Answered("change", "done")
          /\ UNCHANGED <<tenant, users, groups, members, parts, rows>>

HasRowsOfApp(a) == \E r \in rows : r.app = a

DeleteApp(a) ==
    /\ IsApp(a)
    /\ \/ HasRowsOfApp(a) /\ Refused("change", "invalid_reference")
       \/ /\ ~HasRowsOfApp(a)
          /\ apps' = [apps EXCEPT ![a] = Absent]
          /\ parts' = {p \in parts : p[1] # a}
          /\ Answered("change", "done")
          /\ UNCHANGED <<tenant, users, groups, members, rows>>

\* POST of a redirect URI, a scope, a role or a secret.
AddPart(a, v) ==
    /\ IsApp(a)
    /\ \/ <<a, v>> \in parts /\ Refused("change", "conflict")
       \/ /\ <<a, v>> \notin parts
          /\ parts' = parts \cup {<<a, v>>}
          /\ Answered("change", "done")
          /\ UNCHANGED <<tenant, users, groups, members, apps, rows>>

RemovePart(a, v) ==
    /\ IsApp(a) /\ <<a, v>> \in parts
    /\ parts' = parts \ {<<a, v>>}
    /\ Answered("change", "done")
    /\ UNCHANGED <<tenant, users, groups, members, apps, rows>>

-----------------------------------------------------------------------------
(* Seed, reset, restart *)

\* INSERT OR IGNORE skips a user whose id or user_principal_name is there.
SeededUsers(from) ==
    [u \in Users |->
        IF u \in SeedUsers /\ from[u] = Absent /\ \A v \in Users : from[v] # SeedUpn[u]
        THEN SeedUpn[u] ELSE from[u]]

\* No constraint of app_registrations makes it skip one but its id.
SeededApps(from) ==
    [a \in Apps |-> IF a \in SeedApps /\ from[a] = Absent THEN SeedUri[a] ELSE from[a]]

\* OR IGNORE taken to cover foreign keys.
SeedFails_Never(from) == FALSE

\* OR IGNORE does not cover foreign keys: a membership of a user that is not there.
SeedFails(from) == \E m \in SeedMembers : SeededUsers(from)[m[2]] = Absent

\* The seed's transaction, over tables holding what `us`, `gs`, `ms`, `as` and `ps` say.
SeedTables(us, gs, ms, as, ps) ==
    /\ tenant' = TRUE
    /\ users' = SeededUsers(us)
    /\ groups' = gs \cup SeedGroups
    /\ members' = ms \cup SeedMembers
    /\ apps' = SeededApps(as)
    /\ parts' = ps \cup SeedParts

Seed(force) ==
    \/ tenant /\ ~force /\ Refused("skip", "done")
    \/ /\ ~tenant \/ force
       /\ \/ SeedFails(users) /\ Refused("seed", "invalid_reference")
          \/ /\ ~SeedFails(users)
             /\ SeedTables(users, groups, members, apps, parts)
             /\ Answered("seed", "done")
             /\ UNCHANGED rows

\* A table's rows prevent the deletion of the rows they refer to, cascades apart.
Restricted ==
    {<<"authorization_codes", "users">>, <<"authorization_codes", "app_registrations">>,
     <<"refresh_tokens", "users">>, <<"refresh_tokens", "app_registrations">>,
     <<"device_codes", "app_registrations">>}

\* Principals first.
DATA_TABLES_ByName ==
    <<"app_redirect_uris", "app_registrations", "app_roles", "app_scopes", "app_secrets",
      "authorization_codes", "device_codes", "group_members", "groups", "refresh_tokens",
      "sessions", "users">>

DATA_TABLES_IN_ORDER ==
    <<"group_members", "sessions", "authorization_codes", "refresh_tokens", "device_codes",
      "app_redirect_uris", "app_secrets", "app_scopes", "app_roles", "app_registrations",
      "groups", "users">>

\* Whether the DELETEs get through, given the rows there are.
Clears(order) ==
    \/ rows = {}
    \/ \A i \in DOMAIN order : \A r \in Restricted :
          r[2] = order[i] => \E j \in 1..(i - 1) : order[j] = r[1]

\* The reset commits before the seed begins: both are done before the answer.
Reset(reseed) ==
    /\ reseed \in BOOLEAN
    /\ \/ ~Clears(DATA_TABLES_IN_ORDER) /\ Refused("reset", "invalid_reference")
       \/ /\ Clears(DATA_TABLES_IN_ORDER)
          /\ rows' = {}
          /\ LET noUsers == [u \in Users |-> Absent]
                 noApps == [a \in Apps |-> Absent]
             IN  \/ /\ reseed
                    /\ SeedTables(noUsers, {}, {}, noApps, {})
                    /\ Answered("reset", "done")
                 \/ /\ ~reseed
                    /\ users' = noUsers /\ groups' = {} /\ members' = {}
                    /\ apps' = noApps /\ parts' = {}
                    /\ Answered("clear", "done")
                    /\ UNCHANGED tenant

\* registerStore: SEED_ON_START seeds a database without a tenant.  A crash between the
\* two transactions of a reset is a reset without reseeding, which a restart does not mend.
Restart(seedOnStart) ==
    /\ Answered("none", "done")
    /\ \/ seedOnStart /\ ~tenant /\ SeedTables(users, groups, members, apps, parts) /\ UNCHANGED rows
       \/ ~(seedOnStart /\ ~tenant) /\ UNCHANGED directory

-----------------------------------------------------------------------------
(* The protocol endpoints *)

\* A code or token is stored for a user (a device code for no one yet) and an app.
StoreRow(r) ==
    /\ r \in Row
    /\ r.user # NoUser => IsUser(r.user)
    /\ IsApp(r.app)
    /\ Cardinality(rows \cup {r}) <= MaxRows
    /\ rows' = rows \cup {r}
    /\ Answered("none", "done")
    /\ UNCHANGED <<tenant, users, groups, members, apps, parts>>

\* Device codes are deleted when they are redeemed, denied or expired; the rows of the
\* other tables stay.
DropDeviceCode(r) ==
    /\ r \in rows /\ r.user = NoUser
    /\ rows' = rows \ {r}
    /\ Answered("none", "done")
    /\ UNCHANGED <<tenant, users, groups, members, apps, parts>>

-----------------------------------------------------------------------------
\* A new database, with or without SEED_ON_START.
Init ==
    /\ rows = {}
    /\ answer = [op |-> "none", code |-> "done"]
    /\ \/ /\ tenant = FALSE
          /\ users = [u \in Users |-> Absent]
          /\ apps = [a \in Apps |-> Absent]
          /\ groups = {} /\ members = {} /\ parts = {}
       \/ /\ tenant = TRUE
          /\ users = [u \in Users |-> IF u \in SeedUsers THEN SeedUpn[u] ELSE Absent]
          /\ apps = [a \in Apps |-> IF a \in SeedApps THEN SeedUri[a] ELSE Absent]
          /\ groups = SeedGroups /\ members = SeedMembers /\ parts = SeedParts

\* The lists of redirect URIs a creation may ask for.
RedirectLists == {<<>>} \cup {<<l>> : l \in Redirects} \cup {<<l, m>> : l, m \in Redirects}

Next ==
    \/ \E u \in Users, upn \in Upns : CreateUser(u, upn)
    \/ \E u \in Users, upn \in Upns : PatchUser(u, upn)
    \/ \E u \in Users : DeleteUser(u)
    \/ \E g \in Groups : CreateGroup(g)
    \/ \E g \in Groups : DeleteGroup(g)
    \/ \E g \in Groups, u \in Users : AddMember(g, u)
    \/ \E g \in Groups, u \in Users : RemoveMember(g, u)
    \/ \E a \in Apps, uri \in AppIdUris \cup {NoUri}, list \in RedirectLists : CreateApp(a, uri, list)
    \/ \E a \in Apps, uri \in AppIdUris \cup {NoUri} : PatchApp(a, uri)
    \/ \E a \in Apps : DeleteApp(a)
    \/ \E a \in Apps, v \in PartValues : AddPart(a, v)
    \/ \E a \in Apps, v \in PartValues : RemovePart(a, v)
    \/ \E force \in BOOLEAN : Seed(force)
    \/ \E reseed \in BOOLEAN : Reset(reseed)
    \/ \E seedOnStart \in BOOLEAN : Restart(seedOnStart)
    \/ \E r \in Row : StoreRow(r)
    \/ \E r \in rows : DropDeviceCode(r)

Spec == Init /\ [][Next]_vars

-----------------------------------------------------------------------------
(* Properties *)

\* No row refers to a user, a group or an app that is gone, whatever was deleted,
\* cascaded, reset or rolled back in between.
ReferencesHold ==
    /\ \A m \in members : m[1] \in groups /\ IsUser(m[2])
    /\ \A p \in parts : IsApp(p[1])
    /\ \A r \in rows : IsApp(r.app) /\ (r.user # NoUser => IsUser(r.user))

\* Two apps come to share an app_id_uri only when the seed puts a seeded app back after
\* another app took its URI: create and patch never bring it about by themselves.
SharedUrisAreSeeded ==
    \A a, b \in Apps :
        a # b /\ apps[a] = apps[b] /\ apps[a] \in AppIdUris =>
            \E c \in {a, b} \cap SeedApps : apps[c] = SeedUri[c]

\* What a seed answered "done" promises: all it names is there.
SeedIsComplete ==
    answer = [op |-> "seed", code |-> "done"] =>
        /\ tenant /\ \A u \in SeedUsers : IsUser(u)
        /\ \A a \in SeedApps : IsApp(a)
        /\ SeedMembers \subseteq members /\ SeedParts \subseteq parts

\* A reset is never refused, and with reseeding it ends in exactly the seeded directory,
\* whatever codes, tokens and directory there were.
ResetRestoresSeed ==
    answer.op = "reset" =>
        /\ answer.code = "done"
        /\ \A u \in Users : users[u] = IF u \in SeedUsers THEN SeedUpn[u] ELSE Absent
        /\ \A a \in Apps : apps[a] = IF a \in SeedApps THEN SeedUri[a] ELSE Absent
        /\ members = SeedMembers /\ parts = SeedParts /\ rows = {}

\* Seeding, and what the protocol endpoints do, alters and removes no row of the directory.
SeedOnlyAdds ==
    answer'.op \in {"seed", "skip", "none"} =>
        /\ \A u \in Users : IsUser(u) => users'[u] = users[u]
        /\ \A a \in Apps : IsApp(a) => apps'[a] = apps[a]
        /\ groups \subseteq groups' /\ members \subseteq members' /\ parts \subseteq parts'

\* Seeding, by request or at boot, is complete when it says so, and it only adds: it alters
\* and removes no row there is.
SeedPromises == [][SeedIsComplete' /\ SeedOnlyAdds]_vars

\* Every variable has its type, and every foreign key its row.
DirectorySound == TypeOK /\ ReferencesHold

\* Documented: an operation on several rows runs in a transaction.  A request that is
\* refused leaves the directory as it was.
RefusedChangesNothing == [][answer'.code # "done" => UNCHANGED directory]_vars
=============================================================================
