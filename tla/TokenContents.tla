---------------------------- MODULE TokenContents -----------------------------
(***************************************************************************)
(* What tokens say: the scopes, resource and audience of a grant, and the  *)
(* roles, groups and optional claims taken from the directory when a token *)
(* is minted.  identity/scopes.ts, tokens/claims.ts, tokens/tokenConfig.ts *)
(* and identity/clientCredentials.ts are the operators; the actions are a  *)
(* grant on its way from authorization through redemption and refreshes,   *)
(* with the administrator editing registrations and memberships meanwhile. *)
(*                                                                         *)
(* A scope identifier is a resource and a name; openid, offline_access and *)
(* bare names have no resource.  Of the order of a request only the first  *)
(* resource matters.  Times, signatures and who may redeem what are in the *)
(* other modules; a handler is one step here.                              *)
(***************************************************************************)
EXTENDS Naturals, FiniteSets

CONSTANTS
    Apps,          \* app registrations; their ids are also audiences
    Confidential,  \* the apps that have a secret
    Uris,          \* values of app_id_uri; the administrator may enter Graph's
    Graph,         \* config.graphResourceId, https://graph.microsoft.com
    UnderGraph,    \* values of app_id_uri that are paths under Graph's
    Users,
    WithMail,      \* the users that have a mail address
    Groups,
    Roles,         \* values of app roles
    InitialUri,    \* app_id_uris as set up
    Names,         \* names of scopes
    ScopeValues,   \* those that apps expose
    Requests,      \* what clients ask for: a set of scopes, and the first resource
    Limits,        \* values of app.groupOverageLimit
    DefaultLimit,  \* config.groupOverageLimit
    ClaimNames,    \* optional claims an administrator lists
    None,
    MaxEdits       \* bound: administrative requests per behaviour

Kinds == {"idToken", "accessToken"}
Scope == [resource : Uris \union {Graph, None}, name : Names]
Audiences == Apps \union Uris \union {Graph}

ASSUME ContentsAssumption ==
    /\ Confidential \subseteq Apps /\ WithMail \subseteq Users /\ ScopeValues \subseteq Names
    /\ InitialUri \in [Apps -> Uris \union {None}]
    /\ \A a, b \in Apps : InitialUri[a] = InitialUri[b] => a = b \/ InitialUri[a] = None
    /\ \A r \in Requests :
          /\ r.scopes \subseteq Scope
          /\ IF \A s \in r.scopes : s.resource = None
             THEN r.first = None
             ELSE r.first # None /\ \E s \in r.scopes : s.resource = r.first
    /\ Limits \subseteq Nat \ {0} /\ DefaultLimit \in Nat
    /\ None \notin Audiences \union Users \union Limits
    /\ UnderGraph \subseteq Uris \ {Graph}
    /\ IsFiniteSet(Groups)
    /\ Graph \notin Apps /\ Apps \intersect Uris = {}
    /\ MaxEdits \in Nat

VARIABLES
    apps,     \* the registrations there are
    uri,      \* app_id_uri of each app
    exposed,  \* <<app, name>>: app_scopes that are enabled
    roles,    \* <<app, role>>: app_roles enabled for applications
    optional, \* <<app, kind, claim>>: app.optionalClaims
    memberships, \* apps whose groupMembershipClaims is not None
    limit,    \* app.groupOverageLimit
    member,   \* <<user, group>>: group_members
    grant,    \* the code or refresh token under way
    response, \* the last token response; None after an error
    approved, \* history: what the grant's authorization found allowed
    edits     \* bound: administrative requests so far

config == <<apps, uri, exposed, roles, optional, memberships, limit, member>>
vars == <<config, grant, response, approved, edits>>

-----------------------------------------------------------------------------
\* identity/scopes.ts

WithUri(r) == {a \in apps : uri[a] = r}

ScopeIsValid(s) ==
    \/ s.resource \in {None, Graph}
    \/ \E a \in WithUri(s.resource) : s.name = ".default" \/ <<a, s.name>> \in exposed

scopesAreValid(request) == \A s \in request.scopes : ScopeIsValid(s)

resolveResource(request) == request.first

scopeNames(scopes) == {s.name : s \in scopes}

-----------------------------------------------------------------------------
\* tokens/claims.ts: audiences

NamesGraph(r) == r \in {None, Graph} \union UnderGraph

\* Mutated: registrations before Graph.
resolveAudience_Uri(r) ==
    IF WithUri(r) # {} THEN CHOOSE a \in WithUri(r) : TRUE
    ELSE IF NamesGraph(r) THEN Graph
    ELSE r

resolveAudience(r) ==
    IF NamesGraph(r) THEN Graph
    ELSE IF WithUri(r) # {} THEN CHOOSE a \in WithUri(r) : TRUE
    ELSE r

-----------------------------------------------------------------------------
\* tokens/tokenConfig.ts

supportedClaimNames(kind) ==
    {"email", "upn", "groups"} \union (IF kind = "idToken" THEN {"auth_time"} ELSE {})

Available(claim, user) == claim = "email" => user \in WithMail

resolveOptionalClaims(app, kind, user) ==
    {c \in supportedClaimNames(kind) \ {"groups"} :
        <<app, kind, c>> \in optional /\ Available(c, user)}

groupClaimsEnabled(app, kind) ==
    app \in memberships \/ <<app, kind, "groups">> \in optional

listGroupsForUser(user) == {g \in Groups : <<user, g>> \in member}

LimitOf(app) == IF limit[app] = None THEN DefaultLimit ELSE limit[app]

\* Mutated: off by one at the limit.
Overage_AtLimit(app, user) == Cardinality(listGroupsForUser(user)) >= LimitOf(app)

Overage(app, user) == Cardinality(listGroupsForUser(user)) > LimitOf(app)

NoGroups == [form |-> "absent", ids |-> {}]

resolveGroupClaims(app, kind, user) ==
    IF ~groupClaimsEnabled(app, kind) THEN NoGroups
    ELSE IF Overage(app, user) THEN [form |-> "overage", ids |-> {}]
    ELSE [form |-> "array", ids |-> listGroupsForUser(user)]

NoClaims == [optional |-> {}, groups |-> NoGroups]

resolveAppTokenClaims(app, kind, user) ==
    [optional |-> resolveOptionalClaims(app, kind, user),
     groups   |-> resolveGroupClaims(app, kind, user)]

-----------------------------------------------------------------------------
\* tokens/response.ts

\* Mutated: the client's configuration decides for both tokens.
AccessClaims_Client(client, audience, user) ==
    resolveAppTokenClaims(client, "accessToken", user)

\* The API decides what an access token for it carries.
AccessClaims(client, audience, user) ==
    IF audience \in apps THEN resolveAppTokenClaims(audience, "accessToken", user)
    ELSE NoClaims

buildDelegatedAccessClaims(client, audience, user, scopes) ==
    [aud |-> audience, azp |-> client, oid |-> user, roles |-> {},
     scp |-> scopeNames(scopes) \ {"offline_access"},
     claims |-> AccessClaims(client, audience, user)]

buildAppOnlyAccessClaims(client, audience, granted) ==
    [aud |-> audience, azp |-> client, oid |-> None, roles |-> granted,
     scp |-> {}, claims |-> NoClaims]

\* The email claim of the base set is emitted under the email scope.
buildIdTokenClaims(client, user, scopes) ==
    LET claims == resolveAppTokenClaims(client, "idToken", user)
        base == {c \in {"email"} : c \in scopeNames(scopes) /\ user \in WithMail}
    IN  [aud |-> client, oid |-> user,
         claims |-> [claims EXCEPT !.optional = @ \union base]]

Delegated(g, scopes) ==
    [flow |-> "delegated", resource |-> g.resource, scopes |-> scopes,
     access |-> buildDelegatedAccessClaims(g.client, resolveAudience(g.resource),
                                           g.user, scopes),
     id |-> IF "openid" \in scopeNames(scopes)
            THEN buildIdTokenClaims(g.client, g.user, scopes)
            ELSE None]

AppOnly(client, resource, audience, granted) ==
    [flow |-> "app", resource |-> resource, scopes |-> {},
     access |-> buildAppOnlyAccessClaims(client, audience, granted), id |-> None]

\* tokens/service.ts: the preview, and what token-generate signs.
previewToken(app, user, kind) ==
    IF kind = "idToken"
    THEN [aud |-> app, oid |-> user,
          claims |-> [resolveAppTokenClaims(app, kind, user) EXCEPT
                        !.optional = @ \union {c \in {"email"} : user \in WithMail}]]
    ELSE [aud |-> IF uri[app] = None THEN app ELSE uri[app],
          azp |-> app, oid |-> user, roles |-> {}, scp |-> {},
          claims |-> resolveAppTokenClaims(app, kind, user)]

-----------------------------------------------------------------------------
\* tokens/validate.ts and the endpoints behind it

validateAccessToken(token, audience) == token.aud = audience

\* GET /graph/v1.0/me and the userinfo endpoint: the status of their answer.
MeStatus(token) ==
    IF ~validateAccessToken(token, Graph) THEN 401
    ELSE IF token.oid = None THEN 403
    ELSE 200

-----------------------------------------------------------------------------

Claim == [optional : SUBSET ({"email", "upn", "auth_time"} \union ClaimNames),
          groups : [form : {"absent", "array", "overage"}, ids : SUBSET Groups]]
AccessToken == [aud : Audiences, azp : Apps, oid : Users \union {None},
                roles : SUBSET Roles, scp : SUBSET Names, claims : Claim]
IdToken == [aud : Apps, oid : Users, claims : Claim]

Grant == [client : Apps, user : Users, scopes : SUBSET Scope,
          resource : Uris \union {Graph, None}, stage : {"code", "refresh"}]

TypeOK ==
    /\ apps \subseteq Apps
    /\ uri \in [Apps -> Uris \union {None}]
    /\ exposed \subseteq apps \X ScopeValues
    /\ roles \subseteq apps \X Roles
    /\ optional \subseteq apps \X Kinds \X ClaimNames
    /\ memberships \subseteq apps
    /\ limit \in [Apps -> Limits \union {None}]
    /\ member \subseteq Users \X Groups
    /\ grant = None \/ grant \in Grant
    /\ response # None =>
          /\ response.flow \in {"delegated", "app", "preview"}
          /\ response.access = None \/ response.access \in AccessToken
          /\ response.id = None \/ response.id \in IdToken
    /\ approved \subseteq Scope
    /\ edits \in 0..MaxEdits

\* Every app exposes every scope and role; all have group claims on, or none has.
Init ==
    /\ apps = Apps
    /\ uri = InitialUri
    /\ exposed = Apps \X ScopeValues
    /\ roles = Apps \X Roles
    /\ optional = {} /\ memberships \in {{}, Apps}
    /\ limit = [a \in Apps |-> None]
    /\ member = Users \X Groups
    /\ grant = None
    /\ response = None
    /\ approved = {}
    /\ edits = 0

-----------------------------------------------------------------------------
\* A grant.

Authorize(client, user, request) ==
    /\ client \in apps
    /\ scopesAreValid(request)
    /\ grant' = [client |-> client, user |-> user, scopes |-> request.scopes,
                 resource |-> resolveResource(request), stage |-> "code"]
    /\ approved' = {s \in request.scopes : ScopeIsValid(s)}
    /\ response' = None
    /\ UNCHANGED <<config, edits>>

\* The code is spent; a refresh token is issued for offline_access.
Answered(g, scopes) ==
    /\ response' = Delegated(g, scopes)
    /\ grant' = IF "offline_access" \in scopeNames(scopes)
                THEN [g EXCEPT !.scopes = scopes, !.stage = "refresh"]
                ELSE None
    /\ UNCHANGED <<config, approved, edits>>

\* A scope parameter is compared by name, and then not used.
Redeem(requested) ==
    /\ grant # None /\ grant.stage = "code"
    /\ IF requested \subseteq scopeNames(grant.scopes)
       THEN Answered(grant, grant.scopes)
       ELSE grant' = None /\ response' = None /\ UNCHANGED <<config, approved, edits>>

\* Mutated: compared by name, as the code grant does.
MayNarrowTo_ByName(requested, scopes) == scopeNames(requested) \subseteq scopeNames(scopes)

MayNarrowTo(requested, scopes) == requested \subseteq scopes

Refresh(requested) ==
    /\ grant # None /\ grant.stage = "refresh"
    /\ MayNarrowTo(requested, grant.scopes)
    /\ Answered(grant, IF requested = {} THEN grant.scopes ELSE requested)

-----------------------------------------------------------------------------
\* Tokens without a grant.

autoGrantedRoles(app) == {r \in Roles : <<app, r>> \in roles}

\* The resource is looked up as Graph, as an app_id_uri, as an app id, in this order.
ClientCredentials(client, resource) ==
    /\ response' =
         IF client \notin apps \intersect Confidential THEN None
         ELSE IF resource = Graph THEN AppOnly(client, resource, Graph, {})
         ELSE IF WithUri(resource) # {}
         THEN LET a == CHOOSE a \in WithUri(resource) : TRUE
              IN  AppOnly(client, resource, resource, autoGrantedRoles(a))
         ELSE IF resource \in apps
         THEN AppOnly(client, resource, resource, autoGrantedRoles(resource))
         ELSE None
    /\ UNCHANGED <<config, grant, approved, edits>>

Generate(app, user, kind) ==
    /\ app \in apps
    /\ LET token == previewToken(app, user, kind)
       IN  response' = [flow |-> "preview", resource |-> app, scopes |-> {},
                        access |-> IF kind = "accessToken" THEN token ELSE None,
                        id |-> IF kind = "idToken" THEN token ELSE None]
    /\ UNCHANGED <<config, grant, approved, edits>>

-----------------------------------------------------------------------------
\* Administration.  Forgets the last response, which was made before.

Toggled(x, set) == IF x \in set THEN set \ {x} ELSE set \union {x}

Edited == /\ edits < MaxEdits
          /\ edits' = edits + 1
          /\ response' = None
          /\ UNCHANGED <<grant, approved>>

PatchUri(a, u) ==
    /\ a \in apps
    /\ u = None \/ WithUri(u) \subseteq {a}
    /\ uri' = [uri EXCEPT ![a] = u]
    /\ Edited
    /\ UNCHANGED <<apps, exposed, roles, optional, memberships, limit, member>>

PatchTokenConfiguration(a) ==
    /\ a \in apps
    /\ \/ /\ \E kind \in Kinds, c \in ClaimNames : optional' = Toggled(<<a, kind, c>>, optional)
          /\ UNCHANGED <<memberships, limit>>
       \/ /\ memberships' = Toggled(a, memberships)
          /\ UNCHANGED <<optional, limit>>
       \/ /\ \E l \in Limits \union {None} : limit' = [limit EXCEPT ![a] = l]
          /\ UNCHANGED <<optional, memberships>>
    /\ Edited
    /\ UNCHANGED <<apps, uri, exposed, roles, member>>

\* A scope or role is created, deleted, or enabled or disabled.
EditParts(a) ==
    /\ a \in apps
    /\ \/ /\ \E name \in ScopeValues : exposed' = Toggled(<<a, name>>, exposed)
          /\ UNCHANGED roles
       \/ /\ \E r \in Roles : roles' = Toggled(<<a, r>>, roles)
          /\ UNCHANGED exposed
    /\ Edited
    /\ UNCHANGED <<apps, uri, optional, memberships, limit, member>>

EditMembership(u, g) ==
    /\ member' = Toggled(<<u, g>>, member)
    /\ Edited
    /\ UNCHANGED <<apps, uri, exposed, roles, optional, memberships, limit>>

\* What belongs to an app goes with it; the code or refresh token keeps its client.
\* (So do spent codes, which are not kept here: some deletions the program refuses.)
DeleteApp(a) ==
    /\ a \in apps
    /\ grant # None => grant.client # a
    /\ apps' = apps \ {a}
    /\ uri' = [uri EXCEPT ![a] = None]
    /\ limit' = [limit EXCEPT ![a] = None]
    /\ exposed' = {e \in exposed : e[1] # a}
    /\ roles' = {r \in roles : r[1] # a}
    /\ optional' = {o \in optional : o[1] # a}
    /\ memberships' = memberships \ {a}
    /\ Edited
    /\ UNCHANGED member

Next ==
    \/ \E c \in Apps, u \in Users, r \in Requests : Authorize(c, u, r)
    \/ \E requested \in SUBSET Names : Redeem(requested)
    \/ \E requested \in SUBSET UNION {r.scopes : r \in Requests} : Refresh(requested)
    \/ \E c \in Apps, r \in Audiences : ClientCredentials(c, r)
    \/ \E a \in Apps, u \in Users, kind \in Kinds : Generate(a, u, kind)
    \/ \E a \in Apps, u \in Uris \union {None} : PatchUri(a, u)
    \/ \E a \in Apps : PatchTokenConfiguration(a) \/ EditParts(a) \/ DeleteApp(a)
    \/ \E u \in Users, g \in Groups : EditMembership(u, g)

Spec == Init /\ [][Next]_vars

-----------------------------------------------------------------------------

(***************************************************************************)
(* A token of a grant, redeemed or refreshed however often and narrowed    *)
(* in any way, names only scopes that were asked for at its authorization  *)
(* and that the app which owned their URI at that time had enabled.        *)
(***************************************************************************)
ScopesWereApproved ==
    (response # None /\ response.flow = "delegated") =>
        /\ response.scopes \subseteq approved
        /\ response.access.scp \subseteq scopeNames(approved)

\* Every variable has its type, and no grant reaches beyond what was approved.
GrantsSound == TypeOK /\ ScopesWereApproved

(***************************************************************************)
(* Graph and userinfo take the tokens of just those grants that name no    *)
(* resource, or name Graph or a path under it first: no app_id_uri, not    *)
(* even one equal to Graph's, and no later move of a URI turns a token for *)
(* an API into one for Graph or the reverse.  An app-only token is never   *)
(* taken for a user's.                                                     *)
(***************************************************************************)
GraphTakesItsOwn ==
    (response # None /\ response.access # None) =>
        /\ response.flow = "delegated" =>
              MeStatus(response.access) = IF NamesGraph(response.resource) THEN 200 ELSE 401
        /\ response.flow = "app" => MeStatus(response.access) # 200

\* The app a token is for, if it is registered.
For(token) == IF token.aud = Graph THEN {}
              ELSE {a \in apps : token.aud = a \/ token.aud = uri[a]}

\* What an app may be told of a user's groups under its configuration.
GroupsAllowed(a, kind, user) ==
    LET all == {g \in Groups : <<user, g>> \in member}
        most == IF limit[a] # None THEN limit[a] ELSE DefaultLimit
    IN  IF a \notin memberships /\ <<a, kind, "groups">> \notin optional
        THEN {NoGroups}
        ELSE {[form |-> "array", ids |-> s] : s \in {t \in {all} : Cardinality(t) \in 0..most}}
             \union {[form |-> "overage", ids |-> {}] : s \in {t \in {all} : most + 1 <= Cardinality(t)}}

(***************************************************************************)
(* The app a token is for, and no other, decides what is in it: its roles  *)
(* in an app-only token, its group claims and limit in a delegated one,    *)
(* the client's in the ID token.  A groups array is complete and within    *)
(* the limit; a token for Graph or for nobody has neither groups nor       *)
(* roles.                                                                  *)
(***************************************************************************)
AudienceGoverns ==
    (response # None /\ response.flow # "preview") =>
        /\ response.access # None =>
              LET token == response.access
                  groups == token.claims.groups
              IN  /\ For(token) = {} => token.roles = {} /\ groups = NoGroups
                  /\ \A a \in For(token) :
                       IF token.oid = None
                       THEN /\ token.roles = {r \in Roles : <<a, r>> \in roles}
                            /\ groups = NoGroups
                       ELSE /\ token.roles = {}
                            /\ groups \in GroupsAllowed(a, "accessToken", token.oid)
        /\ response.id # None =>
              response.id.claims.groups \in
                  GroupsAllowed(response.id.aud, "idToken", response.id.oid)

(***************************************************************************)
(* "The shown payload matches the issued token": the optional and group    *)
(* claims previewed for an app and a user are those of every access token  *)
(* issued for that app, whatever the client, and of its own ID tokens.     *)
(* (The audience previewed for an access token is the app_id_uri where the *)
(* issued one has the app id; README, section 8.)                          *)
(***************************************************************************)
PreviewMatches ==
    \A a \in apps, u \in Users :
        /\ \A c \in apps, r \in {a, uri[a]} \ ({None, Graph} \union UnderGraph) :
              AccessClaims(c, resolveAudience(r), u) = previewToken(a, u, "accessToken").claims
        /\ buildIdTokenClaims(a, u, {[resource |-> None, name |-> "email"]})
              = previewToken(a, u, "idToken")
=============================================================================
