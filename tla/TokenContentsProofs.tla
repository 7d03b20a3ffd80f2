------------------------- MODULE TokenContentsProofs --------------------------
(***************************************************************************)
(* Proofs about TokenContents, for any number of apps, users, groups,      *)
(* roles, scopes and requests.                                             *)
(***************************************************************************)
EXTENDS TokenContents, FiniteSetTheorems, TLAPS

\* Create and patch refuse an app_id_uri that another app has.
UrisUnique == \A a, b \in apps : uri[a] = uri[b] => a = b \/ uri[a] = None

\* A code or refresh token holds no more than was approved.
GrantApproved == grant # None => grant.scopes \subseteq approved

-----------------------------------------------------------------------------
\* Whose an audience is.

\* An app_id_uri has one owner, and no app id is one.
LEMMA OwnerIsUnique ==
    ASSUME TypeOK, UrisUnique, NEW r \in Audiences
    PROVE  /\ \A a \in WithUri(r) : WithUri(r) = {a} /\ (CHOOSE b \in WithUri(r) : TRUE) = a
           /\ r \in Apps => WithUri(r) = {}
           /\ WithUri(r) \subseteq apps
  <1>1. \A a, b \in WithUri(r) : a = b
    BY ContentsAssumption DEF WithUri, UrisUnique, TypeOK
  <1>2. r \in Apps => WithUri(r) = {}
    BY ContentsAssumption DEF WithUri, TypeOK, Audiences
  <1>3. ASSUME NEW a \in WithUri(r)
        PROVE  WithUri(r) = {a} /\ (CHOOSE b \in WithUri(r) : TRUE) = a
    <2>1. (CHOOSE b \in WithUri(r) : TRUE) \in WithUri(r)
      OBVIOUS
    <2>2. QED
      BY <1>1, <2>1
  <1>4. QED
    BY <1>2, <1>3 DEF WithUri

\* The three kinds of audience of a delegated token.
LEMMA AudienceCases ==
    ASSUME TypeOK, UrisUnique, NEW r \in Uris \union {Graph, None}
    PROVE  /\ NamesGraph(r) <=> resolveAudience(r) = Graph
           /\ resolveAudience(r) \in Audiences
           /\ resolveAudience(r) # Graph =>
                 \/ resolveAudience(r) \in apps
                 \/ resolveAudience(r) \in Uris /\ WithUri(resolveAudience(r)) = {}
  <1>1. CASE NamesGraph(r)
    BY <1>1 DEF resolveAudience, Audiences
  <1>2. CASE ~NamesGraph(r)
    <2>1. r \in Uris /\ r # Graph /\ r \in Audiences
      BY <1>2, ContentsAssumption DEF NamesGraph, Audiences
    <2>2. CASE WithUri(r) = {}
      BY <1>2, <2>1, <2>2 DEF resolveAudience
    <2>3. CASE WithUri(r) # {}
      <3>1. PICK a \in WithUri(r) : TRUE
        BY <2>3
      <3>2. resolveAudience(r) = a /\ a \in apps
        BY <1>2, <2>1, <2>3, <3>1, OwnerIsUnique DEF resolveAudience
      <3>3. a \in Apps /\ a # Graph
        BY <3>2, ContentsAssumption DEF TypeOK
      <3>4. QED
        BY <1>2, <3>2, <3>3 DEF Audiences
    <2>4. QED
      BY <2>2, <2>3
  <1>3. QED
    BY <1>1, <1>2

LEMMA ForWhom ==
    ASSUME TypeOK, UrisUnique, NEW token, token.aud \in Audiences
    PROVE  /\ token.aud = Graph => For(token) = {}
           /\ token.aud \in apps => For(token) = {token.aud}
           /\ token.aud \in Uris \ {Graph} => For(token) = WithUri(token.aud)
  <1>1. \A a \in apps : a # Graph /\ a \notin Uris /\ a # uri[a] /\ uri[a] \in Uris \union {None}
    BY ContentsAssumption DEF TypeOK, Audiences
  <1>2. \A a \in apps, b \in apps : a # uri[b]
    BY ContentsAssumption DEF TypeOK, Audiences
  <1>3. QED
    BY <1>1, <1>2 DEF For, WithUri

-----------------------------------------------------------------------------
\* What is in a token.

LEMMA ClaimsAreTyped ==
    ASSUME TypeOK, NEW app, NEW kind \in Kinds, NEW user \in Users
    PROVE  /\ resolveAppTokenClaims(app, kind, user) \in Claim
           /\ resolveAppTokenClaims(app, kind, user).groups = resolveGroupClaims(app, kind, user)
           /\ NoClaims \in Claim
  <1>1. resolveOptionalClaims(app, kind, user) \subseteq {"email", "upn", "auth_time"}
    BY DEF resolveOptionalClaims, supportedClaimNames
  <1>2. listGroupsForUser(user) \subseteq Groups
    BY DEF listGroupsForUser
  <1>3. resolveGroupClaims(app, kind, user)
            \in [form : {"absent", "array", "overage"}, ids : SUBSET Groups]
    BY <1>2 DEF resolveGroupClaims, NoGroups
  <1>4. QED
    BY <1>1, <1>3 DEF resolveAppTokenClaims, Claim, NoClaims, NoGroups

LEMMA GroupsAreAllowed ==
    ASSUME TypeOK, NEW app \in Apps, NEW kind, NEW user
    PROVE  resolveGroupClaims(app, kind, user) \in GroupsAllowed(app, kind, user)
  <1> DEFINE all == listGroupsForUser(user)
             most == LimitOf(app)
  <1>1. /\ all = {g \in Groups : <<user, g>> \in member}
        /\ most = IF limit[app] # None THEN limit[app] ELSE DefaultLimit
    BY DEF listGroupsForUser, LimitOf
  <1>2. most \in Nat /\ Cardinality(all) \in Nat
    BY ContentsAssumption, FS_Subset, FS_CardinalityType DEF TypeOK, LimitOf, listGroupsForUser
  <1>3. CASE ~groupClaimsEnabled(app, kind)
    BY <1>3 DEF resolveGroupClaims, GroupsAllowed, groupClaimsEnabled
  <1>4. CASE groupClaimsEnabled(app, kind)
    <2>1. GroupsAllowed(app, kind, user) =
              {[form |-> "array", ids |-> s] : s \in {t \in {all} : Cardinality(t) \in 0..most}}
              \union {[form |-> "overage", ids |-> {}] :
                          s \in {t \in {all} : most + 1 <= Cardinality(t)}}
      BY <1>1, <1>4 DEF GroupsAllowed, groupClaimsEnabled
    <2>2. Overage(app, user) <=> Cardinality(all) > most
      BY DEF Overage
    <2> HIDE DEF all, most
    <2>3. CASE Cardinality(all) > most
      <3>1. most + 1 <= Cardinality(all)
        BY <1>2, <2>3
      <3>2. resolveGroupClaims(app, kind, user) = [form |-> "overage", ids |-> {}]
        BY <1>4, <2>2, <2>3 DEF resolveGroupClaims
      <3>3. QED
        BY <2>1, <3>1, <3>2
    <2>4. CASE ~(Cardinality(all) > most)
      <3>1. Cardinality(all) \in 0..most
        BY <1>2, <2>4
      <3>2. resolveGroupClaims(app, kind, user) = [form |-> "array", ids |-> all]
        BY <1>4, <2>2, <2>4 DEF resolveGroupClaims, all
      <3>3. QED
        BY <2>1, <3>1, <3>2
    <2>5. QED
      BY <2>3, <2>4
  <1>5. QED
    BY <1>3, <1>4

-----------------------------------------------------------------------------
\* The properties of a response, of whatever response x.
Typed(x) ==
    /\ x.flow \in {"delegated", "app", "preview"}
    /\ x.access = None \/ x.access \in AccessToken
    /\ x.id = None \/ x.id \in IdToken

TakenByGraph(x) ==
    x.access # None =>
        /\ x.flow = "delegated" =>
              MeStatus(x.access) = IF NamesGraph(x.resource) THEN 200 ELSE 401
        /\ x.flow = "app" => MeStatus(x.access) # 200

AccessGoverned(token) ==
    /\ For(token) = {} => token.roles = {} /\ token.claims.groups = NoGroups
    /\ \A a \in For(token) :
         IF token.oid = None
         THEN /\ token.roles = {r \in Roles : <<a, r>> \in roles}
              /\ token.claims.groups = NoGroups
         ELSE /\ token.roles = {}
              /\ token.claims.groups \in GroupsAllowed(a, "accessToken", token.oid)

Governed(x) ==
    /\ x.access # None => AccessGoverned(x.access)
    /\ x.id # None => x.id.claims.groups \in GroupsAllowed(x.id.aud, "idToken", x.id.oid)

LEMMA DelegatedSound ==
    ASSUME TypeOK, UrisUnique, NEW g \in Grant, NEW scopes \in SUBSET Scope
    PROVE  LET x == Delegated(g, scopes)
           IN  /\ Typed(x) /\ TakenByGraph(x) /\ Governed(x)
               /\ x.flow = "delegated" /\ x.scopes = scopes
               /\ x.access.scp \subseteq scopeNames(scopes)
  <1> DEFINE aud == resolveAudience(g.resource)
             token == buildDelegatedAccessClaims(g.client, aud, g.user, scopes)
             id == buildIdTokenClaims(g.client, g.user, scopes)
             x == Delegated(g, scopes)
  <1>1. /\ g.client \in Apps /\ g.user \in Users /\ g.resource \in Uris \union {Graph, None}
        /\ g.user # None
    BY ContentsAssumption DEF Grant
  <1>2. /\ NamesGraph(g.resource) <=> aud = Graph
        /\ aud \in Audiences
        /\ aud # Graph => aud \in apps \/ (aud \in Uris /\ WithUri(aud) = {})
    <2> DEFINE r == g.resource
    <2>1. r \in Uris \union {Graph, None}
      BY <1>1
    <2> HIDE DEF r
    <2>2. /\ NamesGraph(r) <=> resolveAudience(r) = Graph
          /\ resolveAudience(r) \in Audiences
          /\ resolveAudience(r) # Graph =>
                \/ resolveAudience(r) \in apps
                \/ resolveAudience(r) \in Uris /\ WithUri(resolveAudience(r)) = {}
      BY <2>1, AudienceCases
    <2>3. QED
      BY <2>2 DEF r
  <1>3. scopeNames(scopes) \subseteq Names
    BY DEF scopeNames, Scope
  <1>4. /\ x.flow = "delegated" /\ x.scopes = scopes /\ x.resource = g.resource
        /\ x.access = token /\ (x.id = None \/ x.id = id)
    BY DEF Delegated
  <1>5. /\ token.aud = aud /\ token.azp = g.client /\ token.oid = g.user /\ token.roles = {}
        /\ token.scp = scopeNames(scopes) \ {"offline_access"}
        /\ token.claims = AccessClaims(g.client, aud, g.user)
    BY DEF buildDelegatedAccessClaims
  <1>6. AccessClaims(g.client, aud, g.user) \in Claim
    BY <1>1, ClaimsAreTyped DEF AccessClaims, Kinds
  <1>7. token \in AccessToken
    BY <1>1, <1>2, <1>3, <1>6 DEF AccessToken, buildDelegatedAccessClaims
  <1>8. /\ id.aud = g.client /\ id.oid = g.user /\ id \in IdToken
        /\ id.claims.groups = resolveGroupClaims(g.client, "idToken", g.user)
    <2> DEFINE c == resolveAppTokenClaims(g.client, "idToken", g.user)
               base == {e \in {"email"} : e \in scopeNames(scopes) /\ g.user \in WithMail}
               d == [c EXCEPT !.optional = @ \union base]
    <2>1. c \in Claim /\ c.groups = resolveGroupClaims(g.client, "idToken", g.user)
      BY <1>1, ClaimsAreTyped DEF Kinds
    <2>2. id = [aud |-> g.client, oid |-> g.user, claims |-> d]
      BY DEF buildIdTokenClaims
    <2>3. d \in Claim /\ d.groups = c.groups
      BY <2>1 DEF Claim
    <2> HIDE DEF d, id
    <2>4. QED
      BY <1>1, <2>1, <2>2, <2>3 DEF IdToken
  <1> HIDE DEF token, id, x, aud
  <1>9. Typed(x)
    BY <1>4, <1>7, <1>8 DEF Typed
  <1>10. TakenByGraph(x)
    BY <1>1, <1>2, <1>4, <1>5 DEF TakenByGraph, MeStatus, validateAccessToken
  <1>11. AccessGoverned(token)
    <2>1. token.aud = aud /\ aud \in Audiences
      BY <1>2, <1>5
    <2>2. CASE aud = Graph
      <3>1. For(token) = {} /\ aud \notin apps
        BY <2>1, <2>2, ForWhom, ContentsAssumption DEF TypeOK
      <3>2. QED
        BY <1>5, <3>1 DEF AccessGoverned, AccessClaims, NoClaims
    <2>3. CASE aud \in apps
      <3>1. For(token) = {aud} /\ aud \in Apps
        BY <2>1, <2>3, ForWhom DEF TypeOK
      <3>2. token.claims.groups = resolveGroupClaims(aud, "accessToken", g.user)
        BY <1>1, <1>5, <2>3, ClaimsAreTyped DEF AccessClaims, Kinds
      <3>3. token.claims.groups \in GroupsAllowed(aud, "accessToken", token.oid)
        BY <1>5, <3>1, <3>2, GroupsAreAllowed
      <3>4. QED
        BY <1>1, <1>5, <3>1, <3>3 DEF AccessGoverned
    <2>4. CASE aud # Graph /\ aud \notin apps
      <3>1. For(token) = {}
        BY <1>2, <2>1, <2>4, ForWhom
      <3>2. QED
        BY <1>5, <2>4, <3>1 DEF AccessGoverned, AccessClaims, NoClaims
    <2>5. QED
      BY <2>2, <2>3, <2>4
  <1>12. Governed(x)
    BY <1>1, <1>4, <1>8, <1>11, GroupsAreAllowed DEF Governed
  <1>13. QED
    BY <1>4, <1>5, <1>9, <1>10, <1>12 DEF x

LEMMA AppOnlySound ==
    ASSUME TypeOK, UrisUnique, NEW client \in Apps, NEW resource \in Audiences,
           NEW granted,
           \/ resource = Graph /\ granted = {}
           \/ resource # Graph /\ \E a \in WithUri(resource) : granted = autoGrantedRoles(a)
           \/ resource \in apps /\ granted = autoGrantedRoles(resource)
    PROVE  LET x == AppOnly(client, resource, resource, granted)
           IN  Typed(x) /\ TakenByGraph(x) /\ Governed(x) /\ x.flow = "app"
  <1> DEFINE token == buildAppOnlyAccessClaims(client, resource, granted)
             x == AppOnly(client, resource, resource, granted)
  <1>1. x.flow = "app" /\ x.access = token /\ x.id = None
    BY DEF AppOnly
  <1>2. /\ token.aud = resource /\ token.oid = None /\ token.roles = granted
        /\ token.claims = NoClaims /\ NoClaims.groups = NoGroups
    BY DEF buildAppOnlyAccessClaims, NoClaims
  <1>3. granted \subseteq Roles
    BY DEF autoGrantedRoles
  <1>4. NoClaims \in Claim
    BY DEF NoClaims, NoGroups, Claim
  <1>5. token \in AccessToken
    BY <1>3, <1>4 DEF AccessToken, buildAppOnlyAccessClaims
  <1>6. AccessGoverned(token)
    <2>1. CASE resource = Graph /\ granted = {}
      BY <1>2, <2>1, ForWhom DEF AccessGoverned
    <2>2. CASE resource # Graph /\ \E a \in WithUri(resource) : granted = autoGrantedRoles(a)
      <3>1. PICK a \in WithUri(resource) : granted = autoGrantedRoles(a)
        BY <2>2
      <3>2. WithUri(resource) = {a} /\ resource \in Uris \ {Graph}
        BY <2>2, <3>1, OwnerIsUnique DEF Audiences
      <3>3. For(token) = {a}
        BY <1>2, <3>2, ForWhom
      <3>4. QED
        BY <1>2, <3>1, <3>3 DEF AccessGoverned, autoGrantedRoles
    <2>3. CASE resource \in apps /\ granted = autoGrantedRoles(resource)
      <3>1. For(token) = {resource}
        BY <1>2, <2>3, ForWhom
      <3>2. QED
        BY <1>2, <2>3, <3>1 DEF AccessGoverned, autoGrantedRoles
    <2>4. QED
      BY <2>1, <2>2, <2>3
  <1> HIDE DEF token, x
  <1>7. TakenByGraph(x)
    BY <1>1, <1>2 DEF TakenByGraph, MeStatus, validateAccessToken
  <1>8. Typed(x) /\ Governed(x)
    BY <1>1, <1>5, <1>6 DEF Typed, Governed
  <1>9. QED
    BY <1>1, <1>7, <1>8 DEF x

LEMMA PreviewTyped ==
    ASSUME TypeOK, NEW app \in apps, NEW user \in Users, NEW kind \in Kinds
    PROVE  /\ kind = "accessToken" => previewToken(app, user, kind) \in AccessToken
           /\ kind = "idToken" => previewToken(app, user, kind) \in IdToken
  <1> DEFINE c == resolveAppTokenClaims(app, kind, user)
             base == {e \in {"email"} : user \in WithMail}
  <1>1. c \in Claim
    BY ClaimsAreTyped
  <1>2. [c EXCEPT !.optional = @ \union base] \in Claim
    BY <1>1 DEF Claim
  <1>3. app \in Apps /\ uri[app] \in Uris \union {None}
    BY DEF TypeOK
  <1>4. ASSUME kind = "accessToken" PROVE previewToken(app, user, kind) \in AccessToken
    <2>1. previewToken(app, user, kind) =
              [aud |-> IF uri[app] = None THEN app ELSE uri[app],
               azp |-> app, oid |-> user, roles |-> {}, scp |-> {}, claims |-> c]
      BY <1>4 DEF previewToken
    <2> HIDE DEF c
    <2>2. QED
      BY <1>1, <1>3, <2>1 DEF AccessToken, Audiences
  <1>5. ASSUME kind = "idToken" PROVE previewToken(app, user, kind) \in IdToken
    <2>1. previewToken(app, user, kind) =
              [aud |-> app, oid |-> user, claims |-> [c EXCEPT !.optional = @ \union base]]
      BY <1>5 DEF previewToken
    <2> HIDE DEF c, base
    <2>2. QED
      BY <1>2, <1>3, <2>1 DEF IdToken
  <1>6. QED
    BY <1>4, <1>5

-----------------------------------------------------------------------------
\* The configuration is well formed: the part of TypeOK the administrator changes.
ConfigOK ==
    /\ apps \subseteq Apps
    /\ uri \in [Apps -> Uris \union {None}]
    /\ exposed \subseteq apps \X ScopeValues
    /\ roles \subseteq apps \X Roles
    /\ optional \subseteq apps \X Kinds \X ClaimNames
    /\ memberships \subseteq apps
    /\ limit \in [Apps -> Limits \union {None}]
    /\ member \subseteq Users \X Groups

GrantOK ==
    /\ grant = None \/ grant \in Grant
    /\ approved \subseteq Scope
    /\ GrantApproved

ResponseSound ==
    /\ response # None => Typed(response)
    /\ ScopesWereApproved /\ GraphTakesItsOwn /\ AudienceGoverns

IInv == ConfigOK /\ UrisUnique /\ GrantOK /\ edits \in 0..MaxEdits /\ ResponseSound

LEMMA TypesFollow == IInv => TypeOK
  BY DEF IInv, TypeOK, ConfigOK, GrantOK, ResponseSound, Typed

\* A response made under a configuration and kept with it.
LEMMA ResponseStep ==
    ASSUME NEW x, response' = x, UNCHANGED <<config, approved>>,
           Typed(x), TakenByGraph(x), x.flow # "preview" => Governed(x),
           x.flow = "delegated" => /\ x.scopes \subseteq approved
                                   /\ x.access.scp \subseteq scopeNames(approved)
    PROVE  ResponseSound'
  <1>1. /\ apps' = apps /\ uri' = uri /\ roles' = roles /\ optional' = optional
        /\ memberships' = memberships /\ limit' = limit /\ member' = member
    BY DEF config
  <1>2. (response # None => Typed(response))' /\ ScopesWereApproved'
    BY DEF Typed, ScopesWereApproved, scopeNames
  <1>3. GraphTakesItsOwn'
    BY DEF TakenByGraph, GraphTakesItsOwn
  <1>4. AudienceGoverns'
    BY <1>1 DEF Governed, AccessGoverned, AudienceGoverns, For, GroupsAllowed
  <1>5. QED
    BY <1>2, <1>3, <1>4 DEF ResponseSound

LEMMA NoResponse == response' = None => ResponseSound'
  BY DEF ResponseSound, ScopesWereApproved, GraphTakesItsOwn, AudienceGoverns

LEMMA Init_IInv == Init => IInv
  <1> SUFFICES ASSUME Init PROVE IInv
    OBVIOUS
  <1>1. ConfigOK /\ UrisUnique /\ edits \in 0..MaxEdits
    BY ContentsAssumption DEF Init, ConfigOK, UrisUnique
  <1>2. GrantOK /\ ResponseSound
    BY DEF Init, GrantOK, GrantApproved, ResponseSound, ScopesWereApproved, GraphTakesItsOwn,
           AudienceGoverns
  <1>3. QED
    BY <1>1, <1>2 DEF IInv

LEMMA AnsweredKeeps ==
    ASSUME IInv, grant # None, NEW scopes \in SUBSET Scope, scopes \subseteq grant.scopes,
           Answered(grant, scopes)
    PROVE  IInv'
  <1>1. grant \in Grant /\ TypeOK /\ UrisUnique /\ grant.scopes \subseteq approved
    BY TypesFollow DEF IInv, TypeOK, GrantOK, GrantApproved
  <1> DEFINE x == Delegated(grant, scopes)
  <1>2. /\ Typed(x) /\ TakenByGraph(x) /\ Governed(x)
        /\ x.flow = "delegated" /\ x.scopes = scopes
        /\ x.access.scp \subseteq scopeNames(scopes)
    BY <1>1, DelegatedSound
  <1>3. response' = x /\ UNCHANGED <<config, approved, edits>>
    BY DEF Answered
  <1>4. scopes \subseteq approved /\ scopeNames(scopes) \subseteq scopeNames(approved)
    BY <1>1 DEF scopeNames
  <1> HIDE DEF x
  <1>5. ResponseSound'
    BY <1>2, <1>3, <1>4, ResponseStep
  <1>6. ConfigOK' /\ UrisUnique' /\ edits' \in 0..MaxEdits
    BY <1>1, <1>3 DEF config, TypeOK, ConfigOK, UrisUnique
  <1>7. GrantOK'
    <2>1. grant' = None \/ grant' = [grant EXCEPT !.scopes = scopes, !.stage = "refresh"]
      BY DEF Answered
    <2>2. [grant EXCEPT !.scopes = scopes, !.stage = "refresh"] \in Grant
          /\ [grant EXCEPT !.scopes = scopes, !.stage = "refresh"].scopes = scopes
      BY <1>1 DEF Grant
    <2>3. QED
      BY <1>1, <1>3, <1>4, <2>1, <2>2 DEF GrantOK, GrantApproved, TypeOK
  <1>8. QED
    BY <1>5, <1>6, <1>7 DEF IInv

\* What an administrator's request leaves to be shown.
LEMMA EditKeeps ==
    ASSUME IInv, Edited, ConfigOK', UrisUnique'
    PROVE  IInv'
  <1>1. edits' \in 0..MaxEdits
    BY ContentsAssumption DEF Edited, IInv
  <1>2. GrantOK'
    BY DEF Edited, GrantOK, GrantApproved, IInv
  <1>3. ResponseSound'
    BY NoResponse DEF Edited
  <1>4. QED
    BY <1>1, <1>2, <1>3 DEF IInv

LEMMA ToggledWithin ==
    ASSUME NEW S, NEW x \in S, NEW set \in SUBSET S
    PROVE  Toggled(x, set) \subseteq S
  BY DEF Toggled

LEMMA Next_IInv == IInv /\ [Next]_vars => IInv'
  <1> SUFFICES ASSUME IInv, [Next]_vars PROVE IInv'
    OBVIOUS
  <1>0. /\ ConfigOK /\ UrisUnique /\ GrantOK /\ edits \in 0..MaxEdits /\ ResponseSound
        /\ TypeOK
    BY TypesFollow DEF IInv
  <1>1. ASSUME UNCHANGED <<config, edits>>, GrantOK', ResponseSound' PROVE IInv'
    <2>1. ConfigOK' /\ UrisUnique' /\ edits' \in 0..MaxEdits
      BY <1>0, <1>1 DEF config, ConfigOK, UrisUnique
    <2>2. QED
      BY <1>1, <2>1 DEF IInv
  <1>2. ASSUME NEW c \in Apps, NEW u \in Users, NEW r \in Requests, Authorize(c, u, r)
        PROVE  IInv'
    <2>1. r.scopes \subseteq Scope /\ r.first \in Uris \union {Graph, None}
      BY ContentsAssumption DEF Scope
    <2>2. grant' \in Grant /\ grant'.scopes = r.scopes
      BY <1>2, <2>1 DEF Authorize, resolveResource, Grant
    <2>3. approved' = r.scopes
      BY <1>2 DEF Authorize, scopesAreValid
    <2>4. GrantOK'
      BY <2>1, <2>2, <2>3 DEF GrantOK, GrantApproved
    <2>5. QED
      BY <1>1, <1>2, <2>4, NoResponse DEF Authorize
  <1>3. ASSUME NEW requested \in SUBSET Names, Redeem(requested) PROVE IInv'
    <2>1. CASE requested \subseteq scopeNames(grant.scopes)
      BY <1>0, <1>3, <2>1, AnsweredKeeps DEF Redeem, TypeOK, Grant
    <2>2. CASE ~(requested \subseteq scopeNames(grant.scopes))
      <3>1. grant' = None /\ response' = None /\ UNCHANGED <<config, approved, edits>>
        BY <1>3, <2>2 DEF Redeem
      <3>2. GrantOK'
        BY <1>0, <3>1 DEF GrantOK, GrantApproved
      <3>3. QED
        BY <1>1, <3>1, <3>2, NoResponse
    <2>3. QED
      BY <2>1, <2>2
  <1>4. ASSUME NEW requested, Refresh(requested) PROVE IInv'
    <2> DEFINE scopes == IF requested = {} THEN grant.scopes ELSE requested
    <2>1. grant # None /\ grant \in Grant /\ requested \subseteq grant.scopes
          /\ Answered(grant, scopes)
      BY <1>0, <1>4 DEF Refresh, MayNarrowTo, TypeOK
    <2>2. scopes \subseteq grant.scopes /\ scopes \in SUBSET Scope
      BY <2>1 DEF Grant
    <2> HIDE DEF scopes
    <2>3. QED
      BY <2>1, <2>2, AnsweredKeeps
  <1>5. ASSUME NEW client \in Apps, NEW resource \in Audiences, ClientCredentials(client, resource)
        PROVE  IInv'
    <2>1. UNCHANGED <<config, grant, approved, edits>> /\ GrantOK'
      BY <1>0, <1>5 DEF ClientCredentials, GrantOK, GrantApproved
    <2>2. CASE response' = None
      BY <1>1, <2>1, <2>2, NoResponse
    <2>3. CASE response' # None
      <3>1. PICK granted :
                /\ response' = AppOnly(client, resource, resource, granted)
                /\ \/ resource = Graph /\ granted = {}
                   \/ /\ resource # Graph
                      /\ \E a \in WithUri(resource) : granted = autoGrantedRoles(a)
                   \/ resource \in apps /\ granted = autoGrantedRoles(resource)
        <4>1. CASE resource = Graph
          BY <1>5, <2>3, <4>1 DEF ClientCredentials
        <4>2. CASE resource # Graph /\ WithUri(resource) # {}
          <5> DEFINE a == CHOOSE b \in WithUri(resource) : TRUE
          <5>1. a \in WithUri(resource)
            BY <4>2
          <5>2. response' = AppOnly(client, resource, resource, autoGrantedRoles(a))
            BY <1>5, <2>3, <4>2 DEF ClientCredentials
          <5> HIDE DEF a
          <5>3. QED
            BY <4>2, <5>1, <5>2
        <4>3. CASE resource # Graph /\ WithUri(resource) = {}
          BY <1>5, <2>3, <4>3 DEF ClientCredentials
        <4>4. QED
          BY <4>1, <4>2, <4>3
      <3> DEFINE x == AppOnly(client, resource, resource, granted)
      <3>2. Typed(x) /\ TakenByGraph(x) /\ Governed(x) /\ x.flow = "app"
        BY <1>0, <3>1, AppOnlySound
      <3>3. response' = x
        BY <3>1
      <3> HIDE DEF x
      <3>4. ResponseSound'
        BY <2>1, <3>2, <3>3, ResponseStep
      <3>5. QED
        BY <1>1, <2>1, <3>4
    <2>4. QED
      BY <2>2, <2>3
  <1>6. ASSUME NEW app \in Apps, NEW user \in Users, NEW kind \in Kinds, Generate(app, user, kind)
        PROVE  IInv'
    <2>1. UNCHANGED <<config, grant, approved, edits>> /\ GrantOK' /\ app \in apps
      BY <1>0, <1>6 DEF Generate, GrantOK, GrantApproved
    <2> DEFINE token == previewToken(app, user, kind)
               x == [flow |-> "preview", resource |-> app, scopes |-> {},
                     access |-> IF kind = "accessToken" THEN token ELSE None,
                     id |-> IF kind = "idToken" THEN token ELSE None]
    <2>2. Typed(x)
      BY <1>0, <2>1, PreviewTyped DEF Typed
    <2>3. TakenByGraph(x) /\ x.flow = "preview" /\ response' = x
      BY <1>6 DEF Generate, TakenByGraph
    <2> HIDE DEF x
    <2>4. ResponseSound'
      BY <2>1, <2>2, <2>3, ResponseStep
    <2>5. QED
      BY <1>1, <2>1, <2>4
  <1>7. ASSUME NEW a \in Apps, NEW u \in Uris \union {None}, PatchUri(a, u) PROVE IInv'
    <2>1. ConfigOK'
      BY <1>0, <1>7 DEF PatchUri, ConfigOK
    <2>2. UrisUnique'
      BY <1>0, <1>7 DEF PatchUri, ConfigOK, UrisUnique, WithUri
    <2>3. QED
      BY <1>7, <2>1, <2>2, EditKeeps DEF PatchUri
  <1>8. ASSUME NEW a \in Apps, PatchTokenConfiguration(a) PROVE IInv'
    <2>1. ConfigOK'
      <3>1. /\ \/ optional' = optional
               \/ \E kind \in Kinds, c \in ClaimNames :
                      optional' = Toggled(<<a, kind, c>>, optional)
            /\ memberships' = memberships \/ memberships' = Toggled(a, memberships)
            /\ \/ limit' = limit
               \/ \E l \in Limits \union {None} : limit' = [limit EXCEPT ![a] = l]
            /\ a \in apps /\ UNCHANGED <<apps, uri, exposed, roles, member>>
        BY <1>8 DEF PatchTokenConfiguration
      <3>2. optional' \subseteq apps' \X Kinds \X ClaimNames
        <4>1. \A kind \in Kinds, c \in ClaimNames : <<a, kind, c>> \in apps \X Kinds \X ClaimNames
          BY <3>1
        <4>2. optional \in SUBSET (apps \X Kinds \X ClaimNames) /\ apps' = apps
          BY <1>0, <3>1 DEF ConfigOK
        <4>3. ASSUME NEW kind \in Kinds, NEW c \in ClaimNames,
                     optional' = Toggled(<<a, kind, c>>, optional)
              PROVE  optional' \subseteq apps \X Kinds \X ClaimNames
          <5> DEFINE x == <<a, kind, c>>
          <5>1. x \in apps \X Kinds \X ClaimNames
            BY <4>1
          <5> HIDE DEF x
          <5>2. Toggled(x, optional) \subseteq apps \X Kinds \X ClaimNames
            BY <4>2, <5>1, ToggledWithin
          <5>3. QED
            BY <4>3, <5>2 DEF x
        <4>4. QED
          BY <3>1, <4>2, <4>3
      <3>3. memberships' \subseteq apps'
        BY <1>0, <3>1 DEF ConfigOK, Toggled
      <3>4. limit' \in [Apps -> Limits \union {None}]
        BY <1>0, <3>1 DEF ConfigOK
      <3>5. QED
        BY <1>0, <3>1, <3>2, <3>3, <3>4 DEF ConfigOK
    <2>2. UrisUnique'
      BY <1>0, <1>8 DEF PatchTokenConfiguration, UrisUnique
    <2>3. QED
      BY <1>8, <2>1, <2>2, EditKeeps DEF PatchTokenConfiguration
  <1>9. ASSUME NEW a \in Apps, EditParts(a) PROVE IInv'
    <2>1. ConfigOK'
      <3>1. /\ exposed' = exposed \/ \E name \in ScopeValues :
                                       exposed' = Toggled(<<a, name>>, exposed)
            /\ roles' = roles \/ \E r \in Roles : roles' = Toggled(<<a, r>>, roles)
            /\ a \in apps /\ UNCHANGED <<apps, uri, optional, memberships, limit, member>>
        BY <1>9 DEF EditParts
      <3>2. exposed' \subseteq apps' \X ScopeValues
        <4>1. \A name \in ScopeValues : <<a, name>> \in apps \X ScopeValues
          BY <3>1
        <4>2. exposed \in SUBSET (apps \X ScopeValues) /\ apps' = apps
          BY <1>0, <3>1 DEF ConfigOK
        <4>3. QED
          BY <3>1, <4>1, <4>2, ToggledWithin
      <3>3. roles' \subseteq apps' \X Roles
        <4>1. \A r \in Roles : <<a, r>> \in apps \X Roles
          BY <3>1
        <4>2. roles \in SUBSET (apps \X Roles) /\ apps' = apps
          BY <1>0, <3>1 DEF ConfigOK
        <4>3. QED
          BY <3>1, <4>1, <4>2, ToggledWithin
      <3>4. QED
        BY <1>0, <3>1, <3>2, <3>3 DEF ConfigOK
    <2>2. UrisUnique'
      BY <1>0, <1>9 DEF EditParts, UrisUnique
    <2>3. QED
      BY <1>9, <2>1, <2>2, EditKeeps DEF EditParts
  <1>10. ASSUME NEW u \in Users, NEW g \in Groups, EditMembership(u, g) PROVE IInv'
    <2>1. ConfigOK' /\ UrisUnique'
      BY <1>0, <1>10 DEF EditMembership, ConfigOK, UrisUnique, Toggled
    <2>2. QED
      BY <1>10, <2>1, EditKeeps DEF EditMembership
  <1>11. ASSUME NEW a \in Apps, DeleteApp(a) PROVE IInv'
    <2>1. /\ apps' = apps \ {a} /\ uri' = [uri EXCEPT ![a] = None]
          /\ limit' = [limit EXCEPT ![a] = None] /\ memberships' = memberships \ {a}
          /\ exposed' = {e \in exposed : e[1] # a} /\ roles' = {r \in roles : r[1] # a}
          /\ optional' = {o \in optional : o[1] # a} /\ member' = member
      BY <1>11 DEF DeleteApp
    <2>2. /\ apps' \subseteq Apps /\ uri' \in [Apps -> Uris \union {None}]
          /\ limit' \in [Apps -> Limits \union {None}] /\ memberships' \subseteq apps'
          /\ member' \subseteq Users \X Groups
      BY <1>0, <2>1 DEF ConfigOK
    <2>3. exposed' \subseteq apps' \X ScopeValues /\ roles' \subseteq apps' \X Roles
      BY <1>0, <2>1 DEF ConfigOK
    <2>4. optional' \subseteq apps' \X Kinds \X ClaimNames
      BY <1>0, <2>1 DEF ConfigOK
    <2>5. UrisUnique'
      BY <1>0, <2>1 DEF ConfigOK, UrisUnique
    <2>6. QED
      BY <1>11, <2>2, <2>3, <2>4, <2>5, EditKeeps DEF DeleteApp, ConfigOK
  <1>12. CASE UNCHANGED vars
    <2>1. UNCHANGED <<config, grant, response, approved, edits>>
      BY <1>12 DEF vars
    <2>2. GrantOK'
      BY <1>0, <2>1 DEF GrantOK, GrantApproved
    <2>3. ResponseSound'
      <3>1. CASE response = None
        BY <2>1, <3>1, NoResponse
      <3>2. CASE response # None
        <4>1. Typed(response) /\ TakenByGraph(response)
          BY <1>0, <3>2 DEF ResponseSound, GraphTakesItsOwn, TakenByGraph
        <4>2. response.flow # "preview" => Governed(response)
          BY <1>0, <3>2 DEF ResponseSound, AudienceGoverns, Governed, AccessGoverned
        <4>3. response.flow = "delegated" =>
                  /\ response.scopes \subseteq approved
                  /\ response.access.scp \subseteq scopeNames(approved)
          BY <1>0, <3>2 DEF ResponseSound, ScopesWereApproved
        <4>4. response' = response /\ UNCHANGED <<config, approved>>
          BY <2>1
        <4>5. QED
          BY <4>1, <4>2, <4>3, <4>4, ResponseStep
      <3>3. QED
        BY <3>1, <3>2
    <2>4. QED
      BY <1>1, <2>1, <2>2, <2>3
  <1>13. QED
    BY <1>2, <1>3, <1>4, <1>5, <1>6, <1>7, <1>8, <1>9, <1>10, <1>11, <1>12 DEF Next

(***************************************************************************)
(* However a grant is redeemed, refreshed and narrowed, it never names a   *)
(* scope that its authorization did not find allowed.                      *)
(***************************************************************************)
THEOREM SoundGrants == Spec => []GrantsSound
  <1>1. IInv => GrantsSound
    BY TypesFollow DEF IInv, ResponseSound, GrantsSound
  <1>2. QED
    BY <1>1, Init_IInv, Next_IInv, PTL DEF Spec

(***************************************************************************)
(* Graph and userinfo take the tokens of grants for Graph, and no others.  *)
(***************************************************************************)
THEOREM GraphIsApart == Spec => []GraphTakesItsOwn
  <1>1. IInv => GraphTakesItsOwn
    BY DEF IInv, ResponseSound
  <1>2. QED
    BY <1>1, Init_IInv, Next_IInv, PTL DEF Spec

(***************************************************************************)
(* Roles and groups in a token are those its audience's registration       *)
(* allows.                                                                 *)
(***************************************************************************)
THEOREM GovernedByAudience == Spec => []AudienceGoverns
  <1>1. IInv => AudienceGoverns
    BY DEF IInv, ResponseSound
  <1>2. QED
    BY <1>1, Init_IInv, Next_IInv, PTL DEF Spec

(***************************************************************************)
(* The claims previewed for an app are those of the tokens issued for it.  *)
(***************************************************************************)
THEOREM PreviewIsIssued == Spec => []PreviewMatches
  <1>1. IInv => PreviewMatches
    <2> SUFFICES ASSUME IInv, NEW a \in apps, NEW u \in Users
                 PROVE  /\ \A c \in apps, r \in {a, uri[a]} \ ({None, Graph} \union UnderGraph) :
                              AccessClaims(c, resolveAudience(r), u)
                                  = previewToken(a, u, "accessToken").claims
                        /\ buildIdTokenClaims(a, u, {[resource |-> None, name |-> "email"]})
                              = previewToken(a, u, "idToken")
      BY DEF PreviewMatches
    <2>0. TypeOK /\ UrisUnique /\ a \in Apps
      BY TypesFollow DEF IInv, TypeOK
    <2>1. ASSUME NEW c \in apps, NEW r \in {a, uri[a]} \ ({None, Graph} \union UnderGraph)
          PROVE  AccessClaims(c, resolveAudience(r), u)
                     = previewToken(a, u, "accessToken").claims
      <3>1. resolveAudience(r) = a
        <4>1. r \in Audiences /\ ~NamesGraph(r)
          BY <2>0 DEF TypeOK, Audiences, NamesGraph
        <4>2. CASE r = a
          BY <2>0, <4>1, <4>2, OwnerIsUnique DEF resolveAudience
        <4>3. CASE r = uri[a]
          <5>1. a \in WithUri(r)
            BY <4>3 DEF WithUri
          <5>2. QED
            BY <2>0, <4>1, <5>1, OwnerIsUnique DEF resolveAudience
        <4>4. QED
          BY <4>2, <4>3
      <3>2. QED
        BY <3>1 DEF AccessClaims, previewToken
    <2>2. scopeNames({[resource |-> None, name |-> "email"]}) = {"email"}
      BY DEF scopeNames
    <2>3. buildIdTokenClaims(a, u, {[resource |-> None, name |-> "email"]})
              = previewToken(a, u, "idToken")
      <3>1. {c \in {"email"} : c \in {"email"} /\ u \in WithMail}
                = {c \in {"email"} : u \in WithMail}
        OBVIOUS
      <3>2. QED
        BY <2>2, <3>1 DEF buildIdTokenClaims, previewToken
    <2>4. QED
      BY <2>1, <2>3
  <1>2. QED
    BY <1>1, Init_IInv, Next_IInv, PTL DEF Spec

=============================================================================
