---------------------------- MODULE DirectoryProofs ----------------------------
(***************************************************************************)
(* Proofs about Directory, for any number of users, groups, apps and what  *)
(* belongs to them, and for any seed whose references and unique columns   *)
(* are sound.                                                              *)
(***************************************************************************)
EXTENDS Directory, TLAPS

\* Before the first seed nobody can be created: a boot that seeds cannot run into a user that
\* took the name of a seeded one.
NobodyBeforeSeed == ~tenant => \A u \in Users : ~IsUser(u)

\* A restart seeds without any check: NobodyBeforeSeed is what keeps its memberships sound.
IInv == TypeOK /\ ReferencesHold /\ SharedUrisAreSeeded /\ NobodyBeforeSeed

-----------------------------------------------------------------------------
\* What is seeded has its type.
LEMMA SeedIsTyped ==
    /\ SeedUsers \subseteq Users /\ SeedApps \subseteq Apps /\ SeedGroups \subseteq Groups
    /\ SeedMembers \subseteq Groups \X Users
    /\ SeedParts \subseteq Apps \X PartValues
    /\ \A m \in SeedMembers : m[1] \in SeedGroups /\ m[2] \in SeedUsers
    /\ \A p \in SeedParts : p[1] \in SeedApps
  BY ConstantsAssumption DEF SeedGroups

\* INSERT OR IGNORE keeps the types of the columns and the rows there are.
LEMMA SeededUsersType ==
    ASSUME NEW from \in [Users -> Upns \cup {Absent}]
    PROVE  /\ SeededUsers(from) \in [Users -> Upns \cup {Absent}]
           /\ \A u \in Users : from[u] # Absent => SeededUsers(from)[u] = from[u]
  BY ConstantsAssumption DEF SeededUsers

\* The same of the apps, and every seeded app is there.
LEMMA SeededAppsType ==
    ASSUME NEW from \in [Apps -> AppIdUris \cup {NoUri, Absent}]
    PROVE  /\ SeededApps(from) \in [Apps -> AppIdUris \cup {NoUri, Absent}]
           /\ \A a \in Apps : from[a] # Absent => SeededApps(from)[a] = from[a]
           /\ \A a \in SeedApps : SeededApps(from)[a] # Absent
           /\ \A a \in Apps : SeededApps(from)[a] # from[a] =>
                  a \in SeedApps /\ SeededApps(from)[a] = SeedUri[a]
  BY ConstantsAssumption DEF SeededApps

\* A seed of an empty database brings in the seeded users and apps and no others: it never
\* fails.
LEMMA SeedOfEmpty ==
    /\ \A u \in Users : SeededUsers([v \in Users |-> Absent])[u] =
                            IF u \in SeedUsers THEN SeedUpn[u] ELSE Absent
    /\ \A a \in Apps : SeededApps([b \in Apps |-> Absent])[a] =
                            IF a \in SeedApps THEN SeedUri[a] ELSE Absent
    /\ \A u \in SeedUsers : SeededUsers([v \in Users |-> Absent])[u] # Absent
  BY ConstantsAssumption DEF SeededUsers, SeededApps

\* No table is emptied before the tables whose rows refer to it.
LEMMA OrderClears == Clears(DATA_TABLES_IN_ORDER)
  <1> DEFINE order == DATA_TABLES_IN_ORDER
  <1>1. SUFFICES ASSUME NEW i \in DOMAIN order, NEW r \in Restricted, r[2] = order[i]
                 PROVE  \E j \in 1..(i - 1) : order[j] = r[1]
    BY DEF Clears
  <1>2. /\ DOMAIN order = 1..12
        /\ order[3] = "authorization_codes" /\ order[4] = "refresh_tokens"
        /\ order[5] = "device_codes"
    BY DEF DATA_TABLES_IN_ORDER
  <1>3. i \in 6..12
    <2>1. i = 1 \/ i = 2 \/ i = 3 \/ i = 4 \/ i = 5 \/ i \in 6..12
      BY <1>2
    <2>2. r[2] \in {"users", "app_registrations"}
      BY DEF Restricted
    <2>3. QED
      BY <1>1, <2>1, <2>2 DEF DATA_TABLES_IN_ORDER
  <1>4. r[1] \in {order[3], order[4], order[5]}
    BY <1>2 DEF Restricted
  <1>5. 3 \in 1..(i - 1) /\ 4 \in 1..(i - 1) /\ 5 \in 1..(i - 1)
    BY <1>3
  <1>6. QED
    BY <1>4, <1>5

\* A seed that goes through leaves every table sound, whatever it found in them.
LEMMA SeedKeeps ==
    ASSUME NEW us \in [Users -> Upns \cup {Absent}], NEW gs \in SUBSET Groups,
           NEW ms \in SUBSET (Groups \X Users), NEW as \in [Apps -> AppIdUris \cup {NoUri, Absent}],
           NEW ps \in SUBSET (Apps \X PartValues), rows' \subseteq Row,
           \A m \in ms : m[1] \in gs /\ us[m[2]] # Absent,
           \A p \in ps : as[p[1]] # Absent,
           \A r \in rows' : as[r.app] # Absent /\ (r.user # NoUser => us[r.user] # Absent),
           \A a, b \in Apps : a # b /\ as[a] = as[b] /\ as[a] \in AppIdUris =>
               \E c \in {a, b} \cap SeedApps : as[c] = SeedUri[c],
           ~SeedFails(us), SeedTables(us, gs, ms, as, ps), answer' \in Answer
    PROVE  IInv'
  <1>1. TypeOK'
    BY SeedIsTyped, SeededUsersType, SeededAppsType DEF SeedTables, TypeOK
  <1>2. \A m \in members' : m[1] \in groups' /\ IsUser(m[2])'
    BY SeedIsTyped, SeededUsersType DEF SeedTables, SeedFails, IsUser
  <1>3. \A p \in parts' : IsApp(p[1])'
    BY SeedIsTyped, SeededAppsType DEF SeedTables, IsApp
  <1>4. \A r \in rows' : IsApp(r.app)' /\ (r.user # NoUser => IsUser(r.user)')
    BY SeededUsersType, SeededAppsType DEF SeedTables, IsApp, IsUser, Row
  <1>5. SharedUrisAreSeeded'
    <2>1. SUFFICES ASSUME NEW a \in Apps, NEW b \in Apps, a # b, apps'[a] = apps'[b],
                          apps'[a] \in AppIdUris
                   PROVE  \E c \in {a, b} \cap SeedApps : apps'[c] = SeedUri[c]
      BY DEF SharedUrisAreSeeded
    <2>2. apps' = SeededApps(as)
      BY DEF SeedTables
    <2>3. CASE apps'[a] # as[a]
      BY <2>2, <2>3, SeededAppsType
    <2>4. CASE apps'[b] # as[b]
      BY <2>2, <2>4, SeededAppsType
    <2>5. CASE apps'[a] = as[a] /\ apps'[b] = as[b]
      <3>1. PICK c \in {a, b} \cap SeedApps : as[c] = SeedUri[c]
        BY <2>1, <2>5
      <3>2. QED
        BY <2>5, <3>1
    <2>6. QED
      BY <2>3, <2>4, <2>5
  <1>6. QED
    BY <1>1, <1>2, <1>3, <1>4, <1>5 DEF IInv, ReferencesHold, NobodyBeforeSeed, SeedTables

-----------------------------------------------------------------------------
\* The inductive invariant holds of a new database, seeded or not.
LEMMA Init_IInv == Init => IInv
  <1> SUFFICES ASSUME Init
               PROVE  IInv
    OBVIOUS
  <1>1. rows = {} /\ answer \in Answer
    BY DEF Init, Answer
  <1>2. CASE ~tenant
    BY <1>1, <1>2, ConstantsAssumption
       DEF Init, IInv, TypeOK, ReferencesHold, SharedUrisAreSeeded, NobodyBeforeSeed, IsUser
  <1>3. CASE tenant
    <2>1. TypeOK
      BY <1>1, <1>3, SeedIsTyped, ConstantsAssumption DEF Init, TypeOK
    <2>2. ReferencesHold
      BY <1>1, <1>3, SeedIsTyped, ConstantsAssumption DEF Init, ReferencesHold, IsUser, IsApp
    <2>3. SharedUrisAreSeeded
      BY <1>3, ConstantsAssumption DEF Init, SharedUrisAreSeeded
    <2>4. QED
      BY <1>3, <2>1, <2>2, <2>3 DEF IInv, NobodyBeforeSeed
  <1>4. QED
    BY <1>2, <1>3 DEF Init

\* A refused request keeps everything but the answer.
LEMMA Refused_IInv ==
    ASSUME IInv, UNCHANGED directory, answer' \in Answer
    PROVE  IInv'
  BY DEF IInv, TypeOK, ReferencesHold, SharedUrisAreSeeded, NobodyBeforeSeed, IsUser, IsApp,
         directory

\* The answers of the requests have their type.
LEMMA AnswerType ==
    ASSUME NEW op, NEW code, Answered(op, code),
           op \in {"none", "change", "skip", "seed", "clear", "reset"},
           code \in {"done", "conflict", "invalid_reference"}
    PROVE  answer' \in Answer
  BY DEF Answered, Answer

\* Requests about users and groups keep it.
LEMMA People_IInv ==
    ASSUME IInv,
           \/ \E u \in Users, upn \in Upns : CreateUser(u, upn) \/ PatchUser(u, upn)
           \/ \E u \in Users : DeleteUser(u)
           \/ \E g \in Groups : CreateGroup(g) \/ DeleteGroup(g)
           \/ \E g \in Groups, u \in Users : AddMember(g, u) \/ RemoveMember(g, u)
    PROVE  IInv'
  <1>1. answer' \in Answer
    BY AnswerType
       DEF CreateUser, PatchUser, DeleteUser, CreateGroup, DeleteGroup, AddMember, RemoveMember,
           Refused
  <1>2. CASE UNCHANGED directory
    BY <1>1, <1>2, Refused_IInv
  <1>3. ASSUME NEW u \in Users, NEW upn \in Upns, IsUser(u) \/ tenant,
               users' = [users EXCEPT ![u] = upn],
               UNCHANGED <<tenant, groups, members, apps, parts, rows>>
        PROVE  IInv'
    <2>1. TypeOK' /\ SharedUrisAreSeeded'
      BY <1>1, <1>3 DEF IInv, TypeOK, SharedUrisAreSeeded
    <2>2. \A v \in Users : IsUser(v) => IsUser(v)'
      BY <1>3, ConstantsAssumption DEF IInv, TypeOK, IsUser
    <2>3. ReferencesHold'
      BY <1>3, <2>2 DEF IInv, TypeOK, ReferencesHold, IsApp, Row
    <2>4. NobodyBeforeSeed'
      BY <1>3 DEF IInv, NobodyBeforeSeed
    <2>5. QED
      BY <2>1, <2>3, <2>4 DEF IInv
  <1>4. ASSUME NEW u \in Users, DeleteUser(u)
        PROVE  IInv'
    <2>1. CASE HasRowsOfUser(u)
      BY <1>2, <1>4, <2>1 DEF DeleteUser, Refused
    <2>2. CASE ~HasRowsOfUser(u)
      <3>1. /\ users' = [users EXCEPT ![u] = Absent]
            /\ members' = {m \in members : m[2] # u}
            /\ UNCHANGED <<tenant, groups, apps, parts, rows>>
        BY <1>4, <2>2 DEF DeleteUser
      <3>2. TypeOK' /\ SharedUrisAreSeeded'
        BY <1>1, <3>1 DEF IInv, TypeOK, SharedUrisAreSeeded
      <3>3. ReferencesHold'
        BY <2>2, <3>1 DEF IInv, TypeOK, ReferencesHold, IsUser, IsApp, HasRowsOfUser, Row
      <3>4. NobodyBeforeSeed'
        BY <3>1 DEF IInv, TypeOK, NobodyBeforeSeed, IsUser
      <3>5. QED
        BY <3>2, <3>3, <3>4 DEF IInv
    <2>3. QED
      BY <2>1, <2>2
  <1>5. ASSUME NEW g \in Groups, NEW gone \in SUBSET members, UNCHANGED <<tenant, users, apps, parts, rows>>,
               \/ groups' = groups \cup {g} /\ members' = members
               \/ groups' = groups \ {g} /\ members' = {m \in members : m[1] # g}
               \/ groups' = groups /\ members' = members \ gone
               \/ groups' = groups /\ g \in groups
                  /\ \E u \in Users : IsUser(u) /\ members' = members \cup {<<g, u>>}
        PROVE  IInv'
    <2>1. TypeOK' /\ SharedUrisAreSeeded'
      BY <1>1, <1>5 DEF IInv, TypeOK, SharedUrisAreSeeded
    <2>2. ReferencesHold'
      BY <1>5 DEF IInv, TypeOK, ReferencesHold, IsUser, IsApp
    <2>3. QED
      BY <1>5, <2>1, <2>2 DEF IInv, NobodyBeforeSeed, IsUser
  <1>6. CASE \E g \in Groups : CreateGroup(g) \/ DeleteGroup(g)
    BY <1>2, <1>5, <1>6 DEF CreateGroup, DeleteGroup, Refused
  <1>7. CASE \E g \in Groups, u \in Users : AddMember(g, u) \/ RemoveMember(g, u)
    <2>1. PICK g \in Groups, u \in Users : AddMember(g, u) \/ RemoveMember(g, u)
      BY <1>7
    <2>2. CASE AddMember(g, u)
      BY <1>2, <1>5, <2>2 DEF AddMember, Refused, Membership
    <2>3. CASE RemoveMember(g, u)
      <3>1. members' = members \ (members \cap {<<g, u>>})
        BY <2>3 DEF RemoveMember, Membership
      <3>2. QED
        BY <1>5, <2>3, <3>1 DEF RemoveMember
    <2>4. QED
      BY <2>1, <2>2, <2>3
  <1>8. CASE \E u \in Users, upn \in Upns : CreateUser(u, upn) \/ PatchUser(u, upn)
    BY <1>2, <1>3, <1>8 DEF CreateUser, PatchUser, Refused
  <1>9. QED
    BY <1>4, <1>6, <1>7, <1>8

\* Requests about apps keep it.
LEMMA Apps_IInv ==
    ASSUME IInv, NEW a \in Apps,
           \/ \E uri \in AppIdUris \cup {NoUri}, list \in RedirectLists : CreateApp(a, uri, list)
           \/ \E uri \in AppIdUris \cup {NoUri} : PatchApp(a, uri)
           \/ DeleteApp(a)
           \/ \E v \in PartValues : AddPart(a, v) \/ RemovePart(a, v)
    PROVE  IInv'
  <1>1. answer' \in Answer
    BY AnswerType DEF CreateApp, PatchApp, DeleteApp, AddPart, RemovePart, Refused
  <1>2. CASE UNCHANGED directory
    BY <1>1, <1>2, Refused_IInv
  <1>3. ASSUME NEW uri \in AppIdUris \cup {NoUri}, NEW new \in SUBSET PartValues,
               uri # NoUri => apps[a] = uri \/ \A b \in Apps : apps[b] # uri,
               apps' = [apps EXCEPT ![a] = uri], parts' = parts \cup ({a} \X new),
               UNCHANGED <<tenant, users, groups, members, rows>>
        PROVE  IInv'
    <2>1. TypeOK'
      BY <1>1, <1>3 DEF IInv, TypeOK
    <2>2. IsApp(a)' /\ \A b \in Apps : IsApp(b) => IsApp(b)'
      BY <1>3, ConstantsAssumption DEF IInv, TypeOK, IsApp
    <2>3. ReferencesHold'
      BY <1>3, <2>2 DEF IInv, TypeOK, ReferencesHold, IsUser, Row
    <2>4. SharedUrisAreSeeded'
      <3>1. SUFFICES ASSUME NEW b \in Apps, NEW c \in Apps, b # c, apps'[b] = apps'[c],
                            apps'[b] \in AppIdUris
                     PROVE  \E d \in {b, c} \cap SeedApps : apps'[d] = SeedUri[d]
        BY DEF SharedUrisAreSeeded
      <3>2. apps'[b] = apps[b] /\ apps'[c] = apps[c]
        BY <1>3, <3>1, ConstantsAssumption DEF IInv, TypeOK
      <3>3. PICK d \in {b, c} \cap SeedApps : apps[d] = SeedUri[d]
        BY <3>1, <3>2 DEF IInv, SharedUrisAreSeeded
      <3>4. QED
        BY <3>2, <3>3
    <2>5. QED
      BY <1>3, <2>1, <2>3, <2>4 DEF IInv, NobodyBeforeSeed, IsUser
  <1>4. ASSUME NEW uri \in AppIdUris \cup {NoUri}, NEW list \in RedirectLists, CreateApp(a, uri, list)
        PROVE  IInv'
    <2>1. InsertedRedirects(list) \in SUBSET PartValues
      BY DEF InsertedRedirects, RedirectLists, PartValues
    <2>2. QED
      BY <1>2, <1>3, <1>4, <2>1 DEF CreateApp, UriTaken, Refused
  <1>5. ASSUME NEW uri \in AppIdUris \cup {NoUri}, PatchApp(a, uri)
        PROVE  IInv'
    <2>1. CASE Refused("change", "conflict")
      BY <1>2, <2>1 DEF Refused
    <2>2. CASE /\ uri = NoUri \/ apps[a] = uri \/ \A b \in Apps : apps[b] # uri
               /\ apps' = [apps EXCEPT ![a] = uri]
               /\ UNCHANGED <<tenant, users, groups, members, parts, rows>>
      <3>1. parts' = parts \cup ({a} \X {}) /\ {} \in SUBSET PartValues
        BY <2>2
      <3>2. QED
        BY <1>3, <2>2, <3>1
    <2>3. QED
      BY <1>5, <2>1, <2>2 DEF PatchApp
  <1>6. CASE DeleteApp(a)
    <2>1. CASE HasRowsOfApp(a)
      BY <1>2, <1>6, <2>1 DEF DeleteApp, Refused
    <2>2. CASE ~HasRowsOfApp(a)
      <3>1. /\ apps' = [apps EXCEPT ![a] = Absent]
            /\ parts' = {p \in parts : p[1] # a}
            /\ UNCHANGED <<tenant, users, groups, members, rows>>
        BY <1>6, <2>2 DEF DeleteApp
      <3>2. TypeOK'
        BY <1>1, <3>1 DEF IInv, TypeOK
      <3>3. ReferencesHold'
        BY <2>2, <3>1 DEF IInv, TypeOK, ReferencesHold, IsUser, IsApp, HasRowsOfApp, Row
      <3>4. SharedUrisAreSeeded'
        BY <3>1, ConstantsAssumption DEF IInv, TypeOK, SharedUrisAreSeeded
      <3>5. QED
        BY <3>1, <3>2, <3>3, <3>4 DEF IInv, NobodyBeforeSeed, IsUser
    <2>3. QED
      BY <2>1, <2>2
  <1>7. ASSUME NEW v \in PartValues, AddPart(a, v) \/ RemovePart(a, v)
        PROVE  IInv'
    <2>1. CASE /\ IsApp(a) /\ UNCHANGED <<tenant, users, groups, members, apps, rows>>
               /\ parts' = parts \cup {<<a, v>>} \/ parts' = parts \ {<<a, v>>}
      BY <1>1, <2>1
         DEF IInv, TypeOK, ReferencesHold, SharedUrisAreSeeded, NobodyBeforeSeed, IsUser, IsApp
    <2>2. QED
      BY <1>2, <1>7, <2>1 DEF AddPart, RemovePart, Refused
  <1>8. QED
    BY <1>4, <1>5, <1>6, <1>7

\* Every step keeps it: seeds, resets, restarts and the rows of codes and tokens as well.
LEMMA Next_IInv == IInv /\ [Next]_vars => IInv'
  <1> SUFFICES ASSUME IInv, [Next]_vars
               PROVE  IInv'
    OBVIOUS
  <1>1. ASSUME ~SeedFails(users), SeedTables(users, groups, members, apps, parts), UNCHANGED rows,
               answer' \in Answer
        PROVE  IInv'
    <2>1. /\ \A m \in members : m[1] \in groups /\ users[m[2]] # Absent
          /\ \A p \in parts : apps[p[1]] # Absent
          /\ \A r \in rows' : apps[r.app] # Absent /\ (r.user # NoUser => users[r.user] # Absent)
      BY <1>1 DEF IInv, ReferencesHold, IsUser, IsApp
    <2>2. /\ users \in [Users -> Upns \cup {Absent}] /\ groups \in SUBSET Groups
          /\ members \in SUBSET (Groups \X Users)
          /\ apps \in [Apps -> AppIdUris \cup {NoUri, Absent}]
          /\ parts \in SUBSET (Apps \X PartValues) /\ rows' \subseteq Row
      BY <1>1 DEF IInv, TypeOK
    <2>3. \A a, b \in Apps : a # b /\ apps[a] = apps[b] /\ apps[a] \in AppIdUris =>
              \E c \in {a, b} \cap SeedApps : apps[c] = SeedUri[c]
      BY DEF IInv, SharedUrisAreSeeded
    <2>4. QED
      BY <1>1, <2>1, <2>2, <2>3, SeedKeeps
  <1>2. ASSUME NEW force \in BOOLEAN, Seed(force)
        PROVE  IInv'
    <2>1. answer' \in Answer
      BY <1>2, AnswerType DEF Seed, Refused
    <2>2. QED
      BY <1>1, <1>2, <2>1, Refused_IInv DEF Seed, Refused
  <1>3. ASSUME NEW reseed \in BOOLEAN, Reset(reseed)
        PROVE  IInv'
    <2>1. answer' \in Answer /\ rows' = {}
      BY <1>3, AnswerType, OrderClears DEF Reset, Refused
    <2>2. CASE reseed
      <3>1. SeedTables([u \in Users |-> Absent], {}, {}, [a \in Apps |-> Absent], {})
        BY <1>3, <2>2, OrderClears DEF Reset
      <3>2. ~SeedFails([u \in Users |-> Absent])
        BY SeedOfEmpty, SeedIsTyped DEF SeedFails
      <3>3. QED
        BY <2>1, <3>1, <3>2, SeedKeeps, ConstantsAssumption
    <2>3. CASE ~reseed
      <3>1. /\ users' = [u \in Users |-> Absent] /\ apps' = [a \in Apps |-> Absent]
            /\ groups' = {} /\ members' = {} /\ parts' = {} /\ UNCHANGED tenant
        BY <1>3, <2>3, OrderClears DEF Reset
      <3>2. QED
        BY <2>1, <3>1, ConstantsAssumption
           DEF IInv, TypeOK, ReferencesHold, SharedUrisAreSeeded, NobodyBeforeSeed, IsUser
    <2>4. QED
      BY <2>2, <2>3
  <1>4. ASSUME NEW seedOnStart \in BOOLEAN, Restart(seedOnStart)
        PROVE  IInv'
    <2>1. answer' \in Answer
      BY <1>4, AnswerType DEF Restart
    <2>2. ~tenant => ~SeedFails(users)
      <3>1. SUFFICES ASSUME ~tenant
                     PROVE  ~SeedFails(users)
        OBVIOUS
      <3>2. users = [u \in Users |-> Absent]
        BY <3>1 DEF IInv, TypeOK, NobodyBeforeSeed, IsUser
      <3>3. QED
        BY <3>2, SeedOfEmpty, SeedIsTyped DEF SeedFails
    <2>3. QED
      BY <1>1, <1>4, <2>1, <2>2, Refused_IInv DEF Restart
  <1>5. ASSUME NEW r \in Row, StoreRow(r) \/ DropDeviceCode(r)
        PROVE  IInv'
    <2>1. /\ answer' \in Answer /\ UNCHANGED <<tenant, users, groups, members, apps, parts>>
          /\ rows' \subseteq rows \/ (IsApp(r.app) /\ (r.user # NoUser => IsUser(r.user))
                                     /\ rows' = rows \cup {r})
      BY <1>5, AnswerType DEF StoreRow, DropDeviceCode
    <2>2. QED
      BY <2>1
         DEF IInv, TypeOK, ReferencesHold, SharedUrisAreSeeded, NobodyBeforeSeed, IsUser, IsApp
  <1>6. CASE UNCHANGED vars
    BY <1>6, Refused_IInv DEF vars, directory, IInv, TypeOK
  <1>7. QED
    <2>1. \A r \in rows : r \in Row
      BY DEF IInv, TypeOK
    <2>2. CASE \/ \E u \in Users, upn \in Upns : CreateUser(u, upn)
               \/ \E u \in Users, upn \in Upns : PatchUser(u, upn)
               \/ \E u \in Users : DeleteUser(u)
               \/ \E g \in Groups : CreateGroup(g)
               \/ \E g \in Groups : DeleteGroup(g)
               \/ \E g \in Groups, u \in Users : AddMember(g, u)
               \/ \E g \in Groups, u \in Users : RemoveMember(g, u)
      BY <2>2, People_IInv
    <2>3. CASE \/ \E a \in Apps, uri \in AppIdUris \cup {NoUri}, list \in RedirectLists :
                        CreateApp(a, uri, list)
               \/ \E a \in Apps, uri \in AppIdUris \cup {NoUri} : PatchApp(a, uri)
               \/ \E a \in Apps : DeleteApp(a)
               \/ \E a \in Apps, v \in PartValues : AddPart(a, v)
               \/ \E a \in Apps, v \in PartValues : RemovePart(a, v)
      BY <2>3, Apps_IInv
    <2>4. CASE \/ \E r \in Row : StoreRow(r)
               \/ \E r \in rows : DropDeviceCode(r)
      <3>1. CASE \E r \in Row : StoreRow(r)
        BY <1>5, <3>1
      <3>2. CASE \E r \in rows : DropDeviceCode(r)
        BY <1>5, <2>1, <3>2
      <3>3. QED
        BY <2>4, <3>1, <3>2
    <2>5. CASE \/ \E force \in BOOLEAN : Seed(force)
               \/ \E reseed \in BOOLEAN : Reset(reseed)
               \/ \E seedOnStart \in BOOLEAN : Restart(seedOnStart)
      BY <1>2, <1>3, <1>4, <2>5
    <2>6. QED
      BY <1>6, <2>2, <2>3, <2>4, <2>5 DEF Next

-----------------------------------------------------------------------------
\* Every variable has its type and no row refers to a user, a group or an app that is gone.
THEOREM SoundDirectory == Spec => []DirectorySound
  <1>1. IInv => DirectorySound
    BY DEF IInv, DirectorySound
  <1>2. QED
    BY <1>1, Init_IInv, Next_IInv, PTL DEF Spec

\* Two apps share an app_id_uri only if one of them is a seeded app with its seeded URI.
THEOREM SharedBySeedOnly == Spec => []SharedUrisAreSeeded
  <1>1. IInv => SharedUrisAreSeeded
    BY DEF IInv
  <1>2. QED
    BY <1>1, Init_IInv, Next_IInv, PTL DEF Spec

\* A reset is never refused, and one with reseeding ends in exactly the seeded directory.
THEOREM ResetReseeds == Spec => []ResetRestoresSeed
  <1>1. Init => ResetRestoresSeed
    BY DEF Init, ResetRestoresSeed
  <1>2. ASSUME ResetRestoresSeed, [Next]_vars
        PROVE  ResetRestoresSeed'
    <2>1. ASSUME NEW reseed \in BOOLEAN, Reset(reseed)
          PROVE  ResetRestoresSeed'
      <3>1. rows' = {} /\ answer'.code = "done"
        BY <2>1, OrderClears DEF Reset, Refused, Answered
      <3>2. CASE reseed
        BY <2>1, <3>1, <3>2, OrderClears, SeedOfEmpty DEF Reset, SeedTables, ResetRestoresSeed
      <3>3. CASE ~reseed
        BY <2>1, <3>3, OrderClears DEF Reset, Answered, ResetRestoresSeed
      <3>4. QED
        BY <3>2, <3>3
    <2>2. CASE \E code : \E op \in {"none", "change", "skip", "seed"} : Answered(op, code)
      BY <2>2 DEF Answered, ResetRestoresSeed
    <2>3. CASE UNCHANGED vars
      BY <1>2, <2>3 DEF vars, directory, ResetRestoresSeed
    <2>4. QED
      BY <1>2, <2>1, <2>2, <2>3
         DEF Next, CreateUser, PatchUser, DeleteUser, CreateGroup, DeleteGroup, AddMember,
             RemoveMember, CreateApp, PatchApp, DeleteApp, AddPart, RemovePart, Seed, Restart,
             StoreRow, DropDeviceCode, Refused
  <1>3. QED
    BY <1>1, <1>2, PTL DEF Spec

\* A seed that is answered is complete, although users may have taken the names of the seeded
\* ones, and seeding alters and removes nothing: SeedIsComplete needs every seeded user to be
\* in a seeded group.
THEOREM SeedKeepsPromises == Spec => SeedPromises
  <1>1. Init => SeedIsComplete
    BY DEF Init, SeedIsComplete
  <1>2. ASSUME IInv, SeedIsComplete, [Next]_vars
        PROVE  SeedIsComplete' /\ SeedOnlyAdds
    <2>1. ASSUME SeedTables(users, groups, members, apps, parts)
          PROVE  SeedOnlyAdds
      <3>1. /\ \A u \in Users : IsUser(u) => users'[u] = users[u]
            /\ \A a \in Apps : IsApp(a) => apps'[a] = apps[a]
        BY <1>2, <2>1, SeededUsersType, SeededAppsType DEF IInv, TypeOK, SeedTables, IsUser, IsApp
      <3>2. QED
        BY <2>1, <3>1 DEF SeedTables, SeedOnlyAdds
    <2>2. ASSUME NEW force \in BOOLEAN, Seed(force)
          PROVE  SeedIsComplete' /\ SeedOnlyAdds
      <3>1. CASE UNCHANGED directory /\ (Refused("skip", "done") \/ Refused("seed", "invalid_reference"))
        BY <3>1 DEF Refused, Answered, directory, SeedIsComplete, SeedOnlyAdds
      <3>2. CASE ~SeedFails(users) /\ SeedTables(users, groups, members, apps, parts)
        <4>1. \A u \in SeedUsers : IsUser(u)'
          BY <3>2, SeedIsTyped, MembershipAssumption DEF SeedTables, SeedFails, IsUser
        <4>2. \A a \in SeedApps : IsApp(a)'
          BY <1>2, <3>2, SeededAppsType DEF IInv, TypeOK, SeedTables, IsApp
        <4>3. SeedIsComplete'
          BY <3>2, <4>1, <4>2 DEF SeedTables, SeedIsComplete
        <4>4. QED
          BY <2>1, <3>2, <4>3
      <3>3. QED
        BY <2>2, <3>1, <3>2 DEF Seed, Refused
    <2>3. ASSUME NEW seedOnStart \in BOOLEAN, Restart(seedOnStart)
          PROVE  SeedIsComplete' /\ SeedOnlyAdds
      <3>1. SeedIsComplete'
        BY <2>3 DEF Restart, Answered, SeedIsComplete
      <3>2. SeedOnlyAdds
        BY <2>1, <2>3 DEF Restart, directory, SeedOnlyAdds
      <3>3. QED
        BY <3>1, <3>2
    <2>4. CASE \E r \in Row : StoreRow(r) \/ DropDeviceCode(r)
      BY <2>4 DEF StoreRow, DropDeviceCode, Answered, SeedIsComplete, SeedOnlyAdds
    <2>5. CASE \E code : \E op \in {"change", "clear", "reset"} : Answered(op, code)
      BY <2>5 DEF Answered, SeedIsComplete, SeedOnlyAdds
    <2>6. CASE UNCHANGED vars
      BY <1>2, <2>6 DEF vars, directory, SeedIsComplete, SeedOnlyAdds, IsUser, IsApp
    <2>7. \A r \in rows : r \in Row
      BY <1>2 DEF IInv, TypeOK
    <2>8. CASE \E reseed \in BOOLEAN : Reset(reseed)
      BY <2>5, <2>8 DEF Reset, Refused
    <2>9. QED
      BY <1>2, <2>2, <2>3, <2>4, <2>5, <2>6, <2>7, <2>8
         DEF Next, CreateUser, PatchUser, DeleteUser, CreateGroup, DeleteGroup, AddMember,
             RemoveMember, CreateApp, PatchApp, DeleteApp, AddPart, RemovePart, Refused
  <1>3. QED
    BY <1>1, <1>2, Init_IInv, Next_IInv, PTL DEF Spec, SeedPromises

=============================================================================
