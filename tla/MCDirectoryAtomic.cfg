\* An app creation is refused half-way.
SPECIFICATION Spec
CONSTANTS
    Users = {alice, other}
    Upns = {aliceUpn, otherUpn}
    Groups = {team, club}
    Apps = {spa, app}
    AppIdUris = {spaUri, appUri}
    Redirects = {l1, l2}
    OtherParts = {}
    SeedUpn <- MCSeedUpn
    SeedMembers <- MCSeedMembers
    SeedUri <- MCSeedUri
    SeedParts <- MCSeedParts
    MaxRows = 1
    NoUri = NoUri
    NoUser = NoUser
    Absent = Absent
    alice = alice
    aliceUpn = aliceUpn
    team = team
    spa = spa
    spaUri = spaUri
    l1 = l1
PROPERTY
    RefusedChangesNothing
