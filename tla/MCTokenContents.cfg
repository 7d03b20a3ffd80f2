SPECIFICATION Spec
CONSTANTS
    web = web
    api = api
    apiUri = apiUri
    graphPath = graphPath
    alice = alice
    Apps = {web, api}
    Confidential = {web}
    Uris = {apiUri, graphPath, Graph}
    Graph = Graph
    UnderGraph = {graphPath}
    Users = {alice}
    WithMail = {alice}
    Groups = {g1, g2}
    Roles = {reader}
    Names <- MCNames
    ScopeValues = {"read"}
    InitialUri <- MCInitialUri
    Requests <- MCRequests
    Limits = {2}
    DefaultLimit = 1
    ClaimNames = {"groups", "auth_time"}
    None = None
    MaxEdits = 2
INVARIANTS
    GrantsSound
    GraphTakesItsOwn
    
    PreviewMatches
