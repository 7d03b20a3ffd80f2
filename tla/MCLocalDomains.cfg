\* The hosts command and host-based routing: what it maps, what is advertised, who answers.
SPECIFICATION DomainsSpec
CONSTANTS
    Procs = {p, q}
    Lines = {a, b}
    FirstLines <- MCFirstLines
    BEGIN = BEGIN
    END = END
    Unread = Unread
    MaxCommands = 2
    MaxEdits = 2
    MaxTorn = 1
    Unset = Unset
    TenantId = "tenant"
    AnySegment = "any"
    Raws <- MCRaws
    OtherHosts <- MCOtherHosts
    Paths <- MCPaths
    Nothing = Nothing
    MaxRestarts = 1
INVARIANTS
    LinesKeptForCause
    ApplyConverges
    AdvertisedReachable
    
