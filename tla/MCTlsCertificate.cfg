SPECIFICATION Spec
CONSTANTS
    base = base
    star = star
    login = login
    extra = extra
    Processes = {p1, p2}
    Pairs = {c1, c2, c3}
    Names <- MCNames
    WildcardOf <- MCWildcardOf
    Configs <- MCConfigs
    Missing = Missing
    Torn = Torn
    None = None
SYMMETRY Symmetry
INVARIANTS
    ServedCovers
    PairSound
PROPERTIES
    CertificateKept
    BootAbortsForCause
