\* One user and one app: a chain of up to two rotations or several sign-ins, two requests at once.
SPECIFICATION Spec
CONSTANTS
    Tokens = {t1, t2, t3}
    Users = {u1}
    Apps = {a1}
    Scopes = {offline, read}
    OfflineScopes = {offline}
    Requests = {r1, r2}
    Lifetime = 1
    MaxTime = 2
    NoToken = NoToken
    NoRow = NoRow
    Idle = Idle
SYMMETRY Symmetry
INVARIANTS
    RowsSound
    ChainsSound
    ReplayedChainIsDead
    RotationNarrows
PROPERTIES
    ChainEndsForCause
    ImplementsRotationChain
