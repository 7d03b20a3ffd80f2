\* Two requests that get the only user code one after the other, two people who sign in one after
\* the other in one browser with several tabs; a session ends before its request.
SPECIFICATION FairSpec
CONSTANTS
    Codes = {c1, c2}
    UserCodes = {k1}
    Users = {u1, u2}
    Apps = {a1}
    Sessions = {s1, s2}
    Browsers = {b1}
    DeviceLifetime = 2
    SessionLifetime = 1
    MaxTime = 2
    NoUser = NoUser
    NoSession = NoSession
    Undrawn = Undrawn
    Gone = Gone
INVARIANT
    DevicesSound
PROPERTIES
    
    ImplementsDeviceAuthorization
    PollingEnds
