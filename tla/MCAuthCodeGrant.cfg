\* One confidential client, with or without PKCE and two redirect URIs; two codes and two
\* sessions of two people in one browser, who keep one sign-in page.
SPECIFICATION Spec
CONSTANTS
    Codes = {c1, c2}
    Sessions = {s1, s2}
    Users = {u1, u2}
    Apps = {a1}
    Uris = {l1, l2}
    Browsers = {b1}
    Proofs = {v1}
    Confidential = {a1}
    CodeLifetime = 1
    SessionLifetime = 1
    MaxTime = 1
    MaxPages = 1
    NoSession = NoSession
    NoProof = NoProof
    Undrawn = Undrawn
    Gone = Gone
SYMMETRY Symmetry
INVARIANT
    CodesSound
PROPERTIES
    CodesFollowSignIn
    ImplementsAuthorizationCode
