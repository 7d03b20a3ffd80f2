\* Two processes whose bootstraps overlap; up to three keys, so one after a wipe.
SPECIFICATION KeysSpec
CONSTANTS
    Kids = {k1, k2, k3}
    Servers = {p1, p2}
    Slots = {m1, m2}
    SeedOnStart = {TRUE, FALSE}
    NotMinting = NotMinting
SYMMETRY Symmetry
INVARIANTS
    KeysSound
    TokensVerify
PROPERTY
    KeyLifecycle
