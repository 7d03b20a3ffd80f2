\* One seeded process: the keys are reset and never regenerated while it runs.
SPECIFICATION FairKeysSpec
CONSTANTS
    Kids = {k1, k2}
    Servers = {p1}
    Slots = {m1}
    SeedOnStart = {TRUE}
    NotMinting = NotMinting
PROPERTY
    KeysRegenerated
