\* All backends and all faults.
CONSTANTS
    c1 = c1
    c2 = c2
    auth = auth
    own = own
    v1 = v1
    v2 = v2
    None = None
    Blank = Blank
    Callers <- MCCallers
    Apps <- MCApps
    Values <- MCValues
    Askers = {c1}
    Tiers <- MCTiers
    OwnOf <- MCOwnOf
    Backends <- MCBackends
    Faults <- AllFaults
SPECIFICATION Spec
SYMMETRY MCSymmetry
INVARIANTS
    KeyringTypeOK
    SupersededIsGone
    AnnouncedOnce
    StandingValueFound
