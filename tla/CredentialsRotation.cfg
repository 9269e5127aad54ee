\* One store, its keyring over its file; the keyring is away at times.
CONSTANTS
    c1 = c1
    c2 = c2
    auth = auth
    own = own
    v1 = v1
    v2 = v2
    None = None
    Blank = Blank
    Callers <- MCCallers
    Apps <- OwnApp
    Values <- MCValues
    Askers = {c1}
    Tiers <- OwnTier
    OwnOf <- AllOwn
    Backends <- KeyringOverFile
    Faults <- NoKeyringAtTimes
SPECIFICATION Spec
SYMMETRY MCSymmetry
INVARIANTS
    NoneMeansNowhere
