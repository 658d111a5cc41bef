SPECIFICATION Spec
CONSTANTS
    Accounts = {a1, a2}
    Pass = {p1, p2, p3}
    Branches = {ext}
    ExternalBranch = ext
    MaxAddr = 2
    Zero = Zero
    Shared = Shared
    None = None
SYMMETRY Symmetry
INVARIANTS
    OnePassphrase
    StoreAgrees
    KeysMatchLock
