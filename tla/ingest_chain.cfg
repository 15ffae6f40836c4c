\* Three unkeyed requests, two tenants, one event id sent twice, one activation.
SPECIFICATION Spec
CONSTANTS
    Requests = {r1, r2, r3}
    Tenants = {t1, t2}
    ClientEvents = {e1}
    Keys = {}
    Bodies = {b1}
    None = None
    SessionCommits = TRUE
    DurableStore = TRUE
    BundlesPersisted = TRUE
    MaxBundle = 2
    MaxExpiries = 0
    MaxFaults = 1
    MaxCrashes = 0
SYMMETRY Alike
INVARIANT TypeOK
INVARIANT ChainIntact
INVARIANT VerdictMatchesBundle
INVARIANT OneReceiptPerEvent
PROPERTY ImplementsChain
