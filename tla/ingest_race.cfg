\* Two concurrent requests with the same key and body.
SPECIFICATION Spec
CONSTANTS
    Requests = {r1, r2}
    Tenants = {t1}
    ClientEvents = {}
    Keys = {k1}
    Bodies = {b1}
    None = None
    SessionCommits = TRUE
    DurableStore = TRUE
    BundlesPersisted = TRUE
    MaxBundle = 1
    MaxExpiries = 0
    MaxFaults = 0
    MaxCrashes = 0
SYMMETRY Alike
INVARIANT ExactlyOneWinner
