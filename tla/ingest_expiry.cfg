\* A retry after the TTL, the Postgres store.
SPECIFICATION FairSpec
CONSTANTS
    Requests = {r1, r2}
    Tenants = {t1}
    ClientEvents = {}
    Keys = {k1}
    Bodies = {b1}
    None = None
    SessionCommits = TRUE
    DurableStore = TRUE
    BundlesPersisted = TRUE
    MaxBundle = 1
    MaxExpiries = 1
    MaxFaults = 0
    MaxCrashes = 0
PROPERTY ExpiredIsReplaced
