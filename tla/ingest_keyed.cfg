\* Three requests under one key, the Postgres store, a crash and an expiry.
SPECIFICATION Spec
CONSTANTS
    Requests = {r1, r2, r3}
    Tenants = {t1}
    ClientEvents = {}
    Keys = {k1}
    Bodies = {b1, b2}
    None = None
    SessionCommits = TRUE
    DurableStore = TRUE
    BundlesPersisted = TRUE
    MaxBundle = 1
    MaxExpiries = 1
    MaxFaults = 0
    MaxCrashes = 1
SYMMETRY Alike
INVARIANT RecordsAreBacked
INVARIANT ReplayMatchesRequest
PROPERTY FreshOnlyIfNeverDurable
PROPERTY FirstResponseStands
