\* Every task is scheduled and nothing fails; activations race for one tenant.
SPECIFICATION FairSpec
CONSTANTS
    None = None
    Requests = {r1, r2}
    Tenants = {t1, t2}
    ClientEvents = {e1}
    Keys = {k1}
    Bodies = {b1, b2}
    SessionCommits = TRUE
    DurableStore = TRUE
    BundlesPersisted = TRUE
    MaxBundle = 1
    MaxExpiries = 0
    MaxFaults = 0
    MaxCrashes = 0
    Sessions = {s1, s2, s3}
    Authored = {p1, p2}
    Defaults = {}
    Actors = {x}
    Ops = {"activate", "supersede"}
    Approved = {p1, p2}
    MaxCalls = 4
PROPERTIES
    EveryRequestAnswered
    AckedBecomesDurable
    EveryCallEnds
