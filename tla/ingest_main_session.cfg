\* The session dependency main.py installs.
SPECIFICATION FairSpec
CONSTANTS
    Requests = {r1}
    Tenants = {t1}
    ClientEvents = {}
    Keys = {}
    Bodies = {b1}
    None = None
    SessionCommits = FALSE
    DurableStore = TRUE
    BundlesPersisted = TRUE
    MaxBundle = 1
    MaxExpiries = 0
    MaxFaults = 0
    MaxCrashes = 0
PROPERTY AckedBecomesDurable
