\* Two jobs with two faults each, a crash and a hand-out more; two uploads of up
\* to three parts; a narrative with two retries; replays of up to two actions
\* and three events; three requests for two connections.
SPECIFICATION FairSpec
CONSTANTS
    Jobs = {1, 2}
    MaxFaults = 2
    MaxCrashes = 1
    MaxReruns = 1
    Callers = {c1, c2}
    Objects = {o1, o2}
    Sizes = {0, 5}
    Chunks = {1, 2, 3, 4}
    MinChunk = 2
    MaxChunk = 3
    MaxRaises = 2
    MaxDeaths = 1
    MaxReceipts = 2
    MaxRetries = 2
    MaxRecorded = 3
    Labels = {1, 2}
    Instants = {1, 2}
    MaxActions = 2
    MaxEvents = 3
    Requests = {r1, r2, r3}
    Capacity = 2
    None = None
INVARIANT TypeOK
INVARIANT OutcomeMatchesStatus
INVARIANT WorkedOnce
INVARIANT ObjectIsWhole
INVARIANT NoUploadDangles
INVARIANT RefusedNeverReturned
INVARIANT ReportAccountsForAll
PROPERTY ImplementsTables
PROPERTY NoJobIsStranded
PROPERTY RequestsLeaveThePool
