------------------------------ MODULE Services ------------------------------
(***************************************************************************)
(* The parts of the service that share no state with one another while     *)
(* they work, each followed by itself: the export jobs, the upload of a    *)
(* bundle, a narrative, a tabletop comparison, and the connection pool.    *)
(***************************************************************************)
EXTENDS Naturals, FiniteSets

CONSTANTS
    Jobs, MaxFaults, MaxCrashes, MaxReruns,             \* of ExportJob
    Callers, Objects, Sizes, Chunks,                    \* of StreamingUpload
    MinChunk, MaxChunk, MaxRaises, MaxDeaths,
    MaxReceipts, MaxRetries, MaxRecorded,               \* of NarrativeClient
    Labels, Instants, MaxActions, MaxEvents,            \* of Tabletop
    Requests, Capacity,                                 \* of ConnectionPool
    None

VARIABLES
    part,                                                              \* who works
    status, result, error, pc, accepted, worked, faults, crashes, reruns,
    step, args, sent, slot, versions, lost, raises, deaths,
    client, recorded, doing, pack, attempts, working, text, answer,
    events, inline, range, side, todo, results, counts, known, report,
    kind, at, held

Exports == INSTANCE ExportJob
Uploads == INSTANCE StreamingUpload
Narratives == INSTANCE NarrativeClient
Tabletops == INSTANCE Tabletop
Pools == INSTANCE ConnectionPool

ASSUME PartsAreBounded ==
    /\ Exports!JobBoundsAreNaturals
    /\ Uploads!ChunkRangeIsPositive
    /\ Uploads!UploadBoundsAreNaturals
    /\ Narratives!NarrativeBoundsAreNaturals
    /\ Tabletops!TabletopBoundsAreNaturals
    /\ Pools!CapacityIsPositive

ASSUME NoneIsNoAnswer ==
    /\ Narratives!NoneIsNoResponse
    /\ Tabletops!NoneIsNoReport

\* As in LedgerTables: the names of jobs play no part.
ASSUME JobsAreNumbered == Jobs = 1 .. Cardinality(Jobs)

exports == <<status, result, error, pc, accepted, worked, faults, crashes, reruns>>
uploads == <<step, args, sent, slot, versions, lost, raises, deaths>>
narratives == <<client, recorded, doing, pack, attempts, working, text, answer>>
tabletops == <<events, inline, range, side, todo, results, counts, known, report>>
pools == <<kind, at, held>>
vars == <<part, exports, uploads, narratives, tabletops, pools>>

-----------------------------------------------------------------------------
\* The others stay at one of their initial states.
Init ==
    /\ part \in {"exports", "uploads", "narratives", "tabletops", "pools"}
    /\ Exports!Init
    /\ Uploads!UploadInit
    /\ Narratives!NarrativeInit
    /\ Tabletops!TabletopInit
    /\ Pools!PoolInit
    /\ part # "narratives" => client = "mock"
    /\ part # "tabletops" => inline = None /\ range = CHOOSE w \in Tabletops!Windows : TRUE
    /\ part # "pools" => \A r \in Requests : kind[r] = "plain"

Alone(name, others) == part = name /\ UNCHANGED <<part, others>>

NotExports == <<uploads, narratives, tabletops, pools>>
NotPools == <<exports, uploads, narratives, tabletops>>

Export == Exports!Next /\ Alone("exports", NotExports)
Upload == Uploads!UploadStep /\ Alone("uploads", <<exports, narratives, tabletops, pools>>)
Narrate == Narratives!NarrativeStep /\ Alone("narratives", <<exports, uploads, tabletops, pools>>)
Simulate == Tabletops!TabletopStep /\ Alone("tabletops", <<exports, uploads, narratives, pools>>)
Share == Pools!PoolStep /\ Alone("pools", NotPools)

\* What was asked is done.
Rest ==
    /\ CASE part = "exports" -> \A j \in Jobs : pc[j] = "gone"
         [] part = "uploads" -> Uploads!UploadOver
         [] part = "narratives" -> Narratives!NarrativeOver
         [] part = "tabletops" -> Tabletops!TabletopOver
         [] part = "pools" -> Pools!PoolOver
    /\ UNCHANGED vars

Next == Export \/ Upload \/ Narrate \/ Simulate \/ Share \/ Rest

Spec == Init /\ [][Next]_vars

\* The event loop runs every task that is ready; the pool's and the model's
\* timeouts run out.
FairSpec ==
    /\ Spec
    /\ \A j \in Jobs : WF_vars((Exports!Route(j) \/ Exports!Runner(j)) /\ Alone("exports", NotExports))
    /\ \A r \in Requests : WF_vars(Pools!Proceed(r) /\ Alone("pools", NotPools))

-----------------------------------------------------------------------------
(* The properties, each stated in the module of its part *)

\* Every variable of every part has its type.
TypeOK ==
    /\ Exports!TypeOK
    /\ Uploads!UploadTypeOK
    /\ Narratives!NarrativeTypeOK
    /\ Tabletops!TabletopTypeOK
    /\ Pools!PoolTypeOK

\* A job has a result exactly when it is completed, an error exactly when it is
\* failed.
OutcomeMatchesStatus == Exports!OutcomeMatchesStatus

\* An export is built at most once per job.
WorkedOnce == Exports!WorkedOnce

\* A completed or failed job never changes again.  No run checks it, since it
\* follows from ImplementsTables and OutcomeMatchesStatus.
TerminalStands == Exports!TerminalStands

\* An accepted job ends, and one fault of the database loses no built export.
NoJobIsStranded == Exports!NoJobIsStranded

\* What is in the bucket is one caller's whole bundle.
ObjectIsWhole == Uploads!ObjectIsWhole

\* No upload is left in progress that somebody could have aborted.
NoUploadDangles == Uploads!NoUploadDangles

\* No refused text is returned, and no late one.
RefusedNeverReturned == Narratives!RefusedNeverReturned

\* The report of a comparison accounts for every action.
ReportAccountsForAll == Tabletops!ReportAccountsForAll

\* Nobody waits for a connection for ever.
RequestsLeaveThePool == Pools!RequestsLeaveThePool

-----------------------------------------------------------------------------
(* Refinement *)

\* What a reader of the tables sees of the jobs.
Tables == INSTANCE LedgerTables WITH
    receipts <- <<>>,
    anchors <- [d \in {0} |-> None],
    jobs <- [j \in Jobs |-> IF status[j] = "none" THEN None ELSE status[j]],
    DayLength <- 1,
    MaxTime <- 0,
    MaxReceipts <- 0,
    MaxJobs <- Cardinality(Jobs)

\* The route and the runners do to the table of jobs only what LedgerTables
\* allows: a job is created pending, claimed once, and ended once, also when a
\* commit that raised was applied and the runner records a failure next.
ImplementsTables == Tables!TablesSpec
=============================================================================
