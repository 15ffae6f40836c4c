------------------------------- MODULE Ingest -------------------------------
(***************************************************************************)
(* POST /v1/events: many requests at once, each one an asyncio task that   *)
(* holds a database transaction of its own (READ COMMITTED), and between   *)
(* two awaits of a request every other request may run.                    *)
(*                                                                         *)
(*   lookup     lookup_or_claim on the Idempotency-Key                     *)
(*   bundle     the provider returns the tenant's active policy bundle     *)
(*   evaluate   the enforcement client answers with a verdict              *)
(*   head       read the chain head, build and sign the receipt            *)
(*   event      flush: INSERT the snapshot and the event                   *)
(*   receipt    flush: INSERT the receipt                                  *)
(*   store      store the response under the Idempotency-Key               *)
(*   respond    the 201 goes out                                           *)
(*   commit     the session dependency is torn down                        *)
(*                                                                         *)
(* A unique index makes an INSERT wait while another open transaction      *)
(* holds the same key, and fail once that key is committed.  FastAPI (the  *)
(* version the lock file pins) runs the exit code of a dependency with     *)
(* yield after the response is sent, so the commit follows the 201.        *)
(*                                                                         *)
(* Each request draws fresh uuids for its snapshot, its receipt and, when  *)
(* the client names none, its event; the receipt hash binds the snapshot   *)
(* id, so the request itself stands for the hash of the receipt it builds. *)
(***************************************************************************)
EXTENDS Integers

CONSTANTS
    Requests,        \* the requests that ever arrive; each is sent once
    Tenants,         \* tenant ids
    ClientEvents,    \* event ids a client may put in the body itself
    Keys,            \* well-formed Idempotency-Key values
    Bodies,          \* bodies told apart by compute_body_hash
    None,            \* no key, no receipt, no record, no answer

    SessionCommits,   \* TRUE: session_scope; FALSE: main._prod_get_session
    DurableStore,     \* TRUE: PostgresIdempotencyStore; FALSE: in-memory
    BundlesPersisted, \* TRUE: PostgresBundleProvider; FALSE: the default

    MaxBundle,       \* bound: bundle versions a tenant ever activates
    MaxExpiries,     \* bound: idempotency records that reach their TTL
    MaxFaults,       \* bound: statements or commits lost by the database
    MaxCrashes       \* bound: crashes and restarts of the API process

ASSUME SwitchesAreBoolean ==
    {SessionCommits, DurableStore, BundlesPersisted} \subseteq BOOLEAN

ASSUME BoundsAreNaturals ==
    /\ MaxBundle \in Nat \ {0}
    /\ {MaxExpiries, MaxFaults, MaxCrashes} \subseteq Nat

VARIABLES
    pc,        \* where each request is
    req,       \* what it asks for
    bundle,    \* the bundle the provider returned
    verdict,   \* the bundle the verdict was produced under
    rec,       \* the receipt it built
    stored,    \* whether its open transaction holds an idempotency record
    status,    \* the HTTP status the client sees
    answer,    \* the request whose receipt a 201 carries
    receipts,  \* committed receipts, each with its event and snapshot rows
    records,   \* idempotency records, by tenant and key
    active,    \* the active bundle of each tenant
    expiries, faults, crashes  \* how much of each bound is used

local == <<pc, req, bundle, verdict, rec, stored, status, answer>>
bounds == <<expiries, faults, crashes>>
vars == <<local, receipts, records, active, bounds>>

-----------------------------------------------------------------------------
EventIds == Requests \cup ClientEvents

Request ==
    [tenant : Tenants, event : EventIds, key : Keys \cup {None}, body : Bodies]

Receipt ==
    [tenant : Tenants, seq : Nat, prev : Requests \cup {None}, hash : Requests,
     event : EventIds, bundle : 1 .. MaxBundle, verdict : 1 .. MaxBundle]

Record == [body : Bodies, answer : Requests, live : BOOLEAN]

ASSUME NoneIsFresh ==
    /\ None \notin Requests \cup Keys \cup (1 .. MaxBundle)
    /\ None \notin Request \cup Receipt \cup Record

Handling == {"lookup", "bundle", "evaluate", "head", "event", "receipt",
             "store", "respond"}
InFlight == Handling \cup {"commit"}

Refusals == {"403", "400", "409", "422"}
Statuses == {"none", "201", "500", "lost"} \cup Refusals

\* The rows the open transaction of r has inserted and not yet committed.
HoldsEvent(r) == pc[r] \in {"receipt", "store", "respond", "commit"}
HoldsReceipt(r) == pc[r] \in {"store", "respond", "commit"}

ReceiptsOf(t) == {x \in receipts : x.tenant = t}

\* The idempotency key of r within its tenant, and the record under it.
Slot(r) == <<req[r].tenant, req[r].key>>

RecordFor(r) == records[Slot(r)]

\* Whether the key of r has a record within its TTL.
HasLiveRecord(r) == IF RecordFor(r) = None THEN FALSE ELSE RecordFor(r).live

\* get_latest_receipt_for_tenant: ORDER BY sequence DESC LIMIT 1.
Head(t) ==
    IF ReceiptsOf(t) = {}
    THEN None
    ELSE CHOOSE x \in ReceiptsOf(t) : \A y \in ReceiptsOf(t) : y.seq <= x.seq

\* Mutants of BuildReceipt: the first receipt at -1; the link skips one.
BuildReceiptFromMinusOne(r, prev) ==
    [tenant |-> req[r].tenant,
     seq    |-> IF prev = None THEN -1 ELSE prev.seq + 1,
     prev   |-> IF prev = None THEN None ELSE prev.hash,
     hash   |-> r, event  |-> req[r].event,
     bundle |-> bundle[r], verdict |-> verdict[r]]

BuildReceiptSkippingLink(r, prev) ==
    [tenant |-> req[r].tenant,
     seq    |-> IF prev = None THEN 0 ELSE prev.seq + 1,
     prev   |-> IF prev = None THEN None ELSE prev.prev,
     hash   |-> r, event  |-> req[r].event,
     bundle |-> bundle[r], verdict |-> verdict[r]]

\* build_receipt over the chain head.
BuildReceipt(r, prev) ==
    [tenant |-> req[r].tenant,
     seq    |-> IF prev = None THEN 0 ELSE prev.seq + 1,
     prev   |-> IF prev = None THEN None ELSE prev.hash,
     hash   |-> r,
     event  |-> req[r].event,
     bundle |-> bundle[r],
     verdict |-> verdict[r]]

-----------------------------------------------------------------------------
Init ==
    /\ pc = [r \in Requests |-> "idle"]
    /\ req = [r \in Requests |-> None]
    /\ bundle = [r \in Requests |-> None]
    /\ verdict = [r \in Requests |-> None]
    /\ rec = [r \in Requests |-> None]
    /\ stored = [r \in Requests |-> FALSE]
    /\ status = [r \in Requests |-> "none"]
    /\ answer = [r \in Requests |-> None]
    /\ receipts = {}
    /\ records = [k \in Tenants \X Keys |-> None]
    /\ active = [t \in Tenants |-> 1]
    /\ expiries = 0
    /\ faults = 0
    /\ crashes = 0

Goto(r, from, to) == pc[r] = from /\ pc' = [pc EXCEPT ![r] = to]

\* The handler raises: the error goes out and the transaction rolls back.
Refuse(r, from, code) ==
    /\ Goto(r, from, "done")
    /\ status' = [status EXCEPT ![r] = code]
    /\ UNCHANGED <<req, bundle, verdict, rec, stored, answer>>
    /\ UNCHANGED <<receipts, active, bounds>>

-----------------------------------------------------------------------------
\* A body for the principal's own tenant and agent, with no key or a good one.
Admit(r, q) ==
    /\ Goto(r, "idle", IF q.key = None THEN "bundle" ELSE "lookup")
    /\ req' = [req EXCEPT ![r] = q]
    /\ UNCHANGED <<bundle, verdict, rec, stored, status, answer>>
    /\ UNCHANGED <<receipts, records, active, bounds>>

\* The body names another tenant or agent, or the key is malformed.
Reject(r) ==
    /\ \E code \in {"403", "400"} : Refuse(r, "idle", code)
    /\ UNCHANGED records

\* Mutant of LookupReplay: the body hash is not compared.
LookupReplayAnyBody(r) ==
    /\ Goto(r, "lookup", "done")
    /\ HasLiveRecord(r)
    /\ status' = [status EXCEPT ![r] = "201"]
    /\ answer' = [answer EXCEPT ![r] = RecordFor(r).answer]
    /\ UNCHANGED <<req, bundle, verdict, rec, stored>>
    /\ UNCHANGED <<receipts, records, active, bounds>>

\* A live record of this key with the same body: its response again.
LookupReplay(r) ==
    LET found == RecordFor(r) IN
    /\ Goto(r, "lookup", "done")
    /\ HasLiveRecord(r)
    /\ found.body = req[r].body
    /\ status' = [status EXCEPT ![r] = "201"]
    /\ answer' = [answer EXCEPT ![r] = found.answer]
    /\ UNCHANGED <<req, bundle, verdict, rec, stored>>
    /\ UNCHANGED <<receipts, records, active, bounds>>

LookupConflict(r) ==
    /\ Refuse(r, "lookup", "409")
    /\ HasLiveRecord(r)
    /\ RecordFor(r).body # req[r].body
    /\ UNCHANGED records

\* No record, or an expired one, which only the in-memory store deletes.  The
\* caller is told to go ahead, and nothing is left behind that says so.
LookupMiss(r) ==
    /\ Goto(r, "lookup", "bundle")
    /\ ~HasLiveRecord(r)
    /\ records' = IF DurableStore
                  THEN records
                  ELSE [records EXCEPT ![Slot(r)] = None]
    /\ UNCHANGED <<req, bundle, verdict, rec, stored, status, answer>>
    /\ UNCHANGED <<receipts, active, bounds>>

-----------------------------------------------------------------------------
GetActiveBundle(r) ==
    /\ Goto(r, "bundle", "evaluate")
    /\ bundle' = [bundle EXCEPT ![r] = active[req[r].tenant]]
    /\ UNCHANGED <<req, verdict, rec, stored, status, answer>>
    /\ UNCHANGED <<receipts, records, active, bounds>>

\* Mutant of Evaluate: the verdict's bundle is not compared.
EvaluateIgnoringDrift(r) ==
    /\ Goto(r, "evaluate", "head")
    /\ verdict' = [verdict EXCEPT ![r] = active[req[r].tenant]]
    /\ UNCHANGED <<req, bundle, rec, stored, status, answer>>
    /\ UNCHANGED <<receipts, records, active, bounds>>

\* The enforcement client reads the active bundle for itself.
Evaluate(r) ==
    /\ Goto(r, "evaluate", "head")
    /\ active[req[r].tenant] = bundle[r]
    /\ verdict' = [verdict EXCEPT ![r] = active[req[r].tenant]]
    /\ UNCHANGED <<req, bundle, rec, stored, status, answer>>
    /\ UNCHANGED <<receipts, records, active, bounds>>

\* The client raised, or its verdict refers to another bundle.
EvaluateRefused(r) ==
    /\ Refuse(r, "evaluate", "422")
    /\ UNCHANGED records

ReadHeadAndBuild(r) ==
    /\ Goto(r, "head", "event")
    /\ rec' = [rec EXCEPT ![r] = BuildReceipt(r, Head(req[r].tenant))]
    /\ UNCHANGED <<req, bundle, verdict, stored, status, answer>>
    /\ UNCHANGED <<receipts, records, active, bounds>>

-----------------------------------------------------------------------------
\* Mutant of EventTaken: events keyed by tenant and id.
EventTakenInTenant(r) ==
    \E x \in receipts : x.tenant = req[r].tenant /\ x.event = req[r].event

EventTaken(r) == \E x \in receipts : x.event = req[r].event

\* Mutant of SequenceTaken: the table without its unique constraint.
SequenceNeverTaken(r) == FALSE

SequenceTaken(r) ==
    \E x \in receipts : x.tenant = req[r].tenant /\ x.seq = rec[r].seq

\* The INSERT waits while another open transaction holds the same event id.
EventFree(r) ==
    \A s \in Requests \ {r} : HoldsEvent(s) => req[s].event # req[r].event

\* The INSERT waits on another open transaction at the same chain position.
PositionFree(r) ==
    \A s \in Requests \ {r} :
        HoldsReceipt(s) => \/ req[s].tenant # req[r].tenant
                           \/ rec[s].seq # rec[r].seq

InsertEvent(r) ==
    /\ Goto(r, "event", "receipt")
    /\ BundlesPersisted
    /\ EventFree(r)
    /\ ~EventTaken(r)
    /\ UNCHANGED <<req, bundle, verdict, rec, stored, status, answer>>
    /\ UNCHANGED <<receipts, records, active, bounds>>

\* The snapshot's bundle is no row of policy_bundles, or the event id is taken.
InsertEventFails(r) ==
    /\ Refuse(r, "event", "500")
    /\ \/ ~BundlesPersisted
       \/ EventTaken(r)
    /\ UNCHANGED records

InsertReceipt(r) ==
    /\ Goto(r, "receipt", IF req[r].key = None THEN "respond" ELSE "store")
    /\ PositionFree(r)
    /\ ~SequenceTaken(r)
    /\ UNCHANGED <<req, bundle, verdict, rec, stored, status, answer>>
    /\ UNCHANGED <<receipts, records, active, bounds>>

\* Mutant of InsertReceiptFails: the flush is tried again with the same receipt.
InsertReceiptRetried(r) ==
    /\ Goto(r, "receipt", "receipt")
    /\ SequenceTaken(r)
    /\ UNCHANGED <<req, bundle, verdict, rec, stored, status, answer>>
    /\ UNCHANGED <<receipts, records, active, bounds>>

\* uq_receipts_tenant_sequence: another request committed this position.
InsertReceiptFails(r) ==
    /\ Refuse(r, "receipt", "500")
    /\ SequenceTaken(r)
    /\ UNCHANGED records

-----------------------------------------------------------------------------
NewRecord(r) == [body |-> req[r].body, answer |-> r, live |-> TRUE]

\* The INSERT waits on another open transaction that inserted the same key.
KeyFree(r) ==
    \A s \in Requests \ {r} :
        stored[s] => Slot(s) # Slot(r)

\* Mutants of StoreDurable: a transaction of its own; ON CONFLICT DO UPDATE.
StoreCommittedApart(r) ==
    /\ DurableStore
    /\ Goto(r, "store", "respond")
    /\ records' = IF RecordFor(r) = None
                  THEN [records EXCEPT ![Slot(r)] = NewRecord(r)]
                  ELSE records
    /\ UNCHANGED <<req, bundle, verdict, rec, stored, status, answer>>
    /\ UNCHANGED <<receipts, active, bounds>>

StoreUpsert(r) ==
    /\ DurableStore
    /\ Goto(r, "store", "respond")
    /\ KeyFree(r)
    /\ stored' = [stored EXCEPT ![r] = TRUE]
    /\ UNCHANGED <<req, bundle, verdict, rec, status, answer>>
    /\ UNCHANGED <<receipts, records, active, bounds>>

\* INSERT ... ON CONFLICT DO NOTHING, in the request's own transaction.
StoreDurable(r) ==
    /\ DurableStore
    /\ Goto(r, "store", "respond")
    /\ KeyFree(r)
    /\ stored' = [stored EXCEPT ![r] = RecordFor(r) = None]
    /\ UNCHANGED <<req, bundle, verdict, rec, status, answer>>
    /\ UNCHANGED <<receipts, records, active, bounds>>

\* Mutant of StoreInMemory: the last store wins.
StoreLastWins(r) ==
    /\ ~DurableStore
    /\ Goto(r, "store", "respond")
    /\ records' = [records EXCEPT ![Slot(r)] = NewRecord(r)]
    /\ UNCHANGED <<req, bundle, verdict, rec, stored, status, answer>>
    /\ UNCHANGED <<receipts, active, bounds>>

\* The in-memory store is outside the transaction: first store wins, at once.
StoreInMemory(r) ==
    /\ ~DurableStore
    /\ Goto(r, "store", "respond")
    /\ records' = IF RecordFor(r) = None
                  THEN [records EXCEPT ![Slot(r)] = NewRecord(r)]
                  ELSE records
    /\ UNCHANGED <<req, bundle, verdict, rec, stored, status, answer>>
    /\ UNCHANGED <<receipts, active, bounds>>

Respond(r) ==
    /\ Goto(r, "respond", "commit")
    /\ status' = [status EXCEPT ![r] = "201"]
    /\ answer' = [answer EXCEPT ![r] = r]
    /\ UNCHANGED <<req, bundle, verdict, rec, stored>>
    /\ UNCHANGED <<receipts, records, active, bounds>>

\* Mutants of Teardown: the record is not part of the commit; no commit.
TeardownWithoutRecord(r) ==
    /\ Goto(r, "commit", "done")
    /\ receipts' = receipts \cup {rec[r]}
    /\ stored' = [stored EXCEPT ![r] = FALSE]
    /\ UNCHANGED <<req, bundle, verdict, rec, status, answer>>
    /\ UNCHANGED <<records, active, bounds>>

TeardownByRollback(r) ==
    /\ Goto(r, "commit", "done")
    /\ stored' = [stored EXCEPT ![r] = FALSE]
    /\ UNCHANGED <<req, bundle, verdict, rec, status, answer>>
    /\ UNCHANGED <<receipts, records, active, bounds>>

\* Leaving the session: session_scope commits, _prod_get_session rolls back.
Teardown(r) ==
    /\ Goto(r, "commit", "done")
    /\ receipts' = IF SessionCommits THEN receipts \cup {rec[r]} ELSE receipts
    /\ records' = IF SessionCommits /\ stored[r]
                  THEN [records EXCEPT ![Slot(r)] = NewRecord(r)]
                  ELSE records
    /\ stored' = [stored EXCEPT ![r] = FALSE]
    /\ UNCHANGED <<req, bundle, verdict, rec, status, answer>>
    /\ UNCHANGED <<active, bounds>>

-----------------------------------------------------------------------------
\* The database loses the connection under one request: its transaction rolls
\* back, and the client gets a 500 unless its 201 is already out.
DbFault(r) ==
    /\ faults < MaxFaults
    /\ faults' = faults + 1
    /\ pc[r] \in InFlight
    /\ pc' = [pc EXCEPT ![r] = "done"]
    /\ status' = [status EXCEPT ![r] = IF @ = "none" THEN "500" ELSE @]
    /\ stored' = [stored EXCEPT ![r] = FALSE]
    /\ UNCHANGED <<req, bundle, verdict, rec, answer>>
    /\ UNCHANGED <<receipts, records, active, expiries, crashes>>

\* The API process dies: every open transaction rolls back, every unanswered
\* client loses its connection, and the in-memory store starts empty.
Crash ==
    /\ crashes < MaxCrashes
    /\ crashes' = crashes + 1
    /\ pc' = [r \in Requests |-> IF pc[r] \in InFlight THEN "done" ELSE pc[r]]
    /\ status' = [r \in Requests |-> IF pc[r] \in Handling THEN "lost"
                                                           ELSE status[r]]
    /\ stored' = [r \in Requests |-> FALSE]
    /\ records' = IF DurableStore THEN records
                                  ELSE [k \in Tenants \X Keys |-> None]
    /\ UNCHANGED <<req, bundle, verdict, rec, answer>>
    /\ UNCHANGED <<receipts, active, expiries, faults>>

\* A record reaches its TTL.
Expire(t, k) ==
    /\ expiries < MaxExpiries
    /\ expiries' = expiries + 1
    /\ records[<<t, k>>] # None
    /\ records[<<t, k>>].live
    /\ records' = [records EXCEPT ![<<t, k>>].live = FALSE]
    /\ UNCHANGED <<local, receipts, active, faults, crashes>>

\* Another bundle of the tenant is activated through the approval workflow.
ActivateBundle(t) ==
    /\ active[t] < MaxBundle
    /\ active' = [active EXCEPT ![t] = @ + 1]
    /\ UNCHANGED <<local, receipts, records, bounds>>

-----------------------------------------------------------------------------
Lookup(r) == LookupReplay(r) \/ LookupConflict(r) \/ LookupMiss(r)

Flush(r) ==
    \/ InsertEvent(r) \/ InsertEventFails(r)
    \/ InsertReceipt(r) \/ InsertReceiptFails(r)

\* One step of the task that serves r.
Step(r) ==
    \/ Lookup(r)
    \/ GetActiveBundle(r)
    \/ Evaluate(r) \/ EvaluateRefused(r)
    \/ ReadHeadAndBuild(r)
    \/ Flush(r)
    \/ StoreDurable(r) \/ StoreInMemory(r)
    \/ Respond(r)
    \/ Teardown(r)

Arrive(r) == Reject(r) \/ \E q \in Request : Admit(r, q)

Environment ==
    \/ \E r \in Requests : DbFault(r)
    \/ Crash
    \/ \E t \in Tenants, k \in Keys : Expire(t, k)
    \/ \E t \in Tenants : ActivateBundle(t)

\* All requests are served: the server idles.
Quiet == (\A r \in Requests : pc[r] = "done") /\ UNCHANGED vars

Next ==
    \/ \E r \in Requests : Arrive(r) \/ Step(r)
    \/ Environment
    \/ Quiet

Spec == Init /\ [][Next]_vars

\* The event loop runs every ready task, and the database lets a statement
\* that waits proceed once the transaction it waits for is over.
FairSpec == Spec /\ \A r \in Requests : WF_vars(Step(r))

-----------------------------------------------------------------------------
(* Type invariant *)

\* Every variable has its type, and a request past a step has what the step
\* gives it.
TypeOK ==
    /\ pc \in [Requests -> {"idle", "done"} \cup InFlight]
    /\ req \in [Requests -> Request \cup {None}]
    /\ bundle \in [Requests -> 1 .. MaxBundle \cup {None}]
    /\ verdict \in [Requests -> 1 .. MaxBundle \cup {None}]
    /\ rec \in [Requests -> Receipt \cup {None}]
    /\ stored \in [Requests -> BOOLEAN]
    /\ status \in [Requests -> Statuses]
    /\ answer \in [Requests -> Requests \cup {None}]
    /\ receipts \subseteq Receipt
    /\ records \in [Tenants \X Keys -> Record \cup {None}]
    /\ active \in [Tenants -> 1 .. MaxBundle]
    /\ expiries \in 0 .. MaxExpiries
    /\ faults \in 0 .. MaxFaults
    /\ crashes \in 0 .. MaxCrashes

-----------------------------------------------------------------------------
(* Safety *)

\* However requests interleave, fail or crash, each tenant's committed
\* receipts are one chain: numbered from 0 without gaps, no two at the same
\* position, each one carrying the hash of the one before.  The head is read
\* without a lock, so this rests on the unique index and on commit order.
ChainIntact ==
    \A x \in receipts :
        /\ \A i \in 0 .. x.seq - 1 : \E y \in ReceiptsOf(x.tenant) : y.seq = i
        /\ \A y \in ReceiptsOf(x.tenant) : y.seq = x.seq => y = x
        /\ IF x.seq = 0
           THEN x.prev = None
           ELSE \E y \in ReceiptsOf(x.tenant) : y.seq = x.seq - 1 /\ y.hash = x.prev

\* A committed receipt's verdict was produced under the very bundle the
\* receipt binds, also when another bundle is activated between the
\* provider's read and the evaluator's (ingest_event refuses that drift).
VerdictMatchesBundle == \A x \in receipts : x.verdict = x.bundle

\* An event id is given a receipt at most once, over all tenants, even when a
\* client sends the same event again while the first copy is still open.
OneReceiptPerEvent ==
    \A x, y \in receipts : x.event = y.event => x = y

\* A stored response is never without its receipt: what an idempotency record
\* replays is a committed receipt of the same tenant, issued to a request with
\* this key and this body (the record and the receipt commit together).
RecordsAreBacked ==
    \A t \in Tenants, k \in Keys :
        records[<<t, k>>] # None =>
            \E x \in receipts :
                /\ x.hash = records[<<t, k>>].answer
                /\ req[x.hash].tenant = t
                /\ req[x.hash].key = k
                /\ req[x.hash].body = records[<<t, k>>].body

\* A replayed 201 answers the question that was asked: the receipt it carries
\* was issued to a request of the same tenant, with the same key and body.
ReplayMatchesRequest ==
    \A r \in Requests :
        answer[r] \notin {None, r} =>
            LET s == answer[r] IN
            /\ req[s].tenant = req[r].tenant
            /\ req[s].key = req[r].key
            /\ req[s].body = req[r].body

-----------------------------------------------------------------------------
(* What a step may never do *)

\* A request is let through the idempotency lookup only if no receipt was
\* durable under its key by then, or the record has expired: a retry that
\* arrives after the commit, whatever became of the first answer, never
\* ingests the event again.
FreshOnlyIfNeverDurable ==
    [][\A r \in Requests :
          LookupMiss(r) /\ RecordFor(r) = None =>
              \A x \in receipts :
                  \/ req[x.hash].tenant # req[r].tenant
                  \/ req[x.hash].key # req[r].key]_vars

\* The response stored first under a key stays the response of that key for
\* as long as it lives, whoever else computed one meanwhile; only a restart of
\* the in-memory store loses it.
FirstResponseStands ==
    [][\A t \in Tenants, k \in Keys :
          records[<<t, k>>] # None /\ records[<<t, k>>].live =>
              \/ /\ records'[<<t, k>>] # None
                 /\ records'[<<t, k>>].body = records[<<t, k>>].body
                 /\ records'[<<t, k>>].answer = records[<<t, k>>].answer
              \/ ~DurableStore /\ crashes' # crashes]_vars

\* The committed receipts implement the abstract ledger: every step appends
\* one receipt at the head of one tenant's chain, or leaves them all alone.
Chain == INSTANCE EvidenceChain
         WITH Hashes <- Requests, Genesis <- None,
              chain <- {[tenant |-> x.tenant, seq |-> x.seq,
                         prev |-> x.prev, hash |-> x.hash] : x \in receipts}
ImplementsChain == Chain!Spec

-----------------------------------------------------------------------------
(* Liveness *)

\* Every request that arrives is answered, or its connection is lost in a
\* crash: requests that wait for each other's rows never wait in a circle.
EveryRequestAnswered ==
    \A r \in Requests : (pc[r] # "idle") ~> (status[r] # "none")

\* A 201 is the promise of a durable receipt: once it is out, the receipt it
\* carries is committed, now or eventually (no fault and no crash assumed).
AckedBecomesDurable ==
    \A r \in Requests :
        (status[r] = "201") ~> (\E x \in receipts : x.hash = answer[r])

-----------------------------------------------------------------------------
(* What the documentation says and the code does not do *)

\* Of the requests with one tenant, key and body that were all told to go
\* ahead, exactly one wins: no two of them issue a receipt each.
ExactlyOneWinner ==
    \A x, y \in receipts :
        /\ req[x.hash].key # None
        /\ req[x.hash].key = req[y.hash].key
        /\ req[x.hash].tenant = req[y.hash].tenant
        /\ req[x.hash].body = req[y.hash].body
        => x = y

\* A keyed request that lands after the TTL is executed again, and unless it
\* fails its response replaces the expired one.
ExpiredIsReplaced ==
    \A r \in Requests :
        (pc[r] = "lookup" /\ RecordFor(r) # None /\ ~HasLiveRecord(r)) ~>
        (\/ status[r] \notin {"none", "201"}
         \/ pc[r] = "done" /\ req[r].key # None /\ HasLiveRecord(r))
=============================================================================
