# Forensa: a TLA+ verification project

Forensa is an evidence ledger for AI agents. An agent's event goes through the
ingest endpoint, is judged under the tenant's active policy bundle, and becomes
a signed *receipt* that is hash-linked to the tenant's receipt before it. Once a
day the head of each chain is witnessed by a timestamp authority (TSA). Exports
hand receipts and anchors to auditors and acquirers, lists and metrics to the
console, narratives to readers. This directory holds TLA+ models of those parts,
TLC configurations that check them on small instances, and machine-checked
proofs, for every instance, of all their safety properties.

## 1. Inventory

State lives in PostgreSQL (READ COMMITTED, one transaction per request or per
call of a service) and, for two default implementations, in process memory. The
API is one asyncio process: between any two `await`s of a handler every other
handler may run.

| Component (source) | State it keeps | Operations | Interacts with |
|---|---|---|---|
| Ingest route and service (`apps/api/routes/events.py`, `apps/api/ingest_service.py`) | none of its own | `POST /v1/events` | idempotency store, bundle provider, enforcement client, ledger, session |
| Idempotency store (`apps/api/idempotency_store.py`) | one record per tenant and key, with a TTL | `lookup_or_claim`, `store` (in memory, PostgreSQL) | shares the request's transaction (PostgreSQL) or none (memory) |
| Receipt ledger (`packages/ledger/repositories.py`, `receipt_builder.py`) | `receipts`, `events`, `policy_snapshots` | read the head, build, write, list | unique constraints on position, hash and event id |
| Sessions, wiring (`packages/ledger/session.py`, `apps/api/main.py`) | transactions, the pool | `session_scope`, `_prod_get_session` | everything |
| Policy bundle workflow (`packages/ledger/bundle_workflow.py`, `bundle_repository.py`, `PostgresBundleProvider`) | `policy_bundles.status`, the approval log | propose, review, approve, activate, supersede, write, bootstrap | ingest reads the active bundle |
| Anchoring (`packages/ledger/anchor.py`, `packages/crypto/tsa.py`) | one `timestamp_anchors` row per tenant and day | `anchor_day`, `verify_receipt_anchored_in` | reads receipts while ingest commits them |
| Export jobs (`apps/api/routes/exports.py`, `packages/jobs/ma_export_runner.py`, `packages/ledger/ma_export_job_repository.py`) | one `ma_export_jobs` row per job | create and schedule, run, poll, list | background task, three sessions |
| Evidence packs and bundles (`packages/export/builder.py`, `ma_export.py`, `schema.py`, `apps/api/routes/evidence.py`) | none | select, build, seal, verify, sign, encrypt | reads receipts and anchors, one statement at a time |
| Streaming upload (`packages/export/streaming.py`) | a multipart upload in an object store | split, initiate, upload, complete, abort | the object store |
| Listings (`apps/api/routes/receipts.py`, `anchors.py`, the job list) | none | offset and cursor pages, detail | reads while ingest, anchoring and jobs commit |
| Metrics (`apps/api/routes/metrics.py`) | none | eleven counts | reads while everything commits |
| Narratives (`packages/narrative/*`, `apps/api/routes/narratives.py`) | none | read, prompt, call the model, check | a language model that may be late; holds a pooled connection meanwhile |
| Tabletop simulation (`packages/policy/tabletop.py`, `apps/api/routes/tabletop.py`) | none | simulate, replay a window, diff | enforcement client, events |
| Pure code without a caller (`crypto/merkle.py`, a hash chain helper; `policy/replay.py`), `ingest/normaliser.py` | none | | |
| Authentication, PDF, console, scripts | none that matters to the evidence | | |

What is hard, and what makes each component right:

* **Ingest.** The chain head is read without a lock, two requests may build a
  receipt for the same position, and the commit comes *after* the 201 (the
  locked FastAPI version runs the exit code of a `yield` dependency after the
  response). Right means: one gapless, linked chain per tenant; a verdict of
  the bundle it is bound to; one receipt per event; a 201 that becomes durable.
* **Idempotency.** Lookup and store are separate steps around the whole ingest.
  Right means: a replay answers the question that was asked and is backed by a
  receipt; the first response stands; a retry after the commit is not ingested
  again.
* **Bundle workflow.** Status checks on unlocked rows, updates by primary key,
  a partial unique index that makes transactions wait. Right means: one active
  bundle; every status accounted for in the log; a failed activation leaves the
  active bundle alone; every call ends.
* **Anchoring.** Receipts commit while a run is between its steps; runs overlap;
  the TSA fails and has a coarser clock. Right means: an anchored day stands; it
  proves all it should and nothing later.
* **Export jobs.** A commit may be applied and still raise; a crash ends a
  runner without its error path. Right means: outcome and status agree and
  stand; a job is built once; a 202 is followed by an outcome.
* **Exports, listings, metrics.** No snapshot: each statement sees what is
  committed by then. Right means: nothing that was there when the reader began
  is left out; what one part witnesses is in the other; what was listed stands;
  the figures of one answer do not contradict one another.
* **Upload.** A call to the store may be applied and still raise. Right means:
  the bucket only ever shows one caller's whole bundle, and an upload that
  failed is not left open while somebody could close it.
* **Narratives.** Timeouts, retries, late answers. Right means: no refused text
  is returned, none is asked for again, and the text belongs to what was read.
* **Tabletop.** Each replay of a window reads for itself. Right means: summary,
  report and results agree, and drift is about the bundles, not about the time
  of reading.
* **Connection pool.** Requests that ask for a second connection, or keep one
  while they await a model. Right means: everybody gets out of the queue.

`PROJECT.json` lists every component and, under `hazards`, each hard spot at its
line with the properties that cover it.

## 2. Modules

| Module | What it is |
|---|---|
| `EvidenceChain` | abstract specification of the ledger: links are appended at the head of one tenant's chain, nothing else ever happens |
| `Ingest` | `POST /v1/events`, both idempotency stores, both session dependencies, faults, crashes, expiry, activation of another bundle |
| `MCIngest` | instance for TLC (symmetry of the requests) |
| `IngestInvariant` | the inductive invariant of `Ingest` |
| `IngestProofs`, `IngestReplayProofs` | proofs about `Ingest`: the chain and the refinement; idempotency |
| `BundleWorkflow`, `MCBundleWorkflow` | the approval workflow of one tenant and the bootstrap of its first bundle |
| `WorkflowProofs` | proofs about `BundleWorkflow` |
| `Anchoring`, `MCAnchoring` | `anchor_day` of one tenant, overlapping, and proof verification |
| `AnchoringProofs` | proofs about `Anchoring`, and that it implements `LedgerTables` |
| `ExportJob` | the life of asynchronous export jobs |
| `CallsEnd` | composes `Ingest` and `BundleWorkflow` for the liveness of calls that wait in the database |
| `LedgerTables` | abstract specification of the tables that readers see: every commit that ingest, anchoring and jobs make to them |
| `EvidenceExport` | both diligence routes, the evidence pack route, seal, signature, envelope |
| `Listings` | the three lists and their detail routes |
| `Metrics` | the metrics route |
| `Readers` | composes the three readers with the writers of `LedgerTables` |
| `ReadersProofs` | proofs about the tables and each of the readers |
| `StreamingUpload` | the multipart upload and the store's answers |
| `NarrativeClient` | the narrative route, the live and the mock client |
| `Tabletop` | simulation, replay of a window, diff |
| `ConnectionPool` | the pool's connections and who holds them |
| `Services` | composes `ExportJob` and the four above, each followed by itself |
| `UploadProofs`, `ServicesProofs` | proofs about the uploads; about the other four parts |
| `NumberLemmas` | facts about division, least members and counting that several proofs use |

### Ingest

One request is one element of `Requests`; `pc[r]` names the await it is at.

| Action | Code |
|---|---|
| `Admit`, `Reject` | the 403 and 400 checks of `submit_event`, the body hash |
| `LookupReplay`, `LookupConflict`, `LookupMiss` | `lookup_or_claim`; only the in-memory store deletes an expired record |
| `GetActiveBundle` | `bundle_provider.get_active_bundle` |
| `Evaluate`, `EvaluateRefused` | the enforcement client reads the active bundle itself; drift and exceptions are a 422 |
| `ReadHeadAndBuild` | `get_latest_receipt_for_tenant`, `build_receipt` |
| `InsertEvent(Fails)`, `InsertReceipt(Fails)` | the one flush of `write_event_with_receipt`: its INSERTs run in foreign-key order and each may wait or violate a constraint |
| `StoreDurable`, `StoreInMemory` | `store`: in the request's transaction with `ON CONFLICT DO NOTHING`, or at once in a dictionary |
| `Respond`, `Teardown` | the 201, then the exit of the session dependency |
| `DbFault`, `Crash`, `Expire`, `ActivateBundle` | environment |

`receipts`, `records` and `active` are the committed tables (or the dictionary of
the in-memory store); what an open transaction has inserted follows from its
`pc` and `stored`. Three switches choose the wiring the code offers:
`SessionCommits` (`session_scope`, which the tests and the docs use, or
`main._prod_get_session`), `DurableStore`, and `BundlesPersisted`
(`PostgresBundleProvider`, or the default provider whose bundle is no row).
Tenants and agents are taken as registered, as the foreign keys demand.

A receipt hash is collision free and binds a fresh snapshot id, so the request
itself stands for the hash. `FOR UPDATE` in the PostgreSQL lookup only delays and
is left out; so is the driver's conversion of the parameters of its `text()`
statements.

### BundleWorkflow

A session runs one call: `Begin`, then the segregation check, `Load` (the status
read that decides), for activations `FindPrior` and `Retire`, then `Flip`
(the UPDATE), then `Commit`. Updates are known by `Updated(s)` until they
commit. `WaitsFor` is what an UPDATE or INSERT waits for; `DeadlockVictim` is the
database breaking a circle. `BlankReason` is the one check that fails in the
middle of an activation: the savepoint undoes the supersede. The synthetic walk
of the bootstrap through propose, review and approve works on a row nobody else
sees, and is one step with the insert. A call whose reason is blank and one that
is refused for its status fail alike, in either order.

### Anchoring

`receipts[i]` is the time receipt `i` was signed; positions stand for hashes,
since the chain is intact (module `Ingest`). `Build`, `Publish` and `Discard` are
ingest as anchoring sees it: a receipt is signed before it commits, so it may
commit after a run has read the chain, or after midnight. A run is `Start`
(the row of the day), `ReadLatest`, `Stamp` or `StampFails`, `Delete` (of the
tombstone it read), `Insert` and `Commit`. `Grain` is the resolution of genTime. One clock is
assumed behind the API and the TSA. `Verify` is `verify_receipt_anchored_in`.

### ExportJob

`pc[j]` walks through the route (`create`, `schedule`) and the runner (`claim` in
session A, `build` and `complete` in B, `fail` in C). A commit may raise before it
is applied or after. A crash, or a shutdown, which cancels tasks, ends a runner
without session C. `Rerun` hands a job to `run_ma_export_job` again, once
nothing works on it.

### LedgerTables and its readers

`LedgerTables` is the interface between writers and readers: `AppendReceipt`,
`AnchorDay`, `CreateJob` and `MoveJob` are all that is ever committed to the
tables. `Anchoring` is shown to implement the first two (`ImplementsTables`:
its rows without stamps and runs, its committed receipts), and `Services` to
implement the other two (its property of the same name: the committed status of
each job). A receipt may commit long after it was signed, but never
before one signed later; a job may commit after one requested later.

`EvidenceExport` follows one export. `ReadAnchors`, each `ReadDay`,
`ReadReceipts` and `ReadLatestAnchor` are one SELECT each, and anything may
commit between two of them. `Compose` is `build_ma_diligence_export`, the
signature if the runner has a platform key, and the envelope if the caller gave
a recipient. `Seal` is what `ma_root_hash` binds: hashes are collision free, so
the hash is what it was computed from. `then` records what was committed when
the export began.

`Listings` follows one walk: `ReadPage` is one page by offset or by cursor,
after which the client may go on either way; `OpenRow` is the detail route.
`Metrics` runs its statements in the order of the code. In `Readers` one reader
is chosen at the start: readers write nothing and hold no locks, so they cannot
influence each other. A write that the chosen reader cannot see any more, or
that commutes with the statements it has left, is not followed further
(`ReceiptsMatter` and its like); this removes orders, not outcomes.

### Services

`StreamingUpload`: `slot[c]` is the multipart upload that `c` has in progress at
the store, `versions[o]` everything that could ever be read under a key. Each
call to the store has a sibling that raises, before or after it was applied. The
store behaves as `MockS3MultipartUploader` does; the S3 class of the repository
raises `NotImplementedError`.

`NarrativeClient`: `Call`, `Receive`, `CallRaises` are one attempt;
`working` are the calls the service has not finished, also those that `wait_for`
has given up, so late answers are steps of their own. `Check` is layers 3 and 4.

`Tabletop`: two replays of one scenario or window, action by action, and the
diff. Any outcome of the enforcement client is possible. Events are only
followed up to the reading of the window, with which they do not commute.

`ConnectionPool`: three kinds of requests by what they do with connections. A
"keyed" request holds one from its key lookup (PostgreSQL store) and opens the
second in `PostgresBundleProvider`.

In `Services` one of the five parts is chosen at the start and the others stay
as they are: they share no state while they work. This lets each be checked
with its full interleaving; nothing is claimed of a run in which two of them
act.

## 3. Runs

| Run | Question | Result |
|---|---|---|
| `ingest_chain` | do racing requests keep the chains intact, bind the right verdicts, ingest an event once, and implement `EvidenceChain`? | holds |
| `ingest_keyed` | are replays backed and right, does the first response stand, is a retry after the commit never ingested again (PostgreSQL store, crash, expiry)? | holds |
| `ingest_memory` | does the first response stand in the store the route uses by default? | holds |
| `workflow_races` | one active bundle, a log that accounts for every status, no half activation | holds |
| `anchor_runs` | do anchors stand, prove what they should and nothing later, and change the tables only as `LedgerTables` says? | holds |
| `calls_end` | is every request answered, does every workflow call end, circles of waits included; does every 201 become durable (with `session_scope`)? | holds |
| `readers` | are exports complete, their packs checkable against their anchors, their seals binding; do pages miss nothing, listed rows stand, figures fit together? | holds |
| `services` | do jobs agree with their outcome, stand and end; is the bucket whole and nothing left open; is no refused text returned; does the diff account for everything; does everybody leave the pool; do the jobs' commits do only what `LedgerTables` says? | holds |
| `ingest_main_session` | does a 201 become durable with the session dependency of `main.py`, the PostgreSQL bundle provider and store being set? | violated |
| `ingest_race` | does "exactly one" of several concurrent requests under one key win? | violated |
| `ingest_expiry` | does the response of a request after the TTL replace the old one (PostgreSQL store)? | violated |
| `workflow_forward` | are transitions forward only, is superseded terminal? | violated |

Bounds, and why they suffice.

* Ingest: three requests are the least with which a request races a winner while
  a third one replays or follows; two tenants the least that can share an event
  id; two bodies the least that conflict; one key, one expiry and one crash bring
  in every branch of the stores, and a second of each only repeats it.
  `calls_end` has two requests, enough to wait for each other.
* Workflow: three sessions race and make four calls in all, enough for a bundle
  to be superseded while another call still holds what it read; of the bundles two
  are approved at the start, the least for which two activations lock each other's
  rows in a circle, one is new, and two are defaults, the least for which a second
  bootstrap meets the version of the first.
* Anchoring: two overlapping runs and three in all give a tombstone, its
  replacement and a late rival; two days of two ticks tell apart "same day",
  "later day" and a stamp coarser than a signature.
* Readers: three receipts over two days and the midnight after them; scopes that
  begin and end at a midnight, within a day, and at the last instant; two packs
  of at most two receipts and at most three in all, so that each limit is met
  and exceeded; pages of one row, so that three receipts make four pages and every
  page is full; two jobs, so that one can turn up below another.
* Services: two jobs with two faults each cover a fault on top of a fault, with a
  crash and another hand-out; two uploads to one key or two, with bundles of no
  bytes, or of one to three parts, two raising calls (a part and the abort that
  follows it, or one each) and a death; two retries, so that a late answer may be
  to either of two calls given up; replays of two actions and three events, one
  more than a scenario takes; three requests for two connections, so that both
  may be held by requests that wait for their second.

Symmetry permutes requests, sessions, actors, bundles that start alike or anchor
runs, and only in runs
without liveness properties. Deadlock is checked in every run but `readers`,
where a reader with its answer stops; elsewhere `Quiet` or `Rest` is the one
step left when everything is done.

Fairness. `Ingest`, `BundleWorkflow` and `ExportJob` assume weak fairness of the
steps of each task: the event loop runs every ready task, and PostgreSQL lets a
waiting statement go on once the transaction it waits for is over, and breaks
circular waits. `ConnectionPool` assumes it of each request that has arrived:
the pool's timeout and the model's run out (`pool_timeout`, `wait_for`). A
request in the queue gets a connection or times out, whichever the pool's state
allows when its turn comes. Nothing is assumed of arrivals, faults, crashes, expiries, raising calls
or further hand-outs of a job, and nothing of uploads, narratives and tabletop
replays, whose properties are about safety.

## 4. Proofs

Every safety property that a passing run checks, invariants and action
properties alike, is a theorem: it holds for any sets of requests, sessions,
runs, jobs or callers, tables of any length and any bounds on faults and crashes.

| Module | Theorems (`Spec => ...`) | Inductive invariant |
|---|---|---|
| `IngestProofs` | `TypeCorrect`, `ChainStaysIntact`, `VerdictsMatchBundles`, `EventsAreIngestedOnce`, `IngestImplementsChain` | `ChainInv` |
| `IngestReplayProofs` | `ReplaysMatch`, `FirstResponsesStand`, and with the PostgreSQL store `DurableRecordsAreBacked`, `FreshMeansNeverDurable` | `IInv` |
| `WorkflowProofs` | `WorkflowTypeCorrect`, `NeverTwoActive`, `LogAccountsForStatus`, `ActivationsAreWhole` | `WInv` |
| `AnchoringProofs` | `AnchoringTypeCorrect`, `AnchorsStand`, `AnchorsProveThePast`, `NoStragglerIsLost`, `NoProofOfTheFuture`, `AnchoringImplementsTables` | `AInv` |
| `ReadersProofs` | `ReadersTypeCorrect`, `ExportsMissNothing`, `RootsAreInTheirPacks`, `SealsFixTheParts`, `WalksMissNothing`, `ListedRowsStand`, `FiguresFitTogether` | `ReadersInv` |
| `UploadProofs` | `ObjectsAreWhole`, `UploadsDoNotDangle` | `UInv` |
| `ServicesProofs` | `OutcomesMatch`, `JobsAreWorkedOnce`, `OutcomesStand`, `JobsImplementTables`, `RefusedTextIsNeverReturned`, `ReportsAccountForAll`, `ServicesTypeCorrect` | `JobsInv`, `NarrativeInv`, `TabInv`, `PoolInv` |

None of the properties is inductive as it stands, for none says what an open
transaction, a run or a reader has read already and holds until its next step.

* **Ingest.** `Progress`: a receipt being inserted was built over a committed one
  and from the request's own data. `Exclusive`: no two open transactions hold one
  event id or one position, and what one holds nobody else has committed.
  `Issued`: a committed receipt was issued by a request that is over. The step
  that matters is the commit: `CommitsAtTheEnd` shows that a transaction that
  holds its position commits right after the last committed one, because its
  predecessor is committed, the chain below is dense, and its own position is
  free. `RecordsMatch` and `AnswersMatch` say what a record was made for and whose
  answer a request carries. `KeysAreHeld` says of the PostgreSQL store that no
  two open transactions hold one key and that a committed receipt has its record;
  therefore a retry after the commit is never let through.
* **Workflow.** `ReadWasBacked`: the status that a session decides on was
  accounted for when it was read, and since the log only grows it still is, though
  the status may have changed. `HasTheIndex`: who has flipped a bundle to active
  and not committed shuts out every other flip, and the one bundle that is still
  active is the one it retires.
* **Anchoring.** `ChainIsTimed`: receipts are signed in the order of the chain.
  `RowIsSound` and `RunIsSound`: the root of a row, and what a run holds, is a
  committed receipt of its day, with a stamp not before that day. `IdsAreFresh`:
  row ids never repeat, so the tombstone a run has read is the only row that can
  have its id. `HasTheEntry`: of two runs that would write the same day's row only
  one can be about to commit, and only over no row or over the tombstone it has
  read. A verification path may have any length: `NoProofOfTheFuture` argues from
  the least position on a path that is out of order (`LeastElement`).
* **Readers.** The writers change nothing of a reader, so the invariant says what
  remains true of a read while the tables grow: the rows that were read cover the
  days that had one, with roots of their days (`RowsFit`); each pack holds what was
  there when the export began and all that its own anchor covers, and the packs to
  come are behind it (`PacksFit`); what a walk has listed stands, and what it has
  yet to list is on the pages still to come (`PagesStand`, `Ahead`, `NothingNew`);
  and each count is bounded by the tables as they are now (`MeasureInv`).
* **Uploads.** `CallerInv`: what a caller has sent is the beginning of its own
  bundle and what the store has in its slot. `VersionFits`: what the store shows
  was completed by a caller with all its parts. `SplitIsWhole` is the arithmetic:
  the parts of a bundle, cut at any size, make up the bundle.
* **Jobs.** `RowFits` ties how far a runner has come to the committed status: past
  its claim, a job is not pending. `RowsMoveLegally` then shows that every commit,
  also one that raises after it was applied, is one of four moves of the row, from
  which all four theorems about jobs follow.
* **Narratives.** `NarrativeInv` bounds the attempts and says which call a text
  that is being checked answers.
* **Tabletop.** `TabInv` gives each side that has begun a script: the actions
  given, or every event of its window once, of which results and summary cover a
  prefix. `FetchedIsTheWindow` is why: a query for one row more than the limit that
  returns no more than the limit has returned everything. `LaterSeesMore` compares
  the two windows, and `ReportsList` and `PartsAddUp` count the report.
* **Pool.** `PoolInv` ties what a request holds to where it is, so that what it
  gives back it had; a connection is taken only if one is free.

Three theorems are refinements. `IngestImplementsChain`: the endpoint does to the
receipts only what `EvidenceChain` allows. `AnchoringImplementsTables` and
`JobsImplementTables`: ingest, anchor runs, routes and runners do to the tables
only what `LedgerTables` allows, so that `Readers`, which is composed with
`LedgerTables`, is proved against all that the writers can do.

Assumptions are the named `ASSUME`s, which TLC evaluates in every run: switches
are Booleans, bounds are naturals, a day has at least one tick and a genTime a
resolution that divides it, limits and part sizes are positive, defaults and
authored bundles are different bundles, jobs are numbered, and `None` is none of
the other values. Two theorems are about the PostgreSQL store and say so
(`ASSUME DurableStore`); for the store in memory what they state is false: a
record there outlives the rollback of its receipt, and a restart empties it.

Only model checked: the liveness properties `EveryRequestAnswered`,
`AckedBecomesDurable`, `EveryCallEnds`, `NoJobIsStranded` and
`RequestsLeaveThePool`, because the prover has no rule for fairness and ENABLED,
and the four runs that end in a counterexample. Deadlock freedom is TLC's, too.
No module declares a recursive operator. Proof attempts have changed the models
twice: the arms of a CASE in the diff of the tabletop overlapped where both sides
errored, and are now a chain of IFs as in the code; and the pool's count of
connections is that of a set of pairs, which can be reasoned about.

## 5. What the models show of the code

Four runs end in a counterexample; `PROJECT.json` quotes the lines that say
otherwise.

1. The session dependency of `main.py` never commits: a 201 whose receipt is
   rolled back. The run sets the PostgreSQL bundle provider, which is not the
   default: with the default one no ingest gets as far as a 201 (below).
2. `lookup_or_claim` claims nothing: two overlapping requests of one key both
   issue a receipt.
3. In PostgreSQL an expired record is never replaced, so its key is without
   protection from then on.
4. An activation that is delayed after its status check takes a superseded
   bundle back to active.

Observed while modelling, with no run of their own:

* The default bundle provider keeps its bundle in memory, so the snapshot's
  foreign key fails: with the default wiring every ingest ends in a 500.
* A tenant whose only bundle was the default one and was superseded cannot
  bootstrap again: version 1.0.0 exists (the docstring of `supersede` promises
  the bootstrap).
* A `propose` that commits after the review lets the author be the reviewer.
* The `IntegrityError` of two concurrent activations is not turned into a
  `BundleWorkflowError`, as the docstring of `activate` says.
* A receipt that commits after its day was anchored is never under that day's
  root, though the table's docstring says the row covers all receipts of the
  day; a later day's anchor proves it (`StragglersAreProved`).
* A stamp in the unit of a genTime may lie before the signature of its own
  root when a day is anchored while it lasts; `AnchorProvesItsPast` is
  therefore about stamps taken after the day.
* In memory, a record outlives the rollback of the receipt it answers for.
* `stream_ma_diligence_export_to_s3` says that every exception of the uploader
  triggers an abort; `initiate` is called before the `try`, so when only its
  answer is lost an upload stays open that nobody knows (`lost`). An abort that
  raises replaces the exception it follows.
* A completion whose answer is lost raises although the object is there, perhaps
  over another caller's: whoever sees the exception cannot tell.
* The diligence routes describe a day as `[00:00, 23:59]`, but read it up to and
  with the next midnight: a receipt signed exactly then is in two packs and twice
  in the total. Days without an anchor row have no pack, so receipts of the days
  that are not anchored yet are not in a bundle, and stragglers that commit
  between two reads may be in the later day and not in the earlier one.
* An evidence pack reads its receipts first, so its anchor's root may be a
  receipt that is not in it; for bundles the order is the other way round, and
  `RootIsInItsPack` holds.
* The job route never passes a signing key to the runner, so a job that asks for
  a platform signature completes without one.
* `next_before_sequence` may be 0, which the route then refuses with a 422.
  Nothing is missed by it (`PagesMissNothing`), but the walk ends in an error.
  Pages by offset, and a change from offset to cursor, may repeat rows.
* A tombstone that was listed may be a 404 when it is opened.
* One metrics answer may count a job in up to three statuses, count a day whose
  tombstone is replaced between the two counts in neither, and give more receipts
  in the window than in total.
* `list_event_payloads_for_tenant_window` promises the same labels in the same
  order for the same window, but events of one `occurred_at` have no order among
  themselves, and late events enter a window.
* `diff_tabletop_results` with the client that is wired says nothing of two
  bundles: it classifies by the action alone.
* A model reply without text passes both checks and is a 200 with an empty text.
* A narrative keeps its connection for up to three timeouts of the model, more
  than the pool's timeout; fifteen of them leave every other request to fail. So do
  fifteen keyed ingests that wait for their second connection, until the first
  timeout (`RequestsLeaveThePool` holds only thanks to it).
* A job whose `pending` commit is applied but not acknowledged, or whose runner
  is cancelled, is stranded: nothing sweeps jobs.

## 6. Not modelled

* Cryptographic algorithms and key providers (hashes are collision free,
  signatures are what they sign), authentication tokens, HTTP and ASN.1 of the
  TSA client: stateless, and out of the reach of model checking.
* The normaliser, policy classification, version arithmetic, prompt wording, PDF,
  console and scripts: stateless, or without a part in the evidence. Of the
  migrations only the empty tables they create are modelled (`Init`).
* `crypto/merkle.py` (a hash chain, not a tree), `policy/replay.py` and
  `daily_chunks`: pure functions without a caller.
* Two runners of one export job at a time: no path of the code starts them.
* `events_in_window` of the metrics, which goes by a time the client gives;
  the metrics' window over anchors and jobs.
* `include_matches` of the diff, which only adds rows.

## 7. Plan

All safety properties that are checked are proved. What is left:

1. A property for the segregation check of the workflow, which reads the approval
   log before the transition (`bundle_workflow.py:334`): who may be the reviewer
   when a propose commits late, and what holds all the same.
2. The link between `Ingest` and the receipts of `Anchoring`: `Build` and
   `Publish` as an implementation of `EvidenceChain` for one tenant.
3. Invariants behind the liveness properties that can be stated without
   fairness: that a job which is accepted and not terminal has a runner unless a
   crash or a fault of its claim took it, and that every request in the pool's
   queue has a timeout ahead of it.
4. `KeysAreHeld` for the store in memory: which requests can be let through
   between a record and the commit of its receipt.
