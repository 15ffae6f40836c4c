----------------------------- MODULE Anchoring -----------------------------
(***************************************************************************)
(* The daily timestamp anchors of one tenant (all that anchor_day does is  *)
(* about one tenant), taken while receipts are being issued.               *)
(*                                                                         *)
(* A run of anchor_day reads the anchor row of the day, reads the latest   *)
(* receipt signed on that day, asks a timestamp authority (TSA) to witness *)
(* its hash, and then deletes the tombstone it read and inserts a row of   *)
(* its own.  Runs for the same day may overlap, each in a transaction of   *)
(* its own (READ COMMITTED); receipts commit at any point in between.      *)
(*                                                                         *)
(* A receipt is known by its position, for the chain is intact (module     *)
(* Ingest): receipts[i] is when receipt i was signed, and the previous     *)
(* hash of receipt i is the hash of receipt i - 1.  Time counts the finest *)
(* difference two signed_at values can have; the genTime of a TSA may be   *)
(* coarser than that.  One clock is assumed behind all of them.            *)
(***************************************************************************)
EXTENDS Integers, Sequences, FiniteSets

CONSTANTS
    Jobs,         \* runs that may be open at once
    None,         \* no row, no root, no stamp
    DayLength,    \* clock ticks of a day
    Grain,        \* clock ticks of a genTime unit; a day is a multiple of it
    MaxTime,      \* bound: the clock's last tick
    MaxReceipts,  \* bound: receipts ever committed
    MaxDrafts,    \* bound: receipts built and not yet committed
    MaxRuns       \* bound: runs ever started

ASSUME ClockIsPositive ==
    /\ {DayLength, Grain} \subseteq Nat \ {0}
    /\ DayLength % Grain = 0

ASSUME AnchorBoundsAreNaturals == {MaxTime, MaxReceipts, MaxDrafts, MaxRuns} \subseteq Nat

VARIABLES
    now,       \* the clock
    receipts,  \* when each committed receipt was signed, by position
    drafts,    \* receipts built and signed in transactions that are open
    anchors,   \* the committed row of each day
    pc,        \* where each run is
    run,       \* its number: the id of the row it inserts
    day,       \* the day it anchors
    old,       \* the id of the tombstone it has read
    root,      \* the receipt whose hash it submits
    stamp,     \* the TSA's answer
    runs       \* runs started so far

chain == <<receipts, drafts>>
job == <<pc, run, day, old, root, stamp>>
vars == <<now, chain, anchors, job, runs>>

-----------------------------------------------------------------------------
Times == 0 .. MaxTime
DayOf(t) == t \div DayLength
Days == 0 .. DayOf(MaxTime)

Positions == 0 .. MaxReceipts - 1

Row == [id : 1 .. MaxRuns, root : Positions \cup {None}, at : Times \cup {None}]

ASSUME NoneIsNoValue == None \notin Nat \cup Row

\* status = 'anchored'; a row without a root is a deferred tombstone.
Anchored(row) == row # None /\ row.root # None

\* The committed receipts, and the time one was signed at.
Committed == 0 .. Len(receipts) - 1
SignedAt(i) == receipts[i + 1]

\* The committed receipts signed within _day_bounds of d.
ReceiptsOfDay(d) == {i \in Committed : DayOf(SignedAt(i)) = d}

\* Mutant of LatestOfDay: the day has no lower bound.
LatestByDay(d) ==
    LET R == {i \in Committed : DayOf(SignedAt(i)) <= d} IN
    IF R = {} THEN None ELSE CHOOSE i \in R : \A k \in R : k <= i

\* _get_latest_receipt_for_day: ORDER BY sequence DESC LIMIT 1.
LatestOfDay(d) ==
    IF ReceiptsOfDay(d) = {}
    THEN None
    ELSE CHOOSE i \in ReceiptsOfDay(d) : \A k \in ReceiptsOfDay(d) : k <= i

\* The id of the committed row of d.
RowId(d) == IF anchors[d] = None THEN None ELSE anchors[d].id

\* Two open runs are about the same day.
Rival(j, k) == k # j /\ day[k] = day[j]

\* Run k has deleted the committed row of its day, and not committed.
HasDeleted(k) == pc[k] \in {"insert", "commit"} /\ old[k] # None /\ old[k] = RowId(day[k])

-----------------------------------------------------------------------------
Init ==
    /\ now = 0
    /\ receipts = <<>>
    /\ drafts = {}
    /\ anchors = [d \in Days |-> None]
    /\ pc = [j \in Jobs |-> "idle"]
    /\ run = [j \in Jobs |-> None]
    /\ day = [j \in Jobs |-> None]
    /\ old = [j \in Jobs |-> None]
    /\ root = [j \in Jobs |-> None]
    /\ stamp = [j \in Jobs |-> None]
    /\ runs = 0

Goto(j, from, to) == pc[j] = from /\ pc' = [pc EXCEPT ![j] = to]

Tick ==
    /\ now < MaxTime
    /\ now' = now + 1
    /\ UNCHANGED <<chain, anchors, job, runs>>

-----------------------------------------------------------------------------
(* Ingest, as far as anchoring sees it *)

\* A receipt is built on the committed head, and signed now.
Build ==
    LET x == [seq |-> Len(receipts), signed |-> now] IN
    /\ x.seq < MaxReceipts
    /\ drafts' = drafts \cup {x}
    /\ Cardinality(drafts') <= MaxDrafts
    /\ UNCHANGED <<now, receipts, anchors, job, runs>>

\* Mutant of Publish: a receipt whose position is taken gets the next one.
PublishAnyway(x) ==
    /\ Len(receipts) < MaxReceipts
    /\ receipts' = Append(receipts, x.signed)
    /\ drafts' = drafts \ {x}
    /\ UNCHANGED <<now, anchors, job, runs>>

\* Its transaction commits, the first at its position to do so.
Publish(x) ==
    /\ x.seq = Len(receipts)
    /\ receipts' = Append(receipts, x.signed)
    /\ drafts' = drafts \ {x}
    /\ UNCHANGED <<now, anchors, job, runs>>

\* Its transaction rolls back.
Discard(x) ==
    /\ drafts' = drafts \ {x}
    /\ UNCHANGED <<now, receipts, anchors, job, runs>>

-----------------------------------------------------------------------------
(* A run of anchor_day *)

\* The call reads the row of the day: none, or a tombstone.
Start(j, d) ==
    /\ runs < MaxRuns
    /\ runs' = runs + 1
    /\ ~Anchored(anchors[d])
    /\ Goto(j, "idle", "read")
    /\ run' = [run EXCEPT ![j] = runs']
    /\ day' = [day EXCEPT ![j] = d]
    /\ old' = [old EXCEPT ![j] = RowId(d)]
    /\ UNCHANGED <<now, chain, anchors, root, stamp>>

\* AnchorAlreadyExistsError.
AlreadyAnchored(d) ==
    /\ runs < MaxRuns
    /\ runs' = runs + 1
    /\ Anchored(anchors[d])
    /\ UNCHANGED <<now, chain, anchors, job>>

\* The day's latest receipt; a day without one is not taken to the TSA.
ReadLatest(j) ==
    /\ Goto(j, "read", IF LatestOfDay(day[j]) = None THEN "delete" ELSE "stamp")
    /\ root' = [root EXCEPT ![j] = LatestOfDay(day[j])]
    /\ UNCHANGED <<now, chain, anchors, run, day, old, stamp, runs>>

\* The TSA witnesses the root: genTime, in its own unit.
Stamp(j) ==
    /\ Goto(j, "stamp", "delete")
    /\ stamp' = [stamp EXCEPT ![j] = now - (now % Grain)]
    /\ UNCHANGED <<now, chain, anchors, run, day, old, root, runs>>

\* Mutant of StampFails: the root stays in the tombstone.
StampFailsKeepingRoot(j) ==
    /\ Goto(j, "stamp", "delete")
    /\ UNCHANGED <<now, chain, anchors, run, day, old, root, stamp, runs>>

\* TimestampClientError: the day is deferred.
StampFails(j) ==
    /\ Goto(j, "stamp", "delete")
    /\ root' = [root EXCEPT ![j] = None]
    /\ UNCHANGED <<now, chain, anchors, run, day, old, stamp, runs>>

\* DELETE of the tombstone by its id, which waits for another run that is
\* deleting it, and matches nothing once it is gone.
Delete(j) ==
    /\ Goto(j, "delete", "insert")
    /\ \A k \in Jobs : Rival(j, k) /\ HasDeleted(k) => old[k] # old[j]
    /\ UNCHANGED <<now, chain, anchors, run, day, old, root, stamp, runs>>

\* No other open transaction has a change to the unique entry of the day.
EntryFree(j) ==
    \A k \in Jobs : Rival(j, k) => pc[k] # "commit" /\ ~HasDeleted(k)

\* Mutant of EntryTaken: the delete was by tenant and date.
EntryNeverTaken(j) == FALSE

\* A row of the day is committed that this run has not deleted.
EntryTaken(j) == RowId(day[j]) \notin {None, old[j]}

Insert(j) ==
    /\ Goto(j, "insert", "commit")
    /\ EntryFree(j)
    /\ ~EntryTaken(j)
    /\ UNCHANGED <<now, chain, anchors, run, day, old, root, stamp, runs>>

\* The run is over, and the session closed.
Close(j) ==
    /\ pc' = [pc EXCEPT ![j] = "idle"]
    /\ run' = [run EXCEPT ![j] = None]
    /\ day' = [day EXCEPT ![j] = None]
    /\ old' = [old EXCEPT ![j] = None]
    /\ root' = [root EXCEPT ![j] = None]
    /\ stamp' = [stamp EXCEPT ![j] = None]
    /\ UNCHANGED <<now, chain, runs>>

\* uq_timestamp_anchors_tenant_date.
InsertFails(j) ==
    /\ pc[j] = "insert"
    /\ EntryFree(j)
    /\ EntryTaken(j)
    /\ Close(j)
    /\ UNCHANGED anchors

\* Mutant of Commit: the root is looked up again as the row is written.
CommitLatest(j) ==
    /\ pc[j] = "commit"
    /\ anchors' = [anchors EXCEPT ![day[j]] =
                      [id |-> run[j], at |-> stamp[j],
                       root |-> IF root[j] = None THEN None ELSE Len(receipts) - 1]]
    /\ Close(j)

Commit(j) ==
    /\ pc[j] = "commit"
    /\ anchors' = [anchors EXCEPT ![day[j]] =
                      [id |-> run[j], root |-> root[j], at |-> stamp[j]]]
    /\ Close(j)

\* The job or its connection is lost: the transaction rolls back.
Abort(j) ==
    /\ pc[j] # "idle"
    /\ Close(j)
    /\ UNCHANGED anchors

-----------------------------------------------------------------------------
(* verify_receipt_anchored_in *)

\* Mutant of Linked: the walk starts at the third receipt.
LinkedFromThird(between) ==
    \A k \in 3 .. Len(between) : between[k] - 1 = between[k - 1]

\* Each receipt carries the hash of the one before it.
Linked(between) == \A k \in 2 .. Len(between) : between[k] - 1 = between[k - 1]

\* Receipt i is provably anchored by row, by way of the receipts between.
Verify(i, row, between) ==
    /\ Anchored(row)
    /\ SignedAt(i) <= row.at
    /\ IF between = <<>>
       THEN i = row.root
       ELSE /\ between[1] - 1 = i
            /\ Linked(between)
            /\ between[Len(between)] = row.root

\* The receipts that lead from i to the root of row.
Path(i, row) == [k \in 1 .. row.root - i |-> i + k]

Provable(i, row) == i <= row.root /\ Verify(i, row, Path(i, row))

-----------------------------------------------------------------------------
Step(j) ==
    \/ ReadLatest(j)
    \/ Stamp(j) \/ StampFails(j)
    \/ Delete(j)
    \/ Insert(j) \/ InsertFails(j)
    \/ Commit(j)

Ingest == Build \/ \E x \in drafts : Publish(x) \/ Discard(x)

\* The last day is over, and nothing is open.
Quiet ==
    /\ now = MaxTime
    /\ runs = MaxRuns
    /\ drafts = {}
    /\ \A j \in Jobs : pc[j] = "idle"
    /\ UNCHANGED vars

Next ==
    \/ Tick
    \/ Ingest
    \/ \E j \in Jobs, d \in Days : Start(j, d)
    \/ \E d \in Days : AlreadyAnchored(d)
    \/ \E j \in Jobs : Step(j) \/ Abort(j)
    \/ Quiet

Spec == Init /\ [][Next]_vars

-----------------------------------------------------------------------------
(* Type invariant *)

\* Every variable has its type, and a row has a TSA time if and only if it has
\* a root.
TypeOK ==
    /\ now \in Times
    /\ receipts \in Seq(Times)
    /\ drafts \subseteq [seq : Positions, signed : Times]
    /\ anchors \in [Days -> Row \cup {None}]
    /\ \A d \in Days : anchors[d] # None => (anchors[d].root = None <=> anchors[d].at = None)
    /\ pc \in [Jobs -> {"idle", "read", "stamp", "delete", "insert", "commit"}]
    /\ run \in [Jobs -> 1 .. MaxRuns \cup {None}]
    /\ day \in [Jobs -> Days \cup {None}]
    /\ old \in [Jobs -> 1 .. MaxRuns \cup {None}]
    /\ root \in [Jobs -> Positions \cup {None}]
    /\ stamp \in [Jobs -> Times \cup {None}]
    /\ runs \in 0 .. MaxRuns

-----------------------------------------------------------------------------
(* Safety *)

\* An anchor stamped after its day is over proves every receipt of the tenant
\* up to its root, whatever committed while the TSA was asked: they were all
\* signed before the stamp and are linked to the root.
AnchorProvesItsPast ==
    \A d \in Days :
        /\ Anchored(anchors[d])
        /\ DayOf(anchors[d].at) > d
        => \A i \in 0 .. anchors[d].root : Provable(i, anchors[d])

\* A receipt that misses the anchor of the day it was signed on, because it
\* committed after that run had read the chain, is proved by every anchor of a
\* later day: no receipt signed earlier commits behind the root of a later day.
StragglersAreProved ==
    \A d \in Days :
        Anchored(anchors[d]) =>
            \A i \in Committed :
                DayOf(SignedAt(i)) < d => Provable(i, anchors[d])

\* A proof is never about the future: whatever receipts are offered as the
\* path, only a receipt at or before the root of an anchor verifies against it.
ProofsAreSound ==
    \A d \in Days :
        Anchored(anchors[d]) =>
            \A i \in Committed : i > anchors[d].root =>
                \A n \in 0 .. Len(receipts) :
                    \A between \in [1 .. n -> Committed] : ~ Verify(i, anchors[d], between)

\* Once a day is anchored its row stands: an overlapping run that had read the
\* tombstone, or nothing, never replaces it, not even by a later deferral.
AnchorStands ==
    [][\A d \in Days : Anchored(anchors[d]) => anchors'[d] = anchors[d]]_vars

-----------------------------------------------------------------------------
(* Refinement *)

\* What a reader of the tables sees of a row.
Tables == INSTANCE LedgerTables WITH
    anchors <- [d \in Days |->
                   IF anchors[d] = None THEN None ELSE [root |-> anchors[d].root]],
    jobs <- <<>>,
    MaxJobs <- 0

\* Ingest and overlapping anchor runs do to the tables only what LedgerTables
\* allows: a receipt is appended that was signed after the one before, or a day
\* without an anchor gets a row over a receipt of that very day, or none.
ImplementsTables == Tables!TablesSpec
=============================================================================
