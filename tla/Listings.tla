------------------------------ MODULE Listings ------------------------------
(***************************************************************************)
(* GET /v1/receipts, /v1/anchors and /v1/exports/ma-diligence/jobs: a      *)
(* client walks through the pages of one table while it changes, and then  *)
(* opens one of the rows it was listed.                                    *)
(*                                                                         *)
(* Pages go from the newest row to the oldest.  Any of the tables can be   *)
(* walked by offset; receipts also by a cursor, the smallest sequence of   *)
(* the page before, and a client may change from offset to cursor at any   *)
(* page.  The walk ends with a page shorter than the limit.                *)
(***************************************************************************)
EXTENDS LedgerTables, FiniteSets

CONSTANTS
    Limit,    \* rows of a page
    Bounds    \* the ends a time filter may have

\* Assumed in module Readers.
LimitIsPositive == Limit \in Nat \ {0}

VARIABLES
    phase,  \* how far the walk has come
    page,   \* which page the client asks for next
    query,  \* the table and the filter
    pages,  \* the pages it was given
    opened, \* the row it opened, and the answer
    there   \* the keys that matched at the first page (history)

listing == <<phase, page, query, pages, opened, there>>

-----------------------------------------------------------------------------
\* The filter of the jobs is always open.
Queries ==
    [table : {"receipts", "anchors"}, after : Bounds, before : Bounds]
        \cup {[table |-> "jobs", after |-> 0, before |-> MaxTime]}

\* The keys that match, which are also the order of the pages: sequence,
\* anchor_date, requested_at.
Matching(q) ==
    CASE q.table = "receipts" -> SignedWithin(q.after, q.before)
      [] q.table = "anchors" -> AnchoredWithin(q.after, q.before)
      [] q.table = "jobs" -> {j \in JobIds : jobs[j] # None}

\* What a list item shows of a row, its id included.
Item(q, k) ==
    CASE q.table = "receipts" -> SignedAt(k)
      [] q.table = "anchors" -> anchors[k]
      [] q.table = "jobs" -> jobs[k]

At(offset) == [cursor |-> FALSE, mark |-> offset]
Below(sequence) == [cursor |-> TRUE, mark |-> sequence]

\* Mutant of Rows: the cursor itself is included, and an offset counts from one.
RowsFromMark(q, p) ==
    LET kept == IF p.cursor THEN {k \in Matching(q) : k <= p.mark} ELSE Matching(q)
        skipped == IF p.cursor THEN 0 ELSE p.mark + 1 IN
    {k \in kept : Cardinality({m \in kept : m > k}) \in skipped .. skipped + Limit - 1}

\* Mutant of Rows: the limit is left out.
RowsUnlimited(q, p) ==
    LET kept == IF p.cursor THEN {k \in Matching(q) : k < p.mark} ELSE Matching(q) IN
    {k \in kept : p.cursor \/ Cardinality({m \in kept : m > k}) >= p.mark}

\* ORDER BY key DESC LIMIT :limit, with OFFSET or with sequence < :cursor.
Rows(q, p) ==
    LET kept == IF p.cursor THEN {k \in Matching(q) : k < p.mark} ELSE Matching(q)
        skipped == IF p.cursor THEN 0 ELSE p.mark IN
    {k \in kept : Cardinality({m \in kept : m > k}) \in skipped .. skipped + Limit - 1}

Least(K) == CHOOSE k \in K : \A m \in K : k <= m

\* The pages a client may ask for after a full page of keys K.
NextPages(q, p, K) ==
    (IF p.cursor THEN {} ELSE {At(p.mark + Limit)})
        \cup (IF q.table = "receipts" THEN {Below(Least(K))} ELSE {})

-----------------------------------------------------------------------------
ListingInit ==
    /\ phase = "idle"
    /\ page = None
    /\ query = None
    /\ pages = <<>>
    /\ opened = None
    /\ there = {}

\* Another tenant's id, a naive bound, bounds in the wrong order.
RefuseQuery(q) ==
    /\ phase = "idle"
    /\ q.after > q.before
    /\ phase' = "refused"
    /\ query' = q
    /\ UNCHANGED <<page, pages, opened, there>>

StartWalk(q) ==
    /\ phase = "idle"
    /\ q.after <= q.before
    /\ phase' = "walking"
    /\ page' = At(0)
    /\ query' = q
    /\ UNCHANGED <<pages, opened, there>>

\* before_sequence must be at least 1.
Accepted(p) == p.cursor => p.mark >= 1

ReadPage ==
    LET K == Rows(query, page) IN
    /\ phase = "walking"
    /\ Accepted(page)
    /\ pages' = Append(pages, [cursor |-> page.cursor, rows |-> [k \in K |-> Item(query, k)]])
    /\ IF Cardinality(K) < Limit
       THEN phase' = "end" /\ page' = None
       ELSE phase' = phase /\ page' \in NextPages(query, page, K)
    /\ there' = IF pages = <<>> THEN Matching(query) ELSE there
    /\ UNCHANGED <<query, opened>>

\* A 422: the walk ends here.
RefusePage ==
    /\ phase = "walking"
    /\ ~ Accepted(page)
    /\ phase' = "end"
    /\ page' = None
    /\ UNCHANGED <<query, pages, opened, there>>

\* Is the row that was listed under key k still there?  No receipt or job is
\* ever deleted; a tombstone gives way to a row with another id, which may be
\* a tombstone again.
Remains(k, item) ==
    CASE query.table = "anchors" /\ anchors[k] # item -> {FALSE}
      [] query.table = "anchors" /\ item = Deferred -> BOOLEAN
      [] OTHER -> {k \in Matching(query)}

\* GET by id.  An anchor comes back as its row, or as the raw timestamp reply,
\* which a tombstone has not.
OpenRow(n, k) ==
    LET item == pages[n].rows[k]
        Answer(code) == opened' = [code |-> code, key |-> k, listed |-> item] IN
    /\ phase = "end"
    /\ phase' = "closed"
    /\ \/ FALSE \in Remains(k, item) /\ Answer("404")
       \/ TRUE \in Remains(k, item) /\ Answer("200")
       \/ /\ query.table = "anchors" /\ item = Deferred
          /\ TRUE \in Remains(k, item)
          /\ Answer("406")
    /\ UNCHANGED <<page, query, pages, there>>

ListingStep ==
    \/ \E q \in Queries : RefuseQuery(q) \/ StartWalk(q)
    \/ ReadPage
    \/ RefusePage
    \/ \E n \in DOMAIN pages : \E k \in DOMAIN pages[n].rows : OpenRow(n, k)

-----------------------------------------------------------------------------
(* Type invariant *)

\* Every variable of a listing has its type.
ListingTypeOK ==
    /\ phase \in {"idle", "refused", "walking", "end", "closed"}
    /\ query \in Queries \cup {None}
    /\ IF phase = "walking" THEN page \in [cursor : BOOLEAN, mark : Nat] ELSE page = None
    /\ \A n \in DOMAIN pages : Cardinality(DOMAIN pages[n].rows) <= Limit
    /\ phase # "closed" => opened = None
    /\ phase = "closed" => opened.code \in {"200", "404", "406"}

-----------------------------------------------------------------------------
(* Safety *)

Listed == UNION {DOMAIN pages[n].rows : n \in DOMAIN pages}

\* A walk to its end misses no row that matched at its first page: rows that
\* are added meanwhile push others back only to pages that are still to come,
\* and a walk that changes from offset to cursor loses no place.  A walk by
\* cursor from the second page on lists just these rows, each of them once.
PagesMissNothing ==
    phase \in {"end", "closed"} =>
        /\ there \subseteq Listed
        /\ (\A n \in DOMAIN pages : n > 1 => pages[n].cursor) =>
               /\ Listed = there
               /\ \A m, n \in DOMAIN pages :
                      m # n => DOMAIN pages[m].rows \cap DOMAIN pages[n].rows = {}

Progress(s) == CASE s = "pending" -> 0 [] s = "running" -> 1 [] OTHER -> 2

\* What was listed can be opened, and has not been taken back: a receipt and an
\* anchored row are as they were, a job is where it was or further on, and only
\* a tombstone may be gone.
ListedStands ==
    phase = "closed" =>
        LET k == opened.key IN
        CASE query.table = "receipts" -> opened.code = "200" /\ SignedAt(k) = opened.listed
          [] query.table = "anchors" -> opened.code = "200" \/ opened.listed = Deferred
          [] query.table = "jobs" ->
                 /\ opened.code = "200"
                 /\ jobs[k] = opened.listed \/ Progress(opened.listed) < Progress(jobs[k])
=============================================================================
