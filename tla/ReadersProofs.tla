--------------------------- MODULE ReadersProofs ---------------------------
(***************************************************************************)
(* Proofs about the readers of the ledger, for tables of any size and any  *)
(* limits.  The invariant has a part for the tables and one for each kind  *)
(* of reader; the writers change nothing of a reader, so what a reader has *)
(* stands because the tables only grow and move forward.                   *)
(***************************************************************************)
EXTENDS Readers, NumberLemmas, TLAPS

-----------------------------------------------------------------------------
(* The invariant of an export *)

PackType ==
    [from : Nat, to : Nat, items : SUBSET Positions,
     day : Days \cup {None}, anchor : AnchorRow \cup {None}]

\* The receipts of its window that were committed when the export began are in
\* pack p, and all in it are of its window.
Holds(p) ==
    /\ p.items \subseteq SignedWithin(p.from, p.to)
    /\ \A i \in SignedWithin(p.from, p.to) : i < then.count => i \in p.items

AskFits ==
    /\ ask \in Exporting!Ask
    /\ then.count \in 0 .. Len(receipts)
    /\ then.days \subseteq AnchoredWithin(ask.from, ask.to)

\* The rows that were read cover the days that had one when the export began.
RowsFit ==
    /\ DOMAIN rows \subseteq AnchoredWithin(ask.from, ask.to)
    /\ then.days \subseteq DOMAIN rows
    /\ \A d \in DOMAIN rows : rows[d].root # None => rows[d].root \in ReceiptsOfDay(d)

\* A pack of a bundle holds the slice of its day, and all that its own anchor
\* covers.
DayPackFits(p) ==
    /\ p.day \in DOMAIN rows
    /\ p.anchor = rows[p.day]
    /\ p.from = Exporting!DayWindow(p.day).from
    /\ p.to = Exporting!DayWindow(p.day).to
    /\ Holds(p)
    /\ p.anchor.root # None =>
           \A i \in SignedWithin(p.from, p.to) : i <= p.anchor.root => i \in p.items

\* The packs are in the order of their days, with those to come behind them.
PacksFit ==
    /\ \A k \in DOMAIN packs : DayPackFits(packs[k])
    /\ \A j, k \in DOMAIN packs : j < k => packs[j].day < packs[k].day
    /\ \A k \in DOMAIN packs : \A d \in Exporting!Unpacked : packs[k].day < d

\* Bundle b is what was read, and sealed.
BundleFits(b) ==
    /\ b = [packs |-> packs,
            anchors |-> [k \in DOMAIN packs |-> [day |-> packs[k].day, row |-> packs[k].anchor]],
            header |-> b.header, seal |-> b.seal, signature |-> b.signature]
    /\ b.seal = Exporting!Seal(b, b.header)
    /\ b.signature \in {None, b.seal}

BundleIsDelivered ==
    /\ ask.kind # "pack"
    /\ AskFits /\ RowsFit /\ PacksFit
    /\ Exporting!Unpacked = {}
    /\ reply.code = "200"
    /\ BundleFits(Exporting!Delivered)

PackIsDelivered ==
    /\ ask.kind = "pack"
    /\ AskFits
    /\ reply.code = "200"
    /\ \A i \in SignedWithin(ask.from, ask.to) : i < then.count => i \in reply.pack.items

ExportTypes ==
    /\ stage \in {"idle", "anchors", "days", "receipts", "anchor", "done"}
    /\ ask \in Exporting!Ask \cup {None}
    /\ rows \in [DOMAIN rows -> AnchorRow] /\ DOMAIN rows \subseteq Days
    /\ packs \in Seq(PackType)

ExportInv ==
    /\ ExportTypes
    /\ stage = "idle" => ask = None
    /\ stage # "done" => reply = None
    /\ stage \in {"idle", "anchors", "receipts"} => packs = <<>>
    /\ stage = "anchors" => ask.kind # "pack" /\ AskFits
    /\ stage = "days" => ask.kind # "pack" /\ AskFits /\ RowsFit /\ PacksFit
    /\ stage = "receipts" => ask.kind = "pack" /\ AskFits
    /\ stage = "anchor" =>
           /\ ask.kind = "pack" /\ AskFits
           /\ Len(packs) = 1
           /\ packs[1].from = ask.from /\ packs[1].to = ask.to
           /\ Holds(packs[1])
    /\ stage = "done" =>
           \/ reply.code \in {"4xx", "413", "422", "failed"}
           \/ BundleIsDelivered
           \/ PackIsDelivered
    /\ ask # None => then.count \in Nat /\ then.days \subseteq Days

-----------------------------------------------------------------------------
(* The invariant of a walk *)

\* The row that was listed as item under key k is there, as it was or further
\* on.
Stands(k, item) ==
    /\ k \in Listing!Matching(query)
    /\ query.table = "receipts" => SignedAt(k) = item
    /\ query.table = "anchors" => item = Deferred \/ anchors[k] = item
    /\ query.table = "jobs" =>
           \/ jobs[k] = item
           \/ Listing!Progress(item) < Listing!Progress(jobs[k])

PagesStand ==
    \A n \in DOMAIN pages : \A k \in DOMAIN pages[n].rows : Stands(k, pages[n].rows[k])

Unlisted == there \ Listing!Listed

\* What the walk has yet to list is on the pages still to come: by offset they
\* have at least as many rows above them, by cursor they are below it.
Ahead ==
    IF page.cursor
    THEN /\ query.table = "receipts"
         /\ page.mark \in Committed
         /\ \A k \in Unlisted : k < page.mark
    ELSE \A k \in Unlisted : Cardinality(Above(Listing!Matching(query), k)) >= page.mark

\* A walk by cursor after its first page.
ByCursor ==
    /\ \A n \in DOMAIN pages : n > 1 => pages[n].cursor
    /\ phase = "walking" => page.cursor

\* Such a walk lists nothing new and nothing twice.
NothingNew ==
    /\ Listing!Listed \subseteq there
    /\ \A m, n \in DOMAIN pages :
           m # n => DOMAIN pages[m].rows \cap DOMAIN pages[n].rows = {}
    /\ phase = "walking" =>
           /\ \A k \in Listing!Listed : page.mark <= k
           /\ \A k \in Listing!Matching(query) : k < page.mark => k \in there

OpenedStands ==
    /\ Stands(opened.key, opened.listed)
    /\ opened.code \in {"200", "404", "406"}
    /\ opened.code = "200" \/ (query.table = "anchors" /\ opened.listed = Deferred)

PageType == [cursor : BOOLEAN, mark : Nat]

ListInv ==
    /\ phase \in {"idle", "refused", "walking", "end", "closed"}
    /\ query \in Listing!Queries \cup {None}
    /\ phase # "idle" => query \in Listing!Queries
    /\ IF phase = "walking" THEN page \in PageType ELSE page = None
    /\ DOMAIN pages = 1 .. Len(pages) /\ Len(pages) \in Nat
    /\ \A n \in DOMAIN pages : Cardinality(DOMAIN pages[n].rows) <= Limit
    /\ phase \in {"idle", "refused"} => pages = <<>>
    /\ phase # "idle" => PagesStand
    /\ phase = "walking" /\ pages = <<>> => page = Listing!At(0)
    /\ pages # <<>> => there \subseteq Listing!Matching(query)
    /\ phase = "walking" /\ pages # <<>> => Ahead
    /\ phase \in {"end", "closed"} => pages # <<>> /\ there \subseteq Listing!Listed
    /\ pages # <<>> /\ ByCursor => NothingNew
    /\ phase # "closed" => opened = None
    /\ phase = "closed" => OpenedStands

-----------------------------------------------------------------------------
(* The invariant of a metrics request *)

Has(name) == name \in DOMAIN tally

In(status) == {j \in JobIds : jobs[j] \in status}

\* The tables have moved on since the request began.
StartFits ==
    /\ start.receipts \in 0 .. Len(receipts)
    /\ start.anchors \in [Days -> AnchorRow \cup {None}]
    /\ \A d \in Days : start.anchors[d] \notin {None, Deferred} => anchors[d] \notin {None, Deferred}
    /\ start.jobs \in [JobIds -> Statuses \cup {None}]
    /\ \A j \in JobIds : start.jobs[j] # None => jobs[j] # None

\* The jobs that were there and are now in one of these statuses.
Left(status) == Cardinality(Measuring!Existed \cap In(status))

\* A job that was there is counted, or is past the statuses that are.
JobsFit ==
    LET all == Cardinality(Measuring!Existed) IN
    /\ Has("pending") =>
           all <= tally["pending"] + Left({"running", "completed", "failed"})
    /\ Has("running") =>
           all <= tally["pending"] + tally["running"] + Left({"completed", "failed"})
    /\ Has("completed") =>
           /\ all <= tally["pending"] + tally["running"] + tally["completed"] + Left({"failed"})
           /\ tally["completed"] <= Cardinality(In({"completed"}))
    /\ Has("failed") =>
           /\ all <= tally["pending"] + tally["running"] + tally["completed"] + tally["failed"]
           /\ tally["completed"] + tally["failed"] <= Cardinality(In({"completed", "failed"}))

ReceiptsFit ==
    /\ Has("events_total") =>
           start.receipts <= tally["events_total"] /\ tally["events_total"] <= Len(receipts)
    /\ Has("receipts_total") =>
           tally["events_total"] <= tally["receipts_total"] /\ tally["receipts_total"] <= Len(receipts)
    /\ Has("receipts_in_window") =>
           Cardinality(SignedWithin(window.from, window.to) \cap (0 .. start.receipts - 1))
               <= tally["receipts_in_window"]
    /\ Has("head") =>
           tally["receipts_total"] <= IF tally["head"] = None THEN 0 ELSE tally["head"] + 1

AnchorsFit ==
    Has("anchored") =>
        Cardinality({d \in Days : start.anchors[d] \notin {None, Deferred}}) <= tally["anchored"]

\* The statements run in their order.
Run(n) == {Measuring!Statements[k] : k \in 1 .. n}

MeasureInv ==
    /\ window \in {w \in [from : Instants, to : Instants] : w.from < w.to} \cup {None}
    /\ \E n \in 0 .. 10 : DOMAIN tally = Run(n)
    /\ \A name \in DOMAIN tally :
           /\ tally[name] \in Nat \cup {None}
           /\ name # "head" => tally[name] \in Nat
    /\ window = None => DOMAIN tally = {}
    /\ window # None => StartFits /\ ReceiptsFit /\ AnchorsFit /\ JobsFit

ReadersInv ==
    /\ TablesTypeOK
    /\ reader \in Kinds
    /\ ExportInv
    /\ ListInv
    /\ MeasureInv
-----------------------------------------------------------------------------
(* The tables *)

LEMMA ReadersConstants ==
    /\ DayLength \in Nat \ {0} /\ MaxTime \in Nat /\ MaxReceipts \in Nat /\ MaxJobs \in Nat
    /\ None \notin Nat /\ None \notin AnchorRow /\ None \notin Statuses
    /\ Instants \subseteq Nat
    /\ MaxPacks \in Nat /\ MaxPerPack \in Nat /\ MaxTotal \in Nat
    /\ Limit \in Nat \ {0}
  BY TablesBoundsAreNaturals, NoneIsNothing, ReadersAreBounded
     DEF Exporting!InstantsAreTimes, Exporting!LimitsAreNaturals, Listing!LimitIsPositive

LEMMA DaysAreNaturals ==
    /\ Days \subseteq Nat /\ IsFiniteSet(Days)
    /\ \A t \in Times : DayOf(t) \in Days
    /\ \A d \in Nat : Midnight(d) \in Nat
  <1>1. DayOf(MaxTime) \in Nat
    BY ReadersConstants, Division DEF DayOf
  <1>2. \A t \in Times : t \in Nat /\ t <= MaxTime
    BY ReadersConstants DEF Times
  <1>3. \A t \in Times : DayOf(t) \in Nat /\ DayOf(t) <= DayOf(MaxTime)
    BY <1>2, ReadersConstants, Division, DivisionIsMonotone DEF DayOf
  <1>4. IsFiniteSet(0 .. DayOf(MaxTime))
    BY <1>1, FS_Interval
  <1>5. \A d \in Nat : d * DayLength \in Nat
    BY ReadersConstants, ProductIsMonotone
  <1> QED
    BY <1>1, <1>3, <1>4, <1>5 DEF Days, Midnight

\* What the tables may do while a reader reads: grow, and move forward.
Grown ==
    /\ Len(receipts) <= Len(receipts')
    /\ \A i \in Committed : receipts'[i + 1] = receipts[i + 1]
    /\ \A d \in Days :
           /\ anchors[d] # None => anchors'[d] # None
           /\ anchors[d] \notin {None, Deferred} => anchors'[d] = anchors[d]
    /\ \A j \in JobIds :
           /\ jobs[j] # None => jobs'[j] # None
           /\ \/ jobs'[j] = jobs[j]
              \/ jobs[j] = None
              \/ jobs[j] = "pending" /\ jobs'[j] = "running"
              \/ jobs[j] = "running" /\ jobs'[j] \in {"completed", "failed"}

LEMMA AppendKeeps ==
    ASSUME NEW S, NEW q \in Seq(S), NEW e \in S
    PROVE  /\ Append(q, e) \in Seq(S)
           /\ Len(Append(q, e)) = Len(q) + 1
           /\ Len(q) \in Nat
           /\ \A k \in 1 .. Len(q) : Append(q, e)[k] = q[k]
           /\ Append(q, e)[Len(q) + 1] = e
  OBVIOUS

LEMMA TablesStart ==
    TablesInit => TablesTypeOK
  <1> SUFFICES ASSUME TablesInit PROVE TablesTypeOK
    OBVIOUS
  <1>1. receipts \in Seq(Times) /\ Len(receipts) = 0
    BY DEF TablesInit
  <1>2. anchors \in [Days -> AnchorRow \cup {None}] /\ \A d \in Days : anchors[d] = None
    BY DEF TablesInit
  <1>3. jobs \in [JobIds -> Statuses \cup {None}]
    BY DEF TablesInit
  <1> QED
    BY <1>1, <1>2, <1>3, ReadersConstants DEF TablesTypeOK

LEMMA ReceiptsAreAppended ==
    ASSUME TablesTypeOK, AppendReceipt
    PROVE  TablesTypeOK' /\ Grown
  <1>1. /\ receipts \in Seq(Times) /\ Len(receipts) \in Nat
        /\ Len(receipts) < MaxReceipts
        /\ \A i \in 1 .. Len(receipts) - 1 : receipts[i] <= receipts[i + 1]
        /\ \A k \in 1 .. Len(receipts) : receipts[k] \in Times
    BY DEF TablesTypeOK, AppendReceipt
  <1>2. PICK t \in LastSigned .. MaxTime : receipts' = Append(receipts, t)
    BY DEF AppendReceipt
  <1>3. anchors' = anchors /\ jobs' = jobs
    BY DEF AppendReceipt
  <1>4. LastSigned \in Nat /\ (Len(receipts) # 0 => LastSigned = receipts[Len(receipts)])
    <2>1. CASE receipts = <<>>
      BY <2>1 DEF LastSigned
    <2>2. CASE receipts # <<>>
      <3>1. Len(receipts) \in 1 .. Len(receipts)
        BY <1>1, <2>2
      <3> QED
        BY <1>1, <2>2, <3>1 DEF LastSigned, Times
    <2> QED
      BY <2>1, <2>2
  <1>5. t \in Times /\ LastSigned <= t
    BY <1>4, ReadersConstants DEF Times
  <1>6. /\ receipts' \in Seq(Times) /\ Len(receipts') = Len(receipts) + 1
        /\ \A k \in 1 .. Len(receipts) : receipts'[k] = receipts[k]
        /\ receipts'[Len(receipts) + 1] = t
    BY <1>1, <1>2, <1>5, AppendKeeps
  <1>7. \A i \in 1 .. Len(receipts') - 1 : receipts'[i] <= receipts'[i + 1]
    <2> SUFFICES ASSUME NEW i \in 1 .. Len(receipts') - 1
                 PROVE  receipts'[i] <= receipts'[i + 1]
      OBVIOUS
    <2>1. i \in 1 .. Len(receipts)
      BY <1>1, <1>6
    <2>2. CASE i = Len(receipts)
      BY <1>1, <1>4, <1>5, <1>6, <2>1, <2>2
    <2>3. CASE i # Len(receipts)
      <3>1. i \in 1 .. Len(receipts) - 1 /\ i + 1 \in 1 .. Len(receipts)
        BY <1>1, <2>1, <2>3
      <3> QED
        BY <1>1, <1>6, <2>1, <3>1
    <2> QED
      BY <2>2, <2>3
  <1>8. \A d \in Days : ReceiptsOfDay(d) \subseteq ReceiptsOfDay(d)'
    <2>1. \A i \in Committed : i + 1 \in 1 .. Len(receipts) /\ i \in Committed'
      BY <1>1, <1>6 DEF Committed
    <2>2. \A i \in Committed : receipts'[i + 1] = receipts[i + 1]
      BY <1>6, <2>1
    <2> QED
      BY <2>1, <2>2 DEF ReceiptsOfDay, SignedAt
  <1>9. TablesTypeOK'
    BY <1>1, <1>3, <1>6, <1>7, <1>8, ReadersConstants DEF TablesTypeOK
  <1>10. Grown
    BY <1>1, <1>3, <1>6 DEF Grown, Committed
  <1> QED
    BY <1>9, <1>10

LEMMA DaysAreAnchored ==
    ASSUME TablesTypeOK, NEW d \in Days, AnchorDay(d)
    PROVE  TablesTypeOK' /\ Grown
  <1>1. PICK x \in ReceiptsOfDay(d) \cup {None} : anchors' = [anchors EXCEPT ![d] = [root |-> x]]
    BY DEF AnchorDay
  <1>2. receipts' = receipts /\ jobs' = jobs /\ anchors[d] \in {None, Deferred}
    BY DEF AnchorDay
  <1>3. /\ anchors \in [Days -> AnchorRow \cup {None}]
        /\ receipts \in Seq(Times) /\ Len(receipts) \in Nat /\ Len(receipts) <= MaxReceipts
    BY DEF TablesTypeOK
  <1>4. ReceiptsOfDay(d) \subseteq Positions
    BY <1>3, ReadersConstants DEF ReceiptsOfDay, Committed, Positions
  <1>5. [root |-> x] \in AnchorRow
    BY <1>4 DEF AnchorRow
  <1>6. /\ anchors' \in [Days -> AnchorRow \cup {None}]
        /\ anchors'[d] = [root |-> x]
        /\ \A e \in Days : e # d => anchors'[e] = anchors[e]
    BY <1>1, <1>3, <1>5
  <1>7. \A e \in Days : ReceiptsOfDay(e)' = ReceiptsOfDay(e)
    BY <1>2 DEF ReceiptsOfDay, Committed, SignedAt
  <1>8. anchors'[d] \notin {None, Deferred} => anchors'[d].root \in ReceiptsOfDay(d)
    BY <1>6 DEF Deferred
  <1>9. \A e \in Days : anchors'[e] \notin {None, Deferred} => anchors'[e].root \in ReceiptsOfDay(e)'
    BY <1>6, <1>7, <1>8 DEF TablesTypeOK
  <1>10. TablesTypeOK'
    BY <1>2, <1>6, <1>9 DEF TablesTypeOK
  <1>11. anchors'[d] # None
    BY <1>5, <1>6, ReadersConstants
  <1>12. Grown
    BY <1>2, <1>3, <1>6, <1>11 DEF Grown, Committed
  <1> QED
    BY <1>10, <1>12

LEMMA JobsMove ==
    ASSUME TablesTypeOK, WriteJobs
    PROVE  TablesTypeOK' /\ Grown
  <1>1. PICK j \in JobIds : CreateJob(j) \/ MoveJob(j)
    BY DEF WriteJobs
  <1>2. receipts' = receipts /\ anchors' = anchors
    BY <1>1 DEF CreateJob, MoveJob
  <1>3. jobs \in [JobIds -> Statuses \cup {None}] /\ Len(receipts) \in Nat
    BY DEF TablesTypeOK
  <1>4. /\ jobs' \in [JobIds -> Statuses \cup {None}]
        /\ \A k \in JobIds : k # j => jobs'[k] = jobs[k]
        /\ jobs'[j] \in Statuses
        /\ \/ jobs[j] = None
           \/ jobs[j] = "pending" /\ jobs'[j] = "running"
           \/ jobs[j] = "running" /\ jobs'[j] \in {"completed", "failed"}
    <2>1. CASE CreateJob(j)
      BY <1>3, <2>1 DEF CreateJob, Statuses
    <2>2. CASE MoveJob(j)
      BY <1>3, <2>2 DEF MoveJob, Statuses
    <2> QED
      BY <1>1, <2>1, <2>2
  <1>5. jobs'[j] # None
    BY <1>4, ReadersConstants
  <1>6. \A d \in Days : ReceiptsOfDay(d)' = ReceiptsOfDay(d)
    BY <1>2 DEF ReceiptsOfDay, Committed, SignedAt
  <1>7. TablesTypeOK'
    BY <1>2, <1>4, <1>6 DEF TablesTypeOK
  <1>8. Grown
    BY <1>2, <1>3, <1>4, <1>5 DEF Grown, Committed
  <1> QED
    BY <1>7, <1>8

LEMMA TablesStay ==
    ASSUME TablesTypeOK, UNCHANGED tables
    PROVE  TablesTypeOK' /\ Grown
  <1>1. receipts' = receipts /\ anchors' = anchors /\ jobs' = jobs /\ Len(receipts) \in Nat
    BY DEF tables, TablesTypeOK
  <1>2. \A d \in Days : ReceiptsOfDay(d)' = ReceiptsOfDay(d)
    BY <1>1 DEF ReceiptsOfDay, Committed, SignedAt
  <1>3. TablesTypeOK'
    BY <1>1, <1>2 DEF TablesTypeOK
  <1>4. Grown
    BY <1>1 DEF Grown
  <1> QED
    BY <1>3, <1>4

\* A window keeps what it has; only receipts that were not committed enter it.
LEMMA WindowsGrow ==
    ASSUME TablesTypeOK, Grown, TablesTypeOK'
    PROVE  /\ Committed \subseteq Committed'
           /\ \A i \in Committed : SignedAt(i)' = SignedAt(i)
           /\ \A f, t : SignedWithin(f, t) \subseteq SignedWithin(f, t)'
           /\ \A f, t : SignedWithin(f, t)' \subseteq Committed' /\ Committed' \subseteq Nat
           /\ \A f, t : \A i \in SignedWithin(f, t)' : i < Len(receipts) => i \in SignedWithin(f, t)
           /\ \A f, t : AnchoredWithin(f, t) \subseteq AnchoredWithin(f, t)'
           /\ \A d : ReceiptsOfDay(d) \subseteq ReceiptsOfDay(d)'
  <1>1. Len(receipts) \in Nat /\ Len(receipts') \in Nat /\ Len(receipts) <= Len(receipts')
    BY DEF TablesTypeOK, Grown
  <1>2. Committed \subseteq Committed'
    BY <1>1 DEF Committed
  <1>3. \A i \in Committed : SignedAt(i)' = SignedAt(i)
    BY DEF Grown, SignedAt
  <1>4. \A i \in Committed' : i < Len(receipts) => i \in Committed
    BY <1>1 DEF Committed
  <1>5. \A f, t : SignedWithin(f, t) \subseteq SignedWithin(f, t)'
    BY <1>2, <1>3 DEF SignedWithin
  <1>6. \A f, t : \A i \in SignedWithin(f, t)' : i < Len(receipts) => i \in SignedWithin(f, t)
    BY <1>3, <1>4 DEF SignedWithin
  <1>7. \A f, t : AnchoredWithin(f, t) \subseteq AnchoredWithin(f, t)'
    BY DEF Grown, AnchoredWithin, Midnight
  <1>9. Committed' \subseteq Nat
    BY <1>1 DEF Committed
  <1>10. \A f, t : SignedWithin(f, t)' \subseteq Committed'
    BY DEF SignedWithin
  <1>8. \A d : ReceiptsOfDay(d) \subseteq ReceiptsOfDay(d)'
    BY <1>2, <1>3 DEF ReceiptsOfDay
  <1> QED
    BY <1>2, <1>3, <1>5, <1>6, <1>7, <1>8, <1>9, <1>10

LEMMA WindowsAreFinite ==
    ASSUME TablesTypeOK
    PROVE  /\ Committed \subseteq Nat /\ IsFiniteSet(Committed) /\ Committed \subseteq Positions
           /\ \A i \in Committed : SignedAt(i) \in Times
           /\ \A f, t : SignedWithin(f, t) \in SUBSET Committed /\ IsFiniteSet(SignedWithin(f, t))
           /\ \A f, t : AnchoredWithin(f, t) \in SUBSET Days /\ IsFiniteSet(AnchoredWithin(f, t))
  <1>1. Len(receipts) \in Nat /\ Len(receipts) <= MaxReceipts /\ receipts \in Seq(Times)
    BY DEF TablesTypeOK
  <1>2. Committed \subseteq Nat /\ Committed \subseteq Positions
    BY <1>1, ReadersConstants DEF Committed, Positions
  <1>3. IsFiniteSet(Committed)
    BY <1>1, FS_Interval DEF Committed
  <1>4. \A i \in Committed : SignedAt(i) \in Times
    BY <1>1 DEF Committed, SignedAt
  <1>5. \A f, t : SignedWithin(f, t) \in SUBSET Committed
    BY DEF SignedWithin
  <1>6. \A f, t : AnchoredWithin(f, t) \in SUBSET Days
    BY DEF AnchoredWithin
  <1> QED
    BY <1>2, <1>3, <1>4, <1>5, <1>6, DaysAreNaturals, PartsAreCounted

-----------------------------------------------------------------------------
(* The export *)

\* The tables that the export reads are those of Readers.
LEMMA ExportReadsTables ==
    /\ Exporting!Days = Days /\ Exporting!Positions = Positions
    /\ Exporting!AnchorRow = AnchorRow
    /\ \A f, t : Exporting!SignedWithin(f, t) = SignedWithin(f, t)
    /\ \A f, t : Exporting!AnchoredWithin(f, t) = AnchoredWithin(f, t)
    /\ \A d : Exporting!Midnight(d) = Midnight(d)
    /\ \A d : Exporting!ReceiptsOfDay(d) = ReceiptsOfDay(d)
    /\ \A t : Exporting!DayOf(t) = DayOf(t)
    /\ \A i : Exporting!SignedAt(i) = SignedAt(i)
  BY DEF Exporting!Days, Exporting!Positions, Exporting!AnchorRow, Exporting!SignedWithin,
         Exporting!AnchoredWithin, Exporting!Midnight, Exporting!ReceiptsOfDay,
         Exporting!DayOf, Exporting!SignedAt, Exporting!Committed,
         Days, Positions, AnchorRow, SignedWithin, AnchoredWithin, Midnight,
         ReceiptsOfDay, DayOf, SignedAt, Committed

\* And they count alike.
LEMMA CountingIsTheSame ==
    ASSUME NEW S
    PROVE  /\ Exporting!Cardinality(S) = Cardinality(S)
           /\ Listing!Cardinality(S) = Cardinality(S)
           /\ Measuring!Cardinality(S) = Cardinality(S)
  BY DEF Exporting!Cardinality, Listing!Cardinality, Measuring!Cardinality, Cardinality

\* A query that does not reach its limit returns all of its window.
LEMMA QueriesAreWhole ==
    ASSUME TablesTypeOK, NEW f, NEW t,
           Exporting!Cardinality(Exporting!Query(f, t)) <= MaxPerPack
    PROVE  Exporting!Query(f, t) = SignedWithin(f, t)
  <1> DEFINE S == SignedWithin(f, t)
  <1>1. S \in SUBSET Nat /\ IsFiniteSet(S)
    BY WindowsAreFinite
  <1>2. MaxPerPack \in Nat
    BY ReadersConstants
  <1>3. Exporting!Query(f, t) = {i \in S : Cardinality(Beneath(S, i)) < MaxPerPack + 1}
    <2>1. Exporting!SignedWithin(f, t) = S
      BY ExportReadsTables
    <2> DEFINE R == Exporting!SignedWithin(f, t)
    <2>2. Exporting!Query(f, t)
              = {i \in R : Exporting!Cardinality({k \in R : k < i}) < MaxPerPack + 1}
      BY DEF Exporting!Query
    <2>3. \A i : {k \in R : k < i} = Beneath(S, i)
      BY <2>1 DEF Beneath
    <2>4. \A i : Exporting!Cardinality(Beneath(S, i)) = Cardinality(Beneath(S, i))
      BY CountingIsTheSame
    <2> HIDE DEF S, R
    <2> QED
      BY <2>1, <2>2, <2>3, <2>4 DEF R
  <1>4. Cardinality(Exporting!Query(f, t)) <= MaxPerPack
    BY CountingIsTheSame
  <1> HIDE DEF S
  <1>5. \A i \in S : Cardinality(Beneath(S, i)) < MaxPerPack + 1
    BY <1>1, <1>2, <1>3, <1>4, NothingIsCutOff
  <1> QED
    BY <1>3, <1>5 DEF S

\* An ask and its tables as the writers go on.
LEMMA AskStands ==
    ASSUME TablesTypeOK, Grown, TablesTypeOK', AskFits, ask' = ask, then' = then
    PROVE  AskFits'
  <1>1. Len(receipts) \in Nat /\ Len(receipts') \in Nat /\ Len(receipts) <= Len(receipts')
    BY DEF TablesTypeOK, Grown
  <1>2. AnchoredWithin(ask.from, ask.to) \subseteq AnchoredWithin(ask.from, ask.to)'
    BY WindowsGrow
  <1>3. Exporting!Ask' = Exporting!Ask
    BY DEF Exporting!Ask, Exporting!Kinds
  <1> QED
    BY <1>1, <1>2, <1>3 DEF AskFits

LEMMA RowsStand ==
    ASSUME TablesTypeOK, Grown, TablesTypeOK', RowsFit, rows' = rows, ask' = ask, then' = then
    PROVE  RowsFit'
  <1>1. AnchoredWithin(ask.from, ask.to) \subseteq AnchoredWithin(ask.from, ask.to)'
    BY WindowsGrow
  <1>2. \A d : ReceiptsOfDay(d) \subseteq ReceiptsOfDay(d)'
    BY WindowsGrow
  <1> QED
    BY <1>1, <1>2 DEF RowsFit

\* What a pack holds of what was there is not changed by what is new.
LEMMA HoldsStill ==
    ASSUME TablesTypeOK, Grown, TablesTypeOK', then' = then, then.count \in 0 .. Len(receipts),
           NEW p, Holds(p)
    PROVE  /\ p.items \subseteq SignedWithin(p.from, p.to)'
           /\ \A i \in SignedWithin(p.from, p.to)' : i < then.count => i \in p.items
  <1>1. p.items \subseteq SignedWithin(p.from, p.to)'
    BY WindowsGrow DEF Holds
  <1>2. Len(receipts) \in Nat
    BY DEF TablesTypeOK
  <1>3. \A i \in SignedWithin(p.from, p.to)' : i \in Nat
    BY WindowsGrow
  <1>4. \A i \in SignedWithin(p.from, p.to)' :
            i < then.count => i \in SignedWithin(p.from, p.to)
    BY <1>2, <1>3, WindowsGrow
  <1> QED
    BY <1>1, <1>4 DEF Holds

LEMMA PackStands ==
    ASSUME TablesTypeOK, Grown, TablesTypeOK', AskFits, RowsFit,
           rows' = rows, ask' = ask, then' = then,
           NEW p, DayPackFits(p)
    PROVE  DayPackFits(p)'
  <1>1. Exporting!DayWindow(p.day)' = Exporting!DayWindow(p.day)
    BY DEF Exporting!DayWindow, Exporting!Midnight, Exporting!Greater, Exporting!Lesser
  <1>2. /\ p.items \subseteq SignedWithin(p.from, p.to)'
        /\ \A i \in SignedWithin(p.from, p.to)' : i < then.count => i \in p.items
    BY HoldsStill DEF AskFits, DayPackFits
  <1>3. ASSUME p.anchor.root # None, NEW i \in SignedWithin(p.from, p.to)', i <= p.anchor.root
        PROVE  i \in p.items
    <2>1. p.anchor.root \in ReceiptsOfDay(p.day)
      BY <1>3 DEF DayPackFits, RowsFit
    <2>2. p.anchor.root \in Nat /\ p.anchor.root < Len(receipts) /\ Len(receipts) \in Nat
      BY <2>1 DEF ReceiptsOfDay, Committed, TablesTypeOK
    <2>3. i \in Nat
      BY WindowsGrow
    <2>4. i < Len(receipts)
      BY <1>3, <2>2, <2>3
    <2>5. i \in SignedWithin(p.from, p.to)
      BY <2>4, WindowsGrow
    <2> QED
      BY <1>3, <2>5 DEF DayPackFits
  <1> QED
    BY <1>1, <1>2, <1>3 DEF DayPackFits, Holds

LEMMA PacksStand ==
    ASSUME TablesTypeOK, Grown, TablesTypeOK', AskFits, RowsFit, PacksFit,
           rows' = rows, packs' = packs, ask' = ask, then' = then
    PROVE  PacksFit' /\ Exporting!Unpacked' = Exporting!Unpacked
  <1>1. Exporting!Unpacked' = Exporting!Unpacked
    BY DEF Exporting!Unpacked
  <1>2. ASSUME NEW k \in DOMAIN packs PROVE DayPackFits(packs[k])'
    <2>1. PICK p : p = packs[k]
      OBVIOUS
    <2>2. DayPackFits(p)
      BY <2>1 DEF PacksFit
    <2>3. DayPackFits(p)'
      BY <2>2, PackStands
    <2>4. p = packs'[k]
      BY <2>1
    <2> QED
      BY <2>3, <2>4 DEF DayPackFits, Holds
  <1> QED
    BY <1>1, <1>2 DEF PacksFit

LEMMA TypesStand ==
    ASSUME ExportTypes, UNCHANGED exporting
    PROVE  ExportTypes'
  BY DEF ExportTypes, exporting, PackType, AnchorRow, Positions, Days, DayOf, Exporting!Ask,
         Exporting!Kinds

\* The writers do not disturb an export.
LEMMA ExportStands ==
    ASSUME TablesTypeOK, Grown, TablesTypeOK', ExportInv, UNCHANGED exporting
    PROVE  ExportInv'
  <1>1. /\ stage' = stage /\ ask' = ask /\ rows' = rows /\ packs' = packs
        /\ reply' = reply /\ then' = then
    BY DEF exporting
  <1>2. ExportTypes'
    BY TypesStand DEF ExportInv
  <1>3. AskFits => AskFits'
    BY <1>1, AskStands
  <1>4. RowsFit => RowsFit'
    BY <1>1, RowsStand
  <1>5. AskFits /\ RowsFit /\ PacksFit => PacksFit' /\ Exporting!Unpacked' = Exporting!Unpacked
    BY <1>1, PacksStand
  <1>6. AskFits /\ Holds(packs[1]) => Holds(packs[1])'
    <2> SUFFICES ASSUME AskFits, Holds(packs[1]) PROVE Holds(packs[1])'
      OBVIOUS
    <2>1. PICK p : p = packs[1]
      OBVIOUS
    <2>2. Holds(p)
      BY <2>1
    <2>3. /\ p.items \subseteq SignedWithin(p.from, p.to)'
          /\ \A i \in SignedWithin(p.from, p.to)' : i < then.count => i \in p.items
      BY <1>1, <2>2, HoldsStill DEF AskFits
    <2>4. p = packs'[1]
      BY <1>1, <2>1
    <2> QED
      BY <1>1, <2>3, <2>4 DEF Holds
  <1>7. BundleIsDelivered => BundleIsDelivered'
    <2>1. Exporting!Delivered' = Exporting!Delivered
      BY <1>1 DEF Exporting!Delivered, Exporting!Decrypted
    <2>2. BundleFits(Exporting!Delivered) => BundleFits(Exporting!Delivered)'
      BY <1>1, <2>1 DEF BundleFits
    <2> QED
      BY <1>1, <1>3, <1>4, <1>5, <2>2 DEF BundleIsDelivered
  <1>8. PackIsDelivered => PackIsDelivered'
    <2> SUFFICES ASSUME PackIsDelivered PROVE PackIsDelivered'
      OBVIOUS
    <2>1. AskFits' /\ then.count \in 0 .. Len(receipts) /\ Len(receipts) \in Nat
      BY <1>3 DEF PackIsDelivered, AskFits, TablesTypeOK
    <2>2. \A i \in SignedWithin(ask.from, ask.to)' : i \in Nat
      BY WindowsGrow
    <2>3. \A i \in SignedWithin(ask.from, ask.to)' :
              i < then.count => i \in SignedWithin(ask.from, ask.to)
      <3>1. PICK f, t : f = ask.from /\ t = ask.to
        OBVIOUS
      <3>2. \A i \in SignedWithin(f, t)' : i \in Nat /\ (i < Len(receipts) => i \in SignedWithin(f, t))
        BY WindowsGrow
      <3>3. SignedWithin(f, t)' = SignedWithin(ask.from, ask.to)'
        BY <1>1, <3>1 DEF SignedWithin
      <3> QED
        BY <2>1, <3>1, <3>2, <3>3
    <2> QED
      BY <1>1, <2>1, <2>3 DEF PackIsDelivered
  <1> QED
    BY <1>1, <1>2, <1>3, <1>4, <1>5, <1>6, <1>7, <1>8 DEF ExportInv

\* A refusal ends the export, and has nothing to keep.
LEMMA RefusalsEnd ==
    ASSUME ExportInv, stage' = "done",
           NEW c \in {"4xx", "413", "422", "failed"}, reply' = Exporting!Refusal(c),
           UNCHANGED <<ask, rows, packs, then>>
    PROVE  ExportInv'
  <1>1. ExportTypes'
    BY DEF ExportInv, ExportTypes, PackType, AnchorRow, Positions, Days, DayOf,
           Exporting!Ask, Exporting!Kinds
  <1>2. reply'.code \in {"4xx", "413", "422", "failed"}
    BY DEF Exporting!Refusal
  <1> QED
    BY <1>1, <1>2 DEF ExportInv

LEMMA AsksAreAccepted ==
    ASSUME TablesTypeOK, ExportInv, NEW q \in Exporting!Ask, Exporting!AcceptAsk(q), UNCHANGED tables
    PROVE  ExportInv'
  <1>1. /\ stage = "idle" /\ ask' = q
        /\ stage' = IF q.kind = "pack" THEN "receipts" ELSE "anchors"
        /\ then' = [count |-> Len(receipts), days |-> AnchoredWithin(q.from, q.to)]
        /\ rows' = rows /\ packs' = packs /\ reply' = reply
    BY ExportReadsTables DEF Exporting!AcceptAsk
  <1>2. packs = <<>> /\ reply = None /\ receipts' = receipts /\ anchors' = anchors
    BY <1>1 DEF ExportInv, tables
  <1>3. ExportTypes'
    BY <1>1 DEF ExportInv, ExportTypes, PackType, AnchorRow, Positions, Days, DayOf,
           Exporting!Ask, Exporting!Kinds
  <1>4. Len(receipts) \in Nat
    BY DEF TablesTypeOK
  <1>5. AnchoredWithin(q.from, q.to) \subseteq Days
    BY WindowsAreFinite
  <1>6. AnchoredWithin(ask.from, ask.to)' = AnchoredWithin(q.from, q.to)
    BY <1>1, <1>2 DEF AnchoredWithin, Days, DayOf, Midnight
  <1>7. AskFits'
    BY <1>1, <1>2, <1>4, <1>6 DEF AskFits, Exporting!Ask, Exporting!Kinds
  <1>8. Days' = Days
    BY DEF Days, DayOf
  <1> QED
    BY <1>1, <1>2, <1>3, <1>4, <1>5, <1>7, <1>8 DEF ExportInv

LEMMA AnchorsAreRead ==
    ASSUME TablesTypeOK, ExportInv, Exporting!ReadAnchors, UNCHANGED tables
    PROVE  ExportInv'
  <1> DEFINE days == AnchoredWithin(ask.from, ask.to)
  <1>1. /\ stage = "anchors" /\ stage' = "days"
        /\ rows' = [d \in days |-> anchors[d]]
        /\ ask' = ask /\ packs' = packs /\ reply' = reply /\ then' = then
    BY ExportReadsTables DEF Exporting!ReadAnchors
  <1>2. /\ packs = <<>> /\ reply = None /\ ask.kind # "pack" /\ AskFits
        /\ receipts' = receipts /\ anchors' = anchors
    BY <1>1 DEF ExportInv, tables
  <1>3. days \subseteq Days /\ anchors \in [Days -> AnchorRow \cup {None}]
    BY WindowsAreFinite DEF TablesTypeOK
  <1>4. \A d \in days : anchors[d] \in AnchorRow
    BY <1>3 DEF AnchoredWithin
  <1>5. \A d \in days : anchors[d].root # None => anchors[d].root \in ReceiptsOfDay(d)
    BY <1>3, <1>4, ReadersConstants DEF Deferred, TablesTypeOK
  <1>6. DOMAIN rows' = days /\ \A d \in days : rows'[d] = anchors[d]
    BY <1>1
  <1>7. /\ Grown /\ TablesTypeOK'
        /\ \A d \in Days : ReceiptsOfDay(d)' = ReceiptsOfDay(d)
        /\ AnchoredWithin(ask.from, ask.to)' = days
    BY <1>1, <1>2, TablesStay DEF ReceiptsOfDay, Committed, SignedAt, AnchoredWithin, Days, DayOf, Midnight
  <1>8. RowsFit'
    <2>1. then'.days \subseteq days
      BY <1>1, <1>2 DEF AskFits
    <2> HIDE DEF days
    <2> QED
      BY <1>3, <1>5, <1>6, <1>7, <2>1 DEF RowsFit
  <1>9. PacksFit'
    BY <1>1, <1>2 DEF PacksFit
  <1>10. AskFits'
    BY <1>1, <1>2, <1>7, AskStands
  <1>11. ExportTypes'
    <2>1. rows' \in [days -> AnchorRow]
      BY <1>1, <1>4
    <2> HIDE DEF days
    <2>2. rows' \in [DOMAIN rows' -> AnchorRow]
      BY <1>6, <2>1
    <2>3. packs' \in Seq(PackType)
      BY <1>1, <1>2
    <2> QED
      BY <1>1, <1>3, <1>6, <2>2, <2>3
         DEF ExportInv, ExportTypes, PackType, AnchorRow, Positions, Days, DayOf,
             Exporting!Ask, Exporting!Kinds
  <1>12. ask # None => then.count \in Nat /\ then.days \subseteq Days
    BY DEF ExportInv
  <1> QED
    BY <1>1, <1>2, <1>8, <1>9, <1>10, <1>11, <1>12 DEF ExportInv, Days, DayOf

LEMMA NextDayIsLeast ==
    ASSUME ExportTypes, Exporting!Unpacked # {}
    PROVE  /\ Exporting!NextDay \in Exporting!Unpacked
           /\ Exporting!NextDay \in Days /\ Exporting!NextDay \in DOMAIN rows
           /\ \A e \in Exporting!Unpacked : Exporting!NextDay <= e
  <1>1. Exporting!Unpacked \subseteq DOMAIN rows /\ DOMAIN rows \subseteq Days
    BY DEF Exporting!Unpacked, ExportTypes
  <1>2. Exporting!Unpacked \in SUBSET Nat
    BY <1>1, DaysAreNaturals
  <1>3. \E d \in Exporting!Unpacked : \A e \in Exporting!Unpacked : d <= e
    BY <1>2, LeastElement
  <1>4. /\ Exporting!NextDay \in Exporting!Unpacked
        /\ \A e \in Exporting!Unpacked : Exporting!NextDay <= e
    BY <1>3 DEF Exporting!NextDay
  <1> QED
    BY <1>1, <1>4

LEMMA WindowsOfDays ==
    ASSUME ask \in Exporting!Ask, NEW d \in Days
    PROVE  LET w == Exporting!DayWindow(d) IN
           /\ w.from \in Nat /\ w.to \in Nat
           /\ Midnight(d) <= w.from /\ ask.from <= w.from
           /\ w.to <= Midnight(d + 1) /\ w.to <= ask.to
           /\ \A t \in Nat : Midnight(d) <= t /\ ask.from <= t => w.from <= t
           /\ \A t \in Nat : t <= Midnight(d + 1) /\ t <= ask.to => t <= w.to
  <1>1. Midnight(d) \in Nat /\ Midnight(d + 1) \in Nat
    BY DaysAreNaturals
  <1>2. ask.from \in Nat /\ ask.to \in Nat
    BY ReadersConstants DEF Exporting!Ask
  <1>3. /\ Exporting!DayWindow(d).from = IF Midnight(d) < ask.from THEN ask.from ELSE Midnight(d)
        /\ Exporting!DayWindow(d).to = IF Midnight(d + 1) < ask.to THEN Midnight(d + 1) ELSE ask.to
    BY ExportReadsTables DEF Exporting!DayWindow, Exporting!Greater, Exporting!Lesser
  <1> QED
    BY <1>1, <1>2, <1>3

LEMMA DaysAreRead ==
    ASSUME TablesTypeOK, ExportInv, Exporting!ReadDay, UNCHANGED tables
    PROVE  ExportInv'
  <1>1. PICK d : d = Exporting!NextDay
    OBVIOUS
  <1>2. PICK w : w = Exporting!DayWindow(d)
    OBVIOUS
  <1>3. PICK items : items = Exporting!Query(w.from, w.to)
    OBVIOUS
  <1>4. PICK p : p = Exporting!Pack(w.from, w.to, items, d, rows[d])
    OBVIOUS
  <1>5. /\ stage = "days" /\ stage' = "days" /\ Exporting!Unpacked # {}
        /\ Exporting!Cardinality(items) <= MaxPerPack
        /\ packs' = Append(packs, p)
        /\ ask' = ask /\ rows' = rows /\ reply' = reply /\ then' = then
    BY <1>1, <1>2, <1>3, <1>4 DEF Exporting!ReadDay
  <1>6. ExportTypes /\ ask.kind # "pack" /\ AskFits /\ RowsFit /\ PacksFit /\ reply = None
    BY <1>5 DEF ExportInv
  <1>7. d \in Exporting!Unpacked /\ d \in Days /\ d \in DOMAIN rows /\ d \in Nat
        /\ \A e \in Exporting!Unpacked : d <= e
    BY <1>1, <1>5, <1>6, NextDayIsLeast, DaysAreNaturals
  <1>8. items = SignedWithin(w.from, w.to) /\ items \subseteq Positions
    BY <1>3, <1>5, QueriesAreWhole, WindowsAreFinite
  <1>9. w.from \in Nat /\ w.to \in Nat
    BY <1>2, <1>6, <1>7, WindowsOfDays DEF AskFits
  <1>10. rows[d] \in AnchorRow
    BY <1>6, <1>7 DEF ExportTypes
  <1>11. p \in PackType /\ p.from = w.from /\ p.to = w.to /\ p.items = items
         /\ p.day = d /\ p.anchor = rows[d]
    BY <1>4, <1>7, <1>8, <1>9, <1>10 DEF PackType, Exporting!Pack
  <1>12. DayPackFits(p)
    BY <1>2, <1>7, <1>8, <1>11 DEF DayPackFits, Holds
  <1>13. packs \in Seq(PackType)
    BY <1>6 DEF ExportTypes
  <1>14. /\ packs' \in Seq(PackType) /\ Len(packs') = Len(packs) + 1 /\ Len(packs) \in Nat
         /\ \A k \in 1 .. Len(packs) : packs'[k] = packs[k]
         /\ packs'[Len(packs) + 1] = p
    BY <1>5, <1>11, <1>13, AppendKeeps
  <1>15. DOMAIN packs = 1 .. Len(packs) /\ DOMAIN packs' = 1 .. Len(packs) + 1
    BY <1>13, <1>14
  <1>16. Grown /\ TablesTypeOK'
    BY TablesStay
  <1>17. \A k \in DOMAIN packs' : DayPackFits(packs'[k])
    <2> SUFFICES ASSUME NEW k \in DOMAIN packs' PROVE DayPackFits(packs'[k])
      OBVIOUS
    <2>1. CASE k = Len(packs) + 1
      BY <1>12, <1>14, <2>1
    <2>2. CASE k # Len(packs) + 1
      <3>1. k \in DOMAIN packs /\ packs'[k] = packs[k]
        BY <1>14, <1>15, <2>2
      <3> QED
        BY <1>6, <3>1 DEF PacksFit
    <2> QED
      BY <2>1, <2>2
  <1>18. ASSUME NEW k \in DOMAIN packs' PROVE DayPackFits(packs[k])'
    <2>1. PICK r : r = packs'[k]
      OBVIOUS
    <2>2. DayPackFits(r)
      BY <1>17, <2>1
    <2>3. DayPackFits(r)'
      BY <1>5, <1>6, <1>16, <2>2, PackStands
    <2> QED
      BY <2>1, <2>3 DEF DayPackFits, Holds
  <1>19. Exporting!Unpacked' \subseteq Exporting!Unpacked /\ d \notin Exporting!Unpacked'
    BY <1>5, <1>11, <1>14, <1>15 DEF Exporting!Unpacked
  <1>20. \A k \in DOMAIN packs : packs[k].day < d /\ packs[k].day \in Nat
    <2> SUFFICES ASSUME NEW k \in DOMAIN packs PROVE packs[k].day < d /\ packs[k].day \in Nat
      OBVIOUS
    <2>1. packs[k].day < d
      BY <1>6, <1>7 DEF PacksFit
    <2>2. packs[k].day \in DOMAIN rows
      BY <1>6 DEF PacksFit, DayPackFits
    <2> QED
      BY <1>6, <2>1, <2>2, DaysAreNaturals DEF ExportTypes
  <1>21. \A j, k \in DOMAIN packs' : j < k => packs'[j].day < packs'[k].day
    <2> SUFFICES ASSUME NEW j \in DOMAIN packs', NEW k \in DOMAIN packs', j < k
                 PROVE  packs'[j].day < packs'[k].day
      OBVIOUS
    <2>1. j \in DOMAIN packs /\ packs'[j] = packs[j]
      BY <1>14, <1>15
    <2>2. CASE k = Len(packs) + 1
      BY <1>11, <1>14, <1>20, <2>1, <2>2
    <2>3. CASE k # Len(packs) + 1
      <3>1. k \in DOMAIN packs /\ packs'[k] = packs[k]
        BY <1>14, <1>15, <2>3
      <3> QED
        BY <1>6, <2>1, <3>1 DEF PacksFit
    <2> QED
      BY <2>2, <2>3
  <1>22. \A k \in DOMAIN packs' : \A e \in Exporting!Unpacked' : packs'[k].day < e
    <2> SUFFICES ASSUME NEW k \in DOMAIN packs', NEW e \in Exporting!Unpacked'
                 PROVE  packs'[k].day < e
      OBVIOUS
    <2>1. e \in Exporting!Unpacked /\ e # d
      BY <1>19
    <2>2. e \in Nat /\ d <= e
      BY <1>6, <1>7, <2>1, DaysAreNaturals DEF Exporting!Unpacked, ExportTypes
    <2>3. CASE k = Len(packs) + 1
      BY <1>7, <1>11, <1>14, <2>1, <2>2, <2>3
    <2>4. CASE k # Len(packs) + 1
      <3>1. k \in DOMAIN packs /\ packs'[k] = packs[k]
        BY <1>14, <1>15, <2>4
      <3> QED
        BY <1>6, <2>1, <3>1 DEF PacksFit
    <2> QED
      BY <2>3, <2>4
  <1>23. PacksFit'
    BY <1>18, <1>21, <1>22 DEF PacksFit
  <1>24. AskFits' /\ RowsFit'
    BY <1>5, <1>6, <1>16, AskStands, RowsStand
  <1>25. ExportTypes'
    BY <1>5, <1>6, <1>14 DEF ExportTypes, PackType, AnchorRow, Positions, Days, DayOf,
       Exporting!Ask, Exporting!Kinds
  <1>26. ask # None => then.count \in Nat /\ then.days \subseteq Days
    BY DEF ExportInv
  <1> QED
    BY <1>5, <1>6, <1>23, <1>24, <1>25, <1>26 DEF ExportInv, Days, DayOf

\* The seal depends on the parts of a bundle alone.
LEMMA SealOfParts ==
    ASSUME NEW a, NEW b, NEW h, a.packs = b.packs, a.anchors = b.anchors
    PROVE  Exporting!Seal(a, h) = Exporting!Seal(b, h)
  <1>1. {a.anchors[k] : k \in DOMAIN a.anchors} = {b.anchors[k] : k \in DOMAIN b.anchors}
    OBVIOUS
  <1>2. [k \in DOMAIN a.anchors |-> a.anchors[k].row.root]
            = [k \in DOMAIN b.anchors |-> b.anchors[k].row.root]
    OBVIOUS
  <1> QED
    BY <1>1, <1>2 DEF Exporting!Seal

LEMMA BundlesFit ==
    ASSUME NEW b \in Exporting!Platform(Exporting!Bundle)
    PROVE  BundleFits(b)
  <1> DEFINE dated == [k \in DOMAIN packs |-> [day |-> packs[k].day, row |-> packs[k].anchor]]
             parts == [packs |-> packs, anchors |-> dated]
             h == Exporting!Header(parts)
             s == Exporting!Seal(parts, h)
             bare == [packs |-> packs, anchors |-> dated, header |-> h, seal |-> s,
                      signature |-> None]
  <1>1. Exporting!Bundle = bare
    BY DEF Exporting!Bundle
  <1>2. parts.packs = packs /\ parts.anchors = dated
    OBVIOUS
  <1> HIDE DEF h, s, dated, parts
  <1>3. PICK g \in {None, s} : b = [packs |-> packs, anchors |-> dated, header |-> h, seal |-> s,
                                   signature |-> g]
    <2>1. b = bare \/ b = [bare EXCEPT !.signature = bare.seal]
      BY <1>1 DEF Exporting!Platform, Exporting!Signed
    <2>2. [bare EXCEPT !.signature = bare.seal]
              = [packs |-> packs, anchors |-> dated, header |-> h, seal |-> s, signature |-> s]
      OBVIOUS
    <2> QED
      BY <2>1, <2>2
  <1>4. /\ b.packs = packs /\ b.anchors = dated /\ b.header = h /\ b.seal = s
        /\ b.signature = g
    BY <1>3
  <1>5. b.seal = Exporting!Seal(b, b.header)
    BY <1>2, <1>4, SealOfParts DEF s
  <1> QED
    BY <1>3, <1>4, <1>5 DEF BundleFits, dated

LEMMA BundlesAreComposed ==
    ASSUME TablesTypeOK, ExportInv, Exporting!Compose, UNCHANGED tables
    PROVE  ExportInv'
  <1>1. PICK b \in Exporting!Platform(Exporting!Bundle) :
             \/ reply' = [code |-> "200", bundle |-> b]
             \/ reply' = [code |-> "200", envelope |-> Exporting!Encrypted(b, "acquirer")]
    BY DEF Exporting!Compose, Exporting!Reply
  <1>2. /\ stage = "days" /\ stage' = "done" /\ Exporting!Unpacked = {}
        /\ ask' = ask /\ rows' = rows /\ packs' = packs /\ then' = then
    BY DEF Exporting!Compose, Exporting!Reply
  <1>3. ExportTypes /\ ask.kind # "pack" /\ AskFits /\ RowsFit /\ PacksFit
    BY <1>2 DEF ExportInv
  <1>4. Grown /\ TablesTypeOK'
    BY TablesStay
  <1>5. AskFits' /\ RowsFit' /\ PacksFit' /\ Exporting!Unpacked' = {}
    BY <1>2, <1>3, <1>4, AskStands, RowsStand, PacksStand
  <1>6. Exporting!Delivered' = b /\ reply'.code = "200"
    BY <1>1 DEF Exporting!Delivered, Exporting!Decrypted, Exporting!Encrypted
  <1>7. BundleFits(b)
    BY BundlesFit
  <1>8. BundleFits(Exporting!Delivered)'
    BY <1>2, <1>6, <1>7 DEF BundleFits
  <1>9. ExportTypes'
    BY <1>2, <1>3 DEF ExportTypes, PackType, AnchorRow, Positions, Days, DayOf,
       Exporting!Ask, Exporting!Kinds
  <1>10. BundleIsDelivered'
    BY <1>2, <1>3, <1>5, <1>6, <1>8 DEF BundleIsDelivered
  <1>11. ask # None => then.count \in Nat /\ then.days \subseteq Days
    BY DEF ExportInv
  <1> QED
    BY <1>2, <1>9, <1>10, <1>11 DEF ExportInv, Days, DayOf

LEMMA ReceiptsAreRead ==
    ASSUME TablesTypeOK, ExportInv, Exporting!ReadReceipts, UNCHANGED tables
    PROVE  ExportInv'
  <1>1. PICK items : items = Exporting!Query(ask.from, ask.to)
    OBVIOUS
  <1>2. PICK p : p = Exporting!Pack(ask.from, ask.to, items, None, None)
    OBVIOUS
  <1>3. /\ stage = "receipts" /\ stage' = "anchor"
        /\ Exporting!Cardinality(items) <= MaxPerPack
        /\ packs' = <<p>>
        /\ ask' = ask /\ rows' = rows /\ reply' = reply /\ then' = then
    BY <1>1, <1>2 DEF Exporting!ReadReceipts
  <1>4. ExportTypes /\ ask.kind = "pack" /\ AskFits /\ reply = None
    BY <1>3 DEF ExportInv
  <1>5. items = SignedWithin(ask.from, ask.to) /\ items \subseteq Positions
    BY <1>1, <1>3, QueriesAreWhole, WindowsAreFinite
  <1>6. ask.from \in Nat /\ ask.to \in Nat
    BY <1>4, ReadersConstants DEF AskFits, Exporting!Ask
  <1>7. p \in PackType /\ p.from = ask.from /\ p.to = ask.to /\ p.items = items
    BY <1>2, <1>5, <1>6 DEF PackType, Exporting!Pack
  <1>8. packs' \in Seq(PackType) /\ Len(packs') = 1 /\ packs'[1] = p
    BY <1>3, <1>7
  <1>9. Grown /\ TablesTypeOK' /\ receipts' = receipts
    BY TablesStay DEF tables
  <1>10. AskFits'
    BY <1>3, <1>4, <1>9, AskStands
  <1>11. SignedWithin(ask.from, ask.to)' = SignedWithin(ask.from, ask.to)
    BY <1>3, <1>9 DEF SignedWithin, Committed, SignedAt
  <1>12. Holds(packs[1])'
    <2>1. SignedWithin(packs[1].from, packs[1].to)' = SignedWithin(ask.from, ask.to)'
      BY <1>3, <1>7, <1>8 DEF SignedWithin
    <2> QED
      BY <1>5, <1>7, <1>8, <1>11, <2>1 DEF Holds
  <1>13. ExportTypes'
    BY <1>3, <1>4, <1>8 DEF ExportTypes, PackType, AnchorRow, Positions, Days, DayOf,
       Exporting!Ask, Exporting!Kinds
  <1>14. ask # None => then.count \in Nat /\ then.days \subseteq Days
    BY DEF ExportInv
  <1> QED
    BY <1>3, <1>4, <1>7, <1>8, <1>10, <1>12, <1>13, <1>14 DEF ExportInv, Days, DayOf

LEMMA OneMember ==
    ASSUME NEW S, NEW q \in Seq(S), Len(q) = 1
    PROVE  q[1] \in S
  OBVIOUS

LEMMA LatestAnchorIsRead ==
    ASSUME TablesTypeOK, ExportInv, Exporting!ReadLatestAnchor, UNCHANGED tables
    PROVE  ExportInv'
  <1> DEFINE days == Exporting!AnchoredWithin(ask.from, ask.to)
  <1>1. PICK last : last = IF days = {} THEN None ELSE CHOOSE d \in days : \A e \in days : e <= d
    OBVIOUS
  <1>2. PICK row : row = IF last = None THEN None ELSE anchors[last]
    OBVIOUS
  <1>3. /\ stage = "anchor" /\ stage' = "done"
        /\ packs' = <<[packs[1] EXCEPT !.day = last, !.anchor = row]>>
        /\ reply' = [code |-> "200", pack |-> packs'[1]]
        /\ ask' = ask /\ rows' = rows /\ then' = then
    BY <1>1, <1>2 DEF Exporting!ReadLatestAnchor, Exporting!Reply
  <1>4. /\ ExportTypes /\ ask.kind = "pack" /\ AskFits
        /\ Len(packs) = 1 /\ packs \in Seq(PackType)
        /\ packs[1].from = ask.from /\ packs[1].to = ask.to /\ Holds(packs[1])
    BY <1>3 DEF ExportInv, ExportTypes
  <1>5. last \in Days \cup {None} /\ (last # None => last \in days)
    <2>1. days \in SUBSET Nat /\ days \subseteq Days /\ IsFiniteSet(days)
      BY ExportReadsTables, WindowsAreFinite, DaysAreNaturals
    <2>2. days # {} => \E d \in days : \A e \in days : e <= d
      BY <2>1, GreatestElement
    <2> HIDE DEF days
    <2> QED
      BY <1>1, <2>1, <2>2
  <1>6. row \in AnchorRow \cup {None}
    <2>1. last # None => anchors[last] # None /\ last \in Days
      BY <1>5, ExportReadsTables DEF AnchoredWithin
    <2> QED
      BY <1>2, <2>1 DEF TablesTypeOK
  <1> HIDE DEF days
  <1>7. packs[1] \in PackType
    BY <1>4, OneMember
  <1>8. packs'[1] = [packs[1] EXCEPT !.day = last, !.anchor = row]
        /\ packs' \in Seq(PackType)
    <2>1. [packs[1] EXCEPT !.day = last, !.anchor = row] \in PackType
      BY <1>5, <1>6, <1>7 DEF PackType
    <2> QED
      BY <1>3, <2>1
  <1>9. packs'[1].items = packs[1].items
    BY <1>7, <1>8 DEF PackType
  <1>10. Grown /\ TablesTypeOK' /\ receipts' = receipts
    BY TablesStay DEF tables
  <1>11. AskFits'
    BY <1>3, <1>4, <1>10, AskStands
  <1>12. SignedWithin(ask.from, ask.to)' = SignedWithin(packs[1].from, packs[1].to)
    BY <1>3, <1>4, <1>10 DEF SignedWithin, Committed, SignedAt
  <1>13. reply'.code = "200" /\ reply'.pack.items = packs[1].items
    BY <1>3, <1>9
  <1>14. PackIsDelivered'
    BY <1>3, <1>4, <1>11, <1>12, <1>13 DEF PackIsDelivered, Holds
  <1>15. ExportTypes'
    BY <1>3, <1>4, <1>8 DEF ExportTypes, PackType, AnchorRow, Positions, Days, DayOf,
       Exporting!Ask, Exporting!Kinds
  <1>16. ask # None => then.count \in Nat /\ then.days \subseteq Days
    BY DEF ExportInv
  <1> QED
    BY <1>3, <1>14, <1>15, <1>16 DEF ExportInv, Days, DayOf

LEMMA ExportSteps ==
    ASSUME TablesTypeOK, ExportInv, Exporting!ExportStep, UNCHANGED tables
    PROVE  ExportInv'
  <1>1. CASE Exporting!RefuseAsk
    <2>1. stage' = "done" /\ reply' = Exporting!Refusal("4xx") /\ UNCHANGED <<ask, rows, packs, then>>
      BY <1>1 DEF Exporting!RefuseAsk, Exporting!Reply
    <2> QED
      BY <2>1, RefusalsEnd
  <1>2. CASE \E q \in Exporting!Ask : Exporting!AcceptAsk(q)
    BY <1>2, AsksAreAccepted
  <1>3. CASE Exporting!ReadAnchors
    BY <1>3, AnchorsAreRead
  <1>4. CASE Exporting!ReadDay
    BY <1>4, DaysAreRead
  <1>5. CASE Exporting!Compose
    BY <1>5, BundlesAreComposed
  <1>6. CASE Exporting!ReadReceipts
    BY <1>6, ReceiptsAreRead
  <1>7. CASE Exporting!ReadLatestAnchor
    BY <1>7, LatestAnchorIsRead
  <1>8. CASE \/ Exporting!TooManyDays \/ Exporting!DayTooLong \/ Exporting!BundleTooLarge
             \/ Exporting!WindowTooLong
    <2>1. PICK c \in {"failed", "413"} : reply' = Exporting!Refusal(c)
      BY <1>8 DEF Exporting!TooManyDays, Exporting!DayTooLong, Exporting!BundleTooLarge,
         Exporting!WindowTooLong, Exporting!Overflow, Exporting!Reply
    <2>2. stage' = "done" /\ UNCHANGED <<ask, rows, packs, then>>
      BY <1>8 DEF Exporting!TooManyDays, Exporting!DayTooLong, Exporting!BundleTooLarge,
         Exporting!WindowTooLong, Exporting!Overflow, Exporting!Reply
    <2> QED
      BY <2>1, <2>2, RefusalsEnd
  <1>9. CASE Exporting!BadRecipient
    <2>1. PICK c \in {"failed", "422"} : reply' = Exporting!Refusal(c)
      BY <1>9 DEF Exporting!BadRecipient, Exporting!Reply
    <2>2. stage' = "done" /\ UNCHANGED <<ask, rows, packs, then>>
      BY <1>9 DEF Exporting!BadRecipient, Exporting!Reply
    <2> QED
      BY <2>1, <2>2, RefusalsEnd
  <1> QED
    BY <1>1, <1>2, <1>3, <1>4, <1>5, <1>6, <1>7, <1>8, <1>9 DEF Exporting!ExportStep

-----------------------------------------------------------------------------
(* What the invariant says of an export *)

LEMMA DayBounds ==
    ASSUME NEW t \in Nat
    PROVE  /\ DayOf(t) \in Nat
           /\ Midnight(DayOf(t)) <= t /\ t < Midnight(DayOf(t) + 1)
  <1> DEFINE d == t \div DayLength
             r == t % DayLength
  <1>1. d \in Nat /\ r \in 0 .. DayLength - 1 /\ DayLength \in Nat \ {0} /\ d * DayLength = t - r
    BY ReadersConstants, Division, QuotientBounds
  <1> HIDE DEF d, r
  <1>2. d * DayLength \in Nat /\ (d + 1) * DayLength = d * DayLength + DayLength
    BY <1>1
  <1>3. d * DayLength <= t /\ t < (d + 1) * DayLength
    BY <1>1, <1>2
  <1> QED
    BY <1>1, <1>3 DEF DayOf, Midnight, d

\* A receipt of the scope and of its day is in the window of the pack.
LEMMA ReceiptsAreInTheirWindow ==
    ASSUME TablesTypeOK, ask \in Exporting!Ask, NEW i \in Committed, Exporting!InScope(i),
           DayOf(SignedAt(i)) \in Days
    PROVE  LET w == Exporting!DayWindow(DayOf(SignedAt(i))) IN i \in SignedWithin(w.from, w.to)
  <1>1. SignedAt(i) \in Nat
    BY WindowsAreFinite, ReadersConstants DEF Times
  <1>2. ask.from <= SignedAt(i) /\ SignedAt(i) <= ask.to
    BY ExportReadsTables DEF Exporting!InScope
  <1>3. PICK d \in Days : d = DayOf(SignedAt(i))
    OBVIOUS
  <1>4. Midnight(d) <= SignedAt(i) /\ SignedAt(i) <= Midnight(d + 1)
    <2>1. Midnight(d + 1) \in Nat
      BY DaysAreNaturals
    <2> QED
      BY <1>1, <1>3, <2>1, DayBounds
  <1>5. /\ Exporting!DayWindow(d).from <= SignedAt(i)
        /\ SignedAt(i) <= Exporting!DayWindow(d).to
    BY <1>1, <1>2, <1>4, WindowsOfDays
  <1> QED
    BY <1>3, <1>5 DEF SignedWithin

LEMMA BundlesAreDelivered ==
    ASSUME ExportInv, Exporting!IsBundle
    PROVE  BundleIsDelivered /\ ExportTypes
  BY DEF ExportInv, Exporting!IsBundle, PackIsDelivered

LEMMA RootsAreIn ==
    ASSUME TablesTypeOK, ExportInv
    PROVE  RootIsInItsPack
  <1> SUFFICES ASSUME Exporting!IsBundle, NEW k \in DOMAIN packs,
                      packs[k].anchor.root # None,
                      NEW i \in ReceiptsOfDay(packs[k].day),
                      i <= packs[k].anchor.root, Exporting!InScope(i)
               PROVE  i \in packs[k].items
    BY ExportReadsTables DEF RootIsInItsPack, Exporting!RootIsInItsPack
  <1>1. AskFits /\ DayPackFits(packs[k]) /\ DOMAIN rows \subseteq Days
    BY BundlesAreDelivered DEF BundleIsDelivered, PacksFit, ExportTypes
  <1>2. packs[k].day \in Days
    BY <1>1 DEF DayPackFits
  <1>3. i \in Committed /\ DayOf(SignedAt(i)) = packs[k].day
    BY DEF ReceiptsOfDay
  <1>4. i \in SignedWithin(packs[k].from, packs[k].to)
    BY <1>1, <1>2, <1>3, ReceiptsAreInTheirWindow DEF AskFits, DayPackFits
  <1> QED
    BY <1>1, <1>4 DEF DayPackFits

LEMMA ExportsAreComplete ==
    ASSUME TablesTypeOK, ExportInv
    PROVE  BundleIsComplete
  <1>1. ASSUME Exporting!IsPack, NEW i \in Exporting!Before, Exporting!InScope(i)
        PROVE  i \in reply.pack.items
    <2>1. PackIsDelivered
      BY <1>1 DEF Exporting!IsPack, ExportInv, BundleIsDelivered
    <2>2. then.count \in 0 .. Len(receipts) /\ Len(receipts) \in Nat
      BY <2>1 DEF PackIsDelivered, AskFits, TablesTypeOK
    <2>3. i \in Committed /\ i < then.count
      BY <2>2 DEF Exporting!Before, Committed
    <2>4. i \in SignedWithin(ask.from, ask.to)
      BY <1>1, <2>3, ExportReadsTables DEF Exporting!InScope, SignedWithin
    <2> QED
      BY <2>1, <2>3, <2>4 DEF PackIsDelivered
  <1>2. ASSUME Exporting!IsBundle, NEW i \in Exporting!Before, Exporting!InScope(i),
               DayOf(SignedAt(i)) \in then.days
        PROVE  \E k \in DOMAIN packs : packs[k].day = DayOf(SignedAt(i)) /\ i \in packs[k].items
    <2>1. /\ AskFits /\ RowsFit /\ PacksFit /\ Exporting!Unpacked = {}
          /\ DOMAIN rows \subseteq Days
      BY <1>2, BundlesAreDelivered DEF BundleIsDelivered, ExportTypes
    <2>2. then.count \in 0 .. Len(receipts) /\ Len(receipts) \in Nat
      BY <2>1 DEF AskFits, TablesTypeOK
    <2>3. i \in Committed /\ i < then.count
      BY <2>2 DEF Exporting!Before, Committed
    <2>4. DayOf(SignedAt(i)) \in DOMAIN rows
      BY <1>2, <2>1 DEF RowsFit
    <2>5. PICK k \in DOMAIN packs : packs[k].day = DayOf(SignedAt(i))
      BY <2>1, <2>4 DEF Exporting!Unpacked
    <2>6. DayPackFits(packs[k])
      BY <2>1 DEF PacksFit
    <2>7. i \in SignedWithin(packs[k].from, packs[k].to)
      BY <1>2, <2>1, <2>3, <2>4, <2>5, <2>6, ReceiptsAreInTheirWindow DEF AskFits, DayPackFits
    <2> QED
      BY <2>3, <2>5, <2>6, <2>7 DEF DayPackFits, Holds
  <1>3. ASSUME Exporting!IsBundle, NEW j \in DOMAIN packs, NEW k \in DOMAIN packs, j < k,
               NEW i \in packs[j].items \cap packs[k].items
        PROVE  packs[k].day = packs[j].day + 1 /\ SignedAt(i) = Midnight(packs[k].day)
    <2>1. AskFits /\ PacksFit /\ DOMAIN rows \subseteq Days
      BY <1>3, BundlesAreDelivered DEF BundleIsDelivered, ExportTypes
    <2>2. PICK c, d : c = packs[j].day /\ d = packs[k].day
      OBVIOUS
    <2>3. c \in Days /\ d \in Days /\ c \in Nat /\ d \in Nat /\ c < d
      BY <1>3, <2>1, <2>2, DaysAreNaturals DEF PacksFit, DayPackFits
    <2>4. /\ i \in SignedWithin(packs[j].from, packs[j].to)
          /\ i \in SignedWithin(packs[k].from, packs[k].to)
          /\ packs[j].to = Exporting!DayWindow(c).to
          /\ packs[k].from = Exporting!DayWindow(d).from
      BY <2>1, <2>2 DEF PacksFit, DayPackFits, Holds
    <2>5. SignedAt(i) \in Nat
      BY <2>4, WindowsAreFinite, ReadersConstants DEF Times
    <2>6. /\ Exporting!DayWindow(c).to \in Nat /\ Exporting!DayWindow(c).to <= Midnight(c + 1)
          /\ Exporting!DayWindow(d).from \in Nat /\ Midnight(d) <= Exporting!DayWindow(d).from
      BY <2>1, <2>3, WindowsOfDays DEF AskFits
    <2>7. Midnight(d) \in Nat /\ Midnight(c + 1) \in Nat /\ c + 1 \in Nat
      BY <2>3, DaysAreNaturals
    <2>8. Midnight(d) <= SignedAt(i) /\ SignedAt(i) <= Midnight(c + 1)
      <3>1. packs[k].from <= SignedAt(i) /\ SignedAt(i) <= packs[j].to
        BY <2>4 DEF SignedWithin
      <3> QED
        BY <2>4, <2>5, <2>6, <2>7, <3>1
    <2>9. d = c + 1
      <3> SUFFICES ASSUME c + 2 <= d PROVE FALSE
        BY <2>3
      <3>1. (c + 2) * DayLength <= d * DayLength
        BY <2>3, ReadersConstants, ProductIsMonotone
      <3>2. (c + 2) * DayLength = (c + 1) * DayLength + DayLength
        BY <2>3, ReadersConstants
      <3>3. (c + 1) * DayLength \in Nat /\ d * DayLength \in Nat
        BY <2>3, ReadersConstants, ProductIsMonotone
      <3>4. d * DayLength <= (c + 1) * DayLength
        BY <2>5, <2>7, <2>8 DEF Midnight
      <3> QED
        BY <3>1, <3>2, <3>3, <3>4, ReadersConstants
    <2> QED
      BY <2>2, <2>5, <2>7, <2>8, <2>9
  <1> QED
    BY <1>1, <1>2, <1>3, ExportReadsTables DEF BundleIsComplete, Exporting!BundleIsComplete

LEMMA SealIsARecord ==
    ASSUME NEW b, NEW h
    PROVE  /\ Exporting!Seal(b, h).packRoots = b.packs
           /\ Exporting!Seal(b, h).anchorRoots
                  = [k \in DOMAIN b.anchors |-> b.anchors[k].row.root]
  BY DEF Exporting!Seal

\* A root belongs to one day, so anchored days with the same root are the same.
LEMMA RootsTellDays ==
    ASSUME TablesTypeOK, BundleIsDelivered, ExportTypes,
           NEW j \in DOMAIN packs, NEW k \in DOMAIN packs,
           packs[j].anchor.root = packs[k].anchor.root
    PROVE  \/ packs[k].anchor = Deferred
           \/ packs[j].day = packs[k].day /\ packs[j].anchor = packs[k].anchor
  <1>1. PICK c, d : c = packs[j].day /\ d = packs[k].day
    OBVIOUS
  <1>2. /\ c \in DOMAIN rows /\ d \in DOMAIN rows
        /\ packs[j].anchor = rows[c] /\ packs[k].anchor = rows[d]
    BY <1>1 DEF BundleIsDelivered, PacksFit, DayPackFits
  <1>3. rows[c] \in AnchorRow /\ rows[d] \in AnchorRow
    BY <1>2 DEF ExportTypes
  <1>4. CASE rows[d].root = None
    <2>1. rows[d] = Deferred
      BY <1>3, <1>4 DEF AnchorRow, Deferred
    <2> QED
      BY <1>2, <2>1
  <1>5. CASE rows[d].root # None
    <2>1. rows[d].root \in ReceiptsOfDay(d) /\ rows[c].root \in ReceiptsOfDay(c)
      BY <1>2, <1>5 DEF BundleIsDelivered, RowsFit
    <2>2. c = d
      BY <1>2, <2>1 DEF ReceiptsOfDay
    <2> QED
      BY <1>1, <1>2, <2>2
  <1> QED
    BY <1>4, <1>5

LEMMA SealsFix ==
    ASSUME TablesTypeOK, ExportInv
    PROVE  SealFixesParts
  <1> SUFFICES ASSUME Exporting!IsBundle
               PROVE  LET b == Exporting!Delivered IN
                      /\ Exporting!VerifySeal(b)
                      /\ b.signature # None => Exporting!VerifySignature(b)
                      /\ \A f \in Exporting!Arrangements(b.packs) :
                             Exporting!VerifySeal([b EXCEPT !.packs = Exporting!Arranged(b.packs, f)]) =>
                                 Exporting!Arranged(b.packs, f) = b.packs
                      /\ \A f \in Exporting!Arrangements(b.anchors) :
                             Exporting!VerifySeal([b EXCEPT !.anchors = Exporting!Arranged(b.anchors, f)]) =>
                                 \A k \in DOMAIN b.anchors :
                                     \/ b.anchors[k] = Exporting!Arranged(b.anchors, f)[k]
                                     \/ b.anchors[k].row = Exporting!Deferred
    BY DEF SealFixesParts, Exporting!SealFixesParts
  <1>1. PICK b : b = Exporting!Delivered
    OBVIOUS
  <1>2. BundleIsDelivered /\ ExportTypes /\ BundleFits(b)
    BY <1>1, BundlesAreDelivered DEF BundleIsDelivered
  <1> DEFINE dated == [k \in DOMAIN packs |-> [day |-> packs[k].day, row |-> packs[k].anchor]]
  <1>3. PICK h, s, g : b = [packs |-> packs, anchors |-> dated, header |-> h, seal |-> s,
                            signature |-> g]
    BY <1>2 DEF BundleFits
  <1>4. b.packs = packs /\ b.anchors = dated /\ b.header = h /\ b.seal = s /\ b.signature = g
    BY <1>3
  <1>5. s = Exporting!Seal(b, h) /\ g \in {None, s}
    BY <1>2, <1>4 DEF BundleFits
  <1>6. DOMAIN dated = DOMAIN packs
        /\ \A k \in DOMAIN packs : dated[k] = [day |-> packs[k].day, row |-> packs[k].anchor]
    OBVIOUS
  <1> HIDE DEF dated
  <1>7. Exporting!VerifySeal(b)
    BY <1>4, <1>5 DEF Exporting!VerifySeal
  <1>8. b.signature # None => Exporting!VerifySignature(b)
    BY <1>4, <1>5 DEF Exporting!VerifySignature
  <1>9. ASSUME NEW a, Exporting!VerifySeal([b EXCEPT !.packs = a]) PROVE a = b.packs
    <2>1. PICK c : c = [b EXCEPT !.packs = a]
      OBVIOUS
    <2>2. c.packs = a /\ c.header = h /\ c.seal = s
      BY <1>3, <2>1
    <2>3. Exporting!Seal(c, h) = s
      BY <1>9, <2>1, <2>2 DEF Exporting!VerifySeal
    <2>4. Exporting!Seal(c, h).packRoots = c.packs /\ Exporting!Seal(b, h).packRoots = b.packs
      BY SealIsARecord
    <2> QED
      BY <1>5, <2>2, <2>3, <2>4
  <1>10. ASSUME NEW f \in Exporting!Arrangements(b.anchors),
                Exporting!VerifySeal([b EXCEPT !.anchors = Exporting!Arranged(b.anchors, f)]),
                NEW k \in DOMAIN b.anchors
         PROVE  \/ b.anchors[k] = Exporting!Arranged(b.anchors, f)[k]
                \/ b.anchors[k].row = Exporting!Deferred
    <2>1. PICK a : a = Exporting!Arranged(b.anchors, f)
      OBVIOUS
    <2>2. PICK c : c = [b EXCEPT !.anchors = a]
      OBVIOUS
    <2>3. c.anchors = a /\ c.header = h /\ c.seal = s
      BY <1>3, <2>2
    <2>4. Exporting!Seal(c, h) = s
      BY <1>10, <2>1, <2>2, <2>3 DEF Exporting!VerifySeal
    <2>5. [n \in DOMAIN a |-> a[n].row.root] = [n \in DOMAIN b.anchors |-> b.anchors[n].row.root]
      <3>1. /\ Exporting!Seal(c, h).anchorRoots = [n \in DOMAIN c.anchors |-> c.anchors[n].row.root]
            /\ Exporting!Seal(b, h).anchorRoots = [n \in DOMAIN b.anchors |-> b.anchors[n].row.root]
        BY SealIsARecord
      <3>2. [n \in DOMAIN c.anchors |-> c.anchors[n].row.root] = [n \in DOMAIN a |-> a[n].row.root]
        BY <2>3
      <3> QED
        BY <1>5, <2>4, <3>1, <3>2
    <2>6. DOMAIN a = DOMAIN b.anchors /\ a[k].row.root = b.anchors[k].row.root
      <3>1. DOMAIN [n \in DOMAIN a |-> a[n].row.root] = DOMAIN a
            /\ DOMAIN [n \in DOMAIN b.anchors |-> b.anchors[n].row.root] = DOMAIN b.anchors
        OBVIOUS
      <3>2. DOMAIN a = DOMAIN b.anchors
        BY <2>5, <3>1
      <3>3. [n \in DOMAIN a |-> a[n].row.root][k] = [n \in DOMAIN b.anchors |-> b.anchors[n].row.root][k]
        BY <2>5
      <3> QED
        BY <3>2, <3>3
    <2>7. DOMAIN a = DOMAIN f /\ a[k] = b.anchors[f[k]] /\ f[k] \in DOMAIN b.anchors
      <3>1. DOMAIN a = DOMAIN f
        BY <2>1 DEF Exporting!Arranged
      <3>2. k \in DOMAIN f
        BY <2>6, <3>1
      <3>3. f[k] \in DOMAIN b.anchors
        BY <3>2 DEF Exporting!Arrangements
      <3> QED
        BY <2>1, <3>1, <3>2, <3>3 DEF Exporting!Arranged
    <2>8. PICK j : j = f[k]
      OBVIOUS
    <2>9. /\ j \in DOMAIN packs /\ k \in DOMAIN packs
          /\ a[k] = [day |-> packs[j].day, row |-> packs[j].anchor]
          /\ b.anchors[k] = [day |-> packs[k].day, row |-> packs[k].anchor]
      BY <1>4, <1>6, <2>7, <2>8
    <2>10. packs[j].anchor.root = packs[k].anchor.root
      BY <2>6, <2>9
    <2>11. packs[k].anchor = Deferred
           \/ (packs[j].day = packs[k].day /\ packs[j].anchor = packs[k].anchor)
      BY <1>2, <2>9, <2>10, RootsTellDays
    <2> QED
      BY <2>1, <2>9, <2>11 DEF Exporting!Deferred, Deferred
  <1> QED
    BY <1>1, <1>7, <1>8, <1>9, <1>10

-----------------------------------------------------------------------------
(* The walk *)

LEMMA ListingReadsTables ==
    /\ \A f, t : Listing!SignedWithin(f, t) = SignedWithin(f, t)
    /\ \A f, t : Listing!AnchoredWithin(f, t) = AnchoredWithin(f, t)
    /\ \A i : Listing!SignedAt(i) = SignedAt(i)
    /\ Listing!JobIds = JobIds /\ Listing!Deferred = Deferred
  BY DEF Listing!SignedWithin, Listing!AnchoredWithin, Listing!SignedAt, Listing!JobIds,
         Listing!Deferred, Listing!Committed, Listing!Days, Listing!DayOf, Listing!Midnight,
         SignedWithin, AnchoredWithin, SignedAt, JobIds, Deferred, Committed, Days, DayOf, Midnight

LEMMA MatchingSets ==
    ASSUME NEW q \in Listing!Queries
    PROVE  /\ q.table \in {"receipts", "anchors", "jobs"}
           /\ q.table = "receipts" => Listing!Matching(q) = SignedWithin(q.after, q.before)
           /\ q.table = "anchors" => Listing!Matching(q) = AnchoredWithin(q.after, q.before)
           /\ q.table = "jobs" => Listing!Matching(q) = {j \in JobIds : jobs[j] # None}
  <1>1. q.table \in {"receipts", "anchors", "jobs"}
    BY DEF Listing!Queries
  <1>2. q.table = "receipts" => Listing!Matching(q) = SignedWithin(q.after, q.before)
    BY ListingReadsTables DEF Listing!Matching
  <1>3. q.table = "anchors" => Listing!Matching(q) = AnchoredWithin(q.after, q.before)
    BY ListingReadsTables DEF Listing!Matching
  <1>4. q.table = "jobs" => Listing!Matching(q) = {j \in JobIds : jobs[j] # None}
    BY ListingReadsTables DEF Listing!Matching
  <1> QED
    BY <1>1, <1>2, <1>3, <1>4

LEMMA JobIdsAreFinite ==
    JobIds \in SUBSET Nat /\ IsFiniteSet(JobIds)
  BY ReadersConstants, FS_Interval DEF JobIds

LEMMA MatchingIsFinite ==
    ASSUME TablesTypeOK, NEW q \in Listing!Queries
    PROVE  Listing!Matching(q) \in SUBSET Nat /\ IsFiniteSet(Listing!Matching(q))
  <1>1. CASE q.table = "receipts"
    <2>1. Listing!Matching(q) = SignedWithin(q.after, q.before)
      BY <1>1, MatchingSets
    <2>2. SignedWithin(q.after, q.before) \in SUBSET Committed /\ Committed \subseteq Nat
          /\ IsFiniteSet(SignedWithin(q.after, q.before))
      BY WindowsAreFinite
    <2> QED
      BY <2>1, <2>2
  <1>2. CASE q.table = "anchors"
    <2>1. Listing!Matching(q) = AnchoredWithin(q.after, q.before)
      BY <1>2, MatchingSets
    <2>2. AnchoredWithin(q.after, q.before) \in SUBSET Days /\ Days \subseteq Nat
          /\ IsFiniteSet(AnchoredWithin(q.after, q.before))
      BY WindowsAreFinite, DaysAreNaturals
    <2> QED
      BY <2>1, <2>2
  <1>3. CASE q.table = "jobs"
    <2>1. {j \in JobIds : jobs[j] # None} \in SUBSET JobIds
      OBVIOUS
    <2>2. IsFiniteSet({j \in JobIds : jobs[j] # None})
      BY <2>1, JobIdsAreFinite, FS_Subset
    <2>3. Listing!Matching(q) = {j \in JobIds : jobs[j] # None}
      BY <1>3, MatchingSets
    <2> QED
      BY <2>1, <2>2, <2>3, JobIdsAreFinite
  <1> QED
    BY <1>1, <1>2, <1>3, MatchingSets

\* What matches a query stays, and what is new comes above every receipt.
LEMMA MatchingGrows ==
    ASSUME TablesTypeOK, Grown, TablesTypeOK', NEW q \in Listing!Queries
    PROVE  /\ Listing!Matching(q) \subseteq Listing!Matching(q)'
           /\ Listing!Matching(q)' \in SUBSET Nat /\ IsFiniteSet(Listing!Matching(q)')
           /\ q.table = "receipts" =>
                  \A k \in Listing!Matching(q)' : k < Len(receipts) => k \in Listing!Matching(q)
  <1>1. CASE q.table = "receipts"
    <2>1. /\ Listing!Matching(q) = SignedWithin(q.after, q.before)
          /\ Listing!Matching(q)' = SignedWithin(q.after, q.before)'
      BY <1>1, ListingReadsTables DEF Listing!Matching, Listing!SignedWithin, Listing!Committed,
         Listing!SignedAt, SignedWithin, Committed, SignedAt
    <2>2. Len(receipts') \in Nat
      BY DEF TablesTypeOK
    <2>3. IsFiniteSet(Committed')
      BY <2>2, FS_Interval DEF Committed
    <2>4. SignedWithin(q.after, q.before)' \in SUBSET Committed'
      BY WindowsGrow
    <2>5. IsFiniteSet(SignedWithin(q.after, q.before)')
      BY <2>3, <2>4, FS_Subset
    <2> QED
      BY <1>1, <2>1, <2>5, WindowsGrow
  <1>2. CASE q.table = "anchors"
    <2>1. /\ Listing!Matching(q) = AnchoredWithin(q.after, q.before)
          /\ Listing!Matching(q)' = AnchoredWithin(q.after, q.before)'
      BY <1>2, ListingReadsTables DEF Listing!Matching, Listing!AnchoredWithin, Listing!Days,
         Listing!DayOf, Listing!Midnight, AnchoredWithin, Days, DayOf, Midnight
    <2>2. AnchoredWithin(q.after, q.before)' \in SUBSET Days
      BY DEF AnchoredWithin, Days, DayOf
    <2>3. IsFiniteSet(AnchoredWithin(q.after, q.before)')
      BY <2>2, DaysAreNaturals, FS_Subset
    <2> QED
      BY <1>2, <2>1, <2>2, <2>3, WindowsGrow, DaysAreNaturals
  <1>3. CASE q.table = "jobs"
    <2>1. /\ Listing!Matching(q) = {j \in JobIds : jobs[j] # None}
          /\ Listing!Matching(q)' = {j \in JobIds : jobs'[j] # None}
      BY <1>3, ListingReadsTables DEF Listing!Matching, Listing!JobIds, JobIds
    <2>2. {j \in JobIds : jobs'[j] # None} \in SUBSET JobIds
      OBVIOUS
    <2>3. IsFiniteSet({j \in JobIds : jobs'[j] # None})
      BY <2>2, JobIdsAreFinite, FS_Subset
    <2>4. {j \in JobIds : jobs[j] # None} \subseteq {j \in JobIds : jobs'[j] # None}
      BY DEF Grown
    <2> QED
      BY <1>3, <2>1, <2>2, <2>3, <2>4, JobIdsAreFinite
  <1> QED
    BY <1>1, <1>2, <1>3, MatchingSets

\* A row that stands goes on standing.
LEMMA RowsGoOn ==
    ASSUME TablesTypeOK, Grown, TablesTypeOK', query \in Listing!Queries, query' = query,
           NEW k, NEW item, Stands(k, item)
    PROVE  Stands(k, item)'
  <1>1. PICK q \in Listing!Queries : q = query
    OBVIOUS
  <1>2. k \in Listing!Matching(q) /\ k \in Listing!Matching(q)'
    BY <1>1, MatchingGrows DEF Stands
  <1>3. Listing!Matching(query)' = Listing!Matching(q)'
    BY <1>1 DEF Listing!Matching
  <1>4. ASSUME q.table = "receipts" PROVE SignedAt(k)' = item
    <2>1. k \in Committed
      BY <1>2, <1>4, MatchingSets DEF SignedWithin
    <2> QED
      BY <1>1, <1>4, <2>1, WindowsGrow DEF Stands
  <1>5. ASSUME q.table = "anchors" PROVE item = Deferred \/ anchors'[k] = item
    <2>1. k \in Days /\ anchors[k] # None
      BY <1>2, <1>5, MatchingSets DEF AnchoredWithin
    <2> QED
      BY <1>1, <1>5, <2>1 DEF Stands, Grown
  <1>6. ASSUME q.table = "jobs"
        PROVE  jobs'[k] = item \/ Listing!Progress(item) < Listing!Progress(jobs'[k])
    <2>1. k \in JobIds /\ jobs[k] # None
      BY <1>2, <1>6, MatchingSets
    <2>2. jobs[k] = item \/ Listing!Progress(item) < Listing!Progress(jobs[k])
      BY <1>1, <1>6 DEF Stands
    <2>3. \/ jobs'[k] = jobs[k]
          \/ jobs[k] = "pending" /\ jobs'[k] = "running"
          \/ jobs[k] = "running" /\ jobs'[k] \in {"completed", "failed"}
      BY <2>1 DEF Grown
    <2> QED
      BY <2>2, <2>3 DEF Listing!Progress
  <1> QED
    BY <1>1, <1>2, <1>3, <1>4, <1>5, <1>6 DEF Stands, Deferred

LEMMA PagesGoOn ==
    ASSUME TablesTypeOK, Grown, TablesTypeOK', query \in Listing!Queries, query' = query,
           pages' = pages, PagesStand
    PROVE  PagesStand'
  <1> SUFFICES ASSUME NEW n \in DOMAIN pages, NEW k \in DOMAIN pages[n].rows
               PROVE  Stands(k, pages[n].rows[k])'
    BY DEF PagesStand
  <1>1. PICK item : item = pages[n].rows[k]
    OBVIOUS
  <1>2. Stands(k, item)
    BY <1>1 DEF PagesStand
  <1>3. Stands(k, item)'
    BY <1>2, RowsGoOn
  <1> QED
    BY <1>1, <1>3 DEF Stands

\* The writers do not disturb a walk: what they add comes above what is yet to
\* be listed.
LEMMA WalkStands ==
    ASSUME TablesTypeOK, Grown, TablesTypeOK', ListInv, UNCHANGED listing
    PROVE  ListInv'
  <1>1. /\ phase' = phase /\ page' = page /\ query' = query /\ pages' = pages
        /\ opened' = opened /\ there' = there
    BY DEF listing
  <1>2. Listing!Listed' = Listing!Listed /\ Unlisted' = Unlisted
    BY <1>1 DEF Unlisted, Listing!Listed
  <1>3. ASSUME phase # "idle" PROVE PagesStand'
    BY <1>1, <1>3, PagesGoOn DEF ListInv
  <1>4. ASSUME phase # "idle"
        PROVE  /\ Listing!Matching(query) \subseteq Listing!Matching(query)'
               /\ Listing!Matching(query)' \in SUBSET Nat /\ IsFiniteSet(Listing!Matching(query)')
               /\ query.table = "receipts" =>
                      \A k \in Listing!Matching(query)' :
                          k < Len(receipts) => k \in Listing!Matching(query)
    <2>1. PICK q \in Listing!Queries : q = query
      BY <1>4 DEF ListInv
    <2>2. Listing!Matching(query)' = Listing!Matching(q)'
      BY <1>1, <2>1 DEF Listing!Matching
    <2> QED
      BY <2>1, <2>2, MatchingGrows
  <1>5. ASSUME phase = "walking", pages # <<>> PROVE Ahead'
    <2>1. page \in PageType /\ Ahead
      BY <1>5 DEF ListInv
    <2>2. CASE page.cursor
      BY <1>1, <1>2, <2>1, <2>2, WindowsGrow DEF Ahead
    <2>3. CASE ~ page.cursor
      <3>1. ASSUME NEW k \in Unlisted
            PROVE  Cardinality(Above(Listing!Matching(query)', k)) >= page.mark
        <4>1. /\ Cardinality(Above(Listing!Matching(query), k)) \in Nat
              /\ Cardinality(Above(Listing!Matching(query)', k)) \in Nat
              /\ Cardinality(Above(Listing!Matching(query), k))
                     <= Cardinality(Above(Listing!Matching(query)', k))
          BY <1>4, <1>5, RanksGrow
        <4>2. Cardinality(Above(Listing!Matching(query), k)) >= page.mark /\ page.mark \in Nat
          BY <2>1, <2>3 DEF Ahead, PageType
        <4> QED
          BY <4>1, <4>2
      <3> QED
        BY <1>1, <1>2, <2>3, <3>1 DEF Ahead
    <2> QED
      BY <2>2, <2>3
  <1>6. ASSUME pages # <<>>, ByCursor PROVE NothingNew'
    <2>1. NothingNew /\ (phase = "walking" => Ahead /\ page.cursor /\ page \in PageType)
      BY <1>6 DEF ListInv, ByCursor
    <2>2. ASSUME phase = "walking", NEW k \in Listing!Matching(query)', k < page.mark
          PROVE  k \in there
      <3>1. query.table = "receipts" /\ page.mark \in Committed
        BY <2>1, <2>2 DEF Ahead
      <3>2. k \in Nat /\ page.mark < Len(receipts) /\ page.mark \in Nat /\ Len(receipts) \in Nat
        BY <1>4, <2>2, <3>1 DEF Committed, TablesTypeOK
      <3>3. k \in Listing!Matching(query)
        BY <1>4, <2>2, <3>1, <3>2
      <3> QED
        BY <2>1, <2>2, <3>3 DEF NothingNew
    <2> QED
      BY <1>1, <1>2, <2>1, <2>2 DEF NothingNew
  <1>7. ASSUME phase = "closed" PROVE OpenedStands'
    <2>1. PICK k, item : k = opened.key /\ item = opened.listed
      OBVIOUS
    <2>2. Stands(k, item) /\ OpenedStands
      BY <1>7, <2>1 DEF ListInv, OpenedStands
    <2>3. Stands(k, item)'
      BY <1>1, <1>7, <2>2, RowsGoOn DEF ListInv
    <2> QED
      BY <1>1, <2>1, <2>2, <2>3 DEF OpenedStands, Stands, Deferred
  <1>8. ByCursor' <=> ByCursor
    BY <1>1 DEF ByCursor
  <1>9. pages # <<>> => phase # "idle"
    BY DEF ListInv
  <1>10. pages # <<>> /\ there \subseteq Listing!Matching(query) =>
             there \subseteq Listing!Matching(query)'
    BY <1>4, <1>9
  <1>11. Listing!Queries' = Listing!Queries
    BY DEF Listing!Queries
  <1> QED
    BY <1>1, <1>2, <1>3, <1>5, <1>6, <1>7, <1>8, <1>10, <1>11
       DEF ListInv, Listing!At, PageType

LEMMA MatchingStays ==
    ASSUME UNCHANGED tables, query' = query
    PROVE  Listing!Matching(query)' = Listing!Matching(query)
  BY DEF tables, Listing!Matching, Listing!SignedWithin, Listing!Committed, Listing!SignedAt,
     Listing!AnchoredWithin, Listing!Days, Listing!DayOf, Listing!Midnight, Listing!JobIds

\* The rows of a page are those of the matching ones that come after others.
LEMMA RowsAreAPage ==
    ASSUME TablesTypeOK, query \in Listing!Queries, page \in PageType
    PROVE  LET M == Listing!Matching(query)
               kept == IF page.cursor THEN {k \in M : k < page.mark} ELSE M
               skipped == IF page.cursor THEN 0 ELSE page.mark IN
           /\ kept \in SUBSET M /\ kept \in SUBSET Nat /\ IsFiniteSet(kept) /\ skipped \in Nat
           /\ Listing!Rows(query, page) = Page(kept, skipped, Limit)
  <1> DEFINE M == Listing!Matching(query)
             kept == IF page.cursor THEN {k \in M : k < page.mark} ELSE M
             skipped == IF page.cursor THEN 0 ELSE page.mark
  <1>1. M \in SUBSET Nat /\ IsFiniteSet(M)
    BY MatchingIsFinite
  <1>2. kept \in SUBSET M
    OBVIOUS
  <1>3. skipped \in Nat
    BY DEF PageType
  <1>4. Listing!Rows(query, page)
            = {k \in kept : Listing!Cardinality({m \in kept : m > k}) \in skipped .. skipped + Limit - 1}
    BY DEF Listing!Rows
  <1>5. \A k : Listing!Cardinality({m \in kept : m > k}) = Cardinality(Above(kept, k))
    BY CountingIsTheSame DEF Above
  <1> HIDE DEF M, kept, skipped
  <1>6. IsFiniteSet(kept) /\ kept \in SUBSET Nat
    BY <1>1, <1>2, FS_Subset
  <1>7. Listing!Rows(query, page) = Page(kept, skipped, Limit)
    BY <1>4, <1>5 DEF Page
  <1> QED
    BY <1>2, <1>3, <1>6, <1>7 DEF M, kept, skipped

LEMMA LeastOfPage ==
    ASSUME NEW K \in SUBSET Nat, K # {}
    PROVE  Listing!Least(K) \in K /\ \A m \in K : Listing!Least(K) <= m
  BY LeastElement DEF Listing!Least

\* What is read and what is left after a page.
LEMMA PagesAreInOrder ==
    ASSUME TablesTypeOK, ListInv, phase = "walking"
    PROVE  LET M == Listing!Matching(query)
               K == Listing!Rows(query, page)
               first == IF pages = <<>> THEN M ELSE there
               left == (first \ Listing!Listed) \ K IN
           /\ K \in SUBSET M /\ M \in SUBSET Nat /\ first \in SUBSET M
           /\ Cardinality(K) \in Nat /\ Cardinality(K) <= Limit
           /\ Cardinality(K) < Limit => left = {}
           /\ Cardinality(K) >= Limit => K # {}
           /\ \A k \in left : \A m \in K : k < m
           /\ ~ page.cursor => \A k \in left : Cardinality(Above(M, k)) >= page.mark + Limit
           /\ page.cursor => \A k \in K : k < page.mark
  <1> DEFINE M == Listing!Matching(query)
             K == Listing!Rows(query, page)
             first == IF pages = <<>> THEN M ELSE there
             left == (first \ Listing!Listed) \ K
             kept == IF page.cursor THEN {k \in M : k < page.mark} ELSE M
             skipped == IF page.cursor THEN 0 ELSE page.mark
  <1>1. query \in Listing!Queries /\ page \in PageType /\ Limit \in Nat \ {0}
    BY ReadersConstants DEF ListInv
  <1>2. /\ kept \in SUBSET M /\ kept \in SUBSET Nat /\ IsFiniteSet(kept) /\ skipped \in Nat
        /\ K = Page(kept, skipped, Limit)
    BY <1>1, RowsAreAPage
  <1>3. M \in SUBSET Nat
    BY <1>1, MatchingIsFinite
  <1>4. first \in SUBSET M
    BY DEF ListInv
  <1>5. Cardinality(K) \in Nat /\ Cardinality(K) <= Limit
    BY <1>1, <1>2, PageIsNoLonger
  <1>6. page.cursor => kept = {k \in M : k < page.mark} /\ skipped = 0
    OBVIOUS
  <1>7. ~ page.cursor => kept = M /\ skipped = page.mark
    OBVIOUS
  <1>8. K \in SUBSET kept
    BY <1>2 DEF Page
  <1>9. ASSUME NEW k \in left PROVE k \in kept /\ Cardinality(Above(kept, k)) >= skipped
    <2>1. k \in M
      BY <1>4
    <2>2. Cardinality(Above(kept, k)) \in Nat
      BY <1>2, RanksAreNaturals
    <2>3. CASE pages = <<>>
      <3>1. page = Listing!At(0)
        BY <2>3 DEF ListInv
      <3>2. page.cursor = FALSE /\ page.mark = 0
        BY <3>1 DEF Listing!At
      <3>3. kept = M /\ skipped = 0
        BY <1>7, <3>2
      <3> HIDE DEF kept, skipped, M, left
      <3> QED
        BY <2>1, <2>2, <3>3
    <2>4. CASE pages # <<>>
      <3>1. Ahead /\ k \in Unlisted
        BY <2>4 DEF ListInv, Unlisted
      <3>2. CASE page.cursor
        <4>1. k < page.mark
          BY <3>1, <3>2 DEF Ahead
        <4>2. k \in kept /\ skipped = 0
          BY <1>6, <2>1, <3>2, <4>1
        <4> HIDE DEF kept, skipped, M, left
        <4> QED
          BY <2>2, <4>2
      <3>3. CASE ~ page.cursor
        <4>1. Cardinality(Above(M, k)) >= page.mark
          BY <3>1, <3>3 DEF Ahead
        <4>2. kept = M /\ skipped = page.mark
          BY <1>7, <3>3
        <4> HIDE DEF kept, skipped, M, left
        <4> QED
          BY <2>1, <4>1, <4>2
      <3> QED
        BY <3>2, <3>3
    <2> QED
      BY <2>3, <2>4
  <1>10. \A k \in left : k \notin K
    OBVIOUS
  <1> HIDE DEF kept, skipped, M, left, K, first
  <1>11. \A k \in left : /\ Cardinality(Above(kept, k)) >= skipped + Limit
                         /\ Cardinality(K) >= Limit
                         /\ \A m \in K : k < m
    BY <1>1, <1>2, <1>9, <1>10, UnreadStayBelow
  <1>12. Cardinality(K) < Limit => left = {}
    BY <1>1, <1>5, <1>11
  <1>13. Cardinality(K) >= Limit => K # {}
    BY <1>1, FS_EmptySet
  <1>14. ~ page.cursor => \A k \in left : Cardinality(Above(M, k)) >= page.mark + Limit
    BY <1>7, <1>11
  <1>15. page.cursor => \A k \in K : k < page.mark
    BY <1>6, <1>8
  <1>16. K \in SUBSET M
    BY <1>2, <1>8
  <1> QED
    BY <1>3, <1>4, <1>5, <1>11, <1>12, <1>13, <1>14, <1>15, <1>16 DEF M, K, left, first

LEMMA PagesAreRead ==
    ASSUME TablesTypeOK, ListInv, Listing!ReadPage, UNCHANGED tables
    PROVE  ListInv'
  <1>1. PICK K : K = Listing!Rows(query, page)
    OBVIOUS
  <1>2. PICK M : M = Listing!Matching(query)
    OBVIOUS
  <1>3. PICK given : given = [cursor |-> page.cursor, rows |-> [k \in K |-> Listing!Item(query, k)]]
    OBVIOUS
  <1>4. /\ phase = "walking" /\ Listing!Accepted(page)
        /\ pages' = Append(pages, given)
        /\ there' = IF pages = <<>> THEN M ELSE there
        /\ query' = query /\ opened' = opened
        /\ \/ Cardinality(K) < Limit /\ phase' = "end" /\ page' = None
           \/ /\ ~ (Cardinality(K) < Limit) /\ phase' = "walking"
              /\ page' \in Listing!NextPages(query, page, K)
    BY <1>1, <1>2, <1>3, CountingIsTheSame DEF Listing!ReadPage
  <1>5. query \in Listing!Queries /\ page \in PageType /\ Limit \in Nat \ {0} /\ opened = None
    BY <1>4, ReadersConstants DEF ListInv
  <1> DEFINE left == (there' \ Listing!Listed) \ K
  <1>6. /\ K \in SUBSET M /\ M \in SUBSET Nat /\ there' \in SUBSET M
        /\ Cardinality(K) \in Nat /\ Cardinality(K) <= Limit
        /\ Cardinality(K) < Limit => left = {}
        /\ Cardinality(K) >= Limit => K # {}
        /\ \A k \in left : \A m \in K : k < m
        /\ ~ page.cursor => \A k \in left : Cardinality(Above(M, k)) >= page.mark + Limit
        /\ page.cursor => \A k \in K : k < page.mark
    BY <1>1, <1>2, <1>4, PagesAreInOrder
  <1>7. /\ DOMAIN given.rows = K /\ given.cursor = page.cursor
        /\ \A k \in K : given.rows[k] = Listing!Item(query, k)
    BY <1>3
  <1>8. /\ DOMAIN pages = 1 .. Len(pages) /\ Len(pages) \in Nat
        /\ pages' # <<>> /\ DOMAIN pages' = 1 .. Len(pages') /\ Len(pages') = Len(pages) + 1
        /\ pages'[Len(pages) + 1] = given
        /\ \A n \in DOMAIN pages : pages'[n] = pages[n]
    BY <1>4 DEF ListInv
  <1>9. Listing!Listed' = Listing!Listed \cup K
    <2>1. \A n \in DOMAIN pages' : n \in DOMAIN pages \/ n = Len(pages) + 1
      BY <1>8
    <2>2. DOMAIN pages \subseteq DOMAIN pages' /\ Len(pages) + 1 \in DOMAIN pages'
      BY <1>8
    <2>3. \A x : x \in Listing!Listed <=> \E n \in DOMAIN pages : x \in DOMAIN pages[n].rows
      BY DEF Listing!Listed
    <2>4. \A x : x \in Listing!Listed' <=> \E n \in DOMAIN pages' : x \in DOMAIN pages'[n].rows
      BY DEF Listing!Listed
    <2> QED
      BY <1>7, <1>8, <2>1, <2>2, <2>3, <2>4
  <1>10. Listing!Matching(query)' = M
    BY <1>2, <1>4, MatchingStays
  <1>11. TablesTypeOK' /\ Grown /\ receipts' = receipts /\ anchors' = anchors /\ jobs' = jobs
    BY TablesStay DEF tables
  <1>12. ASSUME NEW n \in DOMAIN pages', NEW k \in DOMAIN pages'[n].rows
         PROVE  Stands(k, pages[n].rows[k])'
    <2>1. PICK item : item = pages'[n].rows[k]
      OBVIOUS
    <2>2. CASE n \in DOMAIN pages
      <3>1. Stands(k, item)
        BY <1>4, <1>8, <1>12, <2>1, <2>2 DEF ListInv, PagesStand
      <3>2. Stands(k, item)'
        BY <1>4, <1>5, <1>11, <3>1, RowsGoOn
      <3> QED
        BY <2>1, <3>2 DEF Stands
    <2>3. CASE n = Len(pages) + 1
      <3>1. k \in K /\ item = Listing!Item(query, k)
        BY <1>7, <1>8, <2>1, <2>3
      <3>2. /\ query.table = "receipts" => item = SignedAt(k)
            /\ query.table = "anchors" => item = anchors[k]
            /\ query.table = "jobs" => item = jobs[k]
        BY <3>1, ListingReadsTables DEF Listing!Item
      <3>3. Stands(k, item)
        BY <1>2, <1>6, <3>1, <3>2 DEF Stands
      <3>4. Stands(k, item)'
        BY <1>4, <1>5, <1>11, <3>3, RowsGoOn
      <3> QED
        BY <2>1, <3>4 DEF Stands
    <2> QED
      BY <1>8, <2>2, <2>3
  <1>13. \A n \in DOMAIN pages' : Cardinality(DOMAIN pages'[n].rows) <= Limit
    <2> SUFFICES ASSUME NEW n \in DOMAIN pages' PROVE Cardinality(DOMAIN pages'[n].rows) <= Limit
      OBVIOUS
    <2>1. CASE n \in DOMAIN pages
      BY <1>8, <2>1 DEF ListInv
    <2>2. CASE n = Len(pages) + 1
      BY <1>6, <1>7, <1>8, <2>2
    <2> QED
      BY <1>8, <2>1, <2>2
  <1>14. left = Unlisted'
    BY <1>9 DEF Unlisted
  <1>15. ASSUME phase' = "walking"
         PROVE  /\ Listing!Least(K) \in K /\ \A m \in K : Listing!Least(K) <= m
                /\ \/ ~ page.cursor /\ page' = Listing!At(page.mark + Limit)
                   \/ query.table = "receipts" /\ page' = Listing!Below(Listing!Least(K))
    <2>1. K # {} /\ K \in SUBSET Nat
      BY <1>4, <1>5, <1>6, <1>15
    <2>2. page' \in Listing!NextPages(query, page, K)
      BY <1>4, <1>15
    <2> QED
      BY <2>1, <2>2, LeastOfPage DEF Listing!NextPages
  <1>16. phase' = "walking" => page' \in PageType /\ Ahead'
    <2> SUFFICES ASSUME phase' = "walking" PROVE page' \in PageType /\ Ahead'
      OBVIOUS
    <2>1. CASE ~ page.cursor /\ page' = Listing!At(page.mark + Limit)
      <3>1. page'.cursor = FALSE /\ page'.mark = page.mark + Limit /\ page' \in PageType
        BY <1>5, <2>1 DEF Listing!At, PageType
      <3>2. \A k \in Unlisted' : Cardinality(Above(M, k)) >= page'.mark
        BY <1>6, <1>14, <2>1, <3>1
      <3> QED
        BY <1>10, <3>1, <3>2 DEF Ahead
    <2>2. CASE query.table = "receipts" /\ page' = Listing!Below(Listing!Least(K))
      <3>1. Listing!Least(K) \in K
        BY <1>15
      <3>2. page'.cursor = TRUE /\ page'.mark = Listing!Least(K) /\ page' \in PageType
        BY <1>6, <2>2, <3>1 DEF Listing!Below, PageType
      <3>3. \A k \in Unlisted' : k < page'.mark
        BY <1>6, <1>14, <3>1, <3>2
      <3>4. page'.mark \in Committed'
        <4>1. K \subseteq SignedWithin(query.after, query.before)
          BY <1>2, <1>5, <1>6, <2>2, MatchingSets
        <4> QED
          BY <1>11, <3>1, <3>2, <4>1 DEF SignedWithin, Committed
      <3> QED
        BY <1>4, <2>2, <3>2, <3>3, <3>4 DEF Ahead
    <2> QED
      BY <1>15, <2>1, <2>2
  <1>17. phase' = "end" => there' \subseteq Listing!Listed'
    BY <1>4, <1>6, <1>14 DEF Unlisted
  <1>18. ASSUME ByCursor' PROVE NothingNew'
    <2>1. /\ K \subseteq there'
          /\ Listing!Listed \subseteq there'
          /\ \A k \in Listing!Listed : k \notin K
          /\ phase' = "walking" => \A k \in Listing!Listed : Listing!Least(K) <= k
          /\ phase' = "walking" => \A k \in M : k < Listing!Least(K) => k \in there'
          /\ \A m, n \in DOMAIN pages :
                 m # n => DOMAIN pages[m].rows \cap DOMAIN pages[n].rows = {}
      <3>1. CASE pages = <<>>
        <4>1. Listing!Listed = {} /\ DOMAIN pages = {}
          BY <3>1 DEF Listing!Listed
        <4> QED
          BY <1>4, <1>6, <3>1, <4>1
      <3>2. CASE pages # <<>>
        <4>1. Len(pages) + 1 > 1 /\ Len(pages) + 1 \in DOMAIN pages'
          BY <1>8, <3>2
        <4>2. page.cursor
          BY <1>7, <1>8, <1>18, <4>1 DEF ByCursor
        <4>3. ByCursor
          BY <1>8, <1>18, <4>2 DEF ByCursor
        <4>4. NothingNew /\ there' = there
          BY <1>4, <3>2, <4>3 DEF ListInv
        <4>5. /\ Listing!Listed \subseteq there
              /\ \A k \in Listing!Listed : page.mark <= k
              /\ \A k \in M : k < page.mark => k \in there
              /\ \A m, n \in DOMAIN pages :
                     m # n => DOMAIN pages[m].rows \cap DOMAIN pages[n].rows = {}
          BY <1>2, <1>4, <4>4 DEF NothingNew
        <4>6. there \subseteq Nat /\ page.mark \in Nat /\ \A k \in K : k < page.mark /\ k \in Nat
          BY <1>5, <1>6, <4>2, <4>4 DEF PageType
        <4>7. K \subseteq there
          BY <1>6, <4>5, <4>6
        <4>8. \A k \in Listing!Listed : k \notin K
          <5> SUFFICES ASSUME NEW k \in Listing!Listed, k \in K PROVE FALSE
            OBVIOUS
          <5>1. page.mark <= k /\ k < page.mark /\ k \in Nat
            BY <4>5, <4>6
          <5> QED
            BY <4>6, <5>1
        <4>9. ASSUME phase' = "walking"
              PROVE  /\ \A k \in Listing!Listed : Listing!Least(K) <= k
                     /\ \A k \in M : k < Listing!Least(K) => k \in there
          <5>1. Listing!Least(K) \in Nat /\ Listing!Least(K) < page.mark
            BY <1>15, <4>6, <4>9
          <5>2. \A k \in Listing!Listed : page.mark <= k /\ k \in Nat
            BY <4>5, <4>6
          <5>3. \A k \in M : k \in Nat
            BY <1>6
          <5> QED
            BY <4>5, <4>6, <5>1, <5>2, <5>3
        <4> QED
          BY <4>4, <4>5, <4>7, <4>8, <4>9
      <3> QED
        BY <3>1, <3>2
    <2>2. \A m, n \in DOMAIN pages' : m # n => DOMAIN pages'[m].rows \cap DOMAIN pages'[n].rows = {}
      <3>1. \A n \in DOMAIN pages : DOMAIN pages[n].rows \subseteq Listing!Listed
        BY DEF Listing!Listed
      <3>2. \A n \in DOMAIN pages' : n \in DOMAIN pages \/ n = Len(pages) + 1
        BY <1>8
      <3> QED
        BY <1>7, <1>8, <2>1, <3>1, <3>2
    <2>3. ASSUME phase' = "walking"
          PROVE  /\ \A k \in Listing!Listed' : page'.mark <= k
                 /\ \A k \in M : k < page'.mark => k \in there'
      <3>1. page'.cursor
        BY <1>18, <2>3 DEF ByCursor
      <3>2. page'.mark = Listing!Least(K)
        BY <1>15, <2>3, <3>1 DEF Listing!At, Listing!Below
      <3> QED
        BY <1>9, <1>15, <2>1, <2>3, <3>2
    <2> QED
      BY <1>9, <1>10, <2>1, <2>2, <2>3 DEF NothingNew
  <1>19. PagesStand'
    BY <1>12 DEF PagesStand
  <1>20. Listing!Queries' = Listing!Queries
    BY DEF Listing!Queries
  <1> HIDE DEF left
  <1>21. phase' \in {"walking", "end"} /\ (phase' = "end" => page' = None)
    BY <1>4
  <1>22. there' \subseteq Listing!Matching(query)'
    BY <1>6, <1>10
  <1> QED
    BY <1>4, <1>5, <1>8, <1>13, <1>16, <1>17, <1>18, <1>19, <1>20, <1>21, <1>22
       DEF ListInv, PageType

LEMMA WalksStart ==
    ASSUME ListInv, NEW q \in Listing!Queries, Listing!RefuseQuery(q) \/ Listing!StartWalk(q)
    PROVE  ListInv'
  <1>1. /\ phase = "idle" /\ query' = q
        /\ pages' = pages /\ opened' = opened /\ there' = there
        /\ \/ phase' = "refused" /\ page' = page
           \/ phase' = "walking" /\ page' = Listing!At(0)
    BY DEF Listing!RefuseQuery, Listing!StartWalk
  <1>2. pages = <<>> /\ page = None /\ opened = None
    BY <1>1 DEF ListInv
  <1>3. Listing!At(0) \in PageType
    BY DEF Listing!At, PageType
  <1>4. Listing!Queries' = Listing!Queries /\ Listing!At(0)' = Listing!At(0)
    BY DEF Listing!Queries, Listing!At
  <1>5. PagesStand'
    BY <1>1, <1>2 DEF PagesStand
  <1>6. DOMAIN pages' = 1 .. Len(pages') /\ Len(pages') = 0 /\ pages' = <<>>
    BY <1>1, <1>2
  <1>7. \A n \in DOMAIN pages' : Cardinality(DOMAIN pages'[n].rows) <= Limit
    BY <1>6
  <1> QED
    BY <1>1, <1>2, <1>3, <1>4, <1>5, <1>6, <1>7 DEF ListInv, PageType

\* A page below the first receipt is refused, and would have been empty.
LEMMA PagesAreRefused ==
    ASSUME TablesTypeOK, ListInv, Listing!RefusePage, UNCHANGED tables
    PROVE  ListInv'
  <1>1. /\ phase = "walking" /\ phase' = "end" /\ page' = None
        /\ page.cursor /\ ~ (page.mark >= 1)
        /\ query' = query /\ pages' = pages /\ opened' = opened /\ there' = there
    BY DEF Listing!RefusePage, Listing!Accepted
  <1>2. page \in PageType /\ query \in Listing!Queries
    BY <1>1 DEF ListInv
  <1>3. page.mark = 0
    BY <1>1, <1>2 DEF PageType
  <1>4. pages # <<>>
    BY <1>1 DEF ListInv, Listing!At
  <1>5. Ahead /\ there \subseteq Listing!Matching(query)
    BY <1>1, <1>4 DEF ListInv
  <1>6. there \subseteq Nat
    BY <1>2, <1>5, MatchingIsFinite
  <1>7. there \subseteq Listing!Listed
    <2>1. \A k \in Unlisted : k < 0 /\ k \in Nat
      BY <1>1, <1>3, <1>5, <1>6 DEF Ahead, Unlisted
    <2> QED
      BY <2>1 DEF Unlisted
  <1>8. Listing!Listed' = Listing!Listed /\ Listing!Matching(query)' = Listing!Matching(query)
        /\ Listing!Queries' = Listing!Queries
    BY <1>1, MatchingStays DEF Listing!Listed, Listing!Queries
  <1>9. PagesStand'
    BY <1>1, <1>2, TablesStay, PagesGoOn DEF ListInv
  <1>10. ByCursor' => NothingNew'
    <2>1. ByCursor' => ByCursor
      BY <1>1 DEF ByCursor
    <2>2. ByCursor => NothingNew
      BY <1>4 DEF ListInv
    <2> QED
      BY <1>1, <1>8, <2>1, <2>2 DEF NothingNew
  <1> QED
    BY <1>1, <1>2, <1>4, <1>5, <1>7, <1>8, <1>9, <1>10 DEF ListInv

LEMMA RowsAreOpened ==
    ASSUME TablesTypeOK, ListInv, UNCHANGED tables,
           NEW n \in DOMAIN pages, NEW k \in DOMAIN pages[n].rows, Listing!OpenRow(n, k)
    PROVE  ListInv'
  <1>1. PICK item : item = pages[n].rows[k]
    OBVIOUS
  <1>2. /\ phase = "end" /\ phase' = "closed"
        /\ page' = page /\ query' = query /\ pages' = pages /\ there' = there
    BY DEF Listing!OpenRow
  <1>3. PICK code \in {"200", "404", "406"} :
            /\ opened' = [code |-> code, key |-> k, listed |-> item]
            /\ code = "404" => FALSE \in Listing!Remains(k, item)
            /\ code = "406" => query.table = "anchors" /\ item = Listing!Deferred
    BY <1>1 DEF Listing!OpenRow
  <1>4. Stands(k, item) /\ query \in Listing!Queries
    BY <1>1, <1>2 DEF ListInv, PagesStand
  <1>5. code = "200" \/ (query.table = "anchors" /\ item = Deferred)
    <2>1. ASSUME FALSE \in Listing!Remains(k, item)
          PROVE  query.table = "anchors" /\ item = Deferred
      <3>1. CASE query.table = "anchors" /\ anchors[k] # item
        BY <1>4, <3>1 DEF Stands
      <3>2. CASE query.table = "anchors" /\ anchors[k] = item /\ item = Deferred
        BY <3>2
      <3>3. CASE ~ (query.table = "anchors" /\ anchors[k] # item)
                 /\ ~ (query.table = "anchors" /\ item = Deferred)
        <4>1. Listing!Remains(k, item) = {k \in Listing!Matching(query)}
          BY <3>3, ListingReadsTables DEF Listing!Remains
        <4>2. k \in Listing!Matching(query)
          BY <1>4 DEF Stands
        <4> QED
          BY <2>1, <4>1, <4>2
      <3> QED
        BY <3>1, <3>2, <3>3
    <2> QED
      BY <1>3, <2>1, ListingReadsTables
  <1>6. TablesTypeOK' /\ Grown
    BY TablesStay
  <1>7. Stands(k, item)'
    BY <1>2, <1>4, <1>6, RowsGoOn
  <1>8. opened'.code = code /\ opened'.key = k /\ opened'.listed = item
    BY <1>3
  <1>9. OpenedStands'
    BY <1>2, <1>3, <1>5, <1>7, <1>8 DEF OpenedStands, Stands, Deferred
  <1>10. PagesStand'
    BY <1>2, <1>4, <1>6, PagesGoOn DEF ListInv
  <1>11. Listing!Listed' = Listing!Listed /\ Listing!Matching(query)' = Listing!Matching(query)
         /\ Listing!Queries' = Listing!Queries
    BY <1>2, MatchingStays DEF Listing!Listed, Listing!Queries
  <1>12. ByCursor' => NothingNew'
    <2>1. ByCursor' => ByCursor
      BY <1>2 DEF ByCursor
    <2>2. ByCursor => NothingNew
      BY <1>2 DEF ListInv
    <2> QED
      BY <1>2, <1>11, <2>1, <2>2 DEF NothingNew
  <1> QED
    BY <1>2, <1>4, <1>9, <1>10, <1>11, <1>12 DEF ListInv

LEMMA ListingSteps ==
    ASSUME TablesTypeOK, ListInv, Listing!ListingStep, UNCHANGED tables
    PROVE  ListInv'
  BY WalksStart, PagesAreRead, PagesAreRefused, RowsAreOpened DEF Listing!ListingStep

-----------------------------------------------------------------------------
(* What the invariant says of a walk *)

LEMMA NothingIsMissed ==
    ASSUME ListInv
    PROVE  PagesMissNothing
  <1> SUFFICES ASSUME phase \in {"end", "closed"}
               PROVE  /\ there \subseteq Listing!Listed
                      /\ (\A n \in DOMAIN pages : n > 1 => pages[n].cursor) =>
                             /\ Listing!Listed = there
                             /\ \A m, n \in DOMAIN pages :
                                    m # n => DOMAIN pages[m].rows \cap DOMAIN pages[n].rows = {}
    BY DEF PagesMissNothing, Listing!PagesMissNothing
  <1>1. there \subseteq Listing!Listed /\ pages # <<>> /\ phase # "walking"
    BY DEF ListInv
  <1>2. (\A n \in DOMAIN pages : n > 1 => pages[n].cursor) => NothingNew
    BY <1>1 DEF ListInv, ByCursor
  <1> QED
    BY <1>1, <1>2 DEF NothingNew

LEMMA WhatIsListedStands ==
    ASSUME ListInv
    PROVE  ListedStands
  <1> SUFFICES ASSUME phase = "closed"
               PROVE  Listing!ListedStands
    BY DEF ListedStands, Listing!ListedStands
  <1>1. OpenedStands /\ query.table \in {"receipts", "anchors", "jobs"}
    BY MatchingSets DEF ListInv
  <1> QED
    BY <1>1, ListingReadsTables DEF Listing!ListedStands, OpenedStands, Stands

-----------------------------------------------------------------------------
(* The metrics request *)

LEMMA MetricsReadTables ==
    /\ \A f, t : Measuring!SignedWithin(f, t) = SignedWithin(f, t)
    /\ Measuring!JobIds = JobIds /\ Measuring!Days = Days
    /\ Measuring!Deferred = Deferred /\ Measuring!Statuses = Statuses
  BY DEF Measuring!SignedWithin, Measuring!Committed, Measuring!SignedAt, Measuring!JobIds,
         Measuring!Days, Measuring!DayOf, Measuring!Deferred, Measuring!Statuses,
         SignedWithin, Committed, SignedAt, JobIds, Days, DayOf, Deferred, Statuses

\* The ten statements are different, and run in their order.
LEMMA StatementsInOrder ==
    /\ Len(Measuring!Statements) = 10
    /\ Measuring!Statements[1] = "events_total" /\ Measuring!Statements[2] = "receipts_total"
    /\ Measuring!Statements[3] = "receipts_in_window" /\ Measuring!Statements[4] = "head"
    /\ Measuring!Statements[5] = "anchored" /\ Measuring!Statements[6] = "deferred"
    /\ Measuring!Statements[7] = "pending" /\ Measuring!Statements[8] = "running"
    /\ Measuring!Statements[9] = "completed" /\ Measuring!Statements[10] = "failed"
  BY DEF Measuring!Statements

LEMMA StatementsDiffer ==
    \A j, k \in 1 .. 10 : Measuring!Statements[j] = Measuring!Statements[k] => j = k
  <1> SUFFICES ASSUME NEW j \in 1 .. 10, NEW k \in 1 .. 10, j # k
               PROVE  Measuring!Statements[j] # Measuring!Statements[k]
    OBVIOUS
  <1>1. \A i \in 1 .. 10 : i \in {1, 2, 3, 4, 5, 6, 7, 8, 9, 10}
    OBVIOUS
  <1> QED
    BY <1>1, StatementsInOrder

LEMMA RunsAreCounted ==
    ASSUME NEW n \in 0 .. 10
    PROVE  IsFiniteSet(Run(n)) /\ Cardinality(Run(n)) = n
  <1> DEFINE f == [k \in 1 .. n |-> Measuring!Statements[k]]
  <1>1. f \in Surjection(1 .. n, Run(n))
    BY DEF Surjection, Run
  <1>2. f \in Injection(1 .. n, Run(n))
    BY StatementsDiffer DEF Injection, IsInjective, Run
  <1>3. ExistsBijection(1 .. n, Run(n))
    BY <1>1, <1>2 DEF ExistsBijection, Bijection
  <1>4. Cardinality(Run(n)) = n
    BY <1>3, FS_CountingElements
  <1>5. IsFiniteSet(Run(n))
    BY <1>3, FS_NatBijection
  <1> QED
    BY <1>4, <1>5

\* One statement is run after the other.
LEMMA StatementsRun ==
    ASSUME MeasureInv, Measuring!RunStatement
    PROVE  /\ window # None /\ window' = window /\ start' = start
           /\ \E n \in 0 .. 9 :
                  /\ DOMAIN tally = Run(n) /\ DOMAIN tally' = Run(n + 1)
                  /\ Run(n + 1) = Run(n) \cup {Measuring!Statements[n + 1]}
                  /\ tally'[Measuring!Statements[n + 1]]
                         = Measuring!Result(Measuring!Statements[n + 1])
                  /\ \A name \in Run(n) :
                         name # Measuring!Statements[n + 1] /\ tally'[name] = tally[name]
  <1>1. PICK n \in 0 .. 10 : DOMAIN tally = Run(n)
    BY DEF MeasureInv
  <1>2. Measuring!Cardinality(DOMAIN tally) = n
    BY <1>1, RunsAreCounted, CountingIsTheSame
  <1>3. PICK next : next = Measuring!Statements[n + 1]
    OBVIOUS
  <1>4. /\ window # None /\ window' = window /\ start' = start
        /\ n # 10
        /\ tally' = [name \in DOMAIN tally \cup {next} |->
                        IF name = next THEN Measuring!Result(next) ELSE tally[name]]
    BY <1>2, <1>3, StatementsInOrder DEF Measuring!RunStatement, Measuring!Answered
  <1>5. n \in 0 .. 9 /\ n + 1 \in 1 .. 10
    BY <1>4
  <1>6. next \notin Run(n)
    <2> SUFFICES ASSUME NEW k \in 1 .. n, next = Measuring!Statements[k] PROVE FALSE
      BY DEF Run
    <2>1. k \in 1 .. 10 /\ k # n + 1
      BY <1>5
    <2> QED
      BY <1>3, <1>5, <2>1, StatementsDiffer
  <1>7. Run(n + 1) = Run(n) \cup {next}
    <2>1. \A k \in 1 .. n + 1 : k \in 1 .. n \/ k = n + 1
      OBVIOUS
    <2>2. n + 1 \in 1 .. n + 1 /\ \A k \in 1 .. n : k \in 1 .. n + 1
      BY <1>5
    <2> QED
      BY <1>3, <2>1, <2>2 DEF Run
  <1>8. DOMAIN tally' = Run(n + 1) /\ tally'[next] = Measuring!Result(next)
        /\ \A name \in Run(n) : name # next /\ tally'[name] = tally[name]
    BY <1>1, <1>4, <1>6, <1>7
  <1> QED
    BY <1>1, <1>3, <1>4, <1>5, <1>7, <1>8

LEMMA Results ==
    /\ Measuring!Result("events_total") = Len(receipts)
    /\ Measuring!Result("receipts_total") = Len(receipts)
    /\ Measuring!Result("receipts_in_window")
           = Cardinality(SignedWithin(window.from, window.to))
    /\ Measuring!Result("head") = IF receipts = <<>> THEN None ELSE Len(receipts) - 1
    /\ Measuring!Result("anchored") = Cardinality({d \in Days : anchors[d] \notin {None, Deferred}})
    /\ Measuring!Result("deferred") = Cardinality(Measuring!AnchorRows(TRUE))
    /\ \A s \in Statuses : Measuring!Result(s) = Cardinality(In({s}))
  <1>1. Measuring!AnchorRows(FALSE) = {d \in Days : anchors[d] \notin {None, Deferred}}
    BY MetricsReadTables DEF Measuring!AnchorRows
  <1>2. \A s : {j \in Measuring!JobIds : jobs[j] = s} = In({s})
    BY MetricsReadTables DEF In
  <1>3. \A s \in Statuses : Measuring!Result(s) = Cardinality(In({s}))
    <2> SUFFICES ASSUME NEW s \in Statuses PROVE Measuring!Result(s) = Cardinality(In({s}))
      OBVIOUS
    <2>1. /\ s \notin {"events_total", "receipts_total"} /\ s # "receipts_in_window"
          /\ s # "head" /\ s # "anchored" /\ s # "deferred"
      BY DEF Statuses
    <2>2. s \in Measuring!Statuses
      BY MetricsReadTables
    <2>3. Measuring!Result(s) = Measuring!Cardinality({j \in Measuring!JobIds : jobs[j] = s})
      BY <2>1, <2>2 DEF Measuring!Result
    <2> QED
      BY <1>2, <2>3, CountingIsTheSame
  <1>4. ASSUME NEW s, s \in {"anchored", "deferred"}
        PROVE  Measuring!Result(s) = Measuring!Cardinality(Measuring!AnchorRows(s = "deferred"))
    <2>1. /\ s \notin {"events_total", "receipts_total"} /\ s # "receipts_in_window" /\ s # "head"
          /\ s = "anchored" <=> s # "deferred"
          /\ s \notin Measuring!Statuses
      BY <1>4 DEF Measuring!Statuses
    <2>2. CASE s = "anchored"
      <3>1. (s = "deferred") = FALSE
        BY <2>2
      <3>2. Measuring!Result(s) = Measuring!Cardinality(Measuring!AnchorRows(FALSE))
        BY <2>1, <2>2 DEF Measuring!Result
      <3> QED
        BY <3>1, <3>2
    <2>3. CASE s = "deferred"
      <3>1. (s = "deferred") = TRUE
        BY <2>3
      <3>2. Measuring!Result(s) = Measuring!Cardinality(Measuring!AnchorRows(TRUE))
        BY <2>1, <2>3 DEF Measuring!Result
      <3> QED
        BY <3>1, <3>2
    <2> QED
      BY <1>4, <2>2, <2>3
  <1>5. ASSUME NEW s, s = "receipts_in_window"
        PROVE  Measuring!Result(s)
                   = Measuring!Cardinality(Measuring!SignedWithin(window.from, window.to))
    <2>1. /\ s \notin {"events_total", "receipts_total"}
          /\ s # "head" /\ s # "anchored" /\ s # "deferred" /\ s \notin Measuring!Statuses
      BY <1>5 DEF Measuring!Statuses
    <2> QED
      BY <1>5, <2>1 DEF Measuring!Result
  <1>6. ASSUME NEW s, s \in {"events_total", "receipts_total"}
        PROVE  Measuring!Result(s) = Len(receipts)
    <2>1. /\ s # "receipts_in_window" /\ s # "head" /\ s # "anchored" /\ s # "deferred"
          /\ s \notin Measuring!Statuses
      BY <1>6 DEF Measuring!Statuses
    <2> QED
      BY <1>6, <2>1 DEF Measuring!Result
  <1>7. ASSUME NEW s, s = "head"
        PROVE  Measuring!Result(s) = IF receipts = <<>> THEN None ELSE Len(receipts) - 1
    <2>1. /\ s \notin {"events_total", "receipts_total"} /\ s # "receipts_in_window"
          /\ s # "anchored" /\ s # "deferred" /\ s \notin Measuring!Statuses
      BY <1>7 DEF Measuring!Statuses
    <2> QED
      BY <1>7, <2>1 DEF Measuring!Result
  <1> QED
    BY <1>1, <1>3, <1>4, <1>5, <1>6, <1>7, CountingIsTheSame, MetricsReadTables

\* A statement has run when the run is that long.
LEMMA StatementsHaveRun ==
    ASSUME NEW n \in 0 .. 10
    PROVE  \A k \in 1 .. 10 : Measuring!Statements[k] \in Run(n) <=> k <= n
  <1> SUFFICES ASSUME NEW k \in 1 .. 10
               PROVE  Measuring!Statements[k] \in Run(n) <=> k <= n
    OBVIOUS
  <1>1. ASSUME k <= n PROVE Measuring!Statements[k] \in Run(n)
    <2>1. k \in 1 .. n
      BY <1>1
    <2> QED
      BY <2>1 DEF Run
  <1>2. ASSUME Measuring!Statements[k] \in Run(n) PROVE k <= n
    <2>1. PICK j \in 1 .. n : Measuring!Statements[j] = Measuring!Statements[k]
      BY <1>2 DEF Run
    <2>2. j \in 1 .. 10
      OBVIOUS
    <2> QED
      BY <2>1, <2>2, StatementsDiffer
  <1> QED
    BY <1>1, <1>2

LEMMA RunOfFigures ==
    ASSUME NEW n \in 0 .. 10
    PROVE  /\ "events_total" \in Run(n) <=> 1 <= n
           /\ "receipts_total" \in Run(n) <=> 2 <= n
           /\ "receipts_in_window" \in Run(n) <=> 3 <= n
           /\ "head" \in Run(n) <=> 4 <= n
           /\ "anchored" \in Run(n) <=> 5 <= n
           /\ "pending" \in Run(n) <=> 7 <= n
           /\ "running" \in Run(n) <=> 8 <= n
           /\ "completed" \in Run(n) <=> 9 <= n
           /\ "failed" \in Run(n) <=> 10 <= n
  <1>1. /\ 1 \in 1 .. 10 /\ 2 \in 1 .. 10 /\ 3 \in 1 .. 10 /\ 4 \in 1 .. 10 /\ 5 \in 1 .. 10
        /\ 7 \in 1 .. 10 /\ 8 \in 1 .. 10 /\ 9 \in 1 .. 10 /\ 10 \in 1 .. 10
    OBVIOUS
  <1> QED
    BY <1>1, StatementsHaveRun, StatementsInOrder

\* What has been read is a number, whatever was read before it too.
LEMMA FiguresAreNumbers ==
    ASSUME MeasureInv
    PROVE  /\ \A name \in {"events_total", "receipts_total", "receipts_in_window", "anchored",
                           "pending", "running", "completed", "failed"} :
                  Has(name) => tally[name] \in Nat
           /\ Has("head") => tally["head"] \in Nat \cup {None}
           /\ Has("head") => Has("receipts_total")
           /\ Has("receipts_total") => Has("events_total")
           /\ Has("running") => Has("pending")
           /\ Has("completed") => Has("running")
           /\ Has("failed") => Has("completed")
  <1>1. PICK n \in 0 .. 10 : DOMAIN tally = Run(n)
    BY DEF MeasureInv
  <1>2. \A name \in DOMAIN tally : tally[name] \in Nat \cup {None} /\ (name # "head" => tally[name] \in Nat)
    BY DEF MeasureInv
  <1>3. \A name \in {"events_total", "receipts_total", "receipts_in_window", "anchored",
                     "pending", "running", "completed", "failed"} : name # "head"
    OBVIOUS
  <1> QED
    BY <1>1, <1>2, <1>3, RunOfFigures DEF Has

LEMMA JobsAreCounted ==
    ASSUME NEW S
    PROVE  /\ In(S) \in SUBSET JobIds /\ IsFiniteSet(In(S)) /\ Cardinality(In(S)) \in Nat
           /\ Measuring!Existed \in SUBSET JobIds
           /\ Left(S) \in Nat /\ Cardinality(Measuring!Existed) \in Nat
  <1>1. In(S) \in SUBSET JobIds /\ Measuring!Existed \in SUBSET JobIds
    BY MetricsReadTables DEF In, Measuring!Existed
  <1>2. Measuring!Existed \cap In(S) \in SUBSET JobIds
    BY <1>1
  <1> QED
    BY <1>1, <1>2, JobIdsAreFinite, PartsAreCounted DEF Left

LEMMA JobsAreCountedThen ==
    ASSUME NEW S
    PROVE  Cardinality(In(S)') \in Nat /\ Left(S)' \in Nat
  <1>1. PICK T : T = In(S)'
    OBVIOUS
  <1>2. PICK E : E = Measuring!Existed'
    OBVIOUS
  <1>3. T \in SUBSET JobIds /\ E \cap T \in SUBSET JobIds
    BY <1>1 DEF In, JobIds
  <1>4. Cardinality(T) \in Nat /\ Cardinality(E \cap T) \in Nat
    BY <1>3, JobIdsAreFinite, PartsAreCounted
  <1> QED
    BY <1>1, <1>2, <1>4 DEF Left

\* The jobs that have left a status stay out of it.
LEMMA JobsGoOn ==
    ASSUME TablesTypeOK, Grown, TablesTypeOK', start' = start
    PROVE  /\ Measuring!Existed' = Measuring!Existed
           /\ \A S \in {{"running", "completed", "failed"}, {"completed", "failed"},
                        {"completed"}, {"failed"}} :
                  /\ Left(S) <= Left(S)'
                  /\ Cardinality(In(S)) <= Cardinality(In(S)')
  <1> DEFINE later == {{"running", "completed", "failed"}, {"completed", "failed"},
                       {"completed"}, {"failed"}}
  <1>1. Measuring!Existed' = Measuring!Existed
    BY DEF Measuring!Existed, Measuring!JobIds
  <1>2. \A S \in later : \A j \in JobIds : jobs[j] \in S => jobs'[j] \in S
    <2> SUFFICES ASSUME NEW S \in later, NEW j \in JobIds, jobs[j] \in S
                 PROVE  jobs'[j] \in S
      OBVIOUS
    <2>1. S \subseteq {"running", "completed", "failed"} /\ ("running" \in S => S = {"running", "completed", "failed"})
      OBVIOUS
    <2>2. jobs[j] \in Statuses /\ jobs[j] # "pending"
      BY <2>1 DEF Statuses
    <2>3. \/ jobs'[j] = jobs[j]
          \/ jobs[j] = "running" /\ jobs'[j] \in {"completed", "failed"}
      BY <2>2, ReadersConstants DEF Grown
    <2> QED
      BY <2>1, <2>3
  <1> HIDE DEF later
  <1>3. \A S \in later : In(S) \subseteq In(S)'
    BY <1>2 DEF In, JobIds
  <1>4. ASSUME NEW S \in later
        PROVE  Left(S) <= Left(S)' /\ Cardinality(In(S)) <= Cardinality(In(S)')
    <2>1. PICK T : T = In(S)'
      OBVIOUS
    <2>2. T \in SUBSET JobIds
      BY <2>1 DEF In, JobIds
    <2>3. IsFiniteSet(T) /\ In(S) \in SUBSET T
      BY <1>3, <2>1, <2>2, JobIdsAreFinite, PartsAreCounted
    <2>4. Cardinality(In(S)) <= Cardinality(T)
      BY <2>3, PartsAreCounted
    <2>5. IsFiniteSet(Measuring!Existed \cap T)
          /\ Measuring!Existed \cap In(S) \in SUBSET (Measuring!Existed \cap T)
      BY <2>2, <2>3, JobIdsAreFinite, PartsAreCounted
    <2>6. Cardinality(Measuring!Existed \cap In(S)) <= Cardinality(Measuring!Existed \cap T)
      BY <2>5, PartsAreCounted
    <2>7. Left(S)' = Cardinality(Measuring!Existed \cap T) /\ Cardinality(In(S)') = Cardinality(T)
      BY <1>1, <2>1 DEF Left
    <2> QED
      BY <2>4, <2>6, <2>7 DEF Left
  <1> QED
    BY <1>1, <1>4 DEF later

\* The writers do not disturb what has been counted.
LEMMA JobsStand ==
    ASSUME TablesTypeOK, Grown, TablesTypeOK', MeasureInv, JobsFit, UNCHANGED measuring
    PROVE  JobsFit'
  <1>1. window' = window /\ tally' = tally /\ start' = start
    BY DEF measuring
  <1>2. PICK all : all = Cardinality(Measuring!Existed)
    OBVIOUS
  <1>3. PICK r, r1 : r = Left({"running", "completed", "failed"})
                     /\ r1 = Left({"running", "completed", "failed"})'
    OBVIOUS
  <1>4. PICK c, c1 : c = Left({"completed", "failed"}) /\ c1 = Left({"completed", "failed"})'
    OBVIOUS
  <1>5. PICK f, f1 : f = Left({"failed"}) /\ f1 = Left({"failed"})'
    OBVIOUS
  <1>6. PICK i, i1 : i = Cardinality(In({"completed"})) /\ i1 = Cardinality(In({"completed"}))'
    OBVIOUS
  <1>7. PICK e, e1 : e = Cardinality(In({"completed", "failed"}))
                     /\ e1 = Cardinality(In({"completed", "failed"}))'
    OBVIOUS
  <1>8. all = Cardinality(Measuring!Existed)' /\ r <= r1 /\ c <= c1 /\ f <= f1 /\ i <= i1 /\ e <= e1
    BY <1>1, <1>2, <1>3, <1>4, <1>5, <1>6, <1>7, JobsGoOn
  <1>9. /\ all \in Nat /\ r \in Nat /\ c \in Nat /\ f \in Nat /\ i \in Nat /\ e \in Nat
        /\ r1 \in Nat /\ c1 \in Nat /\ f1 \in Nat /\ i1 \in Nat /\ e1 \in Nat
    <2>1. r \in Nat /\ c \in Nat /\ f \in Nat /\ i \in Nat /\ e \in Nat /\ all \in Nat
      BY <1>2, <1>3, <1>4, <1>5, <1>6, <1>7, JobsAreCounted
    <2> QED
      BY <2>1, <1>3, <1>4, <1>5, <1>6, <1>7, JobsAreCountedThen
  <1>10. /\ \A name \in {"pending", "running", "completed", "failed"} : Has(name) => tally[name] \in Nat
         /\ Has("running") => Has("pending")
         /\ Has("completed") => Has("running")
         /\ Has("failed") => Has("completed")
    BY FiguresAreNumbers
  <1>11. /\ Has("pending") => all <= tally["pending"] + r
         /\ Has("running") => all <= tally["pending"] + tally["running"] + c
         /\ Has("completed") =>
                all <= tally["pending"] + tally["running"] + tally["completed"] + f
                /\ tally["completed"] <= i
         /\ Has("failed") =>
                /\ all <= tally["pending"] + tally["running"] + tally["completed"] + tally["failed"]
                /\ tally["completed"] + tally["failed"] <= e
    BY <1>2, <1>3, <1>4, <1>5, <1>6, <1>7 DEF JobsFit
  <1>12. /\ Has("pending") => all <= tally["pending"] + r1
         /\ Has("running") => all <= tally["pending"] + tally["running"] + c1
         /\ Has("completed") =>
                all <= tally["pending"] + tally["running"] + tally["completed"] + f1
                /\ tally["completed"] <= i1
         /\ Has("failed") =>
                /\ all <= tally["pending"] + tally["running"] + tally["completed"] + tally["failed"]
                /\ tally["completed"] + tally["failed"] <= e1
    BY <1>8, <1>9, <1>10, <1>11
  <1>13. \A name : Has(name)' <=> Has(name)
    BY <1>1 DEF Has
  <1> QED
    BY <1>1, <1>3, <1>4, <1>5, <1>6, <1>7, <1>8, <1>12, <1>13 DEF JobsFit

LEMMA StartStands ==
    ASSUME TablesTypeOK, Grown, TablesTypeOK', StartFits, start' = start
    PROVE  StartFits'
  <1>1. Len(receipts) \in Nat /\ Len(receipts') \in Nat /\ Len(receipts) <= Len(receipts')
    BY DEF TablesTypeOK, Grown
  <1>2. start'.receipts \in 0 .. Len(receipts')
    BY <1>1 DEF StartFits
  <1>3. \A d \in Days : anchors[d] \notin {None, Deferred} => anchors'[d] \notin {None, Deferred}
    BY DEF Grown
  <1>4. \A j \in JobIds : jobs[j] # None => jobs'[j] # None
    BY DEF Grown
  <1> QED
    BY <1>2, <1>3, <1>4 DEF StartFits, Days, DayOf, AnchorRow, Positions, JobIds, Statuses, Deferred

LEMMA ReceiptsStand ==
    ASSUME TablesTypeOK, Grown, TablesTypeOK', MeasureInv, StartFits, ReceiptsFit,
           UNCHANGED measuring
    PROVE  ReceiptsFit'
  <1>1. window' = window /\ tally' = tally /\ start' = start
    BY DEF measuring
  <1>2. Len(receipts) \in Nat /\ Len(receipts') \in Nat /\ Len(receipts) <= Len(receipts')
    BY DEF TablesTypeOK, Grown
  <1>3. start.receipts \in Nat /\ start.receipts <= Len(receipts)
    BY <1>2 DEF StartFits
  <1>4. SignedWithin(window.from, window.to)' \cap (0 .. start.receipts - 1)
            = SignedWithin(window.from, window.to) \cap (0 .. start.receipts - 1)
    <2>1. PICK f, t : f = window.from /\ t = window.to
      OBVIOUS
    <2>2. SignedWithin(f, t) \subseteq SignedWithin(f, t)'
      BY WindowsGrow
    <2>3. \A i \in SignedWithin(f, t)' : i < Len(receipts) => i \in SignedWithin(f, t)
      BY WindowsGrow
    <2>4. \A i \in 0 .. start.receipts - 1 : i < Len(receipts)
      BY <1>2, <1>3
    <2>5. SignedWithin(window.from, window.to)' = SignedWithin(f, t)'
      BY <1>1, <2>1 DEF SignedWithin
    <2> QED
      BY <2>1, <2>2, <2>3, <2>4, <2>5
  <1>5. /\ Has("events_total") => tally["events_total"] \in Nat
        /\ Has("receipts_total") => tally["receipts_total"] \in Nat
    BY FiguresAreNumbers
  <1>6. \A name : Has(name)' <=> Has(name)
    BY <1>1 DEF Has
  <1>7. /\ Has("events_total") =>
               start.receipts <= tally["events_total"] /\ tally["events_total"] <= Len(receipts')
        /\ Has("receipts_total") =>
               /\ tally["events_total"] <= tally["receipts_total"]
               /\ tally["receipts_total"] <= Len(receipts')
    BY <1>2, <1>5 DEF ReceiptsFit
  <1> QED
    BY <1>1, <1>4, <1>6, <1>7 DEF ReceiptsFit

\* The writers do not disturb a metrics request.
LEMMA MeasureStands ==
    ASSUME TablesTypeOK, Grown, TablesTypeOK', MeasureInv, UNCHANGED measuring
    PROVE  MeasureInv'
  <1>1. window' = window /\ tally' = tally /\ start' = start
    BY DEF measuring
  <1>2. \A n : Run(n)' = Run(n)
    BY DEF Run, Measuring!Statements
  <1>3. window # None => StartFits' /\ ReceiptsFit' /\ JobsFit'
    BY <1>1, StartStands, ReceiptsStand, JobsStand DEF MeasureInv
  <1>4. AnchorsFit => AnchorsFit'
    BY <1>1 DEF AnchorsFit, Has, Days, DayOf, Deferred
  <1> QED
    BY <1>1, <1>2, <1>3, <1>4 DEF MeasureInv

LEMMA RequestsStart ==
    ASSUME TablesTypeOK, MeasureInv, UNCHANGED tables,
           NEW w \in {v \in [from : Instants, to : Instants] : v.from < v.to}, Measuring!Ask(w)
    PROVE  MeasureInv'
  <1>1. /\ window = None /\ window' = w /\ tally' = tally
        /\ start' = [receipts |-> Len(receipts), anchors |-> anchors, jobs |-> jobs]
        /\ receipts' = receipts /\ anchors' = anchors /\ jobs' = jobs
    BY DEF Measuring!Ask, tables
  <1>2. DOMAIN tally' = {} /\ \A n : Run(n)' = Run(n)
    BY <1>1 DEF MeasureInv, Run, Measuring!Statements
  <1>3. \A name : ~ Has(name)'
    BY <1>2 DEF Has
  <1>4. ReceiptsFit' /\ AnchorsFit' /\ JobsFit'
    BY <1>3 DEF ReceiptsFit, AnchorsFit, JobsFit
  <1>5. StartFits'
    <2>1. Len(receipts') \in Nat /\ start'.receipts = Len(receipts')
      BY <1>1 DEF TablesTypeOK
    <2>2. start'.anchors = anchors' /\ start'.jobs = jobs'
      BY <1>1
    <2>3. anchors' \in [Days' -> AnchorRow' \cup {None}] /\ jobs' \in [JobIds' -> Statuses' \cup {None}]
      BY TablesStay DEF TablesTypeOK
    <2> QED
      BY <2>1, <2>2, <2>3 DEF StartFits
  <1>6. \E n \in 0 .. 10 : DOMAIN tally' = Run(n)'
    BY <1>1, <1>2 DEF MeasureInv
  <1> QED
    BY <1>1, <1>2, <1>4, <1>5, <1>6 DEF MeasureInv

\* The jobs of S are among those of A and B.
LEMMA JobsAreDivided ==
    ASSUME NEW E \in SUBSET JobIds, NEW F \in SUBSET JobIds, NEW A \in SUBSET JobIds,
           E \subseteq A \cup F
    PROVE  Cardinality(E) <= Cardinality(A) + Cardinality(F)
  <1>1. IsFiniteSet(E) /\ IsFiniteSet(A) /\ IsFiniteSet(F) /\ IsFiniteSet(A \cap F)
        /\ IsFiniteSet(A \cup F)
    <2>1. A \cap F \in SUBSET JobIds /\ A \cup F \in SUBSET JobIds
      OBVIOUS
    <2> QED
      BY <2>1, JobIdsAreFinite, PartsAreCounted
  <1>2. Cardinality(A \cup F) = Cardinality(A) + Cardinality(F) - Cardinality(A \cap F)
    BY <1>1, FS_Union
  <1>3. Cardinality(E) <= Cardinality(A \cup F)
    BY <1>1, PartsAreCounted
  <1>4. /\ Cardinality(E) \in Nat /\ Cardinality(A) \in Nat /\ Cardinality(F) \in Nat
        /\ Cardinality(A \cap F) \in Nat
    BY <1>1, FS_CardinalityType
  <1> QED
    BY <1>2, <1>3, <1>4

\* A count of one status takes over what is no longer ahead.
LEMMA JobsAreTakenOver ==
    ASSUME TablesTypeOK, StartFits
    PROVE  /\ Cardinality(Measuring!Existed)
                  <= Cardinality(In({"pending"})) + Left({"running", "completed", "failed"})
           /\ Left({"running", "completed", "failed"})
                  <= Cardinality(In({"running"})) + Left({"completed", "failed"})
           /\ Left({"completed", "failed"}) <= Cardinality(In({"completed"})) + Left({"failed"})
           /\ Left({"failed"}) <= Cardinality(In({"failed"}))
           /\ Cardinality(In({"completed"})) + Cardinality(In({"failed"}))
                  = Cardinality(In({"completed", "failed"}))
  <1> DEFINE E == Measuring!Existed
  <1>1. \A j \in E : j \in JobIds /\ jobs[j] \in Statuses
    <2> SUFFICES ASSUME NEW j \in E PROVE j \in JobIds /\ jobs[j] \in Statuses
      OBVIOUS
    <2>1. j \in JobIds /\ start.jobs[j] # None
      BY MetricsReadTables DEF Measuring!Existed
    <2>2. jobs[j] # None /\ jobs[j] \in Statuses \cup {None}
      BY <2>1 DEF StartFits, TablesTypeOK
    <2> QED
      BY <2>1, <2>2
  <1>2. E \in SUBSET JobIds /\ \A S : In(S) \in SUBSET JobIds /\ E \cap In(S) \in SUBSET JobIds
    BY <1>1, JobsAreCounted
  <1> HIDE DEF E
  <1>3. E \subseteq In({"pending"}) \cup (E \cap In({"running", "completed", "failed"}))
    BY <1>1 DEF In, Statuses
  <1>4. E \cap In({"running", "completed", "failed"})
            \subseteq In({"running"}) \cup (E \cap In({"completed", "failed"}))
    BY DEF In
  <1>5. E \cap In({"completed", "failed"}) \subseteq In({"completed"}) \cup (E \cap In({"failed"}))
    BY DEF In
  <1>6. Cardinality(E \cap In({"failed"})) <= Cardinality(In({"failed"}))
    BY JobsAreCounted, PartsAreCounted
  <1>7. Cardinality(In({"completed"})) + Cardinality(In({"failed"}))
            = Cardinality(In({"completed", "failed"}))
    <2>1. In({"completed"}) \cup In({"failed"}) = In({"completed", "failed"})
      BY DEF In
    <2>2. In({"completed"}) \cap In({"failed"}) = {}
      BY DEF In
    <2>3. Cardinality(In({"completed"}) \cup In({"failed"}))
              = Cardinality(In({"completed"})) + Cardinality(In({"failed"}))
                - Cardinality(In({"completed"}) \cap In({"failed"}))
      BY JobsAreCounted, FS_Union
    <2>4. Cardinality(In({"completed"})) \in Nat /\ Cardinality(In({"failed"})) \in Nat
      BY JobsAreCounted
    <2>5. Cardinality(In({"completed"}) \cap In({"failed"})) = 0
      BY <2>2, FS_EmptySet
    <2>6. PICK c, f : c = Cardinality(In({"completed"})) /\ f = Cardinality(In({"failed"}))
      OBVIOUS
    <2>7. Cardinality(In({"completed", "failed"})) = c + f - 0
      BY <2>1, <2>3, <2>5, <2>6
    <2>8. c + f - 0 = c + f
      BY <2>4, <2>6
    <2> QED
      BY <2>6, <2>7, <2>8
  <1>8. Cardinality(E)
            <= Cardinality(In({"pending"})) + Cardinality(E \cap In({"running", "completed", "failed"}))
    BY <1>2, <1>3, JobsAreDivided
  <1>9. Cardinality(E \cap In({"running", "completed", "failed"}))
            <= Cardinality(In({"running"})) + Cardinality(E \cap In({"completed", "failed"}))
    BY <1>2, <1>4, JobsAreDivided
  <1>10. Cardinality(E \cap In({"completed", "failed"}))
             <= Cardinality(In({"completed"})) + Cardinality(E \cap In({"failed"}))
    BY <1>2, <1>5, JobsAreDivided
  <1> QED
    BY <1>6, <1>7, <1>8, <1>9, <1>10 DEF E, Left

\* One more statement has run, and found the tables as they are.
StatementRun(n) ==
    /\ window # None /\ window' = window /\ start' = start
    /\ DOMAIN tally = Run(n) /\ DOMAIN tally' = Run(n + 1)
    /\ \A k \in 1 .. 10 :
           /\ k = n + 1 => tally'[Measuring!Statements[k]] = Measuring!Result(Measuring!Statements[k])
           /\ k <= n => tally'[Measuring!Statements[k]] = tally[Measuring!Statements[k]]

LEMMA StatementsAreRun ==
    ASSUME MeasureInv, Measuring!RunStatement
    PROVE  \E n \in 0 .. 9 : StatementRun(n)
  <1>1. /\ window # None /\ window' = window /\ start' = start
        /\ \E n \in 0 .. 9 :
               /\ DOMAIN tally = Run(n) /\ DOMAIN tally' = Run(n + 1)
               /\ Run(n + 1) = Run(n) \cup {Measuring!Statements[n + 1]}
               /\ tally'[Measuring!Statements[n + 1]] = Measuring!Result(Measuring!Statements[n + 1])
               /\ \A name \in Run(n) :
                      name # Measuring!Statements[n + 1] /\ tally'[name] = tally[name]
    BY StatementsRun
  <1>2. PICK n \in 0 .. 9 :
            /\ DOMAIN tally = Run(n) /\ DOMAIN tally' = Run(n + 1)
            /\ tally'[Measuring!Statements[n + 1]] = Measuring!Result(Measuring!Statements[n + 1])
            /\ \A name \in Run(n) : tally'[name] = tally[name]
    BY <1>1
  <1>3. \A k \in 1 .. 10 : k <= n => Measuring!Statements[k] \in Run(n)
    BY StatementsHaveRun
  <1> QED
    BY <1>1, <1>2, <1>3 DEF StatementRun

LEMMA FiguresOfRun ==
    ASSUME NEW n \in 0 .. 9, StatementRun(n)
    PROVE  /\ n = 0 => tally'["events_total"] = Measuring!Result("events_total")
           /\ n = 1 => tally'["receipts_total"] = Measuring!Result("receipts_total")
           /\ n = 2 => tally'["receipts_in_window"] = Measuring!Result("receipts_in_window")
           /\ n = 3 => tally'["head"] = Measuring!Result("head")
           /\ n = 4 => tally'["anchored"] = Measuring!Result("anchored")
           /\ n = 5 => tally'["deferred"] = Measuring!Result("deferred")
           /\ n = 6 => tally'["pending"] = Measuring!Result("pending")
           /\ n = 7 => tally'["running"] = Measuring!Result("running")
           /\ n = 8 => tally'["completed"] = Measuring!Result("completed")
           /\ n = 9 => tally'["failed"] = Measuring!Result("failed")
           /\ n >= 1 => tally'["events_total"] = tally["events_total"]
           /\ n >= 2 => tally'["receipts_total"] = tally["receipts_total"]
           /\ n >= 3 => tally'["receipts_in_window"] = tally["receipts_in_window"]
           /\ n >= 4 => tally'["head"] = tally["head"]
           /\ n >= 5 => tally'["anchored"] = tally["anchored"]
           /\ n >= 7 => tally'["pending"] = tally["pending"]
           /\ n >= 8 => tally'["running"] = tally["running"]
           /\ n >= 9 => tally'["completed"] = tally["completed"]
  <1>1. \A k \in 1 .. 10 :
            /\ k = n + 1 => tally'[Measuring!Statements[k]] = Measuring!Result(Measuring!Statements[k])
            /\ k <= n => tally'[Measuring!Statements[k]] = tally[Measuring!Statements[k]]
    BY DEF StatementRun
  <1>2. /\ 1 \in 1 .. 10 /\ 2 \in 1 .. 10 /\ 3 \in 1 .. 10 /\ 4 \in 1 .. 10 /\ 5 \in 1 .. 10
        /\ 6 \in 1 .. 10 /\ 7 \in 1 .. 10 /\ 8 \in 1 .. 10 /\ 9 \in 1 .. 10 /\ 10 \in 1 .. 10
    OBVIOUS
  <1> QED
    BY <1>1, <1>2, StatementsInOrder

LEMMA ReceiptsAreCounted ==
    ASSUME TablesTypeOK, MeasureInv, UNCHANGED tables, NEW n \in 0 .. 9, StatementRun(n)
    PROVE  ReceiptsFit'
  <1>1. /\ StartFits /\ ReceiptsFit /\ window' = window /\ start' = start
        /\ \A name : (Has(name) <=> name \in Run(n)) /\ (Has(name)' <=> name \in Run(n + 1))
        /\ receipts' = receipts /\ n + 1 \in 0 .. 10
    BY DEF MeasureInv, StatementRun, Has, tables
  <1>2. PICK len : len = Len(receipts)
    OBVIOUS
  <1>3. len \in Nat /\ start.receipts \in 0 .. len
    BY <1>1, <1>2 DEF TablesTypeOK, StartFits
  <1>4. SignedWithin(window.from, window.to)' = SignedWithin(window.from, window.to)
    BY <1>1 DEF SignedWithin, Committed, SignedAt
  <1>5. PICK within : within = SignedWithin(window.from, window.to) \cap (0 .. start.receipts - 1)
    OBVIOUS
  <1>6. Cardinality(within) <= Cardinality(SignedWithin(window.from, window.to))
    BY <1>5, WindowsAreFinite, PartsAreCounted
  <1>7. /\ Measuring!Result("events_total") = len /\ Measuring!Result("receipts_total") = len
        /\ Measuring!Result("receipts_in_window") = Cardinality(SignedWithin(window.from, window.to))
        /\ Measuring!Result("head") = IF receipts = <<>> THEN None ELSE len - 1
    BY <1>2, Results
  <1>8. /\ "events_total" \in Run(n) =>
               start.receipts <= tally["events_total"] /\ tally["events_total"] <= len
        /\ "receipts_total" \in Run(n) =>
               tally["events_total"] <= tally["receipts_total"] /\ tally["receipts_total"] <= len
        /\ "receipts_in_window" \in Run(n) => Cardinality(within) <= tally["receipts_in_window"]
        /\ "head" \in Run(n) =>
               tally["receipts_total"] <= IF tally["head"] = None THEN 0 ELSE tally["head"] + 1
    BY <1>1, <1>2, <1>5 DEF ReceiptsFit
  <1>9. "events_total" \in Run(n + 1) =>
            start.receipts <= tally'["events_total"] /\ tally'["events_total"] <= len
    BY <1>1, <1>3, <1>7, <1>8, RunOfFigures, FiguresOfRun
  <1>10. "receipts_total" \in Run(n + 1) =>
             tally'["events_total"] <= tally'["receipts_total"] /\ tally'["receipts_total"] <= len
    BY <1>1, <1>3, <1>7, <1>8, RunOfFigures, FiguresOfRun
  <1>11. "receipts_in_window" \in Run(n + 1) => Cardinality(within) <= tally'["receipts_in_window"]
    BY <1>1, <1>6, <1>7, <1>8, RunOfFigures, FiguresOfRun
  <1>12. "head" \in Run(n + 1) =>
             tally'["receipts_total"] <= IF tally'["head"] = None THEN 0 ELSE tally'["head"] + 1
    <2>1. CASE n = 3
      <3>1. tally'["receipts_total"] = tally["receipts_total"] /\ tally["receipts_total"] <= len
        BY <1>1, <1>8, <2>1, RunOfFigures, FiguresOfRun
      <3>2. tally'["head"] = IF receipts = <<>> THEN None ELSE len - 1
        BY <1>7, <2>1, FiguresOfRun
      <3>3. receipts = <<>> => len = 0
        BY <1>2
      <3>4. receipts # <<>> => tally'["head"] \in Nat /\ tally'["head"] + 1 = len
        BY <1>2, <1>3, <3>2
      <3> QED
        BY <3>1, <3>2, <3>3, <3>4, ReadersConstants
    <2>2. CASE n # 3
      <3>1. "head" \in Run(n + 1) => n >= 4 /\ "head" \in Run(n)
        BY <1>1, <2>2, RunOfFigures
      <3>2. n >= 4 => tally'["head"] = tally["head"] /\ tally'["receipts_total"] = tally["receipts_total"]
        BY FiguresOfRun
      <3> QED
        BY <1>8, <3>1, <3>2
    <2> QED
      BY <2>1, <2>2
  <1> QED
    BY <1>1, <1>2, <1>4, <1>5, <1>9, <1>10, <1>11, <1>12 DEF ReceiptsFit

LEMMA JobsAreTallied ==
    ASSUME TablesTypeOK, MeasureInv, UNCHANGED tables, NEW n \in 0 .. 9, StatementRun(n)
    PROVE  JobsFit'
  <1>1. /\ StartFits /\ JobsFit /\ start' = start /\ jobs' = jobs /\ n + 1 \in 0 .. 10
        /\ \A name : (Has(name) <=> name \in Run(n)) /\ (Has(name)' <=> name \in Run(n + 1))
    BY DEF MeasureInv, StatementRun, Has, tables
  <1>2. PICK p, r, c, f : /\ p = Cardinality(In({"pending"})) /\ r = Cardinality(In({"running"}))
                          /\ c = Cardinality(In({"completed"})) /\ f = Cardinality(In({"failed"}))
    OBVIOUS
  <1>3. PICK all, rcf, cf, ff, ended :
            /\ all = Cardinality(Measuring!Existed)
            /\ rcf = Left({"running", "completed", "failed"})
            /\ cf = Left({"completed", "failed"}) /\ ff = Left({"failed"})
            /\ ended = Cardinality(In({"completed", "failed"}))
    OBVIOUS
  <1>4. /\ p \in Nat /\ r \in Nat /\ c \in Nat /\ f \in Nat /\ ended \in Nat
        /\ all \in Nat /\ rcf \in Nat /\ cf \in Nat /\ ff \in Nat
    BY <1>2, <1>3, JobsAreCounted
  <1>5. /\ all <= p + rcf /\ rcf <= r + cf /\ cf <= c + ff /\ ff <= f /\ c + f = ended
    BY <1>1, <1>2, <1>3, JobsAreTakenOver
  <1>6. /\ Measuring!Result("pending") = p /\ Measuring!Result("running") = r
        /\ Measuring!Result("completed") = c /\ Measuring!Result("failed") = f
    BY <1>2, Results DEF Statuses
  <1>7. /\ \A S : In(S)' = In(S) /\ Left(S)' = Left(S)
        /\ Measuring!Existed' = Measuring!Existed
    BY <1>1 DEF In, Left, JobIds, Measuring!Existed, Measuring!JobIds
  <1>8. /\ Has("pending") => tally["pending"] \in Nat
        /\ Has("running") => tally["running"] \in Nat
        /\ Has("completed") => tally["completed"] \in Nat
    BY FiguresAreNumbers
  <1>9. /\ Has("pending") => all <= tally["pending"] + rcf
        /\ Has("running") => all <= tally["pending"] + tally["running"] + cf
        /\ Has("completed") =>
               /\ all <= tally["pending"] + tally["running"] + tally["completed"] + ff
               /\ tally["completed"] <= c
    BY <1>1, <1>2, <1>3 DEF JobsFit
  <1>10. "pending" \in Run(n + 1) => all <= tally'["pending"] + rcf
    BY <1>1, <1>5, <1>6, <1>9, RunOfFigures, FiguresOfRun
  <1>11. "running" \in Run(n + 1) => all <= tally'["pending"] + tally'["running"] + cf
    <2>1. CASE n = 7
      <3>1. /\ tally'["pending"] = tally["pending"] /\ tally'["running"] = r
            /\ tally["pending"] \in Nat /\ all <= tally["pending"] + rcf
        BY <1>1, <1>6, <1>8, <1>9, <2>1, RunOfFigures, FiguresOfRun
      <3> QED
        BY <1>4, <1>5, <3>1
    <2>2. CASE n # 7
      BY <1>1, <1>9, <2>2, RunOfFigures, FiguresOfRun
    <2> QED
      BY <2>1, <2>2
  <1>12. "completed" \in Run(n + 1) =>
             /\ all <= tally'["pending"] + tally'["running"] + tally'["completed"] + ff
             /\ tally'["completed"] <= c
    <2>1. CASE n = 8
      <3>1. /\ tally'["pending"] = tally["pending"] /\ tally'["running"] = tally["running"]
            /\ tally'["completed"] = c
            /\ tally["pending"] \in Nat /\ tally["running"] \in Nat
            /\ all <= tally["pending"] + tally["running"] + cf
        BY <1>1, <1>6, <1>8, <1>9, <2>1, RunOfFigures, FiguresOfRun
      <3> QED
        BY <1>4, <1>5, <3>1
    <2>2. CASE n # 8
      BY <1>1, <1>9, <2>2, RunOfFigures, FiguresOfRun
    <2> QED
      BY <2>1, <2>2
  <1>13. "failed" \in Run(n + 1) =>
             /\ all <= tally'["pending"] + tally'["running"] + tally'["completed"] + tally'["failed"]
             /\ tally'["completed"] + tally'["failed"] <= ended
    <2>1. CASE n = 9
      <3>1. /\ tally'["pending"] = tally["pending"] /\ tally'["running"] = tally["running"]
            /\ tally'["completed"] = tally["completed"] /\ tally'["failed"] = f
            /\ tally["pending"] \in Nat /\ tally["running"] \in Nat /\ tally["completed"] \in Nat
            /\ all <= tally["pending"] + tally["running"] + tally["completed"] + ff
            /\ tally["completed"] <= c
        BY <1>1, <1>6, <1>8, <1>9, <2>1, RunOfFigures, FiguresOfRun
      <3> QED
        BY <1>4, <1>5, <3>1
    <2>2. CASE n # 9
      BY <1>1, <2>2, RunOfFigures
    <2> QED
      BY <2>1, <2>2
  <1>14. \A S : Left(S)' = Left(S) /\ In(S)' = In(S)
    BY <1>7
  <1> QED
    BY <1>1, <1>2, <1>3, <1>7, <1>10, <1>11, <1>12, <1>13, <1>14 DEF JobsFit

LEMMA AnchorsAreCounted ==
    ASSUME TablesTypeOK, MeasureInv, UNCHANGED tables, NEW n \in 0 .. 9, StatementRun(n)
    PROVE  AnchorsFit'
  <1>1. /\ StartFits /\ AnchorsFit /\ start' = start /\ n + 1 \in 0 .. 10
        /\ \A name : (Has(name) <=> name \in Run(n)) /\ (Has(name)' <=> name \in Run(n + 1))
    BY DEF MeasureInv, StatementRun, Has, tables
  <1>2. PICK before : before = {d \in Days : start.anchors[d] \notin {None, Deferred}}
    OBVIOUS
  <1>3. PICK now : now = {d \in Days : anchors[d] \notin {None, Deferred}}
    OBVIOUS
  <1>4. before \in SUBSET now /\ now \in SUBSET Days
    BY <1>1, <1>2, <1>3 DEF StartFits
  <1>5. Cardinality(before) <= Cardinality(now)
    BY <1>4, DaysAreNaturals, PartsAreCounted
  <1>6. "anchored" \in Run(n + 1) => Cardinality(before) <= tally'["anchored"]
    <2>1. CASE n = 4
      BY <1>3, <1>5, <2>1, Results, FiguresOfRun
    <2>2. CASE n # 4
      BY <1>1, <1>2, <2>2, RunOfFigures, FiguresOfRun DEF AnchorsFit
    <2> QED
      BY <2>1, <2>2
  <1>7. {d \in Days : start.anchors[d] \notin {None, Deferred}}' = before
    BY <1>1, <1>2 DEF Days, DayOf, Deferred
  <1> QED
    BY <1>1, <1>6, <1>7 DEF AnchorsFit

\* Every statement returns a count, but the head of an empty ledger.
LEMMA ResultsAreNumbers ==
    ASSUME TablesTypeOK, NEW k \in 1 .. 10
    PROVE  /\ Measuring!Result(Measuring!Statements[k]) \in Nat \cup {None}
           /\ k # 4 => Measuring!Result(Measuring!Statements[k]) \in Nat
  <1>1. Len(receipts) \in Nat /\ (receipts # <<>> => Len(receipts) - 1 \in Nat)
    BY DEF TablesTypeOK
  <1>2. Cardinality(SignedWithin(window.from, window.to)) \in Nat
    BY WindowsAreFinite, FS_CardinalityType
  <1>3. \A s \in Statuses : Measuring!Result(s) \in Nat
    BY Results, JobsAreCounted
  <1>4. {d \in Days : anchors[d] \notin {None, Deferred}} \in SUBSET Days
        /\ Measuring!AnchorRows(TRUE) \in SUBSET Days
    BY MetricsReadTables DEF Measuring!AnchorRows
  <1>5. Cardinality({d \in Days : anchors[d] \notin {None, Deferred}}) \in Nat
        /\ Cardinality(Measuring!AnchorRows(TRUE)) \in Nat
    BY <1>4, DaysAreNaturals, PartsAreCounted
  <1>6. /\ Measuring!Result("events_total") \in Nat /\ Measuring!Result("receipts_total") \in Nat
        /\ Measuring!Result("receipts_in_window") \in Nat
        /\ Measuring!Result("head") \in Nat \cup {None}
        /\ Measuring!Result("anchored") \in Nat /\ Measuring!Result("deferred") \in Nat
    BY <1>1, <1>2, <1>5, Results
  <1>7. /\ Measuring!Result("pending") \in Nat /\ Measuring!Result("running") \in Nat
        /\ Measuring!Result("completed") \in Nat /\ Measuring!Result("failed") \in Nat
    BY <1>3 DEF Statuses
  <1>8. k \in {1, 2, 3, 4, 5, 6, 7, 8, 9, 10}
    OBVIOUS
  <1> QED
    BY <1>6, <1>7, <1>8, StatementsInOrder

LEMMA MeasureSteps ==
    ASSUME TablesTypeOK, MeasureInv, Measuring!MetricsStep, UNCHANGED tables
    PROVE  MeasureInv'
  <1>1. ASSUME Measuring!RunStatement PROVE MeasureInv'
    <2>1. PICK n \in 0 .. 9 : StatementRun(n)
      BY <1>1, StatementsAreRun
    <2>2. ReceiptsFit' /\ AnchorsFit' /\ JobsFit'
      BY <2>1, ReceiptsAreCounted, AnchorsAreCounted, JobsAreTallied
    <2>3. StartFits'
      BY <2>1, TablesStay, StartStands DEF StatementRun, MeasureInv
    <2>4. n + 1 \in 0 .. 10 /\ DOMAIN tally' = Run(n + 1) /\ \A m : Run(m)' = Run(m)
      BY <2>1 DEF StatementRun, Run, Measuring!Statements
    <2>5. window' = window /\ window # None
      BY <2>1 DEF StatementRun
    <2>6. ASSUME NEW name \in DOMAIN tally'
          PROVE  tally'[name] \in Nat \cup {None} /\ (name # "head" => tally'[name] \in Nat)
      <3>1. PICK k \in 1 .. n + 1 : name = Measuring!Statements[k]
        BY <2>4, <2>6 DEF Run
      <3>2. k \in 1 .. 10 /\ (k = n + 1 \/ k <= n)
        OBVIOUS
      <3>3. CASE k = n + 1
        <4>1. tally'[name] = Measuring!Result(Measuring!Statements[k])
          BY <2>1, <3>1, <3>2, <3>3 DEF StatementRun
        <4>2. k = 4 => name = "head"
          BY <3>1, StatementsInOrder
        <4> QED
          BY <3>2, <4>1, <4>2, ResultsAreNumbers
      <3>4. CASE k <= n
        <4>1. k \in 1 .. n
          BY <3>2, <3>4
        <4>2. name \in DOMAIN tally /\ tally'[name] = tally[name]
          BY <2>1, <3>1, <3>2, <3>4, <4>1 DEF StatementRun, Run
        <4> QED
          BY <4>2 DEF MeasureInv
      <3> QED
        BY <3>2, <3>3, <3>4
    <2> QED
      BY <2>2, <2>3, <2>4, <2>5, <2>6 DEF MeasureInv
  <1> QED
    BY <1>1, RequestsStart DEF Measuring!MetricsStep

-----------------------------------------------------------------------------
(* What the invariant says of a metrics answer, and of the types *)

LEMMA CountsFit ==
    ASSUME MeasureInv
    PROVE  CountsFitTogether
  <1> SUFFICES ASSUME Measuring!Answered
               PROVE  Measuring!CountsFitTogether
    BY DEF CountsFitTogether, Measuring!CountsFitTogether
  <1>1. PICK n \in 0 .. 10 : DOMAIN tally = Run(n)
    BY DEF MeasureInv
  <1>2. n = 10
    BY <1>1, RunsAreCounted, CountingIsTheSame, StatementsInOrder DEF Measuring!Answered
  <1>3. /\ Has("events_total") /\ Has("receipts_total") /\ Has("receipts_in_window")
        /\ Has("head") /\ Has("anchored") /\ Has("failed")
    BY <1>1, <1>2, RunOfFigures DEF Has
  <1>4. window # None
    BY <1>3 DEF MeasureInv, Has
  <1>5. StartFits /\ ReceiptsFit /\ AnchorsFit /\ JobsFit
    BY <1>4 DEF MeasureInv
  <1>6. /\ start.receipts <= tally["events_total"]
        /\ tally["events_total"] <= tally["receipts_total"]
        /\ tally["receipts_total"] <= (IF tally["head"] = None THEN 0 ELSE tally["head"] + 1)
        /\ Cardinality(SignedWithin(window.from, window.to) \cap (0 .. start.receipts - 1))
               <= tally["receipts_in_window"]
    BY <1>3, <1>5 DEF ReceiptsFit
  <1>7. Cardinality({d \in Days : start.anchors[d] \notin {None, Deferred}}) <= tally["anchored"]
    BY <1>3, <1>5 DEF AnchorsFit
  <1>8. /\ Cardinality(Measuring!Existed)
               <= tally["pending"] + tally["running"] + tally["completed"] + tally["failed"]
        /\ tally["completed"] + tally["failed"] <= Cardinality(In({"completed", "failed"}))
    BY <1>3, <1>5 DEF JobsFit
  <1>9. Measuring!Ended = In({"completed", "failed"})
    BY MetricsReadTables DEF Measuring!Ended, In
  <1> QED
    BY <1>6, <1>7, <1>8, <1>9, MetricsReadTables, CountingIsTheSame
       DEF Measuring!CountsFitTogether

LEMMA ReadersTypes ==
    ASSUME ReadersInv
    PROVE  TypeOK
  <1>1. Exporting!ExportTypeOK
    <2>1. ExportTypes /\ ExportInv
      BY DEF ReadersInv, ExportInv
    <2>2. \E D \in SUBSET Exporting!Days : rows \in [D -> Exporting!AnchorRow]
      BY <2>1, ExportReadsTables DEF ExportTypes
    <2>3. ASSUME NEW k \in DOMAIN packs
          PROVE  packs[k].items \subseteq Exporting!Positions /\ packs[k].day \in Exporting!Days \cup {None}
      <3>1. packs[k] \in PackType
        BY <2>1 DEF ExportTypes
      <3> QED
        BY <3>1, ExportReadsTables DEF PackType
    <2>4. stage = "done" => reply.code \in {"200", "4xx", "413", "422", "failed"}
      BY <2>1 DEF ExportInv, BundleIsDelivered, PackIsDelivered
    <2> QED
      BY <2>1, <2>2, <2>3, <2>4, ExportReadsTables
         DEF Exporting!ExportTypeOK, ExportInv, ExportTypes
  <1>2. Listing!ListingTypeOK
    <2>1. phase = "closed" => opened.code \in {"200", "404", "406"}
      BY DEF ReadersInv, ListInv, OpenedStands
    <2> QED
      BY <2>1, CountingIsTheSame DEF ReadersInv, ListInv, Listing!ListingTypeOK, PageType
  <1>3. Measuring!MetricsTypeOK
    <2>1. \E n \in 0 .. Len(Measuring!Statements) :
              DOMAIN tally = {Measuring!Statements[k] : k \in 1 .. n}
      BY StatementsInOrder DEF ReadersInv, MeasureInv, Run
    <2> QED
      BY <2>1 DEF ReadersInv, MeasureInv, Measuring!MetricsTypeOK
  <1> QED
    BY <1>1, <1>2, <1>3 DEF ReadersInv, TypeOK

-----------------------------------------------------------------------------
(* The invariant holds *)

LEMMA ReadersStart ==
    Init => ReadersInv
  <1> SUFFICES ASSUME Init PROVE ReadersInv
    OBVIOUS
  <1>1. TablesTypeOK /\ reader \in Kinds
    BY TablesStart DEF Init
  <1>2. ExportInv
    <2>1. /\ stage = "idle" /\ ask = None /\ rows = <<>> /\ packs = <<>> /\ reply = None
      BY DEF Init, Exporting!ExportInit
    <2>2. DOMAIN rows = {} /\ rows \in [DOMAIN rows -> AnchorRow]
      BY <2>1
    <2>3. packs \in Seq(PackType)
      BY <2>1
    <2> QED
      BY <2>1, <2>2, <2>3 DEF ExportInv, ExportTypes
  <1>3. ListInv
    <2>1. /\ phase = "idle" /\ page = None /\ query = None /\ pages = <<>> /\ opened = None
      BY DEF Init, Listing!ListingInit
    <2>2. DOMAIN pages = 1 .. Len(pages) /\ Len(pages) = 0
      BY <2>1
    <2> QED
      BY <2>1, <2>2 DEF ListInv
  <1>4. MeasureInv
    <2>1. window = None /\ DOMAIN tally = {}
      BY DEF Init, Measuring!MetricsInit
    <2>2. Run(0) = {}
      BY DEF Run
    <2> QED
      BY <2>1, <2>2 DEF MeasureInv
  <1> QED
    BY <1>1, <1>2, <1>3, <1>4 DEF ReadersInv

LEMMA ReadersGoOn ==
    ReadersInv /\ [Next]_vars => ReadersInv'
  <1> SUFFICES ASSUME ReadersInv, [Next]_vars PROVE ReadersInv'
    OBVIOUS
  <1>1. TablesTypeOK /\ reader \in Kinds /\ ExportInv /\ ListInv /\ MeasureInv
    BY DEF ReadersInv
  <1>2. ASSUME UNCHANGED tables PROVE TablesTypeOK' /\ Grown
    BY <1>1, <1>2, TablesStay
  <1>3. ASSUME TablesTypeOK', Grown, UNCHANGED <<reader, exporting, listing, measuring>>
        PROVE  ReadersInv'
    <2>1. ExportInv' /\ ListInv' /\ MeasureInv'
      BY <1>1, <1>3, ExportStands, WalkStands, MeasureStands
    <2> QED
      BY <1>1, <1>3, <2>1 DEF ReadersInv, Kinds, Measures
  <1>4. CASE Write
    <2>1. TablesTypeOK' /\ Grown
      BY <1>1, <1>4, ReceiptsAreAppended, DaysAreAnchored, JobsMove DEF Write
    <2> QED
      BY <1>3, <1>4, <2>1 DEF Write
  <1>5. CASE Export
    <2>1. UNCHANGED tables /\ UNCHANGED <<reader, listing, measuring>> /\ Exporting!ExportStep
      BY <1>5 DEF Export
    <2>2. ExportInv'
      BY <1>1, <2>1, ExportSteps
    <2>3. ListInv' /\ MeasureInv'
      BY <1>1, <1>2, <2>1, WalkStands, MeasureStands
    <2> QED
      BY <1>1, <1>2, <2>1, <2>2, <2>3 DEF ReadersInv, Kinds, Measures
  <1>6. CASE List
    <2>1. UNCHANGED tables /\ UNCHANGED <<reader, exporting, measuring>> /\ Listing!ListingStep
      BY <1>6 DEF List
    <2>2. ListInv'
      BY <1>1, <2>1, ListingSteps
    <2>3. ExportInv' /\ MeasureInv'
      BY <1>1, <1>2, <2>1, ExportStands, MeasureStands
    <2> QED
      BY <1>1, <1>2, <2>1, <2>2, <2>3 DEF ReadersInv, Kinds, Measures
  <1>7. CASE Measure
    <2>1. UNCHANGED tables /\ UNCHANGED <<reader, exporting, listing>> /\ Measuring!MetricsStep
      BY <1>7 DEF Measure
    <2>2. MeasureInv'
      BY <1>1, <2>1, MeasureSteps
    <2>3. ExportInv' /\ ListInv'
      BY <1>1, <1>2, <2>1, ExportStands, WalkStands
    <2> QED
      BY <1>1, <1>2, <2>1, <2>2, <2>3 DEF ReadersInv, Kinds, Measures
  <1>8. CASE UNCHANGED vars
    BY <1>2, <1>3, <1>8 DEF vars
  <1> QED
    BY <1>4, <1>5, <1>6, <1>7, <1>8 DEF Next

\* At every moment the tables have their types and the readers' parts of the
\* invariant hold.
THEOREM ReadersInvariant ==
    Spec => []ReadersInv
  <1>1. Init => ReadersInv
    BY ReadersStart
  <1>2. ReadersInv /\ [Next]_vars => ReadersInv'
    BY ReadersGoOn
  <1> QED
    BY <1>1, <1>2, PTL DEF Spec

-----------------------------------------------------------------------------
(* The properties *)

\* Every table and every reader's variable has its type.
THEOREM ReadersTypeCorrect ==
    Spec => []TypeOK
  <1>1. ReadersInv => TypeOK
    BY ReadersTypes
  <1> QED
    BY <1>1, ReadersInvariant, PTL

\* No receipt that an export should carry is left out of it, whatever commits
\* between the statements that read it, and none is in it twice but at a
\* midnight.
THEOREM ExportsMissNothing ==
    Spec => []BundleIsComplete
  <1>1. ReadersInv => BundleIsComplete
    BY ExportsAreComplete DEF ReadersInv
  <1> QED
    BY <1>1, ReadersInvariant, PTL

\* What the anchor of a pack witnesses is in the pack, although the anchor was
\* read before the receipts.
THEOREM RootsAreInTheirPacks ==
    Spec => []RootIsInItsPack
  <1>1. ReadersInv => RootIsInItsPack
    BY RootsAreIn DEF ReadersInv
  <1> QED
    BY <1>1, ReadersInvariant, PTL

\* The seal of a bundle verifies, and fixes which parts it has and their order.
THEOREM SealsFixTheParts ==
    Spec => []SealFixesParts
  <1>1. ReadersInv => SealFixesParts
    BY SealsFix DEF ReadersInv
  <1> QED
    BY <1>1, ReadersInvariant, PTL

\* A walk to its end misses no row that was there when it began, by offset or
\* by cursor, whatever is written between its pages.
THEOREM WalksMissNothing ==
    Spec => []PagesMissNothing
  <1>1. ReadersInv => PagesMissNothing
    BY NothingIsMissed DEF ReadersInv
  <1> QED
    BY <1>1, ReadersInvariant, PTL

\* A row that was listed can be opened and has not been taken back.
THEOREM ListedRowsStand ==
    Spec => []ListedStands
  <1>1. ReadersInv => ListedStands
    BY WhatIsListedStands DEF ReadersInv
  <1> QED
    BY <1>1, ReadersInvariant, PTL

\* The figures of one metrics answer fit together although the tables change
\* between the statements that read them.
THEOREM FiguresFitTogether ==
    Spec => []CountsFitTogether
  <1>1. ReadersInv => CountsFitTogether
    BY CountsFit DEF ReadersInv
  <1> QED
    BY <1>1, ReadersInvariant, PTL
=============================================================================
