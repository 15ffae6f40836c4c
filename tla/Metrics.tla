------------------------------ MODULE Metrics ------------------------------
(***************************************************************************)
(* GET /v1/metrics: eleven SELECTs, one after the other, over tables that  *)
(* change between them.  Their order decides what the figures of one       *)
(* answer can say together.                                                *)
(*                                                                         *)
(* An event commits with its receipt, so there are as many of either.  The *)
(* events of the window are left out: they go by the client's occurred_at. *)
(* anchored_at and requested_at are taken to be within the window.         *)
(***************************************************************************)
EXTENDS LedgerTables, FiniteSets

CONSTANT Windows  \* the windows [from, to] that a request may ask for

VARIABLES
    window,  \* what was asked
    tally,   \* what has been read, by name
    start    \* the tables when the request began (history)

metrics == <<window, tally, start>>

-----------------------------------------------------------------------------
\* Mutant of Statements: the jobs are counted from their end.
StatementsJobsBackwards ==
    <<"events_total", "receipts_total", "receipts_in_window",
      "head", "anchored", "deferred", "failed", "completed", "running", "pending">>

Statements ==
    <<"events_total", "receipts_total", "receipts_in_window",
      "head", "anchored", "deferred", "pending", "running", "completed", "failed">>

AnchorRows(isDeferred) == {d \in Days : anchors[d] # None /\ (anchors[d] = Deferred <=> isDeferred)}

\* What a statement returns, by the tables as they are.
Result(name) ==
    CASE name \in {"events_total", "receipts_total"} -> Len(receipts)
      [] name = "receipts_in_window" -> Cardinality(SignedWithin(window.from, window.to))
      [] name = "head" -> IF receipts = <<>> THEN None ELSE Len(receipts) - 1
      [] name = "anchored" -> Cardinality(AnchorRows(FALSE))
      [] name = "deferred" -> Cardinality(AnchorRows(TRUE))
      [] name \in Statuses -> Cardinality({j \in JobIds : jobs[j] = name})

-----------------------------------------------------------------------------
MetricsInit ==
    /\ window = None
    /\ tally = <<>>
    /\ start = None

\* A request of the tenant's own principal, for 1 to 168 hours; any other is
\* refused here.
Ask(w) ==
    /\ window = None
    /\ window' = w
    /\ start' = [receipts |-> Len(receipts), anchors |-> anchors, jobs |-> jobs]
    /\ UNCHANGED tally

Answered == Cardinality(DOMAIN tally) = Len(Statements)

\* tally is a function from the names of the statements that have run.
RunStatement ==
    LET next == Statements[Cardinality(DOMAIN tally) + 1] IN
    /\ window # None
    /\ ~ Answered
    /\ tally' = [name \in DOMAIN tally \cup {next} |->
                     IF name = next THEN Result(name) ELSE tally[name]]
    /\ UNCHANGED <<window, start>>

MetricsStep == (\E w \in Windows : Ask(w)) \/ RunStatement

-----------------------------------------------------------------------------
(* Type invariant *)

\* Every variable has its type.
MetricsTypeOK ==
    /\ window \in Windows \cup {None}
    /\ \E n \in 0 .. Len(Statements) : DOMAIN tally = {Statements[k] : k \in 1 .. n}
    /\ \A name \in DOMAIN tally : tally[name] \in Nat \cup {None}

-----------------------------------------------------------------------------
(* Safety *)

Existed == {j \in JobIds : start.jobs[j] # None}
Ended == {j \in JobIds : jobs[j] \in {"completed", "failed"}}

\* The figures of one answer fit together although none is of the same moment:
\* no event is counted before its receipt, and no receipt before it is at or
\* below the head; every receipt of the window that was there at the start is
\* counted in it; a row that was anchored at the start is counted; every job
\* that was there at the start is counted in some status, and none is counted
\* both as completed and as failed.
CountsFitTogether ==
    Answered =>
        /\ start.receipts <= tally["events_total"]
        /\ tally["events_total"] <= tally["receipts_total"]
        /\ tally["receipts_total"] <= (IF tally["head"] = None THEN 0 ELSE tally["head"] + 1)
        /\ Cardinality(SignedWithin(window.from, window.to) \cap (0 .. start.receipts - 1))
               <= tally["receipts_in_window"]
        /\ Cardinality({d \in Days : start.anchors[d] \notin {None, Deferred}}) <= tally["anchored"]
        /\ Cardinality(Existed) <=
               tally["pending"] + tally["running"] + tally["completed"] + tally["failed"]
        /\ tally["completed"] + tally["failed"] <= Cardinality(Ended)
=============================================================================
