---------------------------- MODULE LedgerTables ----------------------------
(***************************************************************************)
(* The tables of one tenant that exports, listings and metrics read, and   *)
(* all that the writers ever do to them, one commit at a time: ingest      *)
(* appends receipts, anchoring adds a row for a day or replaces its        *)
(* tombstone, and export jobs move forward.  Readers hold no locks, and    *)
(* each of their statements sees what is committed by then (READ           *)
(* COMMITTED), so these steps may fall between any two statements.         *)
(*                                                                         *)
(* Module Anchoring, where receipts are signed before they commit and runs *)
(* overlap, implements the first two, and Services, where the runners of   *)
(* jobs fail and crash, the last (their properties ImplementsTables).      *)
(***************************************************************************)
EXTENDS Integers, Sequences

CONSTANTS
    None,         \* no row, no root
    DayLength,    \* clock ticks of a day; a day begins at midnight
    MaxTime,      \* bound: the last instant at which a receipt is signed
    MaxReceipts,  \* bound: receipts ever committed
    MaxJobs       \* bound: export jobs ever created

ASSUME TablesBoundsAreNaturals ==
    /\ DayLength \in Nat \ {0}
    /\ {MaxTime, MaxReceipts, MaxJobs} \subseteq Nat

VARIABLES
    receipts,  \* when each committed receipt was signed, by position
    anchors,   \* the committed row of each day
    jobs       \* the status of each export job, None before it is committed

tables == <<receipts, anchors, jobs>>

-----------------------------------------------------------------------------
Times == 0 .. MaxTime
DayOf(t) == t \div DayLength
Midnight(d) == d * DayLength
Days == 0 .. DayOf(MaxTime)
Positions == 0 .. MaxReceipts - 1

\* Jobs are numbered in the order of requested_at, which is taken before they
\* commit: a job may turn up below one that is there.
JobIds == 1 .. MaxJobs

\* A row without a root is a deferred tombstone.
AnchorRow == [root : Positions \cup {None}]
Deferred == [root |-> None]

Statuses == {"pending", "running", "completed", "failed"}

ASSUME NoneIsNothing == None \notin Nat \cup AnchorRow \cup Statuses

Committed == 0 .. Len(receipts) - 1
SignedAt(i) == receipts[i + 1]
LastSigned == IF receipts = <<>> THEN 0 ELSE receipts[Len(receipts)]

\* The positions of the receipts signed between from and to, both included.
SignedWithin(from, to) == {i \in Committed : from <= SignedAt(i) /\ SignedAt(i) <= to}

ReceiptsOfDay(d) == {i \in Committed : DayOf(SignedAt(i)) = d}

\* The days whose row is committed, and has its anchor_date within the window.
AnchoredWithin(from, to) ==
    {d \in Days : anchors[d] # None /\ from <= Midnight(d) /\ Midnight(d) <= to}

-----------------------------------------------------------------------------
TablesInit ==
    /\ receipts = <<>>
    /\ anchors = [d \in Days |-> None]
    /\ jobs = [j \in JobIds |-> None]

\* A receipt commits at the head.  It was signed after the one before it,
\* perhaps some time ago: the clock plays no other part, and is left out.
AppendReceipt ==
    /\ Len(receipts) < MaxReceipts
    /\ \E t \in LastSigned .. MaxTime : receipts' = Append(receipts, t)
    /\ UNCHANGED <<anchors, jobs>>

\* Mutant of AnchorDay: a day that is anchored is anchored again.
AnchorDayAgain(d) ==
    /\ \E x \in ReceiptsOfDay(d) \cup {None} : anchors' = [anchors EXCEPT ![d] = [root |-> x]]
    /\ UNCHANGED <<receipts, jobs>>

\* A day gets a row, or a row for its tombstone: a tombstone, or a row over a
\* receipt that was the latest of the day when the run read it.
AnchorDay(d) ==
    /\ anchors[d] \in {None, Deferred}
    /\ \E x \in ReceiptsOfDay(d) \cup {None} : anchors' = [anchors EXCEPT ![d] = [root |-> x]]
    /\ UNCHANGED <<receipts, jobs>>

CreateJob(j) ==
    /\ jobs[j] = None
    /\ jobs' = [jobs EXCEPT ![j] = "pending"]
    /\ UNCHANGED <<receipts, anchors>>

\* The runner of job j claims it, or ends it.
MoveJob(j) ==
    /\ \/ jobs[j] = "pending" /\ jobs' = [jobs EXCEPT ![j] = "running"]
       \/ /\ jobs[j] = "running"
          /\ \E s \in {"completed", "failed"} : jobs' = [jobs EXCEPT ![j] = s]
    /\ UNCHANGED <<receipts, anchors>>

WriteLedger == AppendReceipt \/ \E d \in Days : AnchorDay(d)
WriteJobs == \E j \in JobIds : CreateJob(j) \/ MoveJob(j)

TablesSpec == TablesInit /\ [][WriteLedger \/ WriteJobs]_tables

-----------------------------------------------------------------------------
(* Type invariant *)

\* Every table has its type, receipts are signed in the order of the chain, and
\* a row's root is a receipt of its day.
TablesTypeOK ==
    /\ receipts \in Seq(Times)
    /\ Len(receipts) <= MaxReceipts
    /\ \A i \in 1 .. Len(receipts) - 1 : receipts[i] <= receipts[i + 1]
    /\ anchors \in [Days -> AnchorRow \cup {None}]
    /\ \A d \in Days : anchors[d] \notin {None, Deferred} => anchors[d].root \in ReceiptsOfDay(d)
    /\ jobs \in [JobIds -> Statuses \cup {None}]
=============================================================================
