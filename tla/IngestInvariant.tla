-------------------------- MODULE IngestInvariant --------------------------
(***************************************************************************)
(* The inductive invariant behind the safety properties of Ingest.  Beside *)
(* what is committed it has to say what every open request knows: which    *)
(* of its data is set, that the head it read is still a committed receipt, *)
(* and that no other transaction can take what it has inserted.            *)
(***************************************************************************)
EXTENDS Ingest

HasBundle(r) == pc[r] \in {"evaluate", "head"}
HasVerdict(r) == pc[r] = "head"
HasReceipt(r) == pc[r] \in {"event", "receipt", "store", "respond", "commit"}

\* The receipt of r is built from its request and continues a committed one.
WellBuilt(r) ==
    /\ rec[r] \in Receipt
    /\ rec[r].hash = r
    /\ rec[r].tenant = req[r].tenant
    /\ rec[r].event = req[r].event
    /\ rec[r].verdict = rec[r].bundle
    /\ IF rec[r].seq = 0
       THEN rec[r].prev = None
       ELSE \E y \in receipts :
               /\ y.tenant = rec[r].tenant
               /\ y.seq = rec[r].seq - 1
               /\ y.hash = rec[r].prev

\* What is set at which step.
Progress ==
    \A r \in Requests :
        /\ pc[r] \in InFlight => req[r] \in Request
        /\ pc[r] \in {"lookup", "store"} => req[r].key \in Keys
        /\ HasBundle(r) => bundle[r] \in 1 .. MaxBundle
        /\ HasVerdict(r) => verdict[r] = bundle[r]
        /\ HasReceipt(r) => WellBuilt(r)
        /\ stored[r] =>
              DurableStore /\ pc[r] \in {"respond", "commit"} /\ req[r].key \in Keys

\* No two open transactions hold one event id or one position of a chain, and
\* what an open transaction holds is not committed by another.
Exclusive ==
    /\ \A r, s \in Requests :
          /\ HoldsEvent(r) /\ HoldsEvent(s) /\ r # s =>
                req[r].event # req[s].event
          /\ HoldsReceipt(r) /\ HoldsReceipt(s) /\ r # s =>
                req[r].tenant # req[s].tenant \/ rec[r].seq # rec[s].seq
    /\ \A r \in Requests :
          /\ HoldsEvent(r) => ~EventTaken(r)
          /\ HoldsReceipt(r) => ~SequenceTaken(r)

\* A committed receipt was issued by a request that is over, to its tenant,
\* and every chain that has a link has a last one.
Issued ==
    /\ \A x \in receipts :
          /\ pc[x.hash] = "done"
          /\ req[x.hash] \in Request
          /\ x.tenant = req[x.hash].tenant
          /\ x.event = req[x.hash].event
    /\ \A x, y \in receipts : x.hash = y.hash => x = y
    /\ \A t \in Tenants :
          ReceiptsOf(t) # {} =>
              \E x \in ReceiptsOf(t) : \A y \in ReceiptsOf(t) : y.seq <= x.seq

\* What a record was made for.
RecordsMatch ==
    \A t \in Tenants, k \in Keys :
        records[<<t, k>>] # None =>
            LET s == records[<<t, k>>].answer IN
            /\ pc[s] # "idle"
            /\ req[s] \in Request
            /\ req[s].tenant = t
            /\ req[s].key = k
            /\ req[s].body = records[<<t, k>>].body

\* Whose answer a request may carry: its own, or one it was replayed.
AnswersMatch ==
    \A r \in Requests :
        /\ pc[r] = "idle" => answer[r] = None
        /\ answer[r] \notin {None, r} => pc[answer[r]] # "idle"

\* With the durable store, what an open transaction has stored nobody else has:
\* its key is without a committed record, and no other transaction holds it.  A
\* request that has a key and has stored its response, or has been committed,
\* has its key taken.
KeysAreHeld ==
    DurableStore =>
        /\ \A r \in Requests : stored[r] => RecordFor(r) = None
        /\ \A r, s \in Requests : stored[r] /\ stored[s] /\ r # s => Slot(r) # Slot(s)
        /\ \A r \in Requests :
              pc[r] \in {"respond", "commit"} /\ req[r].key # None =>
                  stored[r] \/ RecordFor(r) # None
        /\ \A x \in receipts :
              req[x.hash].key # None => RecordFor(x.hash) # None

ChainInv == TypeOK /\ Progress /\ Exclusive /\ Issued /\ ChainIntact
            /\ VerdictMatchesBundle /\ OneReceiptPerEvent

IInv == ChainInv /\ RecordsMatch /\ AnswersMatch /\ ReplayMatchesRequest
        /\ (DurableStore => RecordsAreBacked) /\ KeysAreHeld
=============================================================================
