---------------------------- MODULE IngestProofs ----------------------------
(***************************************************************************)
(* Proofs about Ingest, for any number of requests, tenants, keys, faults  *)
(* and crashes.                                                            *)
(***************************************************************************)
EXTENDS IngestInvariant, TLAPS

LEMMA TypeInit == Init => TypeOK
  BY NoneIsFresh, BoundsAreNaturals
  DEF Init, TypeOK, Statuses, InFlight, Handling, bounds

\* get_latest_receipt_for_tenant returns a last link whenever there is a link.
LEMMA HeadIsLast ==
    ASSUME TypeOK, Issued, NEW t \in Tenants, ReceiptsOf(t) # {}
    PROVE  /\ Head(t) \in receipts
           /\ Head(t) \in Receipt
           /\ Head(t) # None
           /\ Head(t).tenant = t
           /\ \A y \in ReceiptsOf(t) : y.seq <= Head(t).seq
  <1>1. PICK x \in ReceiptsOf(t) : \A y \in ReceiptsOf(t) : y.seq <= x.seq
    BY DEF Issued
  <1>2. /\ Head(t) \in ReceiptsOf(t)
        /\ \A y \in ReceiptsOf(t) : y.seq <= Head(t).seq
    BY <1>1 DEF Head
  <1> QED
    BY <1>2, NoneIsFresh DEF ReceiptsOf, TypeOK

\* The receipt a request builds over the head continues a committed chain.
LEMMA BuiltOverHead ==
    ASSUME TypeOK, Progress, Issued, NEW r \in Requests, ReadHeadAndBuild(r)
    PROVE  WellBuilt(r)'
  <1> DEFINE t == req[r].tenant
  <1>1. /\ req[r] \in Request
        /\ verdict[r] = bundle[r]
        /\ bundle[r] \in 1 .. MaxBundle
        /\ t \in Tenants
    BY DEF Progress, ReadHeadAndBuild, Goto, InFlight, Handling, HasBundle, HasVerdict, Request
  <1>2. rec'[r] = BuildReceipt(r, Head(t))
    BY DEF ReadHeadAndBuild, TypeOK
  <1>3. UNCHANGED <<receipts, req>>
    BY DEF ReadHeadAndBuild
  <1>4. CASE ReceiptsOf(t) = {}
    <2>1. rec'[r] = [tenant |-> t, seq |-> 0, prev |-> None, hash |-> r,
                     event |-> req[r].event, bundle |-> bundle[r],
                     verdict |-> bundle[r]]
      BY <1>1, <1>2, <1>4 DEF Head, BuildReceipt
    <2> QED
      BY <1>1, <1>3, <2>1 DEF WellBuilt, Receipt, Request
  <1>5. CASE ReceiptsOf(t) # {}
    <2> DEFINE h == Head(t)
    <2>1. h \in receipts /\ h \in Receipt /\ h # None /\ h.tenant = t
      BY <1>1, <1>5, HeadIsLast
    <2>2. rec'[r] = [tenant |-> t, seq |-> h.seq + 1, prev |-> h.hash, hash |-> r,
                     event |-> req[r].event, bundle |-> bundle[r],
                     verdict |-> bundle[r]]
      BY <1>1, <1>2, <2>1 DEF BuildReceipt
    <2> HIDE DEF h
    <2>3. h.seq \in Nat /\ h.hash \in Requests
      BY <2>1 DEF Receipt
    <2> QED
      BY <1>1, <1>3, <2>1, <2>2, <2>3 DEF WellBuilt, Receipt, Request
  <1> QED
    BY <1>4, <1>5

LEMMA TypeStep ==
    ASSUME TypeOK, Progress, Issued, NEW r \in Requests, Step(r)
    PROVE  TypeOK'
  <1> USE NoneIsFresh DEF TypeOK, Goto, Refuse, local, bounds, Statuses, Refusals, InFlight, Handling
  <1>1. CASE LookupReplay(r)
    BY <1>1 DEF LookupReplay, HasLiveRecord, RecordFor, Slot, Progress, Request, Record
  <1>2. CASE LookupConflict(r)
    BY <1>2 DEF LookupConflict
  <1>3. CASE LookupMiss(r)
    BY <1>3 DEF LookupMiss, Progress, Request
  <1>4. CASE GetActiveBundle(r)
    BY <1>4 DEF GetActiveBundle, Progress, Request
  <1>5. CASE Evaluate(r)
    BY <1>5 DEF Evaluate, Progress, Request
  <1>6. CASE EvaluateRefused(r)
    BY <1>6 DEF EvaluateRefused
  <1>8. CASE Flush(r)
    BY <1>8 DEF Flush, InsertEvent, InsertEventFails, InsertReceipt, InsertReceiptFails
  <1>9. CASE StoreDurable(r)
    BY <1>9 DEF StoreDurable
  <1>10. CASE StoreInMemory(r)
    BY <1>10 DEF StoreInMemory, NewRecord, Record, Progress, Request
  <1>11. CASE Respond(r)
    BY <1>11 DEF Respond
  <1>12. CASE Teardown(r)
    BY <1>12 DEF Teardown, NewRecord, Record, Progress, Request, WellBuilt, HasReceipt, Slot
  <1>7. CASE ReadHeadAndBuild(r)
    <2>1. rec'[r] \in Receipt
      BY <1>7, BuiltOverHead DEF WellBuilt
    <2>2. rec' = [rec EXCEPT ![r] = rec'[r]]
      BY <1>7 DEF ReadHeadAndBuild
    <2> QED
      BY <1>7, <2>1, <2>2 DEF ReadHeadAndBuild
  <1> QED
    BY <1>1, <1>2, <1>3, <1>4, <1>5, <1>6, <1>7, <1>8, <1>9, <1>10, <1>11, <1>12 DEF Step, Lookup

LEMMA TypeNext ==
    ASSUME TypeOK, Progress, Issued, [Next]_vars
    PROVE  TypeOK'
  <1>1. ASSUME NEW r \in Requests, Arrive(r) PROVE TypeOK'
    BY <1>1, NoneIsFresh
    DEF TypeOK, Arrive, Reject, Admit, Goto, Refuse, local, bounds, Statuses,
        Refusals, InFlight, Handling, Request
  <1>2. ASSUME NEW r \in Requests, Step(r) PROVE TypeOK'
    BY <1>2, TypeStep
  <1>3. CASE Environment
    <2> USE BoundsAreNaturals DEF TypeOK, local, bounds, Statuses, Refusals, InFlight, Handling
    <2>1. ASSUME NEW r \in Requests, DbFault(r) PROVE TypeOK'
      BY <2>1 DEF DbFault
    <2>2. CASE Crash
      BY <2>2 DEF Crash
    <2>3. ASSUME NEW t \in Tenants, NEW k \in Keys, Expire(t, k) PROVE TypeOK'
      <3> DEFINE old == records[<<t, k>>]
                 new == [old EXCEPT !.live = FALSE]
      <3>1. old \in Record
        BY <2>3 DEF Expire
      <3>2. new \in Record
        BY <3>1 DEF Record
      <3>3. records' = [records EXCEPT ![<<t, k>>] = new]
        BY <2>3 DEF Expire
      <3> HIDE DEF new
      <3>4. records' \in [Tenants \X Keys -> Record \cup {None}]
        BY <3>2, <3>3
      <3> QED
        BY <2>3, <3>4 DEF Expire
    <2>4. ASSUME NEW t \in Tenants, ActivateBundle(t) PROVE TypeOK'
      BY <2>4 DEF ActivateBundle
    <2> QED
      BY <1>3, <2>1, <2>2, <2>3, <2>4 DEF Environment
  <1>4. CASE Quiet \/ UNCHANGED vars
    BY <1>4 DEF Quiet, vars, local, bounds, TypeOK
  <1> QED
    BY <1>1, <1>2, <1>3, <1>4 DEF Next

-----------------------------------------------------------------------------
\* No step takes a receipt back.
LEMMA ReceiptsOnlyGrow == [Next]_vars => receipts \subseteq receipts'
  <1>1. ASSUME NEW r \in Requests, Arrive(r) PROVE receipts \subseteq receipts'
    BY <1>1 DEF Arrive, Reject, Refuse, Admit
  <1>2. ASSUME NEW r \in Requests, Step(r) PROVE receipts \subseteq receipts'
    BY <1>2
    DEF Step, Lookup, LookupReplay, LookupConflict, LookupMiss, GetActiveBundle,
        Evaluate, EvaluateRefused, ReadHeadAndBuild, Flush, InsertEvent,
        InsertEventFails, InsertReceipt, InsertReceiptFails, StoreDurable,
        StoreInMemory, Respond, Teardown, Refuse
  <1>3. ASSUME Environment PROVE receipts \subseteq receipts'
    BY <1>3 DEF Environment, DbFault, Crash, Expire, ActivateBundle
  <1> QED
    BY <1>1, <1>2, <1>3 DEF Next, Quiet, vars

\* A receipt stays well built while its request and itself do not change.
LEMMA WellBuiltStays ==
    ASSUME NEW r \in Requests, WellBuilt(r), rec'[r] = rec[r], req'[r] = req[r],
           receipts \subseteq receipts'
    PROVE  WellBuilt(r)'
  BY DEF WellBuilt

\* What Progress says of one request.
ProgressOf(r) ==
    /\ pc[r] \in InFlight => req[r] \in Request
    /\ pc[r] \in {"lookup", "store"} => req[r].key \in Keys
    /\ HasBundle(r) => bundle[r] \in 1 .. MaxBundle
    /\ HasVerdict(r) => verdict[r] = bundle[r]
    /\ HasReceipt(r) => WellBuilt(r)
    /\ stored[r] =>
          DurableStore /\ pc[r] \in {"respond", "commit"} /\ req[r].key \in Keys

\* A request whose own variables do not change keeps its progress.
LEMMA ProgressStays ==
    ASSUME NEW r \in Requests, ProgressOf(r), receipts \subseteq receipts',
           pc'[r] = pc[r], req'[r] = req[r], bundle'[r] = bundle[r],
           verdict'[r] = verdict[r], rec'[r] = rec[r], stored'[r] = stored[r]
    PROVE  ProgressOf(r)'
  BY WellBuiltStays DEF ProgressOf, HasBundle, HasVerdict, HasReceipt

\* A request that leaves the server keeps its progress.
LEMMA ProgressWhenDone ==
    ASSUME NEW r \in Requests, pc'[r] = "done", ~stored'[r]
    PROVE  ProgressOf(r)'
  BY DEF ProgressOf, HasBundle, HasVerdict, HasReceipt, InFlight, Handling

\* A step of one request moves no variable of another.
LEMMA StepIsLocal ==
    ASSUME TypeOK, NEW r \in Requests, Step(r) \/ Arrive(r) \/ DbFault(r),
           NEW s \in Requests, s # r
    PROVE  /\ pc'[s] = pc[s] /\ req'[s] = req[s] /\ bundle'[s] = bundle[s]
           /\ verdict'[s] = verdict[s] /\ rec'[s] = rec[s]
           /\ stored'[s] = stored[s] /\ status'[s] = status[s]
           /\ answer'[s] = answer[s]
  <1> USE DEF TypeOK, Goto, Refuse
  <1>1. CASE Arrive(r)
    BY <1>1 DEF Arrive, Reject, Admit
  <1>2. CASE DbFault(r)
    BY <1>2 DEF DbFault
  <1>3. CASE Lookup(r)
    BY <1>3 DEF Lookup, LookupReplay, LookupConflict, LookupMiss
  <1>4. CASE GetActiveBundle(r) \/ Evaluate(r) \/ EvaluateRefused(r) \/ ReadHeadAndBuild(r)
    BY <1>4 DEF GetActiveBundle, Evaluate, EvaluateRefused, ReadHeadAndBuild
  <1>5. CASE Flush(r)
    BY <1>5 DEF Flush, InsertEvent, InsertEventFails, InsertReceipt, InsertReceiptFails
  <1>6. CASE StoreDurable(r) \/ StoreInMemory(r) \/ Respond(r) \/ Teardown(r)
    BY <1>6 DEF StoreDurable, StoreInMemory, Respond, Teardown
  <1> QED
    BY <1>1, <1>2, <1>3, <1>4, <1>5, <1>6 DEF Step

LEMMA ProgressStep ==
    ASSUME TypeOK, Progress, Issued, NEW r \in Requests,
           Step(r) \/ Arrive(r) \/ DbFault(r), receipts \subseteq receipts'
    PROVE  ProgressOf(r)'
  <1>0. ProgressOf(r)
    BY DEF Progress, ProgressOf
  <1> USE DEF TypeOK, Goto, Refuse, InFlight, Handling
  <1>1. CASE Arrive(r)
    BY <1>0, <1>1, NoneIsFresh
    DEF Arrive, Reject, Admit, ProgressOf, HasBundle, HasVerdict, HasReceipt, Request
  <1>2. CASE DbFault(r) \/ Teardown(r)
    BY <1>2, ProgressWhenDone DEF DbFault, Teardown
  <1>3. CASE LookupReplay(r) \/ LookupConflict(r) \/ LookupMiss(r)
    BY <1>0, <1>3
    DEF LookupReplay, LookupConflict, LookupMiss, ProgressOf, HasBundle, HasVerdict,
        HasReceipt
  <1>4. CASE GetActiveBundle(r)
    BY <1>0, <1>4 DEF GetActiveBundle, ProgressOf, HasBundle, HasVerdict, HasReceipt, Request
  <1>5. CASE Evaluate(r) \/ EvaluateRefused(r)
    BY <1>0, <1>5
    DEF Evaluate, EvaluateRefused, ProgressOf, HasBundle, HasVerdict, HasReceipt, Request
  <1>6. CASE ReadHeadAndBuild(r)
    BY <1>0, <1>6, BuiltOverHead
    DEF ReadHeadAndBuild, ProgressOf, HasBundle, HasVerdict, HasReceipt
  <1>7. CASE Flush(r)
    <2>1. UNCHANGED <<req, rec, stored>> /\ pc[r] \in {"event", "receipt"}
      BY <1>7 DEF Flush, InsertEvent, InsertEventFails, InsertReceipt, InsertReceiptFails
    <2>2. pc'[r] \in {"receipt", "store", "respond", "done"}
      BY <1>7 DEF Flush, InsertEvent, InsertEventFails, InsertReceipt, InsertReceiptFails
    <2>3. pc'[r] = "store" => req[r].key \in Keys
      BY <1>0, <1>7
      DEF Flush, InsertEvent, InsertEventFails, InsertReceipt, InsertReceiptFails,
          Request, ProgressOf
    <2>4. WellBuilt(r)'
      BY <1>0, <2>1, WellBuiltStays DEF ProgressOf, HasReceipt
    <2> QED
      BY <1>0, <2>1, <2>2, <2>3, <2>4 DEF ProgressOf, HasBundle, HasVerdict
  <1>8. CASE StoreDurable(r) \/ StoreInMemory(r) \/ Respond(r)
    <2>1. UNCHANGED <<req, rec>> /\ pc[r] \in {"store", "respond"}
      BY <1>8 DEF StoreDurable, StoreInMemory, Respond
    <2>2. pc'[r] \in {"respond", "commit"}
      BY <1>8 DEF StoreDurable, StoreInMemory, Respond
    <2>3. stored'[r] => DurableStore /\ req[r].key \in Keys
      BY <1>0, <1>8 DEF StoreDurable, StoreInMemory, Respond, ProgressOf
    <2>4. WellBuilt(r)'
      BY <1>0, <2>1, WellBuiltStays DEF ProgressOf, HasReceipt
    <2> QED
      BY <1>0, <2>1, <2>2, <2>3, <2>4 DEF ProgressOf, HasBundle, HasVerdict
  <1> QED
    BY <1>1, <1>2, <1>3, <1>4, <1>5, <1>6, <1>7, <1>8 DEF Step, Lookup

LEMMA ProgressNext ==
    ASSUME TypeOK, Progress, Issued, [Next]_vars
    PROVE  Progress'
  <1>0. receipts \subseteq receipts'
    BY ReceiptsOnlyGrow
  <1>1. \A s \in Requests : ProgressOf(s)
    BY DEF Progress, ProgressOf
  <1>2. ASSUME NEW r \in Requests, Arrive(r) \/ Step(r) \/ DbFault(r),
               NEW s \in Requests
        PROVE  ProgressOf(s)'
    <2>1. CASE s = r
      BY <1>0, <1>2, <2>1, ProgressStep
    <2>2. CASE s # r
      BY <1>0, <1>1, <1>2, <2>2, StepIsLocal, ProgressStays
    <2> QED
      BY <2>1, <2>2
  <1>3. ASSUME Crash, NEW s \in Requests PROVE ProgressOf(s)'
    <2>1. ~stored'[s] /\ (pc[s] \in InFlight => pc'[s] = "done")
      BY <1>3 DEF Crash
    <2>2. CASE pc[s] \in InFlight
      BY <2>1, <2>2, ProgressWhenDone
    <2>3. CASE pc[s] \notin InFlight
      <3>1. pc'[s] \notin InFlight
        BY <1>3, <2>3 DEF Crash
      <3> QED
        BY <2>1, <3>1
        DEF ProgressOf, HasBundle, HasVerdict, HasReceipt, InFlight, Handling
    <2> QED
      BY <2>2, <2>3
  <1>4. ASSUME NEW s \in Requests, UNCHANGED local PROVE ProgressOf(s)'
    BY <1>0, <1>1, <1>4, ProgressStays DEF local
  <1>5. ASSUME NEW t \in Tenants, NEW k \in Keys, Expire(t, k) \/ ActivateBundle(t)
        PROVE  UNCHANGED local
    BY <1>5 DEF Expire, ActivateBundle
  <1>6. ASSUME NEW t \in Tenants, ActivateBundle(t) PROVE UNCHANGED local
    BY <1>6 DEF ActivateBundle
  <1>7. CASE UNCHANGED vars \/ Quiet
    BY <1>4, <1>7 DEF vars, Quiet, Progress, ProgressOf
  <1> QED
    BY <1>2, <1>3, <1>4, <1>5, <1>6, <1>7 DEF Next, Environment, Progress, ProgressOf

-----------------------------------------------------------------------------
\* Nobody comes to hold a row, and nothing is committed.
HoldsNothingNew ==
    /\ receipts' = receipts
    /\ \A s \in Requests :
          /\ HoldsReceipt(s)' => HoldsReceipt(s)
          /\ HoldsEvent(s)' =>
                HoldsEvent(s) /\ req'[s] = req[s] /\ rec'[s] = rec[s]

\* Only the two flushes and the commit change who holds what.
LEMMA OnlyFlushAndCommitCount ==
    ASSUME TypeOK, [Next]_vars
    PROVE  \/ HoldsNothingNew
           \/ \E r \in Requests : InsertEvent(r) \/ InsertReceipt(r) \/ Teardown(r)
  <1> USE DEF HoldsEvent, HoldsReceipt
  <1>1. ASSUME NEW r \in Requests, Arrive(r) \/ Step(r) \/ DbFault(r),
               ~InsertEvent(r), ~InsertReceipt(r), ~Teardown(r)
        PROVE  HoldsNothingNew
    <2>1. /\ receipts' = receipts
          /\ HoldsReceipt(r)' => HoldsReceipt(r)
          /\ HoldsEvent(r)' => HoldsEvent(r) /\ req'[r] = req[r] /\ rec'[r] = rec[r]
      <3> USE DEF TypeOK, Goto, Refuse
      <3>1. CASE Arrive(r) \/ DbFault(r)
        BY <3>1 DEF Arrive, Reject, Admit, DbFault
      <3>2. CASE Lookup(r)
        BY <3>2 DEF Lookup, LookupReplay, LookupConflict, LookupMiss
      <3>3. CASE GetActiveBundle(r) \/ Evaluate(r) \/ EvaluateRefused(r) \/ ReadHeadAndBuild(r)
        BY <3>3 DEF GetActiveBundle, Evaluate, EvaluateRefused, ReadHeadAndBuild
      <3>4. CASE Flush(r)
        BY <1>1, <3>4 DEF Flush, InsertEventFails, InsertReceiptFails
      <3>5. CASE StoreDurable(r) \/ StoreInMemory(r) \/ Respond(r)
        BY <3>5 DEF StoreDurable, StoreInMemory, Respond
      <3> QED
        BY <1>1, <3>1, <3>2, <3>3, <3>4, <3>5 DEF Step
    <2>2. ASSUME NEW s \in Requests, s # r
          PROVE  pc'[s] = pc[s] /\ req'[s] = req[s] /\ rec'[s] = rec[s]
      BY <1>1, <2>2, StepIsLocal
    <2> QED
      BY <2>1, <2>2 DEF HoldsNothingNew
  <1>2. CASE Crash
    BY <1>2 DEF Crash, HoldsNothingNew, InFlight, Handling
  <1>3. ASSUME NEW t \in Tenants, NEW k \in Keys, Expire(t, k) PROVE HoldsNothingNew
    BY <1>3 DEF Expire, local, HoldsNothingNew
  <1>4. ASSUME NEW t \in Tenants, ActivateBundle(t) PROVE HoldsNothingNew
    BY <1>4 DEF ActivateBundle, local, HoldsNothingNew
  <1>5. CASE Quiet \/ UNCHANGED vars
    BY <1>5 DEF Quiet, vars, local, HoldsNothingNew
  <1> QED
    BY <1>1, <1>2, <1>3, <1>4, <1>5 DEF Next, Environment

LEMMA ExclusiveNext ==
    ASSUME TypeOK, Progress, Exclusive, [Next]_vars
    PROVE  Exclusive'
  <1>0. \A s \in Requests : HoldsEvent(s) => WellBuilt(s)
    BY DEF Progress, HoldsEvent, HasReceipt
  <1> USE DEF Exclusive, EventTaken, SequenceTaken
  <1>1. CASE HoldsNothingNew
    BY <1>1 DEF HoldsNothingNew, HoldsEvent, HoldsReceipt
  <1>2. ASSUME NEW r \in Requests, InsertEvent(r) PROVE Exclusive'
    <2>1. UNCHANGED <<req, rec, receipts>> /\ pc' = [pc EXCEPT ![r] = "receipt"]
      BY <1>2 DEF InsertEvent, Goto
    <2>2. /\ \A s \in Requests : HoldsReceipt(s)' => HoldsReceipt(s)
          /\ \A s \in Requests \ {r} : HoldsEvent(s)' => HoldsEvent(s)
      BY <2>1 DEF HoldsEvent, HoldsReceipt, TypeOK
    <2>3. /\ ~EventTaken(r)
          /\ \A s \in Requests \ {r} : HoldsEvent(s) => req[s].event # req[r].event
      BY <1>2 DEF InsertEvent, EventFree
    <2> QED
      BY <2>1, <2>2, <2>3
  <1>3. ASSUME NEW r \in Requests, InsertReceipt(r) PROVE Exclusive'
    <2>1. /\ UNCHANGED <<req, rec, receipts>>
          /\ pc[r] = "receipt"
          /\ \E p \in {"store", "respond"} : pc' = [pc EXCEPT ![r] = p]
      BY <1>3 DEF InsertReceipt, Goto
    <2>2. /\ \A s \in Requests : HoldsEvent(s)' => HoldsEvent(s)
          /\ \A s \in Requests \ {r} : HoldsReceipt(s)' => HoldsReceipt(s)
      BY <2>1 DEF HoldsEvent, HoldsReceipt, TypeOK
    <2>3. /\ ~SequenceTaken(r)
          /\ \A s \in Requests \ {r} :
                HoldsReceipt(s) => req[s].tenant # req[r].tenant \/ rec[s].seq # rec[r].seq
      BY <1>3 DEF InsertReceipt, PositionFree
    <2> QED
      BY <2>1, <2>2, <2>3
  <1>4. ASSUME NEW r \in Requests, Teardown(r) PROVE Exclusive'
    <2>1. /\ UNCHANGED <<req, rec>>
          /\ pc[r] = "commit" /\ pc' = [pc EXCEPT ![r] = "done"]
          /\ receipts' \subseteq receipts \cup {rec[r]}
      BY <1>4 DEF Teardown, Goto
    <2>2. \A s \in Requests :
             /\ HoldsEvent(s)' => HoldsEvent(s) /\ s # r
             /\ HoldsReceipt(s)' => HoldsReceipt(s) /\ s # r
      BY <2>1 DEF HoldsEvent, HoldsReceipt, TypeOK
    <2>3. HoldsEvent(r) /\ HoldsReceipt(r)
      BY <2>1 DEF HoldsEvent, HoldsReceipt
    <2>4. rec[r].event = req[r].event /\ rec[r].tenant = req[r].tenant
      BY <1>0, <2>3 DEF WellBuilt
    <2> QED
      BY <2>1, <2>2, <2>3, <2>4
  <1> QED
    BY <1>1, <1>2, <1>3, <1>4, OnlyFlushAndCommitCount

-----------------------------------------------------------------------------
\* A request that is over stays over, and remembers what it asked for.
LEMMA DoneStays ==
    ASSUME TypeOK, [Next]_vars, NEW s \in Requests, pc[s] = "done"
    PROVE  pc'[s] = "done" /\ req'[s] = req[s]
  <1>1. ASSUME NEW r \in Requests, Arrive(r) \/ Step(r) \/ DbFault(r)
        PROVE  pc'[s] = "done" /\ req'[s] = req[s]
    <2>1. CASE r # s
      BY <1>1, <2>1, StepIsLocal
    <2>2. CASE r = s
      BY <1>1, <2>2
      DEF Arrive, Reject, Admit, Step, Lookup, LookupReplay, LookupConflict,
          LookupMiss, GetActiveBundle, Evaluate, EvaluateRefused, ReadHeadAndBuild,
          Flush, InsertEvent, InsertEventFails, InsertReceipt, InsertReceiptFails,
          StoreDurable, StoreInMemory, Respond, Teardown, DbFault, Goto, Refuse,
          InFlight, Handling
    <2> QED
      BY <2>1, <2>2
  <1>2. CASE Crash
    BY <1>2 DEF Crash, InFlight, Handling
  <1>3. ASSUME NEW t \in Tenants, NEW k \in Keys, Expire(t, k) \/ ActivateBundle(t)
        PROVE  UNCHANGED local
    BY <1>3 DEF Expire, ActivateBundle
  <1>4. ASSUME NEW t \in Tenants, ActivateBundle(t) PROVE UNCHANGED local
    BY <1>4 DEF ActivateBundle
  <1>5. CASE Quiet \/ UNCHANGED local
    BY <1>5 DEF Quiet, vars, local
  <1> QED
    BY <1>1, <1>2, <1>3, <1>4, <1>5 DEF Next, Environment, vars

\* A commit happens at the end of one request; nothing else adds a receipt.
LEMMA OneCommitAtATime ==
    ASSUME TypeOK, [Next]_vars, receipts' # receipts
    PROVE  \E r \in Requests :
              /\ Teardown(r)
              /\ pc[r] = "commit"
              /\ receipts' = receipts \cup {rec[r]}
  <1>1. PICK r \in Requests : InsertEvent(r) \/ InsertReceipt(r) \/ Teardown(r)
    BY OnlyFlushAndCommitCount DEF HoldsNothingNew
  <1> QED
    BY <1>1 DEF InsertEvent, InsertReceipt, Teardown, Goto

\* What is committed last follows every other receipt of its tenant: it names
\* a committed predecessor, below which the chain is dense, and its own
\* position is free.
LEMMA CommitsAtTheEnd ==
    ASSUME TypeOK, Progress, Exclusive, Issued, ChainIntact,
           NEW r \in Requests, pc[r] = "commit"
    PROVE  /\ WellBuilt(r)
           /\ req[r] \in Request
           /\ \A y \in ReceiptsOf(rec[r].tenant) : y.seq < rec[r].seq
           /\ \A i \in 0 .. rec[r].seq - 1 :
                 \E y \in ReceiptsOf(rec[r].tenant) : y.seq = i
  <1> DEFINE n == rec[r].seq
             t == rec[r].tenant
  <1>1. WellBuilt(r) /\ req[r] \in Request
    BY DEF Progress, HasReceipt, InFlight, Handling
  <1>2. n \in Nat /\ t = req[r].tenant
    BY <1>1 DEF WellBuilt, Receipt
  <1>3. \A y \in ReceiptsOf(t) : y.seq # n
    BY <1>2 DEF Exclusive, HoldsReceipt, SequenceTaken, ReceiptsOf
  <1>4. \A y \in receipts : y.seq \in Nat
    BY DEF TypeOK, Receipt
  <1>5. \A y \in ReceiptsOf(t) : y.seq < n
    <2> SUFFICES ASSUME NEW y \in ReceiptsOf(t), y.seq > n PROVE FALSE
      BY <1>2, <1>3, <1>4 DEF ReceiptsOf
    <2>1. n \in 0 .. y.seq - 1
      BY <1>2, <1>4 DEF ReceiptsOf
    <2>2. \E z \in ReceiptsOf(t) : z.seq = n
      BY <2>1 DEF ChainIntact, ReceiptsOf
    <2> QED
      BY <1>3, <2>2
  <1>6. ASSUME NEW i \in 0 .. n - 1 PROVE \E y \in ReceiptsOf(t) : y.seq = i
    <2>1. PICK y \in receipts : y.tenant = t /\ y.seq = n - 1
      BY <1>1, <1>2, <1>6 DEF WellBuilt
    <2>2. CASE i = n - 1
      BY <2>1, <2>2 DEF ReceiptsOf
    <2>3. CASE i # n - 1
      <3>1. i \in 0 .. y.seq - 1
        BY <1>2, <2>1, <2>3
      <3> QED
        BY <2>1, <3>1 DEF ChainIntact
    <2> QED
      BY <2>2, <2>3
  <1> QED
    BY <1>1, <1>5, <1>6

LEMMA IssuedNext ==
    ASSUME TypeOK, Progress, Exclusive, Issued, ChainIntact, [Next]_vars
    PROVE  Issued'
  <1>1. CASE receipts' = receipts
    <2>1. \A x \in receipts : x.hash \in Requests
      BY DEF TypeOK, Receipt
    <2>2. \A x \in receipts : pc'[x.hash] = "done" /\ req'[x.hash] = req[x.hash]
      BY <2>1, DoneStays DEF Issued
    <2> QED
      BY <1>1, <2>2 DEF Issued, ReceiptsOf
  <1>2. CASE receipts' # receipts
    <2>1. PICK r \in Requests :
             Teardown(r) /\ pc[r] = "commit" /\ receipts' = receipts \cup {rec[r]}
      BY <1>2, OneCommitAtATime
    <2>2. /\ WellBuilt(r)
          /\ req[r] \in Request
          /\ \A y \in ReceiptsOf(rec[r].tenant) : y.seq < rec[r].seq
      BY <2>1, CommitsAtTheEnd
    <2>3. pc'[r] = "done" /\ req' = req
      BY <2>1 DEF Teardown, Goto, TypeOK
    <2>4. \A x \in receipts : x.hash \in Requests /\ x.seq \in Nat
      BY DEF TypeOK, Receipt
    <2>5. \A x \in receipts : pc'[x.hash] = "done" /\ x.hash # r
      BY <2>1, <2>4, DoneStays DEF Issued
    <2>6. ASSUME NEW x \in receipts'
          PROVE  /\ pc'[x.hash] = "done"
                 /\ req'[x.hash] \in Request
                 /\ x.tenant = req'[x.hash].tenant
                 /\ x.event = req'[x.hash].event
      BY <2>1, <2>2, <2>3, <2>5 DEF WellBuilt, Issued
    <2>7. ASSUME NEW x \in receipts', NEW y \in receipts', x.hash = y.hash
          PROVE  x = y
      BY <2>1, <2>2, <2>5, <2>7 DEF WellBuilt, Issued
    <2>8. ASSUME NEW t \in Tenants, ReceiptsOf(t)' # {}
          PROVE  \E x \in ReceiptsOf(t)' : \A y \in ReceiptsOf(t)' : y.seq <= x.seq
      <3>1. CASE t = rec[r].tenant
        <4>1. rec[r] \in ReceiptsOf(t)' /\ rec[r].seq \in Nat
          BY <2>1, <2>2, <3>1 DEF ReceiptsOf, WellBuilt, Receipt
        <4>2. \A y \in ReceiptsOf(t)' : y = rec[r] \/ y \in ReceiptsOf(rec[r].tenant)
          BY <2>1, <3>1 DEF ReceiptsOf
        <4>3. \A y \in ReceiptsOf(t)' : y.seq <= rec[r].seq
          BY <2>2, <2>4, <4>1, <4>2 DEF ReceiptsOf
        <4> QED
          BY <4>1, <4>3
      <3>2. CASE t # rec[r].tenant
        <4>1. ReceiptsOf(t)' = ReceiptsOf(t)
          BY <2>1, <3>2 DEF ReceiptsOf
        <4> QED
          BY <2>8, <4>1 DEF Issued
      <3> QED
        BY <3>1, <3>2
    <2> QED
      BY <2>6, <2>7, <2>8 DEF Issued
  <1> QED
    BY <1>1, <1>2

LEMMA ChainIntactNext ==
    ASSUME TypeOK, Progress, Exclusive, Issued, ChainIntact, [Next]_vars
    PROVE  ChainIntact'
  <1>1. CASE receipts' = receipts
    BY <1>1 DEF ChainIntact, ReceiptsOf
  <1>2. CASE receipts' # receipts
    <2>1. PICK r \in Requests :
             pc[r] = "commit" /\ receipts' = receipts \cup {rec[r]}
      BY <1>2, OneCommitAtATime
    <2> DEFINE new == rec[r]
    <2>2. /\ WellBuilt(r)
          /\ \A y \in ReceiptsOf(new.tenant) : y.seq < new.seq
          /\ \A i \in 0 .. new.seq - 1 : \E y \in ReceiptsOf(new.tenant) : y.seq = i
      BY <2>1, CommitsAtTheEnd
    <2>3. \A t : ReceiptsOf(t) \subseteq ReceiptsOf(t)'
      BY <2>1 DEF ReceiptsOf
    <2>4. \A t : \A y \in ReceiptsOf(t)' : y \in ReceiptsOf(t) \/ (y = new /\ t = new.tenant)
      BY <2>1 DEF ReceiptsOf
    <2>5. new.seq \in Nat /\ \A x \in receipts : x.seq \in Nat
      BY <2>2 DEF WellBuilt, TypeOK, Receipt
    <2> HIDE DEF new
    <2>6. ASSUME NEW x \in receipts', NEW i \in 0 .. x.seq - 1
          PROVE  \E y \in ReceiptsOf(x.tenant)' : y.seq = i
      <3>1. x \in receipts \/ x = new
        BY <2>1 DEF new
      <3> QED
        BY <2>2, <2>3, <2>6, <3>1 DEF ChainIntact
    <2>7. ASSUME NEW x \in receipts', NEW y \in ReceiptsOf(x.tenant)', y.seq = x.seq
          PROVE  y = x
      <3>1. x \in ReceiptsOf(x.tenant) \/ x = new
        BY <2>1 DEF new, ReceiptsOf
      <3>2. y \in ReceiptsOf(x.tenant) \/ (y = new /\ x.tenant = new.tenant)
        BY <2>4, <2>7
      <3>3. x \in ReceiptsOf(x.tenant) => x \in receipts
        BY DEF ReceiptsOf
      <3>4. \A z : z \in ReceiptsOf(x.tenant) => z.seq \in Nat
        BY <2>5 DEF ReceiptsOf
      <3> QED
        BY <2>2, <2>5, <2>7, <3>1, <3>2, <3>3, <3>4 DEF ChainIntact
    <2>8. ASSUME NEW x \in receipts'
          PROVE  IF x.seq = 0
                 THEN x.prev = None
                 ELSE \E y \in ReceiptsOf(x.tenant)' :
                         y.seq = x.seq - 1 /\ y.hash = x.prev
      <3>1. CASE x \in receipts
        BY <2>3, <3>1 DEF ChainIntact
      <3>2. CASE x = new
        BY <2>2, <2>3, <3>2 DEF WellBuilt, ReceiptsOf, new
      <3> QED
        BY <2>1, <3>1, <3>2 DEF new
    <2> QED
      BY <2>6, <2>7, <2>8 DEF ChainIntact
  <1> QED
    BY <1>1, <1>2

\* The verdict and the bundle a receipt binds agree from the moment it is built.
LEMMA VerdictNext ==
    ASSUME TypeOK, Progress, VerdictMatchesBundle, [Next]_vars
    PROVE  VerdictMatchesBundle'
  <1>1. CASE receipts' = receipts
    BY <1>1 DEF VerdictMatchesBundle
  <1>2. CASE receipts' # receipts
    <2>1. PICK r \in Requests : pc[r] = "commit" /\ receipts' = receipts \cup {rec[r]}
      BY <1>2, OneCommitAtATime
    <2>2. WellBuilt(r)
      BY <2>1 DEF Progress, HasReceipt
    <2> QED
      BY <2>1, <2>2 DEF VerdictMatchesBundle, WellBuilt
  <1> QED
    BY <1>1, <1>2

\* A commit brings in an event id its transaction has held alone.
LEMMA EventNext ==
    ASSUME TypeOK, Progress, Exclusive, OneReceiptPerEvent, [Next]_vars
    PROVE  OneReceiptPerEvent'
  <1>1. CASE receipts' = receipts
    BY <1>1 DEF OneReceiptPerEvent
  <1>2. CASE receipts' # receipts
    <2>1. PICK r \in Requests : pc[r] = "commit" /\ receipts' = receipts \cup {rec[r]}
      BY <1>2, OneCommitAtATime
    <2>2. WellBuilt(r)
      BY <2>1 DEF Progress, HasReceipt
    <2>3. \A x \in receipts : x.event # rec[r].event
      BY <2>1, <2>2 DEF Exclusive, HoldsEvent, EventTaken, WellBuilt
    <2> QED
      BY <2>1, <2>3 DEF OneReceiptPerEvent
  <1> QED
    BY <1>1, <1>2

-----------------------------------------------------------------------------
LEMMA ChainInvInit == Init => ChainInv
  BY TypeInit, NoneIsFresh
  DEF Init, ChainInv, Progress, Exclusive, Issued, ChainIntact, ReceiptsOf,
      VerdictMatchesBundle, OneReceiptPerEvent, InFlight, Handling, HasBundle,
      HasVerdict, HasReceipt, HoldsEvent, HoldsReceipt

LEMMA ChainInvNext == ChainInv /\ [Next]_vars => ChainInv'
  BY TypeNext, ProgressNext, ExclusiveNext, IssuedNext, ChainIntactNext, VerdictNext,
     EventNext DEF ChainInv

\* The inductive invariant holds in every reachable state.
THEOREM ChainInvariant == Spec => []ChainInv
  BY ChainInvInit, ChainInvNext, PTL DEF Spec

\* Every variable of the ingest endpoint keeps its type, the chain head it
\* reads included: get_latest_receipt_for_tenant never yields a non-receipt.
THEOREM TypeCorrect == Spec => []TypeOK
  <1>1. ChainInv => TypeOK
    BY DEF ChainInv
  <1> QED
    BY <1>1, ChainInvariant, PTL

\* However many requests race, fail and crash, every tenant's committed
\* receipts are one gapless chain in which each one names the one before.
THEOREM ChainStaysIntact == Spec => []ChainIntact
  <1>1. ChainInv => ChainIntact
    BY DEF ChainInv
  <1> QED
    BY <1>1, ChainInvariant, PTL

\* No receipt is ever committed whose verdict came from another bundle than
\* the one it binds.
THEOREM VerdictsMatchBundles == Spec => []VerdictMatchesBundle
  <1>1. ChainInv => VerdictMatchesBundle
    BY DEF ChainInv
  <1> QED
    BY <1>1, ChainInvariant, PTL

\* No event id is ever given two receipts, over all tenants.
THEOREM EventsAreIngestedOnce == Spec => []OneReceiptPerEvent
  <1>1. ChainInv => OneReceiptPerEvent
    BY DEF ChainInv
  <1> QED
    BY <1>1, ChainInvariant, PTL

-----------------------------------------------------------------------------
(* The refinement of EvidenceChain *)

LinkOf(x) == [tenant |-> x.tenant, seq |-> x.seq, prev |-> x.prev, hash |-> x.hash]

Links == {LinkOf(x) : x \in receipts}

\* A commit appends its receipt's link at the head of one tenant's chain.
LEMMA CommitAppends ==
    ASSUME ChainInv, [Next]_vars, receipts' # receipts
    PROVE  Chain!Next
  <1>1. PICK r \in Requests : pc[r] = "commit" /\ receipts' = receipts \cup {rec[r]}
    BY OneCommitAtATime DEF ChainInv
  <1> DEFINE new == rec[r]
             t == new.tenant
             l == LinkOf(new)
  <1>2. /\ WellBuilt(r)
        /\ \A y \in ReceiptsOf(t) : y.seq < new.seq
    BY <1>1, CommitsAtTheEnd DEF ChainInv
  <1>3. new \in Receipt /\ t \in Tenants /\ new.seq \in Nat /\ new.hash = r
    BY <1>2 DEF WellBuilt, Receipt
  <1>4. \A x \in receipts : x.hash # r /\ x.seq \in Nat /\ x \in Receipt
    BY <1>1 DEF ChainInv, Issued, TypeOK, Receipt
  <1>5. Links' = Links \cup {l}
    BY <1>1 DEF Links, LinkOf
  <1>6. \A m \in Links : m.hash # l.hash
    BY <1>3, <1>4 DEF Links, LinkOf
  <1>7. l \in Links' \ Links
    BY <1>5, <1>6
  <1>8. l \in Chain!Link
    BY <1>3 DEF Chain!Link, LinkOf, Receipt
  <1>9. Chain!Extends(t, l)
    <2>1. Chain!LinksOf(t) = {LinkOf(x) : x \in ReceiptsOf(t)}
      BY DEF Chain!LinksOf, ReceiptsOf, LinkOf
    <2>2. CASE new.seq = 0
      <3>1. ReceiptsOf(t) = {}
        BY <1>2, <1>4, <2>2 DEF ReceiptsOf
      <3>2. l.seq = 0 /\ l.prev = None
        BY <1>2, <2>2 DEF LinkOf, WellBuilt
      <3> QED
        BY <2>1, <3>1, <3>2 DEF Chain!Extends
    <2>3. CASE new.seq # 0
      <3>1. PICK y \in receipts : y.tenant = t /\ y.seq = new.seq - 1 /\ y.hash = new.prev
        BY <1>2, <2>3 DEF WellBuilt
      <3>2. LinkOf(y) \in Chain!LinksOf(t)
        BY <2>1, <3>1 DEF ReceiptsOf
      <3>3. \A x \in ReceiptsOf(t) : x.seq <= y.seq
        BY <1>2, <1>3, <1>4, <3>1 DEF ReceiptsOf
      <3>4. \A m \in Chain!LinksOf(t) : m.seq <= LinkOf(y).seq
        BY <2>1, <3>3 DEF LinkOf
      <3>5. l.seq = LinkOf(y).seq + 1 /\ l.prev = LinkOf(y).hash
        BY <1>3, <3>1 DEF LinkOf
      <3> QED
        BY <3>2, <3>4, <3>5 DEF Chain!Extends
    <2> QED
      BY <2>2, <2>3
  <1>10. l.tenant = t
    BY DEF LinkOf
  <1> QED
    <2> HIDE DEF l, t
    <2>1. t \in Tenants
      BY <1>3
    <2> QED
      BY <1>5, <1>6, <1>7, <1>8, <1>9, <1>10, <2>1
      DEF Chain!Next, Chain!AppendLink, Links, LinkOf

\* The endpoint implements the abstract ledger: whatever requests do, the
\* committed receipts only ever grow by one link at the head of one chain.
THEOREM IngestImplementsChain == Spec => ImplementsChain
  <1>1. Init => Chain!Init
    BY DEF Init, Chain!Init
  <1>2. ChainInv /\ [Next]_vars => [Chain!Next]_Links
    <2>1. ASSUME receipts' = receipts PROVE Links' = Links
      BY <2>1 DEF Links
    <2> QED
      BY <2>1, CommitAppends
  <1> QED
    BY <1>1, <1>2, ChainInvariant, PTL DEF Spec, ImplementsChain, Chain!Spec, Links, LinkOf
=============================================================================
