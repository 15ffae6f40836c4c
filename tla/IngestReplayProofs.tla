------------------------- MODULE IngestReplayProofs -------------------------
(***************************************************************************)
(* Proofs about the idempotency records of Ingest: what they may replay.   *)
(***************************************************************************)
EXTENDS IngestProofs

\* A request that has arrived never asks for anything else.
LEMMA ArrivedStays ==
    ASSUME TypeOK, [Next]_vars, NEW s \in Requests, pc[s] # "idle"
    PROVE  pc'[s] # "idle" /\ req'[s] = req[s]
  <1>1. ASSUME NEW r \in Requests, Arrive(r) \/ Step(r) \/ DbFault(r)
        PROVE  pc'[s] # "idle" /\ req'[s] = req[s]
    <2>1. CASE r # s
      BY <1>1, <2>1, StepIsLocal
    <2>2. CASE r = s
      <3> USE <2>2 DEF Goto, Refuse, TypeOK
      <3>1. CASE Arrive(r) \/ DbFault(r) \/ Lookup(r)
        BY <3>1 DEF Arrive, Reject, Admit, DbFault, Lookup, LookupReplay,
                    LookupConflict, LookupMiss
      <3>2. CASE GetActiveBundle(r) \/ Evaluate(r) \/ EvaluateRefused(r)
                 \/ ReadHeadAndBuild(r) \/ Flush(r)
        BY <3>2 DEF GetActiveBundle, Evaluate, EvaluateRefused, ReadHeadAndBuild,
                    Flush, InsertEvent, InsertEventFails, InsertReceipt,
                    InsertReceiptFails
      <3>3. CASE StoreDurable(r) \/ StoreInMemory(r) \/ Respond(r) \/ Teardown(r)
        BY <3>3 DEF StoreDurable, StoreInMemory, Respond, Teardown
      <3> QED
        BY <1>1, <3>1, <3>2, <3>3 DEF Step
    <2> QED
      BY <2>1, <2>2
  <1>2. CASE Crash
    BY <1>2 DEF Crash
  <1>3. ASSUME NEW t \in Tenants, NEW k \in Keys, Expire(t, k) PROVE UNCHANGED local
    BY <1>3 DEF Expire
  <1>4. ASSUME NEW t \in Tenants, ActivateBundle(t) PROVE UNCHANGED local
    BY <1>4 DEF ActivateBundle
  <1>5. CASE Quiet \/ UNCHANGED local
    BY <1>5 DEF Quiet, vars, local
  <1> QED
    BY <1>1, <1>2, <1>3, <1>4, <1>5 DEF Next, Environment, vars

\* The record of a key is kept, dropped, expired, or made for a request that
\* has computed its response; the durable store makes it in the commit.
LEMMA HowRecordsChange ==
    ASSUME TypeOK, Progress, [Next]_vars, NEW t \in Tenants, NEW k \in Keys
    PROVE  LET old == records[<<t, k>>]
               new == records'[<<t, k>>] IN
           \/ new = None
           \/ old # None /\ new # None /\ new.body = old.body /\ new.answer = old.answer
           \/ \E r \in Requests :
                 /\ pc[r] \in {"store", "commit"}
                 /\ Slot(r) = <<t, k>>
                 /\ new = NewRecord(r)
                 /\ DurableStore =>
                       pc[r] = "commit" /\ receipts' = receipts \cup {rec[r]}
  <1> DEFINE old == records[<<t, k>>]
             new == records'[<<t, k>>]
             Kept == old # None /\ new # None /\ new.body = old.body /\ new.answer = old.answer
             Made == \E r \in Requests :
                        /\ pc[r] \in {"store", "commit"}
                        /\ Slot(r) = <<t, k>>
                        /\ new = NewRecord(r)
                        /\ DurableStore =>
                              pc[r] = "commit" /\ receipts' = receipts \cup {rec[r]}
  <1>0. <<t, k>> \in Tenants \X Keys
    OBVIOUS
  <1>1. new = old => new = None \/ Kept
    OBVIOUS
  <1>2. ASSUME NEW r \in Requests, Step(r) PROVE new = None \/ Kept \/ Made
    <2>1. CASE LookupMiss(r)
      <3>1. new = None \/ new = old
        BY <1>0, <2>1 DEF LookupMiss, TypeOK
      <3> QED
        BY <3>1
    <2>2. CASE StoreInMemory(r)
      <3>1. new = old \/ (Slot(r) = <<t, k>> /\ new = NewRecord(r))
        BY <1>0, <2>2 DEF StoreInMemory, TypeOK
      <3>2. pc[r] = "store" /\ ~DurableStore
        BY <2>2 DEF StoreInMemory, Goto
      <3> QED
        BY <3>1, <3>2
    <2>3. CASE Teardown(r)
      <3>1. \/ new = old
            \/ Slot(r) = <<t, k>> /\ new = NewRecord(r) /\ receipts' = receipts \cup {rec[r]}
        BY <1>0, <2>3 DEF Teardown, TypeOK
      <3>2. pc[r] = "commit"
        BY <2>3 DEF Teardown, Goto
      <3> QED
        BY <3>1, <3>2
    <2>4. CASE ~LookupMiss(r) /\ ~StoreInMemory(r) /\ ~Teardown(r)
      <3>1. records' = records
        BY <1>2, <2>4
        DEF Step, Lookup, LookupReplay, LookupConflict, GetActiveBundle, Evaluate,
            EvaluateRefused, ReadHeadAndBuild, Flush, InsertEvent, InsertEventFails,
            InsertReceipt, InsertReceiptFails, StoreDurable, Respond
      <3> QED
        BY <3>1
    <2> QED
      BY <2>1, <2>2, <2>3, <2>4
  <1>3. ASSUME NEW r \in Requests, Arrive(r) \/ DbFault(r) PROVE new = old
    BY <1>3 DEF Arrive, Reject, Admit, DbFault
  <1>4. ASSUME Crash PROVE new = None \/ Kept
    <2>1. new = old \/ new = None
      BY <1>0, <1>4 DEF Crash
    <2> QED
      BY <1>1, <2>1
  <1>5. ASSUME NEW t2 \in Tenants, NEW k2 \in Keys, Expire(t2, k2)
        PROVE  new = None \/ Kept \/ Made
    <2>1. CASE <<t2, k2>> # <<t, k>>
      BY <1>0, <1>5, <2>1 DEF Expire, TypeOK
    <2>2. CASE <<t2, k2>> = <<t, k>>
      <3>1. old \in Record
        BY <1>0, <1>5, <2>2 DEF Expire, TypeOK
      <3>2. new = [old EXCEPT !.live = FALSE]
        BY <1>0, <1>5, <2>2 DEF Expire, TypeOK
      <3>3. new.body = old.body /\ new.answer = old.answer /\ new \in Record
        BY <3>1, <3>2 DEF Record
      <3> QED
        BY <3>1, <3>3, NoneIsFresh
    <2> QED
      BY <2>1, <2>2
  <1>6. ASSUME NEW t2 \in Tenants, ActivateBundle(t2) PROVE new = old
    BY <1>6 DEF ActivateBundle
  <1>7. ASSUME Quiet \/ UNCHANGED vars PROVE new = old
    BY <1>7 DEF Quiet, vars
  <1> HIDE DEF Kept, Made, new, old
  <1>8. new = None \/ Kept \/ Made
    BY <1>1, <1>2, <1>3, <1>4, <1>5, <1>6, <1>7 DEF Next, Environment
  <1> QED
    BY <1>8 DEF Kept, Made, new, old

LEMMA RecordsMatchNext ==
    ASSUME TypeOK, Progress, RecordsMatch, [Next]_vars
    PROVE  RecordsMatch'
  <1> SUFFICES ASSUME NEW t \in Tenants, NEW k \in Keys, records'[<<t, k>>] # None
               PROVE  LET s == records'[<<t, k>>].answer IN
                      /\ pc'[s] # "idle"
                      /\ req'[s] \in Request
                      /\ req'[s].tenant = t
                      /\ req'[s].key = k
                      /\ req'[s].body = records'[<<t, k>>].body
    BY DEF RecordsMatch
  <1> DEFINE old == records[<<t, k>>]
             new == records'[<<t, k>>]
  <1>1. CASE old # None /\ new # None /\ new.body = old.body /\ new.answer = old.answer
    <2>1. old.answer \in Requests
      BY <1>1 DEF TypeOK, Record
    <2>2. pc[old.answer] # "idle"
      BY <1>1 DEF RecordsMatch
    <2>3. pc'[old.answer] # "idle" /\ req'[old.answer] = req[old.answer]
      BY <2>1, <2>2, ArrivedStays
    <2> QED
      BY <1>1, <2>3 DEF RecordsMatch
  <1>2. CASE \E r \in Requests :
                pc[r] \in {"store", "commit"} /\ Slot(r) = <<t, k>> /\ new = NewRecord(r)
    <2>1. PICK r \in Requests :
             pc[r] \in {"store", "commit"} /\ Slot(r) = <<t, k>> /\ new = NewRecord(r)
      BY <1>2
    <2>2. pc'[r] # "idle" /\ req'[r] = req[r]
      BY <2>1, ArrivedStays
    <2>3. req[r] \in Request /\ req[r].tenant = t /\ req[r].key = k
      BY <2>1 DEF Progress, InFlight, Handling, Slot
    <2>4. new.answer = r /\ new.body = req[r].body
      BY <2>1 DEF NewRecord
    <2> QED
      BY <2>2, <2>3, <2>4
  <1> QED
    BY <1>1, <1>2, HowRecordsChange

\* An answer is set by the request's own response, or copied from a record.
LEMMA HowAnswersChange ==
    ASSUME TypeOK, [Next]_vars, NEW r \in Requests, answer'[r] # answer[r]
    PROVE  /\ pc[r] # "idle"
           /\ \/ answer'[r] = r
              \/ LookupReplay(r)
  <1>1. ASSUME NEW s \in Requests, Arrive(s) \/ Step(s) \/ DbFault(s) PROVE s = r
    BY <1>1, StepIsLocal
  <1>2. ASSUME Arrive(r) \/ DbFault(r) PROVE FALSE
    BY <1>2 DEF Arrive, Reject, Refuse, Admit, DbFault
  <1>3. ASSUME Step(r) PROVE Respond(r) \/ LookupReplay(r)
    BY <1>3
    DEF Step, Lookup, LookupConflict, LookupMiss, GetActiveBundle, Evaluate,
        EvaluateRefused, ReadHeadAndBuild, Flush, InsertEvent, InsertEventFails,
        InsertReceipt, InsertReceiptFails, StoreDurable, StoreInMemory, Teardown,
        Refuse
  <1>4. ASSUME Environment PROVE \E s \in Requests : DbFault(s)
    BY <1>4 DEF Environment, Crash, Expire, ActivateBundle, local
  <1>5. Respond(r) \/ LookupReplay(r)
    BY <1>1, <1>2, <1>3, <1>4 DEF Next, Quiet, vars, local
  <1> QED
    BY <1>5 DEF Respond, LookupReplay, Goto, TypeOK

\* A replay carries the answer of a record that matches the request.
LEMMA ReplayedRecord ==
    ASSUME TypeOK, Progress, RecordsMatch, NEW r \in Requests, LookupReplay(r)
    PROVE  LET s == answer'[r] IN
           /\ s \in Requests
           /\ pc[s] # "idle" /\ pc[r] # "idle"
           /\ req[s].tenant = req[r].tenant
           /\ req[s].key = req[r].key
           /\ req[s].body = req[r].body
  <1> DEFINE t == req[r].tenant
             k == req[r].key
  <1>1. pc[r] = "lookup" /\ req[r] \in Request /\ k \in Keys
    BY DEF LookupReplay, Goto, Progress, InFlight, Handling
  <1>2. t \in Tenants /\ RecordFor(r) = records[<<t, k>>]
    BY <1>1 DEF Request, RecordFor, Slot
  <1>3. /\ RecordFor(r) # None
        /\ RecordFor(r).body = req[r].body
        /\ answer'[r] = RecordFor(r).answer
    BY DEF LookupReplay, HasLiveRecord, TypeOK
  <1>4. RecordFor(r) \in Record
    BY <1>1, <1>2, <1>3 DEF TypeOK
  <1> QED
    BY <1>1, <1>2, <1>3, <1>4 DEF RecordsMatch, Record

LEMMA AnswersMatchNext ==
    ASSUME TypeOK, Progress, RecordsMatch, AnswersMatch, [Next]_vars
    PROVE  AnswersMatch'
  <1> SUFFICES ASSUME NEW r \in Requests
               PROVE  /\ pc'[r] = "idle" => answer'[r] = None
                      /\ answer'[r] \notin {None, r} => pc'[answer'[r]] # "idle"
    BY DEF AnswersMatch
  <1>1. CASE answer'[r] = answer[r]
    <2>1. pc'[r] = "idle" => pc[r] = "idle"
      BY ArrivedStays
    <2>2. answer[r] \in Requests \cup {None}
      BY DEF TypeOK
    <2>3. answer[r] \notin {None, r} => pc'[answer[r]] # "idle"
      BY <2>2, ArrivedStays DEF AnswersMatch
    <2> QED
      BY <1>1, <2>1, <2>3 DEF AnswersMatch
  <1>2. CASE answer'[r] # answer[r]
    <2>1. pc[r] # "idle" /\ (answer'[r] = r \/ LookupReplay(r))
      BY <1>2, HowAnswersChange
    <2>2. LookupReplay(r) => answer'[r] \in Requests /\ pc[answer'[r]] # "idle"
      BY ReplayedRecord
    <2> QED
      BY <2>1, <2>2, ArrivedStays
  <1> QED
    BY <1>1, <1>2

LEMMA ReplayMatchesNext ==
    ASSUME TypeOK, Progress, RecordsMatch, AnswersMatch, ReplayMatchesRequest,
           [Next]_vars
    PROVE  ReplayMatchesRequest'
  <1> SUFFICES ASSUME NEW r \in Requests, answer'[r] \notin {None, r}
               PROVE  LET s == answer'[r] IN
                      /\ req'[s].tenant = req'[r].tenant
                      /\ req'[s].key = req'[r].key
                      /\ req'[s].body = req'[r].body
    BY DEF ReplayMatchesRequest
  <1> DEFINE s == answer'[r]
  <1>1. CASE answer'[r] = answer[r]
    <2>1. s \in Requests
      BY <1>1 DEF TypeOK
    <2>2. pc[r] # "idle" /\ pc[s] # "idle"
      BY <1>1 DEF AnswersMatch
    <2>3. req'[r] = req[r] /\ req'[s] = req[s]
      BY <2>1, <2>2, ArrivedStays
    <2> QED
      BY <1>1, <2>3 DEF ReplayMatchesRequest
  <1>2. CASE answer'[r] # answer[r]
    <2>1. LookupReplay(r)
      BY <1>2, HowAnswersChange
    <2>2. UNCHANGED req
      BY <2>1 DEF LookupReplay
    <2> QED
      BY <2>1, <2>2, ReplayedRecord
  <1> QED
    BY <1>1, <1>2

\* A durable record comes in with the receipt it replays, and receipts stay.
LEMMA RecordsAreBackedNext ==
    ASSUME DurableStore, ChainInv, RecordsAreBacked, [Next]_vars
    PROVE  RecordsAreBacked'
  <1> SUFFICES ASSUME NEW t \in Tenants, NEW k \in Keys, records'[<<t, k>>] # None
               PROVE  \E x \in receipts' :
                        /\ x.hash = records'[<<t, k>>].answer
                        /\ req'[x.hash].tenant = t
                        /\ req'[x.hash].key = k
                        /\ req'[x.hash].body = records'[<<t, k>>].body
    BY DEF RecordsAreBacked
  <1> DEFINE old == records[<<t, k>>]
             new == records'[<<t, k>>]
  <1>1. CASE old # None /\ new # None /\ new.body = old.body /\ new.answer = old.answer
    <2>1. PICK x \in receipts :
             /\ x.hash = old.answer
             /\ req[x.hash].tenant = t
             /\ req[x.hash].key = k
             /\ req[x.hash].body = old.body
      BY <1>1 DEF RecordsAreBacked
    <2>2. x.hash \in Requests /\ pc[x.hash] = "done"
      BY DEF ChainInv, TypeOK, Receipt, Issued
    <2>3. x \in receipts' /\ req'[x.hash] = req[x.hash]
      BY <2>2, ReceiptsOnlyGrow, DoneStays DEF ChainInv
    <2> QED
      BY <1>1, <2>1, <2>3
  <1>2. CASE \E r \in Requests :
                /\ Slot(r) = <<t, k>> /\ new = NewRecord(r)
                /\ pc[r] = "commit" /\ receipts' = receipts \cup {rec[r]}
    <2>1. PICK r \in Requests :
             /\ Slot(r) = <<t, k>> /\ new = NewRecord(r)
             /\ pc[r] = "commit" /\ receipts' = receipts \cup {rec[r]}
      BY <1>2
    <2>2. rec[r].hash = r
      BY <2>1 DEF ChainInv, Progress, HasReceipt, WellBuilt
    <2>3. req'[r] = req[r]
      BY <2>1, ArrivedStays DEF ChainInv
    <2>4. req[r].tenant = t /\ req[r].key = k /\ new.answer = r /\ new.body = req[r].body
      BY <2>1 DEF Slot, NewRecord
    <2> QED
      BY <2>1, <2>2, <2>3, <2>4
  <1> QED
    BY <1>1, <1>2, HowRecordsChange DEF ChainInv

-----------------------------------------------------------------------------
(* Who holds a key *)

\* An open transaction comes to hold a key by the durable store only, and a
\* request comes to its response by storing it, or without a key.
LEMMA HowKeysAreStored ==
    ASSUME TypeOK, [Next]_vars, NEW r \in Requests
    PROVE  /\ stored'[r] => (stored[r] /\ ~Teardown(r)) \/ StoreDurable(r)
           /\ pc'[r] \in {"respond", "commit"} =>
                 \/ pc[r] \in {"respond", "commit"} /\ stored'[r] = stored[r]
                 \/ StoreDurable(r) \/ StoreInMemory(r)
                 \/ req'[r] = req[r] /\ req[r].key = None
  <1> DEFINE Done == /\ stored'[r] => (stored[r] /\ ~Teardown(r)) \/ StoreDurable(r)
                     /\ pc'[r] \in {"respond", "commit"} =>
                           \/ pc[r] \in {"respond", "commit"} /\ stored'[r] = stored[r]
                           \/ StoreDurable(r) \/ StoreInMemory(r)
                           \/ req'[r] = req[r] /\ req[r].key = None
  <1>1. ASSUME stored'[r] = stored[r], pc'[r] = pc[r] PROVE Done
    <2>1. ~Teardown(r)
      BY <1>1 DEF Teardown, Goto, TypeOK
    <2> QED
      BY <1>1, <2>1
  <1>2. ASSUME NEW s \in Requests, Arrive(s) \/ Step(s) \/ DbFault(s), s # r PROVE Done
    BY <1>1, <1>2, StepIsLocal
  <1>3. ASSUME Arrive(r) \/ DbFault(r) PROVE Done
    <2>1. pc'[r] \notin {"respond", "commit"} /\ (Arrive(r) => stored'[r] = stored[r])
          /\ (DbFault(r) => ~stored'[r])
      BY <1>3 DEF Arrive, Reject, Refuse, Admit, DbFault, Goto, TypeOK
    <2>2. Arrive(r) => ~Teardown(r)
      BY DEF Arrive, Reject, Refuse, Admit, Teardown, Goto
    <2> QED
      BY <1>3, <2>1, <2>2
  <1>4. ASSUME Step(r) PROVE Done
    <2> USE DEF TypeOK, Goto, Refuse
    <2>1. CASE Lookup(r) \/ GetActiveBundle(r) \/ Evaluate(r) \/ EvaluateRefused(r)
               \/ ReadHeadAndBuild(r)
      <3>1. pc'[r] \notin {"respond", "commit"} /\ stored'[r] = stored[r] /\ pc[r] # "commit"
        BY <2>1 DEF Lookup, LookupReplay, LookupConflict, LookupMiss, GetActiveBundle, Evaluate,
                    EvaluateRefused, ReadHeadAndBuild
      <3>2. ~Teardown(r)
        BY <3>1 DEF Teardown
      <3> QED
        BY <3>1, <3>2
    <2>2. CASE Flush(r)
      <3>1. /\ stored'[r] = stored[r] /\ pc[r] # "commit" /\ req'[r] = req[r]
            /\ pc'[r] \in {"respond", "commit"} => req[r].key = None
        BY <2>2 DEF Flush, InsertEvent, InsertEventFails, InsertReceipt, InsertReceiptFails
      <3>2. ~Teardown(r)
        BY <3>1 DEF Teardown
      <3> QED
        BY <3>1, <3>2
    <2>3. CASE StoreDurable(r)
      BY <2>3
    <2>4. CASE StoreInMemory(r)
      <3>1. stored'[r] = stored[r] /\ pc[r] # "commit"
        BY <2>4 DEF StoreInMemory
      <3>2. ~Teardown(r)
        BY <3>1 DEF Teardown
      <3> QED
        BY <2>4, <3>1, <3>2
    <2>5. CASE Respond(r)
      <3>1. stored'[r] = stored[r] /\ pc[r] = "respond"
        BY <2>5 DEF Respond
      <3>2. ~Teardown(r)
        BY <3>1 DEF Teardown
      <3> QED
        BY <3>1, <3>2
    <2>6. CASE Teardown(r)
      BY <2>6 DEF Teardown
    <2> QED
      BY <1>4, <2>1, <2>2, <2>3, <2>4, <2>5, <2>6 DEF Step
  <1>5. ASSUME Crash PROVE Done
    <2>1. ~stored'[r] /\ pc'[r] \notin {"respond", "commit"}
      BY <1>5 DEF Crash, InFlight, Handling
    <2> QED
      BY <2>1
  <1>6. ASSUME UNCHANGED local PROVE Done
    BY <1>1, <1>6 DEF local
  <1> HIDE DEF Done
  <1>7. Environment => Done
    BY <1>2, <1>3, <1>5, <1>6 DEF Environment, Expire, ActivateBundle
  <1>8. Done
    BY <1>2, <1>3, <1>4, <1>6, <1>7 DEF Next, Quiet, vars
  <1> QED
    BY <1>8 DEF Done

\* The durable store loses no record, and gets one in a commit only.
LEMMA DurableRecordsStay ==
    ASSUME DurableStore, TypeOK, Progress, [Next]_vars, NEW t \in Tenants, NEW k \in Keys
    PROVE  /\ records[<<t, k>>] # None => records'[<<t, k>>] # None
           /\ records[<<t, k>>] = None /\ records'[<<t, k>>] # None =>
                 \E r \in Requests : Teardown(r) /\ stored[r] /\ Slot(r) = <<t, k>>
  <1> DEFINE old == records[<<t, k>>]
             new == records'[<<t, k>>]
             Made == \E r \in Requests : Teardown(r) /\ stored[r] /\ Slot(r) = <<t, k>>
             Done == (old # None => new # None) /\ (old = None /\ new # None => Made)
  <1>0. <<t, k>> \in Tenants \X Keys
    OBVIOUS
  <1>1. ASSUME records' = records PROVE Done
    BY <1>1
  <1>2. ASSUME NEW r \in Requests, Step(r) PROVE Done
    <2>1. CASE Teardown(r)
      <3>1. CASE stored[r] /\ Slot(r) = <<t, k>>
        <4>1. new = old \/ new = NewRecord(r)
          BY <1>0, <2>1, <3>1 DEF Teardown, TypeOK
        <4>2. NewRecord(r) # None
          <5>1. req[r] \in Request
            BY <2>1 DEF Teardown, Goto, Progress, InFlight
          <5>2. NewRecord(r) \in Record
            BY <5>1 DEF NewRecord, Record, Request
          <5> QED
            BY <5>2, NoneIsFresh
        <4>3. Made
          BY <2>1, <3>1
        <4> QED
          BY <4>1, <4>2, <4>3
      <3>2. CASE ~(stored[r] /\ Slot(r) = <<t, k>>)
        <4>1. new = old
          BY <1>0, <2>1, <3>2 DEF Teardown, TypeOK
        <4> QED
          BY <4>1
      <3> QED
        BY <3>1, <3>2
    <2>2. CASE ~Teardown(r)
      <3>1. records' = records
        BY <1>2, <2>2
        DEF Step, Lookup, LookupReplay, LookupConflict, LookupMiss, GetActiveBundle, Evaluate,
            EvaluateRefused, ReadHeadAndBuild, Flush, InsertEvent, InsertEventFails,
            InsertReceipt, InsertReceiptFails, StoreDurable, StoreInMemory, Respond
      <3> QED
        BY <1>1, <3>1
    <2> QED
      BY <2>1, <2>2
  <1>3. ASSUME NEW r \in Requests, Arrive(r) \/ DbFault(r) PROVE records' = records
    BY <1>3 DEF Arrive, Reject, Admit, DbFault
  <1>4. ASSUME NEW t2 \in Tenants, NEW k2 \in Keys, Expire(t2, k2) PROVE Done
    <2>1. CASE <<t2, k2>> # <<t, k>>
      BY <1>0, <1>4, <2>1 DEF Expire, TypeOK
    <2>2. CASE <<t2, k2>> = <<t, k>>
      <3>1. old \in Record /\ old # None
        BY <1>0, <1>4, <2>2 DEF Expire, TypeOK
      <3>2. new = [old EXCEPT !.live = FALSE]
        BY <1>0, <1>4, <2>2 DEF Expire, TypeOK
      <3>3. new \in Record
        BY <3>1, <3>2 DEF Record
      <3> QED
        BY <3>1, <3>3, NoneIsFresh
    <2> QED
      BY <2>1, <2>2
  <1>5. Crash \/ (\E t2 \in Tenants : ActivateBundle(t2)) \/ Quiet \/ UNCHANGED vars
            => records' = records
    BY DEF Crash, ActivateBundle, Quiet, vars
  <1> HIDE DEF Done
  <1>6. Done
    BY <1>1, <1>2, <1>3, <1>4, <1>5 DEF Next, Environment
  <1> QED
    BY <1>6 DEF Done

LEMMA SlotsAreKeys ==
    ASSUME NEW r \in Requests, req[r] \in Request, req[r].key # None
    PROVE  /\ req[r].tenant \in Tenants /\ req[r].key \in Keys
           /\ Slot(r) = <<req[r].tenant, req[r].key>>
           /\ RecordFor(r) = records[<<req[r].tenant, req[r].key>>]
  BY DEF Request, Slot, RecordFor

LEMMA KeysAreHeldNext ==
    ASSUME TypeOK, Progress, Issued, KeysAreHeld, [Next]_vars
    PROVE  KeysAreHeld'
  <1> SUFFICES ASSUME DurableStore
               PROVE  /\ \A r \in Requests : stored'[r] => RecordFor(r)' = None
                      /\ \A r, s \in Requests :
                            stored'[r] /\ stored'[s] /\ r # s => Slot(r)' # Slot(s)'
                      /\ \A r \in Requests :
                            pc'[r] \in {"respond", "commit"} /\ req'[r].key # None =>
                                stored'[r] \/ RecordFor(r)' # None
                      /\ \A x \in receipts' :
                            req'[x.hash].key # None => RecordFor(x.hash)' # None
    BY DEF KeysAreHeld
  <1>1. /\ \A r \in Requests : stored[r] => RecordFor(r) = None
        /\ \A r, s \in Requests : stored[r] /\ stored[s] /\ r # s => Slot(r) # Slot(s)
        /\ \A r \in Requests :
              pc[r] \in {"respond", "commit"} /\ req[r].key # None =>
                  stored[r] \/ RecordFor(r) # None
        /\ \A x \in receipts : req[x.hash].key # None => RecordFor(x.hash) # None
    BY DEF KeysAreHeld
  <1>2. ASSUME NEW r \in Requests, pc[r] # "idle"
        PROVE  req'[r] = req[r] /\ Slot(r)' = Slot(r) /\ RecordFor(r)' = records'[Slot(r)]
    <2>1. req'[r] = req[r]
      BY <1>2, ArrivedStays
    <2> QED
      BY <2>1 DEF Slot, RecordFor
  <1>3. ASSUME NEW r \in Requests, pc[r] \in InFlight
        PROVE  pc[r] # "idle" /\ req[r] \in Request
    BY <1>3 DEF InFlight, Handling, Progress
  <1>4. ASSUME NEW r \in Requests, pc[r] # "idle", req[r] \in Request, req[r].key # None,
               RecordFor(r) # None
        PROVE  RecordFor(r)' # None
    <2>1. PICK t \in Tenants, k \in Keys : Slot(r) = <<t, k>>
      BY <1>4, SlotsAreKeys
    <2>2. records[<<t, k>>] # None
      BY <1>4, <2>1 DEF RecordFor
    <2>3. records'[<<t, k>>] # None
      BY <2>2, DurableRecordsStay
    <2> QED
      BY <1>2, <1>4, <2>1, <2>3
  <1>5. ASSUME NEW r \in Requests, stored[r]
        PROVE  pc[r] \in InFlight /\ req[r].key \in Keys /\ req[r].key # None
    BY <1>5, NoneIsFresh DEF Progress, InFlight, Handling
  <1>6. ASSUME NEW r \in Requests, StoreDurable(r)
        PROVE  /\ pc[r] \in InFlight /\ records' = records /\ KeyFree(r)
               /\ stored'[r] = (RecordFor(r) = None)
               /\ \A s \in Requests \ {r} : stored'[s] = stored[s]
    BY <1>6 DEF StoreDurable, Goto, InFlight, Handling, TypeOK
  <1>7. ASSUME NEW r \in Requests, stored'[r] PROVE RecordFor(r)' = None
    <2>1. CASE StoreDurable(r)
      BY <1>2, <1>3, <1>6, <1>7, <2>1 DEF RecordFor
    <2>2. CASE ~StoreDurable(r)
      <3>1. stored[r] /\ ~Teardown(r)
        BY <1>7, <2>2, HowKeysAreStored
      <3>2. PICK t \in Tenants, k \in Keys : Slot(r) = <<t, k>>
        BY <1>3, <1>5, <3>1, SlotsAreKeys
      <3>3. records[<<t, k>>] = None
        BY <1>1, <3>1, <3>2 DEF RecordFor
      <3>4. \A s \in Requests : ~(Teardown(s) /\ stored[s] /\ Slot(s) = <<t, k>>)
        BY <1>1, <3>1, <3>2
      <3>5. records'[<<t, k>>] = None
        BY <3>3, <3>4, DurableRecordsStay
      <3> QED
        BY <1>2, <1>3, <1>5, <3>1, <3>2, <3>5
    <2> QED
      BY <2>1, <2>2
  <1>8. ASSUME NEW r \in Requests, NEW s \in Requests, stored'[r], stored'[s], r # s
        PROVE  Slot(r)' # Slot(s)'
    <2>1. ASSUME NEW a \in Requests, NEW b \in Requests, a # b, StoreDurable(a), stored'[b]
          PROVE  Slot(a)' # Slot(b)'
      <3>1. stored[b] /\ Slot(b) # Slot(a)
        BY <1>6, <2>1 DEF KeyFree
      <3> QED
        BY <1>2, <1>3, <1>5, <1>6, <2>1, <3>1
    <2>2. CASE StoreDurable(r) \/ StoreDurable(s)
      BY <1>8, <2>1, <2>2
    <2>3. CASE ~StoreDurable(r) /\ ~StoreDurable(s)
      <3>1. stored[r] /\ stored[s]
        BY <1>8, <2>3, HowKeysAreStored
      <3> QED
        BY <1>1, <1>2, <1>3, <1>5, <1>8, <3>1
    <2> QED
      BY <2>2, <2>3
  <1>9. ASSUME NEW r \in Requests, pc'[r] \in {"respond", "commit"}, req'[r].key # None
        PROVE  stored'[r] \/ RecordFor(r)' # None
    <2>1. CASE StoreDurable(r)
      BY <1>2, <1>3, <1>6, <2>1 DEF RecordFor
    <2>2. CASE ~StoreDurable(r)
      <3>1. pc[r] \in {"respond", "commit"} /\ stored'[r] = stored[r]
        BY <1>9, <2>2, HowKeysAreStored DEF StoreInMemory
      <3>2. pc[r] \in InFlight
        BY <3>1 DEF InFlight, Handling
      <3>3. req'[r] = req[r] /\ req[r] \in Request
        BY <1>2, <1>3, <3>2
      <3>4. stored[r] \/ RecordFor(r) # None
        BY <1>1, <1>9, <3>1, <3>3
      <3>5. RecordFor(r) # None => RecordFor(r)' # None
        BY <1>3, <1>9, <1>4, <3>2, <3>3
      <3> QED
        BY <3>1, <3>4, <3>5
    <2> QED
      BY <2>1, <2>2
  <1>10. ASSUME NEW x \in receipts', req'[x.hash].key # None PROVE RecordFor(x.hash)' # None
    <2>1. CASE x \in receipts
      <3>1. x.hash \in Requests /\ pc[x.hash] = "done" /\ req[x.hash] \in Request
        BY <2>1 DEF TypeOK, Receipt, Issued
      <3>2. req'[x.hash] = req[x.hash]
        BY <1>2, <3>1
      <3>3. RecordFor(x.hash) # None
        BY <1>1, <1>10, <2>1, <3>2
      <3> QED
        BY <1>10, <1>4, <3>1, <3>2, <3>3
    <2>2. CASE x \notin receipts
      <3>1. PICK r \in Requests :
                Teardown(r) /\ pc[r] = "commit" /\ receipts' = receipts \cup {rec[r]}
        BY <1>10, <2>2, OneCommitAtATime
      <3>2. x = rec[r] /\ rec[r].hash = r
        BY <1>10, <2>2, <3>1 DEF Progress, HasReceipt, WellBuilt
      <3>3. pc[r] \in InFlight
        BY <3>1 DEF InFlight
      <3>4. req'[r] = req[r] /\ req[r] \in Request /\ req[r].key # None
        BY <1>2, <1>3, <1>10, <3>2, <3>3
      <3>5. PICK t \in Tenants, k \in Keys : Slot(r) = <<t, k>>
        BY <3>4, SlotsAreKeys
      <3>6. CASE RecordFor(r) # None
        BY <1>2, <1>3, <3>2, <3>3, <3>5, <3>6, DurableRecordsStay DEF RecordFor
      <3>7. CASE RecordFor(r) = None
        <4>1. stored[r]
          BY <1>1, <3>1, <3>4, <3>7
        <4>2. SessionCommits
          BY <2>2, <3>1, <1>10 DEF Teardown
        <4>3. records'[<<t, k>>] = NewRecord(r)
          BY <3>1, <3>5, <4>1, <4>2 DEF Teardown, TypeOK
        <4>4. NewRecord(r) \in Record
          BY <3>4 DEF NewRecord, Record, Request
        <4> QED
          BY <1>2, <1>3, <3>2, <3>3, <3>5, <4>3, <4>4, NoneIsFresh
      <3> QED
        BY <3>6, <3>7
    <2> QED
      BY <2>1, <2>2
  <1> QED
    BY <1>7, <1>8, <1>9, <1>10

-----------------------------------------------------------------------------
LEMMA IInvInit == Init => IInv
  BY ChainInvInit
  DEF Init, IInv, RecordsMatch, AnswersMatch, ReplayMatchesRequest, RecordsAreBacked, KeysAreHeld

LEMMA IInvNext == IInv /\ [Next]_vars => IInv'
  BY ChainInvNext, RecordsMatchNext, AnswersMatchNext, ReplayMatchesNext,
     RecordsAreBackedNext, KeysAreHeldNext
  DEF IInv, ChainInv

\* The whole inductive invariant holds in every reachable state.
THEOREM IngestInvariantHolds == Spec => []IInv
  BY IInvInit, IInvNext, PTL DEF Spec

\* A replayed 201 always carries a receipt issued for the same tenant, key
\* and body, with either store and through crashes and expiries.
THEOREM ReplaysMatch == Spec => []ReplayMatchesRequest
  <1>1. IInv => ReplayMatchesRequest
    BY DEF IInv
  <1> QED
    BY <1>1, IngestInvariantHolds, PTL

\* With the Postgres store, a record always stands beside the committed
\* receipt it replays: the two cannot be torn apart.
THEOREM DurableRecordsAreBacked ==
    ASSUME DurableStore
    PROVE  Spec => []RecordsAreBacked
  <1>1. IInv => RecordsAreBacked
    BY DEF IInv
  <1> QED
    BY <1>1, IngestInvariantHolds, PTL

\* With the Postgres store no request is let through to ingest once a receipt
\* is durable under its key, but after the record has expired: a receipt and the
\* record of its key are committed together, and the record is never removed.
THEOREM FreshMeansNeverDurable ==
    ASSUME DurableStore
    PROVE  Spec => FreshOnlyIfNeverDurable
  <1>1. ASSUME IInv, NEW r \in Requests, LookupMiss(r), RecordFor(r) = None, NEW x \in receipts
        PROVE  req[x.hash].tenant # req[r].tenant \/ req[x.hash].key # req[r].key
    <2>1. req[r].key \in Keys
      BY <1>1 DEF IInv, ChainInv, Progress, LookupMiss, Goto
    <2>2. x.hash \in Requests
      BY <1>1 DEF IInv, ChainInv, TypeOK, Receipt
    <2>3. req[x.hash].key # None => RecordFor(x.hash) # None
      BY <1>1 DEF IInv, KeysAreHeld
    <2> QED
      BY <1>1, <2>1, <2>3, NoneIsFresh DEF RecordFor, Slot
  <1>2. IInv /\ [Next]_vars =>
            [\A r \in Requests :
                LookupMiss(r) /\ RecordFor(r) = None =>
                    \A x \in receipts :
                        \/ req[x.hash].tenant # req[r].tenant
                        \/ req[x.hash].key # req[r].key]_vars
    BY <1>1
  <1> QED
    BY <1>2, IngestInvariantHolds, PTL DEF Spec, FreshOnlyIfNeverDurable

\* Only a step of the store touches a record that lives: a lookup in memory
\* removes expired ones, and a response is stored where there is none.
LEMMA FirstResponseStays ==
    ASSUME IInv, [Next]_vars, NEW t \in Tenants, NEW k \in Keys,
           records[<<t, k>>] # None, records[<<t, k>>].live
    PROVE  \/ /\ records'[<<t, k>>] # None
              /\ records'[<<t, k>>].body = records[<<t, k>>].body
              /\ records'[<<t, k>>].answer = records[<<t, k>>].answer
           \/ ~DurableStore /\ crashes' # crashes
  <1> DEFINE old == records[<<t, k>>]
             new == records'[<<t, k>>]
             Kept == new # None /\ new.body = old.body /\ new.answer = old.answer
             Done == Kept \/ (~DurableStore /\ crashes' # crashes)
  <1>0. <<t, k>> \in Tenants \X Keys /\ TypeOK /\ Progress
    BY DEF IInv, ChainInv
  <1>1. new = old => Done
    OBVIOUS
  <1>2. ASSUME NEW r \in Requests, Step(r) PROVE Done
    <2>1. CASE LookupMiss(r)
      <3>1. Slot(r) = <<t, k>> => HasLiveRecord(r)
        BY DEF HasLiveRecord, RecordFor
      <3>2. Slot(r) # <<t, k>>
        BY <2>1, <3>1 DEF LookupMiss
      <3>3. new = old
        BY <1>0, <2>1, <3>2 DEF LookupMiss, TypeOK
      <3> QED
        BY <1>1, <3>3
    <2>2. CASE StoreInMemory(r)
      <3>1. Slot(r) = <<t, k>> => records' = records
        BY <2>2 DEF StoreInMemory, RecordFor
      <3>2. Slot(r) # <<t, k>> => new = old
        BY <1>0, <2>2 DEF StoreInMemory, TypeOK
      <3> QED
        BY <1>1, <3>1, <3>2
    <2>3. CASE Teardown(r)
      <3>1. stored[r] => DurableStore /\ RecordFor(r) = None
        BY <1>0 DEF IInv, KeysAreHeld, Progress
      <3>2. stored[r] => Slot(r) # <<t, k>>
        BY <3>1 DEF RecordFor
      <3>3. new = old
        BY <1>0, <2>3, <3>2 DEF Teardown, TypeOK
      <3> QED
        BY <1>1, <3>3
    <2>4. CASE ~LookupMiss(r) /\ ~StoreInMemory(r) /\ ~Teardown(r)
      <3>1. records' = records
        BY <1>2, <2>4
        DEF Step, Lookup, LookupReplay, LookupConflict, GetActiveBundle, Evaluate,
            EvaluateRefused, ReadHeadAndBuild, Flush, InsertEvent, InsertEventFails,
            InsertReceipt, InsertReceiptFails, StoreDurable, Respond
      <3> QED
        BY <1>1, <3>1
    <2> QED
      BY <2>1, <2>2, <2>3, <2>4
  <1>3. ASSUME NEW r \in Requests, Arrive(r) \/ DbFault(r) PROVE new = old
    BY <1>3 DEF Arrive, Reject, Admit, DbFault
  <1>4. ASSUME Crash PROVE Done
    <2>1. DurableStore => new = old
      BY <1>4 DEF Crash
    <2>2. crashes' # crashes
      BY <1>0, <1>4 DEF Crash, TypeOK, bounds
    <2> QED
      BY <1>1, <2>1, <2>2
  <1>5. ASSUME NEW t2 \in Tenants, NEW k2 \in Keys, Expire(t2, k2) PROVE Done
    <2>1. CASE <<t2, k2>> # <<t, k>>
      BY <1>0, <1>1, <1>5, <2>1 DEF Expire, TypeOK
    <2>2. CASE <<t2, k2>> = <<t, k>>
      <3>1. old \in Record
        BY <1>0 DEF TypeOK
      <3>2. new = [old EXCEPT !.live = FALSE]
        BY <1>0, <1>5, <2>2 DEF Expire, TypeOK
      <3>3. new.body = old.body /\ new.answer = old.answer /\ new \in Record
        BY <3>1, <3>2 DEF Record
      <3> QED
        BY <3>3, NoneIsFresh
    <2> QED
      BY <2>1, <2>2
  <1>6. (\E t2 \in Tenants : ActivateBundle(t2)) \/ Quiet \/ UNCHANGED vars => new = old
    BY DEF ActivateBundle, Quiet, vars
  <1> HIDE DEF Done, new, old
  <1>7. Done
    BY <1>1, <1>2, <1>3, <1>4, <1>5, <1>6 DEF Next, Environment
  <1> QED
    BY <1>7 DEF Done, new, old

\* With either store, the response that was stored first under a key stands as
\* long as its record lives, whoever else computes one; only a restart empties
\* the store in memory.
THEOREM FirstResponsesStand == Spec => FirstResponseStands
  <1>1. IInv /\ [Next]_vars =>
            [\A t \in Tenants, k \in Keys :
                records[<<t, k>>] # None /\ records[<<t, k>>].live =>
                    \/ /\ records'[<<t, k>>] # None
                       /\ records'[<<t, k>>].body = records[<<t, k>>].body
                       /\ records'[<<t, k>>].answer = records[<<t, k>>].answer
                    \/ ~DurableStore /\ crashes' # crashes]_vars
    BY FirstResponseStays
  <1> QED
    BY <1>1, IngestInvariantHolds, PTL DEF Spec, FirstResponseStands
=============================================================================
