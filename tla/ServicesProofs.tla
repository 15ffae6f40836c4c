--------------------------- MODULE ServicesProofs ---------------------------
(***************************************************************************)
(* Proofs about the parts of Services, each with an invariant of its own:  *)
(* the export jobs (JobsInv), the narratives (NarrativeInv), the pool      *)
(* (PoolInv) and the tabletop comparisons (TabInv); those about uploads    *)
(* are in UploadProofs.  No part touches the variables of another.         *)
(***************************************************************************)
EXTENDS UploadProofs, SequenceTheorems

LEMMA Bounds ==
    /\ {MaxFaults, MaxCrashes, MaxReruns} \subseteq Nat
    /\ {MaxReceipts, MaxRetries, MaxRecorded} \subseteq Nat
  BY PartsAreBounded DEF Exports!JobBoundsAreNaturals, Narratives!NarrativeBoundsAreNaturals

-----------------------------------------------------------------------------
(* Export jobs *)

\* What the committed row of a job says, by how far its route or its runner has
\* come; and a job that is still to be claimed has not been worked on.
RowFits(j) ==
    /\ pc[j] \in {"idle", "create"} => status[j] = "none"
    /\ pc[j] = "schedule" => status[j] = "pending"
    /\ pc[j] = "claim" => status[j] # "none"
    /\ pc[j] \in {"build", "complete"} => status[j] = "running"
    /\ pc[j] = "fail" => status[j] \notin {"none", "pending"}
    /\ status[j] \in {"none", "pending"} => worked[j] = 0

JobsInv ==
    /\ Exports!TypeOK
    /\ OutcomeMatchesStatus
    /\ WorkedOnce
    /\ \A j \in Jobs : RowFits(j)

LEMMA JobsInvInit ==
    ASSUME Init
    PROVE  JobsInv
  BY Bounds
     DEF Init, Exports!Init, JobsInv, Exports!TypeOK, OutcomeMatchesStatus,
         Exports!OutcomeMatchesStatus, WorkedOnce, Exports!WorkedOnce, RowFits

\* Steps of other parts do not touch the jobs.
LEMMA ExportSteps ==
    ASSUME [Next]_vars
    PROVE  \/ UNCHANGED exports
           \/ \E j \in Jobs : \/ Exports!Post(j) \/ Exports!Route(j)
                              \/ Exports!Runner(j) \/ Exports!Rerun(j)
           \/ Exports!Crash
  BY DEF Next, vars, exports, Export, Upload, Narrate, Simulate, Share, Rest, Alone, NotPools,
         Exports!Next, Exports!Quiet, Exports!vars, Exports!row, Exports!bounds

\* A job's row goes to a status that may follow the one it has.
MayGo(from, to) ==
    <<from, to>> \in {<<"none", "pending">>, <<"pending", "running">>,
                      <<"running", "completed">>, <<"running", "failed">>}

\* The row of job j is as it was, or it goes a legal step.
RowMoves(j) ==
    \/ UNCHANGED Exports!row
    \/ \E s \in {"pending", "running", "completed", "failed"} :
           MayGo(status[j], s) /\ Exports!Write(j, s)

LEMMA RowsMoveLegally ==
    ASSUME JobsInv, NEW j \in Jobs,
           Exports!Post(j) \/ Exports!Route(j) \/ Exports!Runner(j) \/ Exports!Rerun(j)
    PROVE  RowMoves(j)
  <1>1. RowFits(j) /\ Exports!TypeOK
    BY DEF JobsInv
  <1>2. CASE Exports!Post(j) \/ Exports!Rerun(j)
    BY <1>2 DEF Exports!Post, Exports!Rerun, RowMoves
  <1>3. CASE Exports!Route(j)
    BY <1>1, <1>3
       DEF Exports!Route, Exports!CommitCreate, Exports!CommitCreateRaises, Exports!Schedule,
           Exports!CommitRaises, Exports!Goto, RowFits, RowMoves, MayGo
  <1>4. CASE Exports!Claim(j) \/ Exports!ClaimRefused(j) \/ Exports!ClaimRaises(j)
    BY <1>1, <1>4
       DEF Exports!Claim, Exports!ClaimRefused, Exports!ClaimRaises, Exports!MayClaim,
           Exports!CommitRaises, Exports!Goto, RowFits, RowMoves, MayGo
  <1>5. CASE Exports!Build(j) \/ Exports!BuildRaises(j)
    BY <1>5 DEF Exports!Build, Exports!BuildRaises, RowMoves
  <1>6. CASE Exports!Complete(j) \/ Exports!CompleteRaises(j)
    BY <1>1, <1>6
       DEF Exports!Complete, Exports!CompleteRaises, Exports!CommitRaises, Exports!Goto,
           RowFits, RowMoves, MayGo
  <1>7. CASE Exports!Fail(j) \/ Exports!FailRefused(j) \/ Exports!FailRaises(j)
    <2>1. Exports!MayFail(j) /\ pc[j] = "fail" => status[j] = "running"
      BY <1>1 DEF Exports!MayFail, Exports!Terminal, Exports!TypeOK, RowFits
    <2> QED
      BY <1>7, <2>1
         DEF Exports!Fail, Exports!FailRefused, Exports!FailRaises, Exports!CommitRaises,
             Exports!Goto, RowMoves, MayGo
  <1> QED
    BY <1>2, <1>3, <1>4, <1>5, <1>6, <1>7 DEF Exports!Runner

\* A legal step of a row keeps what the row says of the outcome.
LEMMA OutcomeNext ==
    ASSUME JobsInv, NEW j \in Jobs, RowMoves(j)
    PROVE  /\ OutcomeMatchesStatus'
           /\ status' \in [Jobs -> {"none", "pending", "running"} \cup Exports!Terminal]
           /\ result' \in [Jobs -> BOOLEAN] /\ error' \in [Jobs -> BOOLEAN]
           /\ \A k \in Jobs : status[k] # "none" => status'[k] # "none"
           /\ \A k \in Jobs \ {j} : status'[k] = status[k]
           /\ status'[j] = status[j] \/ MayGo(status[j], status'[j])
           /\ \A k \in Jobs : status[k] \in Exports!Terminal =>
                  status'[k] = status[k] /\ result'[k] = result[k] /\ error'[k] = error[k]
  <1>1. /\ status \in [Jobs -> {"none", "pending", "running", "completed", "failed"}]
        /\ result \in [Jobs -> BOOLEAN] /\ error \in [Jobs -> BOOLEAN]
        /\ \A k \in Jobs : /\ result[k] <=> status[k] = "completed"
                           /\ error[k] <=> status[k] = "failed"
    BY DEF JobsInv, Exports!TypeOK, Exports!Terminal, OutcomeMatchesStatus,
           Exports!OutcomeMatchesStatus
  <1>2. CASE UNCHANGED Exports!row
    <2>1. status' = status /\ result' = result /\ error' = error
      BY <1>2 DEF Exports!row
    <2>2. OutcomeMatchesStatus'
      BY <2>1 DEF JobsInv, OutcomeMatchesStatus, Exports!OutcomeMatchesStatus
    <2> QED
      BY <1>1, <2>1, <2>2 DEF Exports!Terminal
  <1>3. ASSUME NEW t \in {"pending", "running", "completed", "failed"},
               MayGo(status[j], t), Exports!Write(j, t)
        PROVE  /\ status' = [status EXCEPT ![j] = t]
               /\ result' = [result EXCEPT ![j] = (t = "completed")]
               /\ error' = [error EXCEPT ![j] = (t = "failed")]
               /\ status[j] \in {"none", "pending", "running"}
    <2>1. status[j] \in {"none", "pending", "running"}
      BY <1>3 DEF MayGo
    <2>2. ~ result[j] /\ ~ error[j]
      <3>1. status[j] # "completed" /\ status[j] # "failed"
        BY <2>1
      <3>2. (result[j] <=> status[j] = "completed") /\ (error[j] <=> status[j] = "failed")
        BY <1>1
      <3> QED
        BY <3>1, <3>2
    <2> QED
      BY <1>1, <1>3, <2>1, <2>2 DEF Exports!Write
  <1>4. ASSUME NEW t \in {"pending", "running", "completed", "failed"},
               MayGo(status[j], t), Exports!Write(j, t)
        PROVE  /\ status' \in [Jobs -> {"none", "pending", "running", "completed", "failed"}]
               /\ result' \in [Jobs -> BOOLEAN] /\ error' \in [Jobs -> BOOLEAN]
               /\ status'[j] = t /\ (result'[j] <=> t = "completed") /\ (error'[j] <=> t = "failed")
               /\ \A k \in Jobs \ {j} : /\ status'[k] = status[k] /\ result'[k] = result[k]
                                        /\ error'[k] = error[k]
    BY <1>1, <1>3, <1>4
  <1>5. ASSUME NEW t \in {"pending", "running", "completed", "failed"},
               MayGo(status[j], t), Exports!Write(j, t)
        PROVE  OutcomeMatchesStatus'
    <2>1. ASSUME NEW k \in Jobs
          PROVE  (result'[k] <=> status'[k] = "completed") /\ (error'[k] <=> status'[k] = "failed")
      <3>1. CASE k = j
        BY <1>4, <1>5, <3>1
      <3>2. CASE k # j
        <4>1. status'[k] = status[k] /\ result'[k] = result[k] /\ error'[k] = error[k]
          BY <1>4, <1>5, <3>2
        <4>2. (result[k] <=> status[k] = "completed") /\ (error[k] <=> status[k] = "failed")
          BY <1>1
        <4> QED
          BY <4>1, <4>2
      <3> QED
        BY <3>1, <3>2
    <2> QED
      BY <2>1 DEF OutcomeMatchesStatus, Exports!OutcomeMatchesStatus
  <1>6. CASE \E t \in {"pending", "running", "completed", "failed"} :
                 MayGo(status[j], t) /\ Exports!Write(j, t)
    <2>1. PICK t \in {"pending", "running", "completed", "failed"} :
                   MayGo(status[j], t) /\ Exports!Write(j, t)
      BY <1>6
    <2>2. /\ OutcomeMatchesStatus'
          /\ status' \in [Jobs -> {"none", "pending", "running"} \cup Exports!Terminal]
          /\ result' \in [Jobs -> BOOLEAN] /\ error' \in [Jobs -> BOOLEAN]
      BY <1>4, <1>5, <2>1 DEF Exports!Terminal
    <2>3. status'[j] = t
      BY <1>4, <2>1
    <2>4. \A k \in Jobs \ {j} : /\ status'[k] = status[k] /\ result'[k] = result[k]
                                /\ error'[k] = error[k]
      BY <1>4, <2>1
    <2>5. \A k \in Jobs : /\ status[k] # "none" => status'[k] # "none"
                          /\ status[k] \in Exports!Terminal => k # j
      <3>1. status[j] \in {"none", "pending", "running"}
        BY <1>3, <2>1
      <3>2. t # "none"
        OBVIOUS
      <3> QED
        BY <2>3, <2>4, <3>1, <3>2 DEF Exports!Terminal
    <2> QED
      BY <2>1, <2>2, <2>3, <2>4, <2>5
  <1> QED
    BY <1>2, <1>6 DEF RowMoves

\* The runner's steps and the rows they fit.
LEMMA RowFitsNext ==
    ASSUME JobsInv, NEW j \in Jobs,
           Exports!Post(j) \/ Exports!Route(j) \/ Exports!Runner(j) \/ Exports!Rerun(j)
    PROVE  /\ \A k \in Jobs : RowFits(k)'
           /\ worked' \in [Jobs -> 0 .. 1 + MaxReruns]
           /\ WorkedOnce'
  <1>0. RowMoves(j)
    BY RowsMoveLegally
  <1>1. /\ \A k \in Jobs : RowFits(k) /\ worked[k] <= 1
        /\ MaxReruns \in Nat
        /\ status \in [Jobs -> {"none", "pending", "running", "completed", "failed"}]
        /\ worked \in [Jobs -> 0 .. 1 + MaxReruns]
        /\ pc \in [Jobs -> {"idle", "create", "schedule", "claim", "build", "complete",
                            "fail", "gone"}]
    BY Bounds DEF JobsInv, Exports!TypeOK, Exports!Terminal, WorkedOnce, Exports!WorkedOnce
  <1> SUFFICES /\ \A k \in Jobs : RowFits(k)'
               /\ \A k \in Jobs : worked'[k] \in {0, 1}
               /\ worked' \in [Jobs -> Nat]
    BY <1>1 DEF WorkedOnce, Exports!WorkedOnce
  <1>2. CASE Exports!Post(j) \/ Exports!Rerun(j)
    BY <1>1, <1>2 DEF Exports!Post, Exports!Rerun, Exports!Goto, Exports!row, RowFits
  <1>3. CASE Exports!Route(j)
    BY <1>1, <1>3
       DEF Exports!Route, Exports!CommitCreate, Exports!CommitCreateRaises, Exports!Schedule,
           Exports!CommitRaises, Exports!Goto, Exports!Write, Exports!row, RowFits
  <1>4. CASE Exports!Claim(j) \/ Exports!ClaimRefused(j) \/ Exports!ClaimRaises(j)
    BY <1>1, <1>4
       DEF Exports!Claim, Exports!ClaimRefused, Exports!ClaimRaises, Exports!MayClaim,
           Exports!CommitRaises, Exports!Goto, Exports!Write, Exports!row, RowFits
  <1>5. CASE Exports!Build(j) \/ Exports!BuildRaises(j)
    BY <1>1, <1>5
       DEF Exports!Build, Exports!BuildRaises, Exports!Goto, Exports!row, RowFits
  <1>6. CASE Exports!Complete(j) \/ Exports!CompleteRaises(j)
    BY <1>1, <1>6
       DEF Exports!Complete, Exports!CompleteRaises, Exports!CommitRaises, Exports!Goto,
           Exports!Write, Exports!row, RowFits
  <1>7. CASE Exports!Fail(j) \/ Exports!FailRefused(j) \/ Exports!FailRaises(j)
    BY <1>1, <1>7
       DEF Exports!Fail, Exports!FailRefused, Exports!FailRaises, Exports!CommitRaises,
           Exports!Goto, Exports!Write, Exports!row, RowFits
  <1> QED
    BY <1>2, <1>3, <1>4, <1>5, <1>6, <1>7 DEF Exports!Runner

LEMMA JobTypesNext ==
    ASSUME JobsInv, NEW j \in Jobs,
           Exports!Post(j) \/ Exports!Route(j) \/ Exports!Runner(j) \/ Exports!Rerun(j)
    PROVE  Exports!TypeOK'
  <1>1. Exports!TypeOK /\ RowMoves(j) /\ {MaxFaults, MaxCrashes, MaxReruns} \subseteq Nat
    BY Bounds, RowsMoveLegally DEF JobsInv
  <1>2. pc' \in [Jobs -> {"idle", "create", "schedule", "claim", "build", "complete",
                          "fail", "gone"}]
    BY <1>1
       DEF Exports!TypeOK, Exports!Goto, Exports!Post, Exports!Rerun, Exports!Route, Exports!CommitCreate,
           Exports!CommitCreateRaises, Exports!Schedule, Exports!Runner, Exports!Claim, Exports!ClaimRefused,
           Exports!ClaimRaises, Exports!Build, Exports!BuildRaises, Exports!Complete,
           Exports!CompleteRaises, Exports!Fail, Exports!FailRefused, Exports!FailRaises
  <1>3. \/ UNCHANGED accepted
        \/ pc[j] = "schedule" /\ accepted' = accepted \cup {j}
    BY DEF Exports!Goto, Exports!Post, Exports!Rerun, Exports!Route, Exports!CommitCreate,
           Exports!CommitCreateRaises, Exports!Schedule, Exports!Runner, Exports!Claim, Exports!ClaimRefused,
           Exports!ClaimRaises, Exports!Build, Exports!BuildRaises, Exports!Complete,
           Exports!CompleteRaises, Exports!Fail, Exports!FailRefused, Exports!FailRaises
  <1>4. accepted' \subseteq {k \in Jobs : status'[k] # "none"}
    BY <1>1, <1>3, OutcomeNext DEF JobsInv, RowFits, Exports!TypeOK
  <1>5. /\ crashes' = crashes
        /\ \/ UNCHANGED faults
           \/ faults[j] < MaxFaults /\ faults' = [faults EXCEPT ![j] = @ + 1]
        /\ \/ UNCHANGED reruns
           \/ reruns[j] < MaxReruns /\ reruns' = [reruns EXCEPT ![j] = @ + 1]
    BY DEF Exports!CommitRaises, Exports!bounds, Exports!Post, Exports!Rerun, Exports!Route, Exports!CommitCreate,
           Exports!CommitCreateRaises, Exports!Schedule, Exports!Runner, Exports!Claim, Exports!ClaimRefused,
           Exports!ClaimRaises, Exports!Build, Exports!BuildRaises, Exports!Complete,
           Exports!CompleteRaises, Exports!Fail, Exports!FailRefused, Exports!FailRaises
  <1>6. /\ crashes' \in 0 .. MaxCrashes
        /\ faults' \in [Jobs -> 0 .. MaxFaults] /\ reruns' \in [Jobs -> 0 .. MaxReruns]
    BY <1>1, <1>5 DEF Exports!TypeOK
  <1> QED
    BY <1>1, <1>2, <1>4, <1>6, OutcomeNext, RowFitsNext DEF Exports!TypeOK

LEMMA JobsInvNext ==
    ASSUME JobsInv, [Next]_vars
    PROVE  JobsInv'
  <1>1. CASE UNCHANGED exports
    BY <1>1 DEF exports, JobsInv, Exports!TypeOK, OutcomeMatchesStatus,
                Exports!OutcomeMatchesStatus, WorkedOnce, Exports!WorkedOnce, RowFits
  <1>2. ASSUME NEW j \in Jobs,
               Exports!Post(j) \/ Exports!Route(j) \/ Exports!Runner(j) \/ Exports!Rerun(j)
        PROVE  JobsInv'
    BY <1>2, RowsMoveLegally, OutcomeNext, RowFitsNext, JobTypesNext DEF JobsInv
  <1>3. CASE Exports!Crash
    BY <1>3, Bounds
       DEF Exports!Crash, Exports!Resting, Exports!row, JobsInv, Exports!TypeOK,
           OutcomeMatchesStatus, Exports!OutcomeMatchesStatus, WorkedOnce, Exports!WorkedOnce,
           RowFits
  <1> QED
    BY <1>1, <1>2, <1>3, ExportSteps

\* The invariant of the export jobs.
THEOREM JobsInvariant == Spec => []JobsInv
  <1> QED
    BY JobsInvInit, JobsInvNext, PTL DEF Spec

\* A job has a result if and only if it is completed, and an error if and only
\* if it is failed, whichever commits are applied and reported as failed.
THEOREM OutcomesMatch == Spec => []OutcomeMatchesStatus
  <1>1. JobsInv => OutcomeMatchesStatus
    BY DEF JobsInv
  <1> QED
    BY <1>1, JobsInvariant, PTL

\* However often a job is handed to a runner, and wherever the one before it
\* was interrupted, its export is built at most once.
THEOREM JobsAreWorkedOnce == Spec => []WorkedOnce
  <1>1. JobsInv => WorkedOnce
    BY DEF JobsInv
  <1> QED
    BY <1>1, JobsInvariant, PTL

LEMMA TerminalStandsStep ==
    ASSUME JobsInv, [Next]_vars, NEW j \in Jobs, status[j] \in Exports!Terminal
    PROVE  status'[j] = status[j] /\ result'[j] = result[j] /\ error'[j] = error[j]
  <1>1. CASE UNCHANGED exports \/ Exports!Crash
    BY <1>1 DEF exports, Exports!Crash, Exports!row
  <1>2. ASSUME NEW k \in Jobs,
               Exports!Post(k) \/ Exports!Route(k) \/ Exports!Runner(k) \/ Exports!Rerun(k)
        PROVE  status'[j] = status[j] /\ result'[j] = result[j] /\ error'[j] = error[j]
    BY <1>2, RowsMoveLegally, OutcomeNext
  <1> QED
    BY <1>1, <1>2, ExportSteps

\* A job that a client has seen completed or failed never changes again.
THEOREM OutcomesStand == Spec => TerminalStands
  <1>1. JobsInv /\ [Next]_vars =>
            [\A j \in Jobs :
                status[j] \in Exports!Terminal =>
                    /\ status'[j] = status[j]
                    /\ result'[j] = result[j]
                    /\ error'[j] = error[j]]_Exports!vars
    BY TerminalStandsStep
  <1> QED
    BY <1>1, JobsInvariant, PTL DEF Spec, TerminalStands, Exports!TerminalStands

LEMMA JobsStartAsTables ==
    ASSUME Init
    PROVE  Tables!TablesInit
  <1>1. \A j \in Jobs : status[j] = "none"
    BY DEF Init, Exports!Init
  <1> QED
    BY <1>1, JobsAreNumbered
       DEF Tables!TablesInit, Tables!Days, Tables!DayOf, Tables!JobIds

\* A legal step of a job's row is a step of the table of jobs.
LEMMA JobsMoveAsTables ==
    ASSUME JobsInv, [Next]_vars
    PROVE  [Tables!WriteLedger \/ Tables!WriteJobs]_(Tables!tables)
  <1> DEFINE seen(x) == [j \in Jobs |-> IF x[j] = "none" THEN None ELSE x[j]]
  <1>1. status \in [Jobs -> {"none", "pending", "running", "completed", "failed"}]
    BY DEF JobsInv, Exports!TypeOK, Exports!Terminal
  <1>2. CASE UNCHANGED status
    BY <1>2 DEF Tables!tables
  <1>3. CASE \E j \in Jobs, s \in {"pending", "running", "completed", "failed"} :
                 MayGo(status[j], s) /\ status' = [status EXCEPT ![j] = s]
    <2>1. PICK j \in Jobs, s \in {"pending", "running", "completed", "failed"} :
              MayGo(status[j], s) /\ status' = [status EXCEPT ![j] = s]
      BY <1>3
    <2>2. seen(status') = [seen(status) EXCEPT ![j] = s]
      BY <1>1, <2>1
    <2>3. /\ status[j] = "none" => seen(status)[j] = None
          /\ status[j] # "none" => seen(status)[j] = status[j]
      OBVIOUS
    <2>4. j \in Tables!JobIds
      BY JobsAreNumbered DEF Tables!JobIds
    <2>5. Tables!CreateJob(j) \/ Tables!MoveJob(j)
      BY <2>1, <2>2, <2>3 DEF MayGo, Tables!CreateJob, Tables!MoveJob
    <2> QED
      BY <2>4, <2>5 DEF Tables!WriteJobs
  <1>4. UNCHANGED status \/ \E j \in Jobs : RowMoves(j)
    <2>1. CASE UNCHANGED exports
      BY <2>1 DEF exports
    <2>2. CASE Exports!Crash
      BY <2>2 DEF Exports!Crash, Exports!row
    <2> QED
      BY <2>1, <2>2, ExportSteps, RowsMoveLegally
  <1> QED
    BY <1>2, <1>3, <1>4 DEF RowMoves, Exports!row, Exports!Write

\* What faults, crashes and further hand-outs do, the table of jobs only sees
\* what its readers count on: a job is created pending, claimed once, and ended
\* once.
THEOREM JobsImplementTables == Spec => ImplementsTables
  <1> QED
    BY JobsStartAsTables, JobsMoveAsTables, JobsInvariant, PTL
       DEF Spec, ImplementsTables, Tables!TablesSpec

-----------------------------------------------------------------------------
(* Narratives *)

\* What a request holds, by how far it has come.
NarrativeInv ==
    /\ recorded \in Nat /\ attempts \in Nat
    /\ doing \in {"idle", "call", "await", "check", "over"}
    /\ doing = "idle" => pack = None /\ attempts = 0 /\ text = None
    /\ doing \in {"call", "await", "check"} => client = "live" /\ pack \in 0 .. MaxReceipts
    /\ doing = "call" => attempts <= MaxRetries
    /\ doing \in {"await", "check"} => attempts \in 1 .. MaxRetries + 1
    /\ doing \in {"call", "await"} => text = None
    /\ doing = "check" => text \in Narratives!Replies /\ text.call = attempts
    /\ doing # "over" => answer = None
    /\ RefusedNeverReturned

LEMMA NarrativeInvInit ==
    ASSUME Init
    PROVE  NarrativeInv
  BY DEF Init, Narratives!NarrativeInit, NarrativeInv, RefusedNeverReturned,
         Narratives!RefusedNeverReturned

LEMMA NarrativeSteps ==
    ASSUME [Next]_vars
    PROVE  UNCHANGED narratives \/ Narratives!NarrativeStep
  BY DEF Next, vars, narratives, Export, Upload, Narrate, Simulate, Share, Rest, Alone,
         NotPools, NotExports

LEMMA NarrativeInvNext ==
    ASSUME NarrativeInv, [Next]_vars
    PROVE  NarrativeInv'
  <1>0. MaxReceipts \in Nat /\ MaxRetries \in Nat /\ MaxRecorded \in Nat
    BY Bounds
  <1>1. CASE UNCHANGED narratives
    BY <1>1 DEF narratives, NarrativeInv, RefusedNeverReturned, Narratives!RefusedNeverReturned,
                Narratives!Injected, Narratives!Structured
  <1>2. CASE Narratives!Record \/ Narratives!AnswerInVain
    <2>1. /\ UNCHANGED <<client, doing, pack, attempts, text, answer>>
          /\ recorded' \in Nat
      BY <1>2 DEF Narratives!Record, Narratives!AnswerInVain, NarrativeInv
    <2>2. RefusedNeverReturned'
      BY <2>1 DEF NarrativeInv, RefusedNeverReturned, Narratives!RefusedNeverReturned,
                  Narratives!Injected, Narratives!Structured
    <2> QED
      BY <2>1, <2>2 DEF NarrativeInv
  <1>3. CASE Narratives!Refuse \/ Narratives!ReadTooMany
    <2>1. /\ UNCHANGED <<recorded, client, pack, attempts, text>>
          /\ doing = "idle" /\ doing' = "over"
          /\ answer'.code \in {"403", "413", "422"}
      BY <1>3 DEF Narratives!Refuse, Narratives!ReadTooMany, Narratives!Respond, Narratives!Error
    <2>2. attempts' = 0
      BY <2>1 DEF NarrativeInv
    <2>3. RefusedNeverReturned'
      BY <2>1, <2>2 DEF RefusedNeverReturned, Narratives!RefusedNeverReturned
    <2> QED
      BY <2>1, <2>3 DEF NarrativeInv
  <1>4. CASE Narratives!Read
    <2>1. /\ doing = "idle" /\ recorded <= MaxReceipts /\ pack' = recorded
          /\ \/ client = "live" /\ doing' = "call" /\ answer' = answer
             \/ /\ client # "live" /\ doing' = "over"
                /\ answer'.code = "200" /\ answer'.binds = recorded
          /\ UNCHANGED <<recorded, client, attempts, text>>
      BY <1>0, <1>4 DEF Narratives!Read, Narratives!Respond, Narratives!TooMany, NarrativeInv
    <2>2. attempts' = 0 /\ pack' \in 0 .. MaxReceipts
      BY <1>0, <2>1 DEF NarrativeInv
    <2>3. RefusedNeverReturned'
      BY <2>1, <2>2 DEF NarrativeInv, RefusedNeverReturned, Narratives!RefusedNeverReturned
    <2> QED
      BY <1>0, <2>1, <2>2, <2>3 DEF NarrativeInv
  <1>5. CASE Narratives!Call
    BY <1>0, <1>5 DEF Narratives!Call, NarrativeInv, RefusedNeverReturned,
                      Narratives!RefusedNeverReturned
  <1>6. CASE Narratives!Receive
    <2>1. /\ doing = "await" /\ doing' = "check"
          /\ UNCHANGED <<recorded, client, pack, attempts, answer>>
          /\ \E t \in Narratives!Texts : text' = [call |-> attempts, is |-> t]
      BY <1>6 DEF Narratives!Receive
    <2>2. answer' = None /\ attempts \in Nat
      BY <2>1 DEF NarrativeInv
    <2>3. text' \in Narratives!Replies /\ text'.call = attempts'
      BY <2>1, <2>2 DEF Narratives!Replies
    <2>4. RefusedNeverReturned'
      BY <2>2 DEF RefusedNeverReturned, Narratives!RefusedNeverReturned
    <2> QED
      BY <2>1, <2>2, <2>3, <2>4 DEF NarrativeInv
  <1>7. CASE Narratives!CallRaises
    <2>1. /\ doing = "await" /\ UNCHANGED <<recorded, client, pack, attempts, text>>
          /\ \/ attempts >= MaxRetries + 1 /\ doing' = "over" /\ answer'.code = "502"
             \/ ~ (attempts >= MaxRetries + 1) /\ doing' = "call" /\ answer' = answer
      BY <1>7 DEF Narratives!CallRaises, Narratives!LastTry, Narratives!Respond, Narratives!Error
    <2>2. /\ attempts \in 1 .. MaxRetries + 1 /\ text = None /\ client = "live"
          /\ answer = None /\ pack \in 0 .. MaxReceipts
      BY <2>1 DEF NarrativeInv
    <2>3. RefusedNeverReturned'
      <3>1. CASE answer' = None
        BY <3>1 DEF RefusedNeverReturned, Narratives!RefusedNeverReturned
      <3>2. CASE answer' # None
        <4>1. /\ answer'.code = "502" /\ text' = None /\ attempts' = MaxRetries + 1
              /\ client' = "live"
          BY <1>0, <2>1, <2>2, <3>2
        <4> QED
          BY <4>1 DEF RefusedNeverReturned, Narratives!RefusedNeverReturned
      <3> QED
        BY <3>1, <3>2
    <2> QED
      BY <1>0, <2>1, <2>2, <2>3 DEF NarrativeInv
  <1>8. CASE Narratives!Check
    <2> DEFINE bad(x) == Narratives!Injected(x.is) \/ Narratives!Structured(x.is)
    <2>1. /\ doing = "check" /\ doing' = "over"
          /\ UNCHANGED <<recorded, client, pack, attempts, text>>
      BY <1>8 DEF Narratives!Check, Narratives!Respond
    <2>2. \/ answer'.code \in {"422 input", "422 output"} /\ bad(text)
          \/ /\ answer'.code = "200" /\ answer'.text = text /\ answer'.binds = pack
             /\ ~ bad(text)
      <3>1. CASE Narratives!Injected(text.is)
        <4>1. answer' = Narratives!Error("422 input")
          BY <1>8, <3>1 DEF Narratives!Check, Narratives!Respond
        <4> QED
          BY <3>1, <4>1 DEF Narratives!Error
      <3>2. CASE ~ Narratives!Injected(text.is) /\ Narratives!Structured(text.is)
        <4>1. answer' = Narratives!Error("422 output")
          BY <1>8, <3>2 DEF Narratives!Check, Narratives!Respond
        <4> QED
          BY <3>2, <4>1 DEF Narratives!Error
      <3>3. CASE ~ Narratives!Injected(text.is) /\ ~ Narratives!Structured(text.is)
        <4>1. answer' = Narratives!Narrative(text)
          BY <1>8, <3>3 DEF Narratives!Check, Narratives!Respond
        <4> QED
          BY <3>3, <4>1 DEF Narratives!Narrative
      <3> QED
        BY <3>1, <3>2, <3>3
    <2>3. text.call = attempts /\ client = "live" /\ pack \in 0 .. MaxReceipts
      BY <2>1 DEF NarrativeInv
    <2>4. RefusedNeverReturned'
      <3>1. \/ answer'.code \in {"422 input", "422 output"} /\ bad(text')
            \/ /\ answer'.code = "200" /\ answer'.text = text' /\ answer'.binds = pack'
               /\ ~ bad(text')
        BY <2>1, <2>2
      <3>2. text'.call = attempts' /\ client' = "live" /\ pack' <= MaxReceipts
        BY <1>0, <2>1, <2>3
      <3> QED
        BY <3>1, <3>2 DEF RefusedNeverReturned, Narratives!RefusedNeverReturned,
                          Narratives!Injected, Narratives!Structured
    <2> QED
      BY <2>1, <2>4 DEF NarrativeInv
  <1> QED
    BY <1>1, <1>2, <1>3, <1>4, <1>5, <1>6, <1>7, <1>8, NarrativeSteps
       DEF Narratives!NarrativeStep

\* A text that the defence objects to is never returned nor asked for again,
\* whatever the service answers, when it answers and to how many calls.
THEOREM RefusedTextIsNeverReturned == Spec => []RefusedNeverReturned
  <1>1. Init => NarrativeInv
    BY NarrativeInvInit
  <1>2. NarrativeInv /\ [Next]_vars => NarrativeInv'
    BY NarrativeInvNext
  <1>3. NarrativeInv => RefusedNeverReturned
    BY DEF NarrativeInv
  <1> QED
    BY <1>1, <1>2, <1>3, PTL DEF Spec

\* A narrative keeps its types; that it has an answer exactly when it is over
\* rests on None being no response.
LEMMA NarrativeTypeNext ==
    ASSUME NarrativeInv, Narratives!NarrativeTypeOK, [Next]_vars
    PROVE  Narratives!NarrativeTypeOK'
  <1>0. /\ MaxReceipts \in Nat /\ MaxRetries \in Nat /\ MaxRecorded \in Nat
        /\ \A a \in Narratives!Responses : a # None
        /\ \A x \in Narratives!Replies : x # None
    BY Bounds, NoneIsNoAnswer DEF Narratives!NoneIsNoResponse
  <1> DEFINE Typed == /\ client \in {"live", "mock"}
                      /\ recorded \in 0 .. MaxRecorded
                      /\ doing \in {"idle", "call", "await", "check", "over"}
                      /\ (pack # None => pack \in 0 .. recorded)
                      /\ attempts \in 0 .. MaxRetries + 1
                      /\ working \subseteq 1 .. attempts
                      /\ (text # None => text \in [call : 1 .. attempts, is : Narratives!Texts])
                      /\ answer \in Narratives!Responses \cup {None}
                      /\ (answer # None <=> doing = "over")
  <1>1. Typed
    BY DEF Narratives!NarrativeTypeOK
  <1>2. Typed' => Narratives!NarrativeTypeOK'
    BY DEF Narratives!NarrativeTypeOK
  <1>3. ASSUME NEW c \in {"403", "413", "422", "422 input", "422 output", "502"}
        PROVE  Narratives!Error(c) \in Narratives!Responses
    BY DEF Narratives!Error, Narratives!Responses
  <1> SUFFICES Typed'
    BY <1>2
  <1>4. CASE UNCHANGED narratives
    BY <1>1, <1>4 DEF narratives
  <1>5. CASE Narratives!Record \/ Narratives!AnswerInVain
    <2>1. /\ UNCHANGED <<client, doing, pack, attempts, text, answer>>
          /\ working' \subseteq working
          /\ recorded' = recorded \/ (recorded < MaxRecorded /\ recorded' = recorded + 1)
      BY <1>5 DEF Narratives!Record, Narratives!AnswerInVain
    <2>2. recorded' \in 0 .. MaxRecorded /\ recorded <= recorded'
      BY <1>0, <1>1, <2>1
    <2>3. pack' # None => pack' \in 0 .. recorded'
      BY <1>0, <1>1, <2>1, <2>2
    <2> QED
      BY <1>1, <2>1, <2>2, <2>3
  <1>6. CASE Narratives!Refuse \/ Narratives!ReadTooMany
    <2>1. /\ UNCHANGED <<recorded, client, pack, attempts, working, text>>
          /\ doing' = "over" /\ answer' \in Narratives!Responses
      BY <1>3, <1>6 DEF Narratives!Refuse, Narratives!ReadTooMany, Narratives!Respond
    <2> QED
      BY <1>0, <1>1, <2>1
  <1>7. CASE Narratives!Read
    <2>1. /\ UNCHANGED <<recorded, client, attempts, working, text>>
          /\ doing = "idle" /\ pack' = recorded
          /\ \/ doing' = "call" /\ answer' = answer
             \/ doing' = "over" /\ answer' \in Narratives!Responses
      <3>1. [code |-> "200", text |-> Narratives!Template, binds |-> recorded]
               \in Narratives!Responses
        <4>1. Narratives!Template \in Narratives!Replies
          BY DEF Narratives!Replies, Narratives!Template, Narratives!Texts
        <4>2. recorded \in Nat
          BY <1>0, <1>1
        <4> QED
          BY <4>1, <4>2 DEF Narratives!Responses
      <3> QED
        BY <1>7, <3>1 DEF Narratives!Read, Narratives!Respond
    <2> QED
      BY <1>0, <1>1, <2>1
  <1>8. CASE Narratives!Call
    <2>1. attempts <= MaxRetries
      BY <1>8 DEF Narratives!Call, NarrativeInv
    <2>2. text' = None \/ text' \in [call : 1 .. attempts', is : Narratives!Texts]
      BY <1>8 DEF Narratives!Call, NarrativeInv
    <2> QED
      BY <1>0, <1>1, <1>8, <2>1, <2>2 DEF Narratives!Call
  <1>9. CASE Narratives!Receive
    <2>1. attempts \in 1 .. MaxRetries + 1
      BY <1>9 DEF Narratives!Receive, NarrativeInv
    <2>2. text' \in [call : 1 .. attempts, is : Narratives!Texts]
      BY <1>0, <1>9, <2>1 DEF Narratives!Receive
    <2> QED
      BY <1>0, <1>1, <1>9, <2>2 DEF Narratives!Receive
  <1>10. CASE Narratives!CallRaises
    <2>1. /\ UNCHANGED <<recorded, client, pack, attempts, text>>
          /\ working' \subseteq working /\ doing = "await"
          /\ \/ doing' = "call" /\ answer' = answer
             \/ doing' = "over" /\ answer' \in Narratives!Responses
      BY <1>3, <1>10 DEF Narratives!CallRaises, Narratives!Respond
    <2> QED
      BY <1>0, <1>1, <2>1
  <1>11. CASE Narratives!Check
    <2>1. text \in Narratives!Replies /\ pack \in Nat
      <3>1. text \in [call : 1 .. attempts, is : Narratives!Texts]
        <4>1. text \in Narratives!Replies
          BY <1>11 DEF Narratives!Check, NarrativeInv
        <4> QED
          BY <1>0, <1>1, <4>1
      <3>2. doing = "check"
        BY <1>11 DEF Narratives!Check
      <3> QED
        BY <1>0, <1>1, <3>1, <3>2 DEF Narratives!Replies, NarrativeInv
    <2>2. Narratives!Narrative(text) \in Narratives!Responses
      BY <2>1 DEF Narratives!Narrative, Narratives!Responses
    <2>3. /\ UNCHANGED <<recorded, client, pack, attempts, working, text>>
          /\ doing' = "over" /\ answer' \in Narratives!Responses
      BY <1>3, <1>11, <2>2 DEF Narratives!Check, Narratives!Respond
    <2> QED
      BY <1>0, <1>1, <2>3
  <1> QED
    BY <1>4, <1>5, <1>6, <1>7, <1>8, <1>9, <1>10, <1>11, NarrativeSteps
       DEF Narratives!NarrativeStep

-----------------------------------------------------------------------------
(* The connection pool *)

\* How many connections a request holds where it is.
Holds(place) ==
    IF place \in {"use", "model", "second", "write"} THEN 1
    ELSE IF place = "bundle" THEN 2
    ELSE 0

\* No more connections are out than there are, and each request holds what it
\* holds where it is; so what it gives back is one that it had.
PoolInv ==
    /\ kind \in [Requests -> {"plain", "narrative", "keyed"}]
    /\ at \in [Requests -> {"idle", "wait", "use", "model", "second", "bundle",
                            "write", "done", "failed"}]
    /\ held = [r \in Requests |-> Holds(at[r])]
    /\ IsFiniteSet(Pools!Out)
    /\ Cardinality(Pools!Out) <= Capacity

LEMMA PoolCounts == \A S : Pools!Cardinality(S) = Cardinality(S)
  BY DEF Pools!Cardinality, Cardinality

LEMMA CapacityType == Capacity \in Nat \ {0}
  BY PartsAreBounded DEF Pools!CapacityIsPositive

LEMMA PoolInvInit ==
    ASSUME Init
    PROVE  PoolInv
  <1>1. /\ at = [r \in Requests |-> "idle"] /\ held = [r \in Requests |-> 0]
        /\ kind \in [Requests -> {"plain", "narrative", "keyed"}]
    BY DEF Init, Pools!PoolInit
  <1>2. Pools!Out = {}
    BY <1>1 DEF Pools!Out
  <1>3. IsFiniteSet(Pools!Out) /\ Cardinality(Pools!Out) <= Capacity
    BY <1>2, FS_EmptySet, CapacityType
  <1> QED
    BY <1>1, <1>3 DEF PoolInv, Holds

\* A request that moves takes at most one connection more, and only if one is
\* free.
Moves(r, from, to) ==
    /\ at[r] = from
    /\ at' = [at EXCEPT ![r] = to]
    /\ held' = [held EXCEPT ![r] = Holds(to)]
    /\ UNCHANGED kind
    /\ \/ Holds(to) <= Holds(from)
       \/ Holds(to) = Holds(from) + 1 /\ Pools!Free > 0
    /\ to \in {"wait", "use", "model", "second", "bundle", "write", "done", "failed"}

LEMMA HoldsWhere ==
    /\ Holds("idle") = 0 /\ Holds("wait") = 0 /\ Holds("done") = 0 /\ Holds("failed") = 0
    /\ Holds("use") = 1 /\ Holds("model") = 1 /\ Holds("second") = 1
    /\ Holds("write") = 1 /\ Holds("bundle") = 2
    /\ \A place : Holds(place) \in 0 .. 2
  BY DEF Holds

LEMMA PoolSteps ==
    ASSUME [Next]_vars
    PROVE  \/ UNCHANGED pools
           \/ \E r \in Requests : \E from, to : Moves(r, from, to)
  <1>1. UNCHANGED pools \/ Pools!PoolStep
    BY DEF Next, vars, pools, Export, Upload, Narrate, Simulate, Share, Rest, Alone,
           NotPools, NotExports
  <1>2. ASSUME NEW r \in Requests, Pools!Arrive(r) \/ Pools!Proceed(r)
        PROVE  \E from, to : Moves(r, from, to)
    <2>1. CASE Pools!Arrive(r)
      <3>1. Moves(r, "idle", "wait")
        BY <2>1 DEF Pools!Arrive, Pools!Move, Moves, Holds
      <3> QED
        BY <3>1
    <2>2. CASE Pools!CheckOut(r)
      <3>1. Moves(r, "wait", "use")
        BY <2>2 DEF Pools!CheckOut, Pools!Move, Moves, Holds
      <3> QED
        BY <3>1
    <2>3. CASE Pools!Finish(r)
      <3>1. Moves(r, "use", "done")
        BY <2>3 DEF Pools!Finish, Pools!Move, Moves, Holds
      <3> QED
        BY <3>1
    <2>4. CASE Pools!AwaitModel(r)
      <3>1. Moves(r, "use", "model")
        BY <2>4 DEF Pools!AwaitModel, Pools!Move, Moves, Holds
      <3> QED
        BY <3>1
    <2>5. CASE Pools!ModelEnds(r)
      <3>1. Moves(r, "model", "done")
        BY <2>5 DEF Pools!ModelEnds, Pools!Move, Moves, Holds
      <3> QED
        BY <3>1
    <2>6. CASE Pools!OpenSecond(r)
      <3>1. Moves(r, "use", "second")
        BY <2>6 DEF Pools!OpenSecond, Pools!Move, Moves, Holds
      <3> QED
        BY <3>1
    <2>7. CASE Pools!CheckOutSecond(r)
      <3>1. Moves(r, "second", "bundle")
        BY <2>7 DEF Pools!CheckOutSecond, Pools!Move, Moves, Holds
      <3> QED
        BY <3>1
    <2>8. CASE Pools!CloseSecond(r)
      <3>1. Moves(r, "bundle", "write")
        BY <2>8 DEF Pools!CloseSecond, Pools!Move, Moves, Holds
      <3> QED
        BY <3>1
    <2>9. CASE Pools!Write(r)
      <3>1. Moves(r, "write", "done")
        BY <2>9 DEF Pools!Write, Pools!Move, Moves, Holds
      <3> QED
        BY <3>1
    <2>10. CASE Pools!TimeOut(r)
      <3>1. \/ Pools!Move(r, "wait", "failed", 0)
            \/ Pools!Move(r, "second", "failed", 0)
        BY <2>10 DEF Pools!TimeOut
      <3>2. Pools!Move(r, "wait", "failed", 0) => Moves(r, "wait", "failed")
        BY DEF Pools!Move, Moves, Holds
      <3>3. Pools!Move(r, "second", "failed", 0) => Moves(r, "second", "failed")
        BY DEF Pools!Move, Moves, Holds
      <3> QED
        BY <3>1, <3>2, <3>3
    <2> QED
      BY <1>2, <2>1, <2>2, <2>3, <2>4, <2>5, <2>6, <2>7, <2>8, <2>9, <2>10
         DEF Pools!Proceed
  <1> QED
    BY <1>1, <1>2 DEF Pools!PoolStep

LEMMA PoolInvNext ==
    ASSUME PoolInv, [Next]_vars
    PROVE  PoolInv'
  <1>1. CASE UNCHANGED pools
    BY <1>1 DEF pools, PoolInv, Pools!Out
  <1>2. ASSUME NEW r \in Requests, NEW from, NEW to, Moves(r, from, to)
        PROVE  PoolInv'
    <2>1. /\ at[r] = from
          /\ at' = [at EXCEPT ![r] = to]
          /\ held' = [held EXCEPT ![r] = Holds(to)]
          /\ kind' = kind
      BY <1>2 DEF Moves
    <2>2. held' = [s \in Requests |-> Holds(at'[s])]
      BY <2>1 DEF PoolInv
    <2>3. at' \in [Requests -> {"idle", "wait", "use", "model", "second", "bundle",
                                "write", "done", "failed"}]
      BY <1>2, <2>1 DEF PoolInv, Moves
    <2> DEFINE out == Pools!Out
               new == <<r, Holds(to)>>
    <2>4. /\ Capacity \in Nat /\ IsFiniteSet(out) /\ Cardinality(out) \in Nat
          /\ Cardinality(out) <= Capacity
      BY CapacityType, FS_CardinalityType DEF PoolInv
    <2>5. held[r] = Holds(from) /\ held'[r] = Holds(to)
          /\ \A s \in Requests \ {r} : held'[s] = held[s]
      BY <2>1 DEF PoolInv
    <2>6. Holds(from) \in 0 .. 2 /\ Holds(to) \in 0 .. 2
      BY HoldsWhere
    <2> SUFFICES IsFiniteSet(out') /\ Cardinality(out') <= Capacity
      BY <2>1, <2>2, <2>3 DEF PoolInv
    <2>7. CASE Holds(to) <= Holds(from)
      <3>1. \A s \in Requests : held'[s] <= held[s]
        <4>1. \A s \in Requests : held[s] \in 0 .. 2
          BY HoldsWhere DEF PoolInv
        <4> QED
          BY <2>5, <2>6, <2>7, <4>1
      <3>2. out' \in SUBSET out
        BY <2>5, <2>6, <2>7 DEF Pools!Out
      <3>3. IsFiniteSet(out') /\ Cardinality(out') <= Cardinality(out)
        BY <2>4, <3>2, FS_Subset
      <3>4. Cardinality(out') \in Nat
        BY <3>3, FS_CardinalityType
      <3> QED
        BY <2>4, <3>3, <3>4
    <2>8. CASE Holds(to) = Holds(from) + 1 /\ Pools!Free > 0
      <3>1. out' = out \cup {new}
        BY <2>5, <2>6, <2>8 DEF Pools!Out
      <3>2. /\ IsFiniteSet(out')
            /\ Cardinality(out') \in {Cardinality(out), Cardinality(out) + 1}
        BY <2>4, <3>1, FS_AddElement
      <3>3. Cardinality(out) < Capacity
        BY <2>4, <2>8, PoolCounts DEF Pools!Free
      <3> QED
        BY <2>4, <3>2, <3>3
    <2> QED
      BY <1>2, <2>7, <2>8 DEF Moves
  <1> QED
    BY <1>1, <1>2, PoolSteps

LEMMA PoolTyped ==
    ASSUME PoolInv
    PROVE  Pools!PoolTypeOK
  <1>1. held \in [Requests -> 0 .. 2]
    BY HoldsWhere DEF PoolInv
  <1> QED
    BY <1>1, PoolCounts DEF PoolInv, Pools!PoolTypeOK

-----------------------------------------------------------------------------
(* Tabletop comparisons *)

ActionLabels == Labels \cup Nat

\* How many events there were when side s read the window: those known at the
\* first reading, or those there are now, since ingest does not matter after.
Until(s) == IF s = "simulated" THEN known ELSE Len(events)

\* The events of the window among the first n.
InWindow(n) == {e \in 1 .. n : range.after <= events[e] /\ events[e] <= range.before}

\* What side s replays: the actions given, or every event of the window, once.
IsScript(s, q) ==
    /\ q \in Seq(ActionLabels) /\ Len(q) <= MaxActions
    /\ inline # None => q = inline
    /\ inline = None =>
           /\ \A i, j \in 1 .. Len(q) : q[i] = q[j] => i = j
           /\ \A i \in 1 .. Len(q) : q[i] \in InWindow(Until(s))
           /\ \A e \in InWindow(Until(s)) : \E i \in 1 .. Len(q) : q[i] = e

\* What is left to replay.
Left(s) == IF side = s THEN todo ELSE <<>>

\* The first of the actions q have results, the others are left.
Replayed(s, q) ==
    /\ Left(s) \in Seq(ActionLabels)
    /\ Len(results[s]) + Len(Left(s)) = Len(q)
    /\ \A i \in 1 .. Len(results[s]) : results[s][i].label = q[i]
    /\ \A i \in 1 .. Len(Left(s)) : Left(s)[i] = q[Len(results[s]) + i]

Begun(s) == side = s /\ todo # None
Done(s) == side = "diff" \/ (side = "actual" /\ s = "simulated")

\* A side that has begun or is done has a script and is as far as its results;
\* its summary counts them.
SideInv(s) ==
    /\ results[s] \in Seq([label : ActionLabels, outcome : Tabletops!Outcomes])
    /\ counts[s] \in [Tabletops!Outcomes -> 0 .. MaxActions]
    /\ Tabletops!Counted(s) = Len(results[s])
    /\ side # "over" /\ ~ Begun(s) /\ ~ Done(s) => results[s] = <<>>
    /\ Begun(s) \/ Done(s) => \E q : IsScript(s, q) /\ Replayed(s, q)

TabInv ==
    /\ events \in Seq(Instants)
    /\ inline \in Tabletops!Scenarios \cup {None}
    /\ range \in Tabletops!Windows \cup {None}
    /\ inline = None => range \in Tabletops!Windows
    /\ side \in {"simulated", "actual", "diff", "over"}
    /\ side = "diff" => todo = None
    /\ known \in 0 .. Len(events)
    /\ results = [s \in Tabletops!Sides |-> results[s]]
    /\ counts = [s \in Tabletops!Sides |-> counts[s]]
    /\ side = "over" => report \in Tabletops!Reports
    /\ side # "over" => report = None
    /\ todo # None => Len(todo) <= MaxActions
    /\ \A s \in Tabletops!Sides : SideInv(s)
    /\ ReportAccountsForAll

LEMMA TabletopConstants ==
    /\ MaxActions \in Nat /\ Instants \subseteq Nat
    /\ None \notin Tabletops!Decisions
    /\ None \notin Seq(ActionLabels)
    /\ None \notin Tabletops!Reports
  BY PartsAreBounded, NoneIsNoAnswer
     DEF Tabletops!TabletopBoundsAreNaturals, Tabletops!NoneIsNoReport, ActionLabels

LEMMA TabletopSteps ==
    ASSUME [Next]_vars
    PROVE  UNCHANGED tabletops \/ Tabletops!TabletopStep
  BY DEF Next, vars, tabletops, Export, Upload, Narrate, Simulate, Share, Rest, Alone,
         NotPools, NotExports

LEMMA TabletopCounts == \A S : Tabletops!Cardinality(S) = Cardinality(S)
  BY DEF Tabletops!Cardinality, Cardinality

LEMMA ScenariosAreScripts ==
    ASSUME inline \in Tabletops!Scenarios
    PROVE  inline \in Seq(ActionLabels) /\ Len(inline) <= MaxActions
  <1>1. PICK n \in 1 .. MaxActions : inline \in [1 .. n -> Labels]
    BY DEF Tabletops!Scenarios
  <1>2. n \in Nat /\ n <= MaxActions
    BY <1>1, TabletopConstants
  <1>3. inline \in Seq(Labels) /\ Len(inline) = n
    BY <1>1, <1>2
  <1> QED
    BY <1>2, <1>3 DEF ActionLabels

\* What a query for one event more than a scenario may have returns, when it
\* does not return as many, is the window.
LEMMA FetchedIsTheWindow ==
    ASSUME events \in Seq(Instants), range \in Tabletops!Windows,
           NEW q \in Tabletops!Fetched(range), Len(q) <= MaxActions
    PROVE  /\ q \in Seq(Nat)
           /\ \A i, j \in 1 .. Len(q) : q[i] = q[j] => i = j
           /\ \A i \in 1 .. Len(q) : q[i] \in InWindow(Len(events))
           /\ \A e \in InWindow(Len(events)) : \E i \in 1 .. Len(q) : q[i] = e
  <1> DEFINE E == {e \in DOMAIN events : events[e] \in range.after .. range.before}
             W == InWindow(Len(events))
             c == Cardinality(W)
             n == IF c < MaxActions + 1 THEN c ELSE MaxActions + 1
  <1>1. E = W
    <2>0. Instants \subseteq Nat
      BY TabletopConstants
    <2>1. \A e \in 1 .. Len(events) : events[e] \in Nat
      BY <2>0, ElementOfSeq
    <2>2. range.after \in Nat /\ range.before \in Nat
      BY TabletopConstants DEF Tabletops!Windows
    <2>3. DOMAIN events = 1 .. Len(events)
      OBVIOUS
    <2> QED
      BY <2>1, <2>2, <2>3 DEF InWindow
  <1>2. W \in SUBSET (1 .. Len(events)) /\ Len(events) \in Nat
    BY DEF InWindow
  <1>3. IsFiniteSet(W) /\ c \in Nat
    <2> HIDE DEF W
    <2>1. IsFiniteSet(1 .. Len(events))
      BY <1>2, FS_Interval
    <2>2. IsFiniteSet(W)
      BY <1>2, <2>1, FS_Subset
    <2> QED
      BY <2>2, FS_CardinalityType
  <1>4. PICK s \in [1 .. c -> W] : /\ \A i, j \in 1 .. c : i # j => s[i] # s[j]
                                   /\ q = SubSeq(s, 1, n)
    BY <1>1, TabletopCounts DEF Tabletops!Fetched, Tabletops!SetToSeqs
  <1> HIDE DEF E, W
  <1>5. n \in Nat /\ n <= c /\ n <= MaxActions + 1 /\ (n < c => n = MaxActions + 1)
    BY <1>3, TabletopConstants
  <1>6. \A i \in 1 .. n : s[i] \in W
    BY <1>3, <1>4, <1>5
  <1>7. /\ q \in Seq(W)
        /\ Len(q) = n
        /\ \A i \in 1 .. n : q[i] = s[i]
    BY <1>4, <1>5, <1>6, SubSeqProperties
  <1>8. n = c
    BY <1>3, <1>5, <1>7, TabletopConstants
  <1>9. s \in Injection(1 .. c, W)
    BY <1>4 DEF Injection, IsInjective
  <1>10. Cardinality(1 .. c) = c
    BY <1>3, FS_Interval
  <1>11. s \in Surjection(1 .. c, W)
    BY <1>3, <1>9, <1>10, FS_Injection
  <1>12. \A e \in W : \E i \in 1 .. c : s[i] = e
    BY <1>11 DEF Surjection
  <1>13. q \in Seq(Nat)
    <2>1. \A e \in W : e \in Nat
      BY <1>2
    <2> QED
      BY <1>7, <2>1, SeqMonotonic
  <1> QED
    BY <1>4, <1>6, <1>7, <1>8, <1>12, <1>13 DEF W

LEMMA TabInvInit ==
    ASSUME Init
    PROVE  TabInv
  <1>1. /\ events = <<>> /\ inline \in Tabletops!Scenarios \cup {None}
        /\ range \in IF inline = None THEN Tabletops!Windows ELSE {None}
        /\ side = "simulated" /\ todo = None /\ known = 0 /\ report = None
        /\ results = [s \in Tabletops!Sides |-> <<>>]
        /\ counts = [s \in Tabletops!Sides |-> [o \in Tabletops!Outcomes |-> 0]]
    BY DEF Init, Tabletops!TabletopInit
  <1>2. ASSUME NEW s \in Tabletops!Sides PROVE SideInv(s)
    <2>1. results[s] = <<>> /\ counts[s] = [o \in Tabletops!Outcomes |-> 0]
      BY <1>1
    <2>2. counts[s] \in [Tabletops!Outcomes -> 0 .. MaxActions]
      BY <2>1, TabletopConstants
    <2>3. Tabletops!Counted(s) = 0
      BY <2>1 DEF Tabletops!Counted, Tabletops!Outcomes, Tabletops!Decisions
    <2>4. ~ Begun(s) /\ ~ Done(s)
      BY <1>1 DEF Begun, Done
    <2> QED
      BY <2>1, <2>2, <2>3, <2>4 DEF SideInv
  <1>3. ReportAccountsForAll
    BY <1>1 DEF ReportAccountsForAll, Tabletops!ReportAccountsForAll, Tabletops!Reported
  <1>4. /\ events \in Seq(Instants) /\ Len(events) = 0
        /\ results = [s \in Tabletops!Sides |-> results[s]]
        /\ counts = [s \in Tabletops!Sides |-> counts[s]]
    BY <1>1
  <1> QED
    BY <1>1, <1>2, <1>3, <1>4 DEF TabInv

\* An event is committed: the first side has read the window, or has it before
\* it.
LEMMA IngestKeeps ==
    ASSUME TabInv, NEW t \in Instants, Tabletops!Ingest(t)
    PROVE  TabInv'
  <1>1. /\ side \in Tabletops!Sides /\ todo = None
        /\ events' = Append(events, t)
        /\ UNCHANGED <<inline, range, side, todo, results, counts, known, report>>
    BY DEF Tabletops!Ingest
  <1>2. /\ events \in Seq(Instants) /\ known \in 0 .. Len(events)
        /\ side # "over" /\ side # "diff" /\ report = None
    BY <1>1 DEF TabInv, Tabletops!Sides
  <1>3. /\ events' \in Seq(Instants) /\ Len(events') = Len(events) + 1
        /\ \A e \in 1 .. Len(events) : events'[e] = events[e]
        /\ known' \in 0 .. Len(events')
    BY <1>1, <1>2
  <1>4. InWindow(known)' = InWindow(known)
    BY <1>1, <1>2, <1>3 DEF InWindow
  <1>5. ASSUME NEW s \in Tabletops!Sides PROVE SideInv(s)'
    <2>1. SideInv(s)
      BY DEF TabInv
    <2>2. (Begun(s) <=> Begun(s)') /\ (Done(s) <=> Done(s)')
          /\ Left(s)' = Left(s) /\ Tabletops!Counted(s)' = Tabletops!Counted(s)
      BY <1>1 DEF Begun, Done, Left, Tabletops!Counted
    <2>3. ASSUME Begun(s) \/ Done(s), NEW q, IsScript(s, q), Replayed(s, q)
          PROVE  IsScript(s, q)' /\ Replayed(s, q)'
      <3>1. s = "simulated"
        BY <1>1, <1>2, <2>3 DEF Begun, Done
      <3>2. Until(s) = known /\ Until(s)' = known
        BY <1>1, <3>1 DEF Until
      <3>3. InWindow(Until(s))' = InWindow(Until(s))
        BY <1>4, <3>2, <1>1 DEF InWindow
      <3> QED
        BY <1>1, <2>2, <2>3, <3>3 DEF IsScript, Replayed
    <2> QED
      BY <1>1, <2>1, <2>2, <2>3 DEF SideInv
  <1>6. ReportAccountsForAll'
    BY <1>1, <1>2 DEF ReportAccountsForAll, Tabletops!ReportAccountsForAll, Tabletops!Reported
  <1> QED
    BY <1>1, <1>2, <1>3, <1>5, <1>6 DEF TabInv

\* The comparison ends with a refusal.
LEMMA RefusalKeeps ==
    ASSUME TabInv, side # "over", NEW x \in Tabletops!Refusals, Tabletops!End(x)
    PROVE  TabInv'
  <1>1. /\ side' = "over" /\ report' = x
        /\ UNCHANGED <<events, inline, range, todo, results, counts, known>>
    BY DEF Tabletops!End
  <1>2. ASSUME NEW s \in Tabletops!Sides PROVE SideInv(s)'
    <2>1. SideInv(s)
      BY DEF TabInv
    <2>2. ~ Begun(s)' /\ ~ Done(s)' /\ Tabletops!Counted(s)' = Tabletops!Counted(s)
      BY <1>1 DEF Begun, Done, Tabletops!Counted, Tabletops!Sides
    <2> QED
      BY <1>1, <2>1, <2>2 DEF SideInv
  <1>3. report' \in Tabletops!Reports
    BY <1>1 DEF Tabletops!Reports
  <1>4. "entries" \notin DOMAIN report'
    BY <1>1 DEF Tabletops!Refusals
  <1>5. ReportAccountsForAll'
    BY <1>4 DEF ReportAccountsForAll, Tabletops!ReportAccountsForAll, Tabletops!Reported
  <1> QED
    BY <1>1, <1>2, <1>3, <1>5 DEF TabInv

\* A side gets its actions.
LEMMA StartKeeps ==
    ASSUME TabInv, Tabletops!Start
    PROVE  TabInv'
  <1>1. /\ side \in Tabletops!Sides /\ todo = None
        /\ UNCHANGED <<events, inline, range, side, results, counts, report>>
        /\ known' = IF side = "simulated" THEN Len(events) ELSE known
        /\ inline # None => todo' = inline
        /\ inline = None => todo' \in Tabletops!Fetched(range) /\ Len(todo') <= MaxActions
    <2>1. inline = None => Len(todo') \in 1 .. MaxActions
      BY DEF Tabletops!Start
    <2>2. inline = None => Len(todo') <= MaxActions
      BY <2>1, TabletopConstants
    <2> QED
      BY <2>2 DEF Tabletops!Start
  <1>2. /\ events \in Seq(Instants) /\ known \in 0 .. Len(events) /\ Len(events) \in Nat
        /\ side \in {"simulated", "actual"} /\ report = None
    BY <1>1 DEF TabInv, Tabletops!Sides
  <1>3. /\ todo' \in Seq(ActionLabels) /\ Len(todo') <= MaxActions
        /\ inline = None =>
               /\ \A i, j \in 1 .. Len(todo') : todo'[i] = todo'[j] => i = j
               /\ \A i \in 1 .. Len(todo') : todo'[i] \in InWindow(Len(events))
               /\ \A e \in InWindow(Len(events)) : \E i \in 1 .. Len(todo') : todo'[i] = e
    <2>1. CASE inline # None
      BY <1>1, <2>1, ScenariosAreScripts DEF TabInv
    <2>2. CASE inline = None
      <3>1. range \in Tabletops!Windows
        BY <2>2 DEF TabInv
      <3>2. /\ todo' \in Seq(Nat)
            /\ \A i, j \in 1 .. Len(todo') : todo'[i] = todo'[j] => i = j
            /\ \A i \in 1 .. Len(todo') : todo'[i] \in InWindow(Len(events))
            /\ \A e \in InWindow(Len(events)) : \E i \in 1 .. Len(todo') : todo'[i] = e
        BY <1>1, <1>2, <2>2, <3>1, FetchedIsTheWindow
      <3>3. todo' \in Seq(ActionLabels)
        BY <3>2, SeqMonotonic DEF ActionLabels
      <3> QED
        BY <1>1, <2>2, <3>2, <3>3
    <2> QED
      BY <2>1, <2>2
  <1>4. todo' # None
    BY <1>3, TabletopConstants
  <1>5. ASSUME NEW s \in Tabletops!Sides PROVE SideInv(s)'
    <2>1. SideInv(s) /\ Tabletops!Counted(s)' = Tabletops!Counted(s)
      BY <1>1 DEF TabInv, Tabletops!Counted
    <2>2. CASE s = side
      <3>1. ~ Begun(s) /\ ~ Done(s) /\ side # "over"
        BY <1>1, <1>2, <2>2 DEF Begun, Done
      <3>2. results[s] = <<>>
        BY <2>1, <3>1 DEF SideInv
      <3>3. InWindow(Until(s))' = InWindow(Len(events))
        BY <1>1, <1>2, <2>2 DEF InWindow, Until
      <3>4. IsScript(s, todo)'
        BY <1>1, <1>3, <3>3 DEF IsScript
      <3>5. Left(s)' = todo' /\ Len(results'[s]) = 0 /\ Len(todo') \in Nat
        BY <1>1, <1>3, <2>2, <3>2 DEF Left
      <3>6. Replayed(s, todo)'
        BY <1>3, <3>5 DEF Replayed
      <3>7. Begun(s)'
        BY <1>1, <1>4, <2>2 DEF Begun
      <3>8. \E q : IsScript(s, q)' /\ Replayed(s, q)'
        BY <3>4, <3>6
      <3> QED
        BY <1>1, <2>1, <3>7, <3>8 DEF SideInv
    <2>3. CASE s # side
      <3>1. Begun(s)' <=> Begun(s)
        BY <1>1, <2>3 DEF Begun
      <3>2. Done(s)' <=> Done(s)
        BY <1>1 DEF Done
      <3>3. Left(s)' = Left(s)
        BY <1>1, <2>3 DEF Left
      <3>4. ASSUME Begun(s) \/ Done(s), NEW q, IsScript(s, q), Replayed(s, q)
            PROVE  IsScript(s, q)' /\ Replayed(s, q)'
        <4>1. s = "simulated" /\ side = "actual"
          BY <1>2, <2>3, <3>4 DEF Begun, Done
        <4>2. InWindow(Until(s))' = InWindow(Until(s))
          BY <1>1, <4>1 DEF Until, InWindow
        <4> QED
          BY <1>1, <3>3, <3>4, <4>2 DEF IsScript, Replayed
      <3> QED
        BY <1>1, <2>1, <3>1, <3>2, <3>4 DEF SideInv
    <2> QED
      BY <2>2, <2>3
  <1>6. ReportAccountsForAll'
    BY <1>1, <1>2 DEF ReportAccountsForAll, Tabletops!ReportAccountsForAll, Tabletops!Reported
  <1>7. known' \in 0 .. Len(events') /\ side' # "diff"
    BY <1>1, <1>2
  <1> QED
    BY <1>1, <1>2, <1>3, <1>5, <1>6, <1>7 DEF TabInv

\* A side returns its result: whatever it has done is done.
LEMMA ReturnKeeps ==
    ASSUME TabInv, Tabletops!Return
    PROVE  TabInv'
  <1>1. /\ side \in Tabletops!Sides /\ todo = <<>> /\ todo' = None
        /\ side' = IF side = "simulated" THEN "actual" ELSE "diff"
        /\ UNCHANGED <<events, inline, range, results, counts, known, report>>
    BY DEF Tabletops!Return
  <1>2. side \in {"simulated", "actual"} /\ report = None /\ todo # None
    <2>1. <<>> \in Seq(ActionLabels)
      OBVIOUS
    <2> QED
      BY <1>1, <2>1, TabletopConstants DEF TabInv, Tabletops!Sides
  <1>3. ASSUME NEW s \in Tabletops!Sides PROVE SideInv(s)'
    <2>1. SideInv(s) /\ Tabletops!Counted(s)' = Tabletops!Counted(s)
      BY <1>1 DEF TabInv, Tabletops!Counted
    <2>2. s \in {"simulated", "actual"}
      BY DEF Tabletops!Sides
    <2>3. (Begun(s) \/ Done(s)) <=> (Begun(s)' \/ Done(s)')
      BY <1>1, <1>2, <2>2 DEF Begun, Done
    <2>4. Begun(s) \/ Done(s) => Left(s) = <<>> /\ Left(s)' = <<>>
      BY <1>1, <1>2, <2>2 DEF Begun, Done, Left
    <2>5. InWindow(Until(s))' = InWindow(Until(s))
      BY <1>1 DEF Until, InWindow
    <2>6. ASSUME Begun(s) \/ Done(s), NEW q, IsScript(s, q), Replayed(s, q)
          PROVE  IsScript(s, q)' /\ Replayed(s, q)'
      BY <1>1, <2>4, <2>5, <2>6 DEF IsScript, Replayed
    <2> QED
      BY <1>1, <1>2, <2>1, <2>3, <2>6 DEF SideInv
  <1>4. ReportAccountsForAll'
    BY <1>1, <1>2 DEF ReportAccountsForAll, Tabletops!ReportAccountsForAll, Tabletops!Reported
  <1> QED
    BY <1>1, <1>2, <1>3, <1>4 DEF TabInv

\* One figure of a summary is one more.
LEMMA OneMoreOutcome ==
    ASSUME NEW f \in [Tabletops!Outcomes -> 0 .. MaxActions], NEW o \in Tabletops!Outcomes,
           NEW n \in Nat, n + 1 <= MaxActions,
           f["allow"] + f["deny"] + f["escalate"] + f["errored"] = n
    PROVE  LET g == [f EXCEPT ![o] = @ + 1] IN
           /\ g \in [Tabletops!Outcomes -> 0 .. MaxActions]
           /\ g["allow"] + g["deny"] + g["escalate"] + g["errored"] = n + 1
  <1>1. Tabletops!Outcomes = {"allow", "deny", "escalate", "errored"} /\ MaxActions \in Nat
    BY TabletopConstants DEF Tabletops!Outcomes, Tabletops!Decisions
  <1>2. /\ f["allow"] \in Nat /\ f["deny"] \in Nat /\ f["escalate"] \in Nat
        /\ f["errored"] \in Nat
    BY <1>1
  <1>3. f[o] \in Nat /\ f[o] <= n
    BY <1>1, <1>2
  <1>4. f[o] + 1 \in 0 .. MaxActions
    BY <1>1, <1>3
  <1> DEFINE g == [f EXCEPT ![o] = @ + 1]
  <1>5. g \in [Tabletops!Outcomes -> 0 .. MaxActions]
    BY <1>4
  <1>6. g["allow"] + g["deny"] + g["escalate"] + g["errored"] = n + 1
    <2>1. CASE o = "allow"
      BY <1>1, <1>2, <2>1
    <2>2. CASE o = "deny"
      BY <1>1, <1>2, <2>2
    <2>3. CASE o = "escalate"
      BY <1>1, <1>2, <2>3
    <2>4. CASE o = "errored"
      BY <1>1, <1>2, <2>4
    <2> QED
      BY <1>1, <2>1, <2>2, <2>3, <2>4
  <1> QED
    BY <1>5, <1>6

\* An action is evaluated: a result more, and one figure of the summary more.
LEMMA EvaluateKeeps ==
    ASSUME TabInv, NEW o \in Tabletops!Outcomes, Tabletops!Evaluate(o)
    PROVE  TabInv'
  <1> DEFINE new == [label |-> Head(todo), outcome |-> o]
  <1>1. /\ side \in Tabletops!Sides /\ todo # None /\ todo # <<>>
        /\ results' = [results EXCEPT ![side] = Append(@, new)]
        /\ counts' = [counts EXCEPT ![side][o] = @ + 1]
        /\ todo' = Tail(todo)
        /\ UNCHANGED <<events, inline, range, side, known, report>>
    BY DEF Tabletops!Evaluate
  <1>2. side \in {"simulated", "actual"} /\ report = None
    BY <1>1 DEF TabInv, Tabletops!Sides
  <1>3. SideInv(side) /\ Begun(side) /\ Left(side) = todo
    BY <1>1 DEF TabInv, Begun, Left
  <1>4. PICK q : IsScript(side, q) /\ Replayed(side, q)
    BY <1>3 DEF SideInv
  <1> DEFINE old == results[side]
             n == Len(old)
             rest == Tail(todo)
  <1>5. /\ todo \in Seq(ActionLabels) /\ q \in Seq(ActionLabels)
        /\ old \in Seq([label : ActionLabels, outcome : Tabletops!Outcomes])
        /\ n \in Nat /\ Len(todo) \in Nat /\ n + Len(todo) = Len(q) /\ Len(q) <= MaxActions
        /\ \A i \in 1 .. n : old[i].label = q[i]
        /\ \A i \in 1 .. Len(todo) : todo[i] = q[n + i]
    BY <1>3, <1>4 DEF SideInv, IsScript, Replayed
  <1>6. /\ Head(todo) = todo[1] /\ Head(todo) \in ActionLabels
        /\ rest \in Seq(ActionLabels) /\ Len(rest) = Len(todo) - 1 /\ Len(todo) > 0
        /\ \A i \in 1 .. Len(rest) : rest[i] = todo[i + 1]
    BY <1>1, <1>5, HeadTailProperties
  <1>7. /\ results'[side] = Append(old, new)
        /\ \A s \in Tabletops!Sides \ {side} : results'[s] = results[s] /\ counts'[s] = counts[s]
        /\ counts'[side] = [counts[side] EXCEPT ![o] = @ + 1]
        /\ results' = [s \in Tabletops!Sides |-> results'[s]]
        /\ counts' = [s \in Tabletops!Sides |-> counts'[s]]
    BY <1>1 DEF TabInv
  <1>8. /\ results'[side] \in Seq([label : ActionLabels, outcome : Tabletops!Outcomes])
        /\ Len(results'[side]) = n + 1
        /\ \A i \in 1 .. n : results'[side][i] = old[i]
        /\ results'[side][n + 1] = new
    BY <1>5, <1>6, <1>7
  <1>9. IsScript(side, q)'
    <2>1. InWindow(Until(side))' = InWindow(Until(side))
      BY <1>1 DEF InWindow, Until
    <2> QED
      BY <1>1, <1>4, <2>1 DEF IsScript
  <1>10. Replayed(side, q)'
    <2>1. Left(side)' = rest
      BY <1>1 DEF Left
    <2>2. ASSUME NEW i \in 1 .. n + 1 PROVE results'[side][i].label = q[i]
      <3>1. CASE i = n + 1
        <4>1. todo[1] = q[n + 1]
          BY <1>5, <1>6
        <4> QED
          BY <1>6, <1>8, <3>1, <4>1
      <3>2. CASE i # n + 1
        <4>1. i \in 1 .. n
          BY <1>5, <3>2
        <4> QED
          BY <1>5, <1>8, <4>1
      <3> QED
        BY <3>1, <3>2
    <2>3. \A i \in 1 .. Len(rest) : rest[i] = q[n + 1 + i]
      BY <1>5, <1>6
    <2>4. Len(results'[side]) + Len(rest) = Len(q)
      BY <1>5, <1>6, <1>8
    <2> QED
      BY <1>1, <1>6, <1>8, <2>1, <2>2, <2>3, <2>4 DEF Replayed
  <1>11. /\ counts'[side] \in [Tabletops!Outcomes -> 0 .. MaxActions]
         /\ Tabletops!Counted(side)' = n + 1
    <2>1. /\ counts[side] \in [Tabletops!Outcomes -> 0 .. MaxActions]
          /\ counts[side]["allow"] + counts[side]["deny"] + counts[side]["escalate"]
                + counts[side]["errored"] = n
      BY <1>3 DEF SideInv, Tabletops!Counted
    <2>2. n + 1 <= MaxActions
      BY <1>5, <1>6, TabletopConstants
    <2>3. /\ counts'[side] \in [Tabletops!Outcomes -> 0 .. MaxActions]
          /\ counts'[side]["allow"] + counts'[side]["deny"] + counts'[side]["escalate"]
                + counts'[side]["errored"] = n + 1
      <3>0. n \in Nat
        BY <1>5
      <3> HIDE DEF n
      <3>1. LET g == [counts[side] EXCEPT ![o] = @ + 1] IN
            /\ g \in [Tabletops!Outcomes -> 0 .. MaxActions]
            /\ g["allow"] + g["deny"] + g["escalate"] + g["errored"] = n + 1
        BY <2>1, <2>2, <3>0, OneMoreOutcome
      <3> QED
        BY <1>7, <3>1
    <2> QED
      BY <1>1, <2>3 DEF Tabletops!Counted
  <1>12. ASSUME NEW s \in Tabletops!Sides PROVE SideInv(s)'
    <2>1. CASE s = side
      <3>1. Tail(todo) # None
        BY <1>6, TabletopConstants
      <3>2. Begun(side)'
        BY <1>1, <3>1 DEF Begun
      <3>3. SideInv(side)'
        BY <1>1, <1>8, <1>9, <1>10, <1>11, <3>2 DEF SideInv
      <3> QED
        BY <1>1, <2>1, <3>3
    <2>2. CASE s # side
      <3>1. SideInv(s) /\ results'[s] = results[s] /\ counts'[s] = counts[s]
        BY <1>7, <2>2 DEF TabInv
      <3>2. /\ Begun(s)' <=> Begun(s)
            /\ Done(s)' <=> Done(s)
            /\ Left(s)' = Left(s)
            /\ Tabletops!Counted(s)' = Tabletops!Counted(s)
            /\ InWindow(Until(s))' = InWindow(Until(s))
        BY <1>1, <2>2, <3>1 DEF Begun, Done, Left, Tabletops!Counted, InWindow, Until
      <3>3. ASSUME NEW p, IsScript(s, p), Replayed(s, p)
            PROVE  IsScript(s, p)' /\ Replayed(s, p)'
        BY <1>1, <3>1, <3>2, <3>3 DEF IsScript, Replayed
      <3> QED
        BY <1>1, <3>1, <3>2, <3>3 DEF SideInv
    <2> QED
      BY <2>1, <2>2
  <1>13. ReportAccountsForAll'
    BY <1>1, <1>2 DEF ReportAccountsForAll, Tabletops!ReportAccountsForAll, Tabletops!Reported
  <1>14. Len(todo') <= MaxActions
    BY <1>1, <1>5, <1>6, TabletopConstants
  <1>15. /\ events' \in Seq(Instants) /\ known' \in 0 .. Len(events')
         /\ inline' \in Tabletops!Scenarios \cup {None}
         /\ range' \in Tabletops!Windows \cup {None}
         /\ inline' = None => range' \in Tabletops!Windows
    BY <1>1 DEF TabInv
  <1>16. ReportAccountsForAll' /\ side' \in {"simulated", "actual"} /\ report' = None
    BY <1>1, <1>2, <1>13
  <1> QED
    BY <1>7, <1>12, <1>14, <1>15, <1>16 DEF TabInv

\* As many images as members, when no two members have the same image.
LEMMA ImagesAreAsMany ==
    ASSUME NEW S, IsFiniteSet(S), NEW f, \A x, y \in S : f[x] = f[y] => x = y
    PROVE  /\ IsFiniteSet({f[x] : x \in S})
           /\ Cardinality({f[x] : x \in S}) = Cardinality(S)
  <1> DEFINE T == {f[x] : x \in S}
             g == [x \in S |-> f[x]]
  <1>1. g \in Surjection(S, T) /\ g \in Injection(S, T)
    BY DEF Surjection, Injection, IsInjective
  <1>2. g \in Bijection(S, T)
    BY <1>1 DEF Bijection
  <1>3. ExistsBijection(S, T)
    BY <1>2 DEF ExistsBijection
  <1> HIDE DEF T
  <1>4. IsFiniteSet(T) /\ Cardinality(T) = Cardinality(S)
    BY <1>3, FS_Bijection
  <1> QED
    BY <1>4 DEF T

\* Three parts of a set that have nothing in common and leave nothing out.
LEMMA PartsAddUp ==
    ASSUME NEW A, IsFiniteSet(A), NEW B, NEW C, NEW D, B \cup C \cup D = A,
           B \cap C = {}, B \cap D = {}, C \cap D = {}
    PROVE  Cardinality(B) + Cardinality(C) + Cardinality(D) = Cardinality(A)
  <1>1. IsFiniteSet(B) /\ IsFiniteSet(C) /\ IsFiniteSet(D)
    BY FS_Subset
  <1>2. /\ Cardinality(B) \in Nat /\ Cardinality(C) \in Nat /\ Cardinality(D) \in Nat
    BY <1>1, FS_CardinalityType
  <1>3. /\ IsFiniteSet(B \cup C)
        /\ Cardinality(B \cup C) = Cardinality(B) + Cardinality(C) - Cardinality(B \cap C)
    BY <1>1, FS_Union
  <1>4. Cardinality(B \cap C) = 0
    BY FS_EmptySet
  <1>5. /\ Cardinality((B \cup C) \cup D)
             = Cardinality(B \cup C) + Cardinality(D) - Cardinality((B \cup C) \cap D)
    BY <1>1, <1>3, FS_Union
  <1>6. (B \cup C) \cap D = {} /\ (B \cup C) \cup D = A
    OBVIOUS
  <1>7. Cardinality((B \cup C) \cap D) = 0
    BY <1>6, FS_EmptySet
  <1>8. Cardinality(B \cup C) = Cardinality(B) + Cardinality(C)
    BY <1>2, <1>3, <1>4
  <1>9. Cardinality(A) = Cardinality(B \cup C) + Cardinality(D)
    BY <1>2, <1>5, <1>6, <1>7, <1>8
  <1> QED
    BY <1>8, <1>9

LEMMA TwoAreTwo ==
    ASSUME NEW a, NEW b, a # b
    PROVE  Cardinality({a, b}) = 2
  <1>1. IsFiniteSet({a}) /\ Cardinality({a}) = 1
    BY FS_Singleton
  <1>2. Cardinality({a} \cup {b}) = Cardinality({a}) + 1
    BY <1>1, FS_AddElement
  <1>3. {a} \cup {b} = {a, b}
    OBVIOUS
  <1> QED
    BY <1>1, <1>2, <1>3

\* What a side that is done has results of.
LEMMA DoneSide ==
    ASSUME TabInv, side = "diff", NEW s \in Tabletops!Sides
    PROVE  \E q : /\ IsScript(s, q)
                  /\ results[s] \in Seq([label : ActionLabels, outcome : Tabletops!Outcomes])
                  /\ Len(results[s]) = Len(q)
                  /\ \A i \in 1 .. Len(q) : results[s][i].label = q[i]
  <1>1. SideInv(s) /\ Done(s)
    BY DEF TabInv, Done
  <1>2. PICK q : IsScript(s, q) /\ Replayed(s, q)
    BY <1>1 DEF SideInv
  <1>3. Left(s) = <<>>
    BY DEF Left, Tabletops!Sides
  <1>4. Len(results[s]) + 0 = Len(q) /\ Len(results[s]) \in Nat
    BY <1>1, <1>2, <1>3 DEF SideInv, Replayed
  <1> QED
    BY <1>1, <1>2, <1>4 DEF SideInv, Replayed

\* Its labels are those of the actions given, or every event of its window; and
\* every label has an outcome.
LEMMA DoneLabels ==
    ASSUME TabInv, side = "diff", NEW s \in Tabletops!Sides
    PROVE  /\ Tabletops!LabelsOf(s) \subseteq ActionLabels
           /\ IsFiniteSet(Tabletops!LabelsOf(s))
           /\ Len(results[s]) \in Nat
           /\ \A l \in Tabletops!LabelsOf(s) : Tabletops!OutcomeOf(s, l) \in Tabletops!Outcomes
           /\ inline # None =>
                  Tabletops!LabelsOf(s) = {inline[i] : i \in 1 .. Len(inline)}
           /\ inline = None => Tabletops!LabelsOf(s) = InWindow(Until(s))
  <1> DEFINE r == results[s]
             n == Len(r)
  <1>1. PICK q : /\ IsScript(s, q)
                 /\ r \in Seq([label : ActionLabels, outcome : Tabletops!Outcomes])
                 /\ n = Len(q)
                 /\ \A i \in 1 .. Len(q) : r[i].label = q[i]
    BY DoneSide
  <1>2. n \in Nat /\ q \in Seq(ActionLabels) /\ DOMAIN r = 1 .. n
    BY <1>1 DEF IsScript
  <1>3. \A i \in 1 .. n : r[i].label \in ActionLabels /\ r[i].outcome \in Tabletops!Outcomes
    <2>1. \A i \in 1 .. n : r[i] \in [label : ActionLabels, outcome : Tabletops!Outcomes]
      BY <1>1, ElementOfSeq
    <2> QED
      BY <2>1
  <1>4. Tabletops!Range(r) = {r[i] : i \in 1 .. n}
    BY <1>2 DEF Tabletops!Range
  <1> DEFINE L == {r[i].label : i \in 1 .. n}
  <1>5. Tabletops!LabelsOf(s) = L
    BY <1>4 DEF Tabletops!LabelsOf
  <1>6. L = {q[i] : i \in 1 .. n}
    BY <1>1, <1>2
  <1>7. L \subseteq ActionLabels
    BY <1>3
  <1>8. IsFiniteSet(L)
    <2> DEFINE f == [i \in 1 .. n |-> r[i].label]
    <2>1. f \in Surjection(1 .. n, L)
      BY DEF Surjection
    <2>2. IsFiniteSet(1 .. n)
      BY <1>2, FS_Interval
    <2> HIDE DEF f, L, n
    <2>3. IsFiniteSet(L)
      BY <2>1, <2>2, FS_Surjection, Zenon
    <2> QED
      BY <2>3
  <1>9. ASSUME NEW l \in Tabletops!LabelsOf(s)
        PROVE  Tabletops!OutcomeOf(s, l) \in Tabletops!Outcomes
    <2>1. \E x \in Tabletops!Range(r) : x.label = l
      BY <1>4, <1>5
    <2>2. PICK x : /\ x = (CHOOSE y \in Tabletops!Range(r) : y.label = l)
                   /\ x \in Tabletops!Range(r)
      BY <2>1
    <2>3. x.outcome \in Tabletops!Outcomes
      BY <1>3, <1>4, <2>2
    <2> QED
      BY <2>2, <2>3 DEF Tabletops!OutcomeOf
  <1>10. inline # None => L = {inline[i] : i \in 1 .. Len(inline)}
    BY <1>1, <1>6 DEF IsScript
  <1>11. inline = None => L = InWindow(Until(s))
    BY <1>1, <1>2, <1>6 DEF IsScript
  <1> QED
    BY <1>2, <1>5, <1>7, <1>8, <1>9, <1>10, <1>11

\* The later replay has every action of the earlier one; what it has more are
\* events ingested since.
LEMMA LaterSeesMore ==
    ASSUME TabInv, side = "diff"
    PROVE  /\ Tabletops!LabelsOf("simulated") \subseteq Tabletops!LabelsOf("actual")
           /\ \A l \in Tabletops!LabelsOf("actual") \ Tabletops!LabelsOf("simulated") :
                  inline = None /\ l > known
  <1>1. "simulated" \in Tabletops!Sides /\ "actual" \in Tabletops!Sides
    BY DEF Tabletops!Sides
  <1>2. CASE inline # None
    <2>1. Tabletops!LabelsOf("simulated") = Tabletops!LabelsOf("actual")
      BY <1>1, <1>2, DoneLabels
    <2> QED
      BY <2>1
  <1>3. CASE inline = None
    <2>1. /\ Tabletops!LabelsOf("simulated") = InWindow(known)
          /\ Tabletops!LabelsOf("actual") = InWindow(Len(events))
      BY <1>1, <1>3, DoneLabels DEF Until
    <2>2. known \in 0 .. Len(events) /\ Len(events) \in Nat
      BY DEF TabInv
    <2>3. InWindow(known) \subseteq InWindow(Len(events))
      BY <2>2 DEF InWindow
    <2>4. \A l \in InWindow(Len(events)) \ InWindow(known) : l > known
      BY <2>2 DEF InWindow
    <2> QED
      BY <1>3, <2>1, <2>3, <2>4
  <1> QED
    BY <1>2, <1>3

\* What a label is in the report, and what is shown of it.
LEMMA KindOfALabel ==
    ASSUME TabInv, side = "diff", NEW l \in Tabletops!LabelsOf("actual"),
           NEW x, x = [s \in Tabletops!Sides |-> Tabletops!DecisionOf(s, l)]
    PROVE  /\ l \in ActionLabels
           /\ Tabletops!KindOf(l) \in Tabletops!DiffKinds \ {"simulated_only"}
           /\ Tabletops!KindOf(l) = "actual_only" <=> l \notin Tabletops!LabelsOf("simulated")
           /\ x \in [Tabletops!Sides -> Tabletops!Decisions \cup {None}]
           /\ Tabletops!KindOf(l) = "drift" =>
                  /\ x["simulated"] # None /\ x["actual"] # None
                  /\ x["simulated"] # x["actual"]
           /\ Tabletops!KindOf(l) = "errored_either" =>
                  x["simulated"] = None \/ x["actual"] = None
  <1> DEFINE S == Tabletops!LabelsOf("simulated")
             A == Tabletops!LabelsOf("actual")
             out(s) == Tabletops!OutcomeOf(s, l)
  <1>1. Tabletops!Sides = {"simulated", "actual"}
    BY DEF Tabletops!Sides
  <1>2. S \subseteq A /\ A \subseteq ActionLabels
    BY <1>1, LaterSeesMore, DoneLabels
  <1>3. /\ l \in S => out("simulated") \in Tabletops!Outcomes
        /\ out("actual") \in Tabletops!Outcomes
    BY <1>1, DoneLabels
  <1>4. Tabletops!Outcomes = Tabletops!Decisions \cup {"errored"}
        /\ "errored" \notin Tabletops!Decisions /\ None \notin Tabletops!Decisions
    BY TabletopConstants DEF Tabletops!Outcomes, Tabletops!Decisions
  <1>5. /\ x["simulated"] = (IF l \notin S \/ out("simulated") = "errored"
                             THEN None ELSE out("simulated"))
        /\ x["actual"] = IF out("actual") = "errored" THEN None ELSE out("actual")
    BY <1>1 DEF Tabletops!DecisionOf
  <1>6. Tabletops!KindOf(l) =
            IF l \notin S THEN "actual_only"
            ELSE IF out("simulated") = "errored" \/ out("actual") = "errored"
                 THEN "errored_either"
            ELSE IF out("simulated") = out("actual") THEN "match" ELSE "drift"
    BY <1>1 DEF Tabletops!KindOf
  <1> HIDE DEF S, A, out
  <1>7. x["simulated"] \in Tabletops!Decisions \cup {None}
        /\ x["actual"] \in Tabletops!Decisions \cup {None}
    BY <1>3, <1>4, <1>5
  <1>8. x \in [Tabletops!Sides -> Tabletops!Decisions \cup {None}]
    BY <1>1, <1>7
  <1>9. l \in ActionLabels
    BY <1>2 DEF A
  <1>10. Tabletops!KindOf(l) \in Tabletops!DiffKinds \ {"simulated_only"}
    BY <1>6 DEF Tabletops!DiffKinds
  <1>11. Tabletops!KindOf(l) = "actual_only" <=> l \notin S
    BY <1>6
  <1>12. Tabletops!KindOf(l) = "drift" =>
             /\ x["simulated"] # None /\ x["actual"] # None
             /\ x["simulated"] # x["actual"]
    BY <1>3, <1>4, <1>5, <1>6
  <1>13. Tabletops!KindOf(l) = "errored_either" => x["simulated"] = None \/ x["actual"] = None
    BY <1>5, <1>6
  <1> QED
    BY <1>8, <1>9, <1>10, <1>11, <1>12, <1>13 DEF S

\* The report lists each label that did not come out the same once, and counts
\* the labels of each kind.
LEMMA ReportsList ==
    ASSUME TabInv, side = "diff", NEW R, R = Tabletops!Report, NEW k \in Tabletops!DiffKinds
    PROVE  LET K == {l \in Tabletops!LabelsOf("actual") : Tabletops!KindOf(l) = k}
               listed == {r \in R.entries : r.kind = k} IN
           /\ IsFiniteSet(K)
           /\ R.count[k] = Cardinality(K)
           /\ k # "match" => Cardinality(listed) = Cardinality(K)
  <1> DEFINE A == Tabletops!LabelsOf("actual")
             kindOf(l) == Tabletops!KindOf(l)
             K == {l \in A : kindOf(l) = k}
             listed == {r \in R.entries : r.kind = k}
             shown(l) == [s \in Tabletops!Sides |-> Tabletops!DecisionOf(s, l)]
             row(l) == [label |-> l, kind |-> kindOf(l), shown |-> shown(l)]
             rows == [l \in A |-> row(l)]
  <1>1. /\ Tabletops!LabelsOf("simulated") \cup A = A
        /\ IsFiniteSet(A)
    BY LaterSeesMore, DoneLabels DEF Tabletops!Sides
  <1>2. /\ R.entries = {row(l) : l \in {m \in A : kindOf(m) # "match"}}
        /\ R.count = [j \in Tabletops!DiffKinds |->
                          Tabletops!Cardinality({l \in A : kindOf(l) = j})]
    BY <1>1 DEF Tabletops!Report
  <1>3. IsFiniteSet(K)
    BY <1>1, FS_Subset
  <1>4. R.count[k] = Cardinality(K)
    BY <1>2, TabletopCounts
  <1> HIDE DEF kindOf, shown
  <1>5. ASSUME k # "match" PROVE Cardinality(listed) = Cardinality(K)
    <2>1. listed = {rows[l] : l \in K}
      <3>1. \A l \in K : rows[l] = row(l) /\ row(l) \in listed
        BY <1>2, <1>5
      <3>2. \A r \in listed : \E l \in K : r = rows[l]
        BY <1>2
      <3> QED
        BY <3>1, <3>2
    <2>2. \A l, m \in K : rows[l] = rows[m] => l = m
      <3>1. \A l \in K : rows[l].label = l
        OBVIOUS
      <3> QED
        BY <3>1
    <2> HIDE DEF rows, listed, K
    <2>3. Cardinality({rows[l] : l \in K}) = Cardinality(K)
      BY <1>3, <2>2, ImagesAreAsMany
    <2> QED
      BY <2>1, <2>3
  <1> QED
    BY <1>3, <1>4, <1>5 DEF kindOf, shown

\* A row that is listed is of a label of its kind, and shows what came of it.
LEMMA RowsShowTheirLabels ==
    ASSUME TabInv, side = "diff", NEW R, R = Tabletops!Report, NEW r \in R.entries
    PROVE  /\ r.label \in ActionLabels /\ r.label \in Tabletops!LabelsOf("actual")
           /\ r.kind \in Tabletops!DiffKinds
           /\ r.shown \in [Tabletops!Sides -> Tabletops!Decisions \cup {None}]
           /\ r = [label |-> r.label, kind |-> r.kind, shown |-> r.shown]
           /\ r.kind = "actual_only" <=> r.label \notin Tabletops!LabelsOf("simulated")
           /\ r.kind = "drift" => /\ r.shown["simulated"] # None /\ r.shown["actual"] # None
                                  /\ r.shown["simulated"] # r.shown["actual"]
           /\ r.kind = "errored_either" =>
                  r.shown["simulated"] = None \/ r.shown["actual"] = None
  <1>1. Tabletops!LabelsOf("simulated") \cup Tabletops!LabelsOf("actual")
            = Tabletops!LabelsOf("actual")
    BY LaterSeesMore
  <1>2. PICK l \in Tabletops!LabelsOf("actual") :
            r = [label |-> l, kind |-> Tabletops!KindOf(l),
                 shown |-> [s \in Tabletops!Sides |-> Tabletops!DecisionOf(s, l)]]
    BY <1>1 DEF Tabletops!Report
  <1>3. PICK x : x = [s \in Tabletops!Sides |-> Tabletops!DecisionOf(s, l)]
    OBVIOUS
  <1>4. r = [label |-> l, kind |-> Tabletops!KindOf(l), shown |-> x]
    BY <1>2, <1>3
  <1>5. r.label = l /\ r.kind = Tabletops!KindOf(l) /\ r.shown = x
    BY <1>4
  <1>6. /\ l \in ActionLabels
        /\ Tabletops!KindOf(l) \in Tabletops!DiffKinds
        /\ Tabletops!KindOf(l) = "actual_only" <=> l \notin Tabletops!LabelsOf("simulated")
        /\ x \in [Tabletops!Sides -> Tabletops!Decisions \cup {None}]
        /\ Tabletops!KindOf(l) = "drift" =>
               x["simulated"] # None /\ x["actual"] # None /\ x["simulated"] # x["actual"]
        /\ Tabletops!KindOf(l) = "errored_either" => x["simulated"] = None \/ x["actual"] = None
    BY <1>3, KindOfALabel
  <1> QED
    BY <1>4, <1>5, <1>6

LEMMA ReportsAreReports ==
    ASSUME TabInv, side = "diff"
    PROVE  Tabletops!Report \in Tabletops!Reports
  <1>1. PICK R : R = Tabletops!Report
    OBVIOUS
  <1>2. R = [entries |-> R.entries, count |-> R.count, total |-> R.total]
    BY <1>1 DEF Tabletops!Report
  <1>3. R.count \in [Tabletops!DiffKinds -> Nat]
    <2>1. \A k \in Tabletops!DiffKinds : R.count[k] \in Nat
      BY <1>1, ReportsList, FS_CardinalityType
    <2>2. R.count = [k \in Tabletops!DiffKinds |-> R.count[k]]
      BY <1>1 DEF Tabletops!Report
    <2> QED
      BY <2>1, <2>2
  <1>4. R.total \in [Tabletops!Sides -> Nat]
    <2>1. \A s \in Tabletops!Sides : Len(results[s]) \in Nat
      BY DoneLabels
    <2>2. R.total = [s \in Tabletops!Sides |-> Len(results[s])]
      BY <1>1 DEF Tabletops!Report
    <2> QED
      BY <2>1, <2>2
  <1>5. ASSUME NEW r \in R.entries PROVE r \in Tabletops!Entries
    BY <1>1, RowsShowTheirLabels DEF Tabletops!Entries, ActionLabels
  <1> QED
    BY <1>1, <1>2, <1>3, <1>4, <1>5 DEF Tabletops!Reports

\* The labels that both sides have are of three kinds.
LEMMA CommonLabelsAddUp ==
    ASSUME TabInv, side = "diff", NEW R, R = Tabletops!Report
    PROVE  R.count["match"] + R.count["drift"] + R.count["errored_either"]
               = Cardinality(Tabletops!LabelsOf("simulated") \cap Tabletops!LabelsOf("actual"))
  <1> DEFINE A == Tabletops!LabelsOf("actual")
             S == Tabletops!LabelsOf("simulated")
             K(k) == {l \in A : Tabletops!KindOf(l) = k}
  <1>1. /\ R.count["match"] = Cardinality(K("match"))
        /\ R.count["drift"] = Cardinality(K("drift"))
        /\ R.count["errored_either"] = Cardinality(K("errored_either"))
    BY ReportsList DEF Tabletops!DiffKinds
  <1>2. \A l \in A : /\ Tabletops!KindOf(l) \in
                            {"actual_only", "match", "drift", "errored_either"}
                     /\ Tabletops!KindOf(l) = "actual_only" <=> l \notin S
    BY KindOfALabel DEF Tabletops!DiffKinds
  <1>3. IsFiniteSet(S \cap A)
    <2>1. IsFiniteSet(A)
      BY DoneLabels DEF Tabletops!Sides
    <2> QED
      BY <2>1, FS_Subset
  <1> HIDE DEF A, S
  <1>4. /\ K("match") \cup K("drift") \cup K("errored_either") = S \cap A
        /\ K("match") \cap K("drift") = {}
        /\ K("match") \cap K("errored_either") = {}
        /\ K("drift") \cap K("errored_either") = {}
    BY <1>2
  <1> HIDE DEF K
  <1>5. Cardinality(K("match")) + Cardinality(K("drift")) + Cardinality(K("errored_either"))
            = Cardinality(S \cap A)
    BY <1>3, <1>4, PartsAddUp
  <1> QED
    BY <1>1, <1>5 DEF A, S

\* The report is made, or refused because a label is there twice.
LEMMA DiffKeeps ==
    ASSUME TabInv, Tabletops!Diff
    PROVE  TabInv'
  <1> DEFINE R == Tabletops!Report
  <1>1. side = "diff"
    BY DEF Tabletops!Diff
  <1>2. CASE \E s \in Tabletops!Sides : Tabletops!Repeats(s)
    <2>1. Tabletops!End([refused |-> "TabletopError"])
      BY <1>2 DEF Tabletops!Diff, Tabletops!Refused
    <2>2. [refused |-> "TabletopError"] \in Tabletops!Refusals
      BY DEF Tabletops!Refusals
    <2> QED
      BY <1>1, <2>1, <2>2, RefusalKeeps
  <1>3. CASE \A s \in Tabletops!Sides : ~ Tabletops!Repeats(s)
    <2>1. Tabletops!End(R)
      BY <1>3 DEF Tabletops!Diff
    <2>2. /\ side' = "over" /\ report' = R
          /\ UNCHANGED <<events, inline, range, todo, results, counts, known>>
      BY <2>1 DEF Tabletops!End
    <2>3. ASSUME NEW s \in Tabletops!Sides PROVE SideInv(s)'
      <3>1. SideInv(s)
        BY DEF TabInv
      <3>2. ~ Begun(s)' /\ ~ Done(s)' /\ Tabletops!Counted(s)' = Tabletops!Counted(s)
        BY <2>2 DEF Begun, Done, Tabletops!Counted, Tabletops!Sides
      <3> QED
        BY <2>2, <3>1, <3>2 DEF SideInv
    <2>4. report' \in Tabletops!Reports
      BY <1>1, <2>2, ReportsAreReports
    <2> DEFINE Kind(k) == {r \in R.entries : r.kind = k}
    <2>5. \A s \in Tabletops!Sides :
              /\ Tabletops!Counted(s) = R.total[s]
              /\ R.total[s] = Tabletops!Cardinality(Tabletops!LabelsOf(s))
      <3>1. \A s \in Tabletops!Sides : R.total[s] = Len(results[s])
        BY DEF Tabletops!Report
      <3>2. \A s \in Tabletops!Sides : Tabletops!Counted(s) = Len(results[s])
        BY DEF TabInv, SideInv
      <3> QED
        BY <1>3, <3>1, <3>2 DEF Tabletops!Repeats
    <2>6. R.count["match"] + R.count["drift"] + R.count["errored_either"]
              = Tabletops!Cardinality(Tabletops!LabelsOf("simulated") \cap Tabletops!LabelsOf("actual"))
      BY <1>1, CommonLabelsAddUp, TabletopCounts
    <2>7. \A k \in Tabletops!DiffKinds \ {"match"} : Tabletops!Cardinality(Kind(k)) = R.count[k]
      BY <1>1, ReportsList, TabletopCounts
    <2>8. ASSUME NEW r \in Kind("drift")
          PROVE  /\ None \notin Tabletops!Range(r.shown)
                 /\ Tabletops!Cardinality(Tabletops!Range(r.shown)) = 2
      <3>1. PICK x : x = r.shown
        OBVIOUS
      <3>2. /\ x \in [Tabletops!Sides -> Tabletops!Decisions \cup {None}]
            /\ x["simulated"] # None /\ x["actual"] # None
            /\ x["simulated"] # x["actual"]
        BY <1>1, <3>1, RowsShowTheirLabels
      <3>3. Tabletops!Range(x) = {x["simulated"], x["actual"]}
        BY <3>2 DEF Tabletops!Range, Tabletops!Sides
      <3>4. Cardinality({x["simulated"], x["actual"]}) = 2
        BY <3>2, TwoAreTwo
      <3> QED
        BY <3>1, <3>2, <3>3, <3>4, TabletopCounts
    <2>9. ASSUME NEW r \in Kind("errored_either")
          PROVE  None \in Tabletops!Range(r.shown)
      <3>1. PICK x : x = r.shown
        OBVIOUS
      <3>2. /\ x \in [Tabletops!Sides -> Tabletops!Decisions \cup {None}]
            /\ x["simulated"] = None \/ x["actual"] = None
        BY <1>1, <3>1, RowsShowTheirLabels
      <3> QED
        BY <3>1, <3>2 DEF Tabletops!Range, Tabletops!Sides
    <2>10. R.count["simulated_only"] = 0
      <3>1. {l \in Tabletops!LabelsOf("actual") : Tabletops!KindOf(l) = "simulated_only"} = {}
        BY <1>1, KindOfALabel
      <3>2. R.count["simulated_only"] = Cardinality({})
        BY <1>1, <3>1, ReportsList DEF Tabletops!DiffKinds
      <3> QED
        BY <3>2, FS_EmptySet
    <2>11. ASSUME NEW r \in Kind("actual_only") PROVE inline = None /\ r.label > known
      <3>1. /\ r.label \in Tabletops!LabelsOf("actual")
            /\ r.label \notin Tabletops!LabelsOf("simulated")
        BY <1>1, RowsShowTheirLabels
      <3> QED
        BY <1>1, <3>1, LaterSeesMore
    <2> HIDE DEF R
    <2>12. ReportAccountsForAll'
      <3>1. \A s \in Tabletops!Sides : /\ Tabletops!Counted(s)' = Tabletops!Counted(s)
                                       /\ Tabletops!LabelsOf(s)' = Tabletops!LabelsOf(s)
        BY <2>2 DEF Tabletops!Counted, Tabletops!LabelsOf
      <3>2. "simulated" \in Tabletops!Sides /\ "actual" \in Tabletops!Sides
        BY DEF Tabletops!Sides
      <3> QED
        BY <2>2, <2>5, <2>6, <2>7, <2>8, <2>9, <2>10, <2>11, <3>1, <3>2
           DEF ReportAccountsForAll, Tabletops!ReportAccountsForAll
    <2> QED
      BY <2>2, <2>3, <2>4, <2>12 DEF TabInv
  <1> QED
    BY <1>2, <1>3

LEMMA TabInvNext ==
    ASSUME TabInv, [Next]_vars
    PROVE  TabInv'
  <1>1. CASE UNCHANGED tabletops
    <2>1. UNCHANGED <<events, inline, range, side, todo, results, counts, known, report>>
      BY <1>1 DEF tabletops
    <2>2. ASSUME NEW s \in Tabletops!Sides PROVE SideInv(s)'
      <3>1. SideInv(s)
        BY DEF TabInv
      <3>2. \A q : IsScript(s, q) /\ Replayed(s, q) => IsScript(s, q)' /\ Replayed(s, q)'
        BY <2>1 DEF IsScript, Replayed, InWindow, Until, Left
      <3> QED
        BY <2>1, <3>1, <3>2 DEF SideInv, Begun, Done, Tabletops!Counted
    <2>3. ReportAccountsForAll'
      <3>1. ReportAccountsForAll
        BY DEF TabInv
      <3> QED
        BY <2>1, <3>1
           DEF ReportAccountsForAll, Tabletops!ReportAccountsForAll, Tabletops!Reported,
               Tabletops!Counted, Tabletops!LabelsOf
    <2> QED
      BY <2>1, <2>2, <2>3 DEF TabInv
  <1>2. CASE Tabletops!TabletopStep
    <2>1. ASSUME Tabletops!Refuse \/ Tabletops!RefuseWindow PROVE TabInv'
      <3>1. side # "over"
        BY <2>1 DEF Tabletops!Refuse, Tabletops!RefuseWindow, Tabletops!Sides
      <3>2. \E x \in Tabletops!Refusals : Tabletops!End(x)
        BY <2>1 DEF Tabletops!Refuse, Tabletops!RefuseWindow, Tabletops!Refusals,
                    Tabletops!Refused
      <3> QED
        BY <3>1, <3>2, RefusalKeeps
    <2> QED
      BY <1>2, <2>1, IngestKeeps, StartKeeps, EvaluateKeeps, ReturnKeeps, DiffKeeps
         DEF Tabletops!TabletopStep
  <1> QED
    BY <1>1, <1>2, TabletopSteps

\* Every action of either replay is accounted for in its summary and in the
\* report, once and as it came out; and of two replays of a window the later
\* one misses no event of the earlier one: with every number of actions and of
\* events, however they are ingested before and between the replays.
THEOREM ReportsAccountForAll == Spec => []ReportAccountsForAll
  <1>1. TabInv => ReportAccountsForAll
    BY DEF TabInv
  <1> QED
    BY <1>1, TabInvInit, TabInvNext, PTL DEF Spec

LEMMA TabTyped ==
    ASSUME TabInv
    PROVE  Tabletops!TabletopTypeOK
  <1>1. counts \in [Tabletops!Sides -> [Tabletops!Outcomes -> 0 .. MaxActions]]
    <2>1. counts = [s \in Tabletops!Sides |-> counts[s]]
      BY DEF TabInv
    <2>2. \A s \in Tabletops!Sides : counts[s] \in [Tabletops!Outcomes -> 0 .. MaxActions]
      BY DEF TabInv, SideInv
    <2> QED
      BY <2>1, <2>2
  <1>2. DOMAIN results = Tabletops!Sides
    <2>1. results = [s \in Tabletops!Sides |-> results[s]]
      BY DEF TabInv
    <2> QED
      BY <2>1
  <1>3. /\ report \in Tabletops!Reports \cup {None}
        /\ report # None <=> side = "over"
        /\ side \in Tabletops!Sides \cup {"diff", "over"}
    BY TabletopConstants DEF TabInv, Tabletops!Sides
  <1> QED
    BY <1>1, <1>2, <1>3 DEF TabInv, Tabletops!TabletopTypeOK

-----------------------------------------------------------------------------
(* All parts *)

\* Every variable of every part has its type; of the pool, that no more
\* connections are out than there are.
THEOREM ServicesTypeCorrect == Spec => []TypeOK
  <1> DEFINE Typed == /\ JobsInv
                      /\ UInv /\ Uploads!UploadTypeOK
                      /\ NarrativeInv /\ Narratives!NarrativeTypeOK
                      /\ TabInv
                      /\ PoolInv
  <1>1. Init => Typed
    <2>1. Init => Narratives!NarrativeTypeOK
      BY Bounds DEF Init, Narratives!NarrativeInit, Narratives!NarrativeTypeOK
    <2> QED
      BY <2>1, JobsInvInit, UInvInit, UploadTypeInit, NarrativeInvInit, TabInvInit, PoolInvInit
  <1>2. Typed /\ [Next]_vars => Typed'
    BY JobsInvNext, UInvNext, UploadTypeNext, NarrativeInvNext, NarrativeTypeNext, TabInvNext,
       PoolInvNext
  <1>3. Typed => TypeOK
    BY TabTyped, PoolTyped DEF JobsInv, TypeOK
  <1> HIDE DEF Typed
  <1> QED
    BY <1>1, <1>2, <1>3, PTL DEF Spec
=============================================================================
