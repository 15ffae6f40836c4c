----------------------------- MODULE ExportJob -----------------------------
(***************************************************************************)
(* The asynchronous M&A export jobs.  The route commits a pending row and  *)
(* schedules a runner on the event loop before it answers 202.  The runner *)
(* works in three sessions, each with one commit:                          *)
(*                                                                         *)
(*   A  pending -> running                                                 *)
(*   B  build, sign, seal, running -> completed with the result            *)
(*   C  when B raised: whatever is not terminal -> failed with the error   *)
(*                                                                         *)
(* A database fault may hit a commit before it is applied or after, when   *)
(* only the acknowledgement is lost: the caller sees the same exception.   *)
(* A crash of the process, or its shutdown, which cancels the tasks, is no *)
(* Exception and ends runners without session C.  A job whose runner is    *)
(* gone may be handed to run_ma_export_job again; two runners of one job   *)
(* at a time are not modelled, for the route schedules one.                *)
(***************************************************************************)
EXTENDS Naturals

CONSTANTS
    Jobs,        \* the jobs that are ever posted
    MaxFaults,   \* bound: database faults a job suffers
    MaxCrashes,  \* bound: crashes or shutdowns of the process
    MaxReruns    \* bound: times a job is handed to a runner again

\* Assumed in module Services.
JobBoundsAreNaturals == {MaxFaults, MaxCrashes, MaxReruns} \subseteq Nat

VARIABLES
    status,    \* the committed status of each job; "none": no row
    result,    \* whether result_export is set
    error,     \* whether result_error is set
    pc,        \* where the route, then the runner of each job is
    accepted,  \* the jobs whose 202 is out
    worked,    \* how often a runner has entered session B
    faults,    \* faults each job has suffered
    crashes,   \* crashes so far
    reruns     \* times each job was handed out again

row == <<status, result, error>>
bounds == <<faults, crashes, reruns>>
vars == <<row, pc, accepted, worked, bounds>>

-----------------------------------------------------------------------------
Terminal == {"completed", "failed"}

\* Nothing in the process works for j.
Resting(j) == pc[j] \in {"idle", "gone"}

Init ==
    /\ status = [j \in Jobs |-> "none"]
    /\ result = [j \in Jobs |-> FALSE]
    /\ error = [j \in Jobs |-> FALSE]
    /\ pc = [j \in Jobs |-> "idle"]
    /\ accepted = {}
    /\ worked = [j \in Jobs |-> 0]
    /\ faults = [j \in Jobs |-> 0]
    /\ crashes = 0
    /\ reruns = [j \in Jobs |-> 0]

Goto(j, from, to) == pc[j] = from /\ pc' = [pc EXCEPT ![j] = to]

\* The row of j goes to status s, with the outcome that belongs to it.
Write(j, s) ==
    /\ status' = [status EXCEPT ![j] = s]
    /\ result' = [result EXCEPT ![j] = @ \/ s = "completed"]
    /\ error' = [error EXCEPT ![j] = @ \/ s = "failed"]

\* A commit that would take the row of j to s raises: applied, or not.
CommitRaises(j, s) ==
    /\ faults[j] < MaxFaults
    /\ faults' = [faults EXCEPT ![j] = @ + 1]
    /\ Write(j, s) \/ UNCHANGED row
    /\ UNCHANGED <<crashes, reruns>>

-----------------------------------------------------------------------------
(* The route *)

\* Mutant of Post: the 202 goes out before the commit.
PostAnswered(j) ==
    /\ Goto(j, "idle", "create")
    /\ accepted' = accepted \cup {j}
    /\ UNCHANGED <<row, worked, bounds>>

\* create_ma_export_job stages a valid request.
Post(j) ==
    /\ Goto(j, "idle", "create")
    /\ UNCHANGED <<row, accepted, worked, bounds>>

CommitCreate(j) ==
    /\ Goto(j, "create", "schedule")
    /\ Write(j, "pending")
    /\ UNCHANGED <<accepted, worked, bounds>>

CommitCreateRaises(j) ==
    /\ Goto(j, "create", "gone")
    /\ CommitRaises(j, "pending")
    /\ UNCHANGED <<accepted, worked>>

\* create_task, and the 202.
Schedule(j) ==
    /\ Goto(j, "schedule", "claim")
    /\ accepted' = accepted \cup {j}
    /\ UNCHANGED <<row, worked, bounds>>

-----------------------------------------------------------------------------
(* The runner *)

\* Mutant of MayClaim: a running job may be claimed as well.
MayClaimRunning(j) == status[j] \in {"pending", "running"}

\* The check of mark_ma_export_job_pending_to_running.
MayClaim(j) == status[j] = "pending"

\* Session A.
Claim(j) ==
    /\ Goto(j, "claim", "build")
    /\ MayClaim(j)
    /\ Write(j, "running")
    /\ worked' = [worked EXCEPT ![j] = @ + 1]
    /\ UNCHANGED <<accepted, bounds>>

ClaimRefused(j) ==
    /\ Goto(j, "claim", "gone")
    /\ ~MayClaim(j)
    /\ UNCHANGED <<row, accepted, worked, bounds>>

\* Mutant of ClaimRaises: session C is for session A as well.
ClaimRaisesFails(j) ==
    /\ Goto(j, "claim", "fail")
    /\ MayClaim(j)
    /\ CommitRaises(j, "running")
    /\ UNCHANGED <<accepted, worked>>

ClaimRaises(j) ==
    /\ Goto(j, "claim", "gone")
    /\ MayClaim(j)
    /\ CommitRaises(j, "running")
    /\ UNCHANGED <<accepted, worked>>

\* Session B: the export is built, signed and serialised.
Build(j) ==
    /\ Goto(j, "build", "complete")
    /\ UNCHANGED <<row, accepted, worked, bounds>>

\* MaExportError and its like: a window too wide, a bad key, too many packs.
BuildRaises(j) ==
    /\ Goto(j, "build", "fail")
    /\ UNCHANGED <<row, accepted, worked, bounds>>

Complete(j) ==
    /\ Goto(j, "complete", "gone")
    /\ Write(j, "completed")
    /\ UNCHANGED <<accepted, worked, bounds>>

\* Mutant of CompleteRaises: session C is left to somebody else.
CompleteRaisesOut(j) ==
    /\ Goto(j, "complete", "gone")
    /\ CommitRaises(j, "completed")
    /\ UNCHANGED <<accepted, worked>>

CompleteRaises(j) ==
    /\ Goto(j, "complete", "fail")
    /\ CommitRaises(j, "completed")
    /\ UNCHANGED <<accepted, worked>>

\* Mutant of MayFail: the row is not read again.
MayFailAnything(j) == TRUE

\* The check of mark_ma_export_job_failed.
MayFail(j) == status[j] \notin Terminal

\* Session C.
Fail(j) ==
    /\ Goto(j, "fail", "gone")
    /\ MayFail(j)
    /\ Write(j, "failed")
    /\ UNCHANGED <<accepted, worked, bounds>>

\* Session B had committed after all: the failure is logged and raised.
FailRefused(j) ==
    /\ Goto(j, "fail", "gone")
    /\ ~MayFail(j)
    /\ UNCHANGED <<row, accepted, worked, bounds>>

FailRaises(j) ==
    /\ Goto(j, "fail", "gone")
    /\ MayFail(j)
    /\ CommitRaises(j, "failed")
    /\ UNCHANGED <<accepted, worked>>

-----------------------------------------------------------------------------
\* Everything in the process ends where it is.
Crash ==
    /\ crashes < MaxCrashes
    /\ crashes' = crashes + 1
    /\ pc' = [j \in Jobs |-> IF Resting(j) THEN pc[j] ELSE "gone"]
    /\ UNCHANGED <<row, accepted, worked, faults, reruns>>

\* Somebody hands the job to a runner again.
Rerun(j) ==
    /\ status[j] # "none"
    /\ reruns[j] < MaxReruns
    /\ reruns' = [reruns EXCEPT ![j] = @ + 1]
    /\ Goto(j, "gone", "claim")
    /\ UNCHANGED <<row, accepted, worked, faults, crashes>>

Route(j) == CommitCreate(j) \/ CommitCreateRaises(j) \/ Schedule(j)

Runner(j) ==
    \/ Claim(j) \/ ClaimRefused(j) \/ ClaimRaises(j)
    \/ Build(j) \/ BuildRaises(j)
    \/ Complete(j) \/ CompleteRaises(j)
    \/ Fail(j) \/ FailRefused(j) \/ FailRaises(j)

\* Every job was posted, and nobody works.
Quiet == (\A j \in Jobs : pc[j] = "gone") /\ UNCHANGED vars

Next ==
    \/ \E j \in Jobs : Post(j) \/ Route(j) \/ Runner(j) \/ Rerun(j)
    \/ Crash
    \/ Quiet

Spec == Init /\ [][Next]_vars

\* The event loop runs every task that is ready.
FairSpec == Spec /\ \A j \in Jobs : WF_vars(Route(j) \/ Runner(j))

-----------------------------------------------------------------------------
(* Type invariant *)

\* Every variable has its type, and every 202 has its row.
TypeOK ==
    /\ status \in [Jobs -> {"none", "pending", "running"} \cup Terminal]
    /\ result \in [Jobs -> BOOLEAN]
    /\ error \in [Jobs -> BOOLEAN]
    /\ pc \in [Jobs -> {"idle", "create", "schedule", "claim", "build", "complete",
                        "fail", "gone"}]
    /\ accepted \subseteq {j \in Jobs : status[j] # "none"}
    /\ worked \in [Jobs -> 0 .. 1 + MaxReruns]
    /\ faults \in [Jobs -> 0 .. MaxFaults]
    /\ crashes \in 0 .. MaxCrashes
    /\ reruns \in [Jobs -> 0 .. MaxReruns]

-----------------------------------------------------------------------------
(* Safety *)

\* A job has a result exactly when it is completed and an error exactly when
\* it is failed, also when the commit of its result was applied and only the
\* acknowledgement was lost, which sends the runner into session C.
OutcomeMatchesStatus ==
    \A j \in Jobs :
        /\ result[j] <=> status[j] = "completed"
        /\ error[j] <=> status[j] = "failed"

\* An export is built at most once per job, however often it is handed out and
\* wherever the runner before was interrupted.
WorkedOnce == \A j \in Jobs : worked[j] <= 1

\* What a client has polled once it can rely on: a completed or failed job
\* never changes again.  Follows from OutcomeMatchesStatus, if its status stays.
TerminalStands ==
    [][\A j \in Jobs :
          status[j] \in Terminal =>
              /\ status'[j] = status[j]
              /\ result'[j] = result[j]
              /\ error'[j] = error[j]]_vars

-----------------------------------------------------------------------------
(* Liveness *)

\* A 202 is followed by an outcome, unless the process or the database fails
\* under the job; and an export that is built is not even lost for one fault of
\* the database: the job gets its outcome, the result or the error, unless a
\* crash or a second fault comes on top.
NoJobIsStranded ==
    \A j \in Jobs :
        /\ (j \in accepted) ~> (status[j] \in Terminal \/ crashes > 0 \/ faults[j] > 0)
        /\ (pc[j] = "complete") ~> (status[j] \in Terminal \/ crashes > 0 \/ faults[j] > 1)
=============================================================================
