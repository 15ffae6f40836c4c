--------------------------- MODULE BundleWorkflow ---------------------------
(***************************************************************************)
(* The approval workflow of one tenant's policy bundles (every statement   *)
(* is about the bundles of one tenant, so tenants do not interact):        *)
(*                                                                         *)
(*   proposed -> reviewed -> approved -> active -> superseded              *)
(*                                                                         *)
(* Each call of the workflow runs in a session_scope of its own.  A call   *)
(* reads, checks in Python, and then updates by primary key: no row is     *)
(* locked by the reads, and the identity map keeps the status a session    *)
(* has loaded even where the bundle is selected again.  An UPDATE waits    *)
(* for another open transaction that updated the row and then overwrites   *)
(* it; the partial unique index on the active status makes it wait for an  *)
(* open transaction that touches the tenant's active entry, and fail if    *)
(* another bundle is active.  Approval rows become visible with the commit.*)
(***************************************************************************)
EXTENDS Naturals

CONSTANTS
    Sessions,    \* sessions that may be open at once
    Authored,    \* bundles written with a version of their own
    Defaults,    \* bundles the provider builds itself, all of version 1.0.0
    Actors,      \* people and services that call the workflow
    None,        \* no bundle
    Ops,         \* the operations that are called
    Approved,    \* authored bundles that are approved when the run starts
    MaxCalls     \* bound: calls ever made

Bundles == Authored \cup Defaults

AllOps == {"propose", "review", "approve", "activate", "supersede", "bootstrap"}

ASSUME CallsAreBounded == MaxCalls \in Nat

ASSUME BundlesAreDistinct ==
    /\ None \notin Bundles
    /\ Authored \cap Defaults = {}
    /\ Approved \subseteq Authored

ASSUME OpsAreKnown == Ops \subseteq AllOps

VARIABLES
    status,     \* the committed status of each bundle
    approvals,  \* the committed approval rows
    pc,         \* where each session is
    op,         \* the operation it runs
    target,     \* the bundle it is about
    actor,      \* who called
    prior,      \* activate: the active bundle it found
    calls       \* calls made so far

db == <<status, approvals>>
session == <<pc, op, target, actor, prior>>
vars == <<db, session, calls>>

-----------------------------------------------------------------------------
Statuses == {"absent", "proposed", "reviewed", "approved", "active", "superseded"}

\* The roles of the rows; as actors, somebody who makes no other call.
Roles == {"author", "reviewer", "approver", "activator", "system"}

Approval ==
    [bundle : Bundles, from : Statuses, to : Statuses,
     actor : Actors \cup Roles, role : Roles]

\* _VALID_TRANSITIONS, read backwards: the status each target status needs.
Needs == [proposed |-> "proposed", reviewed |-> "proposed", approved |-> "reviewed",
          active |-> "approved", superseded |-> "active"]

\* _REQUIRED_ROLE.
RoleFor == [proposed |-> "author", reviewed |-> "reviewer", approved |-> "approver",
            active |-> "activator", superseded |-> "system"]

TargetStatus ==
    [propose |-> "proposed", review |-> "reviewed", approve |-> "approved",
     activate |-> "active", supersede |-> "superseded", bootstrap |-> "active"]

\* The row _write_approval stages for the transition of b to status to.
Row(b, to, who) ==
    [bundle |-> b, from |-> Needs[to], to |-> to, actor |-> who, role |-> RoleFor[to]]

\* The roles a judgment must not share its actor with.
Forbidden == [review |-> {"author"}, approve |-> {"author", "reviewer"}]

Open(s) == pc[s] # "idle"
Activates(s) == op[s] \in {"activate", "bootstrap"}

\* The rows of policy_bundles an open transaction has updated.
Updated(s) ==
    (IF pc[s] = "commit" /\ op[s] # "propose" THEN {target[s]} ELSE {})
    \cup (IF pc[s] \in {"flip", "commit"} THEN {prior[s]} \ {None} ELSE {})

\* An open transaction has inserted a row under the version key 1.0.0.
HoldsVersion(s) == op[s] = "bootstrap" /\ pc[s] \in {"prior", "retire", "flip", "commit"}

ActiveBundles == {b \in Bundles : status[b] = "active"}

-----------------------------------------------------------------------------
\* Approved bundles come with the rows of a reviewer and of another approver.
Init ==
    /\ status = [b \in Bundles |-> IF b \in Approved THEN "approved" ELSE "absent"]
    /\ approvals = {Row(b, to, RoleFor[to]) : b \in Approved, to \in {"reviewed", "approved"}}
    /\ pc = [s \in Sessions |-> "idle"]
    /\ op = [s \in Sessions |-> "propose"]
    /\ target = [s \in Sessions |-> None]
    /\ actor = [s \in Sessions |-> None]
    /\ prior = [s \in Sessions |-> None]
    /\ calls = 0

Goto(s, from, to) == pc[s] = from /\ pc' = [pc EXCEPT ![s] = to]

\* The session is closed.
Close(s) ==
    /\ op' = [op EXCEPT ![s] = "propose"]
    /\ target' = [target EXCEPT ![s] = None]
    /\ actor' = [actor EXCEPT ![s] = None]
    /\ prior' = [prior EXCEPT ![s] = None]
    /\ UNCHANGED calls

\* The call raises, and session_scope rolls its transaction back.
Fail(s, from) == Goto(s, from, "idle") /\ Close(s) /\ UNCHANGED db

-----------------------------------------------------------------------------
(* What an open transaction waits for *)

\* t has an uncommitted change to the tenant's entry in the active index.
TouchesActive(t) ==
    \/ pc[t] = "commit" /\ Activates(t)
    \/ Updated(t) \cap ActiveBundles # {}

WaitsFor(s, t) ==
    \/ pc[s] = "insert" /\ HoldsVersion(t)
    \/ pc[s] = "retire" /\ prior[s] \in Updated(t)
    \/ pc[s] = "flip" /\ target[s] \in Updated(t)
    \/ pc[s] = "flip" /\ Activates(s) /\ TouchesActive(t)

Blocked(s) == \E t \in Sessions \ {s} : WaitsFor(s, t)

-----------------------------------------------------------------------------
\* write_bundle, in a session that commits at once.
WriteBundle(b) ==
    /\ b \in Authored
    /\ status[b] = "absent"
    /\ status' = [status EXCEPT ![b] = "proposed"]
    /\ UNCHANGED <<approvals, session, calls>>

\* A call arrives; bootstrap draws a bundle id of its own.
Begin(s, o, b, a) ==
    /\ calls < MaxCalls
    /\ calls' = calls + 1
    /\ IF o = "bootstrap"
       THEN b \in Defaults /\ status[b] = "absent" /\ \A t \in Sessions : target[t] # b
       ELSE status[b] # "absent"
    /\ Goto(s, "idle", CASE o \in {"review", "approve"} -> "segregate"
                         [] o = "bootstrap"             -> "find"
                         [] OTHER                       -> "load")
    /\ op' = [op EXCEPT ![s] = o]
    /\ target' = [target EXCEPT ![s] = b]
    /\ actor' = [actor EXCEPT ![s] = a]
    /\ UNCHANGED <<db, prior>>

\* The actor has filled a role of this bundle that the call forbids.
Conflicted(s) ==
    \E row \in approvals :
        /\ row.bundle = target[s]
        /\ row.role \in Forbidden[op[s]]
        /\ row.actor = actor[s]

\* _enforce_segregation.
Segregate(s) ==
    /\ Goto(s, "segregate", "load")
    /\ ~Conflicted(s)
    /\ UNCHANGED <<db, op, target, actor, prior, calls>>

SegregationError(s) ==
    /\ Fail(s, "segregate")
    /\ Conflicted(s)

\* Mutant of MayLoad: activate takes a reviewed bundle too.
MayLoadReviewed(s) ==
    \/ status[target[s]] = Needs[TargetStatus[op[s]]]
    \/ op[s] = "activate" /\ status[target[s]] = "reviewed"

\* The status check of propose, activate and _transition.
MayLoad(s) == status[target[s]] = Needs[TargetStatus[op[s]]]

\* _load_bundle: from here on the session goes by the status it has read.
Load(s) ==
    /\ Goto(s, "load", CASE op[s] = "propose"  -> "commit"
                         [] op[s] = "activate" -> "prior"
                         [] OTHER              -> "flip")
    /\ MayLoad(s)
    /\ UNCHANGED <<db, op, target, actor, prior, calls>>

InvalidTransition(s) ==
    /\ Fail(s, "load")
    /\ ~MayLoad(s)

-----------------------------------------------------------------------------
\* PostgresBundleProvider.get_active_bundle finds a bundle, and the call ends.
FindActive(s) ==
    /\ Fail(s, "find")
    /\ ActiveBundles # {}

FindNone(s) ==
    /\ Goto(s, "find", "insert")
    /\ ActiveBundles = {}
    /\ UNCHANGED <<db, op, target, actor, prior, calls>>

VersionTaken == \E b \in Defaults : status[b] # "absent"

\* write_bundle of the default, and the walk through propose, review, approve.
InsertDefault(s) ==
    /\ Goto(s, "insert", "prior")
    /\ ~Blocked(s)
    /\ ~VersionTaken
    /\ UNCHANGED <<db, op, target, actor, prior, calls>>

\* uq_policy_bundles_tenant_version.
InsertConflict(s) ==
    /\ Fail(s, "insert")
    /\ ~Blocked(s)
    /\ VersionTaken

-----------------------------------------------------------------------------
\* activate selects the active bundle of the tenant.
FindPrior(s) ==
    /\ pc[s] = "prior"
    /\ target[s] \notin ActiveBundles
    /\ IF ActiveBundles = {}
       THEN pc' = [pc EXCEPT ![s] = "flip"] /\ UNCHANGED prior
       ELSE /\ pc' = [pc EXCEPT ![s] = "retire"]
            /\ \E b \in ActiveBundles : prior' = [prior EXCEPT ![s] = b]
    /\ UNCHANGED <<db, op, target, actor, calls>>

\* It is the target itself, activated meanwhile: activate supersedes it in its
\* savepoint, and _transition then refuses to activate a superseded bundle.
PriorIsTarget(s) ==
    /\ Fail(s, "prior")
    /\ target[s] \in ActiveBundles

\* UPDATE of the prior active bundle to superseded, and its approval row.
Retire(s) ==
    /\ Goto(s, "retire", "flip")
    /\ ~Blocked(s)
    /\ UNCHANGED <<db, op, target, actor, prior, calls>>

\* Mutant of IndexConflict: the index does not cover the tenant.
NoIndexConflict(s) == FALSE

\* Another bundle of the tenant is active.
IndexConflict(s) == Activates(s) /\ ActiveBundles \ {prior[s], target[s]} # {}

\* UPDATE of the target's status, and its approval row.
Flip(s) ==
    /\ Goto(s, "flip", "commit")
    /\ ~Blocked(s)
    /\ ~IndexConflict(s)
    /\ UNCHANGED <<db, op, target, actor, prior, calls>>

\* Mutant of FlipConflict: the savepoint is entered again.
FlipRetried(s) ==
    /\ Goto(s, "flip", "flip")
    /\ ~Blocked(s)
    /\ IndexConflict(s)
    /\ UNCHANGED <<db, op, target, actor, prior, calls>>

\* uq_policy_bundles_one_active_per_tenant.
FlipConflict(s) ==
    /\ Fail(s, "flip")
    /\ ~Blocked(s)
    /\ IndexConflict(s)

\* Mutant of BlankReason: no savepoint, and the caller commits what is there.
BlankReasonHalfway(s) ==
    /\ op[s] # "bootstrap"
    /\ Goto(s, "flip", "idle")
    /\ Close(s)
    /\ status' = [b \in Bundles |-> IF b = prior[s] THEN "superseded" ELSE status[b]]
    /\ UNCHANGED approvals

\* _transition refuses a blank reason; activate's savepoint is rolled back.
BlankReason(s) ==
    /\ op[s] # "bootstrap"
    /\ Fail(s, "flip")

-----------------------------------------------------------------------------
\* Mutant of Staged: activate supersedes a prior bundle that is not there.
StagedForNobody(s) ==
    {Row(target[s], TargetStatus[op[s]], actor[s])}
    \cup {Row(prior[s], "superseded", actor[s]) : o \in {op[s]} \cap {"activate"}}

\* The rows a session has staged by the time it commits.
Staged(s) ==
    (IF op[s] = "bootstrap"
     THEN {Row(target[s], to, RoleFor[to]) : to \in {"proposed", "reviewed", "approved", "active"}}
     ELSE {Row(target[s], TargetStatus[op[s]], actor[s])})
    \cup (IF prior[s] = None
          THEN {}
          ELSE {Row(prior[s], "superseded",
                    IF op[s] = "bootstrap" THEN "activator" ELSE actor[s])})

\* session_scope commits what the call has staged.
Commit(s) ==
    /\ Goto(s, "commit", "idle")
    /\ Close(s)
    /\ status' = [b \in Bundles |->
                     CASE b = prior[s]                          -> "superseded"
                       [] b = target[s] /\ op[s] # "propose"    -> TargetStatus[op[s]]
                       [] OTHER                                 -> status[b]]
    /\ approvals' = approvals \cup Staged(s)

\* The database aborts one of the transactions that wait in a circle.
DeadlockVictim(s) ==
    /\ \E circle \in SUBSET Sessions :
          /\ s \in circle
          /\ \A x \in circle : \E y \in circle \ {x} : WaitsFor(x, y)
    /\ Fail(s, pc[s])

\* The connection or the process is lost: the transaction rolls back.
Abort(s) == Open(s) /\ Fail(s, pc[s])

-----------------------------------------------------------------------------
Bootstrap(s) == FindActive(s) \/ FindNone(s) \/ InsertDefault(s) \/ InsertConflict(s)

Check(s) == Segregate(s) \/ SegregationError(s) \/ Load(s) \/ InvalidTransition(s)

Update(s) ==
    \/ FindPrior(s) \/ PriorIsTarget(s)
    \/ Retire(s)
    \/ Flip(s) \/ FlipConflict(s)

Step(s) == Bootstrap(s) \/ Check(s) \/ Update(s) \/ Commit(s) \/ DeadlockVictim(s)

Call(s) == \E o \in Ops, b \in Bundles, a \in Actors : Begin(s, o, b, a)

\* Nobody calls any more.
Quiet == calls = MaxCalls /\ (\A s \in Sessions : ~Open(s)) /\ UNCHANGED vars

Next ==
    \/ \E s \in Sessions : Call(s) \/ Step(s) \/ BlankReason(s) \/ Abort(s)
    \/ \E b \in Authored : WriteBundle(b)
    \/ Quiet

Spec == Init /\ [][Next]_vars

\* The event loop runs every ready coroutine, and the database ends every wait;
\* nothing says that a caller forgets the reason.
FairSpec == Spec /\ \A s \in Sessions : WF_vars(Step(s))

-----------------------------------------------------------------------------
(* Type invariant *)

\* Every variable has its type.
TypeOK ==
    /\ status \in [Bundles -> Statuses]
    /\ approvals \subseteq Approval
    /\ pc \in [Sessions -> {"idle", "segregate", "load", "find", "insert", "prior",
                            "retire", "flip", "commit"}]
    /\ op \in [Sessions -> AllOps]
    /\ target \in [Sessions -> Bundles \cup {None}]
    /\ actor \in [Sessions -> Actors \cup {None}]
    /\ prior \in [Sessions -> Bundles \cup {None}]
    /\ calls \in 0 .. MaxCalls

-----------------------------------------------------------------------------
(* Safety *)

\* However activations, stale reviews and revocations race, a tenant never has
\* two active bundles, so ingest always has one bundle to bind a receipt to.
OneActive == \A b, c \in ActiveBundles : b = c

\* The approval log accounts for every status a bundle is in: an active bundle
\* has the rows of a review, an approval and an activation, also when its
\* status was overwritten by a call that had read an older one.
StatusIsBacked ==
    \A b \in Bundles :
        LET Logged(to) ==
                \E row \in approvals :
                    row.bundle = b /\ row.to = to /\ row.role = RoleFor[to]
        IN
        /\ status[b] \notin {"absent", "proposed"} => Logged("reviewed")
        /\ status[b] \in {"approved", "active", "superseded"} => Logged("approved")
        /\ status[b] \in {"active", "superseded"} => Logged("active")
        /\ status[b] = "superseded" => Logged("superseded")

\* A bundle that is superseded by another one's activation leaves the tenant
\* with that other one active: an activation that fails half way, whoever
\* catches the error, never takes the active bundle away.
ActivationIsWhole ==
    [][\A b \in Bundles :
          /\ status[b] = "active"
          /\ status'[b] = "superseded"
          => \/ \E c \in Bundles : status'[c] = "active"
             \/ \E s \in Sessions : Commit(s) /\ op[s] = "supersede" /\ target[s] = b]_vars

-----------------------------------------------------------------------------
(* Liveness *)

\* Every call ends, although calls wait for each other's rows and index
\* entries and may wait in a circle, which the database breaks.
EveryCallEnds == \A s \in Sessions : Open(s) ~> ~Open(s)

-----------------------------------------------------------------------------
(* What the documentation says and the code does not do *)

Rank == [absent |-> 0, proposed |-> 1, reviewed |-> 2, approved |-> 3,
         active |-> 4, superseded |-> 5]

\* Transitions go forward only, and superseded is terminal.
ForwardOnly == [][\A b \in Bundles : Rank[status[b]] <= Rank[status'[b]]]_vars
=============================================================================
