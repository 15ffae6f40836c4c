--------------------------- MODULE WorkflowProofs ---------------------------
(***************************************************************************)
(* Proofs about BundleWorkflow, for any number of sessions, bundles,       *)
(* actors and calls, and any choice of operations.                         *)
(***************************************************************************)
EXTENDS BundleWorkflow, TLAPS

\* The log has a row for the transition of b to status to, with its role.
Logged(log, b, to) ==
    \E row \in log : row.bundle = b /\ row.to = to /\ row.role = RoleFor[to]

\* The log accounts for b being in status st.
Backed(log, b, st) ==
    /\ st \notin {"absent", "proposed"} => Logged(log, b, "reviewed")
    /\ st \in {"approved", "active", "superseded"} => Logged(log, b, "approved")
    /\ st \in {"active", "superseded"} => Logged(log, b, "active")
    /\ st = "superseded" => Logged(log, b, "superseded")

\* Where a session is fits the operation it runs; it has a prior bundle only
\* if it activates, and then another one than its target.
InItsPlace(s) ==
    /\ pc[s] # "idle" => target[s] \in Bundles /\ actor[s] \in Actors
    /\ pc[s] = "segregate" => op[s] \in {"review", "approve"}
    /\ pc[s] \in {"find", "insert"} => op[s] = "bootstrap"
    /\ pc[s] = "load" => op[s] # "bootstrap"
    /\ pc[s] \in {"prior", "retire"} => Activates(s)
    /\ pc[s] = "flip" => op[s] # "propose"
    /\ prior[s] # None =>
           Activates(s) /\ prior[s] # target[s] /\ pc[s] \in {"retire", "flip", "commit"}

\* What a session has read is backed by the log, whatever has happened since:
\* its target had the status the operation needs, its prior bundle was active.
ReadWasBacked(s) ==
    /\ pc[s] \in {"prior", "retire", "flip", "commit"} /\ op[s] # "bootstrap" =>
           Backed(approvals, target[s], Needs[TargetStatus[op[s]]])
    /\ prior[s] # None => Backed(approvals, prior[s], "active")

\* An activation that has flipped its target is alone with the active index:
\* no other has, and nothing is active but what it is about to replace.
HasTheIndex(s) ==
    pc[s] = "commit" /\ Activates(s) =>
        /\ \A t \in Sessions \ {s} : ~ (pc[t] = "commit" /\ Activates(t))
        /\ ActiveBundles \subseteq {prior[s], target[s]}

\* The inductive invariant.
WInv ==
    /\ TypeOK
    /\ OneActive
    /\ StatusIsBacked
    /\ \A s \in Sessions : InItsPlace(s) /\ ReadWasBacked(s) /\ HasTheIndex(s)

-----------------------------------------------------------------------------
(* Operators *)

LEMMA BackedIsStatusBacked == StatusIsBacked <=> \A b \in Bundles : Backed(approvals, b, status[b])
  BY DEF StatusIsBacked, Backed, Logged

\* The log only grows, so what it accounts for it goes on to account for.
LEMMA BackedStays ==
    ASSUME NEW log, NEW later, log \subseteq later, NEW b, NEW st, Backed(log, b, st)
    PROVE  Backed(later, b, st)
  BY DEF Backed, Logged

\* A step of session s that goes on with its call.
Advances(s) ==
    \/ Segregate(s) \/ Load(s) \/ FindNone(s) \/ InsertDefault(s)
    \/ FindPrior(s) \/ Retire(s) \/ Flip(s)

\* A step that ends its call without a trace.
GivesUp(s) ==
    /\ pc[s] # "idle"
    /\ pc' = [pc EXCEPT ![s] = "idle"]
    /\ Close(s)
    /\ UNCHANGED db

\* Whatever happens is one of these.
LEMMA StepKinds ==
    ASSUME TypeOK, [Next]_vars
    PROVE  \/ UNCHANGED vars
           \/ \E b \in Authored : WriteBundle(b)
           \/ \E s \in Sessions : Call(s) \/ Advances(s) \/ GivesUp(s) \/ Commit(s)
  <1>1. ASSUME NEW s \in Sessions, NEW from, Fail(s, from), from # "idle" PROVE GivesUp(s)
    BY <1>1 DEF Fail, Goto, GivesUp
  <1>2. ASSUME NEW s \in Sessions, DeadlockVictim(s) PROVE GivesUp(s)
    <2>1. pc[s] # "idle"
      BY <1>2 DEF DeadlockVictim, WaitsFor
    <2> QED
      BY <1>1, <1>2, <2>1 DEF DeadlockVictim
  <1>3. ASSUME NEW s \in Sessions, Step(s) PROVE Advances(s) \/ GivesUp(s) \/ Commit(s)
    BY <1>1, <1>2, <1>3
    DEF Step, Bootstrap, Check, Update, Advances, FindActive, InsertConflict,
        SegregationError, InvalidTransition, PriorIsTarget, FlipConflict
  <1>4. ASSUME NEW s \in Sessions, BlankReason(s) \/ Abort(s) PROVE GivesUp(s)
    BY <1>1, <1>4 DEF BlankReason, Abort, Open
  <1> QED
    BY <1>3, <1>4 DEF Next, Quiet

-----------------------------------------------------------------------------
(* Types *)

LEMMA RowsAreApprovals ==
    ASSUME NEW b \in Bundles, NEW who \in Actors \cup Roles,
           NEW to \in {"proposed", "reviewed", "approved", "active", "superseded"}
    PROVE  Row(b, to, who) \in Approval
  BY DEF Row, Approval, Needs, RoleFor, Statuses, Roles

LEMMA TypeInit == Init => TypeOK
  <1> SUFFICES ASSUME Init PROVE TypeOK
    OBVIOUS
  <1>1. approvals \subseteq Approval
    <2>1. Approved \subseteq Bundles
      BY BundlesAreDistinct DEF Bundles
    <2>2. \A to \in {"reviewed", "approved"} : RoleFor[to] \in Roles
      BY DEF RoleFor, Roles
    <2> QED
      BY <2>1, <2>2, RowsAreApprovals DEF Init
  <1> QED
    BY <1>1, CallsAreBounded DEF Init, TypeOK, Statuses, AllOps

LEMMA StagedIsTyped ==
    ASSUME TypeOK, NEW s \in Sessions, InItsPlace(s), pc[s] = "commit"
    PROVE  Staged(s) \subseteq Approval
  <1>1. target[s] \in Bundles /\ actor[s] \in Actors /\ op[s] \in AllOps
    BY DEF InItsPlace, TypeOK
  <1>2. prior[s] \in Bundles \cup {None}
    BY DEF TypeOK
  <1>3. \A to \in {"proposed", "reviewed", "approved", "active", "superseded"} :
            RoleFor[to] \in Roles
    BY DEF RoleFor, Roles
  <1>4. TargetStatus[op[s]] \in {"proposed", "reviewed", "approved", "active", "superseded"}
    BY <1>1 DEF TargetStatus, AllOps
  <1>5. "activator" \in Roles
    BY DEF Roles
  <1> QED
    BY <1>1, <1>2, <1>3, <1>4, <1>5, RowsAreApprovals DEF Staged

LEMMA TypeNext ==
    ASSUME TypeOK, [Next]_vars, \A s \in Sessions : InItsPlace(s)
    PROVE  TypeOK'
  <1> USE DEF TypeOK
  <1>1. CASE UNCHANGED vars
    BY <1>1 DEF vars, db, session
  <1>2. ASSUME NEW b \in Authored, WriteBundle(b) PROVE TypeOK'
    BY <1>2 DEF WriteBundle, session, Statuses, Bundles
  <1>3. ASSUME NEW s \in Sessions, Call(s) PROVE TypeOK'
    BY <1>3, OpsAreKnown, CallsAreBounded DEF Call, Begin, Goto, db, Open
  <1>4. ASSUME NEW s \in Sessions, Advances(s) PROVE TypeOK'
    BY <1>4
    DEF Advances, Segregate, Load, FindNone, InsertDefault, FindPrior, Retire, Flip,
        Goto, db, ActiveBundles
  <1>5. ASSUME NEW s \in Sessions, GivesUp(s) PROVE TypeOK'
    BY <1>5 DEF GivesUp, Close, db, AllOps
  <1>6. ASSUME NEW s \in Sessions, Commit(s) PROVE TypeOK'
    <2>1. Staged(s) \subseteq Approval
      BY <1>6, StagedIsTyped DEF Commit, Goto
    <2>2. TargetStatus[op[s]] \in Statuses
      BY DEF TargetStatus, AllOps, Statuses
    <2>3. status' \in [Bundles -> Statuses]
      BY <1>6, <2>2 DEF Commit, Statuses
    <2> QED
      BY <1>6, <2>1, <2>3 DEF Commit, Goto, Close, AllOps
  <1> QED
    BY <1>1, <1>2, <1>3, <1>4, <1>5, <1>6, StepKinds

-----------------------------------------------------------------------------
(* What sessions have read *)

LEMMA PlaceNext ==
    ASSUME TypeOK, [Next]_vars, \A s \in Sessions : InItsPlace(s)
    PROVE  \A s \in Sessions : InItsPlace(s)'
  <1> USE BundlesAreDistinct DEF TypeOK, InItsPlace, Activates
  <1>1. CASE UNCHANGED vars
    BY <1>1 DEF vars, session
  <1>2. ASSUME NEW b \in Authored, WriteBundle(b) PROVE \A s \in Sessions : InItsPlace(s)'
    BY <1>2 DEF WriteBundle, session
  <1>3. ASSUME NEW s \in Sessions, Call(s) PROVE \A t \in Sessions : InItsPlace(t)'
    <2>1. PICK o \in Ops, b \in Bundles, a \in Actors : Begin(s, o, b, a)
      BY <1>3 DEF Call
    <2>2. o \in AllOps
      BY OpsAreKnown
    <2> QED
      BY <2>1, <2>2 DEF Begin, Goto, AllOps
  <1>4. ASSUME NEW s \in Sessions, Advances(s) PROVE \A t \in Sessions : InItsPlace(t)'
    BY <1>4
    DEF Advances, Segregate, Load, FindNone, InsertDefault, FindPrior, Retire, Flip,
        Goto, ActiveBundles, AllOps
  <1>5. ASSUME NEW s \in Sessions, GivesUp(s) PROVE \A t \in Sessions : InItsPlace(t)'
    BY <1>5 DEF GivesUp, Close
  <1>6. ASSUME NEW s \in Sessions, Commit(s) PROVE \A t \in Sessions : InItsPlace(t)'
    BY <1>6 DEF Commit, Goto, Close
  <1> QED
    BY <1>1, <1>2, <1>3, <1>4, <1>5, <1>6, StepKinds

\* The log keeps every row it has.
LEMMA LogGrows ==
    ASSUME TypeOK, [Next]_vars
    PROVE  approvals \subseteq approvals'
  <1>1. ASSUME NEW s \in Sessions, Advances(s) PROVE UNCHANGED db
    BY <1>1
    DEF Advances, Segregate, Load, FindNone, InsertDefault, FindPrior, Retire, Flip, db
  <1> QED
    BY <1>1, StepKinds DEF vars, db, WriteBundle, Call, Begin, GivesUp, Commit

LEMMA ReadWasBackedNext ==
    ASSUME TypeOK, StatusIsBacked, [Next]_vars,
           \A s \in Sessions : InItsPlace(s) /\ ReadWasBacked(s)
    PROVE  \A s \in Sessions : ReadWasBacked(s)'
  <1> DEFINE Reads == {"prior", "retire", "flip", "commit"}
  <1>0. ASSUME NEW b, NEW st, Backed(approvals, b, st) PROVE Backed(approvals', b, st)
    BY <1>0, LogGrows, BackedStays
  \* A session whose target, operation and prior bundle stay and which does not
  \* come to its reads.
  <1>1. ASSUME NEW s \in Sessions,
               target'[s] = target[s], op'[s] = op[s], prior'[s] \in {prior[s], None},
               pc'[s] \in Reads => pc[s] \in Reads \/ op[s] = "bootstrap"
        PROVE  ReadWasBacked(s)'
    BY <1>0, <1>1 DEF ReadWasBacked
  <1>2. CASE UNCHANGED vars
    BY <1>1, <1>2 DEF vars, session
  <1>3. ASSUME NEW b \in Authored, WriteBundle(b) PROVE \A s \in Sessions : ReadWasBacked(s)'
    BY <1>1, <1>3 DEF WriteBundle, session
  <1>4. ASSUME NEW s \in Sessions, Call(s) PROVE \A t \in Sessions : ReadWasBacked(t)'
    <2>1. /\ pc'[s] \notin Reads
          /\ prior'[s] = None
      BY <1>4 DEF Call, Begin, Goto, TypeOK, InItsPlace
    <2>2. \A t \in Sessions \ {s} :
              pc'[t] = pc[t] /\ target'[t] = target[t] /\ op'[t] = op[t] /\ prior'[t] = prior[t]
      BY <1>4 DEF Call, Begin, Goto, TypeOK
    <2>3. ReadWasBacked(s)'
      BY <2>1 DEF ReadWasBacked
    <2> QED
      BY <1>1, <2>2, <2>3
  <1>5. ASSUME NEW s \in Sessions, Advances(s) PROVE \A t \in Sessions : ReadWasBacked(t)'
    <2>1. /\ UNCHANGED <<db, op, target>>
          /\ \A t \in Sessions \ {s} : pc'[t] = pc[t] /\ prior'[t] = prior[t]
      BY <1>5
      DEF Advances, Segregate, Load, FindNone, InsertDefault, FindPrior, Retire, Flip,
          Goto, TypeOK, db
    <2>2. ASSUME NEW t \in Sessions \ {s} PROVE ReadWasBacked(t)'
      BY <1>1, <2>1
    <2>3. CASE Load(s)
      <3>1. target[s] \in Bundles /\ status[target[s]] = Needs[TargetStatus[op[s]]]
        BY <2>3 DEF Load, Goto, MayLoad, InItsPlace
      <3>2. Backed(approvals, target[s], Needs[TargetStatus[op[s]]])
        BY <3>1, BackedIsStatusBacked
      <3>3. prior'[s] = None
        BY <2>3 DEF Load, Goto, InItsPlace
      <3> QED
        BY <1>0, <2>1, <2>2, <3>2, <3>3 DEF ReadWasBacked
    <2>4. CASE FindPrior(s)
      <3>1. prior'[s] # None => prior'[s] \in Bundles /\ status[prior'[s]] = "active"
        BY <2>4 DEF FindPrior, ActiveBundles, TypeOK, InItsPlace
      <3>2. prior'[s] # None => Backed(approvals', prior'[s], "active")
        BY <1>0, <3>1, BackedIsStatusBacked
      <3>3. pc[s] \in Reads
        BY <2>4 DEF FindPrior
      <3>4. op[s] # "bootstrap" => Backed(approvals', target[s], Needs[TargetStatus[op[s]]])
        BY <1>0, <3>3 DEF ReadWasBacked
      <3> QED
        BY <2>1, <2>2, <3>2, <3>4 DEF ReadWasBacked
    <2>5. CASE Segregate(s) \/ FindNone(s) \/ InsertDefault(s) \/ Retire(s) \/ Flip(s)
      BY <1>1, <2>1, <2>5
      DEF Segregate, FindNone, InsertDefault, Retire, Flip, Goto, TypeOK, InItsPlace
    <2> QED
      BY <1>5, <2>2, <2>3, <2>4, <2>5 DEF Advances
  <1>6. ASSUME NEW s \in Sessions, GivesUp(s) \/ Commit(s)
        PROVE  \A t \in Sessions : ReadWasBacked(t)'
    <2>1. pc'[s] = "idle" /\ prior'[s] = None
      BY <1>6 DEF GivesUp, Commit, Goto, Close, TypeOK
    <2>2. \A t \in Sessions \ {s} :
              pc'[t] = pc[t] /\ target'[t] = target[t] /\ op'[t] = op[t] /\ prior'[t] = prior[t]
      BY <1>6 DEF GivesUp, Commit, Goto, Close, TypeOK
    <2>3. ReadWasBacked(s)'
      BY <2>1 DEF ReadWasBacked
    <2> QED
      BY <1>1, <2>2, <2>3
  <1> QED
    BY <1>2, <1>3, <1>4, <1>5, <1>6, StepKinds

\* Only WriteBundle and Commit touch what is committed.
LEMMA OthersKeepTheTables ==
    ASSUME [Next]_vars, TypeOK
    PROVE  \/ UNCHANGED db
           \/ \E b \in Authored : WriteBundle(b)
           \/ \E s \in Sessions : Commit(s)
  <1>1. ASSUME NEW s \in Sessions, Advances(s) PROVE UNCHANGED db
    BY <1>1
    DEF Advances, Segregate, Load, FindNone, InsertDefault, FindPrior, Retire, Flip, db
  <1> QED
    BY <1>1, StepKinds DEF vars, Call, Begin, GivesUp

LEMMA StatusIsBackedNext ==
    ASSUME TypeOK, StatusIsBacked, [Next]_vars,
           \A s \in Sessions : InItsPlace(s) /\ ReadWasBacked(s)
    PROVE  StatusIsBacked'
  <1>0. ASSUME NEW b, NEW st, Backed(approvals, b, st) PROVE Backed(approvals', b, st)
    BY <1>0, LogGrows, BackedStays
  <1> SUFFICES ASSUME NEW b \in Bundles PROVE Backed(approvals', b, status'[b])
    BY DEF StatusIsBacked, Backed, Logged
  <1>1. Backed(approvals, b, status[b])
    BY BackedIsStatusBacked
  <1>2. CASE UNCHANGED db
    BY <1>0, <1>1, <1>2 DEF db
  <1>3. ASSUME NEW c \in Authored, WriteBundle(c) PROVE Backed(approvals', b, status'[b])
    <2>1. status'[b] \in {status[b], "proposed"}
      BY <1>3 DEF WriteBundle, TypeOK, Bundles
    <2>2. Backed(approvals, b, "proposed")
      BY DEF Backed
    <2> QED
      BY <1>0, <1>1, <2>1, <2>2
  <1>4. ASSUME NEW s \in Sessions, Commit(s) PROVE Backed(approvals', b, status'[b])
    <2> DEFINE to == TargetStatus[op[s]]
    <2>1. op[s] \in AllOps
      BY DEF TypeOK
    <2>2. Staged(s) \subseteq approvals'
      BY <1>4 DEF Commit
    <2>3. CASE b = prior[s]
      <3>1. b # None
        BY BundlesAreDistinct
      <3>2. Backed(approvals', b, "active")
        BY <1>0, <2>3, <3>1 DEF ReadWasBacked
      <3>3. \E who : Row(b, "superseded", who) \in Staged(s)
        BY <2>3, <3>1 DEF Staged
      <3>4. Logged(approvals', b, "superseded")
        BY <2>2, <3>3 DEF Logged, Row
      <3>5. status'[b] = "superseded"
        BY <1>4, <2>3, <3>1 DEF Commit, InItsPlace
      <3> QED
        BY <3>2, <3>4, <3>5 DEF Backed
    <2>4. CASE b # prior[s] /\ b = target[s] /\ op[s] # "propose"
      <3>1. status'[b] = to
        BY <1>4, <2>4 DEF Commit
      <3>2. CASE op[s] = "bootstrap"
        <4>1. \A st \in {"reviewed", "approved", "active"} : Row(b, st, RoleFor[st]) \in Staged(s)
          BY <2>4, <3>2 DEF Staged
        <4>2. \A st \in {"reviewed", "approved", "active"} : Logged(approvals', b, st)
          BY <2>2, <4>1 DEF Logged, Row
        <4> QED
          BY <3>1, <3>2, <4>2 DEF Backed, TargetStatus
      <3>3. CASE op[s] # "bootstrap"
        <4>1. Row(b, to, actor[s]) \in Staged(s)
          BY <2>4, <3>3 DEF Staged
        <4>2. Logged(approvals', b, to)
          BY <2>2, <4>1 DEF Logged, Row
        <4>3. Backed(approvals', b, Needs[to])
          BY <1>0, <1>4, <2>4, <3>3 DEF ReadWasBacked, Commit, Goto
        <4> QED
          BY <2>1, <2>4, <3>1, <3>3, <4>2, <4>3 DEF Backed, TargetStatus, Needs, AllOps
      <3> QED
        BY <3>2, <3>3
    <2>5. CASE b # prior[s] /\ ~ (b = target[s] /\ op[s] # "propose")
      BY <1>0, <1>1, <1>4, <2>5 DEF Commit
    <2> QED
      BY <2>3, <2>4, <2>5
  <1> QED
    BY <1>2, <1>3, <1>4, OthersKeepTheTables

-----------------------------------------------------------------------------
(* The active index *)

LEMMA HasTheIndexNext ==
    ASSUME TypeOK, [Next]_vars,
           \A s \in Sessions : InItsPlace(s) /\ HasTheIndex(s)
    PROVE  \A s \in Sessions : HasTheIndex(s)'
  \* A step that leaves what is active, and after which nobody commits an
  \* activation that has not come to its commit before.
  <1>1. ASSUME UNCHANGED ActiveBundles,
               \A s \in Sessions :
                   pc'[s] = "commit" =>
                       /\ pc[s] = "commit"
                       /\ op'[s] = op[s] /\ target'[s] = target[s] /\ prior'[s] = prior[s]
        PROVE  \A s \in Sessions : HasTheIndex(s)'
    BY <1>1 DEF HasTheIndex, Activates
  <1>2. CASE UNCHANGED vars
    BY <1>1, <1>2 DEF vars, db, session, ActiveBundles
  <1>3. ASSUME NEW b \in Authored, WriteBundle(b) PROVE \A s \in Sessions : HasTheIndex(s)'
    <2>1. UNCHANGED ActiveBundles
      BY <1>3 DEF WriteBundle, ActiveBundles, TypeOK
    <2> QED
      BY <1>1, <1>3, <2>1 DEF WriteBundle, session
  <1>4. ASSUME NEW s \in Sessions, Call(s) \/ GivesUp(s)
        PROVE  \A t \in Sessions : HasTheIndex(t)'
    <2>1. /\ UNCHANGED db
          /\ pc'[s] # "commit"
          /\ \A t \in Sessions \ {s} :
                 pc'[t] = pc[t] /\ op'[t] = op[t] /\ target'[t] = target[t] /\ prior'[t] = prior[t]
      BY <1>4 DEF Call, Begin, GivesUp, Close, Goto, TypeOK
    <2> QED
      BY <1>1, <2>1 DEF db, ActiveBundles
  <1>5. ASSUME NEW s \in Sessions, Advances(s) PROVE \A t \in Sessions : HasTheIndex(t)'
    <2>1. /\ UNCHANGED <<db, op, target>>
          /\ \A t \in Sessions \ {s} : pc'[t] = pc[t] /\ prior'[t] = prior[t]
          /\ UNCHANGED ActiveBundles
      BY <1>5
      DEF Advances, Segregate, Load, FindNone, InsertDefault, FindPrior, Retire, Flip,
          Goto, TypeOK, db, ActiveBundles
    <2>2. CASE pc'[s] = "commit" /\ Activates(s)
      <3>1. Flip(s)
        BY <1>5, <2>2
        DEF Advances, Segregate, Load, FindNone, InsertDefault, FindPrior, Retire, Goto,
            TypeOK, Activates
      <3>2. \A t \in Sessions \ {s} : ~ (pc[t] = "commit" /\ Activates(t))
        BY <2>2, <3>1 DEF Flip, Goto, Blocked, WaitsFor, TouchesActive
      <3>3. ActiveBundles \subseteq {prior[s], target[s]}
        BY <2>2, <3>1 DEF Flip, IndexConflict
      <3>4. UNCHANGED prior
        BY <3>1 DEF Flip
      <3> QED
        BY <2>1, <3>2, <3>3, <3>4 DEF HasTheIndex, Activates
    <2>3. CASE ~ (pc'[s] = "commit" /\ Activates(s))
      BY <2>1, <2>3 DEF HasTheIndex, Activates
    <2> QED
      BY <2>2, <2>3
  <1>6. ASSUME NEW s \in Sessions, Commit(s) PROVE \A t \in Sessions : HasTheIndex(t)'
    <2>1. /\ pc[s] = "commit"
          /\ pc'[s] = "idle"
          /\ \A t \in Sessions \ {s} :
                 pc'[t] = pc[t] /\ op'[t] = op[t] /\ target'[t] = target[t] /\ prior'[t] = prior[t]
      BY <1>6 DEF Commit, Goto, Close, TypeOK
    <2>2. CASE Activates(s)
      BY <2>1, <2>2 DEF HasTheIndex, Activates
    <2>3. CASE ~ Activates(s)
      <3>1. ActiveBundles' \subseteq ActiveBundles
        BY <1>6, <2>3 DEF Commit, ActiveBundles, TargetStatus, Activates, TypeOK, AllOps
      <3> QED
        BY <2>1, <3>1 DEF HasTheIndex, Activates
    <2> QED
      BY <2>2, <2>3
  <1> QED
    BY <1>2, <1>3, <1>4, <1>5, <1>6, StepKinds

LEMMA OneActiveNext ==
    ASSUME TypeOK, OneActive, [Next]_vars,
           \A s \in Sessions : InItsPlace(s) /\ HasTheIndex(s)
    PROVE  OneActive'
  <1>1. CASE UNCHANGED db
    BY <1>1 DEF db, OneActive, ActiveBundles
  <1>2. ASSUME NEW b \in Authored, WriteBundle(b) PROVE OneActive'
    BY <1>2 DEF WriteBundle, OneActive, ActiveBundles, TypeOK
  <1>3. ASSUME NEW s \in Sessions, Commit(s) PROVE OneActive'
    <2>1. CASE Activates(s)
      <3>1. ActiveBundles \subseteq {prior[s], target[s]}
        BY <1>3, <2>1 DEF HasTheIndex, Commit, Goto
      <3>2. ActiveBundles' \subseteq {target[s]}
        BY <1>3, <3>1 DEF Commit, ActiveBundles
      <3> QED
        BY <3>2 DEF OneActive
    <2>2. CASE ~ Activates(s)
      <3>1. ActiveBundles' \subseteq ActiveBundles
        BY <1>3, <2>2 DEF Commit, ActiveBundles, TargetStatus, Activates, TypeOK, AllOps
      <3> QED
        BY <3>1 DEF OneActive
    <2> QED
      BY <2>1, <2>2
  <1> QED
    BY <1>1, <1>2, <1>3, OthersKeepTheTables

-----------------------------------------------------------------------------
LEMMA WInvInit == Init => WInv
  <1> SUFFICES ASSUME Init PROVE WInv
    OBVIOUS
  <1>1. StatusIsBacked
    <2>1. ASSUME NEW b \in Approved, NEW to \in {"reviewed", "approved"}
          PROVE  Logged(approvals, b, to)
      <3>1. Row(b, to, RoleFor[to]) \in approvals
        BY DEF Init
      <3> QED
        BY <3>1 DEF Logged, Row
    <2> QED
      BY <2>1, BackedIsStatusBacked DEF Init, Backed
  <1>2. OneActive
    BY DEF Init, OneActive, ActiveBundles
  <1>3. \A s \in Sessions : InItsPlace(s) /\ ReadWasBacked(s) /\ HasTheIndex(s)
    BY DEF Init, InItsPlace, ReadWasBacked, HasTheIndex
  <1> QED
    BY <1>1, <1>2, <1>3, TypeInit DEF WInv

LEMMA WInvNext == WInv /\ [Next]_vars => WInv'
  <1> SUFFICES ASSUME WInv, [Next]_vars PROVE WInv'
    OBVIOUS
  <1>1. TypeOK' /\ OneActive' /\ StatusIsBacked'
    BY TypeNext, OneActiveNext, StatusIsBackedNext DEF WInv
  <1>2. \A s \in Sessions : InItsPlace(s)' /\ ReadWasBacked(s)' /\ HasTheIndex(s)'
    BY PlaceNext, ReadWasBackedNext, HasTheIndexNext DEF WInv
  <1> QED
    BY <1>1, <1>2 DEF WInv

\* The inductive invariant of the approval workflow: what each call has read
\* and holds, beside what is committed.
THEOREM WorkflowInvariant == Spec => []WInv
  BY WInvInit, WInvNext, PTL DEF Spec

\* Every variable keeps its type, the log of approvals included.
THEOREM WorkflowTypeCorrect == Spec => []TypeOK
  <1>1. WInv => TypeOK
    BY DEF WInv
  <1> QED
    BY <1>1, WorkflowInvariant, PTL

\* A tenant never has two active bundles, however activations, bootstraps and
\* revocations race.
THEOREM NeverTwoActive == Spec => []OneActive
  <1>1. WInv => OneActive
    BY DEF WInv
  <1> QED
    BY <1>1, WorkflowInvariant, PTL

\* The approval log accounts for every bundle's status, also where a call has
\* overwritten a status it had not read.
THEOREM LogAccountsForStatus == Spec => []StatusIsBacked
  <1>1. WInv => StatusIsBacked
    BY DEF WInv
  <1> QED
    BY <1>1, WorkflowInvariant, PTL

\* A step that takes the active bundle away is the commit of an activation,
\* which leaves its target active, or of a supersede of that very bundle.
LEMMA TakenAwayOnlyWhole ==
    ASSUME WInv, [Next]_vars, NEW b \in Bundles, status[b] = "active", status'[b] = "superseded"
    PROVE  \/ \E c \in Bundles : status'[c] = "active"
           \/ \E s \in Sessions : Commit(s) /\ op[s] = "supersede" /\ target[s] = b
  <1>1. PICK s \in Sessions : Commit(s)
    BY OthersKeepTheTables DEF WInv, db, WriteBundle, TypeOK
  <1>2. /\ InItsPlace(s) /\ pc[s] = "commit" /\ op[s] \in AllOps
        /\ target[s] \in Bundles
    BY <1>1 DEF WInv, TypeOK, Commit, Goto, InItsPlace
  <1>3. CASE b = prior[s]
    <2>1. Activates(s) /\ prior[s] # target[s]
      BY <1>2, <1>3, BundlesAreDistinct DEF InItsPlace
    <2>2. status'[target[s]] = "active"
      BY <1>1, <1>2, <2>1 DEF Commit, TargetStatus, Activates
    <2> QED
      BY <1>2, <2>2
  <1>4. CASE b # prior[s]
    <2>1. b = target[s] /\ TargetStatus[op[s]] = "superseded"
      BY <1>1, <1>4 DEF Commit
    <2>2. op[s] = "supersede"
      BY <1>2, <2>1 DEF TargetStatus, AllOps
    <2> QED
      BY <1>1, <2>1, <2>2
  <1> QED
    BY <1>3, <1>4

\* No activation that fails half way takes the tenant's active bundle away.
THEOREM ActivationsAreWhole == Spec => ActivationIsWhole
  <1>1. WInv /\ [Next]_vars =>
            [\A b \in Bundles :
                /\ status[b] = "active"
                /\ status'[b] = "superseded"
                => \/ \E c \in Bundles : status'[c] = "active"
                   \/ \E s \in Sessions : Commit(s) /\ op[s] = "supersede" /\ target[s] = b]_vars
    BY TakenAwayOnlyWhole
  <1> QED
    BY <1>1, WorkflowInvariant, PTL DEF Spec, ActivationIsWhole
=============================================================================
