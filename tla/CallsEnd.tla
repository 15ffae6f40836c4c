------------------------------ MODULE CallsEnd ------------------------------
(***************************************************************************)
(* The calls that wait for each other inside the database: ingest requests *)
(* for an event id, a chain position or a key, and workflow calls for      *)
(* bundle rows and the tenant's active entry.  The two share no rows, so   *)
(* each is followed by itself.                                             *)
(***************************************************************************)
EXTENDS Naturals

CONSTANTS
    None,
    Requests, Tenants, ClientEvents, Keys, Bodies, SessionCommits, DurableStore,
    BundlesPersisted, MaxBundle, MaxExpiries, MaxFaults, MaxCrashes,  \* of Ingest
    Sessions, Authored, Defaults, Actors, Ops, Approved, MaxCalls     \* of BundleWorkflow

VARIABLES
    which,                                              \* whose calls are followed
    pc, req, bundle, verdict, rec, stored, status, answer,
    receipts, records, active, expiries, faults, crashes,  \* of Ingest
    state, approvals, at, op, target, actor, prior, calls  \* of BundleWorkflow

Requesting == INSTANCE Ingest
Working == INSTANCE BundleWorkflow WITH status <- state, pc <- at

requesting == <<pc, req, bundle, verdict, rec, stored, status, answer,
                receipts, records, active, expiries, faults, crashes>>
working == <<state, approvals, at, op, target, actor, prior, calls>>
vars == <<which, requesting, working>>

-----------------------------------------------------------------------------
Init ==
    /\ which \in {"ingest", "workflow"}
    /\ Requesting!Init
    /\ Working!Init

Request == which = "ingest" /\ Requesting!Next /\ UNCHANGED <<which, working>>
Work == which = "workflow" /\ Working!Next /\ UNCHANGED <<which, requesting>>

Next == Request \/ Work

\* The event loop runs every task that is ready, and the database ends every
\* wait whose reason is over.
FairSpec ==
    /\ Init /\ [][Next]_vars
    /\ \A r \in Requests :
           WF_vars(which = "ingest" /\ Requesting!Step(r) /\ UNCHANGED <<which, working>>)
    /\ \A s \in Sessions :
           WF_vars(which = "workflow" /\ Working!Step(s) /\ UNCHANGED <<which, requesting>>)

-----------------------------------------------------------------------------
(* The properties, each stated in the module of its calls *)

\* Every request that arrives is answered.
EveryRequestAnswered == Requesting!EveryRequestAnswered

\* Every 201 becomes durable.
AckedBecomesDurable == Requesting!AckedBecomesDurable

\* Every workflow call ends.
EveryCallEnds == Working!EveryCallEnds
=============================================================================
