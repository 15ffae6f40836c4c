--------------------------- MODULE ConnectionPool ---------------------------
(***************************************************************************)
(* The connections of make_engine's pool, and who holds them how long.  A  *)
(* session takes a connection for its first statement and keeps it until   *)
(* its commit or rollback, at the end of the request:                      *)
(*                                                                         *)
(*   "plain"      a route that reads or writes                             *)
(*   "narrative"  reads the receipts, then awaits the language model       *)
(*   "keyed"      an ingest that looks its key up, then asks               *)
(*                PostgresBundleProvider, whose session is another one     *)
(***************************************************************************)
EXTENDS Naturals, FiniteSets

CONSTANTS
    Requests,
    Capacity    \* pool_size + max_overflow

\* Assumed in module Services.
CapacityIsPositive == Capacity \in Nat \ {0}

VARIABLES
    kind,   \* of each request
    at,     \* where it is
    held    \* the connections it holds

pool == <<kind, at, held>>

-----------------------------------------------------------------------------
\* The connections that are out, by who holds them.
Out == {c \in Requests \X {1, 2} : c[2] <= held[c[1]]}
Free == Capacity - Cardinality(Out)

PoolInit ==
    /\ kind \in [Requests -> {"plain", "narrative", "keyed"}]
    /\ at = [r \in Requests |-> "idle"]
    /\ held = [r \in Requests |-> 0]

Move(r, from, to, n) ==
    /\ at[r] = from
    /\ at' = [at EXCEPT ![r] = to]
    /\ held' = [held EXCEPT ![r] = n]
    /\ UNCHANGED kind

Arrive(r) == Move(r, "idle", "wait", 0)

\* The first statement of the request's session.
CheckOut(r) == Free > 0 /\ Move(r, "wait", "use", 1)

\* Sessions are left, and what they hold goes back to the pool.
Finish(r) == kind[r] = "plain" /\ Move(r, "use", "done", 0)

AwaitModel(r) == kind[r] = "narrative" /\ Move(r, "use", "model", 1)

\* A text, or the last of the attempts has failed.
ModelEnds(r) == Move(r, "model", "done", 0)

\* get_active_bundle opens a session of its own, beside the request's.
OpenSecond(r) == kind[r] = "keyed" /\ Move(r, "use", "second", 1)

CheckOutSecond(r) == Free > 0 /\ Move(r, "second", "bundle", 2)

CloseSecond(r) == Move(r, "bundle", "write", 1)

Write(r) == Move(r, "write", "done", 0)

\* Mutant of TimeOut: the request's session keeps its connection.
TimeOutKept(r) ==
    /\ Free = 0
    /\ Move(r, "wait", "failed", 0) \/ Move(r, "second", "failed", 1)

\* pool_timeout: the statement raises, and the request's session is rolled
\* back.
TimeOut(r) ==
    /\ Free = 0
    /\ Move(r, "wait", "failed", 0) \/ Move(r, "second", "failed", 0)

\* What goes on without anybody's doing.
Proceed(r) ==
    \/ CheckOut(r) \/ Finish(r)
    \/ AwaitModel(r) \/ ModelEnds(r)
    \/ OpenSecond(r) \/ CheckOutSecond(r) \/ CloseSecond(r) \/ Write(r)
    \/ TimeOut(r)

PoolStep == \E r \in Requests : Arrive(r) \/ Proceed(r)

PoolOver == \A r \in Requests : at[r] \in {"done", "failed"}

-----------------------------------------------------------------------------
\* Every variable has its type, and no more is out than there is.
PoolTypeOK ==
    /\ kind \in [Requests -> {"plain", "narrative", "keyed"}]
    /\ at \in [Requests -> {"idle", "wait", "use", "model", "second", "bundle",
                            "write", "done", "failed"}]
    /\ held \in [Requests -> 0 .. 2]
    /\ Cardinality(Out) <= Capacity

\* Every request gets out of the pool's queue and ends, and leaves nothing
\* behind, also when each connection is held by a request that waits for its
\* second: then nobody proceeds before the first timeout.
RequestsLeaveThePool ==
    \A r \in Requests : (at[r] = "wait") ~> (at[r] \in {"done", "failed"} /\ held[r] = 0)
=============================================================================
