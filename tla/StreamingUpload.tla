-------------------------- MODULE StreamingUpload --------------------------
(***************************************************************************)
(* stream_ma_diligence_export_to_s3: a serialised bundle goes to an object *)
(* store in parts, with one multipart upload.  Several callers may upload  *)
(* at a time, also to one key.                                             *)
(*                                                                         *)
(* The store behaves as MockS3MultipartUploader does.  As with any remote  *)
(* store, a call may raise before it is applied, or after, when only its   *)
(* answer is lost; and a caller's process may die.                         *)
(***************************************************************************)
EXTENDS Naturals, Sequences, Functions

CONSTANTS
    Callers,             \* calls of the function, each with a bundle of its own
    Objects,             \* bucket and key
    Sizes,               \* how large a bundle may be
    Chunks,              \* the chunk_size_mb that may be asked for
    MinChunk, MaxChunk,  \* _MIN_CHUNK_SIZE_BYTES, _MAX_CHUNK_SIZE_BYTES
    None,                \* a blank bucket or key; no arguments yet
    MaxRaises,           \* bound: calls to the store that raise
    MaxDeaths            \* bound: callers that die

\* Assumed in module Services.
ChunkRangeIsPositive ==
    /\ {MinChunk, MaxChunk} \subseteq Nat \ {0}
    /\ MinChunk <= MaxChunk

UploadBoundsAreNaturals ==
    /\ {MaxRaises, MaxDeaths} \subseteq Nat
    /\ Sizes \cup Chunks \subseteq Nat

VARIABLES
    step,      \* where each caller is
    args,      \* its arguments if valid, the bundle's size for the bundle
    sent,      \* how many ETags it has
    slot,      \* the uploads in progress: by caller, the parts the store has
    versions,  \* what was ever stored under each object, the last one now
    lost,      \* the callers whose upload was left to itself (history)
    raises, deaths

bounds == <<raises, deaths>>
upload == <<step, args, sent, slot, versions, lost, bounds>>

-----------------------------------------------------------------------------
\* Mutant of Split: the remainder is not sent.
SplitEvenly(size, chunk) ==
    IF size = 0
    THEN <<[from |-> 0, to |-> 0]>>
    ELSE [n \in 1 .. size \div chunk |-> [from |-> (n - 1) * chunk, to |-> n * chunk]]

\* _split_into_parts: the bytes that each part takes; an empty part if there
\* are none.
Split(size, chunk) ==
    IF size = 0
    THEN <<[from |-> 0, to |-> 0]>>
    ELSE [n \in 1 .. (size + chunk - 1) \div chunk |->
             [from |-> (n - 1) * chunk, to |-> IF n * chunk < size THEN n * chunk ELSE size]]

Parts(c) == Split(args[c].size, args[c].chunk)

Arguments == [object : Objects \cup {None}, size : Sizes, chunk : Chunks]

Valid(a) == a.chunk \in MinChunk .. MaxChunk /\ a.object # None

UploadInit ==
    /\ step = [c \in Callers |-> "idle"]
    /\ args = [c \in Callers |-> None]
    /\ sent = [c \in Callers |-> 0]
    /\ slot = <<>>
    /\ versions = [o \in Objects |-> <<>>]
    /\ lost = {}
    /\ raises = 0
    /\ deaths = 0

Goto(c, from, to) == step[c] = from /\ step' = [step EXCEPT ![c] = to]

\* A call to the store raises: it was applied, as effect says, or not.
Raises(applied, unapplied) ==
    /\ raises < MaxRaises
    /\ raises' = raises + 1
    /\ applied \/ unapplied
    /\ UNCHANGED deaths

\* What the calls to the store do.
Open(c) == slot' = [d \in DOMAIN slot \cup {c} |-> IF d = c THEN <<>> ELSE slot[d]]
Take(c) == slot' = [slot EXCEPT ![c] = Append(@, Parts(c)[sent[c] + 1])]
Drop(c) == slot' = Restrict(slot, DOMAIN slot \ {c})
Assemble(c) ==
    /\ versions' = [versions EXCEPT ![args[c].object] = Append(@, [by |-> c, parts |-> slot[c]])]
    /\ Drop(c)

-----------------------------------------------------------------------------
\* The checks of chunk_size_mb, bucket and key; then the bundle is split.
Call(c) ==
    \E a \in Arguments :
        /\ Goto(c, "idle", IF Valid(a) THEN "initiate" ELSE "refused")
        /\ args' = [args EXCEPT ![c] = IF Valid(a) THEN a ELSE None]
        /\ UNCHANGED <<sent, slot, versions, lost, bounds>>

Initiate(c) ==
    /\ Goto(c, "initiate", "send")
    /\ Open(c)
    /\ UNCHANGED <<args, sent, versions, lost, bounds>>

\* Before the try: there is no upload id to abort.
InitiateRaises(c) ==
    /\ Goto(c, "initiate", "raised")
    /\ Raises(Open(c) /\ lost' = lost \cup {c}, UNCHANGED <<slot, lost>>)
    /\ UNCHANGED <<args, sent, versions>>

UploadPart(c) ==
    /\ Goto(c, "send", "send")
    /\ sent[c] < Len(Parts(c))
    /\ Take(c)
    /\ sent' = [sent EXCEPT ![c] = @ + 1]
    /\ UNCHANGED <<args, versions, lost, bounds>>

UploadPartRaises(c) ==
    /\ Goto(c, "send", "abort")
    /\ sent[c] < Len(Parts(c))
    /\ Raises(Take(c), UNCHANGED slot)
    /\ UNCHANGED <<args, sent, versions, lost>>

\* The reference is returned.
Complete(c) ==
    /\ Goto(c, "send", "returned")
    /\ sent[c] = Len(Parts(c))
    /\ Assemble(c)
    /\ UNCHANGED <<args, sent, lost, bounds>>

\* Mutant of CompleteRaises: complete is outside the try.
CompleteRaisesOut(c) ==
    /\ Goto(c, "send", "raised")
    /\ sent[c] = Len(Parts(c))
    /\ Raises(Assemble(c), UNCHANGED <<slot, versions>>)
    /\ UNCHANGED <<args, sent, lost>>

CompleteRaises(c) ==
    /\ Goto(c, "send", "abort")
    /\ sent[c] = Len(Parts(c))
    /\ Raises(Assemble(c), UNCHANGED <<slot, versions>>)
    /\ UNCHANGED <<args, sent, lost>>

\* The exception is raised again.  To abort what is gone does nothing.
Abort(c) ==
    /\ Goto(c, "abort", "raised")
    /\ Drop(c)
    /\ UNCHANGED <<args, sent, versions, lost, bounds>>

AbortRaises(c) ==
    /\ Goto(c, "abort", "raised")
    /\ Raises(Drop(c), UNCHANGED slot)
    /\ lost' = lost \cup {c}
    /\ UNCHANGED <<args, sent, versions>>

Over(c) == step[c] \in {"refused", "returned", "raised", "dead"}

Die(c) ==
    /\ deaths < MaxDeaths
    /\ ~ Over(c)
    /\ Goto(c, step[c], "dead")
    /\ deaths' = deaths + 1
    /\ lost' = lost \cup {c}
    /\ UNCHANGED <<args, sent, slot, versions, raises>>

UploadStep ==
    \E c \in Callers :
        \/ Call(c)
        \/ Initiate(c) \/ InitiateRaises(c)
        \/ UploadPart(c) \/ UploadPartRaises(c)
        \/ Complete(c) \/ CompleteRaises(c)
        \/ Abort(c) \/ AbortRaises(c)
        \/ Die(c)

UploadOver == \A c \in Callers : Over(c)

-----------------------------------------------------------------------------
(* Type invariant *)

\* Every variable has its type.
UploadTypeOK ==
    /\ step \in [Callers -> {"idle", "refused", "initiate", "send", "abort", "returned",
                             "raised", "dead"}]
    /\ args \in [Callers -> Arguments \cup {None}]
    /\ \A c \in Callers : sent[c] # 0 => sent[c] \in 1 .. Len(Parts(c))
    /\ DOMAIN slot \subseteq Callers
    /\ DOMAIN versions = Objects
    /\ lost \subseteq Callers
    /\ raises \in 0 .. MaxRaises
    /\ deaths \in 0 .. MaxDeaths

-----------------------------------------------------------------------------
(* Safety *)

\* The parts are the bytes 0 .. size, each once and in order; none is larger
\* than the service takes, and only the last one is smaller.
Whole(parts, size) ==
    /\ parts[1].from = 0
    /\ parts[Len(parts)].to = size
    /\ \A n \in 1 .. Len(parts) - 1 :
           /\ parts[n].to = parts[n + 1].from
           /\ parts[n].to - parts[n].from >= MinChunk
    /\ \A n \in 1 .. Len(parts) : parts[n].to - parts[n].from <= MaxChunk

\* What anybody can ever read from the bucket is one caller's whole bundle,
\* however parts, failures and other callers' uploads to the key interleave.
\* No caller stores its bundle twice, and one that has returned its reference
\* has stored it: it is there, or overwritten by a later upload.
ObjectIsWhole ==
    /\ \A o \in Objects :
           \A m, n \in DOMAIN versions[o] :
               /\ args[versions[o][n].by].object = o
               /\ Whole(versions[o][n].parts, args[versions[o][n].by].size)
               /\ versions[o][m].by = versions[o][n].by => m = n
    /\ \A c \in Callers :
           step[c] = "returned" =>
               \E n \in DOMAIN versions[args[c].object] : versions[args[c].object][n].by = c

\* An upload in progress, whose parts the bucket's owner pays for, belongs to a
\* caller that still works at it, but for what nobody can clean up: the process
\* died, the answer to initiate was lost, or the abort failed too.
NoUploadDangles == \A c \in DOMAIN slot : c \in lost \/ step[c] \in {"send", "abort"}
=============================================================================
