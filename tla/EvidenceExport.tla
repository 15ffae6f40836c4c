--------------------------- MODULE EvidenceExport ---------------------------
(***************************************************************************)
(* What auditors and acquirers are handed, read from tables that change    *)
(* meanwhile:                                                              *)
(*                                                                         *)
(*   route  POST /v1/exports/ma-diligence, the bundle at once              *)
(*   job    the same bundle, built by session B of an export job           *)
(*   pack   one evidence pack over any window                              *)
(*                                                                         *)
(* A bundle is read with one statement for the anchor rows and then one    *)
(* for each day's receipts; an evidence pack with one for its receipts and *)
(* then one for its anchor.  One reader is followed: readers do not write. *)
(*                                                                         *)
(* Hashes are collision free, so what a root hash binds stands for it; the *)
(* anchor row stands for its id.                                           *)
(***************************************************************************)
EXTENDS LedgerTables, FiniteSets

CONSTANTS
    Instants,    \* the ends a scope may have
    MaxPacks,    \* _MAX_PACKS_PER_BUNDLE
    MaxPerPack,  \* _MAX_RECEIPTS_PER_PACK
    MaxTotal     \* _MAX_TOTAL_RECEIPTS

\* Assumed in module Readers.
InstantsAreTimes == Instants \subseteq Nat

LimitsAreNaturals == {MaxPacks, MaxPerPack, MaxTotal} \subseteq Nat

VARIABLES
    stage,  \* where the export is
    ask,    \* the kind of export, and its scope
    rows,   \* the anchor rows it has read, by day
    packs,  \* the packs built so far
    reply,  \* what the caller gets
    then    \* what was committed as the export began (history)

export == <<stage, ask, rows, packs, reply, then>>

-----------------------------------------------------------------------------
Kinds == {"route", "job", "pack"}
Ask == {q \in [kind : Kinds, from : Instants, to : Instants] : q.from <= q.to}

Lesser(a, b) == IF a < b THEN a ELSE b
Greater(a, b) == IF a < b THEN b ELSE a

\* Mutant of Query: the limit is that of the pack, so nothing shows an overflow.
QueryToTheLimit(from, to) ==
    {i \in SignedWithin(from, to) :
        Cardinality({k \in SignedWithin(from, to) : k < i}) < MaxPerPack}

\* list_receipts_with_snapshot_for_tenant with one row more than a pack takes.
Query(from, to) ==
    {i \in SignedWithin(from, to) :
        Cardinality({k \in SignedWithin(from, to) : k < i}) < MaxPerPack + 1}

\* build_evidence_pack: a pack with its window, receipts, and anchor.
Pack(from, to, items, day, row) ==
    [from |-> from, to |-> to, items |-> items, day |-> day, anchor |-> row]

\* The earliest day that is read and has no pack yet.
Unpacked == DOMAIN rows \ {packs[k].day : k \in DOMAIN packs}
NextDay == CHOOSE d \in Unpacked : \A e \in Unpacked : d <= e

\* Mutant of DayWindow: a day ends before its last tick.
DayWindowShort(d) ==
    [from |-> Greater(Midnight(d), ask.from), to |-> Lesser(Midnight(d + 1) - 2, ask.to)]

\* The slice of the scope that belongs to day d.
DayWindow(d) ==
    [from |-> Greater(Midnight(d), ask.from), to |-> Lesser(Midnight(d + 1), ask.to)]

-----------------------------------------------------------------------------
(* The seal of a bundle *)

Header(b) ==
    [from |-> ask.from, to |-> ask.to, packCount |-> Len(b.packs),
     anchorCount |-> Len(b.anchors),
     total |-> Cardinality({e \in (DOMAIN b.packs) \X Positions : e[2] \in b.packs[e[1]].items})]

\* Mutant of Seal: the roots of the packs are sorted, as the ids are.
SealUnordered(b, header) ==
    [header |-> header,
     packRoots |-> {b.packs[k] : k \in DOMAIN b.packs},
     anchorIds |-> {b.anchors[k] : k \in DOMAIN b.anchors},
     anchorRoots |-> [k \in DOMAIN b.anchors |-> b.anchors[k].row.root]]

\* What ma_root_hash binds; with its count in the header, the set of anchors
\* stands for the sorted list of ids.
Seal(b, header) ==
    [header |-> header,
     packRoots |-> b.packs,
     anchorIds |-> {b.anchors[k] : k \in DOMAIN b.anchors},
     anchorRoots |-> [k \in DOMAIN b.anchors |-> b.anchors[k].row.root]]

\* verify_ma_diligence_export.
VerifySeal(b) == Seal(b, b.header) = b.seal

\* sign_ma_diligence_export, with the platform's key.
Signed(b) == [b EXCEPT !.signature = b.seal]

\* verify_ma_diligence_export_signature, under the platform's key.
VerifySignature(b) == b.signature # None /\ b.signature = b.seal

\* encrypt_for_recipient, decrypt_for_recipient.
Encrypted(b, key) == [to |-> key, cipher |-> b]
Decrypted(envelope, key) == IF envelope.to = key THEN envelope.cipher ELSE None

-----------------------------------------------------------------------------
ExportInit ==
    /\ stage = "idle"
    /\ ask = None
    /\ rows = <<>>
    /\ packs = <<>>
    /\ reply = None
    /\ then = None

\* The caller is answered, and the request over.
Reply(r) ==
    /\ stage' = "done"
    /\ reply' = r

Refusal(code) == [code |-> code]

\* Another tenant's id, a naive timestamp, a scope that ends before it starts.
RefuseAsk ==
    /\ stage = "idle"
    /\ Reply(Refusal("4xx"))
    /\ UNCHANGED <<ask, rows, packs, then>>

\* A valid scope of the caller's own tenant.
AcceptAsk(q) ==
    /\ stage = "idle"
    /\ stage' = IF q.kind = "pack" THEN "receipts" ELSE "anchors"
    /\ ask' = q
    /\ then' = [count |-> Len(receipts), days |-> AnchoredWithin(q.from, q.to)]
    /\ UNCHANGED <<rows, packs, reply>>

\* The route answers 413; in a job MaExportError ends in a failed status.
Overflow == Reply(Refusal(IF ask.kind = "job" THEN "failed" ELSE "413"))

\* The anchor rows of the scope, in the order of their days.
ReadAnchors ==
    LET days == AnchoredWithin(ask.from, ask.to) IN
    /\ stage = "anchors"
    /\ Cardinality(days) <= MaxPacks
    /\ rows' = [d \in days |-> anchors[d]]
    /\ stage' = "days"
    /\ UNCHANGED <<ask, packs, reply, then>>

TooManyDays ==
    /\ stage = "anchors"
    /\ Cardinality(AnchoredWithin(ask.from, ask.to)) > MaxPacks
    /\ Overflow
    /\ UNCHANGED <<ask, rows, packs, then>>

\* The receipts of the next day make its pack.
ReadDay ==
    LET w == DayWindow(NextDay)
        items == Query(w.from, w.to) IN
    /\ stage = "days"
    /\ Unpacked # {}
    /\ Cardinality(items) <= MaxPerPack
    /\ packs' = Append(packs, Pack(w.from, w.to, items, NextDay, rows[NextDay]))
    /\ UNCHANGED <<stage, ask, rows, reply, then>>

DayTooLong ==
    LET w == DayWindow(NextDay) IN
    /\ stage = "days"
    /\ Unpacked # {}
    /\ Cardinality(Query(w.from, w.to)) > MaxPerPack
    /\ Overflow
    /\ UNCHANGED <<ask, rows, packs, then>>

-----------------------------------------------------------------------------
\* build_ma_diligence_export over what was read.
Bundle ==
    LET b == [packs |-> packs,
              anchors |-> [k \in DOMAIN packs |-> [day |-> packs[k].day, row |-> packs[k].anchor]]]
    IN [packs |-> b.packs, anchors |-> b.anchors, header |-> Header(b),
        seal |-> Seal(b, Header(b)), signature |-> None]

\* A job whose row names a platform key is signed, if the runner has the key.
Platform(b) == IF ask.kind = "job" THEN {b, Signed(b)} ELSE {b}

Compose ==
    /\ stage = "days"
    /\ Unpacked = {}
    /\ Bundle.header.total <= MaxTotal
    /\ \E b \in Platform(Bundle) :
           \/ Reply([code |-> "200", bundle |-> b])
           \/ Reply([code |-> "200", envelope |-> Encrypted(b, "acquirer")])
    /\ UNCHANGED <<ask, rows, packs, then>>

BundleTooLarge ==
    /\ stage = "days"
    /\ Unpacked = {}
    /\ Bundle.header.total > MaxTotal
    /\ Overflow
    /\ UNCHANGED <<ask, rows, packs, then>>

\* The recipient's key is no base64, or not 32 bytes.
BadRecipient ==
    /\ stage = "days"
    /\ Unpacked = {}
    /\ Reply(Refusal(IF ask.kind = "job" THEN "failed" ELSE "422"))
    /\ UNCHANGED <<ask, rows, packs, then>>

-----------------------------------------------------------------------------
\* export_evidence_pack reads the receipts of the whole scope.
ReadReceipts ==
    LET items == Query(ask.from, ask.to) IN
    /\ stage = "receipts"
    /\ Cardinality(items) <= MaxPerPack
    /\ packs' = <<Pack(ask.from, ask.to, items, None, None)>>
    /\ stage' = "anchor"
    /\ UNCHANGED <<ask, rows, reply, then>>

WindowTooLong ==
    /\ stage = "receipts"
    /\ Cardinality(Query(ask.from, ask.to)) > MaxPerPack
    /\ Overflow
    /\ UNCHANGED <<ask, rows, packs, then>>

\* Then the latest anchor row of the scope.
ReadLatestAnchor ==
    LET days == AnchoredWithin(ask.from, ask.to)
        last == IF days = {} THEN None ELSE CHOOSE d \in days : \A e \in days : e <= d IN
    /\ stage = "anchor"
    /\ packs' = <<[packs[1] EXCEPT !.day = last,
                                   !.anchor = IF last = None THEN None ELSE anchors[last]]>>
    /\ Reply([code |-> "200", pack |-> packs'[1]])
    /\ UNCHANGED <<ask, rows, then>>

ExportStep ==
    \/ RefuseAsk
    \/ \E q \in Ask : AcceptAsk(q)
    \/ ReadAnchors \/ TooManyDays
    \/ ReadDay \/ DayTooLong
    \/ Compose \/ BundleTooLarge \/ BadRecipient
    \/ ReadReceipts \/ WindowTooLong
    \/ ReadLatestAnchor

-----------------------------------------------------------------------------
(* Type invariant *)

\* Every variable of an export has its type.
ExportTypeOK ==
    /\ stage \in {"idle", "anchors", "days", "receipts", "anchor", "done"}
    /\ ask \in Ask \cup {None}
    /\ \E D \in SUBSET Days : rows \in [D -> AnchorRow]
    /\ \A k \in DOMAIN packs : packs[k].items \subseteq Positions
    /\ \A k \in DOMAIN packs : packs[k].day \in Days \cup {None}
    /\ stage # "done" => reply = None
    /\ stage = "done" => reply.code \in {"200", "4xx", "413", "422", "failed"}
    /\ ask # None => then.count \in Nat /\ then.days \subseteq Days

-----------------------------------------------------------------------------
(* Safety *)

\* What the acquirer holds in the end: the bundle, or what its key opens.
Delivered ==
    IF "bundle" \in DOMAIN reply THEN reply.bundle ELSE Decrypted(reply.envelope, "acquirer")

IsBundle == stage = "done" /\ reply.code = "200" /\ ask.kind # "pack"
IsPack == stage = "done" /\ reply.code = "200" /\ ask.kind = "pack"

Before == 0 .. then.count - 1
InScope(i) == ask.from <= SignedAt(i) /\ SignedAt(i) <= ask.to

\* Nothing that was there is left out: every receipt of the scope that was
\* committed when the export began is in the evidence pack, or in the pack of
\* its day if the day had its anchor row by then, whatever commits between the
\* statements; and a bundle has a receipt twice only if it was signed exactly
\* at the midnight that ends one pack and begins the next.
BundleIsComplete ==
    /\ IsPack => \A i \in Before : InScope(i) => i \in reply.pack.items
    /\ IsBundle =>
           /\ \A i \in Before :
                  InScope(i) /\ DayOf(SignedAt(i)) \in then.days =>
                      \E k \in DOMAIN packs :
                          packs[k].day = DayOf(SignedAt(i)) /\ i \in packs[k].items
           /\ \A j, k \in DOMAIN packs :
                  j < k => \A i \in packs[j].items \cap packs[k].items :
                               /\ packs[k].day = packs[j].day + 1
                               /\ SignedAt(i) = Midnight(packs[k].day)

\* A pack can be checked against the anchor it carries: the root that was
\* witnessed is one of its receipts, unless the scope ends before it, and so
\* are all receipts of the day up to the root (the anchors are read first, so
\* what they cover is committed when the receipts are read).
RootIsInItsPack ==
    IsBundle =>
        \A k \in DOMAIN packs :
            packs[k].anchor.root # None =>
                \A i \in ReceiptsOfDay(packs[k].day) :
                    i <= packs[k].anchor.root /\ InScope(i) => i \in packs[k].items

\* The parts of s in the places that f gives them.
Arranged(s, f) == [k \in DOMAIN f |-> s[f[k]]]
Arrangements(s) == UNION {[1 .. n -> DOMAIN s] : n \in 0 .. Len(s)}

\* The seal that comes with a bundle, signed or not and through the envelope
\* or not, verifies, and for no other choice, order or repetition of its packs,
\* nor of its anchored days: so none can be lost on the way unnoticed.
SealFixesParts ==
    IsBundle =>
        LET b == Delivered IN
        /\ VerifySeal(b)
        /\ b.signature # None => VerifySignature(b)
        /\ \A f \in Arrangements(b.packs) :
               VerifySeal([b EXCEPT !.packs = Arranged(b.packs, f)]) =>
                   Arranged(b.packs, f) = b.packs
        /\ \A f \in Arrangements(b.anchors) :
               VerifySeal([b EXCEPT !.anchors = Arranged(b.anchors, f)]) =>
                   \A k \in DOMAIN b.anchors :
                       b.anchors[k] = Arranged(b.anchors, f)[k] \/ b.anchors[k].row = Deferred
=============================================================================
