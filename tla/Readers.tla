------------------------------ MODULE Readers ------------------------------
(***************************************************************************)
(* One reader of each kind beside the writers of the ledger.  Readers      *)
(* write nothing and hold no locks, so each is followed by itself: an      *)
(* export, a walk through one of the lists, or a metrics request.          *)
(***************************************************************************)
EXTENDS LedgerTables

CONSTANTS
    Instants, MaxPacks, MaxPerPack, MaxTotal,  \* of EvidenceExport
    Limit                                      \* of Listings

VARIABLES
    reader,                                    \* who reads
    stage, ask, rows, packs, reply, then,      \* of EvidenceExport
    phase, page, query, pages, opened, there,  \* of Listings
    window, tally, start                       \* of Metrics

Exporting == INSTANCE EvidenceExport
Listing == INSTANCE Listings WITH Bounds <- Instants
Measuring == INSTANCE Metrics WITH
    Windows <- {w \in [from : Instants, to : Instants] : w.from < w.to}

ASSUME ReadersAreBounded ==
    /\ Exporting!InstantsAreTimes
    /\ Exporting!LimitsAreNaturals
    /\ Listing!LimitIsPositive

exporting == <<stage, ask, rows, packs, reply, then>>
listing == <<phase, page, query, pages, opened, there>>
measuring == <<window, tally, start>>

vars == <<tables, reader, exporting, listing, measuring>>

\* What is counted in one table says nothing of another, so a metrics request
\* is followed beside the writers of one table at a time.
Measures == {"receipts counted", "anchors counted", "jobs counted"}
Kinds == {"export", "receipts", "anchors", "jobs"} \cup Measures

-----------------------------------------------------------------------------
Init ==
    /\ TablesInit
    /\ reader \in Kinds
    /\ Exporting!ExportInit
    /\ Listing!ListingInit
    /\ Measuring!MetricsInit

\* A write is of interest to the reader only as long as it can be read, and
\* commutes with the statements that read other tables; so the writers are
\* followed up to there.
AnchorsAreDue == window = None \/ ("head" \in DOMAIN tally /\ "deferred" \notin DOMAIN tally)
JobsAreDue == window = None \/ ("deferred" \in DOMAIN tally /\ ~ Measuring!Answered)

ReceiptsMatter ==
    CASE reader = "export" -> stage # "done"
      [] reader \in {"receipts", "anchors"} -> phase \notin {"refused", "closed"}
      [] reader = "receipts counted" -> "head" \notin DOMAIN tally
      [] reader = "anchors counted" -> AnchorsAreDue
      [] OTHER -> FALSE

AnchorsMatter ==
    CASE reader = "export" -> stage \in {"idle", "anchors", "anchor"}
      [] reader = "anchors" -> phase \notin {"refused", "closed"}
      [] reader = "anchors counted" -> AnchorsAreDue
      [] OTHER -> FALSE

JobsMatter ==
    CASE reader = "jobs" -> phase \notin {"refused", "closed"}
      [] reader = "jobs counted" -> JobsAreDue
      [] OTHER -> FALSE

Write ==
    /\ \/ ReceiptsMatter /\ AppendReceipt
       \/ AnchorsMatter /\ \E d \in Days : AnchorDay(d)
       \/ JobsMatter /\ WriteJobs
    /\ UNCHANGED <<reader, exporting, listing, measuring>>

Export ==
    /\ reader = "export"
    /\ Exporting!ExportStep
    /\ UNCHANGED <<tables, reader, listing, measuring>>

List ==
    /\ reader \in {"receipts", "anchors", "jobs"}
    /\ Listing!ListingStep
    /\ query'.table = reader
    /\ UNCHANGED <<tables, reader, exporting, measuring>>

Measure ==
    /\ reader \in Measures
    /\ Measuring!MetricsStep
    /\ UNCHANGED <<tables, reader, exporting, listing>>

Next == Write \/ Export \/ List \/ Measure

Spec == Init /\ [][Next]_vars

-----------------------------------------------------------------------------
(* The properties, each stated in the module of its reader *)

\* Every table and every reader's variable has its type.
TypeOK ==
    /\ TablesTypeOK
    /\ reader \in Kinds
    /\ Exporting!ExportTypeOK
    /\ Listing!ListingTypeOK
    /\ Measuring!MetricsTypeOK

\* No receipt that an export should carry is left out of it, and none is in it
\* twice but at a midnight.
BundleIsComplete == Exporting!BundleIsComplete

\* What the anchor of a pack witnesses is in the pack.
RootIsInItsPack == Exporting!RootIsInItsPack

\* The seal of a bundle verifies, and fixes which parts it has and their order.
SealFixesParts == Exporting!SealFixesParts

\* Paging to the end misses no row, by offset or by cursor.
PagesMissNothing == Listing!PagesMissNothing

\* A row that was listed can be opened and has not been taken back.
ListedStands == Listing!ListedStands

\* The figures of one metrics answer fit together.
CountsFitTogether == Measuring!CountsFitTogether
=============================================================================
