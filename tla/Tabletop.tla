------------------------------ MODULE Tabletop ------------------------------
(***************************************************************************)
(* POST /v1/tabletop/simulate and /replay-window, and                      *)
(* diff_tabletop_results: a security engineer replays the same actions     *)
(* through two bundles, a candidate and the active one, and compares.  The *)
(* actions are given inline, or are the events of a window, which each     *)
(* replay reads for itself while events are ingested.                      *)
(*                                                                         *)
(* What a bundle makes of an action is the enforcement client's affair:    *)
(* any decision, or PolicyEnforcementError.                                *)
(***************************************************************************)
EXTENDS Naturals, SequencesExt

CONSTANTS
    Labels,       \* labels of inline actions
    MaxActions,   \* actions a scenario may have
    Instants,     \* occurred_at; the ends of a window
    MaxEvents,    \* bound: events ever ingested
    None

\* Assumed in module Services.
TabletopBoundsAreNaturals ==
    /\ {MaxActions, MaxEvents} \subseteq Nat
    /\ Instants \subseteq Nat

VARIABLES
    events,   \* occurred_at of each event, in the order of their commits
    inline,   \* the actions given, or None: a window is replayed
    range,    \* the window
    side,     \* whose turn it is: of the replays, or of the report
    todo,     \* the actions it has still to evaluate
    results,  \* of each side, in order
    counts,   \* of each side
    known,    \* how many events there were at the first replay (history)
    report    \* the diff, or the refusal

tabletop == <<events, inline, range, side, todo, results, counts, known, report>>

-----------------------------------------------------------------------------
Decisions == {"allow", "deny", "escalate"}
Outcomes == Decisions \cup {"errored"}
Sides == {"simulated", "actual"}

Windows == [after : Instants, before : Instants]

\* Inline actions are given by their labels: what is in them is left to the
\* client.
Scenarios == UNION {[1 .. n -> Labels] : n \in 1 .. MaxActions}

TabletopInit ==
    /\ events = <<>>
    /\ inline \in Scenarios \cup {None}
    /\ range \in IF inline = None THEN Windows ELSE {None}
    /\ side = "simulated"
    /\ todo = None
    /\ results = [s \in Sides |-> <<>>]
    /\ counts = [s \in Sides |-> [o \in Outcomes |-> 0]]
    /\ known = 0
    /\ report = None

\* An event is labelled by its id.  Ingest commutes with all but the reading of
\* a window, so it is followed up to there.
Ingest(t) ==
    /\ side \in Sides /\ todo = None /\ inline = None
    /\ Len(events) < MaxEvents
    /\ events' = Append(events, t)
    /\ UNCHANGED <<inline, range, side, todo, results, counts, known, report>>

\* Mutant of Fetched: the query takes the oldest that a scenario may have.
FetchedToTheLimit(w) ==
    LET E == {e \in DOMAIN events : events[e] \in w.after .. w.before}
        n == IF Cardinality(E) < MaxActions THEN Cardinality(E) ELSE MaxActions IN
    {SubSeq(s, 1, n) :
        s \in {s \in SetToSeqs(E) : \A i, j \in DOMAIN s : i < j => events[s[i]] <= events[s[j]]}}

\* list_event_payloads_for_tenant_window, both ends included, with a limit of
\* one more than a scenario may have: the oldest first, in any order if they
\* are of the same time.
Fetched(w) ==
    LET E == {e \in DOMAIN events : events[e] \in w.after .. w.before}
        n == IF Cardinality(E) < MaxActions + 1 THEN Cardinality(E) ELSE MaxActions + 1 IN
    {SubSeq(s, 1, n) :
        s \in {s \in SetToSeqs(E) : \A i, j \in DOMAIN s : i < j => events[s[i]] <= events[s[j]]}}

Refused(code) == [refused |-> code]

End(outcome) ==
    /\ side' = "over"
    /\ report' = outcome
    /\ UNCHANGED <<events, inline, range, todo, results, counts, known>>

\* Another tenant; no such bundle of the tenant; a name or an action that does
\* not validate, bounds in the wrong order.
Refuse ==
    /\ side \in Sides /\ todo = None
    /\ \/ \E code \in {"403", "404"} : End(Refused(code))
       \/ (inline = None => range.before < range.after) /\ End(Refused("422"))

\* The request is valid, and its actions are there.
Start ==
    /\ side \in Sides /\ todo = None
    /\ IF inline # None
       THEN todo' = inline
       ELSE /\ range.after <= range.before
            /\ todo' \in Fetched(range)
            /\ Len(todo') \in 1 .. MaxActions
    /\ known' = IF side = "simulated" THEN Len(events) ELSE known
    /\ UNCHANGED <<events, inline, range, side, results, counts, report>>

\* The window has too many events, or none.
RefuseWindow ==
    /\ side \in Sides /\ todo = None
    /\ inline = None /\ range.after <= range.before
    /\ \E s \in Fetched(range) :
           \/ Len(s) > MaxActions /\ End(Refused("413"))
           \/ Len(s) = 0 /\ End(Refused("422"))

\* simulate_scenario: one action, in the order of the scenario; the summary is
\* counted along.
Evaluate(o) ==
    /\ side \in Sides /\ todo # None /\ todo # <<>>
    /\ results' = [results EXCEPT ![side] = Append(@, [label |-> Head(todo), outcome |-> o])]
    /\ counts' = [counts EXCEPT ![side][o] = @ + 1]
    /\ todo' = Tail(todo)
    /\ UNCHANGED <<events, inline, range, side, known, report>>

\* The result is returned.
Return ==
    /\ side \in Sides /\ todo = <<>>
    /\ todo' = None
    /\ side' = IF side = "simulated" THEN "actual" ELSE "diff"
    /\ UNCHANGED <<events, inline, range, results, counts, known, report>>

-----------------------------------------------------------------------------
(* diff_tabletop_results *)

LabelsOf(s) == {r.label : r \in Range(results[s])}

\* _index_by_label raises for a label that is there twice.
Repeats(s) == Cardinality(LabelsOf(s)) # Len(results[s])

OutcomeOf(s, l) == (CHOOSE r \in Range(results[s]) : r.label = l).outcome

KindOf(l) ==
    IF l \notin LabelsOf("simulated") THEN "actual_only"
    ELSE IF l \notin LabelsOf("actual") THEN "simulated_only"
    ELSE IF \E s \in Sides : OutcomeOf(s, l) = "errored" THEN "errored_either"
    ELSE IF OutcomeOf("simulated", l) = OutcomeOf("actual", l) THEN "match"
    ELSE "drift"

DiffKinds == {"actual_only", "simulated_only", "errored_either", "match", "drift"}

\* A row shows the decision of either side, None for an error or no result.
DecisionOf(s, l) ==
    IF l \notin LabelsOf(s) \/ OutcomeOf(s, l) = "errored" THEN None ELSE OutcomeOf(s, l)

Report ==
    LET All == LabelsOf("simulated") \cup LabelsOf("actual") IN
    [entries |-> {[label |-> l, kind |-> KindOf(l), shown |-> [s \in Sides |-> DecisionOf(s, l)]] :
                     l \in {m \in All : KindOf(m) # "match"}},
     count |-> [k \in DiffKinds |-> Cardinality({l \in All : KindOf(l) = k})],
     total |-> [s \in Sides |-> Len(results[s])]]

Refusals == [refused : {"403", "404", "413", "422", "TabletopError"}]

Entries == [label : Labels \cup Nat, kind : DiffKinds, shown : [Sides -> Decisions \cup {None}]]

Reports ==
    Refusals \cup [entries : SUBSET Entries, count : [DiffKinds -> Nat], total : [Sides -> Nat]]

\* Assumed in module Services.
NoneIsNoReport == None \notin Decisions \cup Seq(Labels \cup Nat) \cup Reports

Diff ==
    /\ side = "diff"
    /\ End(IF \E s \in Sides : Repeats(s) THEN Refused("TabletopError") ELSE Report)

TabletopStep ==
    \/ \E t \in Instants : Ingest(t)
    \/ Refuse \/ Start \/ RefuseWindow
    \/ \E o \in Outcomes : Evaluate(o)
    \/ Return
    \/ Diff

TabletopOver == side = "over"

-----------------------------------------------------------------------------
(* Type invariant *)

\* Every variable has its type.
TabletopTypeOK ==
    /\ events \in Seq(Instants)
    /\ inline \in Scenarios \cup {None}
    /\ range \in Windows \cup {None}
    /\ side \in Sides \cup {"diff", "over"}
    /\ todo # None => Len(todo) <= MaxActions
    /\ DOMAIN results = Sides
    /\ counts \in [Sides -> [Outcomes -> 0 .. MaxActions]]
    /\ report \in Reports \cup {None}
    /\ report # None <=> side = "over"

-----------------------------------------------------------------------------
(* Safety *)

\* What the figures of a summary add up to.
Counted(s) ==
    counts[s]["allow"] + counts[s]["deny"] + counts[s]["escalate"] + counts[s]["errored"]

Reported == report # None /\ "entries" \in DOMAIN report

\* Every action of either replay is accounted for in its summary and in the
\* report, once and with its own outcome; what is not listed came out the same
\* on both sides.  Of two replays of a window, the later one has every event of
\* the earlier one, whatever was ingested between the two, so that nothing
\* looks as if only the candidate had judged it; what it has more was ingested
\* since.
ReportAccountsForAll ==
    Reported =>
        LET Kind(k) == {r \in report.entries : r.kind = k} IN
        /\ \A s \in Sides :
               /\ Counted(s) = report.total[s]
               /\ report.total[s] = Cardinality(LabelsOf(s))
        /\ report.count["match"] + report.count["drift"] + report.count["errored_either"]
               = Cardinality(LabelsOf("simulated") \cap LabelsOf("actual"))
        /\ \A k \in DiffKinds \ {"match"} : Cardinality(Kind(k)) = report.count[k]
        /\ \A r \in Kind("drift") : None \notin Range(r.shown) /\ Cardinality(Range(r.shown)) = 2
        /\ \A r \in Kind("errored_either") : None \in Range(r.shown)
        /\ report.count["simulated_only"] = 0
        /\ \A r \in Kind("actual_only") : inline = None /\ r.label > known
=============================================================================
