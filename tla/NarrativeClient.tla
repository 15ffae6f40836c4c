-------------------------- MODULE NarrativeClient --------------------------
(***************************************************************************)
(* POST /v1/narratives: the receipts of a window are read once, made into  *)
(* a pack and a prompt, and a language model writes prose about them.  The *)
(* live client awaits one call at a time, each with a timeout, and tries   *)
(* again after a failure; the mock answers at once.  Meanwhile receipts    *)
(* are recorded, and the service may work on at calls nobody awaits.       *)
(***************************************************************************)
EXTENDS Naturals

CONSTANTS
    MaxReceipts,   \* _MAX_RECEIPTS_PER_NARRATIVE
    MaxRetries,    \* max_retries
    MaxRecorded,   \* bound: receipts ever recorded in the window
    None

\* Assumed in module Services.
NarrativeBoundsAreNaturals == {MaxReceipts, MaxRetries, MaxRecorded} \subseteq Nat

VARIABLES
    client,    \* the client that select_narrative_client chose
    recorded,  \* the receipts in the window
    doing,     \* where the request is
    pack,      \* the receipts it has read, for the prompt that is built of them
    attempts,  \* calls made to the service
    working,   \* the calls that the service has not answered yet
    text,      \* what the client holds: a text, and the call that returned it
    answer     \* the response

narrative == <<client, recorded, doing, pack, attempts, working, text, answer>>

-----------------------------------------------------------------------------
\* What a text may contain: nothing to object to, a phrase of the deny-list,
\* a URL, a code fence, a tag or code.  A reply without text counts as empty.
Texts == {"prose", "empty", "phrase", "markup", "phrase and markup"}

Injected(t) == t \in {"phrase", "phrase and markup"}
Structured(t) == t \in {"markup", "phrase and markup"}

NarrativeInit ==
    /\ client \in {"live", "mock"}
    /\ recorded = 0
    /\ doing = "idle"
    /\ pack = None
    /\ attempts = 0
    /\ working = {}
    /\ text = None
    /\ answer = None

Replies == [call : Nat, is : Texts]

Responses ==
    [code : {"200", "403", "413", "422", "422 input", "422 output", "502"},
     text : Replies \cup {None},
     binds : Nat \cup {None}]

\* Assumed in module Services.
NoneIsNoResponse == None \notin Replies \cup Responses

Respond(response) == doing' = "over" /\ answer' = response
Error(code) == [code |-> code, text |-> None, binds |-> None]

\* content_hash binds the prompt and the text; prompt_hash and pack_root_hash
\* are of the same pack.
Narrative(t) == [code |-> "200", text |-> t, binds |-> pack]

\* What the mock writes, without a call.
Template == [call |-> 0, is |-> "prose"]

\* Ingest.
Record ==
    /\ recorded < MaxRecorded
    /\ recorded' = recorded + 1
    /\ UNCHANGED <<client, doing, pack, attempts, working, text, answer>>

\* Another tenant; naive bounds, bounds in the wrong order.
Refuse ==
    /\ doing = "idle"
    /\ \/ Respond(Error("403"))
       \/ Respond(Error("422"))
    /\ UNCHANGED <<client, recorded, pack, attempts, working, text>>

\* The query for one row more than a narrative may have shows it.
TooMany == recorded > MaxReceipts

ReadTooMany ==
    /\ doing = "idle"
    /\ TooMany
    /\ Respond(Error("413"))
    /\ UNCHANGED <<client, recorded, pack, attempts, working, text>>

\* build_evidence_pack and build_prompt.
Read ==
    /\ doing = "idle"
    /\ ~ TooMany
    /\ pack' = recorded
    /\ IF client = "live"
       THEN doing' = "call" /\ UNCHANGED answer
       ELSE Respond([code |-> "200", text |-> Template, binds |-> recorded])
    /\ UNCHANGED <<client, recorded, attempts, working, text>>

-----------------------------------------------------------------------------
(* The live client *)

Call ==
    /\ doing = "call"
    /\ doing' = "await"
    /\ attempts' = attempts + 1
    /\ working' = working \cup {attempts + 1}
    /\ UNCHANGED <<client, recorded, pack, text, answer>>

Receive ==
    /\ doing = "await"
    /\ attempts \in working
    /\ \E t \in Texts : text' = [call |-> attempts, is |-> t]
    /\ working' = working \ {attempts}
    /\ doing' = "check"
    /\ UNCHANGED <<client, recorded, pack, attempts, answer>>

LastTry == attempts >= MaxRetries + 1

\* The call raises, an error of the service or wait_for's timeout, after which
\* the service may work on.  The back-off is in between.
CallRaises ==
    /\ doing = "await"
    /\ working' \in {working, working \ {attempts}}
    /\ IF LastTry
       THEN Respond(Error("502"))
       ELSE doing' = "call" /\ UNCHANGED answer
    /\ UNCHANGED <<client, recorded, pack, attempts, text>>

\* The service answers a call that is not awaited any more.
AnswerInVain ==
    /\ \E n \in working :
           /\ doing = "await" => n # attempts
           /\ working' = working \ {n}
    /\ UNCHANGED <<client, recorded, doing, pack, attempts, text, answer>>

\* Mutant of Check: a text that is objected to is asked for again.
CheckAgain ==
    /\ doing = "check"
    /\ IF Injected(text.is) \/ Structured(text.is)
       THEN IF LastTry THEN Respond(Narrative(text)) ELSE doing' = "call" /\ UNCHANGED answer
       ELSE Respond(Narrative(text))
    /\ UNCHANGED <<client, recorded, pack, attempts, working, text>>

\* _detect_injection and _detect_structural_violation: no second try.
Check ==
    /\ doing = "check"
    /\ IF Injected(text.is) THEN Respond(Error("422 input"))
       ELSE IF Structured(text.is) THEN Respond(Error("422 output"))
       ELSE Respond(Narrative(text))
    /\ UNCHANGED <<client, recorded, pack, attempts, working, text>>

NarrativeStep ==
    \/ Record
    \/ Refuse \/ ReadTooMany \/ Read
    \/ Call \/ Receive \/ CallRaises \/ AnswerInVain
    \/ Check

NarrativeOver == doing = "over"

-----------------------------------------------------------------------------
(* Type invariant *)

\* Every variable has its type.
NarrativeTypeOK ==
    /\ client \in {"live", "mock"}
    /\ recorded \in 0 .. MaxRecorded
    /\ doing \in {"idle", "call", "await", "check", "over"}
    /\ pack # None => pack \in 0 .. recorded
    /\ attempts \in 0 .. MaxRetries + 1
    /\ working \subseteq 1 .. attempts
    /\ text # None => text \in [call : 1 .. attempts, is : Texts]
    /\ answer \in Responses \cup {None}
    /\ answer # None <=> doing = "over"

-----------------------------------------------------------------------------
(* Safety *)

\* A text that the defence objects to is never returned, and never asked for
\* again.  What is returned is the answer to the last call and no late one to
\* a call that was given up, bound to what was read before the first call, and
\* that is no more than a narrative may be about.  No call is made for a
\* request that is refused, none by the mock, and none after the last retry;
\* a 502 means that every one of them failed.
RefusedNeverReturned ==
    answer # None =>
        /\ answer.code = "200" =>
               /\ answer.binds = pack /\ pack <= MaxReceipts
               /\ client = "live" =>
                      /\ answer.text = text
                      /\ text.call = attempts
                      /\ ~ Injected(text.is) /\ ~ Structured(text.is)
        /\ answer.code \in {"422 input", "422 output"} =>
               /\ text.call = attempts
               /\ Injected(text.is) \/ Structured(text.is)
        /\ answer.code = "502" => text = None /\ attempts = MaxRetries + 1
        /\ answer.code \in {"403", "413", "422"} \/ client = "mock" => attempts = 0
=============================================================================
