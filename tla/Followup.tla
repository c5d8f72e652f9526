------------------------------- MODULE Followup -------------------------------
(***************************************************************************)
(* The views "market", "stakeholder" and "domain": run_followup of         *)
(* agents/researchers/followup.py.  A view assesses its facets from the    *)
(* evidence the research view cites and from web searches; facets that     *)
(* stay unknown are searched and assessed once more.  On feedback for an   *)
(* earlier result only some facets are assessed again, provided that the   *)
(* papers the earlier result cites are still part of the evidence.         *)
(*                                                                         *)
(* The two claims of a facet are one value: whether one of them is of kind *)
(* "unknown" and what it cites.  Structured calls and reassess_facets are  *)
(* modules of their own; here they return anything their check accepts.    *)
(* Failures keep the code they are reported with.                          *)
(***************************************************************************)
EXTENDS Naturals, FiniteSets

CONSTANTS
    Facet,      \* the facets of the view
    Counter,    \* its counter-evidence facet (costs, risks), or "none"
    Paper,      \* chunks of papers
    Web         \* chunks of the frozen web snapshot

CounterAssumption == Counter \in Facet \cup {"none"}
ChunkAssumption == Paper \cap Web = {} /\ "none" \notin Paper \cup Web

Chunk == Paper \cup Web

Failures == {"artifact_mismatch", "retrieval_error", "invalid_response", "provider_error"}

(* A scenario or an unknown claim may cite nothing. *)
ClaimsCiting(shown) == [Facet -> [unknown : BOOLEAN, cite : shown \cup {"none"}]]

AssessmentsCiting(shown) ==
    [claims : ClaimsCiting(shown), status : {"ok", "insufficient"}, gaps : BOOLEAN]

VARIABLES
    previous,   \* the assessment feedback is about: a set, empty without one
    inherited,  \* chunks of the research evidence of this request
    phase,
    lookup,     \* candidate_lookup: what the model was shown
    facets,     \* the facets searched again and reassessed
    base,       \* the assessment before the reassessment
    assessment, \* the assessment at hand
    outcome     \* "none", "returned" or the code of the failure

vars == <<previous, inherited, phase, lookup, facets, base, assessment, outcome>>

Cited(a) == {a.claims[f].cite : f \in Facet} \ {"none"}

UnknownFacets(a) == {f \in Facet : a.claims[f].unknown}

RaisesIn(codes) ==
    /\ phase' = "ended"
    /\ outcome' \in codes

Goes(next) == phase' = next /\ UNCHANGED outcome

-------------------------------------------------------------------------------
(* The checks of the structured answers. *)

(* _perspective_check: citations are in the supplied chunks, and whatever  *)
(* is unknown or insufficient is explained by a gap.                       *)
PerspectiveCheck(a, shown) ==
    /\ Cited(a) \subseteq shown
    /\ a.status = "insufficient" \/ UnknownFacets(a) # {} => a.gaps

(* _feedback_rewrite_check: one to three facets of the view, the unknown   *)
(* ones among them.                                                        *)
FeedbackRewriteCheck(chosen) ==
    /\ chosen # {} /\ Cardinality(chosen) <= 3
    /\ \A p \in previous : UnknownFacets(p) \subseteq chosen

-------------------------------------------------------------------------------
(* Collecting the evidence of the research view. *)

(* Variant: feedback always keeps the earlier result. *)
KeepsAlways == previous # {}

(* feedback_mode, and the cited papers are part of the current evidence.   *)
KeepsPrevious ==
    /\ previous # {}
    /\ \A p \in previous : Cited(p) \cap Paper \subseteq inherited

(* Corpus and research context must agree; chunks of the earlier result    *)
(* are those it cites, and join the evidence if the result is kept.        *)
Collect ==
    /\ phase = "collect"
    /\ \/ RaisesIn({"artifact_mismatch", "retrieval_error"}) /\ UNCHANGED lookup
       \/ /\ KeepsPrevious
          /\ lookup' = inherited \cup UNION {Cited(p) : p \in previous}
          /\ Goes("rewrite_feedback")
       \/ /\ ~KeepsPrevious
          /\ lookup' = inherited
          /\ Goes("search")
    /\ UNCHANGED <<previous, inherited, facets, base, assessment>>

(* A web search: hits that are new and fit the token budget join the       *)
(* evidence; a hit that contradicts a chunk of the same id ends the view.  *)
SearchesInto(next) ==
    \/ \E hits \in SUBSET Web : lookup' = lookup \cup hits /\ Goes(next)
    \/ RaisesIn({"artifact_mismatch", "retrieval_error"}) /\ UNCHANGED lookup

-------------------------------------------------------------------------------
(* Feedback for an earlier result. *)

RewriteFeedback ==
    /\ phase = "rewrite_feedback"
    /\ \/ /\ facets' \in {chosen \in SUBSET Facet : FeedbackRewriteCheck(chosen)}
          /\ base' = previous
          /\ Goes("search_feedback")
       \/ RaisesIn({"invalid_response", "provider_error"}) /\ UNCHANGED <<facets, base>>
    /\ UNCHANGED <<previous, inherited, lookup, assessment>>

SearchFeedback ==
    /\ phase = "search_feedback"
    /\ SearchesInto("reassess_feedback")
    /\ UNCHANGED <<previous, inherited, facets, base, assessment>>

(* Whatever the answer says of other facets, their claims stay; the result *)
(* is checked once more.                                                   *)
Kept(a, old) ==
    [a EXCEPT !.claims = [f \in Facet |-> IF f \in facets THEN @[f] ELSE old.claims[f]]]

ReassessFeedback ==
    /\ phase = "reassess_feedback"
    /\ \/ \E a \in AssessmentsCiting(lookup), old \in base :
            /\ PerspectiveCheck(a, lookup)
            /\ PerspectiveCheck(Kept(a, old), lookup)
            /\ assessment' = {Kept(a, old)}
            /\ Goes("balance")
       \/ RaisesIn({"invalid_response", "provider_error"}) /\ UNCHANGED assessment
    /\ UNCHANGED <<previous, inherited, lookup, facets, base>>

-------------------------------------------------------------------------------
(* A fresh assessment. *)

(* Two searches: the default query of the view and the questions. *)
Search ==
    /\ phase = "search"
    /\ SearchesInto("assess")
    /\ UNCHANGED <<previous, inherited, facets, base, assessment>>

(* _missing_facets: the unknown facets, or all of an assessment that is    *)
(* insufficient without one.                                               *)
MissingFacets(a) ==
    IF UnknownFacets(a) = {} /\ a.status = "insufficient" THEN Facet ELSE UnknownFacets(a)

Assess ==
    /\ phase = "assess"
    /\ \/ \E a \in AssessmentsCiting(lookup) :
            /\ PerspectiveCheck(a, lookup)
            /\ assessment' = {a}
            /\ base' = {a}
            /\ facets' = MissingFacets(a)
            /\ Goes(IF MissingFacets(a) = {} THEN "balance" ELSE "rewrite_missing")
       \/ /\ RaisesIn({"invalid_response", "provider_error"})
          /\ UNCHANGED <<assessment, base, facets>>
    /\ UNCHANGED <<previous, inherited, lookup>>

(* One query for each missing facet, or the view fails. *)
RewriteMissing ==
    /\ phase = "rewrite_missing"
    /\ \/ Goes("search_missing")
       \/ RaisesIn({"invalid_response", "provider_error"})
    /\ UNCHANGED <<previous, inherited, lookup, facets, base, assessment>>

SearchMissing ==
    /\ phase = "search_missing"
    /\ SearchesInto("reassess_missing")
    /\ UNCHANGED <<previous, inherited, facets, base, assessment>>

(* "Preserve sufficient facets verbatim; reassess missing facets only". *)
ReassessMissing ==
    /\ phase = "reassess_missing"
    /\ \/ \E a \in AssessmentsCiting(lookup), old \in base :
            /\ PerspectiveCheck(a, lookup)
            /\ a = Kept(a, old)
            /\ assessment' = {a}
            /\ Goes("balance")
       \/ RaisesIn({"invalid_response", "provider_error"}) /\ UNCHANGED assessment
    /\ UNCHANGED <<previous, inherited, lookup, facets, base>>

-------------------------------------------------------------------------------
(* balance_findings: an assessment without caveats, or without evidence    *)
(* against the technology, is insufficient and says so in its gaps.  An    *)
(* unknown claim carries a caveat by itself.                               *)
Balanced(a, bare) ==
    IF Counter \in UnknownFacets(a) \/ bare
    THEN [a EXCEPT !.status = "insufficient", !.gaps = TRUE]
    ELSE a

Balance ==
    /\ phase = "balance"
    /\ \E a \in assessment, bare \in BOOLEAN :
          /\ bare => UnknownFacets(a) = {}
          /\ assessment' = {Balanced(a, bare)}
    /\ phase' = "ended"
    /\ outcome' = "returned"
    /\ UNCHANGED <<previous, inherited, lookup, facets, base>>

-------------------------------------------------------------------------------

(* An earlier result that did not fail was returned by this view.          *)
Previous ==
    {a \in AssessmentsCiting(Chunk) :
        /\ PerspectiveCheck(a, Chunk)
        /\ Counter \in UnknownFacets(a) => a.status = "insufficient"}

Init ==
    /\ previous \in {{}} \cup {{a} : a \in Previous}
    /\ inherited \in SUBSET Paper
    /\ phase = "collect"
    /\ lookup = {}
    /\ facets = {}
    /\ base = {}
    /\ assessment = {}
    /\ outcome = "none"

Next ==
    \/ Collect
    \/ RewriteFeedback \/ SearchFeedback \/ ReassessFeedback
    \/ Search \/ Assess \/ RewriteMissing \/ SearchMissing \/ ReassessMissing
    \/ Balance

Spec == Init /\ [][Next]_vars

-------------------------------------------------------------------------------
(* Properties. *)

(* Every variable has its type.                                            *)
TypeOK ==
    /\ previous \subseteq AssessmentsCiting(Chunk)
    /\ inherited \subseteq Paper
    /\ phase \in {"collect", "rewrite_feedback", "search_feedback", "reassess_feedback",
                  "search", "assess", "rewrite_missing", "search_missing",
                  "reassess_missing", "balance", "ended"}
    /\ lookup \subseteq Chunk
    /\ facets \subseteq Facet
    /\ base \subseteq AssessmentsCiting(Chunk)
    /\ assessment \subseteq AssessmentsCiting(Chunk)
    /\ outcome \in Failures \cup {"none", "returned"}

Returned == {a \in assessment : outcome = "returned"}

(* A reassessment, on feedback or for missing facets, leaves the claims of *)
(* every other facet as they were, whatever the model answered.            *)
OthersArePreserved ==
    \A a \in Returned, old \in base, f \in Facet \ facets : a.claims[f] = old.claims[f]

(* What the view reports as unknown was searched a second time in this     *)
(* request (docs/design-report.md:230); no unknown claim is just kept.     *)
UnknownWasSearchedAgain ==
    \A a \in Returned : UnknownFacets(a) \subseteq facets

(* Every claim, new or preserved, cites chunks the result can supply, and  *)
(* no paper that a rerun of the research has dropped from the evidence.    *)
EvidenceIsCurrent ==
    \A a \in Returned :
        /\ Cited(a) \subseteq lookup
        /\ Cited(a) \cap Paper \subseteq inherited

(* An insufficient view says why, and a view without evidence against the  *)
(* technologies is not sufficient.                                         *)
InsufficiencyIsExplained ==
    \A a \in Returned :
        /\ a.status = "insufficient" => a.gaps
        /\ Counter \in UnknownFacets(a) => a.status = "insufficient"

(* What the followup view returns.                                         *)
FollowupIsSound ==
    /\ TypeOK
    /\ OthersArePreserved
    /\ UnknownWasSearchedAgain
    /\ EvidenceIsCurrent
    /\ InsufficiencyIsExplained

===============================================================================
