---------------------------- MODULE DecisionsProofs ---------------------------
(***************************************************************************)
(* Proofs about the conclusions that module MCDecisions checks side by     *)
(* side: the reassessments of a follow-up view, the choice of a retrieval  *)
(* configuration, the evaluation of a report and the writer.               *)
(***************************************************************************)
EXTENDS MCDecisions, FiniteSetTheorems, SequenceTheorems, TLAPS

-------------------------------------------------------------------------------
(* Follow-up views. *)

(* A reassessment of the facets asked for kept the claims of the others.   *)
PreservedFrom(a) ==
    \A old \in base, f \in Facet \ facets : a.claims[f] = old.claims[f]

(* What the model was shown is current evidence, once the papers of an     *)
(* earlier result were found there.                                        *)
ShownOK == lookup \cap Paper \subseteq inherited

(* While facets are searched again: the unknown ones are among them.       *)
SearchedOK ==
    /\ \A p, q \in previous : p = q
    /\ \A p, q \in base : p = q
    /\ phase \in {"search_feedback", "reassess_feedback", "rewrite_missing", "search_missing",
                  "reassess_missing"} =>
           \A p \in base : Followup!UnknownFacets(p) \subseteq facets

(* What is balanced, and what is returned, has passed the check.           *)
CheckedOK ==
    phase = "balance" \/ outcome = "returned" =>
        \A a \in assessment :
            /\ Followup!PerspectiveCheck(a, lookup)
            /\ Followup!UnknownFacets(a) \subseteq facets
            /\ PreservedFrom(a)

FollowupInv ==
    /\ Followup!TypeOK
    /\ ShownOK /\ SearchedOK /\ CheckedOK
    /\ outcome # "none" => phase = "ended"
    /\ Followup!InsufficiencyIsExplained

(* A step that raises, or goes on without an assessment to be balanced. *)
LEMMA FollowupMoves ==
  ASSUME FollowupInv, outcome = "none",
         UNCHANGED <<previous, inherited>>,
         \/ Followup!RaisesIn(Followup!Failures)
         \/ \E next \in {"rewrite_feedback", "search_feedback", "reassess_feedback", "search",
                         "assess", "rewrite_missing", "search_missing", "reassess_missing"} :
                Followup!Goes(next),
         ShownOK', SearchedOK',
         lookup' \subseteq Followup!Chunk, facets' \subseteq Facet,
         base' \subseteq Followup!AssessmentsCiting(Followup!Chunk),
         assessment' \subseteq Followup!AssessmentsCiting(Followup!Chunk)
  PROVE  FollowupInv'
  <1>1. /\ outcome' \in Followup!Failures \cup {"none"}
        /\ phase' \in {"rewrite_feedback", "search_feedback", "reassess_feedback", "search",
                       "assess", "rewrite_missing", "search_missing", "reassess_missing", "ended"}
        /\ outcome' # "none" => phase' = "ended"
    BY DEF Followup!RaisesIn, Followup!Goes
  <1>2. outcome' # "returned"
    BY <1>1 DEF Followup!Failures
  <1>3. Followup!TypeOK'
    BY <1>1 DEF FollowupInv, Followup!TypeOK
  <1>4. CheckedOK'
    BY <1>1, <1>2 DEF CheckedOK
  <1>5. Followup!InsufficiencyIsExplained'
    BY <1>2 DEF Followup!InsufficiencyIsExplained, Followup!Returned
  <1> QED
    BY <1>1, <1>3, <1>4, <1>5 DEF FollowupInv

(* A search adds pages of the web only. *)
LEMMA SearchIntoInv ==
  ASSUME FollowupInv, outcome = "none",
         NEW next \in {"reassess_feedback", "assess", "reassess_missing"},
         Followup!SearchesInto(next),
         phase = IF next = "reassess_feedback" THEN "search_feedback"
                 ELSE IF next = "assess" THEN "search" ELSE "search_missing",
         UNCHANGED <<previous, inherited, facets, base, assessment>>
  PROVE  FollowupInv'
  <1>1. Followup!TypeOK /\ ShownOK /\ SearchedOK
    BY DEF FollowupInv
  <1>2. lookup \subseteq lookup' /\ lookup' \subseteq lookup \cup Web
    BY DEF Followup!SearchesInto
  <1>3. ShownOK' /\ lookup' \subseteq Followup!Chunk
    BY <1>1, <1>2, FollowupAssumption
       DEF ShownOK, Followup!TypeOK, Followup!Chunk, Followup!ChunkAssumption
  <1>4. phase' \in {next, "ended"}
    BY DEF Followup!SearchesInto, Followup!Goes, Followup!RaisesIn
  <1>5. SearchedOK'
    BY <1>1, <1>4 DEF SearchedOK
  <1>6. \/ Followup!RaisesIn(Followup!Failures)
        \/ Followup!Goes(next)
    BY DEF Followup!SearchesInto, Followup!RaisesIn, Followup!Failures
  <1> QED
    BY <1>1, <1>3, <1>5, <1>6, FollowupMoves DEF Followup!TypeOK

LEMMA CollectInv ==
  ASSUME FollowupInv, outcome = "none", Followup!Collect
  PROVE  FollowupInv'
  <1>1. Followup!TypeOK /\ ShownOK /\ SearchedOK
    BY DEF FollowupInv
  <1>2. /\ phase = "collect"
        /\ UNCHANGED <<previous, inherited, facets, base, assessment>>
    BY DEF Followup!Collect
  <1>3. \/ Followup!RaisesIn(Followup!Failures)
        \/ \E next \in {"rewrite_feedback", "search"} : Followup!Goes(next)
    BY DEF Followup!Collect, Followup!RaisesIn, Followup!Failures
  <1>4. lookup' \subseteq Followup!Chunk /\ ShownOK'
    <2>1. CASE Followup!KeepsPrevious /\ lookup' =
                   inherited \cup UNION {Followup!Cited(p) : p \in previous}
      <3>1. ASSUME NEW p \in previous
            PROVE  /\ Followup!Cited(p) \subseteq Followup!Chunk
                   /\ Followup!Cited(p) \cap Paper \subseteq inherited
        <4>1. p.claims \in [Facet -> [unknown : BOOLEAN, cite : Followup!Chunk \cup {"none"}]]
          BY <1>1, <3>1
             DEF Followup!TypeOK, Followup!AssessmentsCiting, Followup!ClaimsCiting
        <4>2. Followup!Cited(p) \subseteq Followup!Chunk
          BY <4>1 DEF Followup!Cited
        <4> QED
          BY <2>1, <4>2 DEF Followup!KeepsPrevious
      <3> QED
        BY <1>1, <1>2, <2>1, <3>1 DEF ShownOK, Followup!TypeOK, Followup!Chunk
    <2>2. CASE lookup' = inherited
      BY <1>1, <1>2, <2>2 DEF ShownOK, Followup!TypeOK, Followup!Chunk
    <2>3. CASE lookup' = lookup
      BY <1>1, <1>2, <2>3 DEF ShownOK, Followup!TypeOK
    <2> QED
      BY <2>1, <2>2, <2>3 DEF Followup!Collect
  <1>5. SearchedOK'
    BY <1>1, <1>2, <1>3 DEF SearchedOK, Followup!Goes, Followup!RaisesIn
  <1> QED
    BY <1>1, <1>2, <1>3, <1>4, <1>5, FollowupMoves DEF Followup!TypeOK

LEMMA RewriteInv ==
  ASSUME FollowupInv, outcome = "none",
         Followup!RewriteFeedback \/ Followup!RewriteMissing
  PROVE  FollowupInv'
  <1>1. Followup!TypeOK /\ ShownOK /\ SearchedOK
    BY DEF FollowupInv
  <1>2. CASE Followup!RewriteMissing
    <2>1. /\ phase = "rewrite_missing"
          /\ UNCHANGED <<previous, inherited, lookup, facets, base, assessment>>
          /\ Followup!Goes("search_missing") \/ Followup!RaisesIn(Followup!Failures)
      BY <1>2 DEF Followup!RewriteMissing, Followup!RaisesIn, Followup!Failures
    <2>2. ShownOK' /\ SearchedOK'
      BY <1>1, <2>1 DEF ShownOK, SearchedOK, Followup!Goes, Followup!RaisesIn
    <2> QED
      BY <1>1, <2>1, <2>2, FollowupMoves DEF Followup!TypeOK
  <1>3. CASE Followup!RewriteFeedback
    <2>1. /\ phase = "rewrite_feedback" /\ UNCHANGED <<previous, inherited, lookup, assessment>>
          /\ \/ /\ facets' \subseteq Facet /\ Followup!FeedbackRewriteCheck(facets')
                /\ base' = previous /\ Followup!Goes("search_feedback")
             \/ Followup!RaisesIn(Followup!Failures) /\ UNCHANGED <<facets, base>>
      BY <1>3 DEF Followup!RewriteFeedback, Followup!RaisesIn, Followup!Failures
    <2>2. /\ facets' \subseteq Facet
          /\ base' \subseteq Followup!AssessmentsCiting(Followup!Chunk)
      BY <1>1, <2>1 DEF Followup!TypeOK
    <2>3. ShownOK' /\ SearchedOK'
      BY <1>1, <2>1 DEF ShownOK, SearchedOK, Followup!Goes, Followup!RaisesIn,
                        Followup!FeedbackRewriteCheck
    <2>4. \/ Followup!Goes("search_feedback")
          \/ Followup!RaisesIn(Followup!Failures)
      BY <2>1
    <2> QED
      BY <1>1, <2>1, <2>2, <2>3, <2>4, FollowupMoves DEF Followup!TypeOK
  <1> QED
    BY <1>2, <1>3

(* What a reassessment may change of an earlier assessment. *)
LEMMA KeptFrom ==
  ASSUME facets \subseteq Facet,
         NEW a \in Followup!AssessmentsCiting(Followup!Chunk),
         NEW old \in Followup!AssessmentsCiting(Followup!Chunk)
  PROVE  /\ Followup!Kept(a, old) \in Followup!AssessmentsCiting(Followup!Chunk)
         /\ \A f \in Facet \ facets : Followup!Kept(a, old).claims[f] = old.claims[f]
         /\ Followup!UnknownFacets(old) \subseteq facets =>
                Followup!UnknownFacets(Followup!Kept(a, old)) \subseteq facets
  <1> DEFINE cites == [unknown : BOOLEAN, cite : Followup!Chunk \cup {"none"}]
             claims == [f \in Facet |-> IF f \in facets THEN a.claims[f] ELSE old.claims[f]]
  <1>1. /\ a \in [claims : [Facet -> cites], status : {"ok", "insufficient"}, gaps : BOOLEAN]
        /\ old.claims \in [Facet -> cites]
    BY DEF Followup!AssessmentsCiting, Followup!ClaimsCiting
  <1> HIDE DEF cites
  <1>2. claims \in [Facet -> cites]
    BY <1>1
  <1>3. Followup!Kept(a, old) = [a EXCEPT !.claims = claims]
    BY <1>1 DEF Followup!Kept
  <1>4. /\ Followup!Kept(a, old).claims = claims
        /\ Followup!Kept(a, old) \in
               [claims : [Facet -> cites], status : {"ok", "insufficient"}, gaps : BOOLEAN]
    BY <1>1, <1>2, <1>3
  <1>5. Followup!Kept(a, old) \in Followup!AssessmentsCiting(Followup!Chunk)
    BY <1>4 DEF Followup!AssessmentsCiting, Followup!ClaimsCiting, cites
  <1> QED
    BY <1>4, <1>5 DEF Followup!UnknownFacets

(* An assessment that goes on to be balanced. *)
LEMMA FollowupBalances ==
  ASSUME FollowupInv, Followup!Goes("balance"), outcome = "none",
         UNCHANGED <<previous, inherited, lookup>>, facets' \subseteq Facet, SearchedOK',
         base' \subseteq Followup!AssessmentsCiting(Followup!Chunk),
         NEW a \in Followup!AssessmentsCiting(Followup!Chunk), assessment' = {a},
         Followup!PerspectiveCheck(a, lookup), Followup!UnknownFacets(a) \subseteq facets',
         \A old \in base', f \in Facet \ facets' : a.claims[f] = old.claims[f]
  PROVE  FollowupInv'
  <1>1. Followup!TypeOK /\ ShownOK /\ outcome' = "none" /\ phase' = "balance"
    BY DEF FollowupInv, Followup!Goes
  <1>2. Followup!TypeOK'
    BY <1>1 DEF Followup!TypeOK
  <1>3. CheckedOK'
    BY DEF CheckedOK, PreservedFrom, Followup!PerspectiveCheck, Followup!Cited,
           Followup!UnknownFacets
  <1>4. ShownOK'
    BY <1>1 DEF ShownOK
  <1>5. Followup!InsufficiencyIsExplained'
    BY <1>1 DEF Followup!InsufficiencyIsExplained, Followup!Returned
  <1> QED
    BY <1>1, <1>2, <1>3, <1>4, <1>5 DEF FollowupInv

LEMMA ShownAreChunks ==
  ASSUME Followup!TypeOK
  PROVE  Followup!AssessmentsCiting(lookup) \subseteq Followup!AssessmentsCiting(Followup!Chunk)
  BY DEF Followup!TypeOK, Followup!AssessmentsCiting, Followup!ClaimsCiting

LEMMA ReassessInv ==
  ASSUME FollowupInv, outcome = "none",
         Followup!ReassessFeedback \/ Followup!ReassessMissing
  PROVE  FollowupInv'
  <1>1. Followup!TypeOK /\ ShownOK /\ SearchedOK
    BY DEF FollowupInv
  <1>2. /\ phase \in {"reassess_feedback", "reassess_missing"}
        /\ UNCHANGED <<previous, inherited, lookup, facets, base>>
    BY DEF Followup!ReassessFeedback, Followup!ReassessMissing
  <1>3. CASE Followup!RaisesIn({"invalid_response", "provider_error"}) /\ UNCHANGED assessment
    <2>1. Followup!RaisesIn(Followup!Failures)
      BY <1>3 DEF Followup!RaisesIn, Followup!Failures
    <2>2. ShownOK' /\ SearchedOK'
      BY <1>1, <1>2, <1>3 DEF ShownOK, SearchedOK, Followup!RaisesIn
    <2> QED
      BY <1>1, <1>2, <1>3, <2>1, <2>2, FollowupMoves DEF Followup!TypeOK
  <1>4. ASSUME NEW a \in Followup!AssessmentsCiting(lookup), NEW old \in base, NEW b,
               b = Followup!Kept(a, old), Followup!PerspectiveCheck(b, lookup),
               assessment' = {b}, Followup!Goes("balance")
        PROVE  FollowupInv'
    <2>1. /\ a \in Followup!AssessmentsCiting(Followup!Chunk)
          /\ old \in Followup!AssessmentsCiting(Followup!Chunk)
      BY <1>1, ShownAreChunks DEF Followup!TypeOK
    <2>2. Followup!UnknownFacets(old) \subseteq facets
      BY <1>1, <1>2 DEF SearchedOK
    <2>3. facets \subseteq Facet
      BY <1>1 DEF Followup!TypeOK
    <2>4. /\ b \in Followup!AssessmentsCiting(Followup!Chunk)
          /\ Followup!UnknownFacets(b) \subseteq facets
          /\ \A f \in Facet \ facets : b.claims[f] = old.claims[f]
      BY <1>4, <2>1, <2>2, <2>3, KeptFrom
    <2>5. \A p \in base : p = old
      BY <1>1 DEF SearchedOK
    <2>6. SearchedOK'
      BY <1>1, <1>2, <1>4 DEF SearchedOK, Followup!Goes
    <2> QED
      BY <1>1, <1>2, <1>4, <2>3, <2>4, <2>5, <2>6, FollowupBalances DEF Followup!TypeOK
  <1>5. CASE Followup!ReassessFeedback /\ ~UNCHANGED assessment
    BY <1>4, <1>5 DEF Followup!ReassessFeedback
  <1>6. CASE Followup!ReassessMissing /\ ~UNCHANGED assessment
    BY <1>4, <1>6 DEF Followup!ReassessMissing
  <1> QED
    BY <1>3, <1>4, <1>5, <1>6 DEF Followup!ReassessFeedback, Followup!ReassessMissing

(* Every unknown facet of a fresh assessment is searched again. *)
LEMMA AssessInv ==
  ASSUME FollowupInv, outcome = "none", Followup!Assess
  PROVE  FollowupInv'
  <1>1. Followup!TypeOK /\ ShownOK /\ SearchedOK
    BY DEF FollowupInv
  <1>2. phase = "assess" /\ UNCHANGED <<previous, inherited, lookup>>
    BY DEF Followup!Assess
  <1>3. CASE /\ Followup!RaisesIn({"invalid_response", "provider_error"})
             /\ UNCHANGED <<assessment, base, facets>>
    <2>1. Followup!RaisesIn(Followup!Failures)
      BY <1>3 DEF Followup!RaisesIn, Followup!Failures
    <2>2. ShownOK' /\ SearchedOK'
      BY <1>1, <1>2, <1>3 DEF ShownOK, SearchedOK, Followup!RaisesIn
    <2> QED
      BY <1>1, <1>2, <1>3, <2>1, <2>2, FollowupMoves DEF Followup!TypeOK
  <1>4. ASSUME NEW a \in Followup!AssessmentsCiting(lookup),
               Followup!PerspectiveCheck(a, lookup), assessment' = {a}, base' = {a},
               facets' = Followup!MissingFacets(a),
               NEW next \in {"balance", "rewrite_missing"}, Followup!Goes(next)
        PROVE  FollowupInv'
    <2>1. a \in Followup!AssessmentsCiting(Followup!Chunk)
      BY <1>1, ShownAreChunks
    <2>2. /\ Followup!UnknownFacets(a) \subseteq facets' /\ facets' \subseteq Facet
      BY <1>4 DEF Followup!MissingFacets, Followup!UnknownFacets
    <2>3. SearchedOK'
      BY <1>1, <1>2, <1>4, <2>2 DEF SearchedOK, Followup!Goes, Followup!UnknownFacets
    <2>4. ShownOK'
      BY <1>1, <1>2 DEF ShownOK
    <2>5. CASE next = "balance"
      BY <1>2, <1>4, <2>1, <2>2, <2>3, <2>5, FollowupBalances
    <2>6. CASE next = "rewrite_missing"
      BY <1>1, <1>2, <1>4, <2>1, <2>2, <2>3, <2>4, <2>6, FollowupMoves DEF Followup!TypeOK
    <2> QED
      BY <2>5, <2>6
  <1> QED
    BY <1>3, <1>4 DEF Followup!Assess

LEMMA BalanceInv ==
  ASSUME FollowupInv, outcome = "none", Followup!Balance
  PROVE  FollowupInv'
  <1>1. Followup!TypeOK /\ ShownOK /\ SearchedOK /\ CheckedOK
    BY DEF FollowupInv
  <1>2. PICK a \in assessment, bare \in BOOLEAN : assessment' = {Followup!Balanced(a, bare)}
    BY DEF Followup!Balance
  <1>3. /\ phase = "balance" /\ phase' = "ended" /\ outcome' = "returned"
        /\ UNCHANGED <<previous, inherited, lookup, facets, base>>
    BY DEF Followup!Balance
  <1> DEFINE b == Followup!Balanced(a, bare)
  <1>4. a \in [claims : Followup!ClaimsCiting(Followup!Chunk),
               status : {"ok", "insufficient"}, gaps : BOOLEAN]
    BY <1>1 DEF Followup!TypeOK, Followup!AssessmentsCiting
  <1>5. /\ b \in Followup!AssessmentsCiting(Followup!Chunk)
        /\ b.claims = a.claims
        /\ b.gaps = a.gaps \/ b.gaps
        /\ b.status = "insufficient" => a.status = "insufficient" \/ b.gaps
        /\ Counter \in Followup!UnknownFacets(a) => b.status = "insufficient" /\ b.gaps
    BY <1>4 DEF Followup!Balanced, Followup!AssessmentsCiting
  <1>6. /\ Followup!PerspectiveCheck(a, lookup) /\ PreservedFrom(a)
        /\ Followup!UnknownFacets(a) \subseteq facets
    BY <1>1, <1>3 DEF CheckedOK
  <1> HIDE DEF b
  <1>7. /\ Followup!Cited(b) = Followup!Cited(a)
        /\ Followup!UnknownFacets(b) = Followup!UnknownFacets(a)
    BY <1>5 DEF Followup!Cited, Followup!UnknownFacets
  <1>8. Followup!PerspectiveCheck(b, lookup)
    BY <1>5, <1>6, <1>7 DEF Followup!PerspectiveCheck
  <1>9. Followup!TypeOK'
    BY <1>1, <1>2, <1>3, <1>5 DEF Followup!TypeOK, b
  <1>10. CheckedOK'
    <2>1. assessment' = {b}
      BY <1>2 DEF b
    <2>2. PreservedFrom(b)
      BY <1>5, <1>6 DEF PreservedFrom
    <2> QED
      BY <1>3, <1>6, <1>7, <1>8, <2>1, <2>2
         DEF CheckedOK, PreservedFrom, Followup!PerspectiveCheck, Followup!Cited,
             Followup!UnknownFacets
  <1>11. ShownOK' /\ SearchedOK'
    BY <1>1, <1>3 DEF ShownOK, SearchedOK
  <1>12. Followup!InsufficiencyIsExplained'
    <2>1. assessment' = {b}
      BY <1>2 DEF b
    <2>2. b.status = "insufficient" => b.gaps
      BY <1>8 DEF Followup!PerspectiveCheck
    <2>3. Counter \in Followup!UnknownFacets(b) => b.status = "insufficient"
      BY <1>5, <1>7
    <2> QED
      BY <2>1, <2>2, <2>3
         DEF Followup!InsufficiencyIsExplained, Followup!Returned, Followup!UnknownFacets
  <1> QED
    BY <1>3, <1>9, <1>10, <1>11, <1>12 DEF FollowupInv

LEMMA FollowupStep ==
  ASSUME FollowupInv, [Followup!Next]_(Followup!vars)
  PROVE  FollowupInv'
  <1>1. CASE UNCHANGED Followup!vars
    BY <1>1 DEF Followup!vars, FollowupInv, Followup!TypeOK, ShownOK, SearchedOK, CheckedOK,
                PreservedFrom, Followup!PerspectiveCheck, Followup!Cited,
                Followup!UnknownFacets, Followup!InsufficiencyIsExplained, Followup!Returned
  <1>2. CASE Followup!Next
    <2>1. phase # "ended"
      BY <1>2 DEF Followup!Next, Followup!Collect, Followup!RewriteFeedback,
                  Followup!SearchFeedback, Followup!ReassessFeedback, Followup!Search,
                  Followup!Assess, Followup!RewriteMissing, Followup!SearchMissing,
                  Followup!ReassessMissing, Followup!Balance
    <2>2. outcome = "none"
      BY <2>1 DEF FollowupInv
    <2>3. CASE Followup!SearchFeedback \/ Followup!Search \/ Followup!SearchMissing
      BY <2>2, <2>3, SearchIntoInv
         DEF Followup!SearchFeedback, Followup!Search, Followup!SearchMissing
    <2> QED
      BY <1>2, <2>2, <2>3, CollectInv, RewriteInv, ReassessInv, AssessInv, BalanceInv
         DEF Followup!Next
  <1> QED
    BY <1>1, <1>2

LEMMA FollowupInit ==
  ASSUME Followup!Init
  PROVE  FollowupInv
  <1>1. /\ previous \subseteq Followup!AssessmentsCiting(Followup!Chunk)
        /\ \A p, q \in previous : p = q
    BY DEF Followup!Init, Followup!Previous
  <1>2. Followup!TypeOK
    BY <1>1 DEF Followup!Init, Followup!TypeOK
  <1>3. ShownOK /\ SearchedOK /\ CheckedOK
    BY <1>1 DEF Followup!Init, ShownOK, SearchedOK, CheckedOK
  <1> QED
    BY <1>2, <1>3 DEF Followup!Init, FollowupInv, Followup!InsufficiencyIsExplained,
                      Followup!Returned

LEMMA FollowupInvSuffices ==
  ASSUME FollowupInv
  PROVE  Followup!FollowupIsSound
  <1>1. /\ Followup!TypeOK /\ ShownOK /\ CheckedOK /\ Followup!InsufficiencyIsExplained
    BY DEF FollowupInv
  <1>2. Followup!OthersArePreserved /\ Followup!UnknownWasSearchedAgain
    BY <1>1 DEF CheckedOK, PreservedFrom, Followup!OthersArePreserved, Followup!Returned,
                Followup!UnknownWasSearchedAgain
  <1>3. Followup!EvidenceIsCurrent
    BY <1>1 DEF CheckedOK, ShownOK, Followup!EvidenceIsCurrent, Followup!Returned,
                Followup!PerspectiveCheck
  <1> QED
    BY <1>1, <1>2, <1>3 DEF Followup!FollowupIsSound

-------------------------------------------------------------------------------
(* The retrieval experiment. *)

Scoring == {"run", "encode", "score"}

Results == [state : {Experiment!None, Experiment!Torn, "whole"}, harm : BOOLEAN,
            complete : Nat, conditions : Nat, frozen : BOOLEAN]

(* A result is absent, torn, or what was measured over chunks and vectors  *)
(* that are still there, and frozen if the chunks are as they were.        *)
ResultOK(c, s) ==
    \/ result[c][s] = Experiment!NoResult
    \/ result[c][s] = Experiment!TornResult
    \/ /\ result[c][s].state = "whole"
       /\ \E o \in Outcome[c] : /\ result[c][s].harm = o.harm
                                /\ result[c][s].complete = o.complete
                                /\ result[c][s].conditions = o.conditions
       /\ vectors[c] = "whole" /\ chunks[c] # Experiment!None
       /\ s = "selection" /\ chunks[c] = "whole" => result[c][s].frozen

AllMeasured ==
    \A c \in Experiment!Config :
        Experiment!Measured(c).state = "whole" /\ Experiment!Measured(c).frozen

(* Who is compared during the holdout. *)
Compared == {Baseline, selection}

Opened == selection \in Experiment!Config /\ lock = "whole"

HoldoutWhole == \A c \in Compared : result[c]["holdout"].state = "whole"

(* The files say how far the experiment has come. *)
FilesOK ==
    /\ protocol = "edited" => inputs = "edited"
    /\ result \in [Experiment!Config -> [Experiment!Split -> Results]]
    /\ \A c \in Experiment!Config, s \in Experiment!Split : ResultOK(c, s)
    /\ manifest # Experiment!None => \A c \in Experiment!Config : chunks[c] # Experiment!None
    /\ selection \in Experiment!Config => AllMeasured /\ selection \in Experiment!Eligible
    /\ lock # Experiment!None => selection \in Experiment!Config
    /\ decision # Experiment!None =>
           /\ Opened /\ HoldoutWhole
           /\ decision \in Experiment!Config \ {Baseline} =>
                  decision = selection /\ Experiment!Passes
    /\ Experiment!HoldoutIsBlind

(* A command at work has what it checked when it began. *)
BeforeChoiceOK ==
    pc = "select" =>
        lock = Experiment!None /\ selection = Experiment!None /\ AllMeasured

ScoringOK ==
    pc \in Scoring =>
        /\ \A c \in Experiment!Config : chunks[c] # Experiment!None
        /\ split = "selection" => lock = Experiment!None
        /\ split = "holdout" => Opened /\ todo \subseteq Compared

ItemOK ==
    pc \in {"encode", "score"} =>
        /\ item \in todo /\ result[item][split] = Experiment!NoResult
        /\ pc = "encode" => split = "selection"
        /\ pc = "score" => vectors[item] = "whole"

(* A validation has opened the holdout, and comes to a decision when both  *)
(* are scored.                                                             *)
ValidationOK ==
    /\ pc \in {"lock", "decide"} => command = "validate"
    /\ pc \in Scoring \cup {"child"} => command \in {"run", "validate"}
    /\ command = "validate" /\ pc \in Scoring \cup {"child", "lock", "decide"} =>
           /\ decision = Experiment!None /\ selection \in Experiment!Config
           /\ lock = IF pc = "lock" THEN Experiment!None ELSE "whole"
           /\ \A c \in Compared :
                 \/ pc # "decide" /\ ModelOf[c] \in models
                 \/ pc \in Scoring /\ c \in todo
                 \/ result[c]["holdout"].state = "whole"

ExperimentInv ==
    /\ Experiment!TypeOK
    /\ FilesOK
    /\ BeforeChoiceOK /\ ScoringOK /\ ItemOK /\ ValidationOK
    /\ Experiment!DiedIsResumed

LEMMA ExperimentConstants ==
  /\ Operational \subseteq Experiment!Config /\ Baseline \in Experiment!Config
  /\ Experiment!None \notin Experiment!Config /\ Experiment!Torn \notin Experiment!Config
  /\ ModelOf \in [Experiment!Config -> Model] /\ Reference = ModelOf[Baseline]
  /\ Outcome \in [Experiment!Config -> SUBSET [harm : BOOLEAN, complete : Nat, conditions : Nat]]
  /\ MaxCommands \in Nat
  BY ExperimentAssumption
     DEF Experiment!ExperimentAssumption, Experiment!None, Experiment!Torn

(* The two results that say nothing. *)
LEMMA EmptyResults ==
  /\ Experiment!NoResult \in Results /\ Experiment!NoResult.state = "none"
  /\ Experiment!TornResult \in Results /\ Experiment!TornResult.state = "torn"
  BY DEF Results, Experiment!NoResult, Experiment!TornResult, Experiment!None, Experiment!Torn

LEMMA MeasuredFields ==
  ASSUME NEW c \in Experiment!Config, NEW o \in Outcome[c], NEW r,
         r.harm = o.harm, r.complete = o.complete, r.conditions = o.conditions
  PROVE  \A k \in DOMAIN o : r[k] = o[k]
  <1>1. o \in [harm : BOOLEAN, complete : Nat, conditions : Nat]
    BY ExperimentConstants
  <1>2. DOMAIN o = {"harm", "complete", "conditions"}
    BY <1>1
  <1> QED
    BY <1>2

(* Results of sound files have their type. *)
LEMMA ResultsTyped ==
  ASSUME FilesOK'
  PROVE  \A c \in Experiment!Config, s \in Experiment!Split :
            \/ result'[c][s] \in {Experiment!NoResult, Experiment!TornResult}
            \/ \E o \in Outcome[c] : \A k \in DOMAIN o : result'[c][s][k] = o[k]
  BY MeasuredFields DEF FilesOK, ResultOK

(* Steps that leave every file as it is. *)
LEMMA FilesKept ==
  ASSUME ExperimentInv, UNCHANGED <<inputs, Experiment!files>>
  PROVE  FilesOK' /\ Experiment!KeepsChoice
  <1>1. /\ inputs' = inputs /\ protocol' = protocol /\ manifest' = manifest
        /\ chunks' = chunks /\ vectors' = vectors /\ result' = result
        /\ selection' = selection /\ lock' = lock /\ decision' = decision
    BY DEF Experiment!files
  <1>2. FilesOK'
    BY <1>1 DEF ExperimentInv, FilesOK, ResultOK, AllMeasured, Opened, HoldoutWhole, Compared,
                Experiment!Eligible, Experiment!EligibleModels, Experiment!Measured,
                Experiment!Passes, Experiment!HoldoutIsBlind
  <1> QED
    BY <1>1, <1>2 DEF Experiment!KeepsChoice, Experiment!Measured

(* Where no command is at work on results or on the choice. *)
LEMMA RestsSoundly ==
  ASSUME Experiment!TypeOK', FilesOK', pc' \in {"idle", "freeze", "prepare"}
  PROVE  ExperimentInv'
  BY DEF ExperimentInv, BeforeChoiceOK, ScoringOK, Scoring, ItemOK, ValidationOK,
         Experiment!DiedIsResumed

LEMMA FilesTypeKept ==
  ASSUME Experiment!TypeOK, UNCHANGED <<inputs, Experiment!files>>, FilesOK',
         pc' \in {"idle", "failed", "freeze", "prepare", "child", "run", "encode", "score",
                  "select", "lock", "decide"},
         command' \in {Experiment!None, "freeze", "prepare", "run", "select", "validate"},
         split' \in Experiment!Split, command' = "validate" => split' = "holdout",
         models' \subseteq Model, todo' \subseteq Experiment!Config,
         item' \in Experiment!Config, commands' \in 0 .. MaxCommands
  PROVE  Experiment!TypeOK'
  <1>1. /\ inputs' = inputs /\ protocol' = protocol /\ manifest' = manifest
        /\ chunks' = chunks /\ vectors' = vectors
        /\ selection' = selection /\ lock' = lock /\ decision' = decision
    BY DEF Experiment!files
  <1> QED
    BY <1>1, ResultsTyped DEF Experiment!TypeOK

(* The commands that begin, and what each has checked. *)
LEMMA BeginExperiment ==
  ASSUME ExperimentInv, Experiment!Freeze \/ Experiment!Prepare
  PROVE  ExperimentInv' /\ Experiment!KeepsChoice
  <1>1. /\ pc' \in {"freeze", "prepare"} /\ command' \in {"freeze", "prepare"}
        /\ commands < MaxCommands /\ commands' = commands + 1
        /\ UNCHANGED <<inputs, Experiment!files, split, models, todo, item>>
    BY DEF Experiment!Freeze, Experiment!Prepare, Experiment!Begins
  <1>2. FilesOK' /\ Experiment!KeepsChoice
    BY <1>1, FilesKept
  <1>3. commands' \in 0 .. MaxCommands
    BY <1>1, ExperimentConstants DEF ExperimentInv, Experiment!TypeOK
  <1>4. Experiment!TypeOK'
    BY <1>1, <1>2, <1>3, FilesTypeKept DEF ExperimentInv, Experiment!TypeOK
  <1> QED
    BY <1>1, <1>2, <1>4, RestsSoundly

LEMMA RunExperiment ==
  ASSUME ExperimentInv, Experiment!Run
  PROVE  ExperimentInv' /\ Experiment!KeepsChoice
  <1>1. /\ pc' = "child" /\ command' = "run"
        /\ commands < MaxCommands /\ commands' = commands + 1
        /\ UNCHANGED <<inputs, Experiment!files, todo, item>>
        /\ split' \in Experiment!Split /\ models' \subseteq Model
    BY DEF Experiment!Run, Experiment!Begins, Experiment!Split
  <1>2. FilesOK' /\ Experiment!KeepsChoice
    BY <1>1, FilesKept
  <1>3. commands' \in 0 .. MaxCommands
    BY <1>1, ExperimentConstants DEF ExperimentInv, Experiment!TypeOK
  <1>4. Experiment!TypeOK'
    BY <1>1, <1>2, <1>3, FilesTypeKept DEF ExperimentInv, Experiment!TypeOK
  <1> QED
    BY <1>1, <1>2, <1>4 DEF ExperimentInv, BeforeChoiceOK, ScoringOK, Scoring, ItemOK,
                            ValidationOK, Experiment!DiedIsResumed

LEMMA SelectExperiment ==
  ASSUME ExperimentInv, Experiment!Select
  PROVE  ExperimentInv' /\ Experiment!KeepsChoice
  <1>1. /\ pc' = "select" /\ command' = "select"
        /\ commands < MaxCommands /\ commands' = commands + 1
        /\ UNCHANGED <<inputs, Experiment!files, split, models, todo, item>>
        /\ Experiment!ManifestHolds /\ lock = Experiment!None /\ selection = Experiment!None
        /\ \A c \in Experiment!Config : Experiment!Measured(c).state = "whole"
    BY DEF Experiment!Select, Experiment!Begins
  <1>2. FilesOK' /\ Experiment!KeepsChoice
    BY <1>1, FilesKept
  <1>3. commands' \in 0 .. MaxCommands
    BY <1>1, ExperimentConstants DEF ExperimentInv, Experiment!TypeOK
  <1>4. Experiment!TypeOK'
    BY <1>1, <1>2, <1>3, FilesTypeKept DEF ExperimentInv, Experiment!TypeOK
  <1>5. BeforeChoiceOK'
    <2>1. ASSUME NEW c \in Experiment!Config
          PROVE  Experiment!Measured(c).frozen
      <3>1. ResultOK(c, "selection") /\ chunks[c] = "whole"
        BY <1>1 DEF ExperimentInv, FilesOK, Experiment!Split, Experiment!ManifestHolds
      <3> QED
        BY <1>1, <3>1, EmptyResults DEF ResultOK, Experiment!Measured
    <2>2. lock' = lock /\ selection' = selection /\ result' = result
      BY <1>1 DEF Experiment!files
    <2> QED
      BY <1>1, <2>1, <2>2 DEF BeforeChoiceOK, AllMeasured, Experiment!Measured
  <1> QED
    BY <1>1, <1>2, <1>4, <1>5 DEF ExperimentInv, ScoringOK, Scoring, ItemOK,
                            ValidationOK, Experiment!DiedIsResumed

LEMMA ValidateExperiment ==
  ASSUME ExperimentInv, Experiment!Validate
  PROVE  ExperimentInv' /\ Experiment!KeepsChoice
  <1>1. /\ pc' = IF Experiment!LoadsInputs /\ Experiment!ManifestHolds
                     /\ decision = Experiment!None /\ lock # Experiment!Torn
                 THEN IF lock = "whole" THEN "child" ELSE "lock"
                 ELSE "failed"
        /\ command' = "validate" /\ selection \in Experiment!Config
        /\ commands < MaxCommands /\ commands' = commands + 1
        /\ split' = "holdout" /\ models' = {ModelOf[Baseline], ModelOf[selection]}
        /\ UNCHANGED <<inputs, Experiment!files, todo, item>>
    BY DEF Experiment!Validate, Experiment!Begins
  <1>2. FilesOK' /\ Experiment!KeepsChoice
    BY <1>1, FilesKept
  <1>3. commands' \in 0 .. MaxCommands
    BY <1>1, ExperimentConstants DEF ExperimentInv, Experiment!TypeOK
  <1>4. models' \subseteq Model
    BY <1>1, ExperimentConstants
  <1>5. pc' \in {"child", "lock", "failed"} /\ split' \in Experiment!Split
    BY <1>1 DEF Experiment!Split
  <1>6. Experiment!TypeOK'
    BY <1>1, <1>2, <1>3, <1>4, <1>5, FilesTypeKept DEF ExperimentInv, Experiment!TypeOK
  <1>7. /\ protocol' = protocol /\ manifest' = manifest /\ chunks' = chunks /\ result' = result
        /\ selection' = selection /\ lock' = lock /\ decision' = decision /\ inputs' = inputs
    BY <1>1 DEF Experiment!files
  <1>8. Experiment!DiedIsResumed'
    BY <1>1, <1>7 DEF Experiment!DiedIsResumed, Experiment!TornJson, Experiment!LoadsInputs,
                      Experiment!ManifestHolds
  <1>9. ValidationOK'
    <2>1. lock \in {Experiment!None, Experiment!Torn, "whole"}
      BY DEF ExperimentInv, Experiment!TypeOK
    <2>2. \A c \in Compared : ModelOf[c] \in models'
      BY <1>1 DEF Compared
    <2> QED
      BY <1>1, <1>5, <1>7, <2>1, <2>2 DEF ValidationOK, Scoring, Compared
  <1> QED
    BY <1>2, <1>5, <1>6, <1>8, <1>9 DEF ExperimentInv, BeforeChoiceOK, ScoringOK, Scoring, ItemOK

(* Of the models to be run one is taken, if everything still holds. *)
LEMMA ChildExperiment ==
  ASSUME ExperimentInv, Experiment!StartChild
  PROVE  ExperimentInv' /\ Experiment!KeepsChoice
  <1>1. PICK m \in models :
           IF Experiment!MayRun
           THEN /\ pc' = "run" /\ models' = models \ {m} /\ todo' = Experiment!Scored(m)
           ELSE pc' = "failed" /\ UNCHANGED <<models, todo>>
    BY DEF Experiment!StartChild, Experiment!Fails
  <1>2. /\ pc = "child"
        /\ UNCHANGED <<inputs, Experiment!files, split, item, command, commands>>
    BY DEF Experiment!StartChild, Experiment!Fails
  <1>3. FilesOK' /\ Experiment!KeepsChoice
    BY <1>2, FilesKept
  <1>4. /\ protocol' = protocol /\ manifest' = manifest /\ chunks' = chunks /\ result' = result
        /\ selection' = selection /\ lock' = lock /\ decision' = decision /\ inputs' = inputs
    BY <1>2 DEF Experiment!files
  <1>5. /\ command \in {"run", "validate"} /\ split \in Experiment!Split
        /\ command = "validate" =>
               /\ decision = Experiment!None /\ Opened /\ split = "holdout"
               /\ \A c \in Compared : ModelOf[c] \in models \/ result[c]["holdout"].state = "whole"
    BY <1>2 DEF ExperimentInv, Experiment!TypeOK, ValidationOK, Scoring, Opened
  <1>6. pc' \in {"run", "failed"} /\ models' \subseteq models
        /\ todo' \subseteq Experiment!Config
    BY <1>1 DEF ExperimentInv, Experiment!TypeOK, Experiment!Scored
  <1>7. Experiment!TypeOK'
    BY <1>2, <1>3, <1>6, FilesTypeKept DEF ExperimentInv, Experiment!TypeOK
  <1>8. CASE Experiment!MayRun
    <2>1. pc' = "run" /\ models' = models \ {m} /\ todo' = Experiment!Scored(m)
      BY <1>1, <1>8
    <2>2. ScoringOK'
      <3>1. \A c \in Experiment!Config : chunks[c] = "whole"
        BY <1>8 DEF Experiment!MayRun, Experiment!ManifestHolds
      <3>2. /\ split = "selection" => lock = Experiment!None
            /\ split = "holdout" => Opened /\ todo' \subseteq Compared
        BY <1>8, <2>1 DEF Experiment!MayRun, Opened, Compared, Experiment!Scored
      <3> QED
        BY <1>2, <1>4, <3>1, <3>2 DEF ScoringOK, Opened, Compared, Experiment!None
    <2>3. ValidationOK'
      <3>1. ASSUME command = "validate", NEW c \in Compared
            PROVE  \/ ModelOf[c] \in models'
                   \/ c \in todo'
                   \/ result[c]["holdout"].state = "whole"
        <4>1. c \in Experiment!Config
          BY <1>5, <3>1, ExperimentConstants DEF Compared, Opened
        <4> QED
          BY <1>5, <2>1, <3>1, <4>1 DEF Experiment!Scored, Compared
      <3> QED
        BY <1>2, <1>4, <1>5, <2>1, <3>1 DEF ValidationOK, Scoring, Opened, Compared
    <2> QED
      BY <1>3, <1>7, <2>1, <2>2, <2>3
         DEF ExperimentInv, BeforeChoiceOK, ItemOK, Experiment!DiedIsResumed
  <1>9. CASE ~Experiment!MayRun
    <2>1. pc' = "failed"
      BY <1>1, <1>9
    <2>2. ~Experiment!MayRun'
      BY <1>2, <1>4, <1>9 DEF Experiment!MayRun, Experiment!LoadsInputs, Experiment!ManifestHolds
    <2>3. Experiment!DiedIsResumed'
      <3>1. Experiment!LoadsInputs /\ Experiment!ManifestHolds => command = "run"
        BY <1>5, <1>9 DEF Experiment!MayRun, Opened
      <3> QED
        BY <1>2, <1>4, <2>2, <3>1
           DEF Experiment!DiedIsResumed, Experiment!LoadsInputs, Experiment!ManifestHolds
    <2> QED
      BY <1>3, <1>7, <2>1, <2>3
         DEF ExperimentInv, BeforeChoiceOK, ScoringOK, Scoring, ItemOK, ValidationOK
  <1> QED
    BY <1>8, <1>9

LEMMA EndChildExperiment ==
  ASSUME ExperimentInv, Experiment!EndChild
  PROVE  ExperimentInv' /\ Experiment!KeepsChoice
  <1>1. /\ pc = "run" /\ todo = {}
        /\ pc' = (IF models # {} THEN "child" ELSE IF command = "validate" THEN "decide" ELSE "idle")
        /\ command' = (IF pc' = "idle" THEN Experiment!None ELSE command)
        /\ UNCHANGED <<inputs, Experiment!files, split, models, todo, item, commands>>
    BY DEF Experiment!EndChild
  <1>2. FilesOK' /\ Experiment!KeepsChoice
    BY <1>1, FilesKept
  <1>3. result' = result /\ selection' = selection /\ lock' = lock /\ decision' = decision
    BY <1>1 DEF Experiment!files
  <1>4. /\ pc' \in {"child", "decide", "idle"} /\ command' \in {command, Experiment!None}
        /\ command' = "validate" => command = "validate"
    BY <1>1 DEF Experiment!None
  <1>5. Experiment!TypeOK'
    BY <1>1, <1>2, <1>4, FilesTypeKept DEF ExperimentInv, Experiment!TypeOK
  <1>6. ValidationOK'
    <2>1. command \in {"run", "validate"}
      BY <1>1 DEF ExperimentInv, ValidationOK, Scoring
    <2>2. command = "validate" =>
             /\ decision = Experiment!None /\ Opened
             /\ \A c \in Compared : ModelOf[c] \in models \/ result[c]["holdout"].state = "whole"
      BY <1>1 DEF ExperimentInv, ValidationOK, Scoring, Opened
    <2> QED
      BY <1>1, <1>3, <1>4, <2>1, <2>2 DEF ValidationOK, Scoring, Opened, Compared
  <1> QED
    BY <1>2, <1>4, <1>5, <1>6
       DEF ExperimentInv, BeforeChoiceOK, ScoringOK, Scoring, ItemOK, Experiment!DiedIsResumed

(* What was scored before is not scored again; what fails had been torn. *)
LEMMA MeasureExperiment ==
  ASSUME ExperimentInv, Experiment!Measure
  PROVE  ExperimentInv' /\ Experiment!KeepsChoice
  <1>1. PICK c \in Experiment!Config : c \in todo /\ Experiment!Take(c)
    BY DEF Experiment!Measure, Experiment!FirstOf
  <1>2. pc = "run" /\ UNCHANGED <<inputs, Experiment!files, split, models, commands>>
    BY DEF Experiment!Measure
  <1>3. FilesOK' /\ Experiment!KeepsChoice
    BY <1>2, FilesKept
  <1>4. /\ protocol' = protocol /\ manifest' = manifest /\ chunks' = chunks /\ result' = result
        /\ selection' = selection /\ lock' = lock /\ decision' = decision /\ vectors' = vectors
    BY <1>2 DEF Experiment!files
  <1>5. /\ ScoringOK /\ ValidationOK /\ FilesOK /\ split \in Experiment!Split
        /\ ResultOK(c, split) /\ ResultOK(c, "selection") /\ command' = command
    BY <1>1 DEF ExperimentInv, FilesOK, Experiment!TypeOK, Experiment!Split, Experiment!Take,
                Experiment!Fails
  <1>6. command \in {"run", "validate"}
    BY <1>2, <1>5 DEF ValidationOK, Scoring
  <1>7. \/ /\ pc' = "run" /\ todo' = todo \ {c} /\ item' = item
           /\ result[c][split].state = "whole"
        \/ /\ pc' = "encode" /\ todo' = todo /\ item' = c /\ split = "selection"
           /\ result[c][split].state = Experiment!None
        \/ /\ pc' = "score" /\ todo' = todo /\ item' = c /\ vectors[c] = "whole"
           /\ result[c][split].state = Experiment!None
        \/ /\ pc' = "failed" /\ todo' = todo /\ item' = item
           /\ result[c][split] = Experiment!TornResult
    <2>1. CASE result[c][split].state # Experiment!None
      <3>1. result[c][split] # Experiment!NoResult
        BY <2>1, EmptyResults DEF Experiment!None
      <3>2. result[c][split].state = "whole" => vectors[c] = "whole"
        BY <1>5, <3>1, EmptyResults DEF ResultOK
      <3>3. result[c][split].state # "whole" => result[c][split] = Experiment!TornResult
        BY <1>5, <3>1 DEF ResultOK
      <3> QED
        BY <1>1, <1>2, <2>1, <3>2, <3>3 DEF Experiment!Take, Experiment!Fails
    <2>2. CASE result[c][split].state = Experiment!None
      <3>1. CASE split = "selection"
        BY <1>1, <2>2, <3>1 DEF Experiment!Take
      <3>2. CASE split = "holdout"
        <4>1. result[c]["selection"].state = "whole"
          BY <1>2, <1>5, <3>2
             DEF ScoringOK, Scoring, Opened, FilesOK, AllMeasured, Experiment!Measured
        <4>2. vectors[c] = "whole"
          BY <1>5, <4>1, EmptyResults DEF ResultOK
        <4> QED
          BY <1>1, <2>2, <3>2, <4>1, <4>2 DEF Experiment!Take
      <3> QED
        BY <1>5, <3>1, <3>2 DEF Experiment!Split
    <2> QED
      BY <2>1, <2>2
  <1>8. pc' \in Scoring \cup {"failed"} /\ todo' \subseteq todo /\ item' \in Experiment!Config
    BY <1>7 DEF Scoring, ExperimentInv, Experiment!TypeOK
  <1>9. Experiment!TypeOK'
    BY <1>2, <1>3, <1>5, <1>8, FilesTypeKept DEF ExperimentInv, Experiment!TypeOK, Scoring
  <1>10. ScoringOK'
    BY <1>2, <1>4, <1>5, <1>8 DEF ScoringOK, Scoring, Opened, Compared
  <1>11. ItemOK'
    <2>1. result[c][split].state = Experiment!None => result[c][split] = Experiment!NoResult
      BY <1>5, EmptyResults DEF ResultOK, Experiment!None
    <2> QED
      BY <1>1, <1>2, <1>4, <1>7, <2>1 DEF ItemOK
  <1>12. ValidationOK'
    <2>1. ASSUME command = "validate", pc' \in Scoring
          PROVE  /\ decision = Experiment!None /\ Opened
                 /\ \A d \in Compared : \/ ModelOf[d] \in models
                                        \/ d \in todo'
                                        \/ result[d]["holdout"].state = "whole"
      <3>1. split = "holdout"
        BY <2>1 DEF ExperimentInv, Experiment!TypeOK
      <3>2. \A d \in todo : d \in todo' \/ result[d]["holdout"].state = "whole"
        BY <1>7, <2>1, <3>1 DEF Scoring
      <3> QED
        BY <1>2, <1>5, <2>1, <3>2 DEF ValidationOK, Scoring, Opened
    <2>2. pc' \notin {"child", "lock", "decide"}
      BY <1>8 DEF Scoring
    <2> QED
      BY <1>2, <1>4, <1>5, <1>6, <1>8, <2>1, <2>2 DEF ValidationOK, Scoring, Compared, Opened
  <1>13. Experiment!DiedIsResumed'
    <2>1. pc' = "failed" => Experiment!TornJson'
      BY <1>4, <1>5, <1>7 DEF Experiment!TornJson
    <2> QED
      BY <2>1 DEF Experiment!DiedIsResumed
  <1> QED
    BY <1>3, <1>8, <1>9, <1>10, <1>11, <1>12, <1>13 DEF ExperimentInv, BeforeChoiceOK, Scoring

(* What is edited afterwards is noticed, and never made good again. *)
LEMMA EditExperiment ==
  ASSUME ExperimentInv, Experiment!Edit
  PROVE  ExperimentInv' /\ Experiment!KeepsChoice
  <1>1. /\ UNCHANGED <<protocol, manifest, vectors, result, selection, lock, decision, pc,
                       command, split, models, todo, item, commands>>
        /\ \/ inputs = "first" /\ inputs' = "edited" /\ chunks' = chunks
           \/ /\ inputs' = inputs
              /\ \E c \in Experiment!Config :
                    chunks[c] = "whole" /\ chunks' = [chunks EXCEPT ![c] = "edited"]
    BY DEF Experiment!Edit
  <1>2. Experiment!TypeOK /\ FilesOK
    BY DEF ExperimentInv
  <1>3. /\ chunks' \in [Experiment!Config ->
                          {Experiment!None, Experiment!Torn, "whole", "edited"}]
        /\ \A c \in Experiment!Config :
              /\ chunks[c] # Experiment!None => chunks'[c] # Experiment!None
              /\ chunks[c] # Experiment!Torn => chunks'[c] # Experiment!Torn
              /\ chunks[c] = Experiment!Torn => chunks'[c] = Experiment!Torn
              /\ chunks'[c] = "whole" => chunks[c] = "whole"
    BY <1>1, <1>2 DEF Experiment!TypeOK, Experiment!None, Experiment!Torn
  <1>4. inputs' = "edited" \/ inputs' = inputs
    BY <1>1
  <1>5. FilesOK'
    <2>1. protocol' = "edited" => inputs' = "edited"
      BY <1>1, <1>2 DEF FilesOK
    <2>2. \A c \in Experiment!Config, s \in Experiment!Split : ResultOK(c, s)'
      BY <1>1, <1>2, <1>3 DEF FilesOK, ResultOK
    <2>3. manifest' # Experiment!None => \A c \in Experiment!Config : chunks'[c] # Experiment!None
      BY <1>1, <1>2, <1>3 DEF FilesOK
    <2> QED
      BY <1>1, <1>2, <2>1, <2>2, <2>3
         DEF FilesOK, AllMeasured, Opened, HoldoutWhole, Compared, Experiment!Eligible,
             Experiment!EligibleModels, Experiment!Measured, Experiment!Passes,
             Experiment!HoldoutIsBlind
  <1>6. Experiment!TypeOK'
    BY <1>1, <1>2, <1>3, <1>4, <1>5, ResultsTyped DEF Experiment!TypeOK
  <1>7. BeforeChoiceOK' /\ ScoringOK' /\ ItemOK' /\ ValidationOK'
    BY <1>1, <1>3 DEF ExperimentInv, BeforeChoiceOK, ScoringOK, ItemOK, ValidationOK,
                      AllMeasured, Opened, Compared, Experiment!Measured
  <1>8. Experiment!DiedIsResumed'
    <2>1. Experiment!LoadsInputs' /\ Experiment!ManifestHolds' =>
             Experiment!LoadsInputs /\ Experiment!ManifestHolds
      BY <1>1, <1>2, <1>3 DEF FilesOK, Experiment!LoadsInputs, Experiment!ManifestHolds
    <2>2. Experiment!TornJson <=> Experiment!TornJson'
      BY <1>1, <1>3 DEF Experiment!TornJson
    <2>3. Experiment!MayRun' => Experiment!MayRun
      BY <1>1, <2>1 DEF Experiment!MayRun
    <2> QED
      BY <1>1, <2>1, <2>2, <2>3 DEF ExperimentInv, Experiment!DiedIsResumed
  <1> QED
    BY <1>1, <1>5, <1>6, <1>7, <1>8
       DEF ExperimentInv, Experiment!KeepsChoice, Experiment!Measured

(* Freezing and chunking: at most an absent chunk file comes to be there.  *)
LEMMA PreparesFiles ==
  ASSUME ExperimentInv, pc' \in {"idle", "freeze", "prepare"},
         command' \in {command, Experiment!None},
         protocol' \in {protocol, inputs, Experiment!Torn},
         manifest' \in {manifest, "whole", Experiment!Torn},
         manifest' # manifest => \A c \in Experiment!Config : chunks[c] # Experiment!None,
         chunks' \in [Experiment!Config ->
                        {Experiment!None, Experiment!Torn, "whole", "edited"}],
         \A c \in Experiment!Config : chunks[c] # Experiment!None => chunks'[c] = chunks[c],
         UNCHANGED <<inputs, vectors, result, selection, lock, decision, split, models, todo, item,
                     commands>>
  PROVE  ExperimentInv' /\ Experiment!KeepsChoice
  <1>1. Experiment!TypeOK /\ FilesOK
    BY DEF ExperimentInv
  <1>3. protocol' = "edited" => inputs' = "edited"
    BY <1>1 DEF FilesOK, Experiment!Torn
  <1>4. \A c \in Experiment!Config, s \in Experiment!Split : ResultOK(c, s)'
    BY <1>1 DEF FilesOK, ResultOK
  <1>5. manifest' # Experiment!None => \A c \in Experiment!Config : chunks'[c] # Experiment!None
    BY <1>1 DEF FilesOK
  <1>6. FilesOK'
    BY <1>1, <1>3, <1>4, <1>5
       DEF FilesOK, AllMeasured, Opened, HoldoutWhole, Compared, Experiment!Eligible,
           Experiment!EligibleModels, Experiment!Measured, Experiment!Passes,
           Experiment!HoldoutIsBlind
  <1>7. Experiment!TypeOK'
    <2>1. /\ protocol' \in {Experiment!None, Experiment!Torn, "first", "edited"}
          /\ manifest' \in {Experiment!None, Experiment!Torn, "whole"}
          /\ command' \in {Experiment!None, "freeze", "prepare", "run", "select", "validate"}
          /\ command' = "validate" => command = "validate"
      BY <1>1 DEF Experiment!TypeOK, Experiment!None
    <2> QED
      BY <1>1, <1>6, <2>1, ResultsTyped DEF Experiment!TypeOK
  <1> QED
    BY <1>6, <1>7, RestsSoundly DEF Experiment!KeepsChoice, Experiment!Measured

LEMMA FreezeExperiment ==
  ASSUME ExperimentInv,
         Experiment!WriteProtocol \/ Experiment!WriteChunks \/ Experiment!WriteManifest
  PROVE  ExperimentInv' /\ Experiment!KeepsChoice
  <1>1. CASE Experiment!WriteProtocol
    <2>1. /\ pc' = "idle" /\ command' = Experiment!None /\ protocol' = inputs
          /\ UNCHANGED <<inputs, manifest, chunks, vectors, result, selection, lock, decision,
                         split, models, todo, item, commands>>
      BY <1>1 DEF Experiment!WriteProtocol, Experiment!Ends
    <2> QED
      BY <2>1, PreparesFiles DEF ExperimentInv, Experiment!TypeOK
  <1>2. CASE Experiment!WriteChunks
    <2>1. PICK c \in Experiment!Config :
             chunks[c] = Experiment!None /\ chunks' = [chunks EXCEPT ![c] = "whole"]
      BY <1>2 DEF Experiment!WriteChunks, Experiment!FirstOf, Experiment!Unprepared
    <2>2. /\ pc' = "prepare" /\ command' = command
          /\ UNCHANGED <<inputs, protocol, manifest, vectors, result, selection, lock, decision,
                         split, models, todo, item, commands>>
      BY <1>2 DEF Experiment!WriteChunks
    <2>3. /\ chunks' \in [Experiment!Config ->
                            {Experiment!None, Experiment!Torn, "whole", "edited"}]
          /\ \A d \in Experiment!Config : chunks[d] # Experiment!None => chunks'[d] = chunks[d]
      BY <2>1 DEF ExperimentInv, Experiment!TypeOK
    <2> QED
      BY <2>2, <2>3, PreparesFiles
  <1>3. CASE Experiment!WriteManifest
    BY <1>3, PreparesFiles
       DEF Experiment!WriteManifest, Experiment!Ends, Experiment!Unprepared, ExperimentInv,
           Experiment!TypeOK
  <1> QED
    BY <1>1, <1>2, <1>3

(* Vectors are written before anything was measured with them.             *)
LEMMA VectorsWritten ==
  ASSUME ExperimentInv, pc = "encode", NEW v \in {"whole", Experiment!Torn},
         vectors' = [vectors EXCEPT ![item] = v],
         UNCHANGED <<inputs, protocol, manifest, chunks, result, selection, lock, decision>>
  PROVE  /\ FilesOK' /\ Experiment!KeepsChoice
         /\ vectors' \in [Experiment!Config -> {Experiment!None, Experiment!Torn, "whole"}]
  <1>1. Experiment!TypeOK /\ FilesOK /\ ItemOK /\ ScoringOK
    BY DEF ExperimentInv
  <1>2. \A s \in Experiment!Split : result[item][s] = Experiment!NoResult
    <2>1. result[item]["selection"] = Experiment!NoResult /\ lock = Experiment!None
      BY <1>1 DEF ItemOK, ScoringOK, Scoring
    <2>2. result[item]["holdout"] = Experiment!NoResult
      BY <1>1, <2>1
         DEF FilesOK, Experiment!HoldoutIsBlind, Experiment!TypeOK, Experiment!None
    <2> QED
      BY <2>1, <2>2 DEF Experiment!Split
  <1>3. \A c \in Experiment!Config, s \in Experiment!Split : ResultOK(c, s)'
    <2>1. ASSUME NEW c \in Experiment!Config, NEW s \in Experiment!Split
          PROVE  ResultOK(c, s)'
      <3>1. CASE c = item
        BY <1>2, <2>1, <3>1 DEF ResultOK
      <3>2. CASE c # item
        <4>1. vectors'[c] = vectors[c] /\ ResultOK(c, s)
          BY <1>1, <2>1, <3>2 DEF FilesOK, Experiment!TypeOK
        <4> QED
          BY <4>1 DEF ResultOK
      <3> QED
        BY <3>1, <3>2
    <2> QED
      BY <2>1
  <1>4. FilesOK'
    BY <1>1, <1>3
       DEF FilesOK, AllMeasured, Opened, HoldoutWhole, Compared, Experiment!Eligible,
           Experiment!EligibleModels, Experiment!Measured, Experiment!Passes,
           Experiment!HoldoutIsBlind
  <1>5. vectors' \in [Experiment!Config -> {Experiment!None, Experiment!Torn, "whole"}]
    BY <1>1 DEF Experiment!TypeOK
  <1> QED
    BY <1>4, <1>5 DEF Experiment!KeepsChoice, Experiment!Measured

LEMMA SaveExperiment ==
  ASSUME ExperimentInv, Experiment!SaveVectors
  PROVE  ExperimentInv' /\ Experiment!KeepsChoice
  <1>1. /\ pc = "encode" /\ pc' = "score" /\ vectors' = [vectors EXCEPT ![item] = "whole"]
        /\ UNCHANGED <<inputs, protocol, manifest, chunks, result, selection, lock, decision,
                       command, split, models, todo, item, commands>>
    BY DEF Experiment!SaveVectors
  <1>2. /\ FilesOK' /\ Experiment!KeepsChoice
        /\ vectors' \in [Experiment!Config -> {Experiment!None, Experiment!Torn, "whole"}]
    BY <1>1, VectorsWritten
  <1>3. Experiment!TypeOK /\ ItemOK /\ ScoringOK /\ ValidationOK
    BY DEF ExperimentInv
  <1>4. Experiment!TypeOK'
    BY <1>1, <1>2, <1>3, ResultsTyped DEF Experiment!TypeOK
  <1>5. ItemOK'
    BY <1>1, <1>3 DEF ItemOK, Experiment!TypeOK
  <1>6. ScoringOK' /\ ValidationOK'
    BY <1>1, <1>3 DEF ScoringOK, ValidationOK, Scoring, Opened, Compared
  <1> QED
    BY <1>1, <1>2, <1>4, <1>5, <1>6
       DEF ExperimentInv, BeforeChoiceOK, Experiment!DiedIsResumed

(* A result is written where there was none, before the choice, or after   *)
(* it of one of the two that are compared.                                 *)
LEMMA ResultWritten ==
  ASSUME ExperimentInv, pc = "score", NEW r \in Results,
         result' = [result EXCEPT ![item][split] = r],
         UNCHANGED <<inputs, protocol, manifest, chunks, vectors, selection, lock, decision>>,
         \/ r = Experiment!TornResult
         \/ /\ r.state = "whole" /\ r.frozen = (chunks[item] = "whole")
            /\ \E o \in Outcome[item] : /\ r.harm = o.harm
                                        /\ r.complete = o.complete
                                        /\ r.conditions = o.conditions
  PROVE  FilesOK' /\ Experiment!KeepsChoice /\ result'[item][split] = r
  <1>1. Experiment!TypeOK /\ FilesOK /\ ItemOK /\ ScoringOK
    BY DEF ExperimentInv
  <1>2. /\ result[item][split] = Experiment!NoResult /\ vectors[item] = "whole"
        /\ item \in todo /\ item \in Experiment!Config /\ split \in Experiment!Split
        /\ \A c \in Experiment!Config : chunks[c] # Experiment!None
        /\ split = "selection" => lock = Experiment!None
        /\ split = "holdout" => Opened /\ item \in Compared
    BY <1>1 DEF ItemOK, ScoringOK, Scoring, Experiment!TypeOK
  <1>3. result \in [Experiment!Config -> [Experiment!Split -> Results]]
    BY <1>1 DEF FilesOK
  <1>4. /\ result' \in [Experiment!Config -> [Experiment!Split -> Results]]
        /\ result'[item][split] = r
        /\ \A c \in Experiment!Config, s \in Experiment!Split :
              c # item \/ s # split => result'[c][s] = result[c][s]
    BY <1>2, <1>3
  <1>5. \A c \in Experiment!Config, s \in Experiment!Split : ResultOK(c, s)'
    <2>1. ASSUME NEW c \in Experiment!Config, NEW s \in Experiment!Split
          PROVE  ResultOK(c, s)'
      <3>1. CASE c = item /\ s = split
        BY <1>2, <1>4, <2>1, <3>1 DEF ResultOK
      <3>2. CASE c # item \/ s # split
        <4>1. ResultOK(c, s) /\ result'[c][s] = result[c][s]
          BY <1>1, <1>4, <2>1, <3>2 DEF FilesOK
        <4> QED
          BY <4>1 DEF ResultOK
      <3> QED
        BY <3>1, <3>2
    <2> QED
      BY <2>1
  <1>6. CASE split = "selection"
    <2>1. selection \notin Experiment!Config /\ decision = Experiment!None
      <3>1. result[item]["selection"].state # "whole"
        BY <1>2, <1>6, EmptyResults
      <3>2. selection \notin Experiment!Config
        BY <1>1, <1>2, <3>1 DEF FilesOK, AllMeasured, Experiment!Measured
      <3> QED
        BY <1>1, <3>2 DEF FilesOK, Opened
    <2>2. Experiment!HoldoutIsBlind'
      <3>1. \A c \in Experiment!Config : result'[c]["holdout"] = result[c]["holdout"]
        BY <1>4, <1>6 DEF Experiment!Split
      <3> QED
        BY <1>1, <3>1 DEF FilesOK, Experiment!HoldoutIsBlind
    <2>3. FilesOK'
      BY <1>1, <1>2, <1>4, <1>5, <1>6, <2>1, <2>2 DEF FilesOK
    <2> QED
      BY <1>2, <1>4, <1>6, <2>3 DEF Experiment!KeepsChoice
  <1>7. CASE split = "holdout"
    <2>1. \A c \in Experiment!Config : Experiment!Measured(c)' = Experiment!Measured(c)
      BY <1>4, <1>7 DEF Experiment!Split, Experiment!Measured
    <2>2. decision = Experiment!None
      <3>1. result[item]["holdout"].state # "whole"
        BY <1>2, <1>7, EmptyResults
      <3> QED
        BY <1>1, <1>2, <1>7, <3>1 DEF FilesOK, HoldoutWhole
    <2>3. Experiment!HoldoutIsBlind'
      <3>1. \A c \in Experiment!Config \ {Baseline, selection} :
               result'[c]["holdout"] = result[c]["holdout"]
        BY <1>2, <1>4, <1>7 DEF Experiment!Split, Compared
      <3> QED
        BY <1>1, <1>2, <1>7, <3>1 DEF FilesOK, Experiment!HoldoutIsBlind, Opened
    <2>4. AllMeasured' /\ (selection \in Experiment!Eligible)'
      <3>1. AllMeasured /\ selection \in Experiment!Eligible
        BY <1>1, <1>2, <1>7 DEF FilesOK, Opened
      <3>2. AllMeasured'
        BY <2>1, <3>1 DEF AllMeasured
      <3>3. Experiment!Eligible' = Experiment!Eligible
        BY <2>1, ExperimentConstants DEF Experiment!Eligible, Experiment!EligibleModels
      <3> QED
        BY <3>1, <3>2, <3>3
    <2>5. FilesOK'
      BY <1>1, <1>2, <1>4, <1>5, <2>2, <2>3, <2>4 DEF FilesOK
    <2> QED
      BY <1>4, <2>1, <2>5 DEF Experiment!KeepsChoice
  <1> QED
    BY <1>2, <1>6, <1>7 DEF Experiment!Split

LEMMA ScoreExperiment ==
  ASSUME ExperimentInv, Experiment!WriteResult
  PROVE  ExperimentInv' /\ Experiment!KeepsChoice
  <1>1. PICK o \in Outcome[item] :
           result' = [result EXCEPT ![item][split] =
              [state |-> "whole", harm |-> o.harm, complete |-> o.complete,
               conditions |-> o.conditions, frozen |-> chunks[item] = "whole"]]
    BY DEF Experiment!WriteResult
  <1>2. /\ pc = "score" /\ pc' = "run" /\ todo' = todo \ {item}
        /\ UNCHANGED <<inputs, protocol, manifest, chunks, vectors, selection, lock, decision,
                       command, split, models, item, commands>>
    BY DEF Experiment!WriteResult
  <1>3. Experiment!TypeOK /\ FilesOK /\ ItemOK /\ ScoringOK /\ ValidationOK
    BY DEF ExperimentInv
  <1>4. PICK r : r = [state |-> "whole", harm |-> o.harm, complete |-> o.complete,
                      conditions |-> o.conditions, frozen |-> chunks[item] = "whole"]
    OBVIOUS
  <1>5. r \in Results
    <2>1. o \in [harm : BOOLEAN, complete : Nat, conditions : Nat]
      BY <1>3, ExperimentConstants DEF Experiment!TypeOK
    <2> QED
      BY <1>4, <2>1 DEF Results
  <1>6. /\ r.state = "whole" /\ r.frozen = (chunks[item] = "whole")
        /\ r.harm = o.harm /\ r.complete = o.complete /\ r.conditions = o.conditions
    BY <1>4
  <1>7. result' = [result EXCEPT ![item][split] = r]
    BY <1>1, <1>4
  <1>8. FilesOK' /\ Experiment!KeepsChoice /\ result'[item][split] = r
    BY <1>2, <1>5, <1>6, <1>7, ResultWritten
  <1>9. Experiment!TypeOK'
    BY <1>2, <1>3, <1>8, ResultsTyped DEF Experiment!TypeOK
  <1>10. ScoringOK'
    BY <1>2, <1>3 DEF ScoringOK, Scoring, Opened, Compared
  <1>11. ValidationOK'
    <2>1. ASSUME command = "validate", NEW c \in Compared
          PROVE  \/ ModelOf[c] \in models
                 \/ c \in todo'
                 \/ result'[c]["holdout"].state = "whole"
      <3>1. split = "holdout" /\ item \in Experiment!Config /\ c \in Experiment!Config
        BY <1>2, <1>3, <2>1, ExperimentConstants
           DEF Experiment!TypeOK, Compared, ValidationOK, Scoring
      <3>2. CASE c = item
        BY <1>6, <1>8, <3>1, <3>2
      <3>3. CASE c # item
        <4>1. result'[c] = result[c]
          BY <1>3, <1>7, <3>1, <3>3 DEF FilesOK
        <4> QED
          BY <1>2, <1>3, <2>1, <3>3, <4>1 DEF ValidationOK, Scoring
      <3> QED
        BY <3>2, <3>3
    <2> QED
      BY <1>2, <1>3, <2>1 DEF ValidationOK, Scoring, Compared
  <1> QED
    BY <1>2, <1>8, <1>9, <1>10, <1>11
       DEF ExperimentInv, BeforeChoiceOK, ItemOK, Experiment!DiedIsResumed

(* The choice: made once from what was measured, locked before the holdout *)
(* is opened, and decided when both are scored; any of the files may be    *)
(* torn.                                                                   *)
LEMMA SelectionWritten ==
  ASSUME ExperimentInv, pc = "select",
         selection' \in Experiment!Best \cup {Experiment!Torn},
         UNCHANGED <<inputs, protocol, manifest, chunks, vectors, result, lock, decision>>
  PROVE  /\ FilesOK' /\ Experiment!KeepsChoice
         /\ selection' \in Experiment!Config \cup {Experiment!None, Experiment!Torn}
  <1>1. FilesOK /\ lock = Experiment!None /\ selection = Experiment!None /\ AllMeasured
    BY DEF ExperimentInv, BeforeChoiceOK
  <1>2. selection' \in Experiment!Config => selection' \in Experiment!Eligible
    BY ExperimentConstants DEF Experiment!Best
  <1>3. \A c \in Experiment!Config : result[c]["holdout"] = Experiment!NoResult
    BY <1>1, ExperimentConstants DEF FilesOK, Experiment!HoldoutIsBlind
  <1>4. decision = Experiment!None
    BY <1>1, ExperimentConstants DEF FilesOK, Opened
  <1>5. \A c \in Experiment!Config, s \in Experiment!Split : ResultOK(c, s)'
    BY <1>1 DEF FilesOK, ResultOK
  <1>6. AllMeasured' /\ Experiment!HoldoutIsBlind' /\ Experiment!Eligible' = Experiment!Eligible
    BY <1>1, <1>3 DEF AllMeasured, Experiment!HoldoutIsBlind, Experiment!Eligible,
                      Experiment!EligibleModels, Experiment!Measured
  <1>7. FilesOK'
    BY <1>1, <1>2, <1>4, <1>5, <1>6 DEF FilesOK
  <1>8. selection' \in Experiment!Config \cup {Experiment!Torn}
    BY ExperimentConstants DEF Experiment!Best, Experiment!Eligible
  <1> QED
    BY <1>1, <1>7, <1>8 DEF Experiment!KeepsChoice

LEMMA LockWritten ==
  ASSUME ExperimentInv, pc = "lock", lock' \in {"whole", Experiment!Torn},
         UNCHANGED <<inputs, protocol, manifest, chunks, vectors, result, selection, decision>>
  PROVE  FilesOK' /\ Experiment!KeepsChoice
  <1>1. /\ FilesOK /\ lock = Experiment!None /\ selection \in Experiment!Config
        /\ decision = Experiment!None
    BY DEF ExperimentInv, ValidationOK
  <1>2. \A c \in Experiment!Config : result[c]["holdout"] = Experiment!NoResult
    BY <1>1 DEF FilesOK, Experiment!HoldoutIsBlind, Experiment!None
  <1>3. \A c \in Experiment!Config, s \in Experiment!Split : ResultOK(c, s)'
    BY <1>1 DEF FilesOK, ResultOK
  <1>4. Experiment!HoldoutIsBlind'
    BY <1>2 DEF Experiment!HoldoutIsBlind
  <1>5. FilesOK'
    BY <1>1, <1>3, <1>4
       DEF FilesOK, AllMeasured, Experiment!Eligible, Experiment!EligibleModels,
           Experiment!Measured
  <1> QED
    BY <1>1, <1>5 DEF Experiment!KeepsChoice

LEMMA DecisionWritten ==
  ASSUME ExperimentInv, pc = "decide",
         \/ decision' = IF Experiment!Passes THEN selection ELSE Baseline
         \/ decision' = Experiment!Torn,
         UNCHANGED <<inputs, protocol, manifest, chunks, vectors, result, selection, lock>>
  PROVE  /\ FilesOK' /\ Experiment!KeepsChoice
         /\ decision' \in Experiment!Config \cup {Experiment!None, Experiment!Torn}
  <1>1. FilesOK /\ Opened /\ HoldoutWhole /\ decision = Experiment!None
    BY DEF ExperimentInv, ValidationOK, Scoring, Opened, HoldoutWhole, Compared
  <1>2. \A c \in Experiment!Config, s \in Experiment!Split : ResultOK(c, s)'
    BY <1>1 DEF FilesOK, ResultOK
  <1>3. /\ AllMeasured' /\ Opened' /\ HoldoutWhole' /\ Experiment!HoldoutIsBlind'
        /\ (selection \in Experiment!Eligible)'
    BY <1>1 DEF FilesOK, AllMeasured, Opened, HoldoutWhole, Compared, Experiment!HoldoutIsBlind,
                Experiment!Eligible, Experiment!EligibleModels, Experiment!Measured
  <1>4. decision' \in Experiment!Config \ {Baseline} => decision' = selection /\ Experiment!Passes'
    <2>1. Experiment!Passes' <=> Experiment!Passes
      BY DEF Experiment!Passes
    <2> QED
      BY <2>1, ExperimentConstants
  <1>5. FilesOK'
    BY <1>1, <1>2, <1>3, <1>4 DEF FilesOK
  <1>6. decision' \in Experiment!Config \cup {Experiment!Torn}
    BY <1>1, ExperimentConstants DEF Opened
  <1> QED
    BY <1>1, <1>5, <1>6 DEF Experiment!KeepsChoice, Experiment!Measured

LEMMA ChoiceExperiment ==
  ASSUME ExperimentInv, Experiment!WriteSelection \/ Experiment!WriteDecision
  PROVE  ExperimentInv' /\ Experiment!KeepsChoice
  <1>1. Experiment!TypeOK
    BY DEF ExperimentInv
  <1>2. /\ pc' = "idle" /\ command' = Experiment!None
        /\ UNCHANGED <<inputs, protocol, manifest, chunks, vectors, result, lock, split, models,
                       todo, item, commands>>
    BY DEF Experiment!WriteSelection, Experiment!WriteDecision, Experiment!Ends
  <1>3. CASE Experiment!WriteSelection
    <2>1. /\ FilesOK' /\ Experiment!KeepsChoice /\ decision' = decision
          /\ selection' \in Experiment!Config \cup {Experiment!None, Experiment!Torn}
      BY <1>3, SelectionWritten DEF Experiment!WriteSelection
    <2>2. Experiment!TypeOK'
      BY <1>1, <1>2, <2>1, ResultsTyped DEF Experiment!TypeOK, Experiment!None
    <2> QED
      BY <1>2, <2>1, <2>2, RestsSoundly
  <1>4. CASE Experiment!WriteDecision
    <2>1. /\ FilesOK' /\ Experiment!KeepsChoice /\ selection' = selection
          /\ decision' \in Experiment!Config \cup {Experiment!None, Experiment!Torn}
      BY <1>4, DecisionWritten DEF Experiment!WriteDecision
    <2>2. Experiment!TypeOK'
      BY <1>1, <1>2, <2>1, ResultsTyped DEF Experiment!TypeOK, Experiment!None
    <2> QED
      BY <1>2, <2>1, <2>2, RestsSoundly
  <1> QED
    BY <1>3, <1>4

LEMMA LockExperiment ==
  ASSUME ExperimentInv, Experiment!WriteLock
  PROVE  ExperimentInv' /\ Experiment!KeepsChoice
  <1>1. /\ pc = "lock" /\ pc' = "child" /\ lock' = "whole"
        /\ UNCHANGED <<inputs, protocol, manifest, chunks, vectors, result, selection, decision,
                       command, split, models, todo, item, commands>>
    BY DEF Experiment!WriteLock
  <1>2. FilesOK' /\ Experiment!KeepsChoice
    BY <1>1, LockWritten
  <1>3. Experiment!TypeOK /\ ValidationOK
    BY DEF ExperimentInv
  <1>4. Experiment!TypeOK'
    BY <1>1, <1>2, <1>3, ResultsTyped DEF Experiment!TypeOK
  <1>5. ValidationOK'
    BY <1>1, <1>3 DEF ValidationOK, Scoring, Compared
  <1> QED
    BY <1>1, <1>2, <1>4, <1>5
       DEF ExperimentInv, BeforeChoiceOK, ScoringOK, Scoring, ItemOK, Experiment!DiedIsResumed

(* A process that dies leaves its file as it was, or torn. *)
LEMMA CrashExperiment ==
  ASSUME ExperimentInv, Experiment!Crash
  PROVE  ExperimentInv' /\ Experiment!KeepsChoice
  <1>1. /\ pc' = "idle" /\ command' = Experiment!None
        /\ UNCHANGED <<inputs, split, models, todo, item, commands>>
    BY DEF Experiment!Crash, Experiment!Ends
  <1>2. Experiment!TypeOK /\ FilesOK
    BY DEF ExperimentInv
  <1>3. CASE UNCHANGED Experiment!files
    <2>1. FilesOK' /\ Experiment!KeepsChoice
      BY <1>1, <1>3, FilesKept
    <2>2. Experiment!TypeOK'
      BY <1>1, <1>2, <1>3, <2>1, FilesTypeKept DEF Experiment!TypeOK, Experiment!None
    <2> QED
      BY <1>1, <2>1, <2>2, RestsSoundly
  <1>4. CASE /\ protocol' = Experiment!Torn
             /\ UNCHANGED <<manifest, chunks, vectors, result, selection, lock, decision>>
    BY <1>1, <1>2, <1>4, PreparesFiles DEF Experiment!TypeOK
  <1>5. CASE /\ \E c \in Experiment!Config :
                   /\ Experiment!FirstOf(c, Experiment!Unprepared)
                   /\ chunks' = [chunks EXCEPT ![c] = Experiment!Torn]
             /\ UNCHANGED <<protocol, manifest, vectors, result, selection, lock, decision>>
    <2>1. PICK c \in Experiment!Config :
             chunks[c] = Experiment!None /\ chunks' = [chunks EXCEPT ![c] = Experiment!Torn]
      BY <1>5 DEF Experiment!FirstOf, Experiment!Unprepared
    <2>2. /\ chunks' \in [Experiment!Config ->
                            {Experiment!None, Experiment!Torn, "whole", "edited"}]
          /\ \A d \in Experiment!Config : chunks[d] # Experiment!None => chunks'[d] = chunks[d]
      BY <1>2, <2>1 DEF Experiment!TypeOK
    <2> QED
      BY <1>1, <1>5, <2>2, PreparesFiles
  <1>6. CASE /\ manifest' = Experiment!Torn /\ Experiment!Unprepared = {}
             /\ UNCHANGED <<protocol, chunks, vectors, result, selection, lock, decision>>
    BY <1>1, <1>2, <1>6, PreparesFiles DEF Experiment!TypeOK, Experiment!Unprepared
  <1>7. CASE /\ pc = "encode" /\ vectors' = [vectors EXCEPT ![item] = Experiment!Torn]
             /\ UNCHANGED <<protocol, manifest, chunks, result, selection, lock, decision>>
    <2>1. /\ FilesOK' /\ Experiment!KeepsChoice
          /\ vectors' \in [Experiment!Config -> {Experiment!None, Experiment!Torn, "whole"}]
      BY <1>1, <1>7, VectorsWritten
    <2>2. Experiment!TypeOK'
      BY <1>1, <1>2, <1>7, <2>1, ResultsTyped DEF Experiment!TypeOK, Experiment!None
    <2> QED
      BY <1>1, <2>1, <2>2, RestsSoundly
  <1>8. CASE /\ pc = "score" /\ result' = [result EXCEPT ![item][split] = Experiment!TornResult]
             /\ UNCHANGED <<protocol, manifest, chunks, vectors, selection, lock, decision>>
    <2>1. FilesOK' /\ Experiment!KeepsChoice
      BY <1>1, <1>8, ResultWritten, EmptyResults
    <2>2. Experiment!TypeOK'
      BY <1>1, <1>2, <1>8, <2>1, ResultsTyped DEF Experiment!TypeOK, Experiment!None
    <2> QED
      BY <1>1, <2>1, <2>2, RestsSoundly
  <1>9. CASE /\ pc = "select" /\ selection' = Experiment!Torn
             /\ UNCHANGED <<protocol, manifest, chunks, vectors, result, lock, decision>>
    <2>1. FilesOK' /\ Experiment!KeepsChoice
      BY <1>1, <1>9, SelectionWritten
    <2>2. Experiment!TypeOK'
      BY <1>1, <1>2, <1>9, <2>1, ResultsTyped DEF Experiment!TypeOK, Experiment!None
    <2> QED
      BY <1>1, <2>1, <2>2, RestsSoundly
  <1>10. CASE /\ pc = "lock" /\ lock' = Experiment!Torn
              /\ UNCHANGED <<protocol, manifest, chunks, vectors, result, selection, decision>>
    <2>1. FilesOK' /\ Experiment!KeepsChoice
      BY <1>1, <1>10, LockWritten
    <2>2. Experiment!TypeOK'
      BY <1>1, <1>2, <1>10, <2>1, ResultsTyped DEF Experiment!TypeOK, Experiment!None
    <2> QED
      BY <1>1, <2>1, <2>2, RestsSoundly
  <1>11. CASE /\ pc = "decide" /\ decision' = Experiment!Torn
              /\ UNCHANGED <<protocol, manifest, chunks, vectors, result, selection, lock>>
    <2>1. FilesOK' /\ Experiment!KeepsChoice
      BY <1>1, <1>11, DecisionWritten
    <2>2. Experiment!TypeOK'
      BY <1>1, <1>2, <1>11, <2>1, ResultsTyped DEF Experiment!TypeOK, Experiment!None
    <2> QED
      BY <1>1, <2>1, <2>2, RestsSoundly
  <1> QED
    BY <1>3, <1>4, <1>5, <1>6, <1>7, <1>8, <1>9, <1>10, <1>11
       DEF Experiment!Crash, Experiment!Tears

-------------------------------------------------------------------------------
(* Every step of the experiment. *)

LEMMA ExperimentStep ==
  ASSUME ExperimentInv, [Experiment!Next]_(Experiment!vars)
  PROVE  ExperimentInv' /\ Experiment!KeepsChoice
  <1>1. CASE UNCHANGED Experiment!vars
    <2>1. /\ UNCHANGED <<inputs, Experiment!files>>
          /\ UNCHANGED <<pc, command, split, models, todo, item, commands>>
      BY <1>1 DEF Experiment!vars
    <2>2. FilesOK' /\ Experiment!KeepsChoice
      BY <2>1, FilesKept
    <2>3. /\ protocol' = protocol /\ manifest' = manifest /\ chunks' = chunks
          /\ vectors' = vectors /\ result' = result /\ selection' = selection
          /\ lock' = lock /\ decision' = decision /\ inputs' = inputs
      BY <2>1 DEF Experiment!files
    <2>4. Experiment!TypeOK'
      BY <2>1, <2>2, FilesTypeKept DEF ExperimentInv, Experiment!TypeOK
    <2>5. BeforeChoiceOK' /\ ScoringOK' /\ ItemOK' /\ ValidationOK'
      BY <2>1, <2>3 DEF ExperimentInv, BeforeChoiceOK, ScoringOK, ItemOK, ValidationOK,
                        AllMeasured, Opened, Compared, Experiment!Measured
    <2>6. Experiment!DiedIsResumed'
      BY <2>1, <2>3 DEF ExperimentInv, Experiment!DiedIsResumed, Experiment!TornJson,
                        Experiment!MayRun, Experiment!LoadsInputs, Experiment!ManifestHolds
    <2> QED
      BY <2>2, <2>4, <2>5, <2>6 DEF ExperimentInv
  <1>2. CASE Experiment!Next
    BY <1>2, EditExperiment, BeginExperiment, FreezeExperiment, RunExperiment, ChildExperiment,
       EndChildExperiment, MeasureExperiment, SaveExperiment, ScoreExperiment, SelectExperiment,
       ValidateExperiment, ChoiceExperiment, LockExperiment, CrashExperiment
       DEF Experiment!Next
  <1> QED
    BY <1>1, <1>2

LEMMA ExperimentInit ==
  ASSUME Experiment!Init
  PROVE  ExperimentInv
  <1>1. result = [c \in Experiment!Config |->
                    [s \in Experiment!Split |-> Experiment!NoResult]]
    BY DEF Experiment!Init
  <1>2. Experiment!TypeOK
    BY <1>1, ExperimentConstants
       DEF Experiment!Init, Experiment!TypeOK, Experiment!None, Experiment!Split
  <1>3. FilesOK
    <2>1. result \in [Experiment!Config -> [Experiment!Split -> Results]]
      BY <1>1, EmptyResults
    <2>2. \A c \in Experiment!Config, s \in Experiment!Split : ResultOK(c, s)
      BY <1>1 DEF ResultOK
    <2>3. Experiment!HoldoutIsBlind
      BY <1>1 DEF Experiment!HoldoutIsBlind, Experiment!Split
    <2> QED
      BY <2>1, <2>2, <2>3, ExperimentConstants DEF FilesOK, Experiment!Init, Experiment!None
  <1> QED
    BY <1>2, <1>3 DEF Experiment!Init, ExperimentInv, BeforeChoiceOK, ScoringOK, Scoring, ItemOK,
                      ValidationOK, Experiment!DiedIsResumed

LEMMA ExperimentInvSuffices ==
  ASSUME ExperimentInv
  PROVE  Experiment!ExperimentIsSound
  <1>1. Experiment!ChangeIsEarned
    <2>1. SUFFICES ASSUME decision \in Experiment!Config \ {Baseline}
                   PROVE  Experiment!ChangeIsEarned
      BY DEF Experiment!ChangeIsEarned
    <2>2. decision # Experiment!None
      BY <2>1, ExperimentConstants
    <2>3. /\ decision = selection /\ Experiment!Passes
          /\ AllMeasured /\ selection \in Experiment!Eligible
      BY <2>1, <2>2 DEF ExperimentInv, FilesOK, Opened
    <2>4. /\ ~result[decision]["holdout"].harm
          /\ result[decision]["holdout"].complete >= result[Baseline]["holdout"].complete
          /\ result[decision]["holdout"].conditions >= result[Baseline]["holdout"].conditions
      BY <2>3 DEF Experiment!Passes, Experiment!AtLeast
    <2>5. /\ decision \in Operational /\ ~Experiment!Measured(decision).harm
          /\ \/ ModelOf[decision] = Reference
             \/ \E c \in Experiment!Config \ Operational :
                   ModelOf[c] = ModelOf[decision] /\ ~Experiment!Measured(c).harm
      BY <2>3 DEF Experiment!Eligible, Experiment!EligibleModels
    <2>6. \A c \in Experiment!Config : Experiment!Measured(c).frozen
      BY <2>3 DEF AllMeasured
    <2> QED
      BY <2>3, <2>4, <2>5, <2>6 DEF Experiment!ChangeIsEarned
  <1> QED
    BY <1>1 DEF ExperimentInv, FilesOK, Experiment!ExperimentIsSound

-------------------------------------------------------------------------------
(* The evaluation of a report. *)

(* What the assumptions say of the constants of Evaluation.                *)
LEMMA EvaluationConstants ==
  /\ "writer" \notin View /\ "none" \notin View
  /\ RoleOf \in [Claim -> Evaluation!Role] /\ ViewOf \in [Gap -> View]
  /\ IsFiniteSet(View) /\ IsFiniteSet(Claim)
  /\ \A f \in Finding :
        /\ f.criterion \in Evaluation!Criterion /\ f.target \in Evaluation!Role \cup {"none"}
        /\ f.claims \subseteq Claim /\ f.missing \subseteq View /\ f.issue = "judge"
  /\ \A F \in Answer : F \subseteq Finding /\ IsFiniteSet(F)
  /\ \A a \in Artifact :
        /\ a.body \subseteq a.used /\ a.used \subseteq Claim /\ IsFiniteSet(a.layout)
        /\ \A e \in a.layout :
              /\ e.criterion \in {"groundedness", "coverage"} /\ e.names \subseteq View
              /\ e.claims \subseteq a.used /\ \A c, d \in e.claims : c = d
  <1>1. ASSUME NEW S, Evaluation!IsFiniteSet(S)
        PROVE  IsFiniteSet(S)
    BY <1>1 DEF IsFiniteSet, Evaluation!IsFiniteSet
  <1> QED
    BY <1>1, EvaluationAssumption
       DEF Evaluation!RoleAssumption, Evaluation!FindingAssumption, Evaluation!ArtifactAssumption

(* A finite set as a sequence: all of its elements, and no other. *)
LEMMA SequenceOfSet ==
  ASSUME NEW S, IsFiniteSet(S)
  PROVE  /\ Evaluation!SetToSeq(S) \in Seq(S)
         /\ \A x \in S : \E i \in DOMAIN Evaluation!SetToSeq(S) : Evaluation!SetToSeq(S)[i] = x
  <1>1. /\ Cardinality(S) \in Nat
        /\ \E f \in [1 .. Cardinality(S) -> S] : IsInjective(f)
    BY FS_CardinalityType DEF ExistsBijection, Bijection, Injection
  <1>2. Evaluation!Cardinality(S) = Cardinality(S)
    BY DEF Cardinality, Evaluation!Cardinality
  <1>3. /\ Evaluation!SetToSeq(S) \in [1 .. Cardinality(S) -> S]
        /\ IsInjective(Evaluation!SetToSeq(S))
    BY <1>1, <1>2, Zenon DEF Evaluation!SetToSeq, IsInjective, Evaluation!IsInjective
  <1>4. IsFiniteSet(1 .. Cardinality(S)) /\ Cardinality(1 .. Cardinality(S)) = Cardinality(S)
    BY <1>1, FS_Interval
  <1>5. Evaluation!SetToSeq(S) \in Surjection(1 .. Cardinality(S), S)
    <2>1. Evaluation!SetToSeq(S) \in Injection(1 .. Cardinality(S), S)
      BY <1>3 DEF Injection
    <2> QED
      BY <1>4, <2>1, FS_Injection
  <1>6. Evaluation!SetToSeq(S) \in Seq(S)
    BY <1>1, <1>3, SeqDef
  <1> QED
    BY <1>3, <1>5, <1>6 DEF Surjection

(* What a finding must be for its requests to be proper ones. *)
ProblemOK(a, f) ==
    /\ f.criterion \in Evaluation!Criterion /\ f.claims \subseteq a.used /\ f.claims \subseteq Claim
    /\ f.missing \subseteq View /\ f.issue \in {"code", "judge"}

(* A problem has a role to ask, and none it does not name.                 *)
LEMMA RolesOfProblem ==
  ASSUME NEW a, NEW f, ProblemOK(a, f)
  PROVE  /\ Evaluation!Roles(f) \subseteq Evaluation!Role
         /\ Evaluation!Roles(f) # {}
         /\ Evaluation!Roles(f) \subseteq f.missing \cup {f.target, "writer"}
                                              \cup {RoleOf[c] : c \in f.claims}
  BY EvaluationConstants DEF ProblemOK, Evaluation!Roles, Evaluation!Role

(* The code checks find finitely many problems, each about the report.     *)
LEMMA CodeProblems ==
  ASSUME NEW a \in Artifact
  PROVE  /\ IsFiniteSet(Evaluation!CodeFindings(a))
         /\ \A f \in Evaluation!CodeFindings(a) : ProblemOK(a, f)
  <1>1. \A f \in Evaluation!CodeFindings(a) : ProblemOK(a, f)
    BY EvaluationConstants
       DEF Evaluation!CodeFindings, Evaluation!CodeFinding, Evaluation!Missing, ProblemOK,
           Evaluation!Criterion
  <1>2. IsFiniteSet({Evaluation!CodeFinding("groundedness", {c}, {}) : c \in a.used \cap a.faulty})
    <2>1. IsFiniteSet(a.used \cap a.faulty)
      BY EvaluationConstants, FS_Subset
    <2> DEFINE g == [c \in a.used \cap a.faulty |->
                        Evaluation!CodeFinding("groundedness", {c}, {})]
               T == {Evaluation!CodeFinding("groundedness", {c}, {}) : c \in a.used \cap a.faulty}
    <2>2. g \in Surjection(a.used \cap a.faulty, T)
      BY DEF Surjection
    <2> QED
      BY <2>1, <2>2, FS_Surjection
  <1>3. IsFiniteSet({Evaluation!CodeFinding("coverage", {}, {v}) : v \in Evaluation!Missing(a)})
    <2>1. IsFiniteSet(Evaluation!Missing(a))
      BY EvaluationConstants, FS_Subset DEF Evaluation!Missing
    <2> DEFINE g == [v \in Evaluation!Missing(a) |-> Evaluation!CodeFinding("coverage", {}, {v})]
               T == {Evaluation!CodeFinding("coverage", {}, {v}) : v \in Evaluation!Missing(a)}
    <2>2. g \in Surjection(Evaluation!Missing(a), T)
      BY DEF Surjection
    <2> QED
      BY <2>1, <2>2, FS_Surjection
  <1>4. IsFiniteSet({Evaluation!CodeFinding(e.criterion, e.claims, e.names \cap Evaluation!Missing(a)) :
                        e \in a.layout})
    <2> DEFINE g == [e \in a.layout |->
                        Evaluation!CodeFinding(e.criterion, e.claims, e.names \cap Evaluation!Missing(a))]
               T == {Evaluation!CodeFinding(e.criterion, e.claims, e.names \cap Evaluation!Missing(a)) :
                        e \in a.layout}
    <2>1. g \in Surjection(a.layout, T)
      BY DEF Surjection
    <2> QED
      BY <2>1, EvaluationConstants, FS_Surjection
  <1>5. IsFiniteSet(Evaluation!CodeFindings(a))
    BY <1>2, <1>3, <1>4, FS_Union DEF Evaluation!CodeFindings
  <1> QED
    BY <1>1, <1>5

(* Finitely many problems make finitely many requests.                     *)
LEMMA RequestsAreFinite ==
  ASSUME NEW a, NEW P, IsFiniteSet(P), \A f \in P : ProblemOK(a, f)
  PROVE  IsFiniteSet(Evaluation!RepairRequests(P))
  <1> DEFINE Q == P \X Evaluation!Role
             g == [q \in Q |-> Evaluation!Request(q[1], q[2])]
             T == {Evaluation!Request(q[1], q[2]) : q \in Q}
  <1>1. IsFiniteSet(Evaluation!Role)
    BY EvaluationConstants, FS_AddElement DEF Evaluation!Role
  <1>2. IsFiniteSet(Q)
    BY <1>1, FS_Product
  <1>3. g \in Surjection(Q, T)
    BY DEF Surjection
  <1>4. IsFiniteSet(T)
    BY <1>2, <1>3, FS_Surjection
  <1>5. Evaluation!RepairRequests(P) \subseteq T
    <2>1. ASSUME NEW f \in P, NEW r \in Evaluation!Roles(f)
          PROVE  Evaluation!Request(f, r) \in T
      <3>1. <<f, r>> \in Q
        BY <2>1, RolesOfProblem
      <3> QED
        BY <3>1
    <2> QED
      BY <2>1 DEF Evaluation!RepairRequests
  <1> QED
    BY <1>4, <1>5, FS_Subset

(* The requests in order: all of them, the writer's behind the others.     *)
LEMMA OrderOfRequests ==
  ASSUME NEW R, IsFiniteSet(R)
  PROVE  \E q \in Seq(R) :
            /\ Evaluation!WriterLast(R) = q
            /\ \A r \in R : \E i \in DOMAIN q : q[i] = r
            /\ \A i, j \in DOMAIN q : i < j /\ q[i].target = "writer" => q[j].target = "writer"
            /\ q = <<>> <=> R = {}
  <1>1. PICK A, B : A = {r \in R : r.target # "writer"} /\ B = {r \in R : r.target = "writer"}
    OBVIOUS
  <1>2. IsFiniteSet(A) /\ IsFiniteSet(B) /\ A \subseteq R /\ B \subseteq R
    BY <1>1, FS_Subset
  <1>3. PICK s, t : s = Evaluation!SetToSeq(A) /\ t = Evaluation!SetToSeq(B)
    OBVIOUS
  <1>4. /\ s \in Seq(A) /\ \A r \in A : \E i \in DOMAIN s : s[i] = r
        /\ t \in Seq(B) /\ \A r \in B : \E i \in DOMAIN t : t[i] = r
    BY <1>2, <1>3, SequenceOfSet
  <1>5. /\ Len(s) \in Nat /\ DOMAIN s = 1 .. Len(s) /\ Len(t) \in Nat /\ DOMAIN t = 1 .. Len(t)
        /\ s \in Seq(R) /\ t \in Seq(R)
    BY <1>2, <1>4, LenProperties, SeqMonotonic
  <1>6. PICK q : q = s \o t
    OBVIOUS
  <1>7. /\ q \in Seq(R) /\ DOMAIN q = 1 .. Len(s) + Len(t)
        /\ \A i \in DOMAIN q : q[i] = IF i <= Len(s) THEN s[i] ELSE t[i - Len(s)]
    BY <1>5, <1>6, ConcatProperties, LenProperties
  <1>8. Evaluation!WriterLast(R) = q
    BY <1>1, <1>3, <1>6 DEF Evaluation!WriterLast
  <1>9. ASSUME NEW r \in R
        PROVE  \E i \in DOMAIN q : q[i] = r
    <2>1. CASE r \in A
      <3>1. PICK i \in 1 .. Len(s) : s[i] = r
        BY <1>4, <1>5, <2>1
      <3>2. i \in DOMAIN q /\ i <= Len(s)
        BY <1>5, <1>7, <3>1
      <3> QED
        BY <1>7, <3>1, <3>2
    <2>2. CASE r \in B
      <3>1. PICK i \in 1 .. Len(t) : t[i] = r
        BY <1>4, <1>5, <2>2
      <3>2. /\ Len(s) + i \in DOMAIN q /\ ~ Len(s) + i <= Len(s)
            /\ (Len(s) + i) - Len(s) = i
        BY <1>5, <1>7, <3>1
      <3>3. q[Len(s) + i] = r
        BY <1>7, <3>1, <3>2
      <3> QED
        BY <3>2, <3>3
    <2> QED
      BY <1>1, <1>9, <2>1, <2>2
  <1>10. ASSUME NEW i \in DOMAIN q, NEW j \in DOMAIN q, i < j, q[i].target = "writer"
         PROVE  q[j].target = "writer"
    <2>1. i > Len(s)
      <3>1. \A k \in DOMAIN s : s[k].target # "writer"
        BY <1>1, <1>4, <1>5, ElementOfSeq
      <3> QED
        BY <1>5, <1>7, <1>10, <3>1
    <2>2. j - Len(s) \in DOMAIN t /\ q[j] = t[j - Len(s)]
      BY <1>5, <1>7, <1>10, <2>1
    <2> QED
      BY <1>1, <1>4, <1>5, <2>2, ElementOfSeq
  <1>11. q = <<>> <=> R = {}
    <2>1. DOMAIN q = {} => q = <<>>
      BY <1>7, EmptySeq, LenProperties
    <2>2. R = {} => DOMAIN q = {}
      BY <1>7, LenProperties, ElementOfSeq
    <2>3. R # {} => q # <<>>
      BY <1>9
    <2> QED
      BY <2>1, <2>2, <2>3
  <1> QED
    BY <1>7, <1>8, <1>9, <1>10, <1>11

(* A verdict, problem by problem. *)
LEMMA VerdictForm ==
  ASSUME NEW a \in Artifact, NEW d, d.findings \in Answer,
         \A f \in d.findings : f.claims \subseteq a.used
  PROVE  LET P == Evaluation!Problems(a, d)
             R == Evaluation!RepairRequests(P)
             v == Evaluation!Verdict(a, d)
         IN  /\ \A f \in P : ProblemOK(a, f)
             /\ IsFiniteSet(R)
             /\ v.status = "ok" /\ (v.passed <=> P = {}) /\ v.passed \in BOOLEAN
             /\ v.checks = [c \in Evaluation!Criterion |-> Evaluation!CheckOf(c, P)]
             /\ v.repairs = Evaluation!WriterLast(R)
             /\ R = {} <=> P = {}
  <1> DEFINE P == Evaluation!Problems(a, d)
             R == Evaluation!RepairRequests(P)
             v == Evaluation!Verdict(a, d)
  <1>1. \A f \in P : ProblemOK(a, f)
    BY CodeProblems, EvaluationConstants DEF Evaluation!Problems, ProblemOK
  <1>2. IsFiniteSet(P)
    BY CodeProblems, EvaluationConstants, FS_Union DEF Evaluation!Problems
  <1>3. IsFiniteSet(R)
    BY <1>1, <1>2, RequestsAreFinite
  <1>4. R = {} <=> P = {}
    BY <1>1, RolesOfProblem DEF Evaluation!RepairRequests
  <1> HIDE DEF P
  <1>5. (\A c \in Evaluation!Criterion : Evaluation!CheckOf(c, P).passed) <=> P = {}
    BY <1>1 DEF Evaluation!CheckOf, ProblemOK
  <1>6. /\ v.status = "ok"
        /\ v.checks = [c \in Evaluation!Criterion |-> Evaluation!CheckOf(c, P)]
        /\ v.passed = (\A c \in Evaluation!Criterion : v.checks[c].passed)
    BY DEF Evaluation!Verdict, P
  <1>7. v.passed <=> P = {}
    BY <1>5, <1>6
  <1>8. v.repairs = Evaluation!WriterLast(R)
    BY <1>4, <1>5 DEF Evaluation!Verdict, P
  <1> QED
    BY <1>1, <1>3, <1>4, <1>6, <1>7, <1>8 DEF P

(* The Judge's answer is about the report. *)
JudgedOK ==
    /\ draft.findings \in Answer
    /\ \A f \in draft.findings : f.claims \subseteq artifact.used

(* A result is a failure, or the verdict on this report and this answer.   *)
EvaluationInv ==
    /\ artifact \in Artifact
    /\ pc \in {"artifact", "judge", "decide", "ended"}
    /\ draft.findings \subseteq Finding /\ draft.revise \subseteq Evaluation!Criterion
    /\ pc = "decide" => JudgedOK
    /\ \/ result \in {Evaluation!NoResult, Evaluation!Failed}
       \/ JudgedOK /\ result = Evaluation!Verdict(artifact, draft)
    /\ pc \in {"artifact", "judge", "decide"} => result = Evaluation!NoResult

LEMMA EvaluationInit ==
  ASSUME Evaluation!Init
  PROVE  EvaluationInv
  BY DEF Evaluation!Init, Evaluation!NoDraft, EvaluationInv

LEMMA EvaluationStep ==
  ASSUME EvaluationInv, [Evaluation!Next]_(Evaluation!vars)
  PROVE  EvaluationInv'
  <1>1. CASE UNCHANGED Evaluation!vars
    <2>1. artifact' = artifact /\ pc' = pc /\ draft' = draft /\ result' = result
      BY <1>1 DEF Evaluation!vars
    <2>2. JudgedOK' <=> JudgedOK
      BY <2>1 DEF JudgedOK
    <2>3. result = Evaluation!Verdict(artifact, draft)
             => result' = Evaluation!Verdict(artifact', draft')
      BY <2>1
    <2> QED
      BY <2>1, <2>2, <2>3 DEF EvaluationInv
  <1>2. CASE Evaluation!ValidateArtifact \/ Evaluation!JudgeFails
    BY <1>2 DEF Evaluation!ValidateArtifact, Evaluation!JudgeFails, EvaluationInv
  <1>3. CASE Evaluation!Judge
    <2>1. PICK F, revise :
             /\ F \in Answer /\ revise \in SUBSET {f.criterion : f \in F}
             /\ \A f \in F : f.claims \subseteq artifact.used
             /\ draft' = [findings |-> F, revise |-> revise]
      BY <1>3 DEF Evaluation!Judge
    <2>2. F \subseteq Finding /\ revise \subseteq Evaluation!Criterion
      BY <2>1, EvaluationConstants
    <2>3. pc = "judge" /\ pc' = "decide" /\ artifact' = artifact /\ result' = result
      BY <1>3 DEF Evaluation!Judge
    <2>4. JudgedOK'
      BY <2>1, <2>3 DEF JudgedOK
    <2> QED
      BY <2>1, <2>2, <2>3, <2>4 DEF EvaluationInv
  <1>4. CASE Evaluation!Decide
    <2>1. /\ pc = "decide" /\ pc' = "ended" /\ artifact' = artifact /\ draft' = draft
          /\ result' = Evaluation!Verdict(artifact, draft)
      BY <1>4 DEF Evaluation!Decide
    <2>2. JudgedOK'
      BY <2>1 DEF EvaluationInv, JudgedOK
    <2>3. result' = Evaluation!Verdict(artifact', draft')
      BY <2>1
    <2> QED
      BY <2>1, <2>2, <2>3 DEF EvaluationInv
  <1> QED
    BY <1>1, <1>2, <1>3, <1>4 DEF Evaluation!Next

LEMMA EvaluationInvSuffices ==
  ASSUME EvaluationInv
  PROVE  Evaluation!VerdictIsSound
  <1>1. CASE result \in {Evaluation!NoResult, Evaluation!Failed}
    <2>1. result.status \in {"none", "failed"} /\ result.repairs = <<>>
      BY <1>1 DEF Evaluation!NoResult, Evaluation!Failed
    <2>2. Evaluation!Asked = {}
      BY <2>1 DEF Evaluation!Asked, Evaluation!Range
    <2> QED
      BY <1>1, <2>1, <2>2
         DEF EvaluationInv, Evaluation!VerdictIsSound, Evaluation!TypeOK,
             Evaluation!CodeIsDecisive, Evaluation!NoFindingIsLost, Evaluation!AskedOfItsOwner,
             Evaluation!WriterComesLast
  <1>2. CASE JudgedOK /\ result = Evaluation!Verdict(artifact, draft)
    <2>1. artifact \in Artifact
      BY DEF EvaluationInv
    <2>2. PICK P, R :
             /\ P = Evaluation!Problems(artifact, draft) /\ R = Evaluation!RepairRequests(P)
             /\ \A f \in P : ProblemOK(artifact, f)
             /\ IsFiniteSet(R)
             /\ result.status = "ok" /\ (result.passed <=> P = {}) /\ result.passed \in BOOLEAN
             /\ result.checks = [c \in Evaluation!Criterion |-> Evaluation!CheckOf(c, P)]
             /\ result.repairs = Evaluation!WriterLast(R)
             /\ R = {} <=> P = {}
      BY <1>2, <2>1, VerdictForm DEF JudgedOK
    <2>3. PICK q \in Seq(R) :
             /\ result.repairs = q
             /\ \A r \in R : \E i \in DOMAIN q : q[i] = r
             /\ \A i, j \in DOMAIN q : i < j /\ q[i].target = "writer" => q[j].target = "writer"
             /\ q = <<>> <=> R = {}
      BY <2>2, OrderOfRequests
    <2>4. Evaluation!Asked = R
      <3>1. DOMAIN q = 1 .. Len(q) /\ \A i \in DOMAIN q : q[i] \in R
        BY <2>3, LenProperties, ElementOfSeq
      <3> QED
        BY <2>3, <3>1 DEF Evaluation!Asked, Evaluation!Range
    <2>5. ASSUME NEW r \in R
          PROVE  \E f \in P : \E role \in Evaluation!Roles(f) : r = Evaluation!Request(f, role)
      BY <2>2, <2>5 DEF Evaluation!RepairRequests
    <2>6. ASSUME NEW f \in P, NEW role \in Evaluation!Roles(f)
          PROVE  Evaluation!Request(f, role) \in R
      BY <2>2, <2>6 DEF Evaluation!RepairRequests
    <2>7. \A f \in P : result.checks[f.criterion].passed = FALSE
      BY <2>2 DEF Evaluation!CheckOf, ProblemOK
    <2>8. ASSUME NEW r \in R
          PROVE  /\ r \in Evaluation!Requests
                 /\ r.target \in View => \A c \in r.claims : RoleOf[c] = r.target
                 /\ \A g \in r.gaps : ViewOf[g] = r.target
                 /\ r.claims \subseteq artifact.used
      <3>1. PICK f, role :
               f \in P /\ role \in Evaluation!Roles(f) /\ r = Evaluation!Request(f, role)
        BY <2>5, <2>8
      <3>2. ProblemOK(artifact, f) /\ role \in Evaluation!Role
        BY <2>2, <3>1, RolesOfProblem
      <3> QED
        BY <3>1, <3>2, EvaluationConstants
           DEF Evaluation!Request, Evaluation!Requests, ProblemOK
    <2>9. Evaluation!TypeOK
      <3>1. q \in Seq(Evaluation!Requests)
        BY <2>8, SeqMonotonic
      <3>2. result.checks \in [Evaluation!Criterion ->
                [passed : BOOLEAN, claims : SUBSET Claim, gaps : SUBSET Gap]]
        <4>1. ASSUME NEW c \in Evaluation!Criterion
              PROVE  Evaluation!CheckOf(c, P) \in
                        [passed : BOOLEAN, claims : SUBSET Claim, gaps : SUBSET Gap]
          BY <2>2 DEF Evaluation!CheckOf, ProblemOK, Evaluation!RepairRequests,
                      Evaluation!Request
        <4> QED
          BY <2>2, <4>1
      <3>3. result.passed <=> \A c \in Evaluation!Criterion : result.checks[c].passed
        <4>1. ASSUME NEW c \in Evaluation!Criterion
              PROVE  result.checks[c].passed = ({f \in P : f.criterion = c} = {})
          BY <2>2 DEF Evaluation!CheckOf
        <4>2. \A f \in P : f.criterion \in Evaluation!Criterion
          BY <2>2 DEF ProblemOK
        <4>3. P = {} <=> \A c \in Evaluation!Criterion : {f \in P : f.criterion = c} = {}
          BY <4>2
        <4> QED
          BY <2>2, <4>1, <4>3
      <3> QED
        BY <2>2, <2>3, <3>1, <3>2, <3>3 DEF EvaluationInv, Evaluation!TypeOK
    <2>10. Evaluation!CodeIsDecisive
      <3>1. ASSUME NEW c \in artifact.used \cap artifact.faulty
            PROVE  /\ ~result.checks["groundedness"].passed
                   /\ \E r \in Evaluation!Asked : r.target = RoleOf[c] /\ c \in r.claims
        <4>1. PICK f \in P : f = Evaluation!CodeFinding("groundedness", {c}, {})
          BY <2>2, <3>1 DEF Evaluation!Problems, Evaluation!CodeFindings
        <4>2. RoleOf[c] \in Evaluation!Roles(f)
          <5>1. /\ f.criterion = "groundedness" /\ f.missing = {} /\ f.target = "none"
                /\ {RoleOf[x] : x \in f.claims} = {RoleOf[c]}
            BY <4>1 DEF Evaluation!CodeFinding
          <5>2. RoleOf[c] \in Evaluation!Role
            BY <2>1, <3>1, EvaluationConstants
          <5>3. f.target \notin Evaluation!Role
            BY <5>1, EvaluationConstants DEF Evaluation!Role
          <5> QED
            BY <5>1, <5>2, <5>3 DEF Evaluation!Roles
        <4>3. Evaluation!Request(f, RoleOf[c]) \in R
          BY <2>6, <4>2
        <4> QED
          BY <2>4, <2>7, <4>1, <4>3 DEF Evaluation!CodeFinding, Evaluation!Request
      <3>2. ASSUME NEW v \in Evaluation!Missing(artifact)
            PROVE  /\ ~result.checks["coverage"].passed
                   /\ \E r \in Evaluation!Asked : r.target = v
        <4>1. PICK f \in P : f = Evaluation!CodeFinding("coverage", {}, {v})
          BY <2>2, <3>2 DEF Evaluation!Problems, Evaluation!CodeFindings
        <4>2. v \in Evaluation!Roles(f)
          BY <4>1 DEF Evaluation!Roles, Evaluation!CodeFinding
        <4>3. Evaluation!Request(f, v) \in R
          BY <2>6, <4>2
        <4> QED
          BY <2>4, <2>7, <4>1, <4>3 DEF Evaluation!CodeFinding, Evaluation!Request
      <3>3. ASSUME NEW e \in artifact.layout
            PROVE  /\ ~result.checks[e.criterion].passed
                   /\ \A role \in Evaluation!RepairedBy(e) : \E r \in Evaluation!Asked :
                         r.target = role /\ {c \in e.claims : RoleOf[c] = role} \subseteq r.claims
        <4>1. PICK f \in P :
                 f = Evaluation!CodeFinding(e.criterion, e.claims,
                                            e.names \cap Evaluation!Missing(artifact))
          BY <2>2, <3>3 DEF Evaluation!Problems, Evaluation!CodeFindings
        <4>2. /\ f.criterion = e.criterion /\ f.target = "none" /\ f.claims = e.claims
              /\ f.missing = e.names \cap Evaluation!Missing(artifact)
          BY <4>1 DEF Evaluation!CodeFinding
        <4>3. /\ e.criterion \in {"groundedness", "coverage"}
              /\ e.claims \subseteq Claim /\ \A c, d \in e.claims : c = d
          BY <2>1, <3>3, EvaluationConstants
        <4>4. ~result.checks[e.criterion].passed
          BY <2>7, <4>2
        <4>5. ASSUME NEW role \in Evaluation!RepairedBy(e)
              PROVE  \E r \in Evaluation!Asked :
                         r.target = role /\ {c \in e.claims : RoleOf[c] = role} \subseteq r.claims
          <5>1. f.criterion # "neutrality" /\ f.target \notin Evaluation!Role
            BY <4>2, <4>3, EvaluationConstants DEF Evaluation!Role
          <5>2. role \in Evaluation!Roles(f)
            <6>1. CASE f.missing # {}
              BY <4>2, <4>5, <5>1, <6>1 DEF Evaluation!Roles, Evaluation!RepairedBy
            <6>2. CASE f.missing = {} /\ e.claims # {}
              <7>1. PICK c \in e.claims : role = RoleOf[c]
                BY <4>2, <4>5, <6>2 DEF Evaluation!RepairedBy
              <7>2. {RoleOf[x] : x \in f.claims} = {role} /\ role \in Evaluation!Role
                BY <4>2, <4>3, <7>1, EvaluationConstants
              <7> QED
                BY <5>1, <6>2, <7>2 DEF Evaluation!Roles
            <6>3. CASE f.missing = {} /\ e.claims = {}
              <7>1. role = "writer" /\ {RoleOf[x] : x \in f.claims} = {}
                BY <4>2, <4>5, <6>3 DEF Evaluation!RepairedBy
              <7> QED
                BY <5>1, <6>3, <7>1 DEF Evaluation!Roles
            <6> QED
              BY <6>1, <6>2, <6>3
          <5>3. Evaluation!Request(f, role) \in Evaluation!Asked
            BY <2>4, <2>6, <5>2
          <5> QED
            BY <4>2, <5>3 DEF Evaluation!Request
        <4> QED
          BY <4>4, <4>5
      <3> QED
        BY <3>1, <3>2, <3>3 DEF Evaluation!CodeIsDecisive
    <2>11. Evaluation!NoFindingIsLost
      <3>1. ASSUME NEW f \in draft.findings
            PROVE  /\ ~result.checks[f.criterion].passed
                   /\ \E r \in Evaluation!Asked :
                         /\ r.issue = f.issue
                         /\ r.target \in f.missing \cup {f.target, "writer"}
                                             \cup {RoleOf[c] : c \in f.claims}
        <4>1. f \in P
          BY <2>2, <3>1 DEF Evaluation!Problems
        <4>2. PICK role \in Evaluation!Roles(f) :
                 role \in f.missing \cup {f.target, "writer"} \cup {RoleOf[c] : c \in f.claims}
          BY <2>2, <4>1, RolesOfProblem
        <4>3. Evaluation!Request(f, role) \in R
          BY <2>6, <4>1
        <4> QED
          BY <2>4, <2>7, <4>1, <4>2, <4>3 DEF Evaluation!Request
      <3> QED
        BY <3>1 DEF Evaluation!NoFindingIsLost
    <2>12. Evaluation!AskedOfItsOwner
      BY <2>4, <2>8 DEF Evaluation!AskedOfItsOwner
    <2>13. Evaluation!WriterComesLast
      BY <2>3 DEF Evaluation!WriterComesLast
    <2> QED
      BY <2>9, <2>10, <2>11, <2>12, <2>13 DEF Evaluation!VerdictIsSound
  <1> QED
    BY <1>1, <1>2 DEF EvaluationInv

-------------------------------------------------------------------------------
(* The writer. *)

LEMMA WriterConstants ==
  /\ First \in View /\ "writer" \notin View /\ MaxGaps \in Nat /\ BatchSize \in Nat \ {0}
  /\ MaxResearch \in Nat \ {0} /\ MaxWriter \in Nat \ {0}
  BY WriterAssumption DEF Writer!WriterAssumption

(* A product with a remainder is no smaller than its other factor.         *)
LEMMA Product ==
  ASSUME NEW b \in Nat \ {0}, NEW k \in Int, NEW r \in 0 .. b - 1, b * k + r >= 0
  PROVE  k >= 0 /\ k <= b * k + r
  <1>1. k >= 0
    <2>1. SUFFICES ASSUME k <= -1 PROVE FALSE
      OBVIOUS
    <2>2. b * (k + 1) <= 0
      BY <2>1
    <2>3. b * (k + 1) = b * k + b
      OBVIOUS
    <2> QED
      BY <2>2, <2>3
  <1>2. k <= b * k
    <2>1. (b - 1) * k >= 0
      BY <1>1
    <2>2. (b - 1) * k = b * k - k
      OBVIOUS
    <2> QED
      BY <2>1, <2>2
  <1> QED
    BY <1>1, <1>2

(* A gap lies in one of the batches that begin before the end.             *)
LEMMA Batch ==
  ASSUME NEW n \in Nat, NEW b \in Nat \ {0}, NEW i \in 1 .. n
  PROVE  \E k \in 0 .. n : k * b < n /\ k * b + 1 <= i /\ i <= (k + 1) * b
  <1>1. PICK k \in Int : k = (i - 1) \div b
    OBVIOUS
  <1>2. (i - 1) - b * k < b
    BY <1>1
  <1>3. (i - 1) - b * k >= 0
    BY <1>1
  <1>4. PICK r \in 0 .. b - 1 : i - 1 = b * k + r
    BY <1>2, <1>3
  <1>5. k >= 0 /\ k <= i - 1
    BY <1>4, Product
  <1>6. (k + 1) * b = k * b + b /\ k * b = b * k
    OBVIOUS
  <1> QED
    BY <1>4, <1>5, <1>6

(* The batches are cut from a sequence without a gap between them. *)
LEMMA BatchesCover ==
  ASSUME NEW S, NEW g \in Seq(S)
  PROVE  UNION Writer!Batches(g) = Writer!Range(g)
  <1> DEFINE Last(k) == IF (k + 1) * BatchSize < Len(g) THEN (k + 1) * BatchSize ELSE Len(g)
             Slice(k) == SubSeq(g, k * BatchSize + 1, Last(k))
             K == {j \in 0 .. Len(g) : j * BatchSize < Len(g)}
  <1>1. Len(g) \in Nat /\ DOMAIN g = 1 .. Len(g) /\ \A i \in 1 .. Len(g) : g[i] \in S
    BY LenProperties, ElementOfSeq
  <1>2. Writer!Batches(g) = {Writer!Range(Slice(k)) : k \in K}
    BY DEF Writer!Batches
  <1>3. ASSUME NEW k \in K
        PROVE  /\ k * BatchSize \in Nat /\ Last(k) \in 1 .. Len(g)
               /\ Writer!Range(Slice(k)) = {g[i] : i \in k * BatchSize + 1 .. Last(k)}
    <2>1. /\ BatchSize \in Nat /\ k \in Nat
          /\ k * BatchSize \in Nat /\ (k + 1) * BatchSize = k * BatchSize + BatchSize
      BY WriterConstants
    <2>2. Last(k) \in 1 .. Len(g) /\ k * BatchSize + 1 <= Last(k)
      BY <1>1, <2>1, WriterConstants
    <2> HIDE DEF Last
    <2>3. PICK m \in Nat : m = k * BatchSize
      BY <2>1
    <2>4. PICK n \in 1 .. Len(g) : n = Last(k)
      BY <2>2
    <2>5. PICK s : s = SubSeq(g, m + 1, n)
      OBVIOUS
    <2>6. \A i \in m + 1 .. n : g[i] \in S
      BY <1>1, <2>3, <2>4
    <2>7. /\ s \in Seq(S) /\ Len(s) = n - m
          /\ \A i \in 1 .. n - m : s[i] = g[m + i]
      <3>1. /\ s \in Seq(S) /\ Len(s) = IF m + 1 <= n THEN n - (m + 1) + 1 ELSE 0
            /\ \A i \in 1 .. n - (m + 1) + 1 : s[i] = g[(m + 1) + i - 1]
        BY <2>5, <2>6, SubSeqProperties
      <3>2. m + 1 <= n /\ n - (m + 1) + 1 = n - m
        BY <2>2, <2>3, <2>4
      <3>3. \A i \in Int : (m + 1) + i - 1 = m + i
        OBVIOUS
      <3> QED
        BY <3>1, <3>2, <3>3
    <2>8. DOMAIN s = 1 .. n - m
      BY <2>7, LenProperties
    <2>9. Writer!Range(s) = {g[i] : i \in m + 1 .. n}
      <3>1. ASSUME NEW i \in m + 1 .. n
            PROVE  \E j \in 1 .. n - m : s[j] = g[i]
        <4>1. i - m \in 1 .. n - m /\ m + (i - m) = i
          BY <2>4, <1>1
        <4> QED
          BY <2>7, <4>1
      <3>2. ASSUME NEW j \in 1 .. n - m
            PROVE  m + j \in m + 1 .. n /\ s[j] = g[m + j]
        BY <1>1, <2>4, <2>7
      <3>3. Writer!Range(s) = {s[j] : j \in 1 .. n - m}
        BY <2>8 DEF Writer!Range
      <3>4. \A x \in Writer!Range(s) : x \in {g[i] : i \in m + 1 .. n}
        BY <3>2, <3>3
      <3>5. \A x \in {g[i] : i \in m + 1 .. n} : x \in Writer!Range(s)
        BY <3>1, <3>3
      <3> QED
        BY <3>4, <3>5
    <2> QED
      BY <2>1, <2>2, <2>3, <2>4, <2>5, <2>9
  <1>4. ASSUME NEW i \in 1 .. Len(g)
        PROVE  \E k \in K : i \in k * BatchSize + 1 .. Last(k)
    <2>1. PICK k \in 0 .. Len(g) : /\ k * BatchSize < Len(g) /\ k * BatchSize + 1 <= i
                                   /\ i <= (k + 1) * BatchSize
      BY <1>1, Batch, WriterConstants
    <2> QED
      BY <1>1, <2>1, WriterConstants
  <1> HIDE DEF K, Last, Slice
  <1>5. \A k \in K : Writer!Range(Slice(k)) \subseteq Writer!Range(g)
    <2>1. ASSUME NEW k \in K, NEW i \in k * BatchSize + 1 .. Last(k)
          PROVE  i \in 1 .. Len(g)
      BY <1>1, <1>3, <2>1
    <2> QED
      BY <1>1, <1>3, <2>1 DEF Writer!Range
  <1>6. \A x \in Writer!Range(g) : \E k \in K : x \in Writer!Range(Slice(k))
    <2>1. ASSUME NEW i \in 1 .. Len(g)
          PROVE  \E k \in K : g[i] \in Writer!Range(Slice(k))
      BY <1>3, <1>4
    <2> QED
      BY <1>1, <2>1 DEF Writer!Range
  <1> QED
    BY <1>2, <1>5, <1>6

(* The gaps of all results, as one sequence.                               *)
LEMMA GapSequence == Writer!GapRecords \in Seq(View \X (1 .. MaxGaps))
  <1> DEFINE G == {g \in View \X (1 .. MaxGaps) : g[2] <= results[g[1]].gaps}
  <1>1. IsFiniteSet(View \X (1 .. MaxGaps))
    <2>1. IsFiniteSet(View) /\ IsFiniteSet(1 .. MaxGaps)
      BY EvaluationConstants, WriterConstants, FS_Interval
    <2> QED
      BY <2>1, FS_Product
  <1>2. IsFiniteSet(G)
    BY <1>1, FS_Subset
  <1>3. Writer!SetToSeq(G) = Evaluation!SetToSeq(G)
    BY DEF Writer!SetToSeq, Evaluation!SetToSeq, Writer!Cardinality, Evaluation!Cardinality,
           Writer!IsInjective, Evaluation!IsInjective
  <1>4. Evaluation!SetToSeq(G) \in Seq(G)
    BY <1>2, SequenceOfSet
  <1>5. Writer!SetToSeq(G) \in Seq(View \X (1 .. MaxGaps))
    BY <1>3, <1>4, SeqMonotonic
  <1> QED
    BY <1>5 DEF Writer!GapRecords

(* What a report says of the gaps fits the results it was drawn from.      *)
DecidedOn(decisions) ==
    /\ \A d \in decisions : d.basis = Writer!Basis
    /\ Writer!GapsAreDecided(decisions, Writer!Range(Writer!GapRecords))

(* What is asked of a role waits for it until it works; the report is of   *)
(* the present results, a verdict of the present report.                   *)
WriterInv ==
    /\ Writer!TypeOK
    /\ Writer!Agree(Writer!Range(results))
    /\ report # Writer!None => report.basis = Writer!Basis /\ DecidedOn(report.decisions)
    /\ verdict # "none" => report # Writer!None
    /\ status = "completed" => verdict = "passed"
    /\ Writer!PaidReportIsSound
    /\ owed \subseteq feedback \cap repairs

(* A role that works may, and its attempts allow it; before the writer     *)
(* works nothing is left to research.                                      *)
LEMMA WorksWithin ==
  ASSUME WriterInv, NEW role \in Writer!Role, Writer!Works(role)
  PROVE  /\ attempts' \in [Writer!Role -> Nat] /\ attempts'[role] = attempts[role] + 1
         /\ \A r \in Writer!Role \ {role} : attempts'[r] = attempts[r]
         /\ role \in View => attempts'[role] <= MaxResearch
         /\ role = "writer" => attempts'[role] <= MaxWriter /\ feedback \cap View = {}
         /\ owed' = owed \ {role} /\ status = "running" /\ verdict # "passed"
         /\ verdict = "none" => report = Writer!None
  <1>1. /\ role \in Writer!Allowed /\ ~Writer!Exhausted
        /\ attempts' = [attempts EXCEPT ![role] = @ + 1] /\ owed' = owed \ {role}
    BY DEF Writer!Works
  <1>2. /\ attempts \in [Writer!Role -> Nat] /\ Writer!Role = View \cup {"writer"}
        /\ verdict \in {"none", "passed", "revise"}
    BY DEF WriterInv, Writer!TypeOK, Writer!Role
  <1>3. /\ status = "running" /\ verdict # "passed"
        /\ verdict = "none" => report = Writer!None
    BY <1>1 DEF Writer!Allowed
  <1>4. Writer!Targets \subseteq View /\ (Writer!Targets = {} => feedback \cap View = {})
    BY WriterConstants DEF Writer!Targets
  <1>5. CASE Writer!Targets # {}
    <2>1. role \in Writer!Targets
      BY <1>1, <1>3, <1>5 DEF Writer!Allowed
    <2>2. role \in View /\ ~ attempts[role] >= MaxResearch
      BY <1>1, <1>4, <2>1 DEF Writer!Exhausted
    <2> QED
      BY <1>1, <1>2, <1>3, <2>2, WriterConstants
  <1>6. CASE Writer!Targets = {}
    <2>1. role \in {"writer"} \cup {v \in View : attempts[v] < MaxResearch}
      BY <1>1, <1>3, <1>6 DEF Writer!Allowed
    <2>2. ~ attempts["writer"] >= MaxWriter
      BY <1>1, <1>6 DEF Writer!Exhausted
    <2> QED
      BY <1>1, <1>2, <1>3, <1>4, <1>6, <2>1, <2>2, WriterConstants
  <1> QED
    BY <1>5, <1>6

(* As long as the results stay, so does what is made of them. *)
LEMMA SameResults ==
  ASSUME UNCHANGED results
  PROVE  /\ Writer!Basis' = Writer!Basis /\ Writer!Sourced' = Writer!Sourced
         /\ Writer!GapRecords' = Writer!GapRecords
  <1>1. results' = results
    OBVIOUS
  <1>2. Writer!Basis' = Writer!Basis
    BY <1>1 DEF Writer!Basis
  <1>3. Writer!GapRecords' = Writer!GapRecords
    BY <1>1 DEF Writer!GapRecords
  <1>4. Writer!Sourced' = Writer!Sourced
    BY <1>1 DEF Writer!Sourced
  <1> QED
    BY <1>2, <1>3, <1>4

(* A result takes the report away, and all that was made of the research.  *)
LEMMA ResearchInv ==
  ASSUME WriterInv, NEW v \in View, Writer!Research(v)
  PROVE  WriterInv' /\ Writer!AnswersRepairs
  <1>1. PICK r \in Writer!Results :
           IF Writer!Admits(v, r)
           THEN Writer!Refresh(v, r) /\ verdict' = "none" /\ status' = status
           ELSE /\ status' = "artifact_mismatch"
                /\ UNCHANGED <<results, report, verdict, feedback>>
    BY DEF Writer!Research
  <1>2. Writer!Works(v) /\ UNCHANGED <<repairs, told>> /\ v \in Writer!Role
    BY DEF Writer!Research, Writer!Role
  <1>3. /\ attempts' \in [Writer!Role -> Nat]
        /\ \A r2 \in Writer!Role \ {v} : attempts'[r2] = attempts[r2]
        /\ attempts'[v] <= MaxResearch
        /\ owed' = owed \ {v} /\ status = "running"
    BY <1>2, WorksWithin
  <1>4. Writer!TypeOK
    BY DEF WriterInv
  <1>5. /\ \A u \in View : attempts'[u] <= MaxResearch
        /\ attempts'["writer"] <= MaxWriter
    BY <1>3, <1>4, WriterConstants DEF Writer!TypeOK, Writer!Role
  <1>6. CASE Writer!Admits(v, r)
    <2>1. /\ results' = [u \in View |-> IF u = v THEN r
                                        ELSE IF v = First THEN Writer!None ELSE results[u]]
          /\ report' = Writer!None
          /\ feedback' = IF r.ok THEN feedback \ {v} ELSE feedback \cup {v}
          /\ verdict' = "none" /\ status' = status
      BY <1>1, <1>6 DEF Writer!Refresh
    <2>2. Writer!TypeOK'
      BY <1>2, <1>3, <1>4, <1>5, <2>1 DEF Writer!TypeOK
    <2>3. Writer!Agree(Writer!Range(results))'
      <3>1. \A x \in Writer!Range(results') \ {Writer!None} :
               x \in {r} \cup (IF v = First THEN {} ELSE {results[u] : u \in View \ {v}})
        BY <2>1 DEF Writer!Range
      <3> QED
        BY <1>6, <3>1 DEF Writer!Admits, Writer!Agree
    <2>4. owed' \subseteq feedback' \cap repairs'
      BY <1>2, <1>3, <2>1 DEF WriterInv
    <2>5. Writer!AnswersRepairs
      BY <2>1 DEF Writer!AnswersRepairs, Writer!None
    <2> QED
      BY <1>3, <2>1, <2>2, <2>3, <2>4, <2>5
         DEF WriterInv, Writer!PaidReportIsSound
  <1>7. CASE ~Writer!Admits(v, r)
    <2>1. /\ status' = "artifact_mismatch"
          /\ UNCHANGED <<results, report, verdict, feedback>>
      BY <1>1, <1>7
    <2>2. Writer!TypeOK'
      BY <1>2, <1>3, <1>4, <1>5, <2>1 DEF Writer!TypeOK
    <2>3. owed' \subseteq feedback' \cap repairs'
      BY <1>2, <1>3, <2>1 DEF WriterInv
    <2> QED
      BY <2>1, <2>2, <2>3, SameResults
         DEF WriterInv, DecidedOn, Writer!GapsAreDecided, Writer!PaidReportIsSound,
             Writer!AnswersRepairs
  <1> QED
    BY <1>6, <1>7

(* A report decides every gap of its results, the first as its revisions.  *)
LEMMA DecisionsFit ==
  ASSUME WriterInv, NEW d \in Writer!Decisions
  PROVE  DecidedOn(d)
  <1>1. CASE report # Writer!None
    BY <1>1 DEF WriterInv, Writer!Decisions
  <1>2. CASE report = Writer!None
    <2>1. d \in Writer!Reviews(Writer!Range(Writer!GapRecords))
      BY <1>2, GapSequence, BatchesCover DEF Writer!Decisions
    <2> QED
      BY <2>1 DEF Writer!Reviews, DecidedOn
  <1> QED
    BY <1>1, <1>2

LEMMA WriteInv ==
  ASSUME WriterInv, Writer!Write
  PROVE  WriterInv' /\ Writer!AnswersRepairs
  <1>1. /\ Writer!Works("writer") /\ told' = Writer!Feedback /\ results' = results
        /\ "writer" \in Writer!Role
    BY DEF Writer!Write, Writer!Role
  <1>2. /\ attempts' \in [Writer!Role -> Nat] /\ attempts'["writer"] = attempts["writer"] + 1
        /\ \A r \in Writer!Role \ {"writer"} : attempts'[r] = attempts[r]
        /\ attempts'["writer"] <= MaxWriter /\ feedback \cap View = {}
        /\ owed' = owed \ {"writer"} /\ status = "running"
    BY <1>1, WorksWithin
  <1>3. Writer!TypeOK /\ Writer!Agree(Writer!Range(results))
    BY DEF WriterInv
  <1>4. /\ \A u \in View : attempts'[u] <= MaxResearch
        /\ attempts'["writer"] \in 1 .. MaxWriter
    BY <1>1, <1>2, <1>3, WriterConstants DEF Writer!TypeOK, Writer!Role
  <1>5. told' \in BOOLEAN
    BY <1>1 DEF Writer!Feedback
  <1>6. \/ Writer!Fails("draft_failed")
        \/ \E d \in Writer!Decisions : Writer!Writes(d)
    BY <1>3, DecisionsFit DEF Writer!Write, DecidedOn
  <1>7. CASE Writer!Fails("draft_failed")
    <2>1. status' = "draft_failed" /\ UNCHANGED <<report, verdict, feedback, repairs>>
      BY <1>7 DEF Writer!Fails
    <2>2. Writer!TypeOK'
      BY <1>1, <1>2, <1>3, <1>4, <1>5, <2>1 DEF Writer!TypeOK
    <2>3. owed' \subseteq feedback' \cap repairs'
      BY <1>2, <2>1 DEF WriterInv
    <2> QED
      BY <1>1, <1>2, <2>1, <2>2, <2>3, SameResults
         DEF WriterInv, DecidedOn, Writer!GapsAreDecided, Writer!PaidReportIsSound,
             Writer!AnswersRepairs
  <1>8. CASE \E d \in Writer!Decisions : Writer!Writes(d)
    <2>1. PICK d \in Writer!Decisions : Writer!Writes(d)
      BY <1>8
    <2>2. /\ report' = [n |-> attempts'["writer"], basis |-> Writer!Basis, decisions |-> d]
          /\ verdict' = "none" /\ feedback' = {} /\ repairs' = {} /\ status' = status
      BY <2>1 DEF Writer!Writes
    <2>3. DecidedOn(d)
      BY DecisionsFit
    <2>4. /\ report'.n = attempts'["writer"] /\ report'.basis = Writer!Basis
          /\ report'.decisions = d
      BY <2>2
    <2>5. Writer!TypeOK'
      BY <1>1, <1>2, <1>3, <1>4, <1>5, <2>2, <2>4 DEF Writer!TypeOK
    <2>6. owed \subseteq feedback \cap repairs /\ owed \subseteq Writer!Role
      BY <1>3 DEF WriterInv, Writer!TypeOK
    <2>7. owed' = {} /\ owed \cap View = {}
      BY <1>2, <2>6 DEF Writer!Role
    <2>8. Writer!AnswersRepairs
      BY <1>1, <2>6, <2>7 DEF Writer!AnswersRepairs, Writer!Feedback
    <2>9. report'.basis = Writer!Basis' /\ DecidedOn(report.decisions)'
      BY <1>1, <2>3, <2>4, SameResults DEF DecidedOn, Writer!GapsAreDecided
    <2>10. Writer!Agree(Writer!Range(results))'
      BY <1>1, <1>3 DEF Writer!Agree
    <2> QED
      BY <1>2, <2>2, <2>5, <2>7, <2>8, <2>9, <2>10
         DEF WriterInv, Writer!PaidReportIsSound
  <1> QED
    BY <1>6, <1>7, <1>8

LEMMA WriterStep ==
  ASSUME WriterInv, [Writer!Next]_(Writer!vars)
  PROVE  WriterInv' /\ Writer!AnswersRepairs
  <1>1. CASE \/ Writer!Evaluate \/ Writer!Publish \/ Writer!Stop \/ UNCHANGED Writer!vars
    <2>1. results' = results /\ report' = report /\ attempts' = attempts /\ told' = told
      BY <1>1 DEF Writer!Evaluate, Writer!Publish, Writer!Stop, Writer!vars
    <2>2. /\ verdict' = verdict \/ (verdict' \in {"passed", "revise"} /\ report # Writer!None)
          /\ \/ UNCHANGED <<feedback, repairs, owed>>
             \/ feedback' \subseteq Writer!Role /\ repairs' = feedback' /\ owed' = feedback'
          /\ status' \in {status, "limit_exceeded", "completed"}
          /\ status' = "completed" => status = "completed" \/ verdict' = "passed"
          /\ status = "completed" => verdict' = verdict
      BY <1>1 DEF Writer!Evaluate, Writer!Publish, Writer!Stop, Writer!vars
    <2>3. Writer!TypeOK'
      BY <2>1, <2>2 DEF WriterInv, Writer!TypeOK
    <2>4. owed' \subseteq feedback' \cap repairs'
      BY <2>2 DEF WriterInv
    <2>5. /\ report' # Writer!None => report'.basis = Writer!Basis' /\ DecidedOn(report.decisions)'
          /\ Writer!Agree(Writer!Range(results))'
      BY <2>1, SameResults DEF WriterInv, DecidedOn, Writer!GapsAreDecided, Writer!Agree
    <2>6. /\ verdict' # "none" => report' # Writer!None
          /\ status' = "completed" => verdict' = "passed"
          /\ status' # "report_contract"
      BY <2>1, <2>2 DEF WriterInv, Writer!PaidReportIsSound
    <2> QED
      BY <2>1, <2>3, <2>4, <2>5, <2>6
         DEF WriterInv, Writer!PaidReportIsSound, Writer!AnswersRepairs
  <1> QED
    BY <1>1, ResearchInv, WriteInv DEF Writer!Next

LEMMA WriterInit ==
  ASSUME Writer!Init
  PROVE  WriterInv
  <1>1. Writer!TypeOK
    <2>1. attempts = [r \in Writer!Role |-> 0] /\ results = [v \in View |-> Writer!None]
      BY DEF Writer!Init
    <2>2. /\ attempts \in [Writer!Role -> Nat] /\ attempts["writer"] <= MaxWriter
          /\ \A v \in View : attempts[v] <= MaxResearch
      BY <2>1, WriterConstants DEF Writer!Role
    <2> QED
      BY <2>1, <2>2 DEF Writer!Init, Writer!TypeOK
  <1>2. Writer!Agree(Writer!Range(results))
    BY DEF Writer!Init, Writer!Agree, Writer!Range
  <1> QED
    BY <1>1, <1>2 DEF Writer!Init, WriterInv, Writer!PaidReportIsSound

LEMMA WriterInvSuffices ==
  ASSUME WriterInv
  PROVE  Writer!ReportIsSound
  <1>1. Writer!DecisionsAreCurrent
    BY DEF WriterInv, DecidedOn, Writer!DecisionsAreCurrent
  <1>2. Writer!RegistriesAgree
    <2>1. \A v \in View : results[v] \in Writer!Range(results)
      BY DEF WriterInv, Writer!TypeOK, Writer!Range
    <2>2. \A u, v \in View : Writer!Current(u) /\ Writer!Current(v) => results[u].copy = results[v].copy
      BY <2>1 DEF WriterInv, Writer!Agree, Writer!Current
    <2> QED
      BY <2>2 DEF WriterInv, Writer!RegistriesAgree
  <1> QED
    BY <1>1, <1>2 DEF WriterInv, Writer!ReportIsSound

-------------------------------------------------------------------------------
(* The theorems. *)

LEMMA FollowupPart ==
  ASSUME [Next]_all, part' = "followup"
  PROVE  part = "followup" /\ [Followup!Next]_(Followup!vars)
  BY DEF Next, all, Followup!vars

LEMMA ExperimentPart ==
  ASSUME [Next]_all, part' = "experiment" \/ part = "experiment"
  PROVE  part = "experiment" /\ [Experiment!Next]_(Experiment!vars)
  BY DEF Next, all, Experiment!vars, Experiment!files

LEMMA EvaluationPart ==
  ASSUME [Next]_all, part' = "evaluation"
  PROVE  part = "evaluation" /\ [Evaluation!Next]_(Evaluation!vars)
  BY DEF Next, all, Evaluation!vars

LEMMA WriterPart ==
  ASSUME [Next]_all, part' = "writer" \/ part = "writer"
  PROVE  part = "writer" /\ [Writer!Next]_(Writer!vars)
  BY DEF Next, all, Writer!vars

(* Whatever the feedback, the searches and the model come up with, a       *)
(* reassessment of a followup view keeps the claims of the other facets,   *)
(* searched again for everything it reports as unknown, and cites only     *)
(* current evidence it was shown (agents/researchers/followup.py).         *)
THEOREM FollowupCorrect == Spec => []FollowupIsSound
  <1> DEFINE Inv == part = "followup" => FollowupInv
  <1>1. Init => Inv
    BY FollowupInit DEF Init
  <1>2. Inv /\ [Next]_all => Inv'
    BY FollowupPart, FollowupStep
  <1>3. Inv => FollowupIsSound
    BY FollowupInvSuffices DEF FollowupIsSound
  <1> QED
    BY <1>1, <1>2, <1>3, PTL DEF Spec

(* Whatever is measured, edited, or torn by a command that died: a change  *)
(* of the retrieval configuration has passed every gate over the frozen    *)
(* chunks, the holdout stays unseen until the choice is locked, and what   *)
(* died can be given again (scripts/retrieval_experiments.py).             *)
THEOREM ExperimentCorrect == Spec => []ExperimentIsSound
  <1> DEFINE Inv == part = "experiment" => ExperimentInv
  <1>1. Init => Inv
    BY ExperimentInit DEF Init
  <1>2. Inv /\ [Next]_all => Inv'
    BY ExperimentPart, ExperimentStep
  <1>3. Inv => ExperimentIsSound
    BY ExperimentInvSuffices DEF ExperimentIsSound
  <1> QED
    BY <1>1, <1>2, <1>3, PTL DEF Spec

(* Behind the lock, no command changes the selection, the results it was   *)
(* made from, or a decision that was taken.                                *)
THEOREM ChoiceCorrect == Spec => ChoiceIsFinal
  <1> DEFINE Inv == part = "experiment" => ExperimentInv
             Keeps == part = "experiment" => Experiment!KeepsChoice
  <1>1. Init => Inv
    BY ExperimentInit DEF Init
  <1>2. Inv /\ [Next]_all => Inv'
    BY ExperimentPart, ExperimentStep
  <1>3. Inv /\ [Next]_all => [Keeps]_all
    BY ExperimentPart, ExperimentStep
  <1>4. Spec => [][Keeps]_all
    BY <1>1, <1>2, <1>3, PTL DEF Spec
  <1> QED
    BY <1>4 DEF ChoiceIsFinal

(* Whatever the report leaves out, whatever is wrong with its layout and   *)
(* whatever the Judge answers: a verdict covers up no failed code check    *)
(* and no finding, and what it asks for reaches the role that can do it,   *)
(* the writer last (rag/evaluator.py).                                     *)
THEOREM VerdictCorrect == Spec => []VerdictIsSound
  <1> DEFINE Inv == part = "evaluation" => EvaluationInv
  <1>1. Init => Inv
    BY EvaluationInit DEF Init
  <1>2. Inv /\ [Next]_all => Inv'
    BY EvaluationPart, EvaluationStep
  <1>3. Inv => VerdictIsSound
    BY EvaluationInvSuffices DEF VerdictIsSound
  <1> QED
    BY <1>1, <1>2, <1>3, PTL DEF Spec

(* However the gaps fall into batches and the views come and go: a report  *)
(* decides exactly the gaps of the research it was drawn from, what was    *)
(* paid for is never rejected at the end (rag/writer.py), and the results  *)
(* in use agree on the chunks they share (worker() of supervisor.py).      *)
THEOREM ReportCorrect == Spec => []ReportIsSound
  <1> DEFINE Inv == part = "writer" => WriterInv
  <1>1. Init => Inv
    BY WriterInit DEF Init
  <1>2. Inv /\ [Next]_all => Inv'
    BY WriterPart, WriterStep
  <1>3. Inv => ReportIsSound
    BY WriterInvSuffices DEF ReportIsSound
  <1> QED
    BY <1>1, <1>2, <1>3, PTL DEF Spec

(* No report follows a verdict before every view it names was researched   *)
(* again and the writer, if it is named, was told so.                      *)
THEOREM RepairsCorrect == Spec => RepairsAreAnswered
  <1> DEFINE Inv == part = "writer" => WriterInv
             Answers == part = "writer" => Writer!AnswersRepairs
  <1>1. Init => Inv
    BY WriterInit DEF Init
  <1>2. Inv /\ [Next]_all => Inv'
    BY WriterPart, WriterStep
  <1>3. Inv /\ [Next]_all => [Answers]_all
    BY WriterPart, WriterStep
  <1>4. Spec => [][Answers]_all
    BY <1>1, <1>2, <1>3, PTL DEF Spec
  <1> QED
    BY <1>4 DEF RepairsAreAnswered

===============================================================================
