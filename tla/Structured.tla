------------------------------ MODULE Structured ------------------------------
(***************************************************************************)
(* Pipeline.structured of rag/graph.py with rag/repair.py: one structured  *)
(* answer, checked in full; a faulty one gets one correction round, which  *)
(* is split into typed patches of single citations, claims or the layout   *)
(* where the errors allow it, and is one whole correction otherwise.       *)
(*                                                                         *)
(* A value is its claims and the rest.  A claim has a body (everything its *)
(* patch may not touch) and at most one fault; quotations are reduced to   *)
(* how the code can tell them apart:                                       *)
(*   wrapped    a PDF line wrap of a unique source span                    *)
(*   misplaced  found in exactly one other chunk than the cited one        *)
(*   unbound    cites an unknown chunk, or is found in several others      *)
(*   absent     found nowhere in the supplied chunks                       *)
(*   field      lacks conditions, caveats or references                    *)
(*   other      any fault plan_repairs has no unit for                     *)
(***************************************************************************)
EXTENDS Naturals, SequencesExt

CONSTANTS
    Claims,     \* the claims of an answer, in order
    MaxUnits    \* the bound on the units of a correction (8)

Claim == ToSet(Claims)

ClaimsAssumption ==
    /\ Claims \in Seq(Claim) /\ IsInjective(Claims)
    /\ "layout" \notin Claim /\ "whole" \notin Claim
MaxUnitsAssumption == MaxUnits \in Nat \ {0}

Faults == {"none", "wrapped", "misplaced", "unbound", "absent", "field", "other"}

ClaimValue == [body : {"original", "draft", "altered"}, fault : Faults]

(* The rest: summary and sections of a report ("layout"), the identities   *)
(* (technology, facet) of the claims, and everything else.                 *)
Value == [claims : [Claim -> ClaimValue],
          rest   : {"fine", "layout", "identities", "other"}]

Unit == Claim \cup {"layout", "whole"}

VARIABLES
    kind,       \* "assessment", "reassessment" or "report"
    missing,    \* the claims a reassessment asks for anew
    phase,
    value,      \* the value at hand: a set that is empty if nothing was parsed
    units,      \* the correction units
    left,       \* those the present pass over them has yet to come to
    rejected,   \* the answer of the first call is on file with its errors
    outcome,    \* what structured() returns or raises
    first,      \* history: the first answer that could be parsed
    paid        \* history: correction units handed to the gateway

vars == <<kind, missing, phase, value, units, left, rejected, outcome, first, paid>>

NoOutcome == [result |-> "none", value |-> {}]

Raises(code) ==
    /\ phase' = "ended"
    /\ outcome' = [result |-> code, value |-> {}]

Returns(v) ==
    /\ phase' = "ended"
    /\ outcome' = [result |-> "value", value |-> {v}]

-------------------------------------------------------------------------------
(* validate(): restoring what code can restore, then the full check. *)

(* restore_verbatim_references: a wrapped quotation becomes its source.    *)
RestoreVerbatim(v) ==
    [v EXCEPT !.claims = [c \in Claim |->
        IF @[c].fault = "wrapped" THEN [@[c] EXCEPT !.fault = "none"] ELSE @[c]]]

(* restore_sufficient: in a reassessment the sufficient claims are put     *)
(* back, unless the identities of the answer are not those of the original.*)
RestoreSufficient(v) ==
    IF kind = "reassessment" /\ v.rest # "identities"
    THEN [v EXCEPT !.claims = [c \in Claim |->
            IF c \in missing THEN @[c] ELSE [body |-> "original", fault |-> "none"]]]
    ELSE v

Restored(v) == RestoreSufficient(RestoreVerbatim(v))

Faulty(v) == {c \in Claim : v.claims[c].fault # "none"}

Passes(v) == Faulty(v) = {} /\ v.rest = "fine"

-------------------------------------------------------------------------------
(* plan_repairs and apply_patch. *)

(* Errors without a unit of their own need a correction of the whole.      *)
Patchable(v) ==
    /\ \A c \in Claim : v.claims[c].fault # "other"
    /\ v.rest \in {"fine"} \cup IF kind = "report" THEN {"layout"} ELSE {}

PlanRepairs(v) == Faulty(v) \cup IF v.rest = "layout" THEN {"layout"} ELSE {}

(* A misplaced quotation is rebound by code, without a model call. *)
Deterministic(v, u) == u \in Claim /\ v.claims[u].fault = "misplaced"

(* Variant: a claim patch may touch the body of the claim. *)
PatchedFreely(v, u) ==
    IF u = "layout"
    THEN {[v EXCEPT !.rest = r] : r \in {"fine", "layout", "other"}}
    ELSE {[v EXCEPT !.claims[u] = [body |-> b, fault |-> f]] :
            b \in {v.claims[u].body, "altered"}, f \in Faults}

(* The values apply_patch may produce for a unit; anything else the model  *)
(* answers is rejected.  A citation patch replaces a quotation unchecked,  *)
(* a rebind must be an exact quotation, a claim patch leaves all fields    *)
(* but the requested ones alone.                                           *)
Patched(v, u) ==
    IF u = "layout"
    THEN {[v EXCEPT !.rest = r] : r \in {"fine", "layout", "other"}}
    ELSE {[v EXCEPT !.claims[u].fault = f] :
            f \in CASE v.claims[u].fault \in {"misplaced", "unbound"} -> {"none"}
                    [] v.claims[u].fault = "absent" -> Faults \ {"field"}
                    [] OTHER -> Faults}

-------------------------------------------------------------------------------
(* The first answer. *)

(* Conflicting duplicate chunks, an input over the budget, a failed count. *)
Count ==
    /\ phase = "count"
    /\ \/ phase' = "ask" /\ UNCHANGED outcome
       \/ \E code \in {"conflict", "over_budget", "provider"} : Raises(code)
    /\ UNCHANGED <<kind, missing, value, units, left, rejected, first, paid>>

(* What a model may answer for this kind of request. *)
Answers ==
    [claims : [Claim -> [body : {"draft"}, fault : Faults]],
     rest   : {"fine", "other"} \cup IF kind = "report" THEN {"layout"} ELSE {"identities"}]

Ask ==
    /\ phase = "ask"
    /\ \/ /\ phase' = "check"
          /\ \E v \in Answers :
                /\ value' = {Restored(v)}
                /\ first' = {Restored(v)}
          /\ UNCHANGED outcome
       \/ /\ phase' = "check"
          /\ UNCHANGED <<value, first, outcome>>
       \/ /\ Raises("provider")
          /\ UNCHANGED <<value, first>>
    /\ UNCHANGED <<kind, missing, units, left, rejected, paid>>

(* A faulty answer is put on file; more units than the bound are refused.  *)
Plan ==
    /\ rejected' = TRUE
    /\ IF value # {} /\ \A v \in value : Patchable(v)
       THEN \E v \in value :
              IF Cardinality(PlanRepairs(v)) > MaxUnits
              THEN Raises("over_budget") /\ UNCHANGED <<units, left>>
              ELSE /\ units' = PlanRepairs(v)
                   /\ left' = PlanRepairs(v)
                   /\ phase' = "count_units"
                   /\ UNCHANGED outcome
       ELSE /\ phase' = "count_whole"
            /\ UNCHANGED <<units, left, outcome>>

Check ==
    /\ phase = "check"
    /\ \/ \E v \in value : Passes(v) /\ Returns(v) /\ UNCHANGED <<units, left, rejected>>
       \/ (\A v \in value : ~Passes(v)) /\ Plan
    /\ UNCHANGED <<kind, missing, value, first, paid>>

-------------------------------------------------------------------------------
(* The correction in units. *)

Before(u, w) ==
    \/ u # "layout" /\ w = "layout"
    \/ \E i, j \in DOMAIN Claims : i < j /\ Claims[i] = u /\ Claims[j] = w

(* Both passes go through the units from the first to the last. *)
Current(u) == u \in left /\ \A w \in left \ {u} : Before(u, w)

AtLast(u) == left = {u}

Following(u) == IF AtLast(u) THEN units ELSE left \ {u}

(* Variant: the first unit is patched before the others are counted. *)
CountUnitLate ==
    /\ phase = "count_units"
    /\ \/ /\ phase' = "patch"
          /\ UNCHANGED <<left, outcome>>
       \/ /\ \E code \in {"over_budget", "provider"} : Raises(code)
          /\ UNCHANGED left
    /\ UNCHANGED <<kind, missing, value, units, rejected, first, paid>>

(* "Count all model correction units before the first paid repair." *)
CountUnit ==
    /\ phase = "count_units"
    /\ \E u \in units :
          /\ Current(u)
          /\ \/ /\ left' = Following(u)
                /\ phase' = IF AtLast(u) THEN "patch" ELSE phase
                /\ UNCHANGED outcome
             \/ /\ \A v \in value : ~Deterministic(v, u)
                /\ \E code \in {"over_budget", "provider"} : Raises(code)
                /\ UNCHANGED left
    /\ UNCHANGED <<kind, missing, value, units, rejected, first, paid>>

(* Each unit is generated (or computed) once and merged; an answer         *)
(* apply_patch rejects ends the correction.                                *)
Patch ==
    /\ phase = "patch"
    /\ \E v \in value, u \in units :
          /\ Current(u)
          /\ \/ /\ \E w \in Patched(v, u) : value' = {w}
                /\ paid' = paid \cup IF Deterministic(v, u) THEN {} ELSE {u}
                /\ left' = Following(u)
                /\ phase' = IF AtLast(u) THEN "merge" ELSE phase
                /\ UNCHANGED outcome
             \/ /\ ~Deterministic(v, u)
                /\ paid' = paid \cup {u}
                /\ \E code \in {"invalid", "provider"} : Raises(code)
                /\ UNCHANGED <<value, left>>
    /\ UNCHANGED <<kind, missing, units, rejected, first>>

(* The merged value is restored and checked in full. *)
Merge ==
    /\ phase = "merge"
    /\ \E v \in value :
          \/ Passes(Restored(v)) /\ Returns(Restored(v))
          \/ ~Passes(Restored(v)) /\ Raises("invalid")
    /\ UNCHANGED <<kind, missing, value, units, left, rejected, first, paid>>

-------------------------------------------------------------------------------
(* The correction of the whole. *)

CountWhole ==
    /\ phase = "count_whole"
    /\ \/ phase' = "whole" /\ UNCHANGED outcome
       \/ \E code \in {"over_budget", "provider"} : Raises(code)
    /\ UNCHANGED <<kind, missing, value, units, left, rejected, first, paid>>

Whole ==
    /\ phase = "whole"
    /\ paid' = paid \cup {"whole"}
    /\ \/ \E v \in Answers :
            \/ Passes(Restored(v)) /\ Returns(Restored(v))
            \/ ~Passes(Restored(v)) /\ Raises("invalid")
       \/ \E code \in {"invalid", "provider"} : Raises(code)
    /\ UNCHANGED <<kind, missing, value, units, left, rejected, first>>

-------------------------------------------------------------------------------

Init ==
    /\ kind \in {"assessment", "reassessment", "report"}
    /\ missing \in IF kind = "reassessment" THEN SUBSET Claim \ {{}} ELSE {Claim}
    /\ phase = "count"
    /\ value = {}
    /\ units = {}
    /\ left = {}
    /\ rejected = FALSE
    /\ outcome = NoOutcome
    /\ first = {}
    /\ paid = {}

Next ==
    \/ Count \/ Ask \/ Check
    \/ CountUnit \/ Patch \/ Merge
    \/ CountWhole \/ Whole

Spec == Init /\ [][Next]_vars

(* One thread runs structured(); model calls have time limits. *)
FairSpec == Spec /\ WF_vars(Next)

-------------------------------------------------------------------------------
(* Properties. *)

(* Every variable has its type; the values at hand are values of the model.*)
TypeOK ==
    /\ kind \in {"assessment", "reassessment", "report"}
    /\ missing \subseteq Claim
    /\ phase \in {"count", "ask", "check", "count_units", "patch", "merge",
                  "count_whole", "whole", "ended"}
    /\ value \subseteq Value /\ \A v, w \in value : v = w
    /\ units \subseteq Unit /\ left \subseteq units
    /\ rejected \in BOOLEAN
    /\ outcome.result \in {"none", "value", "conflict", "over_budget", "provider", "invalid"}
    /\ outcome.value \subseteq Value
    /\ first \subseteq Value /\ \A f, g \in first : f = g
    /\ paid \subseteq Unit

(* A value is returned only if it passes the full check, after whichever   *)
(* combination of patches: fixing one item can break another.              *)
ReturnedIsValid == \A v \in outcome.value : Passes(v)

(* A correction in units changes nothing but what was found faulty: the    *)
(* other claims are those of the first answer, and of the faulty ones the  *)
(* body is ("no unit can change unrequested fields or omit another claim").*)
OnlyFaultsAreCorrected ==
    units # {} =>
        \A v \in outcome.value, f \in first, c \in Claim :
            /\ v.claims[c].body = f.claims[c].body
            /\ c \notin Faulty(f) => v.claims[c] = f.claims[c]

(* The sufficient claims of the original survive a reassessment whatever   *)
(* the model answers, and no correction is ever paid for one of them.      *)
SufficientSurvives ==
    kind = "reassessment" =>
        \A c \in Claim \ missing :
            /\ \A v \in outcome.value : v.claims[c].body = "original"
            /\ c \notin paid

(* A rejected answer is on file with its errors before its correction is   *)
(* paid, and a correction is at most MaxUnits calls or one whole one.      *)
CorrectionIsBounded ==
    /\ paid # {} => rejected
    /\ Cardinality(paid) <= MaxUnits
    /\ "whole" \in paid => paid = {"whole"}

(* The units that need a call of their own, and those counted so far. *)
ModelUnits == {u \in units : \A f \in first : ~Deterministic(f, u)}

CountedUnits ==
    IF phase = "count_units" \/ (phase = "ended" /\ paid = {})
    THEN ModelUnits \ left
    ELSE ModelUnits

(* "Count all model correction units before the first paid repair": a      *)
(* correction in units keeps the promise of AllOrNothing.                  *)
Promise == INSTANCE AllOrNothing WITH
    Unit    <- Claim \cup {"layout"},
    plan    <- ModelUnits,
    counted <- CountedUnits,
    paid    <- paid \ {"whole"},
    result  <- CASE outcome.result = "none" -> "none"
                 [] outcome.result = "value" -> "delivered"
                 [] OTHER -> "failed"

PaidAllOrNothing == Promise!Spec

(* Every structured request ends. *)
Over == phase = "ended"

Ends == <>Over

(* What a caller of structured() relies on: a value that passes, in which  *)
(* a bounded correction has touched nothing but the faults.                *)
AnswerIsSound ==
    /\ TypeOK
    /\ ReturnedIsValid
    /\ OnlyFaultsAreCorrected
    /\ SufficientSurvives
    /\ CorrectionIsBounded

===============================================================================
