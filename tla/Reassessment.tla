----------------------------- MODULE Reassessment -----------------------------
(***************************************************************************)
(* reassess_facets of rag/reassessment.py.  A reassessment of the facets   *)
(* that lacked evidence is sent whole if its exact count fits; otherwise   *)
(* the coordinator splits it into one unit per missing facet, counts every *)
(* unit, runs them in a thread pool, records what completed in a file, and *)
(* merges the answers into the original assessment or raises.              *)
(*                                                                         *)
(* The two claims of a facet (one per technology) are one value: whether   *)
(* they came from the original or from this request, and whether one of    *)
(* them is of kind "unknown".  A structured call is one step of a thread;  *)
(* its own correction round is module Structured.                          *)
(***************************************************************************)
EXTENDS Naturals, SequencesExt

CONSTANTS
    Facet,      \* the facets of the view (three in the contract)
    Workers     \* RAG_MAX_CONCURRENCY

FacetAssumption == IsFiniteSet(Facet)
WorkersAssumption == Workers \in Nat \ {0}

Failures == {"uncertain_request", "definite"}

VARIABLES
    missing,    \* content["missing_facets"], in request order
    phase,      \* of the coordinator
    counted,    \* number of units counted
    worker,     \* what each unit's thread is doing or how it ended
    failure,    \* what it raised
    unknown,    \* facets whose new claims contain an unknown
    handled,    \* units as_completed has returned
    file,       \* the evidence file: its status and completed facets
    outcome,    \* what the caller gets
    paid        \* history: units handed to the gateway

vars == <<missing, phase, counted, worker, failure, unknown,
          handled, file, outcome, paid>>

Missing == ToSet(missing)

NoFile == [status |-> "absent", completed |-> {}]

(* The facets whose claims the result takes from this request, those with  *)
(* an unknown claim, the status and the error.                             *)
Outcome == [result : {"none", "ok", "insufficient", "failed"},
            code : Failures \cup {"none", "over_budget"},
            new : SUBSET Facet, unknown : SUBSET Facet]

NoOutcome == [result |-> "none", code |-> "none", new |-> {}, unknown |-> {}]

-------------------------------------------------------------------------------
(* The coordinator up to the pool. *)

Raises(code) ==
    /\ phase' = "ended"
    /\ outcome' = [NoOutcome EXCEPT !.result = "failed", !.code = code]

(* The whole request is counted: it fits, it is too long, or the count     *)
(* fails or breaks a limit that splitting does not help.                   *)
CountWhole ==
    /\ phase = "start"
    /\ \/ phase' = "whole" /\ UNCHANGED outcome
       \/ phase' = "units" /\ UNCHANGED outcome
       \/ \E code \in {"definite", "over_budget"} : Raises(code)
    /\ UNCHANGED <<missing, counted, worker, failure, unknown,
                   handled, file, paid>>

(* One structured call for all missing facets; structured() restores the   *)
(* sufficient claims.  The model chooses the status.                       *)
AssessWhole ==
    /\ phase = "whole"
    /\ \/ /\ phase' = "ended"
          /\ \E u \in SUBSET Missing, status \in {"ok", "insufficient"} :
                outcome' = [result |-> status, code |-> "none",
                            new |-> Missing, unknown |-> u]
       \/ \E code \in Failures : Raises(code)
    /\ UNCHANGED <<missing, counted, worker, failure, unknown,
                   handled, file, paid>>

(* The exact count of the next unit is refused, or the provider fails. *)
CountFails ==
    /\ \E code \in {"definite", "over_budget"} : Raises(code)
    /\ file' = [file EXCEPT !.status = "failed"]
    /\ UNCHANGED counted

AllCounted ==
    /\ phase' = "pool"
    /\ file' = [file EXCEPT !.status = "preflight_passed"]

(* Every unit is counted before any is generated. *)
CountUnit ==
    /\ phase = "units"
    /\ \/ /\ counted' = counted + 1
          /\ IF counted' = Len(missing) THEN AllCounted ELSE UNCHANGED <<phase, file>>
          /\ UNCHANGED outcome
       \/ CountFails
    /\ UNCHANGED <<missing, worker, failure, unknown, handled, paid>>

-------------------------------------------------------------------------------
(* The pool: run_unit in a thread, and the coordinator's as_completed. *)

Running == {f \in Facet : worker[f] = "running"}

Succeeded == {f \in Facet : worker[f] \in {"ok", "insufficient"}}

Start ==
    /\ phase = "pool"
    /\ Cardinality(Running) < Workers
    /\ \E i \in DOMAIN missing :
          /\ worker[missing[i]] = "idle"
          /\ \A j \in 1 .. i - 1 : worker[missing[j]] # "idle"
          /\ worker' = [worker EXCEPT ![missing[i]] = "running"]
          /\ paid' = paid \cup {missing[i]}
    /\ UNCHANGED <<missing, phase, counted, failure, unknown,
                   handled, file, outcome>>

(* A unit is insufficient or not, whatever it says of unknown claims. *)
RunUnit(f) ==
    /\ worker[f] = "running"
    /\ \/ \E state \in {"ok", "insufficient"}, gap \in BOOLEAN :
            /\ worker' = [worker EXCEPT ![f] = state]
            /\ unknown' = IF gap THEN unknown \cup {f} ELSE unknown
            /\ UNCHANGED failure
       \/ \E code \in Failures :
            /\ worker' = [worker EXCEPT ![f] = "failed"]
            /\ failure' = [failure EXCEPT ![f] = code]
            /\ UNCHANGED unknown
    /\ UNCHANGED <<missing, phase, counted, handled, file, outcome, paid>>

(* as_completed returns a future: completed or failed, progress is saved. *)
Handle(f) ==
    /\ phase = "pool"
    /\ worker[f] \in {"ok", "insufficient", "failed"}
    /\ f \notin handled
    /\ handled' = handled \cup {f}
    /\ file' = [status |-> "partial", completed |-> handled' \cap Succeeded]
    /\ UNCHANGED <<missing, phase, counted, worker, failure, unknown,
                   outcome, paid>>

-------------------------------------------------------------------------------
(* The merge. *)

FirstFailure(i) ==
    /\ worker[missing[i]] = "failed"
    /\ \A j \in 1 .. i - 1 : worker[missing[j]] # "failed"

(* The new claims replace the original ones of their facets; one unknown   *)
(* claim or insufficient unit makes the whole assessment insufficient.     *)
(* The missing facets include every facet whose original claims were       *)
(* unknown, so no preserved claim is.                                      *)
Merged ==
    [result  |-> IF unknown # {} \/ \E f \in Missing : worker[f] = "insufficient"
                 THEN "insufficient" ELSE "ok",
     code    |-> "none",
     new     |-> Missing,
     unknown |-> unknown]

(* Variant: the request fails while units still run. *)
ConcludeEarly ==
    /\ phase = "pool"
    /\ \/ /\ Missing \subseteq handled
          /\ \A f \in Missing : worker[f] # "failed"
          /\ \/ /\ phase' = "ended"
                /\ outcome' = Merged
                /\ file' = [file EXCEPT !.status = "validated"]
             \/ /\ Raises("definite")
                /\ file' = [file EXCEPT !.status = "failed"]
       \/ /\ \E f \in handled : worker[f] = "failed"
          /\ \E i \in DOMAIN missing : FirstFailure(i) /\ Raises(failure[missing[i]])
          /\ file' = [file EXCEPT !.status = "failed"]
    /\ UNCHANGED <<missing, counted, worker, failure, unknown,
                   handled, paid>>

(* After the pool is drained: the first failure in request order, or the   *)
(* merged assessment unless the full check rejects it.                     *)
Conclude ==
    /\ phase = "pool"
    /\ Missing \subseteq handled
    /\ \/ /\ \A f \in Missing : worker[f] # "failed"
          /\ phase' = "ended"
          /\ outcome' = Merged
          /\ file' = [file EXCEPT !.status = "validated"]
       \/ /\ \A f \in Missing : worker[f] # "failed"
          /\ Raises("definite")
          /\ file' = [file EXCEPT !.status = "failed"]
       \/ /\ \E i \in DOMAIN missing : FirstFailure(i) /\ Raises(failure[missing[i]])
          /\ file' = [file EXCEPT !.status = "failed"]
    /\ UNCHANGED <<missing, counted, worker, failure, unknown,
                   handled, paid>>

-------------------------------------------------------------------------------

(* _missing_facets and the check of the feedback rewrite give one to three *)
(* distinct facets of the view, in the order they are requested in.        *)
Init ==
    /\ missing \in UNION {[1 .. n -> Facet] : n \in 1 .. Cardinality(Facet)}
    /\ IsInjective(missing)
    /\ phase = "start"
    /\ counted = 0
    /\ worker = [f \in Facet |-> "idle"]
    /\ failure = [f \in Facet |-> "none"]
    /\ unknown = {}
    /\ handled = {}
    /\ file = NoFile
    /\ outcome = NoOutcome
    /\ paid = {}

Coordinator ==
    \/ CountWhole \/ AssessWhole \/ CountUnit \/ Start \/ Conclude
    \/ \E f \in Facet : Handle(f)

Next == Coordinator \/ \E f \in Facet : RunUnit(f)

Spec == Init /\ [][Next]_vars

(* The coordinator and the pool threads are scheduled; calls have timeouts. *)
FairSpec ==
    /\ Spec
    /\ WF_vars(Coordinator)
    /\ \A f \in Facet : WF_vars(RunUnit(f))

-------------------------------------------------------------------------------
(* Properties. *)

(* Every variable has its type; outcomes carry a code exactly on failure. *)
TypeOK ==
    /\ missing \in Seq(Facet)
    /\ phase \in {"start", "whole", "units", "pool", "ended"}
    /\ counted \in 0 .. Len(missing)
    /\ worker \in [Facet -> {"idle", "running", "ok", "insufficient", "failed"}]
    /\ failure \in [Facet -> Failures \cup {"none"}]
    /\ unknown \in SUBSET Facet
    /\ handled \in SUBSET Facet
    /\ file \in [status : {"absent", "preflight_passed", "partial", "failed", "validated"},
                 completed : SUBSET Facet]
    /\ outcome \in Outcome
    /\ paid \in SUBSET Facet

Counted == {missing[i] : i \in 1 .. counted}

(* The split keeps its promise: every unit is counted before one is paid   *)
(* ("Preflight every complete unit before allowing any generation"), and a *)
(* result is delivered only if all of them were.                           *)
Promise == INSTANCE AllOrNothing WITH
    Unit    <- Facet,
    plan    <- IF phase = "units" \/ file.status # "absent" THEN Missing ELSE {},
    counted <- Counted,
    paid    <- paid,
    result  <- IF outcome.result = "none" THEN "none"
               ELSE IF outcome.result = "failed" THEN "failed" ELSE "delivered"

PaidAllOrNothing == Promise!Spec

(* A result or an error leaves only after every thread has ended, and then *)
(* the evidence file holds exactly the facets that completed: "Drain all   *)
(* workers before failing so successful sibling evidence survives".        *)
EvidenceSurvives ==
    phase = "ended" =>
        /\ Running = {}
        /\ file.status # "absent" => file.completed = Succeeded

(* A merged assessment is "ok" only if every unit was and no claim of it,  *)
(* new or preserved, is unknown; the claims of the other facets are the    *)
(* original ones, those of the requested facets the new ones.              *)
MergeIsHonest ==
    phase = "ended" /\ file.status = "validated" =>
        /\ outcome.new = Missing
        /\ unknown \subseteq outcome.unknown
        /\ outcome.result = "ok" =>
              /\ outcome.unknown = {}
              /\ \A f \in Missing : worker[f] = "ok"

(* Every reassessment ends, whichever units fail. *)
Over == phase = "ended"

Ends == <>Over

(* What a reassessment leaves: its evidence file and the merged result.    *)
MergeIsSound == TypeOK /\ EvidenceSurvives /\ MergeIsHonest

===============================================================================
