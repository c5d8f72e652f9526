------------------------------ MODULE CallsProofs -----------------------------
(***************************************************************************)
(* Proofs about the paid calls that module MCCalls checks side by side:    *)
(* reassessments, structured answers with their corrections, and the exact *)
(* counting of requests.  Each part has an invariant of its own; MCCalls   *)
(* keeps the invariant of the part that is being executed.                 *)
(***************************************************************************)
EXTENDS MCCalls, FiniteSetTheorems, SequenceTheorems, WellFoundedInduction, TLAPS

(* Facet reassessment. *)

(* The facets asked for are distinct. *)
PlanOK ==
    /\ missing \in Seq(Facets) /\ Len(missing) > 0
    /\ \A i, j \in 1 .. Len(missing) : missing[i] = missing[j] => i = j

(* Until every unit is counted nothing is started, and nothing on file.    *)
BeforePoolOK ==
    /\ phase \in {"start", "whole"} => counted = 0
    /\ phase = "units" => counted < Len(missing)
    /\ phase \in {"start", "whole", "units"} =>
          /\ file = Reassessment!NoFile
          /\ outcome = Reassessment!NoOutcome
          /\ paid = {}
    /\ phase = "pool" =>
          /\ outcome = Reassessment!NoOutcome
          /\ file.status \in {"preflight_passed", "partial"}

(* Whoever has run was paid for, after all units were counted.             *)
PaidOK ==
    /\ paid \subseteq Reassessment!Missing
    /\ \A f \in Facets : worker[f] = "idle" <=> f \notin paid
    /\ paid # {} => counted = Len(missing)
    /\ phase = "pool" => counted = Len(missing)

(* What has been handled is over, and what it brought is on file.          *)
HandledOK ==
    /\ \A f \in handled : worker[f] \in {"ok", "insufficient", "failed"}
    /\ unknown \subseteq Reassessment!Succeeded
    /\ file.completed = handled \cap Reassessment!Succeeded

(* A reassessment that ended has waited for its threads; one that          *)
(* validated its file had no failing unit.                                 *)
EndedOK ==
    /\ phase = "ended" => outcome.result # "none" /\ paid \subseteq handled
    /\ phase = "ended" /\ file.status = "validated" =>
          /\ outcome = Reassessment!Merged
          /\ Reassessment!Missing \subseteq handled
          /\ \A f \in Reassessment!Missing : worker[f] # "failed"
    /\ phase = "ended" /\ outcome.result # "failed" /\ file.status # "absent" =>
          Reassessment!Missing \subseteq handled

MergeInv ==
    /\ Reassessment!TypeOK
    /\ PlanOK /\ BeforePoolOK /\ PaidOK /\ HandledOK /\ EndedOK

LEMMA MergeInvSuffices ==
  ASSUME MergeInv
  PROVE  Reassessment!MergeIsSound
  <1>1. Reassessment!EvidenceSurvives
    <2> SUFFICES ASSUME phase = "ended"
                 PROVE  /\ Reassessment!Running = {}
                        /\ file.completed = Reassessment!Succeeded
      BY DEF Reassessment!EvidenceSurvives
    <2>1. \A f \in Facets : worker[f] \in {"idle", "ok", "insufficient", "failed"}
      BY DEF MergeInv, EndedOK, PaidOK, HandledOK
    <2>2. \A f \in Facets : worker[f] # "idle" => f \in handled
      BY DEF MergeInv, EndedOK, PaidOK
    <2> QED
      BY <2>1, <2>2 DEF Reassessment!Running, Reassessment!Succeeded, MergeInv, HandledOK
  <1>2. Reassessment!MergeIsHonest
    <2> SUFFICES ASSUME phase = "ended", file.status = "validated"
                 PROVE  /\ outcome.new = Reassessment!Missing
                        /\ unknown \subseteq outcome.unknown
                        /\ outcome.result = "ok" =>
                              /\ outcome.unknown = {}
                              /\ \A f \in Reassessment!Missing : worker[f] = "ok"
      BY DEF Reassessment!MergeIsHonest
    <2>1. outcome = Reassessment!Merged /\ Reassessment!Missing \subseteq handled
          /\ \A f \in Reassessment!Missing : worker[f] # "failed"
      BY DEF MergeInv, EndedOK
    <2>2. \A f \in Reassessment!Missing : worker[f] \in {"ok", "insufficient"}
      BY <2>1 DEF MergeInv, HandledOK
    <2>3. /\ outcome.new = Reassessment!Missing /\ outcome.unknown = unknown
          /\ outcome.result = "ok" =>
                unknown = {} /\ \A f \in Reassessment!Missing : worker[f] # "insufficient"
      BY <2>1 DEF Reassessment!Merged
    <2> QED
      BY <2>2, <2>3
  <1> QED
    BY <1>1, <1>2 DEF MergeInv, Reassessment!MergeIsSound

-------------------------------------------------------------------------------

LEMMA MissingType ==
  ASSUME PlanOK
  PROVE  /\ Len(missing) \in Nat \ {0} /\ DOMAIN missing = 1 .. Len(missing)
         /\ \A i \in 1 .. Len(missing) : missing[i] \in Facets
         /\ Reassessment!Missing = {missing[i] : i \in 1 .. Len(missing)}
         /\ Reassessment!Missing \subseteq Facets
  <1>1. /\ Len(missing) \in Nat \ {0} /\ DOMAIN missing = 1 .. Len(missing)
        /\ \A i \in 1 .. Len(missing) : missing[i] \in Facets
    BY DEF PlanOK
  <1>2. Reassessment!Missing = {missing[i] : i \in 1 .. Len(missing)}
    BY <1>1 DEF Reassessment!Missing, Reassessment!ToSet
  <1> QED
    BY <1>1, <1>2

LEMMA MergeInit ==
  ASSUME Reassessment!Init
  PROVE  MergeInv
  <1>1. PICK n \in 1 .. Cardinality(Facets) : missing \in [1 .. n -> Facets]
    BY DEF Reassessment!Init, Reassessment!Cardinality, Cardinality
  <1>2. Cardinality(Facets) \in Nat
    BY ReassessmentAssumption, FS_CardinalityType
       DEF Reassessment!FacetAssumption, Reassessment!IsFiniteSet, IsFiniteSet
  <1>3. n \in Nat \ {0} /\ missing \in Seq(Facets) /\ Len(missing) = n
    BY <1>1, <1>2
  <1>4. PlanOK
    BY <1>3 DEF Reassessment!Init, PlanOK, Reassessment!IsInjective
  <1>5. Reassessment!TypeOK
    BY <1>3 DEF Reassessment!Init, Reassessment!TypeOK, Reassessment!NoFile,
                Reassessment!NoOutcome, Reassessment!Outcome
  <1>6. BeforePoolOK /\ PaidOK /\ HandledOK /\ EndedOK
    BY DEF Reassessment!Init, BeforePoolOK, PaidOK, HandledOK, EndedOK, Reassessment!NoFile
  <1> QED
    BY <1>4, <1>5, <1>6 DEF MergeInv

(* The whole request is counted, and answered if it fits. *)
LEMMA WholeMergeInv ==
  ASSUME MergeInv, Reassessment!CountWhole \/ Reassessment!AssessWhole
  PROVE  MergeInv'
  <1>1. /\ phase \in {"start", "whole"} /\ counted = 0 /\ paid = {}
        /\ file = Reassessment!NoFile
        /\ UNCHANGED <<missing, counted, worker, failure, unknown, handled, file, paid>>
    BY DEF Reassessment!CountWhole, Reassessment!AssessWhole, MergeInv, BeforePoolOK
  <1>2. Len(missing) > 0 /\ Reassessment!Missing \subseteq Facets
    BY MissingType DEF MergeInv, PlanOK
  <1>3. CASE /\ phase' \in {"whole", "units"} /\ UNCHANGED outcome
    <2>1. phase # "pool" /\ phase' # "ended" /\ outcome' = Reassessment!NoOutcome
      BY <1>1, <1>3 DEF MergeInv, BeforePoolOK
    <2>2. Reassessment!TypeOK'
      BY <1>1, <1>3 DEF MergeInv, Reassessment!TypeOK
    <2>3. PlanOK' /\ PaidOK' /\ HandledOK'
      BY <1>1, <1>3 DEF MergeInv, PlanOK, PaidOK, HandledOK, Reassessment!Missing,
                        Reassessment!Succeeded
    <2>4. BeforePoolOK' /\ EndedOK'
      BY <1>1, <1>2, <1>3, <2>1 DEF BeforePoolOK, EndedOK, Reassessment!NoFile,
                                    Reassessment!NoOutcome
    <2> QED
      BY <2>2, <2>3, <2>4 DEF MergeInv
  <1>4. CASE /\ phase' = "ended" /\ outcome' \in Reassessment!Outcome
             /\ outcome'.result # "none"
    <2>1. Reassessment!TypeOK'
      BY <1>1, <1>4 DEF MergeInv, Reassessment!TypeOK
    <2>2. PlanOK' /\ PaidOK' /\ HandledOK'
      BY <1>1, <1>4 DEF MergeInv, PlanOK, PaidOK, HandledOK, Reassessment!Missing,
                        Reassessment!Succeeded
    <2>3. BeforePoolOK' /\ EndedOK'
      BY <1>1, <1>4 DEF BeforePoolOK, EndedOK, Reassessment!NoFile
    <2> QED
      BY <2>1, <2>2, <2>3 DEF MergeInv
  <1>5. ASSUME NEW code \in {"definite", "over_budget", "uncertain_request"},
               Reassessment!Raises(code)
        PROVE  /\ phase' = "ended" /\ outcome' \in Reassessment!Outcome
               /\ outcome'.result # "none"
    BY <1>5 DEF Reassessment!Raises, Reassessment!NoOutcome, Reassessment!Outcome,
                Reassessment!Failures
  <1>6. ASSUME NEW u \in SUBSET Reassessment!Missing, NEW status \in {"ok", "insufficient"},
               outcome' = [result |-> status, code |-> "none",
                           new |-> Reassessment!Missing, unknown |-> u]
        PROVE  outcome' \in Reassessment!Outcome /\ outcome'.result # "none"
    BY <1>2, <1>6 DEF Reassessment!Outcome
  <1> QED
    BY <1>3, <1>4, <1>5, <1>6
       DEF Reassessment!CountWhole, Reassessment!AssessWhole, Reassessment!Failures

(* The next unit is counted, or refused. *)
LEMMA CountMergeInv ==
  ASSUME MergeInv, Reassessment!CountUnit
  PROVE  MergeInv'
  <1>1. /\ phase = "units" /\ counted < Len(missing) /\ counted \in Nat /\ paid = {}
        /\ file = Reassessment!NoFile /\ outcome = Reassessment!NoOutcome
        /\ UNCHANGED <<missing, worker, failure, unknown, handled, paid>>
    BY MissingType DEF Reassessment!CountUnit, MergeInv, BeforePoolOK, Reassessment!TypeOK
  <1>2. Len(missing) \in Nat \ {0}
    BY MissingType DEF MergeInv
  <1>3. CASE /\ counted' = counted + 1 /\ UNCHANGED outcome
             /\ IF counted' = Len(missing) THEN Reassessment!AllCounted
                ELSE UNCHANGED <<phase, file>>
    <2>1. \/ phase' = "units" /\ counted' < Len(missing) /\ file' = file
          \/ /\ phase' = "pool" /\ counted' = Len(missing)
             /\ file' = [status |-> "preflight_passed", completed |-> {}]
      BY <1>1, <1>2, <1>3 DEF Reassessment!AllCounted, Reassessment!NoFile
    <2>2. Reassessment!TypeOK'
      BY <1>1, <1>2, <1>3, <2>1 DEF MergeInv, Reassessment!TypeOK
    <2>3. PlanOK' /\ PaidOK' /\ HandledOK'
      BY <1>1, <1>3, <2>1 DEF MergeInv, PlanOK, PaidOK, HandledOK, Reassessment!Missing,
                              Reassessment!Succeeded, Reassessment!NoFile
    <2>4. BeforePoolOK' /\ EndedOK'
      BY <1>1, <1>3, <2>1
         DEF BeforePoolOK, EndedOK, Reassessment!NoFile, Reassessment!NoOutcome
    <2> QED
      BY <2>2, <2>3, <2>4 DEF MergeInv
  <1>4. CASE Reassessment!CountFails
    <2>1. /\ phase' = "ended" /\ counted' = counted
          /\ file' = [status |-> "failed", completed |-> {}]
          /\ \E code \in {"definite", "over_budget"} :
                outcome' = [result |-> "failed", code |-> code, new |-> {}, unknown |-> {}]
      BY <1>1, <1>4 DEF Reassessment!CountFails, Reassessment!Raises, Reassessment!NoFile,
                        Reassessment!NoOutcome
    <2>2. outcome'.result = "failed" /\ outcome' \in Reassessment!Outcome
      BY <2>1 DEF Reassessment!Outcome, Reassessment!Failures
    <2>3. Reassessment!TypeOK'
      BY <1>1, <2>1, <2>2 DEF MergeInv, Reassessment!TypeOK
    <2>4. PlanOK' /\ PaidOK' /\ HandledOK'
      BY <1>1, <2>1 DEF MergeInv, PlanOK, PaidOK, HandledOK, Reassessment!Missing,
                        Reassessment!Succeeded, Reassessment!NoFile
    <2>5. BeforePoolOK' /\ EndedOK'
      BY <1>1, <2>1, <2>2 DEF BeforePoolOK, EndedOK
    <2> QED
      BY <2>3, <2>4, <2>5 DEF MergeInv
  <1> QED
    BY <1>1, <1>3, <1>4 DEF Reassessment!CountUnit

(* A thread starts on the first unit that has none. *)
LEMMA StartMergeInv ==
  ASSUME MergeInv, Reassessment!Start
  PROVE  MergeInv'
  <1>1. PICK i \in DOMAIN missing :
           /\ phase = "pool" /\ worker[missing[i]] = "idle"
           /\ worker' = [worker EXCEPT ![missing[i]] = "running"]
           /\ paid' = paid \cup {missing[i]}
           /\ UNCHANGED <<missing, phase, counted, failure, unknown, handled, file, outcome>>
    BY DEF Reassessment!Start
  <1>2. missing[i] \in Facets /\ missing[i] \in Reassessment!Missing
    BY MissingType DEF MergeInv
  <1>3. /\ worker'[missing[i]] = "running"
        /\ \A f \in Facets \ {missing[i]} : worker'[f] = worker[f]
    BY <1>1, <1>2 DEF MergeInv, Reassessment!TypeOK
  <1>4. Reassessment!TypeOK'
    BY <1>1, <1>2 DEF MergeInv, Reassessment!TypeOK
  <1>5. PlanOK' /\ BeforePoolOK' /\ EndedOK'
    BY <1>1 DEF MergeInv, PlanOK, BeforePoolOK, EndedOK
  <1>6. PaidOK'
    BY <1>1, <1>2, <1>3 DEF MergeInv, PaidOK, Reassessment!Missing
  <1>7. HandledOK'
    <2>1. handled \subseteq Facets /\ missing[i] \notin handled
      BY <1>1 DEF MergeInv, HandledOK, Reassessment!TypeOK
    <2>2. Reassessment!Succeeded' = Reassessment!Succeeded
      BY <1>1, <1>2, <1>3 DEF Reassessment!Succeeded
    <2> QED
      BY <1>1, <1>3, <2>1, <2>2 DEF MergeInv, HandledOK
  <1> QED
    BY <1>4, <1>5, <1>6, <1>7 DEF MergeInv

(* A thread ends with an answer or a failure. *)
LEMMA RunMergeInv ==
  ASSUME MergeInv, NEW f \in Facets, Reassessment!RunUnit(f)
  PROVE  MergeInv'
  <1>1. /\ worker[f] = "running"
        /\ UNCHANGED <<missing, phase, counted, handled, file, outcome, paid>>
    BY DEF Reassessment!RunUnit
  <1>2. PICK state \in {"ok", "insufficient", "failed"} :
           /\ worker' = [worker EXCEPT ![f] = state]
           /\ failure' \in [Facets -> Reassessment!Failures \cup {"none"}]
           /\ \/ unknown' = unknown
              \/ state # "failed" /\ unknown' = unknown \cup {f}
    BY DEF Reassessment!RunUnit, MergeInv, Reassessment!TypeOK
  <1>3. worker'[f] = state /\ \A g \in Facets \ {f} : worker'[g] = worker[g]
    BY <1>2 DEF MergeInv, Reassessment!TypeOK
  <1>4. f \notin handled /\ f \in paid
    BY <1>1 DEF MergeInv, HandledOK, PaidOK
  <1>5. Reassessment!TypeOK'
    BY <1>1, <1>2 DEF MergeInv, Reassessment!TypeOK
  <1>6. PlanOK' /\ BeforePoolOK'
    BY <1>1 DEF MergeInv, PlanOK, BeforePoolOK
  <1>7. PaidOK'
    BY <1>1, <1>3, <1>4 DEF MergeInv, PaidOK, Reassessment!Missing
  <1>8. HandledOK'
    <2>1. handled \cap Reassessment!Succeeded' = handled \cap Reassessment!Succeeded
      BY <1>3, <1>4 DEF Reassessment!Succeeded
    <2>2. unknown' \subseteq Reassessment!Succeeded'
      <3>1. f \notin unknown /\ unknown \subseteq Facets
        BY <1>1 DEF MergeInv, HandledOK, Reassessment!Succeeded
      <3>2. \A g \in unknown : g \in Reassessment!Succeeded'
        BY <1>3, <3>1 DEF MergeInv, HandledOK, Reassessment!Succeeded
      <3>3. state # "failed" => f \in Reassessment!Succeeded'
        BY <1>3 DEF Reassessment!Succeeded
      <3> QED
        BY <1>2, <3>2, <3>3
    <2>3. handled \subseteq Facets
      BY DEF MergeInv, Reassessment!TypeOK
    <2> QED
      BY <1>1, <1>3, <1>4, <2>1, <2>2, <2>3 DEF MergeInv, HandledOK
  <1>9. EndedOK'
    BY <1>1, <1>4 DEF MergeInv, EndedOK
  <1> QED
    BY <1>5, <1>6, <1>7, <1>8, <1>9 DEF MergeInv

(* What has ended is put on file. *)
LEMMA HandleMergeInv ==
  ASSUME MergeInv, NEW f \in Facets, Reassessment!Handle(f)
  PROVE  MergeInv'
  <1>1. /\ phase = "pool" /\ worker[f] \in {"ok", "insufficient", "failed"}
        /\ handled' = handled \cup {f}
        /\ file' = [status |-> "partial", completed |-> handled' \cap Reassessment!Succeeded]
        /\ UNCHANGED <<missing, phase, counted, worker, failure, unknown, outcome, paid>>
    BY DEF Reassessment!Handle
  <1>2. Reassessment!TypeOK'
    <2>1. Reassessment!Succeeded \subseteq Facets
      BY DEF Reassessment!Succeeded
    <2> QED
      BY <1>1, <2>1 DEF MergeInv, Reassessment!TypeOK
  <1>3. PlanOK' /\ BeforePoolOK' /\ EndedOK'
    BY <1>1 DEF MergeInv, PlanOK, BeforePoolOK, EndedOK
  <1>4. PaidOK' /\ HandledOK'
    BY <1>1 DEF MergeInv, PaidOK, HandledOK, Reassessment!Missing, Reassessment!Succeeded
  <1> QED
    BY <1>2, <1>3, <1>4 DEF MergeInv

(* The coordinator merges when all units have been handled, or raises.     *)
LEMMA ConcludeMergeInv ==
  ASSUME MergeInv, Reassessment!Conclude
  PROVE  MergeInv'
  <1>1. /\ phase = "pool" /\ Reassessment!Missing \subseteq handled /\ phase' = "ended"
        /\ UNCHANGED <<missing, counted, worker, failure, unknown, handled, paid>>
    BY DEF Reassessment!Conclude, Reassessment!Raises
  <1>2. paid \subseteq handled
    BY <1>1 DEF MergeInv, PaidOK
  <1>3. PlanOK' /\ PaidOK' /\ BeforePoolOK'
    BY <1>1 DEF MergeInv, PlanOK, PaidOK, BeforePoolOK, Reassessment!Missing
  <1>4. CASE /\ \A f \in Reassessment!Missing : worker[f] # "failed"
             /\ outcome' = Reassessment!Merged
             /\ file' = [file EXCEPT !.status = "validated"]
    <2>1. outcome' \in Reassessment!Outcome /\ outcome'.result # "none"
      <3>1. unknown \in SUBSET Facets /\ Reassessment!Missing \in SUBSET Facets
        BY MissingType DEF MergeInv, Reassessment!TypeOK
      <3> QED
        BY <1>4, <3>1 DEF Reassessment!Merged, Reassessment!Outcome
    <2>2. file'.completed = file.completed /\ file'.status = "validated"
      BY <1>4 DEF MergeInv, Reassessment!TypeOK
    <2>3. Reassessment!TypeOK'
      BY <1>1, <1>4, <2>1 DEF MergeInv, Reassessment!TypeOK
    <2>4. HandledOK'
      BY <1>1, <2>2 DEF MergeInv, HandledOK, Reassessment!Succeeded
    <2>5. EndedOK'
      BY <1>1, <1>2, <1>4, <2>1 DEF EndedOK, Reassessment!Merged, Reassessment!Missing
    <2> QED
      BY <1>3, <2>3, <2>4, <2>5 DEF MergeInv
  <1>5. ASSUME NEW code \in Reassessment!Failures \cup {"none"}, Reassessment!Raises(code),
               file' = [file EXCEPT !.status = "failed"]
        PROVE  MergeInv'
    <2>1. outcome' \in Reassessment!Outcome /\ outcome'.result = "failed"
      BY <1>5 DEF Reassessment!Raises, Reassessment!NoOutcome, Reassessment!Outcome
    <2>2. file'.completed = file.completed /\ file'.status = "failed"
      BY <1>5 DEF MergeInv, Reassessment!TypeOK
    <2>3. Reassessment!TypeOK'
      BY <1>1, <1>5, <2>1 DEF MergeInv, Reassessment!TypeOK
    <2>4. HandledOK'
      BY <1>1, <2>2 DEF MergeInv, HandledOK, Reassessment!Succeeded
    <2>5. EndedOK'
      BY <1>1, <1>2, <2>1, <2>2 DEF EndedOK
    <2> QED
      BY <1>3, <2>3, <2>4, <2>5 DEF MergeInv
  <1>6. \A i \in DOMAIN missing : failure[missing[i]] \in Reassessment!Failures \cup {"none"}
    BY MissingType DEF MergeInv, Reassessment!TypeOK
  <1> QED
    BY <1>4, <1>5, <1>6 DEF Reassessment!Conclude, Reassessment!Failures

LEMMA MergeStep ==
  ASSUME MergeInv, [Reassessment!Next]_(Reassessment!vars)
  PROVE  MergeInv'
  <1>1. CASE UNCHANGED Reassessment!vars
    <2>1. UNCHANGED <<missing, phase, counted, worker, failure, unknown, handled, file,
                      outcome, paid>>
      BY <1>1 DEF Reassessment!vars
    <2>2. Reassessment!TypeOK' /\ PlanOK' /\ BeforePoolOK'
      BY <2>1 DEF MergeInv, Reassessment!TypeOK, PlanOK, BeforePoolOK
    <2>3. PaidOK' /\ HandledOK' /\ EndedOK'
      BY <2>1 DEF MergeInv, PaidOK, HandledOK, EndedOK, Reassessment!Missing,
                  Reassessment!Succeeded, Reassessment!Merged
    <2> QED
      BY <2>2, <2>3 DEF MergeInv
  <1>2. CASE Reassessment!Next
    BY <1>2, WholeMergeInv, CountMergeInv, StartMergeInv, RunMergeInv, HandleMergeInv,
       ConcludeMergeInv DEF Reassessment!Next, Reassessment!Coordinator
  <1> QED
    BY <1>1, <1>2

-------------------------------------------------------------------------------
(* A reassessment keeps the promise of AllOrNothing. *)

MergePlan ==
    IF phase = "units" \/ file.status # "absent" THEN Reassessment!Missing ELSE {}

MergeResult ==
    IF outcome.result = "none" THEN "none"
    ELSE IF outcome.result = "failed" THEN "failed" ELSE "delivered"

MergeStutter ==
    UNCHANGED <<MergePlan, Reassessment!Counted, paid, MergeResult>>
        => [Reassessment!Promise!Next]_(Reassessment!Promise!vars)

LEMMA MergeStutters == MergeStutter
  BY DEF MergeStutter, MergePlan, MergeResult, Reassessment!Promise!vars

LEMMA MergeFails ==
  ASSUME MergeResult = "none", MergeResult' = "failed",
         UNCHANGED <<MergePlan, Reassessment!Counted, paid>>
  PROVE  Reassessment!Promise!Next
  BY DEF MergePlan, MergeResult, Reassessment!Promise!Next, Reassessment!Promise!Fail

LEMMA MergeDelivers ==
  ASSUME MergeResult = "none", MergeResult' = "delivered", paid = MergePlan,
         UNCHANGED <<MergePlan, Reassessment!Counted, paid>>
  PROVE  Reassessment!Promise!Next
  BY DEF MergePlan, MergeResult, Reassessment!Promise!Next, Reassessment!Promise!Deliver

LEMMA MergePartitions ==
  ASSUME MergeResult = "none", MergePlan = {}, MergePlan' \subseteq Facets,
         UNCHANGED <<Reassessment!Counted, paid, MergeResult>>
  PROVE  Reassessment!Promise!Next
  BY DEF MergePlan, MergeResult, Reassessment!Promise!Next, Reassessment!Promise!Partition

LEMMA MergeCounts ==
  ASSUME MergeResult = "none", paid = {},
         NEW f \in Facets, f \in MergePlan \ Reassessment!Counted,
         Reassessment!Counted' = Reassessment!Counted \cup {f},
         UNCHANGED <<MergePlan, paid, MergeResult>>
  PROVE  Reassessment!Promise!Next
  <1>1. Reassessment!Promise!Count(f)
    BY DEF MergePlan, MergeResult, Reassessment!Promise!Count
  <1> QED
    BY <1>1 DEF Reassessment!Promise!Next

LEMMA MergePays ==
  ASSUME MergeResult = "none", Reassessment!Counted = MergePlan,
         NEW f \in Facets, f \in MergePlan \ paid, paid' = paid \cup {f},
         UNCHANGED <<MergePlan, Reassessment!Counted, MergeResult>>
  PROVE  Reassessment!Promise!Next
  <1>1. Reassessment!Promise!Pay(f)
    BY DEF MergePlan, MergeResult, Reassessment!Promise!Pay
  <1> QED
    BY <1>1 DEF Reassessment!Promise!Next

LEMMA Raised ==
  ASSUME NEW code, Reassessment!Raises(code)
  PROVE  phase' = "ended" /\ outcome'.result = "failed"
  BY DEF Reassessment!Raises, Reassessment!NoOutcome

LEMMA MergePromised ==
  ASSUME MergeInv, [Reassessment!Next]_(Reassessment!vars)
  PROVE  [Reassessment!Promise!Next]_(Reassessment!Promise!vars)
  <1>1. CASE UNCHANGED Reassessment!vars
    <2>1. UNCHANGED <<missing, phase, counted, file, outcome, paid>>
      BY <1>1 DEF Reassessment!vars
    <2> QED
      BY <2>1, MergeStutters DEF MergeStutter, MergePlan, MergeResult, Reassessment!Counted,
                                 Reassessment!Missing
  <1>2. CASE Reassessment!CountWhole \/ Reassessment!AssessWhole
    <2>1. /\ phase \in {"start", "whole"} /\ counted = 0 /\ paid = {}
          /\ file.status = "absent" /\ outcome.result = "none"
          /\ UNCHANGED <<missing, counted, file, paid>>
      BY <1>2 DEF Reassessment!CountWhole, Reassessment!AssessWhole, MergeInv, BeforePoolOK,
                  Reassessment!NoFile, Reassessment!NoOutcome
    <2>2. /\ MergePlan = {} /\ MergeResult = "none"
          /\ UNCHANGED Reassessment!Counted
      BY <2>1 DEF MergePlan, MergeResult, Reassessment!Counted
    <2>3. CASE phase' = "units" /\ UNCHANGED outcome
      <3>1. MergeResult' = MergeResult /\ MergePlan' \subseteq Facets
        BY <2>1, <2>3, MissingType
           DEF MergeResult, MergePlan, MergeInv, Reassessment!Missing
      <3> QED
        BY <2>1, <2>2, <3>1, MergePartitions
    <2>4. CASE phase' = "whole" /\ UNCHANGED outcome
      <3>1. UNCHANGED <<MergePlan, MergeResult>>
        BY <2>1, <2>4 DEF MergeResult, MergePlan
      <3> QED
        BY <2>1, <2>2, <3>1, MergeStutters DEF MergeStutter
    <2>5. CASE phase' = "ended" /\ outcome'.result \in {"ok", "insufficient", "failed"}
      <3>1. UNCHANGED MergePlan /\ MergeResult' \in {"delivered", "failed"}
        BY <2>1, <2>5 DEF MergeResult, MergePlan
      <3> QED
        BY <2>1, <2>2, <3>1, MergeFails, MergeDelivers
    <2> QED
      BY <1>2, <2>3, <2>4, <2>5, Raised DEF Reassessment!CountWhole, Reassessment!AssessWhole
  <1>3. CASE Reassessment!CountUnit
    <2>1. /\ phase = "units" /\ counted < Len(missing) /\ counted \in Nat /\ paid = {}
          /\ file = Reassessment!NoFile /\ outcome = Reassessment!NoOutcome
          /\ UNCHANGED <<missing, paid>>
      BY <1>3, MissingType
         DEF Reassessment!CountUnit, MergeInv, BeforePoolOK, Reassessment!TypeOK
    <2>2. MergePlan = Reassessment!Missing /\ MergeResult = "none"
      BY <2>1 DEF MergePlan, MergeResult, Reassessment!NoOutcome
    <2>3. CASE /\ counted' = counted + 1 /\ UNCHANGED outcome
               /\ IF counted' = Len(missing) THEN Reassessment!AllCounted
                  ELSE UNCHANGED <<phase, file>>
      <3> DEFINE f == missing[counted + 1]
      <3>1. Len(missing) \in Nat \ {0} /\ counted + 1 \in 1 .. Len(missing)
        BY <2>1, MissingType DEF MergeInv
      <3>2. f \in Facets /\ f \in Reassessment!Missing
        BY <3>1, MissingType DEF MergeInv
      <3>3. f \notin Reassessment!Counted
        BY <2>1, <3>1 DEF Reassessment!Counted, MergeInv, PlanOK
      <3>4. Reassessment!Counted' = Reassessment!Counted \cup {f}
        <4>1. \A i : i \in 1 .. counted' <=> i \in 1 .. counted \/ i = counted + 1
          BY <2>1, <2>3
        <4> QED
          BY <2>1, <4>1 DEF Reassessment!Counted
      <3>5. UNCHANGED <<MergePlan, MergeResult>>
        BY <2>1, <2>3 DEF MergePlan, MergeResult, Reassessment!AllCounted, Reassessment!Missing,
                          Reassessment!NoFile
      <3> HIDE DEF f
      <3> QED
        BY <2>1, <2>2, <3>2, <3>3, <3>4, <3>5, MergeCounts
    <2>4. CASE Reassessment!CountFails
      <3>1. /\ counted' = counted /\ file'.status = "failed" /\ outcome'.result = "failed"
        BY <2>1, <2>4 DEF Reassessment!CountFails, Reassessment!Raises, Reassessment!NoFile,
                          Reassessment!NoOutcome
      <3>2. UNCHANGED <<MergePlan, Reassessment!Counted>> /\ MergeResult' = "failed"
        BY <2>1, <3>1 DEF MergePlan, MergeResult, Reassessment!Counted, Reassessment!Missing
      <3> QED
        BY <2>1, <2>2, <3>2, MergeFails
    <2> QED
      BY <1>3, <2>3, <2>4 DEF Reassessment!CountUnit
  <1>4. ASSUME phase = "pool", UNCHANGED <<missing, counted>>, file'.status # "absent",
               \/ Reassessment!Start
               \/ UNCHANGED <<paid, outcome>>
               \/ /\ UNCHANGED paid /\ Reassessment!Missing \subseteq handled
                  /\ outcome'.result # "none"
        PROVE  [Reassessment!Promise!Next]_(Reassessment!Promise!vars)
    <2>1. /\ MergePlan = Reassessment!Missing /\ MergeResult = "none"
          /\ Reassessment!Counted = Reassessment!Missing
          /\ UNCHANGED <<MergePlan, Reassessment!Counted>>
      <3>1. /\ file.status # "absent" /\ outcome.result = "none" /\ counted = Len(missing)
        BY <1>4 DEF MergeInv, BeforePoolOK, PaidOK, Reassessment!NoOutcome
      <3>2. Reassessment!Counted = Reassessment!Missing
        BY <3>1, MissingType DEF MergeInv, Reassessment!Counted
      <3> QED
        BY <1>4, <3>1, <3>2
           DEF MergePlan, MergeResult, Reassessment!Missing, Reassessment!Counted
    <2>2. CASE Reassessment!Start
      <3>1. PICK i \in DOMAIN missing :
               worker[missing[i]] = "idle" /\ paid' = paid \cup {missing[i]}
        BY <2>2 DEF Reassessment!Start
      <3>2. /\ missing[i] \in Facets /\ missing[i] \in Reassessment!Missing
            /\ missing[i] \notin paid
        BY <3>1, MissingType DEF MergeInv, PaidOK
      <3>3. UNCHANGED MergeResult
        BY <2>2 DEF Reassessment!Start, MergeResult
      <3> QED
        BY <2>1, <3>1, <3>2, <3>3, MergePays
    <2>3. CASE UNCHANGED <<paid, outcome>>
      BY <2>1, <2>3, MergeStutters DEF MergeStutter, MergeResult
    <2>4. CASE /\ UNCHANGED paid /\ Reassessment!Missing \subseteq handled
               /\ outcome'.result # "none"
      <3>1. paid = Reassessment!Missing
        BY <2>4, MissingType DEF MergeInv, PaidOK, HandledOK, Reassessment!TypeOK
      <3>2. MergeResult' \in {"failed", "delivered"}
        BY <2>4 DEF MergeResult
      <3> QED
        BY <2>1, <2>4, <3>1, <3>2, MergeFails, MergeDelivers
    <2> QED
      BY <1>4, <2>2, <2>3, <2>4
  <1>5. CASE Reassessment!Start
    BY <1>4, <1>5 DEF Reassessment!Start, MergeInv, BeforePoolOK
  <1>6. ASSUME NEW f \in Facets, Reassessment!RunUnit(f)
        PROVE  [Reassessment!Promise!Next]_(Reassessment!Promise!vars)
    <2>1. f \in paid /\ f \notin handled
      BY <1>6 DEF Reassessment!RunUnit, MergeInv, PaidOK, HandledOK
    <2>2. phase = "pool"
      BY <2>1 DEF MergeInv, BeforePoolOK, EndedOK, Reassessment!TypeOK
    <2> QED
      BY <1>4, <1>6, <2>2 DEF Reassessment!RunUnit, MergeInv, BeforePoolOK
  <1>7. ASSUME NEW f \in Facets, Reassessment!Handle(f)
        PROVE  [Reassessment!Promise!Next]_(Reassessment!Promise!vars)
    BY <1>4, <1>7 DEF Reassessment!Handle
  <1>8. CASE Reassessment!Conclude
    <2>1. /\ phase = "pool" /\ UNCHANGED <<missing, counted>>
          /\ file'.status \in {"validated", "failed"} /\ UNCHANGED paid
          /\ Reassessment!Missing \subseteq handled /\ outcome'.result # "none"
      <3>1. Reassessment!Merged.result # "none"
        BY DEF Reassessment!Merged
      <3>2. \E status \in {"validated", "failed"} : file' = [file EXCEPT !.status = status]
        BY <1>8 DEF Reassessment!Conclude
      <3>3. file'.status \in {"validated", "failed"}
        BY <3>2 DEF MergeInv, Reassessment!TypeOK
      <3> QED
        BY <1>8, <3>1, <3>3, Raised DEF Reassessment!Conclude
    <2> QED
      BY <1>4, <2>1
  <1> QED
    BY <1>1, <1>2, <1>3, <1>5, <1>6, <1>7, <1>8
       DEF Reassessment!Next, Reassessment!Coordinator

-------------------------------------------------------------------------------
(* Exact counts. *)

(* A thread between Lock and the release has the lock of its payload.      *)
HoldsLock(t) == pc[t] \in {"counting", "enforce"} => holder[Preflight!At(t).payload] = t

(* Under the lock, a payload stays uncounted until it is counted.          *)
CountOK(t) ==
    /\ pc[t] = "counting" => counts[Preflight!At(t).payload] = Preflight!NotCounted
    /\ pc[t] = "enforce" => counts[Preflight!At(t).payload] = Tokens[Preflight!At(t).payload]

(* What counting or enforcing has passed needs a count.                    *)
Countable(p) == p \notin Reusable \cup TooLong

NeedsCount(t) == pc[t] \in {"counting", "enforce"} => Countable(Preflight!At(t).payload)

(* input_counts has what was answered, once.                               *)
AskedOK == \A p \in Payloads : asked[p] = IF counts[p] = Preflight!NotCounted THEN 0 ELSE 1

(* What is on record for a payload leaves its count within the limit.      *)
RecordOK(p) == reserves[p] > 0 => Tokens[p] + reserves[p] <= Limit

(* The steps behind a thread are on record: it would not have gone on.     *)
BehindOK(t) ==
    \A i \in 1 .. step[t] - 1 :
        Countable(Programs[t][i].payload) =>
            Programs[t][i].reserve <= reserves[Programs[t][i].payload]

AdmissionInv ==
    /\ Preflight!TypeOK
    /\ \A t \in Threads : HoldsLock(t) /\ CountOK(t) /\ NeedsCount(t) /\ BehindOK(t)
    /\ AskedOK
    /\ \A p \in Payloads : RecordOK(p)
    /\ Preflight!GenerationFits

(* The next step of a program is a call. *)
LEMMA AtType ==
  ASSUME Preflight!TypeOK, NEW t \in Threads
  PROVE  /\ Preflight!At(t).payload \in Payloads /\ Preflight!At(t).reserve \in Nat
         /\ Preflight!At(t).send \in BOOLEAN
         /\ step[t] \in 1 .. Len(Programs[t]) /\ Len(Programs[t]) \in Nat
         /\ \A i \in 1 .. Len(Programs[t]) :
                Programs[t][i].payload \in Payloads /\ Programs[t][i].reserve \in Nat
  <1>1. Programs[t] \in Seq(Preflight!Call)
    BY PreflightAssumption DEF Preflight!ProgramAssumption
  <1>2. DOMAIN Programs[t] = 1 .. Len(Programs[t]) /\ Len(Programs[t]) \in Nat
    BY <1>1
  <1>3. \A i \in 1 .. Len(Programs[t]) : Programs[t][i] \in Preflight!Call
    BY <1>1
  <1>4. step[t] \in 1 .. Len(Programs[t])
    BY <1>2 DEF Preflight!TypeOK
  <1> QED
    BY <1>2, <1>3, <1>4 DEF Preflight!At, Preflight!Call

(* The invariant holds before the first call. *)
LEMMA AdmissionInit ==
  ASSUME Preflight!Init
  PROVE  AdmissionInv
  <1>1. ASSUME NEW t \in Threads
        PROVE  1 \in DOMAIN Programs[t]
    <2>1. Programs[t] \in Seq(Preflight!Call) /\ Len(Programs[t]) > 0
      BY PreflightAssumption DEF Preflight!ProgramAssumption
    <2>2. Len(Programs[t]) \in Nat /\ DOMAIN Programs[t] = 1 .. Len(Programs[t])
      BY <2>1
    <2> QED
      BY <2>1, <2>2
  <1>2. Preflight!TypeOK
    BY <1>1, PreflightAssumption
       DEF Preflight!Init, Preflight!TypeOK, Preflight!TokensAssumption, Preflight!NotCounted
  <1>3. ASSUME NEW t \in Threads
        PROVE  HoldsLock(t) /\ CountOK(t) /\ NeedsCount(t) /\ BehindOK(t)
    <2>1. pc[t] = "call" /\ step[t] = 1
      BY DEF Preflight!Init
    <2>2. 1 .. step[t] - 1 = {}
      BY <2>1
    <2> QED
      BY <2>1, <2>2 DEF HoldsLock, CountOK, NeedsCount, BehindOK
  <1>4. AskedOK /\ (\A p \in Payloads : RecordOK(p)) /\ Preflight!GenerationFits
    BY DEF Preflight!Init, AskedOK, RecordOK, Preflight!GenerationFits, Preflight!NotCounted
  <1> QED
    BY <1>2, <1>3, <1>4 DEF AdmissionInv

(* A thread goes on in its program or ends. *)
LEMMA AdvanceType ==
  ASSUME Preflight!TypeOK, NEW t \in Threads, Preflight!Advance(t) \/ Preflight!Ends(t)
  PROVE  /\ step' \in [Threads -> Nat] /\ \A u \in Threads : step'[u] \in DOMAIN Programs[u]
         /\ pc' \in [Threads -> {"call", "counting", "enforce", "ended"}]
         /\ pc'[t] \in {"call", "ended"}
         /\ step'[t] \in {step[t], step[t] + 1}
         /\ \A u \in Threads \ {t} : pc'[u] = pc[u] /\ step'[u] = step[u]
  <1>1. /\ step[t] \in 1 .. Len(Programs[t]) /\ Len(Programs[t]) \in Nat
        /\ DOMAIN Programs[t] = 1 .. Len(Programs[t])
    BY AtType, PreflightAssumption DEF Preflight!ProgramAssumption
  <1>2. CASE Preflight!Advance(t)
    <2>1. step' = [step EXCEPT ![t] =
                      IF step[t] = Len(Programs[t]) THEN step[t] ELSE step[t] + 1]
      BY <1>2 DEF Preflight!Advance
    <2>2. /\ step' \in [Threads -> Nat] /\ step'[t] \in 1 .. Len(Programs[t])
          /\ step'[t] \in {step[t], step[t] + 1}
          /\ \A u \in Threads \ {t} : step'[u] = step[u]
      BY <1>1, <2>1 DEF Preflight!TypeOK
    <2> QED
      BY <1>1, <1>2, <2>2 DEF Preflight!Advance, Preflight!TypeOK
  <1>3. CASE Preflight!Ends(t)
    BY <1>3 DEF Preflight!Ends, Preflight!TypeOK
  <1> QED
    BY <1>2, <1>3

(* A receipt is reused, or a payload refused, without a count. *)
LEMMA BypassInv ==
  ASSUME AdmissionInv, NEW t \in Threads, Preflight!Reuse(t) \/ Preflight!RefuseLong(t)
  PROVE  AdmissionInv'
  <1>1. /\ pc[t] = "call" /\ ~Countable(Preflight!At(t).payload)
        /\ Preflight!Advance(t) \/ Preflight!Ends(t)
        /\ UNCHANGED <<holder, counts, reserves, asked, sent>>
    BY DEF Preflight!Reuse, Preflight!RefuseLong, Countable
  <1>2. Preflight!TypeOK /\ Preflight!TypeOK'
    BY <1>1, AdvanceType DEF AdmissionInv, Preflight!TypeOK
  <1>3. \A u \in Threads : HoldsLock(u)' /\ CountOK(u)' /\ NeedsCount(u)'
    BY <1>1, <1>2, AdvanceType DEF AdmissionInv, HoldsLock, CountOK, NeedsCount, Preflight!At
  <1>4. ASSUME NEW u \in Threads PROVE BehindOK(u)'
    <2>1. CASE u # t
      BY <1>1, <1>2, <2>1, AdvanceType DEF AdmissionInv, BehindOK
    <2>2. CASE u = t
      <3>1. \A i \in 1 .. step'[t] - 1 : i \in 1 .. step[t] - 1 \/ i = step[t]
        BY <1>1, <1>2, AdvanceType, AtType
      <3> QED
        BY <1>1, <2>2, <3>1 DEF AdmissionInv, BehindOK, Preflight!At
    <2> QED
      BY <2>1, <2>2
  <1>5. AskedOK' /\ (\A p \in Payloads : RecordOK(p)') /\ Preflight!GenerationFits'
    BY <1>1 DEF AdmissionInv, AskedOK, RecordOK, Preflight!GenerationFits
  <1> QED
    BY <1>2, <1>3, <1>4, <1>5 DEF AdmissionInv

(* The lock is free when it is taken. *)
LEMMA LockInv ==
  ASSUME AdmissionInv, NEW t \in Threads, Preflight!Lock(t)
  PROVE  AdmissionInv'
  <1> DEFINE p == Preflight!At(t).payload
             next == IF counts[p] = Preflight!NotCounted THEN "counting" ELSE "enforce"
  <1>1. /\ p \in Payloads /\ Countable(p) /\ holder[p] = Preflight!None
        /\ holder' = [holder EXCEPT ![p] = t] /\ pc' = [pc EXCEPT ![t] = next]
        /\ UNCHANGED <<step, counts, reserves, asked, sent>>
    BY AtType DEF Preflight!Lock, Preflight!Goes, AdmissionInv, Countable
  <1>2. Preflight!TypeOK /\ Preflight!TypeOK'
    BY <1>1 DEF AdmissionInv, Preflight!TypeOK
  <1>3. \A u \in Threads : Preflight!At(u)' = Preflight!At(u)
    BY <1>1 DEF Preflight!At
  <1>4. pc'[t] = next /\ \A u \in Threads \ {t} : pc'[u] = pc[u]
    BY <1>1, <1>2 DEF Preflight!TypeOK
  <1>5. \A u \in Threads : HoldsLock(u)'
    <2>1. Preflight!None \notin Threads
      BY PreflightAssumption DEF Preflight!ProgramAssumption
    <2>2. holder'[p] = t /\ \A q \in Payloads \ {p} : holder'[q] = holder[q]
      BY <1>1, <1>2 DEF Preflight!TypeOK
    <2>3. \A u \in Threads : Preflight!At(u).payload \in Payloads
      BY <1>2, AtType
    <2> QED
      BY <1>1, <1>3, <1>4, <2>1, <2>2, <2>3 DEF AdmissionInv, HoldsLock
  <1>6. counts[p] \in {Preflight!NotCounted, Tokens[p]}
    BY <1>1, <1>2 DEF Preflight!TypeOK
  <1>7. \A u \in Threads : CountOK(u)' /\ NeedsCount(u)' /\ BehindOK(u)'
    BY <1>1, <1>3, <1>4, <1>6 DEF AdmissionInv, CountOK, NeedsCount, BehindOK, Countable
  <1>8. AskedOK' /\ (\A q \in Payloads : RecordOK(q)') /\ Preflight!GenerationFits'
    BY <1>1 DEF AdmissionInv, AskedOK, RecordOK, Preflight!GenerationFits
  <1> QED
    BY <1>2, <1>5, <1>7, <1>8 DEF AdmissionInv

(* Two threads under locks are at different payloads. *)
LEMMA LocksDiffer ==
  ASSUME AdmissionInv, NEW t \in Threads, NEW u \in Threads \ {t},
         pc[t] \in {"counting", "enforce"}, pc[u] \in {"counting", "enforce"}
  PROVE  Preflight!At(u).payload # Preflight!At(t).payload
  BY DEF AdmissionInv, HoldsLock

(* The count is answered once, as nobody else has this lock. *)
LEMMA CountInv ==
  ASSUME AdmissionInv, NEW t \in Threads, Preflight!Count(t)
  PROVE  AdmissionInv'
  <1> DEFINE p == Preflight!At(t).payload
  <1>1. Preflight!TypeOK /\ pc[t] = "counting" /\ p \in Payloads
    BY AtType DEF AdmissionInv, Preflight!Count
  <1>2. \A u \in Threads \ {t} :
           pc[u] \in {"counting", "enforce"} => Preflight!At(u).payload # p
    BY <1>1, LocksDiffer
  <1>3. \A u \in Threads : Preflight!At(u).payload \in Payloads
    BY <1>1, AtType
  <1>4. counts[p] = Preflight!NotCounted /\ asked[p] = 0
    BY <1>1 DEF AdmissionInv, CountOK, AskedOK
  <1>5. Tokens[p] \in Nat
    BY <1>1, PreflightAssumption DEF Preflight!TokensAssumption
  <1>6. CASE /\ counts' = [counts EXCEPT ![p] = Tokens[p]]
             /\ asked' = [asked EXCEPT ![p] = @ + 1]
             /\ pc' = [pc EXCEPT ![t] = "enforce"]
             /\ UNCHANGED <<step, holder, reserves, sent>>
    <2>1. /\ pc'[t] = "enforce" /\ \A u \in Threads \ {t} : pc'[u] = pc[u]
          /\ counts'[p] = Tokens[p] /\ asked'[p] = 1
          /\ \A q \in Payloads \ {p} : counts'[q] = counts[q] /\ asked'[q] = asked[q]
      BY <1>1, <1>4, <1>6 DEF Preflight!TypeOK
    <2>2. Preflight!TypeOK'
      <3>1. counts' \in [Payloads -> Int] /\ asked' \in [Payloads -> Nat]
        BY <1>1, <1>5, <1>6 DEF Preflight!TypeOK
      <3>2. pc' \in [Threads -> {"call", "counting", "enforce", "ended"}]
        BY <1>1, <1>6 DEF Preflight!TypeOK
      <3> QED
        BY <1>1, <1>6, <2>1, <3>1, <3>2 DEF Preflight!TypeOK
    <2>3. \A u \in Threads : Preflight!At(u)' = Preflight!At(u)
      BY <1>6 DEF Preflight!At
    <2>4. \A u \in Threads : HoldsLock(u)' /\ NeedsCount(u)' /\ BehindOK(u)'
      BY <1>1, <1>6, <2>1, <2>3 DEF AdmissionInv, HoldsLock, NeedsCount, BehindOK
    <2>5. \A u \in Threads : CountOK(u)'
      BY <1>2, <1>3, <2>1, <2>3 DEF AdmissionInv, CountOK
    <2>6. AskedOK'
      BY <1>5, <2>1 DEF AdmissionInv, AskedOK, Preflight!NotCounted
    <2>7. \A q \in Payloads : RecordOK(q)'
      BY <1>6 DEF AdmissionInv, RecordOK
    <2>8. Preflight!GenerationFits'
      <3>1. \A s \in sent : s.payload \in Payloads /\ counts[s.payload] = Tokens[s.payload]
        BY <1>1 DEF AdmissionInv, Preflight!TypeOK, Preflight!GenerationFits
      <3>2. \A s \in sent : counts'[s.payload] = Tokens[s.payload]
        BY <2>1, <3>1
      <3> QED
        BY <1>6, <3>2 DEF AdmissionInv, Preflight!GenerationFits
    <2> QED
      BY <2>2, <2>4, <2>5, <2>6, <2>7, <2>8 DEF AdmissionInv
  <1>7. CASE /\ Preflight!Ends(t) /\ Preflight!Release(t)
             /\ UNCHANGED <<counts, asked, reserves, sent>>
    <2>1. /\ pc'[t] = "ended" /\ \A u \in Threads \ {t} : pc'[u] = pc[u]
          /\ \A q \in Payloads \ {p} : holder'[q] = holder[q]
      BY <1>1, <1>7 DEF Preflight!Ends, Preflight!Release, Preflight!TypeOK
    <2>2. Preflight!TypeOK'
      BY <1>1, <1>7 DEF Preflight!Ends, Preflight!Release, Preflight!TypeOK
    <2>3. \A u \in Threads : Preflight!At(u)' = Preflight!At(u)
      BY <1>7 DEF Preflight!At, Preflight!Ends
    <2>4. \A u \in Threads : HoldsLock(u)'
      BY <1>2, <1>3, <2>1, <2>3 DEF AdmissionInv, HoldsLock
    <2>5. \A u \in Threads : CountOK(u)' /\ NeedsCount(u)' /\ BehindOK(u)'
      BY <1>7, <2>1, <2>3 DEF AdmissionInv, CountOK, NeedsCount, BehindOK, Preflight!Ends
    <2>6. AskedOK' /\ (\A q \in Payloads : RecordOK(q)') /\ Preflight!GenerationFits'
      BY <1>7 DEF AdmissionInv, AskedOK, RecordOK, Preflight!GenerationFits
    <2> QED
      BY <2>2, <2>4, <2>5, <2>6 DEF AdmissionInv
  <1> QED
    BY <1>6, <1>7 DEF Preflight!Count, Preflight!Goes

(* An accepted count records the reserve; what is sent was planned with no *)
(* more.                                                                   *)
LEMMA EnforceInv ==
  ASSUME AdmissionInv, NEW t \in Threads, Preflight!Enforce(t)
  PROVE  AdmissionInv'
  <1> DEFINE p == Preflight!At(t).payload
  <1>1. /\ Preflight!TypeOK /\ pc[t] = "enforce" /\ p \in Payloads
        /\ Preflight!At(t).reserve \in Nat
        /\ Preflight!Release(t) /\ UNCHANGED <<counts, asked>>
        /\ Preflight!Advance(t) \/ Preflight!Ends(t)
    BY AtType DEF AdmissionInv, Preflight!Enforce
  <1>2. \A u \in Threads \ {t} :
           pc[u] \in {"counting", "enforce"} => Preflight!At(u).payload # p
    BY <1>1, LocksDiffer
  <1>3. \A u \in Threads : Preflight!At(u).payload \in Payloads
    BY <1>1, AtType
  <1>4. /\ pc'[t] \in {"call", "ended"}
        /\ \A u \in Threads \ {t} :
              pc'[u] = pc[u] /\ step'[u] = step[u] /\ Preflight!At(u)' = Preflight!At(u)
        /\ step'[t] \in {step[t], step[t] + 1}
    BY <1>1, AdvanceType DEF Preflight!At
  <1>5. \A q \in Payloads \ {p} : holder'[q] = holder[q]
    BY <1>1 DEF Preflight!Release, Preflight!TypeOK
  <1>6. \A u \in Threads : HoldsLock(u)' /\ CountOK(u)' /\ NeedsCount(u)'
    <2>1. HoldsLock(t)' /\ CountOK(t)' /\ NeedsCount(t)'
      BY <1>4 DEF HoldsLock, CountOK, NeedsCount
    <2>2. ASSUME NEW u \in Threads \ {t}
          PROVE  HoldsLock(u)' /\ CountOK(u)' /\ NeedsCount(u)'
      BY <1>1, <1>2, <1>3, <1>4, <1>5 DEF AdmissionInv, HoldsLock, CountOK, NeedsCount
    <2> QED
      BY <2>1, <2>2
  <1>7. AskedOK'
    BY <1>1 DEF AdmissionInv, AskedOK
  <1>8. CASE /\ Preflight!Fits(t) /\ Preflight!Sends(t)
             /\ reserves' = [reserves EXCEPT ![p] = Preflight!ReserveMax(t)]
    <2>1. counts[p] = Tokens[p] /\ Tokens[p] \in Nat /\ Limit \in Nat
      BY <1>1, PreflightAssumption DEF AdmissionInv, CountOK, Preflight!TokensAssumption
    <2>2. /\ reserves'[p] = Preflight!ReserveMax(t) /\ reserves' \in [Payloads -> Nat]
          /\ \A q \in Payloads \ {p} : reserves'[q] = reserves[q]
      BY <1>1, <1>8 DEF Preflight!TypeOK, Preflight!ReserveMax
    <2>3. /\ reserves[p] \in Nat /\ reserves'[p] \in Nat
          /\ reserves'[p] >= reserves[p] /\ reserves'[p] >= Preflight!At(t).reserve
          /\ reserves'[p] \in {reserves[p], Preflight!At(t).reserve}
      BY <1>1, <2>2 DEF Preflight!TypeOK, Preflight!ReserveMax
    <2>4. Tokens[p] + reserves'[p] <= Limit
      <3>1. Tokens[p] + Preflight!At(t).reserve <= Limit
        BY <1>8, <2>1 DEF Preflight!Fits
      <3>2. reserves[p] > 0 => Tokens[p] + reserves[p] <= Limit
        BY <1>1 DEF AdmissionInv, RecordOK
      <3> QED
        BY <1>1, <2>1, <2>3, <3>1, <3>2
    <2>5. \A q \in Payloads : RecordOK(q)'
      BY <2>2, <2>4 DEF AdmissionInv, RecordOK
    <2>6. \A q \in Payloads :
             reserves'[q] >= reserves[q] /\ reserves[q] \in Nat /\ reserves'[q] \in Nat
      BY <1>1, <2>2, <2>3 DEF Preflight!TypeOK
    <2>7. ASSUME NEW u \in Threads, NEW i \in 1 .. Len(Programs[u]),
                 i \in 1 .. step[u] - 1 \/ (u = t /\ i = step[t]),
                 Countable(Programs[u][i].payload)
          PROVE  Programs[u][i].reserve <= reserves'[Programs[u][i].payload]
      <3>1. Programs[u][i].payload \in Payloads /\ Programs[u][i].reserve \in Nat
        BY <1>1, AtType
      <3>2. CASE i \in 1 .. step[u] - 1
        BY <2>6, <2>7, <3>1, <3>2 DEF AdmissionInv, BehindOK
      <3>3. CASE u = t /\ i = step[t]
        BY <2>3, <3>3 DEF Preflight!At
      <3> QED
        BY <2>7, <3>2, <3>3
    <2>8. \A u \in Threads : BehindOK(u)'
      <3>1. ASSUME NEW u \in Threads, NEW i \in 1 .. step'[u] - 1
            PROVE  /\ i \in 1 .. Len(Programs[u])
                   /\ i \in 1 .. step[u] - 1 \/ (u = t /\ i = step[t])
        <4>1. step[u] \in 1 .. Len(Programs[u]) /\ Len(Programs[u]) \in Nat
          BY <1>1, AtType
        <4>2. step'[u] = step[u] \/ (u = t /\ step'[u] = step[u] + 1)
          BY <1>4
        <4> QED
          BY <4>1, <4>2
      <3> QED
        BY <2>7, <3>1 DEF BehindOK
    <2>9. Preflight!GenerationFits'
      <3>1. ASSUME NEW s \in sent
            PROVE  /\ counts'[s.payload] = Tokens[s.payload]
                   /\ s.reserve <= reserves'[s.payload]
                   /\ Tokens[s.payload] + reserves'[s.payload] <= Limit
        <4>1. /\ s.payload \in Payloads /\ s.reserve \in Nat
              /\ counts[s.payload] = Tokens[s.payload]
              /\ s.reserve <= reserves[s.payload]
              /\ Tokens[s.payload] + reserves[s.payload] <= Limit
          BY <1>1 DEF AdmissionInv, Preflight!TypeOK, Preflight!GenerationFits
        <4> QED
          BY <1>1, <2>2, <2>4, <2>6, <4>1
      <3>2. ASSUME NEW r \in Preflight!Planned(t, p)
            PROVE  r <= reserves'[p]
        <4>1. PICK i \in 1 .. step[t] :
                 Programs[t][i].payload = p /\ r = Programs[t][i].reserve
          BY DEF Preflight!Planned
        <4>2. i \in 1 .. Len(Programs[t]) /\ (i \in 1 .. step[t] - 1 \/ i = step[t])
          BY <1>1, AtType
        <4>3. Countable(p)
          BY <1>1 DEF AdmissionInv, NeedsCount
        <4> QED
          BY <2>7, <4>1, <4>2, <4>3
      <3>3. \A s \in sent' :
               s \in sent \/ \E r \in Preflight!Planned(t, p) : s = [payload |-> p, reserve |-> r]
        BY <1>8 DEF Preflight!Sends
      <3> QED
        BY <1>1, <2>1, <2>4, <3>1, <3>2, <3>3 DEF Preflight!GenerationFits
    <2>10. Preflight!TypeOK'
      <3>1. sent' \subseteq [payload : Payloads, reserve : Nat]
        <4>1. Preflight!Planned(t, p) \subseteq Nat
          BY <1>1, AtType DEF Preflight!Planned
        <4> QED
          BY <1>1, <1>8, <4>1 DEF Preflight!Sends, Preflight!TypeOK
      <3>2. holder' \in [Payloads -> Threads \cup {Preflight!None}]
        BY <1>1 DEF Preflight!Release, Preflight!TypeOK
      <3> QED
        BY <1>1, <2>2, <3>1, <3>2, AdvanceType DEF Preflight!TypeOK
    <2> QED
      BY <1>6, <1>7, <2>5, <2>8, <2>9, <2>10 DEF AdmissionInv
  <1>9. CASE Preflight!Ends(t) /\ UNCHANGED <<reserves, sent>>
    <2>1. Preflight!TypeOK'
      <3>1. holder' \in [Payloads -> Threads \cup {Preflight!None}]
        BY <1>1 DEF Preflight!Release, Preflight!TypeOK
      <3> QED
        BY <1>1, <1>9, <3>1, AdvanceType DEF Preflight!TypeOK
    <2>2. \A u \in Threads : BehindOK(u)'
      BY <1>9 DEF AdmissionInv, BehindOK, Preflight!Ends
    <2>3. (\A q \in Payloads : RecordOK(q)') /\ Preflight!GenerationFits'
      BY <1>1, <1>9 DEF AdmissionInv, RecordOK, Preflight!GenerationFits
    <2> QED
      BY <1>6, <1>7, <2>1, <2>2, <2>3 DEF AdmissionInv
  <1> QED
    BY <1>8, <1>9 DEF Preflight!Enforce

-------------------------------------------------------------------------------

LEMMA AdmissionStep ==
  ASSUME AdmissionInv,
         UNCHANGED Preflight!vars \/ \E t \in Threads : Preflight!Step(t)
  PROVE  AdmissionInv'
  <1>1. CASE UNCHANGED Preflight!vars
    BY <1>1
       DEF Preflight!vars, AdmissionInv, Preflight!TypeOK, HoldsLock, CountOK, NeedsCount,
           BehindOK, AskedOK, RecordOK, Preflight!GenerationFits, Preflight!At
  <1>2. CASE \E t \in Threads : Preflight!Step(t)
    BY <1>2, BypassInv, LockInv, CountInv, EnforceInv DEF Preflight!Step
  <1> QED
    BY <1>1, <1>2

-------------------------------------------------------------------------------
(* Structured answers. *)

(* What a call has before its answer is there, and before it is corrected. *)
EarlyOK ==
    /\ phase \in {"count", "ask"} => value = {} /\ first = {}
    /\ phase \in {"count", "ask", "check", "count_whole", "whole"} =>
          units = {} /\ left = {} /\ paid = {}
    /\ phase \in {"check", "count_units"} => value = first
    /\ phase \in {"count_whole", "whole"} => rejected
    /\ phase # "ended" => outcome = Structured!NoOutcome

(* The first answer has the sufficient claims of the original. *)
FirstOK ==
    \A f \in first : kind = "reassessment" /\ f.rest # "identities" =>
        \A c \in Structured!Claim \ missing :
            f.claims[c].body = "original" /\ f.claims[c].fault = "none"

(* The units are those of the first answer. *)
UnitsOK ==
    units # {} =>
        /\ rejected
        /\ first # {}
        /\ \A f \in first : Structured!Patchable(f) /\ units = Structured!PlanRepairs(f)
        /\ Cardinality(units) <= MaxUnits

(* What was paid: units a model has to correct, or the whole. *)
SpentOK ==
    /\ units # {} => paid \subseteq Structured!ModelUnits
    /\ units = {} => paid \subseteq {"whole"}
    /\ paid # {} => rejected

(* While units are patched nothing but the patched ones has changed, and   *)
(* these have kept their bodies.                                           *)
PatchOK ==
    /\ phase \in {"count_units", "patch", "merge"} => units # {}
    /\ phase = "count_units" => paid = {}
    /\ phase = "patch" => paid = Structured!ModelUnits \ left
    /\ phase = "merge" => paid = Structured!ModelUnits
    /\ phase \in {"patch", "merge"} =>
          \A v \in value, f \in first, c \in Structured!Claim :
              /\ v.claims[c].body = f.claims[c].body
              /\ c \notin units \/ (phase = "patch" /\ c \in left) => v.claims[c] = f.claims[c]

ReturnedOK ==
    /\ Structured!ReturnedIsValid
    /\ Structured!OnlyFaultsAreCorrected
    /\ kind = "reassessment" =>
          \A v \in outcome.value, c \in Structured!Claim \ missing :
              v.claims[c].body = "original"

AnswerInv ==
    /\ Structured!TypeOK
    /\ EarlyOK /\ FirstOK /\ UnitsOK /\ SpentOK /\ PatchOK /\ ReturnedOK

-------------------------------------------------------------------------------

LEMMA SameCardinality == \A S : Structured!Cardinality(S) = Cardinality(S)
  BY DEF Structured!Cardinality, Cardinality

LEMMA FiniteClaim ==
  IsFiniteSet(Structured!Claim) /\ "layout" \notin Structured!Claim
      /\ "whole" \notin Structured!Claim
  <1>1. /\ Claims \in Seq(Structured!Claim) /\ "layout" \notin Structured!Claim
        /\ "whole" \notin Structured!Claim
    BY StructuredAssumption DEF Structured!ClaimsAssumption
  <1>2. Len(Claims) \in Nat /\ DOMAIN Claims = 1 .. Len(Claims)
        /\ \A i \in 1 .. Len(Claims) : Claims[i] \in Structured!Claim
    BY <1>1
  <1>3. IsFiniteSet(1 .. Len(Claims))
    BY <1>2, FS_Interval
  <1>4. Structured!Claim = {Claims[i] : i \in 1 .. Len(Claims)}
    BY <1>2 DEF Structured!Claim, Structured!ToSet
  <1>5. Claims \in [1 .. Len(Claims) -> Structured!Claim]
    BY <1>1
  <1>6. Claims \in Surjection(1 .. Len(Claims), Structured!Claim)
    BY <1>4, <1>5 DEF Surjection
  <1>7. IsFiniteSet(Structured!Claim)
    BY <1>3, <1>6, FS_Surjection
  <1> QED
    BY <1>1, <1>7

(* What restoring makes of a value. *)
LEMMA RestoredIs ==
  ASSUME NEW v \in Structured!Value
  PROVE  LET again == kind = "reassessment" /\ v.rest # "identities"
             w == Structured!Restored(v)
         IN  /\ w \in Structured!Value /\ w.rest = v.rest
             /\ \A c \in Structured!Claim :
                   /\ again /\ c \notin missing =>
                         w.claims[c].body = "original" /\ w.claims[c].fault = "none"
                   /\ ~(again /\ c \notin missing) =>
                         /\ w.claims[c].body = v.claims[c].body
                         /\ v.claims[c].fault = "none" => w.claims[c] = v.claims[c]
  <1> DEFINE again == kind = "reassessment" /\ v.rest # "identities"
             plain == [c \in Structured!Claim |->
                          IF v.claims[c].fault = "wrapped"
                          THEN [v.claims[c] EXCEPT !.fault = "none"] ELSE v.claims[c]]
             kept  == [body |-> "original", fault |-> "none"]
             old   == [c \in Structured!Claim |-> IF c \in missing THEN plain[c] ELSE kept]
             one   == [v EXCEPT !.claims = plain]
             two   == [one EXCEPT !.claims = old]
  <1>1. /\ v.claims \in [Structured!Claim -> Structured!ClaimValue]
        /\ v.rest \in {"fine", "layout", "identities", "other"}
    BY DEF Structured!Value
  <1>2. \A c \in Structured!Claim :
           /\ plain[c] \in Structured!ClaimValue /\ plain[c].body = v.claims[c].body
           /\ v.claims[c].fault = "none" => plain[c] = v.claims[c]
    BY <1>1 DEF Structured!ClaimValue, Structured!Faults
  <1>3. Structured!RestoreVerbatim(v) = one
    BY DEF Structured!RestoreVerbatim
  <1>4. /\ plain \in [Structured!Claim -> Structured!ClaimValue]
        /\ old \in [Structured!Claim -> Structured!ClaimValue]
        /\ \A c \in Structured!Claim : old[c] = IF c \in missing THEN plain[c] ELSE kept
    BY <1>2 DEF Structured!ClaimValue, Structured!Faults
  <1> HIDE DEF plain, old
  <1>5. /\ one \in Structured!Value /\ one.rest = v.rest /\ one.claims = plain
        /\ two \in Structured!Value /\ two.rest = v.rest /\ two.claims = old
    BY <1>1, <1>4 DEF Structured!Value
  <1>6. Structured!Restored(v) = IF again THEN two ELSE one
    BY <1>3, <1>5 DEF Structured!Restored, Structured!RestoreSufficient, old
  <1> HIDE DEF one, two
  <1> QED
    BY <1>2, <1>4, <1>5, <1>6

(* What a patch makes of a value. *)
LEMMA PatchedIs ==
  ASSUME NEW v \in Structured!Value, NEW u \in Structured!Claim \cup {"layout"},
         NEW w \in Structured!Patched(v, u)
  PROVE  /\ w \in Structured!Value
         /\ \A c \in Structured!Claim : w.claims[c].body = v.claims[c].body
         /\ \A c \in Structured!Claim \ {u} : w.claims[c] = v.claims[c]
  <1>1. /\ v.claims \in [Structured!Claim -> Structured!ClaimValue]
        /\ v.rest \in {"fine", "layout", "identities", "other"}
    BY DEF Structured!Value
  <1>2. CASE u = "layout"
    <2>1. PICK r \in {"fine", "layout", "other"} : w = [v EXCEPT !.rest = r]
      BY <1>2 DEF Structured!Patched
    <2>2. w \in Structured!Value /\ w.claims = v.claims
      BY <1>1, <2>1 DEF Structured!Value
    <2> QED
      BY <2>2
  <1>3. CASE u # "layout"
    <2>1. u \in Structured!Claim
      BY <1>3
    <2>2. PICK f \in Structured!Faults : w = [v EXCEPT !.claims[u].fault = f]
      BY <1>3 DEF Structured!Patched, Structured!Faults
    <2> DEFINE claims == [v.claims EXCEPT ![u].fault = f]
    <2>3. claims \in [Structured!Claim -> Structured!ClaimValue]
      BY <1>1, <2>1 DEF Structured!ClaimValue
    <2>4. /\ claims[u].body = v.claims[u].body
          /\ \A c \in Structured!Claim \ {u} : claims[c] = v.claims[c]
      BY <1>1, <2>1 DEF Structured!ClaimValue
    <2>5. w = [v EXCEPT !.claims = claims]
      BY <1>1, <2>1, <2>2 DEF Structured!Value
    <2> HIDE DEF claims
    <2>6. w \in Structured!Value /\ w.claims = claims
      BY <1>1, <2>3, <2>5 DEF Structured!Value
    <2> QED
      BY <2>4, <2>6
  <1> QED
    BY <1>2, <1>3

-------------------------------------------------------------------------------

(* Nothing is known of an answer before the first call. *)
LEMMA AnswerInit ==
  ASSUME Structured!Init
  PROVE  AnswerInv
  <1>1. Structured!TypeOK
    BY DEF Structured!Init, Structured!TypeOK, Structured!NoOutcome
  <1>2. EarlyOK /\ FirstOK /\ UnitsOK /\ SpentOK /\ PatchOK
    BY DEF Structured!Init, EarlyOK, FirstOK, UnitsOK, SpentOK, PatchOK
  <1>3. ReturnedOK
    BY DEF Structured!Init, ReturnedOK, Structured!NoOutcome, Structured!ReturnedIsValid,
           Structured!OnlyFaultsAreCorrected
  <1> QED
    BY <1>1, <1>2, <1>3 DEF AnswerInv

LEMMA UnitsStay ==
  ASSUME UnitsOK, UNCHANGED <<kind, units, first>>, rejected => rejected'
  PROVE  UnitsOK'
  BY DEF UnitsOK, Structured!Patchable, Structured!PlanRepairs, Structured!Faulty

(* A request that fails keeps what it knows of its answer. *)
LEMMA AnswerRaised ==
  ASSUME AnswerInv,
         \E code \in {"conflict", "over_budget", "provider", "invalid"} :
             Structured!Raises(code),
         UNCHANGED <<kind, missing, value, units, left, first>>,
         rejected' \in BOOLEAN, rejected => rejected',
         paid' \subseteq Structured!Unit, SpentOK'
  PROVE  AnswerInv'
  <1>1. PICK code \in {"conflict", "over_budget", "provider", "invalid"} :
           phase' = "ended" /\ outcome' = [result |-> code, value |-> {}]
    BY DEF Structured!Raises
  <1>2. Structured!TypeOK'
    BY <1>1 DEF AnswerInv, Structured!TypeOK
  <1>3. UnitsOK'
    BY UnitsStay DEF AnswerInv
  <1>4. EarlyOK' /\ FirstOK' /\ PatchOK'
    BY <1>1 DEF AnswerInv, EarlyOK, FirstOK, PatchOK
  <1>5. ReturnedOK'
    BY <1>1 DEF ReturnedOK, Structured!ReturnedIsValid, Structured!OnlyFaultsAreCorrected
  <1> QED
    BY <1>2, <1>3, <1>4, <1>5 DEF AnswerInv

(* A value is returned that passes, with the sufficient claims as they     *)
(* were and nothing else corrected than the units.                         *)
LEMMA AnswerReturned ==
  ASSUME AnswerInv, NEW w \in Structured!Value, Structured!Passes(w), Structured!Returns(w),
         UNCHANGED <<kind, missing, value, units, left, first, rejected>>,
         paid' \subseteq Structured!Unit, SpentOK',
         kind = "reassessment" =>
             \A c \in Structured!Claim \ missing : w.claims[c].body = "original",
         units # {} =>
             \A f \in first, c \in Structured!Claim :
                 /\ w.claims[c].body = f.claims[c].body
                 /\ c \notin Structured!Faulty(f) => w.claims[c] = f.claims[c]
  PROVE  AnswerInv'
  <1>1. phase' = "ended" /\ outcome' = [result |-> "value", value |-> {w}]
    BY DEF Structured!Returns
  <1>2. Structured!TypeOK'
    BY <1>1 DEF AnswerInv, Structured!TypeOK
  <1>3. UnitsOK'
    BY UnitsStay DEF AnswerInv
  <1>4. EarlyOK' /\ FirstOK' /\ PatchOK'
    BY <1>1 DEF AnswerInv, EarlyOK, FirstOK, PatchOK
  <1>5. ReturnedOK'
    <2>1. outcome'.value = {w}
      BY <1>1
    <2>2. Structured!ReturnedIsValid'
      BY <2>1 DEF Structured!ReturnedIsValid, Structured!Passes, Structured!Faulty
    <2>3. Structured!OnlyFaultsAreCorrected'
      BY <2>1 DEF Structured!OnlyFaultsAreCorrected, Structured!Faulty
    <2> QED
      BY <2>1, <2>2, <2>3 DEF ReturnedOK
  <1> QED
    BY <1>2, <1>3, <1>4, <1>5 DEF AnswerInv

LEMMA AnswerType == Structured!Answers \subseteq Structured!Value
  BY DEF Structured!Answers, Structured!Value, Structured!ClaimValue

(* What a reassessment restores keeps the sufficient claims. *)
LEMMA RestoredKeeps ==
  ASSUME NEW v \in Structured!Value, Structured!Passes(Structured!Restored(v)),
         kind = "reassessment"
  PROVE  \A c \in Structured!Claim \ missing :
             /\ Structured!Restored(v).claims[c].body = "original"
             /\ Structured!Restored(v).claims[c].fault = "none"
  <1>1. v.rest = "fine"
    BY RestoredIs DEF Structured!Passes
  <1> QED
    BY <1>1, RestoredIs

(* The first request is counted. *)
LEMMA CountAnswerInv ==
  ASSUME AnswerInv, Structured!Count
  PROVE  AnswerInv'
  <1>1. /\ phase = "count"
        /\ UNCHANGED <<kind, missing, value, units, left, rejected, first, paid>>
    BY DEF Structured!Count
  <1>2. SpentOK' /\ paid' \subseteq Structured!Unit /\ rejected' \in BOOLEAN
    BY <1>1 DEF AnswerInv, EarlyOK, SpentOK, Structured!TypeOK
  <1>3. CASE phase' = "ask" /\ UNCHANGED outcome
    <2>1. Structured!TypeOK'
      BY <1>1, <1>3 DEF AnswerInv, Structured!TypeOK
    <2>2. UnitsOK'
      BY <1>1, UnitsStay DEF AnswerInv
    <2>3. EarlyOK' /\ FirstOK' /\ PatchOK'
      BY <1>1, <1>3 DEF AnswerInv, EarlyOK, FirstOK, PatchOK, Structured!NoOutcome
    <2>4. ReturnedOK'
      BY <1>1, <1>3 DEF AnswerInv, EarlyOK, ReturnedOK, Structured!NoOutcome,
                        Structured!ReturnedIsValid, Structured!OnlyFaultsAreCorrected
    <2> QED
      BY <1>2, <2>1, <2>2, <2>3, <2>4 DEF AnswerInv
  <1>4. CASE \E code \in {"conflict", "over_budget", "provider"} : Structured!Raises(code)
    BY <1>1, <1>2, <1>4, AnswerRaised
  <1> QED
    BY <1>3, <1>4 DEF Structured!Count

(* The first answer is restored, or could not be parsed, or did not come.  *)
LEMMA AskAnswerInv ==
  ASSUME AnswerInv, Structured!Ask
  PROVE  AnswerInv'
  <1>1. /\ phase = "ask" /\ value = {} /\ first = {} /\ units = {} /\ left = {} /\ paid = {}
        /\ outcome = Structured!NoOutcome
        /\ UNCHANGED <<kind, missing, units, left, rejected, paid>>
    BY DEF Structured!Ask, AnswerInv, EarlyOK
  <1>2. SpentOK' /\ paid' \subseteq Structured!Unit /\ rejected' \in BOOLEAN
    BY <1>1 DEF AnswerInv, SpentOK, Structured!TypeOK
  <1>3. CASE /\ phase' = "check" /\ UNCHANGED outcome
             /\ value' = first'
             /\ \/ value' = {}
                \/ \E v \in Structured!Answers : value' = {Structured!Restored(v)}
    <2>1. ASSUME NEW v \in Structured!Answers, value' = {Structured!Restored(v)}
          PROVE  /\ value' \subseteq Structured!Value /\ \A x, y \in value' : x = y
                 /\ FirstOK'
      <3>1. v \in Structured!Value
        BY AnswerType
      <3> DEFINE w == Structured!Restored(v)
      <3>2. /\ w \in Structured!Value /\ w.rest = v.rest
            /\ kind = "reassessment" /\ w.rest # "identities" =>
                  \A c \in Structured!Claim \ missing :
                      w.claims[c].body = "original" /\ w.claims[c].fault = "none"
        BY <3>1, RestoredIs
      <3> HIDE DEF w
      <3>3. first' = {w} /\ value' = {w}
        BY <1>3, <2>1 DEF w
      <3> QED
        BY <1>1, <3>2, <3>3 DEF FirstOK
    <2>2. Structured!TypeOK'
      BY <1>1, <1>2, <1>3, <2>1 DEF AnswerInv, Structured!TypeOK
    <2>3. FirstOK'
      BY <1>3, <2>1 DEF FirstOK
    <2>4. EarlyOK' /\ UnitsOK' /\ PatchOK'
      BY <1>1, <1>3 DEF EarlyOK, UnitsOK, PatchOK, Structured!NoOutcome
    <2>5. ReturnedOK'
      BY <1>1, <1>3 DEF ReturnedOK, Structured!NoOutcome, Structured!ReturnedIsValid,
                        Structured!OnlyFaultsAreCorrected
    <2> QED
      BY <1>2, <2>2, <2>3, <2>4, <2>5 DEF AnswerInv
  <1>4. CASE Structured!Raises("provider") /\ UNCHANGED <<value, first>>
    BY <1>1, <1>2, <1>4, AnswerRaised
  <1> QED
    BY <1>1, <1>3, <1>4 DEF Structured!Ask

(* A patchable answer that does not pass has a unit to correct. *)
LEMMA PlanIs ==
  ASSUME NEW v \in Structured!Value, Structured!Patchable(v)
  PROVE  /\ Structured!PlanRepairs(v) \subseteq Structured!Claim \cup {"layout"}
         /\ IsFiniteSet(Structured!PlanRepairs(v))
         /\ Cardinality(Structured!PlanRepairs(v)) \in Nat
         /\ Structured!PlanRepairs(v) \cap Structured!Claim = Structured!Faulty(v)
         /\ ~Structured!Passes(v) => Structured!PlanRepairs(v) # {}
         /\ v.rest # "identities"
  <1>1. /\ Structured!PlanRepairs(v) \subseteq Structured!Claim \cup {"layout"}
        /\ Structured!PlanRepairs(v) \cap Structured!Claim = Structured!Faulty(v)
    BY FiniteClaim DEF Structured!PlanRepairs, Structured!Faulty
  <1>2. IsFiniteSet(Structured!Claim \cup {"layout"})
    BY FiniteClaim, FS_AddElement
  <1>3. /\ IsFiniteSet(Structured!PlanRepairs(v))
        /\ Cardinality(Structured!PlanRepairs(v)) \in Nat
    BY <1>1, <1>2, FS_Subset, FS_CardinalityType
  <1>4. v.rest \in {"fine", "layout"}
    BY DEF Structured!Patchable
  <1>5. ~Structured!Passes(v) => Structured!PlanRepairs(v) # {}
    BY <1>4 DEF Structured!Passes, Structured!PlanRepairs
  <1> QED
    BY <1>1, <1>3, <1>4, <1>5

(* The answer passes, or goes on file and is planned for. *)
LEMMA CheckAnswerInv ==
  ASSUME AnswerInv, Structured!Check
  PROVE  AnswerInv'
  <1>1. /\ phase = "check" /\ value = first /\ units = {} /\ left = {} /\ paid = {}
        /\ outcome = Structured!NoOutcome
        /\ UNCHANGED <<kind, missing, value, first, paid>>
    BY DEF Structured!Check, AnswerInv, EarlyOK
  <1>2. CASE \E v \in value : Structured!Passes(v) /\ Structured!Returns(v)
                              /\ UNCHANGED <<units, left, rejected>>
    <2>1. PICK v \in value : Structured!Passes(v) /\ Structured!Returns(v)
                             /\ UNCHANGED <<units, left, rejected>>
      BY <1>2
    <2>2. v \in Structured!Value /\ v \in first /\ v.rest = "fine"
      BY <1>1, <2>1 DEF AnswerInv, Structured!TypeOK, Structured!Passes
    <2>3. kind = "reassessment" =>
             \A c \in Structured!Claim \ missing : v.claims[c].body = "original"
      BY <2>2 DEF AnswerInv, FirstOK
    <2>4. SpentOK' /\ paid' \subseteq Structured!Unit
      BY <1>1, <2>1 DEF SpentOK
    <2> QED
      BY <1>1, <2>1, <2>2, <2>3, <2>4, AnswerReturned
  <1>3. CASE (\A v \in value : ~Structured!Passes(v)) /\ Structured!Plan
    <2>1. rejected' = TRUE
      BY <1>3 DEF Structured!Plan
    <2>2. CASE (\E v \in value : Structured!Raises("over_budget")) /\ UNCHANGED <<units, left>>
      <3>1. SpentOK' /\ paid' \subseteq Structured!Unit
        BY <1>1, <2>2 DEF SpentOK
      <3> QED
        BY <1>1, <2>1, <2>2, <3>1, AnswerRaised
    <2>3. ASSUME NEW v \in value, Structured!Patchable(v),
                 ~(Cardinality(Structured!PlanRepairs(v)) > MaxUnits),
                 units' = Structured!PlanRepairs(v), left' = Structured!PlanRepairs(v),
                 phase' = "count_units", UNCHANGED outcome
          PROVE  AnswerInv'
      <3>1. v \in Structured!Value /\ first = {v} /\ value = {v}
        BY <1>1, <2>3 DEF AnswerInv, Structured!TypeOK
      <3> DEFINE plan == Structured!PlanRepairs(v)
      <3>2. /\ plan \subseteq Structured!Unit /\ plan # {} /\ Cardinality(plan) <= MaxUnits
        BY <1>3, <2>3, <3>1, PlanIs, StructuredAssumption
           DEF Structured!MaxUnitsAssumption, Structured!Unit
      <3>3. UnitsOK'
        BY <1>1, <2>1, <2>3, <3>1, <3>2
           DEF UnitsOK, Structured!Patchable, Structured!PlanRepairs, Structured!Faulty
      <3> HIDE DEF plan
      <3>4. units' = plan /\ left' = plan
        BY <2>3 DEF plan
      <3>5. Structured!TypeOK'
        BY <1>1, <2>1, <2>3, <3>2, <3>4 DEF AnswerInv, Structured!TypeOK
      <3>6. EarlyOK' /\ FirstOK' /\ SpentOK' /\ PatchOK'
        BY <1>1, <2>3, <3>2, <3>4
           DEF AnswerInv, EarlyOK, FirstOK, SpentOK, PatchOK, Structured!NoOutcome
      <3>7. ReturnedOK'
        BY <1>1, <2>3 DEF ReturnedOK, Structured!NoOutcome, Structured!ReturnedIsValid,
                          Structured!OnlyFaultsAreCorrected
      <3> QED
        BY <3>3, <3>5, <3>6, <3>7 DEF AnswerInv
    <2>4. CASE phase' = "count_whole" /\ UNCHANGED <<units, left, outcome>>
      <3>1. Structured!TypeOK'
        BY <1>1, <2>1, <2>4 DEF AnswerInv, Structured!TypeOK
      <3>2. EarlyOK' /\ FirstOK' /\ UnitsOK' /\ SpentOK' /\ PatchOK'
        BY <1>1, <2>1, <2>4
           DEF AnswerInv, EarlyOK, FirstOK, UnitsOK, SpentOK, PatchOK, Structured!NoOutcome
      <3>3. ReturnedOK'
        BY <1>1, <2>4 DEF ReturnedOK, Structured!NoOutcome, Structured!ReturnedIsValid,
                          Structured!OnlyFaultsAreCorrected
      <3> QED
        BY <3>1, <3>2, <3>3 DEF AnswerInv
    <2> QED
      BY <1>3, <2>2, <2>3, <2>4, SameCardinality DEF Structured!Plan
  <1> QED
    BY <1>2, <1>3 DEF Structured!Check

(* A pass has come to one unit less, or starts again. *)
LEMMA FollowingIs ==
  ASSUME NEW u, Structured!Current(u)
  PROVE  /\ u \in left
         /\ left = {u} => Structured!AtLast(u) /\ Structured!Following(u) = units
         /\ left # {u} => ~Structured!AtLast(u) /\ Structured!Following(u) = left \ {u}
  BY DEF Structured!Current, Structured!AtLast, Structured!Following

(* A unit is counted, or refused. *)
LEMMA CountUnitAnswerInv ==
  ASSUME AnswerInv, Structured!CountUnit
  PROVE  AnswerInv'
  <1>1. /\ phase = "count_units" /\ value = first /\ units # {} /\ paid = {}
        /\ outcome = Structured!NoOutcome
        /\ UNCHANGED <<kind, missing, value, units, rejected, first, paid>>
    BY DEF Structured!CountUnit, AnswerInv, EarlyOK, PatchOK
  <1>2. UnitsOK' /\ SpentOK' /\ paid' \subseteq Structured!Unit /\ rejected' \in BOOLEAN
    BY <1>1, UnitsStay DEF AnswerInv, SpentOK, Structured!TypeOK
  <1>3. PICK u \in units :
           /\ Structured!Current(u)
           /\ \/ /\ left' = Structured!Following(u)
                 /\ phase' = IF Structured!AtLast(u) THEN "patch" ELSE phase
                 /\ UNCHANGED outcome
              \/ /\ \E code \in {"over_budget", "provider"} : Structured!Raises(code)
                 /\ UNCHANGED left
    BY DEF Structured!CountUnit
  <1>4. CASE /\ left' = Structured!Following(u)
             /\ phase' = IF Structured!AtLast(u) THEN "patch" ELSE phase
             /\ UNCHANGED outcome
    <2>1. /\ left' \subseteq units /\ phase' \in {"count_units", "patch"}
          /\ phase' = "patch" => left' = units
      BY <1>1, <1>3, <1>4, FollowingIs DEF AnswerInv, Structured!TypeOK
    <2>2. Structured!TypeOK'
      BY <1>1, <1>4, <2>1 DEF AnswerInv, Structured!TypeOK
    <2>3. EarlyOK' /\ FirstOK'
      BY <1>1, <1>4, <2>1 DEF AnswerInv, EarlyOK, FirstOK, Structured!NoOutcome
    <2>4. PatchOK'
      <3>1. \A v, w \in first : v = w
        BY DEF AnswerInv, Structured!TypeOK
      <3>2. Structured!ModelUnits' \subseteq units'
        BY DEF Structured!ModelUnits
      <3> QED
        BY <1>1, <2>1, <3>1, <3>2 DEF PatchOK
    <2>5. ReturnedOK'
      BY <1>1, <1>4 DEF ReturnedOK, Structured!NoOutcome, Structured!ReturnedIsValid,
                        Structured!OnlyFaultsAreCorrected
    <2> QED
      BY <1>2, <2>2, <2>3, <2>4, <2>5 DEF AnswerInv
  <1>5. CASE (\E code \in {"over_budget", "provider"} : Structured!Raises(code))
             /\ UNCHANGED left
    BY <1>1, <1>2, <1>5, AnswerRaised
  <1> QED
    BY <1>3, <1>4, <1>5

(* The units are those of the only first answer, which none of the passes  *)
(* yet to come has changed.                                                *)
LEMMA UnitIs ==
  ASSUME AnswerInv, units # {}, phase \in {"count_units", "patch"}, value # {}, NEW u \in left
  PROVE  /\ u \in Structured!Claim \cup {"layout"}
         /\ \A v \in value :
               Structured!Deterministic(v, u) <=> u \notin Structured!ModelUnits
  <1>1. u \in units /\ first # {}
    BY DEF AnswerInv, Structured!TypeOK, UnitsOK
  <1>2. PICK f \in first : first = {f} /\ f \in Structured!Value
    BY <1>1 DEF AnswerInv, Structured!TypeOK
  <1>3. u \in Structured!Claim \cup {"layout"}
    BY <1>1, <1>2, PlanIs DEF AnswerInv, UnitsOK
  <1>4. ASSUME NEW v \in value
        PROVE  Structured!Deterministic(v, u) <=> u \notin Structured!ModelUnits
    <2>1. u \in Structured!Claim => v.claims[u] = f.claims[u]
      BY <1>2 DEF AnswerInv, EarlyOK, PatchOK
    <2> QED
      BY <1>1, <1>2, <2>1 DEF Structured!ModelUnits, Structured!Deterministic
  <1> QED
    BY <1>3, <1>4

(* A unit is patched: by code, or with one call of a model. *)
LEMMA PatchAnswerInv ==
  ASSUME AnswerInv, Structured!Patch
  PROVE  AnswerInv'
  <1>1. /\ phase = "patch" /\ units # {} /\ paid = Structured!ModelUnits \ left
        /\ rejected /\ outcome = Structured!NoOutcome
        /\ UNCHANGED <<kind, missing, units, rejected, first>>
    BY DEF Structured!Patch, AnswerInv, EarlyOK, PatchOK, UnitsOK
  <1>2. PICK v \in value, u \in units :
           /\ Structured!Current(u)
           /\ \/ /\ \E w \in Structured!Patched(v, u) : value' = {w}
                 /\ paid' = paid \cup IF Structured!Deterministic(v, u) THEN {} ELSE {u}
                 /\ left' = Structured!Following(u)
                 /\ phase' = IF Structured!AtLast(u) THEN "merge" ELSE phase
                 /\ UNCHANGED outcome
              \/ /\ ~Structured!Deterministic(v, u)
                 /\ paid' = paid \cup {u}
                 /\ \E code \in {"invalid", "provider"} : Structured!Raises(code)
                 /\ UNCHANGED <<value, left>>
    BY DEF Structured!Patch
  <1>3. /\ u \in left /\ u \in Structured!Claim \cup {"layout"}
        /\ Structured!Deterministic(v, u) <=> u \notin Structured!ModelUnits
    BY <1>1, <1>2, FollowingIs, UnitIs
  <1>4. UnitsOK' /\ UNCHANGED Structured!ModelUnits /\ Structured!ModelUnits \subseteq units
    BY <1>1, UnitsStay DEF AnswerInv, Structured!ModelUnits, Structured!Deterministic
  <1>5. units \subseteq Structured!Unit /\ left \subseteq units
        /\ (\A x, y \in first : x = y) /\ v \in Structured!Value
    BY DEF AnswerInv, Structured!TypeOK
  <1>6. CASE /\ \E w \in Structured!Patched(v, u) : value' = {w}
             /\ paid' = paid \cup IF Structured!Deterministic(v, u) THEN {} ELSE {u}
             /\ left' = Structured!Following(u)
             /\ phase' = IF Structured!AtLast(u) THEN "merge" ELSE phase
             /\ UNCHANGED outcome
    <2>1. PICK w \in Structured!Patched(v, u) : value' = {w}
      BY <1>6
    <2>2. /\ w \in Structured!Value
          /\ \A c \in Structured!Claim : w.claims[c].body = v.claims[c].body
          /\ \A c \in Structured!Claim \ {u} : w.claims[c] = v.claims[c]
      BY <1>3, <1>5, PatchedIs
    <2>3. \/ left = {u} /\ phase' = "merge" /\ left' = units
          \/ left # {u} /\ phase' = "patch" /\ left' = left \ {u}
      BY <1>1, <1>2, <1>6, FollowingIs
    <2>4. paid' = paid \cup (Structured!ModelUnits \cap {u})
      BY <1>3, <1>6
    <2>5. Structured!TypeOK'
      BY <1>1, <1>4, <1>5, <1>6, <2>1, <2>2, <2>3, <2>4 DEF AnswerInv, Structured!TypeOK
    <2>6. EarlyOK' /\ FirstOK'
      BY <1>1, <1>6, <2>3 DEF AnswerInv, EarlyOK, FirstOK, Structured!NoOutcome
    <2>7. PatchOK' /\ SpentOK'
      <3>1. /\ phase' = "patch" => paid' = Structured!ModelUnits \ left'
            /\ phase' = "merge" => paid' = Structured!ModelUnits
        BY <1>1, <1>3, <2>3, <2>4
      <3>2. ASSUME NEW f \in first, NEW c \in Structured!Claim
            PROVE  /\ w.claims[c].body = f.claims[c].body
                   /\ c \notin units \/ (phase' = "patch" /\ c \in left') =>
                         w.claims[c] = f.claims[c]
        <4>1. /\ v.claims[c].body = f.claims[c].body
              /\ c \notin units \/ c \in left => v.claims[c] = f.claims[c]
          BY <1>1 DEF AnswerInv, PatchOK
        <4>2. c \notin units \/ (phase' = "patch" /\ c \in left') =>
                 c # u /\ (c \notin units \/ c \in left)
          BY <1>2, <2>3
        <4> QED
          BY <2>2, <4>1, <4>2
      <3> QED
        BY <1>1, <1>4, <2>1, <2>3, <3>1, <3>2 DEF PatchOK, SpentOK
    <2>8. ReturnedOK'
      BY <1>1, <1>6 DEF ReturnedOK, Structured!NoOutcome, Structured!ReturnedIsValid,
                        Structured!OnlyFaultsAreCorrected
    <2> QED
      BY <1>4, <2>5, <2>6, <2>7, <2>8 DEF AnswerInv
  <1>7. CASE /\ ~Structured!Deterministic(v, u)
             /\ paid' = paid \cup {u}
             /\ \E code \in {"invalid", "provider"} : Structured!Raises(code)
             /\ UNCHANGED <<value, left>>
    <2>1. paid' \subseteq Structured!ModelUnits /\ paid' \subseteq Structured!Unit
      BY <1>1, <1>3, <1>4, <1>5, <1>7
    <2>2. SpentOK' /\ rejected' \in BOOLEAN
      BY <1>1, <1>4, <2>1 DEF SpentOK
    <2> QED
      BY <1>1, <1>7, <2>1, <2>2, AnswerRaised
  <1> QED
    BY <1>2, <1>6, <1>7

(* The patched value is restored and checked in full. *)
LEMMA MergeAnswerInv ==
  ASSUME AnswerInv, Structured!Merge
  PROVE  AnswerInv'
  <1>1. /\ phase = "merge" /\ units # {} /\ first # {}
        /\ UNCHANGED <<kind, missing, value, units, left, rejected, first, paid>>
    BY DEF Structured!Merge, AnswerInv, PatchOK, UnitsOK
  <1>2. SpentOK' /\ paid' \subseteq Structured!Unit /\ rejected' \in BOOLEAN
    BY <1>1 DEF AnswerInv, SpentOK, Structured!TypeOK, Structured!ModelUnits,
                Structured!Deterministic
  <1>3. PICK v \in value :
           \/ Structured!Passes(Structured!Restored(v))
              /\ Structured!Returns(Structured!Restored(v))
           \/ Structured!Raises("invalid")
    BY DEF Structured!Merge
  <1>4. v \in Structured!Value
    BY DEF AnswerInv, Structured!TypeOK
  <1> DEFINE w == Structured!Restored(v)
             again == kind = "reassessment" /\ v.rest # "identities"
  <1>5. CASE Structured!Passes(w) /\ Structured!Returns(w)
    <2>1. /\ w \in Structured!Value /\ w.rest = v.rest
          /\ \A c \in Structured!Claim :
                /\ again /\ c \notin missing =>
                      w.claims[c].body = "original" /\ w.claims[c].fault = "none"
                /\ ~(again /\ c \notin missing) =>
                      /\ w.claims[c].body = v.claims[c].body
                      /\ v.claims[c].fault = "none" => w.claims[c] = v.claims[c]
      BY <1>4, RestoredIs
    <2>2. kind = "reassessment" =>
             \A c \in Structured!Claim \ missing : w.claims[c].body = "original"
      BY <1>4, <1>5, RestoredKeeps
    <2>3. ASSUME NEW f \in first, NEW c \in Structured!Claim
          PROVE  /\ w.claims[c].body = f.claims[c].body
                 /\ c \notin Structured!Faulty(f) => w.claims[c] = f.claims[c]
      <3>1. /\ f \in Structured!Value /\ Structured!Patchable(f)
            /\ units = Structured!PlanRepairs(f)
        BY <1>1 DEF AnswerInv, Structured!TypeOK, UnitsOK
      <3>2. f.rest # "identities" /\ units \cap Structured!Claim = Structured!Faulty(f)
        BY <3>1, PlanIs
      <3>3. /\ v.claims[c].body = f.claims[c].body
            /\ c \notin units => v.claims[c] = f.claims[c]
        BY <1>1 DEF AnswerInv, PatchOK
      <3>4. CASE again /\ c \notin missing
        <4>1. f.claims[c].body = "original" /\ f.claims[c].fault = "none"
          BY <3>2, <3>4 DEF AnswerInv, FirstOK
        <4>2. w.claims[c] \in Structured!ClaimValue /\ f.claims[c] \in Structured!ClaimValue
          BY <2>1, <3>1 DEF Structured!Value
        <4> HIDE DEF w
        <4>3. w.claims[c] = f.claims[c]
          BY <2>1, <3>4, <4>1, <4>2 DEF Structured!ClaimValue
        <4> QED
          BY <4>3
      <3>5. CASE ~(again /\ c \notin missing)
        <4>1. c \notin Structured!Faulty(f) =>
                 v.claims[c] = f.claims[c] /\ v.claims[c].fault = "none"
          BY <3>2, <3>3 DEF Structured!Faulty
        <4> HIDE DEF w
        <4> QED
          BY <2>1, <3>3, <3>5, <4>1
      <3> QED
        BY <3>4, <3>5
    <2> HIDE DEF w
    <2> QED
      BY <1>1, <1>2, <1>5, <2>1, <2>2, <2>3, AnswerReturned
  <1>6. CASE Structured!Raises("invalid")
    BY <1>1, <1>2, <1>6, AnswerRaised
  <1> QED
    BY <1>3, <1>5, <1>6

(* The correction of the whole is counted, and answered. *)
LEMMA WholeAnswerInv ==
  ASSUME AnswerInv, Structured!CountWhole \/ Structured!Whole
  PROVE  AnswerInv'
  <1>1. /\ phase \in {"count_whole", "whole"} /\ units = {} /\ paid = {} /\ rejected
        /\ outcome = Structured!NoOutcome
        /\ UNCHANGED <<kind, missing, value, units, left, rejected, first>>
    BY DEF Structured!CountWhole, Structured!Whole, AnswerInv, EarlyOK
  <1>2. ASSUME paid' \subseteq {"whole"}
        PROVE  SpentOK' /\ paid' \subseteq Structured!Unit /\ rejected' \in BOOLEAN
    BY <1>1, <1>2 DEF SpentOK, Structured!Unit
  <1>3. CASE Structured!CountWhole
    <2>1. UNCHANGED paid
      BY <1>3 DEF Structured!CountWhole
    <2>2. CASE phase' = "whole" /\ UNCHANGED outcome
      <3>1. Structured!TypeOK'
        BY <1>1, <2>1, <2>2 DEF AnswerInv, Structured!TypeOK
      <3>2. EarlyOK' /\ FirstOK' /\ UnitsOK' /\ PatchOK'
        BY <1>1, <2>1, <2>2
           DEF AnswerInv, EarlyOK, FirstOK, UnitsOK, PatchOK, Structured!NoOutcome
      <3>3. ReturnedOK'
        BY <1>1, <2>2 DEF ReturnedOK, Structured!NoOutcome, Structured!ReturnedIsValid,
                          Structured!OnlyFaultsAreCorrected
      <3> QED
        BY <1>1, <1>2, <2>1, <3>1, <3>2, <3>3 DEF AnswerInv
    <2>3. CASE \E code \in {"over_budget", "provider"} : Structured!Raises(code)
      BY <1>1, <1>2, <2>1, <2>3, AnswerRaised
    <2> QED
      BY <1>3, <2>2, <2>3 DEF Structured!CountWhole
  <1>4. CASE Structured!Whole
    <2>1. paid' = {"whole"}
      BY <1>1, <1>4 DEF Structured!Whole
    <2>2. ASSUME NEW v \in Structured!Answers, Structured!Passes(Structured!Restored(v)),
                 Structured!Returns(Structured!Restored(v))
          PROVE  AnswerInv'
      <3>1. v \in Structured!Value /\ Structured!Restored(v) \in Structured!Value
        BY AnswerType, RestoredIs
      <3>2. kind = "reassessment" => \A c \in Structured!Claim \ missing :
               Structured!Restored(v).claims[c].body = "original"
        BY <2>2, <3>1, RestoredKeeps
      <3> QED
        BY <1>1, <1>2, <2>1, <2>2, <3>1, <3>2, AnswerReturned
    <2>3. CASE \E code \in {"invalid", "provider"} : Structured!Raises(code)
      BY <1>1, <1>2, <2>1, <2>3, AnswerRaised
    <2> QED
      BY <1>4, <2>2, <2>3 DEF Structured!Whole
  <1> QED
    BY <1>3, <1>4

LEMMA AnswerStep ==
  ASSUME AnswerInv, [Structured!Next]_(Structured!vars)
  PROVE  AnswerInv'
  <1>1. CASE UNCHANGED Structured!vars
    BY <1>1 DEF Structured!vars, AnswerInv, Structured!TypeOK, EarlyOK, FirstOK, UnitsOK,
                SpentOK, PatchOK, ReturnedOK, Structured!ReturnedIsValid,
                Structured!OnlyFaultsAreCorrected, Structured!ModelUnits,
                Structured!Deterministic, Structured!Patchable, Structured!PlanRepairs,
                Structured!Faulty, Structured!Passes
  <1>2. CASE Structured!Next
    BY <1>2, CountAnswerInv, AskAnswerInv, CheckAnswerInv, CountUnitAnswerInv,
       PatchAnswerInv, MergeAnswerInv, WholeAnswerInv DEF Structured!Next
  <1> QED
    BY <1>1, <1>2

LEMMA AnswerInvSuffices ==
  ASSUME AnswerInv
  PROVE  Structured!AnswerIsSound
  <1>1. ASSUME units # {}
        PROVE  \E f \in first : /\ f \in Structured!Value /\ Structured!Patchable(f)
                                /\ units = Structured!PlanRepairs(f)
    BY <1>1 DEF AnswerInv, Structured!TypeOK, UnitsOK
  <1>2. paid \subseteq units \/ (units = {} /\ paid \subseteq {"whole"})
    BY DEF AnswerInv, SpentOK, Structured!ModelUnits
  <1>3. Structured!SufficientSurvives
    <2> SUFFICES ASSUME kind = "reassessment", NEW c \in Structured!Claim \ missing,
                        c \in paid
                 PROVE  FALSE
      BY DEF Structured!SufficientSurvives, AnswerInv, ReturnedOK
    <2>1. c \in units
      BY <1>2, FiniteClaim
    <2>2. PICK f \in first : /\ f \in Structured!Value /\ Structured!Patchable(f)
                             /\ units = Structured!PlanRepairs(f)
      BY <1>1, <2>1
    <2>3. f.rest # "identities" /\ c \in Structured!Faulty(f)
      BY <2>1, <2>2, PlanIs
    <2> QED
      BY <2>3 DEF AnswerInv, FirstOK, Structured!Faulty
  <1>4. Structured!CorrectionIsBounded
    <2>1. CASE units # {}
      <3>1. PICK f \in first : /\ f \in Structured!Value /\ Structured!Patchable(f)
                               /\ units = Structured!PlanRepairs(f)
        BY <1>1, <2>1
      <3>2. IsFiniteSet(units) /\ Cardinality(units) \in Nat /\ "whole" \notin units
        BY <3>1, PlanIs, FiniteClaim
      <3>3. paid \subseteq units /\ Cardinality(units) <= MaxUnits
        BY <1>2, <2>1 DEF AnswerInv, UnitsOK
      <3>4. Cardinality(paid) <= Cardinality(units) /\ Cardinality(paid) \in Nat
        BY <3>2, <3>3, FS_Subset, FS_CardinalityType
      <3>5. Cardinality(paid) <= MaxUnits
        BY <3>2, <3>3, <3>4, StructuredAssumption DEF Structured!MaxUnitsAssumption
      <3> QED
        BY <3>2, <3>3, <3>5, SameCardinality
           DEF AnswerInv, SpentOK, Structured!CorrectionIsBounded
    <2>2. CASE units = {}
      <3>1. paid \in {{}, {"whole"}}
        BY <1>2, <2>2
      <3>2. Cardinality(paid) \in {0, 1}
        BY <3>1, FS_EmptySet, FS_Singleton
      <3>3. Cardinality(paid) <= MaxUnits
        BY <3>2, StructuredAssumption DEF Structured!MaxUnitsAssumption
      <3> QED
        BY <3>1, <3>3, SameCardinality
           DEF AnswerInv, SpentOK, Structured!CorrectionIsBounded
    <2> QED
      BY <2>1, <2>2
  <1> QED
    BY <1>3, <1>4 DEF AnswerInv, ReturnedOK, Structured!AnswerIsSound

-------------------------------------------------------------------------------
(* A correction in units keeps the promise of AllOrNothing. *)

AnswerPaid == paid \ {"whole"}

AnswerResult ==
    CASE outcome.result = "none" -> "none"
      [] outcome.result = "value" -> "delivered"
      [] OTHER -> "failed"

AnswerPlan == Structured!ModelUnits

AnswerCounted == Structured!CountedUnits

LEMMA AnswerStutters ==
  ASSUME UNCHANGED <<AnswerPlan, AnswerCounted, AnswerPaid, AnswerResult>>
  PROVE  [Structured!Promise!Next]_(Structured!Promise!vars)
  BY DEF AnswerPlan, AnswerCounted, AnswerPaid, AnswerResult, Structured!Promise!vars

LEMMA AnswerFails ==
  ASSUME AnswerResult = "none", AnswerResult' = "failed",
         UNCHANGED <<AnswerPlan, AnswerCounted, AnswerPaid>>
  PROVE  Structured!Promise!Next
  BY DEF AnswerPlan, AnswerCounted, AnswerPaid, AnswerResult, Structured!Promise!Next,
         Structured!Promise!Fail

LEMMA AnswerDelivers ==
  ASSUME AnswerResult = "none", AnswerResult' = "delivered", AnswerPaid = AnswerPlan,
         UNCHANGED <<AnswerPlan, AnswerCounted, AnswerPaid>>
  PROVE  Structured!Promise!Next
  BY DEF AnswerPlan, AnswerCounted, AnswerPaid, AnswerResult, Structured!Promise!Next,
         Structured!Promise!Deliver

LEMMA AnswerPartitions ==
  ASSUME AnswerResult = "none", AnswerPlan = {},
         AnswerPlan' \subseteq Structured!Claim \cup {"layout"},
         UNCHANGED <<AnswerCounted, AnswerPaid, AnswerResult>>
  PROVE  Structured!Promise!Next
  BY DEF AnswerPlan, AnswerCounted, AnswerPaid, AnswerResult, Structured!Promise!Next,
         Structured!Promise!Partition

LEMMA AnswerCounts ==
  ASSUME AnswerResult = "none", AnswerPaid = {},
         NEW u \in Structured!Claim \cup {"layout"}, u \in AnswerPlan \ AnswerCounted,
         AnswerCounted' = AnswerCounted \cup {u},
         UNCHANGED <<AnswerPlan, AnswerPaid, AnswerResult>>
  PROVE  Structured!Promise!Next
  <1>1. Structured!Promise!Count(u)
    BY DEF AnswerPlan, AnswerCounted, AnswerPaid, AnswerResult, Structured!Promise!Count
  <1> QED
    BY <1>1 DEF Structured!Promise!Next

LEMMA AnswerPays ==
  ASSUME AnswerResult = "none", AnswerCounted = AnswerPlan,
         NEW u \in Structured!Claim \cup {"layout"}, u \in AnswerPlan \ AnswerPaid,
         AnswerPaid' = AnswerPaid \cup {u}, AnswerResult' \in {"none", "failed"},
         UNCHANGED <<AnswerPlan, AnswerCounted>>
  PROVE  Structured!Promise!Next
  <1>1. Structured!Promise!Pay(u)
    BY DEF AnswerPlan, AnswerCounted, AnswerPaid, AnswerResult, Structured!Promise!Pay
  <1> QED
    BY <1>1 DEF Structured!Promise!Next

(* What the end of a request is to the promise. *)
LEMMA AnswerFailed ==
  ASSUME NEW code \in {"conflict", "over_budget", "provider", "invalid"},
         Structured!Raises(code)
  PROVE  phase' = "ended" /\ AnswerResult' = "failed"
  <1>1. phase' = "ended" /\ outcome'.result = code
    BY DEF Structured!Raises
  <1> QED
    BY <1>1 DEF AnswerResult

LEMMA AnswerDelivered ==
  ASSUME NEW v, Structured!Returns(v)
  PROVE  phase' = "ended" /\ AnswerResult' = "delivered"
  <1>1. phase' = "ended" /\ outcome'.result = "value"
    BY DEF Structured!Returns
  <1> QED
    BY <1>1 DEF AnswerResult

LEMMA AnswerOpen ==
  ASSUME outcome = Structured!NoOutcome
  PROVE  AnswerResult = "none"
  BY DEF AnswerResult, Structured!NoOutcome

(* Steps of a request that has no units leave an empty plan. *)
LEMMA WholePromised ==
  ASSUME AnswerInv, units = {}, units' = {}, AnswerPaid = {}, AnswerPaid' = {},
         AnswerResult = "none", AnswerResult' \in {"none", "failed", "delivered"}
  PROVE  [Structured!Promise!Next]_(Structured!Promise!vars)
  <1>1. AnswerPlan = {} /\ AnswerPlan' = {} /\ AnswerCounted = {} /\ AnswerCounted' = {}
    BY DEF AnswerPlan, AnswerCounted, Structured!ModelUnits, Structured!CountedUnits
  <1> QED
    BY <1>1, AnswerStutters, AnswerFails, AnswerDelivers

LEMMA AnswerPromised ==
  ASSUME AnswerInv, [Structured!Next]_(Structured!vars)
  PROVE  [Structured!Promise!Next]_(Structured!Promise!vars)
  <1>1. CASE UNCHANGED Structured!vars
    <2>1. UNCHANGED <<kind, missing, phase, value, units, left, outcome, first, paid>>
      BY <1>1 DEF Structured!vars
    <2>2. UNCHANGED <<AnswerPlan, AnswerCounted, AnswerPaid, AnswerResult>>
      BY <2>1 DEF AnswerPlan, AnswerCounted, AnswerPaid, AnswerResult, Structured!ModelUnits,
                  Structured!CountedUnits, Structured!Deterministic
    <2> QED
      BY <2>2, AnswerStutters
  <1>2. CASE Structured!Count \/ Structured!Ask \/ Structured!CountWhole \/ Structured!Whole
    <2>1. /\ units = {} /\ units' = {} /\ paid = {} /\ paid' \subseteq {"whole"}
          /\ outcome = Structured!NoOutcome
      BY <1>2 DEF Structured!Count, Structured!Ask, Structured!CountWhole, Structured!Whole,
                  AnswerInv, EarlyOK
    <2>2. AnswerPaid = {} /\ AnswerPaid' = {} /\ AnswerResult = "none"
      BY <2>1, AnswerOpen DEF AnswerPaid
    <2>3. \/ UNCHANGED outcome
          \/ \E code \in {"conflict", "over_budget", "provider", "invalid"} :
                Structured!Raises(code)
          \/ \E v \in Structured!Answers : Structured!Returns(Structured!Restored(v))
      BY <1>2
         DEF Structured!Count, Structured!Ask, Structured!CountWhole, Structured!Whole
    <2>4. UNCHANGED outcome => AnswerResult' = AnswerResult
      BY DEF AnswerResult
    <2>5. AnswerResult' \in {"none", "failed", "delivered"}
      BY <2>2, <2>3, <2>4, AnswerFailed, AnswerDelivered
    <2> QED
      BY <2>1, <2>2, <2>5, WholePromised
  <1>3. CASE Structured!Check
    <2>1. /\ phase = "check" /\ value = first /\ units = {} /\ left = {} /\ paid = {}
          /\ outcome = Structured!NoOutcome /\ UNCHANGED <<value, first, paid>>
      BY <1>3 DEF Structured!Check, AnswerInv, EarlyOK
    <2>2. AnswerPaid = {} /\ AnswerPaid' = {} /\ AnswerResult = "none"
      BY <2>1, AnswerOpen DEF AnswerPaid
    <2>3. UNCHANGED outcome => AnswerResult' = AnswerResult
      BY DEF AnswerResult
    <2>4. CASE UNCHANGED units
      <3>1. \/ UNCHANGED outcome
            \/ Structured!Raises("over_budget")
            \/ \E v \in value : Structured!Returns(v)
        BY <1>3 DEF Structured!Check, Structured!Plan
      <3>2. AnswerResult' \in {"none", "failed", "delivered"}
        BY <2>2, <2>3, <3>1, AnswerFailed, AnswerDelivered
      <3> QED
        BY <2>1, <2>2, <2>4, <3>2, WholePromised
    <2>5. ASSUME NEW v \in value, Structured!Patchable(v), units' = Structured!PlanRepairs(v),
                 left' = Structured!PlanRepairs(v), phase' = "count_units", UNCHANGED outcome
          PROVE  Structured!Promise!Next
      <3>1. v \in Structured!Value
        BY DEF AnswerInv, Structured!TypeOK
      <3>2. AnswerPlan' \subseteq Structured!PlanRepairs(v)
        BY <2>5 DEF AnswerPlan, Structured!ModelUnits
      <3>3. AnswerPlan' \subseteq Structured!Claim \cup {"layout"}
        BY <2>5, <3>1, <3>2, PlanIs
      <3>4. AnswerPlan = {} /\ AnswerCounted = {}
        BY <2>1 DEF AnswerPlan, AnswerCounted, Structured!ModelUnits, Structured!CountedUnits
      <3>5. AnswerCounted' = {}
        BY <2>5, <3>2 DEF AnswerPlan, AnswerCounted, Structured!CountedUnits
      <3> QED
        BY <2>2, <2>3, <2>5, <3>3, <3>4, <3>5, AnswerPartitions
    <2> QED
      BY <1>3, <2>4, <2>5 DEF Structured!Check, Structured!Plan
  <1>4. CASE Structured!CountUnit
    <2>1. /\ phase = "count_units" /\ value = first /\ units # {} /\ first # {} /\ paid = {}
          /\ outcome = Structured!NoOutcome
          /\ UNCHANGED <<value, units, first, paid>>
      BY <1>4 DEF Structured!CountUnit, AnswerInv, EarlyOK, PatchOK, UnitsOK
    <2>2. /\ AnswerPaid = {} /\ AnswerResult = "none" /\ UNCHANGED <<AnswerPaid, AnswerPlan>>
          /\ AnswerCounted = AnswerPlan \ left
      BY <2>1, AnswerOpen
         DEF AnswerPaid, AnswerPlan, AnswerCounted, Structured!CountedUnits,
             Structured!ModelUnits, Structured!Deterministic
    <2>3. PICK u \in units :
             /\ Structured!Current(u)
             /\ \/ /\ left' = Structured!Following(u)
                   /\ phase' = IF Structured!AtLast(u) THEN "patch" ELSE phase
                   /\ UNCHANGED outcome
                \/ /\ \E code \in {"over_budget", "provider"} : Structured!Raises(code)
                   /\ UNCHANGED left
      BY <1>4 DEF Structured!CountUnit
    <2>4. CASE /\ left' = Structured!Following(u)
               /\ phase' = IF Structured!AtLast(u) THEN "patch" ELSE phase
               /\ UNCHANGED outcome
      <3>1. u \in left /\ u \in Structured!Claim \cup {"layout"}
        BY <2>1, <2>3, FollowingIs, UnitIs
      <3>2. \/ left = {u} /\ phase' = "patch"
            \/ left # {u} /\ phase' = "count_units" /\ left' = left \ {u}
        BY <2>1, <2>3, <2>4, FollowingIs
      <3>3. AnswerCounted' = AnswerCounted \cup (AnswerPlan \cap {u})
        <4>1. CASE left = {u} /\ phase' = "patch"
          <5>1. AnswerCounted' = AnswerPlan'
            BY <4>1 DEF AnswerCounted, AnswerPlan, Structured!CountedUnits
          <5> QED
            BY <2>2, <4>1, <5>1
        <4>2. CASE left # {u} /\ phase' = "count_units" /\ left' = left \ {u}
          <5>1. AnswerCounted' = AnswerPlan' \ left'
            BY <4>2 DEF AnswerCounted, AnswerPlan, Structured!CountedUnits
          <5> QED
            BY <2>2, <3>1, <4>2, <5>1
        <4> QED
          BY <3>2, <4>1, <4>2
      <3>4. UNCHANGED AnswerResult
        BY <2>4 DEF AnswerResult
      <3>5. CASE u \in AnswerPlan
        <4>1. u \in AnswerPlan \ AnswerCounted /\ AnswerCounted' = AnswerCounted \cup {u}
          BY <2>2, <3>1, <3>3, <3>5
        <4> QED
          BY <2>2, <3>1, <3>4, <4>1, AnswerCounts
      <3>6. CASE u \notin AnswerPlan
        <4>1. UNCHANGED AnswerCounted
          BY <3>3, <3>6
        <4> QED
          BY <2>2, <3>4, <4>1, AnswerStutters
      <3> QED
        BY <3>5, <3>6
    <2>5. CASE (\E code \in {"over_budget", "provider"} : Structured!Raises(code))
               /\ UNCHANGED left
      <3>1. phase' = "ended" /\ AnswerResult' = "failed"
        BY <2>5, AnswerFailed
      <3>2. AnswerCounted' = AnswerPlan' \ left'
        BY <2>1, <3>1 DEF AnswerCounted, AnswerPlan, Structured!CountedUnits
      <3> QED
        BY <2>2, <2>5, <3>1, <3>2, AnswerFails
    <2> QED
      BY <2>3, <2>4, <2>5
  <1>5. CASE Structured!Patch
    <2>1. /\ phase = "patch" /\ units # {} /\ paid = Structured!ModelUnits \ left
          /\ outcome = Structured!NoOutcome /\ UNCHANGED <<units, first>>
          /\ "whole" \notin units
      BY <1>5, FiniteClaim
         DEF Structured!Patch, AnswerInv, EarlyOK, PatchOK, UnitsOK, Structured!PlanRepairs,
             Structured!Faulty
    <2>2. PICK v \in value, u \in units :
             /\ Structured!Current(u)
             /\ \/ /\ paid' = paid \cup IF Structured!Deterministic(v, u) THEN {} ELSE {u}
                   /\ phase' = IF Structured!AtLast(u) THEN "merge" ELSE phase
                   /\ UNCHANGED outcome
                \/ /\ ~Structured!Deterministic(v, u)
                   /\ paid' = paid \cup {u}
                   /\ \E code \in {"invalid", "provider"} : Structured!Raises(code)
      BY <1>5 DEF Structured!Patch
    <2>3. /\ u \in left /\ u \in Structured!Claim \cup {"layout"} /\ u # "whole"
          /\ Structured!Deterministic(v, u) <=> u \notin AnswerPlan
      BY <2>1, <2>2, FollowingIs, UnitIs DEF AnswerPlan
    <2>4. /\ UNCHANGED AnswerPlan /\ AnswerPlan \subseteq units /\ AnswerResult = "none"
          /\ AnswerCounted = AnswerPlan /\ AnswerPaid = AnswerPlan \ left
      BY <2>1, AnswerOpen
         DEF AnswerPaid, AnswerPlan, AnswerCounted, Structured!CountedUnits,
             Structured!ModelUnits, Structured!Deterministic
    <2>5. /\ AnswerPaid' = AnswerPaid \cup (AnswerPlan \cap {u})
          /\ \/ phase' \in {"patch", "merge"} /\ UNCHANGED AnswerResult
             \/ phase' = "ended" /\ AnswerResult' = "failed" /\ paid' # {} /\ u \in AnswerPlan
      BY <2>1, <2>2, <2>3, AnswerFailed DEF AnswerPaid, AnswerResult
    <2>6. UNCHANGED AnswerCounted
      <3>1. AnswerCounted' = AnswerPlan'
        BY <2>5 DEF AnswerCounted, AnswerPlan, Structured!CountedUnits
      <3> QED
        BY <2>4, <3>1
    <2>7. CASE u \in AnswerPlan
      <3>1. u \in AnswerPlan \ AnswerPaid /\ AnswerPaid' = AnswerPaid \cup {u}
            /\ AnswerResult' \in {"none", "failed"}
        BY <2>3, <2>4, <2>5, <2>7
      <3> QED
        BY <2>3, <2>4, <2>6, <3>1, AnswerPays
    <2>8. CASE u \notin AnswerPlan
      <3>1. UNCHANGED <<AnswerPaid, AnswerResult>>
        BY <2>5, <2>8
      <3> QED
        BY <2>4, <2>6, <3>1, AnswerStutters
    <2> QED
      BY <2>7, <2>8
  <1>6. CASE Structured!Merge
    <2>1. /\ phase = "merge" /\ units # {} /\ paid = Structured!ModelUnits
          /\ outcome = Structured!NoOutcome /\ UNCHANGED <<units, first, left, paid>>
          /\ "whole" \notin units
      BY <1>6, FiniteClaim
         DEF Structured!Merge, AnswerInv, EarlyOK, PatchOK, UnitsOK, Structured!PlanRepairs,
             Structured!Faulty
    <2>2. /\ UNCHANGED <<AnswerPlan, AnswerPaid>> /\ AnswerResult = "none"
          /\ AnswerCounted = AnswerPlan /\ AnswerPaid = AnswerPlan
      <3>1. UNCHANGED <<AnswerPlan, AnswerPaid>>
        BY <2>1 DEF AnswerPlan, AnswerPaid, Structured!ModelUnits, Structured!Deterministic
      <3>2. AnswerCounted = AnswerPlan
        BY <2>1 DEF AnswerPlan, AnswerCounted, Structured!CountedUnits
      <3>3. paid = AnswerPlan /\ "whole" \notin AnswerPlan
        BY <2>1 DEF AnswerPlan, Structured!ModelUnits
      <3> QED
        BY <2>1, <3>1, <3>2, <3>3, AnswerOpen DEF AnswerPaid
    <2>3. phase' = "ended" /\ AnswerResult' \in {"failed", "delivered"}
      BY <1>6, AnswerFailed, AnswerDelivered DEF Structured!Merge
    <2>4. UNCHANGED AnswerCounted
      <3>1. \/ AnswerCounted' = AnswerPlan'
            \/ paid' = {} /\ AnswerCounted' = AnswerPlan' \ left'
        BY <2>3 DEF AnswerCounted, AnswerPlan, Structured!CountedUnits
      <3>2. paid' = {} => AnswerPlan' = {}
        BY <2>1, <2>2 DEF AnswerPaid, AnswerPlan
      <3> QED
        BY <2>2, <3>1, <3>2
    <2> QED
      BY <2>2, <2>3, <2>4, AnswerFails, AnswerDelivers
  <1> QED
    BY <1>1, <1>2, <1>3, <1>4, <1>5, <1>6 DEF Structured!Next

-------------------------------------------------------------------------------
(* Telemetry. *)

Begins(r) == r.span = Tracing!Run /\ r.method = "post"

Finishes(r) == r.span = Tracing!Run /\ r.method = "patch"

(* The server may see a before b. *)
Ordered(a, b) ==
    /\ a # b
    /\ a.span = b.span => a.method = "post"
    /\ a.span # Tracing!Run => ~Begins(b)
    /\ ~Finishes(a)

(* A record was put on the queue when its span began, or ended. *)
Put(r) ==
    /\ r \in Tracing!Record
    /\ r.method = "post" => pc[r.span] \notin {"unborn", "open"}
    /\ r.method = "patch" => pc[r.span] \in {"close", "join", "ended"}

(* What was sent, is being sent and waits to be sent is in order. *)
SentOK == \A i, j \in 1 .. Len(sent) : i < j => Ordered(sent[i], sent[j])

QueueOK ==
    /\ \A i, j \in 1 .. Len(queue) : i < j => Ordered(queue[i], queue[j])
    /\ \A i \in 1 .. Len(sent), j \in 1 .. Len(queue) : Ordered(sent[i], queue[j])

ItemOK ==
    worker = "send" =>
        /\ Put(item)
        /\ \A i \in 1 .. Len(sent) : Ordered(sent[i], item)
        /\ \A j \in 1 .. Len(queue) : Ordered(item, queue[j])

PutOK ==
    /\ \A i \in 1 .. Len(sent) : Put(sent[i])
    /\ \A j \in 1 .. Len(queue) : Put(queue[j])

(* The threads are inside of the run. *)
InsideOK ==
    /\ pc[Tracing!Run] # "unborn"
    /\ \A t \in PoolThreads : pc[t] \in {"unborn", "open", "body", "exit", "ended"}
    /\ pc[Tracing!Run] \in {"open", "body"} => \A t \in PoolThreads : pc[t] = "unborn"
    /\ pc[Tracing!Run] \in {"exit", "close", "join", "ended"} =>
           \A t \in PoolThreads : pc[t] = "ended"

LineOK == SentOK /\ QueueOK /\ ItemOK /\ PutOK

(* A span that has begun has records, unless that was warned of; without a *)
(* session there is nothing.                                               *)
OpenedOK ==
    /\ session /\ ~warned =>
           \A s \in Tracing!Span : pc[s] \notin {"unborn", "open"} => s \in opened
    /\ ~session => worker = "ended" /\ sent = <<>>

TraceInv ==
    /\ Tracing!TypeOK
    /\ LineOK /\ InsideOK /\ OpenedOK
    /\ Tracing!FailsOnItsOwn /\ Tracing!NoneSkipped

LEMMA RunIsNoThread ==
  /\ Tracing!Run \notin PoolThreads /\ Tracing!Run \in Tracing!Span
  /\ Tracing!Span = PoolThreads \cup {Tracing!Run}
  /\ QueueSize \in Nat \ {0}
  BY TracingAssumption
     DEF Tracing!ThreadAssumption, Tracing!QueueSizeAssumption, Tracing!Span

LEMMA InSequence ==
  ASSUME NEW T, NEW q \in Seq(T), NEW r
  PROVE  r \in Tracing!ToSet(q) <=> \E i \in 1 .. Len(q) : q[i] = r
  BY DEF Tracing!ToSet

LEMMA PrecedesIs ==
  ASSUME NEW a \in Tracing!Record, NEW b \in Tracing!Record
  PROVE  Tracing!Precedes(a, b) <=> Ordered(a, b)
  <1>1. /\ b = [span |-> Tracing!Run, method |-> "post"] <=> Begins(b)
        /\ a = [span |-> Tracing!Run, method |-> "patch"] <=> Finishes(a)
    BY DEF Tracing!Record, Begins, Finishes
  <1> QED
    BY <1>1 DEF Tracing!Precedes, Ordered

(* rag_run has ended when its end is sent, so every span has; all that is  *)
(* due is in line, and none of it behind that end.                         *)
LEMMA EndArrives ==
  ASSUME TraceInv, ~warned, [span |-> Tracing!Run, method |-> "patch"] \in Tracing!ToSet(sent)
  PROVE  Tracing!ToSet(sent) = Tracing!Record
  <1>1. /\ sent \in Seq(Tracing!Record) /\ Len(sent) \in Nat
        /\ queue \in Seq(Tracing!Record) /\ Len(queue) \in Nat
    BY DEF TraceInv, Tracing!TypeOK
  <1>2. PICK k \in 1 .. Len(sent) : Finishes(sent[k])
    <2>1. PICK k \in 1 .. Len(sent) : sent[k] = [span |-> Tracing!Run, method |-> "patch"]
      BY <1>1, InSequence
    <2> QED
      BY <2>1 DEF Finishes
  <1>3. Put(sent[k])
    BY <1>2 DEF TraceInv, LineOK, PutOK
  <1>4. pc[Tracing!Run] \in {"close", "join", "ended"}
    BY <1>2, <1>3 DEF Put, Finishes
  <1>5. \A s \in Tracing!Span : pc[s] \in {"close", "join", "ended"}
    BY <1>4, RunIsNoThread DEF TraceInv, InsideOK
  <1>6. session
    <2>1. sent # <<>>
      BY <1>1, <1>2
    <2> QED
      BY <2>1 DEF TraceInv, OpenedOK
  <1>7. \A s \in Tracing!Span : s \in opened
    BY <1>5, <1>6 DEF TraceInv, OpenedOK
  <1>8. ASSUME NEW r \in Tracing!Record
        PROVE  r \in Tracing!ToSet(sent)
    <2>1. r \in Tracing!Due
      <3>1. /\ r.span \in opened /\ pc[r.span] \in {"close", "join", "ended"}
            /\ \/ r = [span |-> r.span, method |-> "post"]
               \/ r = [span |-> r.span, method |-> "patch"]
        BY <1>5, <1>7 DEF Tracing!Record
      <3> QED
        BY <3>1 DEF Tracing!Due
    <2>2. Tracing!InLine(r)
      BY <2>1 DEF TraceInv, Tracing!NoneSkipped
    <2>3. r \notin Tracing!ToSet(queue)
      <3> SUFFICES ASSUME r \in Tracing!ToSet(queue) PROVE FALSE
        OBVIOUS
      <3>1. PICK j \in 1 .. Len(queue) : queue[j] = r
        BY <1>1, InSequence
      <3>2. Ordered(sent[k], queue[j])
        BY <1>2, <3>1 DEF TraceInv, LineOK, QueueOK
      <3> QED
        BY <1>2, <3>2 DEF Ordered
    <2>4. ~(worker = "send" /\ r = item)
      <3>1. worker = "send" => Ordered(sent[k], item)
        BY <1>2 DEF TraceInv, LineOK, ItemOK
      <3> QED
        BY <1>2, <3>1 DEF Ordered
    <2> QED
      BY <2>2, <2>3, <2>4 DEF Tracing!InLine
  <1>9. ASSUME NEW r \in Tracing!ToSet(sent)
        PROVE  r \in Tracing!Record
    BY <1>1, <1>9, InSequence
  <1> QED
    BY <1>8, <1>9

LEMMA TraceInvSuffices ==
  ASSUME TraceInv
  PROVE  Tracing!TraceIsSound
  <1>1. /\ sent \in Seq(Tracing!Record) /\ queue \in Seq(Tracing!Record)
        /\ \A i \in 1 .. Len(sent) : sent[i] \in Tracing!Record
        /\ \A i \in 1 .. Len(queue) : queue[i] \in Tracing!Record
    BY DEF TraceInv, Tracing!TypeOK
  <1>2. ASSUME NEW i \in 1 .. Len(sent), NEW j \in 1 .. Len(sent), i < j
        PROVE  Tracing!Precedes(sent[i], sent[j])
    BY <1>1, <1>2, PrecedesIs DEF TraceInv, LineOK, SentOK
  <1>3. ASSUME NEW a \in Tracing!ToSet(sent), NEW b \in Tracing!ToSet(queue)
        PROVE  Tracing!Precedes(a, b)
    <2>1. PICK i \in 1 .. Len(sent) : sent[i] = a
      BY <1>1, <1>3, InSequence
    <2>2. PICK j \in 1 .. Len(queue) : queue[j] = b
      BY <1>1, <1>3, InSequence
    <2> QED
      BY <1>1, <2>1, <2>2, PrecedesIs DEF TraceInv, LineOK, QueueOK
  <1>4. Tracing!SentInOrder
    BY <1>2, <1>3 DEF Tracing!SentInOrder
  <1>5. Tracing!EndIsLast
    BY EndArrives DEF Tracing!EndIsLast
  <1> QED
    BY <1>4, <1>5 DEF TraceInv, Tracing!TraceIsSound

LEMMA TraceInit ==
  ASSUME Tracing!Init
  PROVE  TraceInv
  <1>1. Tracing!TypeOK
    <2>1. <<>> \in Seq(Tracing!Record) /\ Len(<<>>) <= QueueSize
      BY RunIsNoThread
    <2>2. queue = <<>> /\ sent = <<>> /\ worker \in {"get", "ended"}
      BY DEF Tracing!Init
    <2> QED
      BY <2>1, <2>2 DEF Tracing!Init, Tracing!TypeOK
  <1>2. SentOK /\ QueueOK /\ ItemOK /\ PutOK
    BY DEF Tracing!Init, SentOK, QueueOK, ItemOK, PutOK
  <1>3. InsideOK
    BY RunIsNoThread DEF Tracing!Init, InsideOK
  <1>4. Tracing!FailsOnItsOwn
    BY RunIsNoThread DEF Tracing!Init, Tracing!FailsOnItsOwn
  <1>5. Tracing!NoneSkipped
    BY DEF Tracing!Init, Tracing!NoneSkipped, Tracing!Due
  <1>6. OpenedOK
    BY RunIsNoThread DEF Tracing!Init, OpenedOK
  <1> QED
    BY <1>1, <1>2, <1>3, <1>4, <1>5, <1>6 DEF TraceInv, LineOK

(* Whatever a step makes due is put in line, and what was in line stays.   *)
LEMMA KeepsLine ==
  ASSUME Tracing!NoneSkipped, warned => warned',
         ~warned' => \A r : \/ r \in Tracing!Due' => r \in Tracing!Due
                            \/ Tracing!InLine(r)',
         ~warned' => \A r : Tracing!InLine(r) => Tracing!InLine(r)'
  PROVE  Tracing!NoneSkipped'
  BY DEF Tracing!NoneSkipped

(* Nothing is due that was not, when no span begins or ends.               *)
LEMMA NothingDue ==
  ASSUME Tracing!NoneSkipped, warned => warned', UNCHANGED opened,
         \A s \in opened : pc'[s] \in {"close", "join", "ended"} =>
                              pc[s] \in {"close", "join", "ended"},
         ~warned' => \A r : Tracing!InLine(r) => Tracing!InLine(r)'
  PROVE  Tracing!NoneSkipped'
  <1>1. \A r : r \in Tracing!Due' => r \in Tracing!Due
    BY DEF Tracing!Due
  <1> QED
    BY <1>1, KeepsLine

(* What has been put stays put while spans go on. *)
LEMMA PutStays ==
  ASSUME Tracing!TypeOK, NEW s \in Tracing!Span, NEW next, Tracing!Goes(s, next),
         pc[s] \notin {"close", "join", "ended"} \/ next \in {"join", "ended"},
         next \notin {"unborn", "open"}
  PROVE  /\ \A r : Put(r) => Put(r)'
         /\ pc'[s] = next /\ \A u \in Tracing!Span \ {s} : pc'[u] = pc[u]
  <1>1. pc'[s] = next /\ \A u \in Tracing!Span \ {s} : pc'[u] = pc[u]
    BY DEF Tracing!TypeOK, Tracing!Goes
  <1>2. ASSUME NEW r, Put(r)
        PROVE  Put(r)'
    <2>1. r.span \in Tracing!Span /\ r \in Tracing!Record
      BY <1>2 DEF Put, Tracing!Record
    <2> QED
      BY <1>1, <1>2, <2>1 DEF Put
  <1> QED
    BY <1>1, <1>2

LEMMA LineStays ==
  ASSUME LineOK, UNCHANGED <<queue, sent, worker, item>>, \A r : Put(r) => Put(r)'
  PROVE  LineOK'
  <1>1. SentOK' /\ QueueOK'
    BY DEF LineOK, SentOK, QueueOK
  <1>2. PutOK'
    BY DEF LineOK, PutOK
  <1>3. ItemOK'
    BY DEF LineOK, ItemOK
  <1> QED
    BY <1>1, <1>2, <1>3 DEF LineOK

(* A record is put, unless the queue is full. *)
LEMMA LineGrows ==
  ASSUME Tracing!TypeOK, LineOK,
         NEW s \in Tracing!Span, NEW m \in {"post", "patch"}, Tracing!Enqueue(s, m),
         \A r : Put(r) => Put(r)' /\ Ordered(r, [span |-> s, method |-> m]),
         Put([span |-> s, method |-> m])',
         UNCHANGED <<sent, worker, item>>
  PROVE  /\ LineOK'
         /\ queue' \in Seq(Tracing!Record) /\ Len(queue') <= QueueSize
         /\ (warned => warned') /\ warned' \in BOOLEAN /\ UNCHANGED failed
         /\ ~warned' => /\ Tracing!InLine([span |-> s, method |-> m])'
                        /\ \A r : Tracing!InLine(r) => Tracing!InLine(r)'
  <1> DEFINE n == [span |-> s, method |-> m]
  <1>1. n \in Tracing!Record
    BY DEF Tracing!Record
  <1>2. /\ queue \in Seq(Tracing!Record) /\ Len(queue) \in Nat /\ Len(queue) <= QueueSize
        /\ Len(sent) \in Nat /\ QueueSize \in Nat
    BY RunIsNoThread DEF Tracing!TypeOK
  <1>3. CASE queue' = queue /\ warned' = TRUE /\ UNCHANGED failed
    BY <1>2, <1>3, LineStays
  <1>4. CASE /\ queue' = Append(queue, n) /\ Len(queue) < QueueSize
             /\ UNCHANGED <<warned, failed>>
    <2> HIDE DEF n
    <2>1. /\ queue' \in Seq(Tracing!Record) /\ Len(queue') = Len(queue) + 1
          /\ queue'[Len(queue) + 1] = n
          /\ \A i \in 1 .. Len(queue) : queue'[i] = queue[i]
      BY <1>1, <1>2, <1>4
    <2>2. \A i \in 1 .. Len(queue') : i \in 1 .. Len(queue) \/ i = Len(queue) + 1
      BY <1>2, <2>1
    <2>3. /\ \A r : Put(r) => Put(r)' /\ Ordered(r, n)
          /\ Put(n)'
      BY DEF n
    <2>4. SentOK'
      BY DEF LineOK, SentOK
    <2>5. PutOK'
      BY <2>1, <2>2, <2>3 DEF LineOK, PutOK
    <2>6. QueueOK'
      <3>1. ASSUME NEW i \in 1 .. Len(queue'), NEW j \in 1 .. Len(queue'), i < j
            PROVE  Ordered(queue'[i], queue'[j])
        <4>1. i \in 1 .. Len(queue)
          BY <1>2, <2>1, <3>1
        <4>2. CASE j \in 1 .. Len(queue)
          BY <2>1, <3>1, <4>1, <4>2 DEF LineOK, QueueOK
        <4>3. CASE j = Len(queue) + 1
          BY <2>1, <2>3, <4>1, <4>3 DEF LineOK, PutOK
        <4> QED
          BY <2>2, <4>2, <4>3
      <3>2. ASSUME NEW i \in 1 .. Len(sent), NEW j \in 1 .. Len(queue')
            PROVE  Ordered(sent[i], queue'[j])
        BY <2>1, <2>2, <2>3 DEF LineOK, QueueOK, PutOK
      <3> QED
        BY <3>1, <3>2 DEF QueueOK
    <2>7. ItemOK'
      BY <2>1, <2>2, <2>3 DEF LineOK, ItemOK
    <2>8. LineOK'
      BY <2>4, <2>5, <2>6, <2>7 DEF LineOK
    <2>9. (warned => warned') /\ warned' \in BOOLEAN /\ UNCHANGED failed
      BY <1>4 DEF Tracing!TypeOK
    <2>10. Len(queue') <= QueueSize
      BY <1>2, <1>4, <2>1
    <2>11. Tracing!InLine(n)'
      <3>1. n \in Tracing!ToSet(queue')
        BY <1>2, <2>1, InSequence
      <3> QED
        BY <3>1 DEF Tracing!InLine
    <2>12. ASSUME NEW r, Tracing!InLine(r)
           PROVE  Tracing!InLine(r)'
      <3>1. r \in Tracing!ToSet(queue) => r \in Tracing!ToSet(queue')
        BY <1>2, <2>1, InSequence
      <3> QED
        BY <2>12, <3>1 DEF Tracing!InLine
    <2>13. Tracing!InLine([span |-> s, method |-> m])'
      BY <2>11 DEF n
    <2> QED
      BY <2>1, <2>8, <2>9, <2>10, <2>12, <2>13
  <1> QED
    BY <1>3, <1>4 DEF Tracing!Enqueue

(* A span begins: what was put before concerns other spans. *)
LEMMA OpenTraceInv ==
  ASSUME TraceInv, NEW s \in Tracing!Span, Tracing!Open(s)
  PROVE  TraceInv'
  <1> DEFINE n == [span |-> s, method |-> "post"]
  <1>1. /\ pc[s] = "open" /\ Tracing!Goes(s, "body")
        /\ UNCHANGED <<session, broken, stopping, worker, item, sent>>
    BY DEF Tracing!Open, Tracing!sending
  <1>2. /\ \A r : Put(r) => Put(r)'
        /\ pc'[s] = "body" /\ \A u \in Tracing!Span \ {s} : pc'[u] = pc[u]
    BY <1>1, PutStays DEF TraceInv
  <1>3. pc' \in [Tracing!Span ->
                    {"unborn", "open", "body", "wait", "exit", "close", "join", "ended"}]
    BY <1>1 DEF TraceInv, Tracing!TypeOK, Tracing!Goes
  <1>4. InsideOK'
    BY <1>1, <1>2, RunIsNoThread DEF TraceInv, InsideOK
  <1>5. ASSUME NEW r, Put(r)
        PROVE  Ordered(r, n)
    <2>1. r \in Tracing!Record /\ r.span \in Tracing!Span /\ r.method \in {"post", "patch"}
      BY <1>5 DEF Put, Tracing!Record
    <2>2. r.span # s
      BY <1>1, <1>5, <2>1 DEF Put
    <2>3. s = Tracing!Run => r.span = Tracing!Run
      BY <1>1, <1>5, <2>1, RunIsNoThread DEF Put, TraceInv, InsideOK
    <2>4. ~Finishes(r)
      BY <1>1, <1>5, <2>1, <2>2, RunIsNoThread DEF Finishes, Put, TraceInv, InsideOK
    <2> QED
      BY <2>1, <2>2, <2>3, <2>4 DEF Ordered, Begins
  <1>6. Put(n)'
    BY <1>2 DEF Put, Tracing!Record
  <1>7. /\ LineOK' /\ queue' \in Seq(Tracing!Record) /\ Len(queue') <= QueueSize
        /\ (warned => warned') /\ warned' \in BOOLEAN
        /\ UNCHANGED failed /\ opened' \subseteq Tracing!Span
        /\ opened \subseteq opened' /\ opened' \subseteq opened \cup {s}
        /\ ~warned' => /\ session => s \in opened'
                       /\ s \in opened' => s \in opened \/ Tracing!InLine(n)'
                       /\ \A r : Tracing!InLine(r) => Tracing!InLine(r)'
    <2>1. CASE ~session /\ UNCHANGED <<queue, opened, warned, failed>>
      BY <1>1, <1>2, <2>1, LineStays DEF TraceInv, Tracing!TypeOK, Tracing!InLine
    <2>2. CASE opened' = opened \cup {s} /\ Tracing!Enqueue(s, "post")
      <3>1. \A r : Put(r) => Put(r)' /\ Ordered(r, n)
        BY <1>2, <1>5
      <3>2. opened' \subseteq Tracing!Span
        BY <2>2 DEF TraceInv, Tracing!TypeOK
      <3> QED
        BY <1>1, <1>6, <2>2, <3>1, <3>2, LineGrows DEF TraceInv
    <2>3. CASE warned' = TRUE /\ UNCHANGED <<queue, opened, failed>>
      BY <1>1, <1>2, <2>3, LineStays DEF TraceInv, Tracing!TypeOK
    <2> QED
      BY <2>1, <2>2, <2>3 DEF Tracing!Open
  <1>8. Tracing!TypeOK'
    BY <1>1, <1>3, <1>7 DEF TraceInv, Tracing!TypeOK
  <1>9. Tracing!FailsOnItsOwn'
    BY <1>1, <1>7 DEF TraceInv, Tracing!FailsOnItsOwn
  <1>10. Tracing!NoneSkipped'
    <2>1. ASSUME ~warned', NEW r, r \in Tracing!Due', r \notin Tracing!Due
          PROVE  Tracing!InLine(r)'
      <3>1. r = n /\ s \in opened' /\ s \notin opened
        BY <1>1, <1>2, <1>7, <2>1 DEF Tracing!Due, TraceInv, Tracing!TypeOK
      <3> QED
        BY <1>7, <2>1, <3>1
    <2> QED
      BY <1>7, <2>1, KeepsLine DEF TraceInv
  <1>11. OpenedOK'
    BY <1>1, <1>2, <1>7 DEF TraceInv, OpenedOK
  <1> QED
    BY <1>4, <1>7, <1>8, <1>9, <1>10, <1>11 DEF TraceInv

(* A span ends: its beginning may have been put, nothing after it. *)
LEMMA ExitTraceInv ==
  ASSUME TraceInv, NEW s \in Tracing!Span, Tracing!Exit(s)
  PROVE  TraceInv'
  <1> DEFINE n == [span |-> s, method |-> "patch"]
             next == IF s = Tracing!Run THEN "close" ELSE "ended"
  <1>1. /\ pc[s] = "exit" /\ Tracing!Goes(s, next)
        /\ UNCHANGED <<session, opened, broken, stopping, worker, item, sent>>
    BY DEF Tracing!Exit, Tracing!sending
  <1>2. /\ \A r : Put(r) => Put(r)'
        /\ pc'[s] = next /\ \A u \in Tracing!Span \ {s} : pc'[u] = pc[u]
    BY <1>1, PutStays DEF TraceInv
  <1>3. pc' \in [Tracing!Span ->
                    {"unborn", "open", "body", "wait", "exit", "close", "join", "ended"}]
    BY <1>1 DEF TraceInv, Tracing!TypeOK, Tracing!Goes
  <1>4. InsideOK'
    BY <1>1, <1>2, RunIsNoThread DEF TraceInv, InsideOK
  <1>5. ASSUME NEW r, Put(r)
        PROVE  Ordered(r, n)
    <2>1. r \in Tracing!Record /\ r.span \in Tracing!Span /\ r.method \in {"post", "patch"}
      BY <1>5 DEF Put, Tracing!Record
    <2>2. r.span = s => r.method = "post"
      BY <1>1, <1>5, <2>1 DEF Put
    <2>3. ~Finishes(r)
      BY <1>1, <1>5, <2>1, <2>2, RunIsNoThread DEF Finishes, Put, TraceInv, InsideOK
    <2> QED
      BY <2>1, <2>2, <2>3 DEF Ordered, Begins
  <1>6. Put(n)'
    BY <1>2 DEF Put, Tracing!Record
  <1>7. /\ LineOK' /\ queue' \in Seq(Tracing!Record) /\ Len(queue') <= QueueSize
        /\ (warned => warned') /\ warned' \in BOOLEAN /\ UNCHANGED failed
        /\ ~warned' => /\ s \in opened => Tracing!InLine(n)'
                       /\ \A r : Tracing!InLine(r) => Tracing!InLine(r)'
    <2>1. CASE s \notin opened /\ UNCHANGED <<queue, warned, failed>>
      BY <1>1, <1>2, <2>1, LineStays DEF TraceInv, Tracing!TypeOK, Tracing!InLine
    <2>2. CASE Tracing!Enqueue(s, "patch")
      <3>1. \A r : Put(r) => Put(r)' /\ Ordered(r, n)
        BY <1>2, <1>5
      <3> QED
        BY <1>1, <1>6, <2>2, <3>1, LineGrows DEF TraceInv
    <2> QED
      BY <2>1, <2>2 DEF Tracing!Exit
  <1>8. Tracing!TypeOK'
    BY <1>1, <1>3, <1>7 DEF TraceInv, Tracing!TypeOK
  <1>9. Tracing!FailsOnItsOwn'
    BY <1>1, <1>7 DEF TraceInv, Tracing!FailsOnItsOwn
  <1>10. Tracing!NoneSkipped'
    <2>1. ASSUME ~warned', NEW r, r \in Tracing!Due', r \notin Tracing!Due
          PROVE  Tracing!InLine(r)'
      <3>1. r = n /\ s \in opened
        BY <1>1, <1>2, <2>1 DEF Tracing!Due, TraceInv, Tracing!TypeOK
      <3> QED
        BY <1>7, <2>1, <3>1
    <2> QED
      BY <1>7, <2>1, KeepsLine DEF TraceInv
  <1>11. OpenedOK'
    BY <1>1, <1>2, <1>7 DEF TraceInv, OpenedOK
  <1> QED
    BY <1>4, <1>7, <1>8, <1>9, <1>10, <1>11 DEF TraceInv

(* The work of a thread raises or not. *)
LEMMA WorkTraceInv ==
  ASSUME TraceInv, NEW t \in PoolThreads, Tracing!Work(t)
  PROVE  TraceInv'
  <1>1. /\ pc[t] = "body" /\ Tracing!Goes(t, "exit")
        /\ \/ UNCHANGED <<failed, broken>>
           \/ failed' = failed \cup {t} /\ broken' = broken \cup {t}
        /\ UNCHANGED <<session, queue, opened, stopping, worker, item, sent, warned>>
    BY DEF Tracing!Work, Tracing!sending
  <1>2. t \in Tracing!Span /\ t # Tracing!Run
    BY RunIsNoThread
  <1>3. /\ \A r : Put(r) => Put(r)'
        /\ pc'[t] = "exit" /\ \A u \in Tracing!Span \ {t} : pc'[u] = pc[u]
    BY <1>1, <1>2, PutStays DEF TraceInv
  <1>4. LineOK'
    BY <1>1, <1>3, LineStays DEF TraceInv
  <1>5. pc' \in [Tracing!Span ->
                    {"unborn", "open", "body", "wait", "exit", "close", "join", "ended"}]
    BY <1>1 DEF TraceInv, Tracing!TypeOK, Tracing!Goes
  <1>6. Tracing!TypeOK'
    BY <1>1, <1>2, <1>5 DEF TraceInv, Tracing!TypeOK
  <1>7. InsideOK'
    BY <1>1, <1>2, <1>3, RunIsNoThread DEF TraceInv, InsideOK
  <1>8. Tracing!FailsOnItsOwn'
    BY <1>1, <1>2 DEF TraceInv, Tracing!FailsOnItsOwn
  <1>9. Tracing!NoneSkipped'
    <2>1. \A r : Tracing!InLine(r) => Tracing!InLine(r)'
      BY <1>1 DEF Tracing!InLine
    <2>2. \A s \in opened : pc'[s] \in {"close", "join", "ended"} =>
                              pc[s] \in {"close", "join", "ended"}
      BY <1>3 DEF TraceInv, Tracing!TypeOK
    <2> QED
      BY <1>1, <2>1, <2>2, NothingDue DEF TraceInv
  <1>10. OpenedOK'
    BY <1>1, <1>3 DEF TraceInv, OpenedOK
  <1> QED
    BY <1>4, <1>6, <1>7, <1>8, <1>9, <1>10 DEF TraceInv

(* The threads are submitted: none of them has put anything. *)
LEMMA SubmitTraceInv ==
  ASSUME TraceInv, Tracing!Submit
  PROVE  TraceInv'
  <1>1. /\ pc[Tracing!Run] = "body"
        /\ pc' = [s \in Tracing!Span |-> IF s = Tracing!Run THEN "wait" ELSE "open"]
        /\ UNCHANGED <<session, queue, opened, failed, broken, stopping, worker, item, sent,
                       warned>>
    BY DEF Tracing!Submit, Tracing!sending
  <1>2. \A t \in PoolThreads : pc[t] = "unborn" /\ pc'[t] = "open"
    BY <1>1, RunIsNoThread DEF TraceInv, InsideOK
  <1>3. pc'[Tracing!Run] = "wait"
    BY <1>1, RunIsNoThread
  <1>4. ASSUME NEW r, Put(r)
        PROVE  Put(r)'
    <2>1. r \in Tracing!Record /\ r.span \in Tracing!Span /\ r.method \in {"post", "patch"}
      BY <1>4 DEF Put, Tracing!Record
    <2>2. r.span = Tracing!Run /\ r.method = "post"
      BY <1>1, <1>2, <1>4, <2>1, RunIsNoThread DEF Put
    <2> QED
      BY <1>3, <2>1, <2>2 DEF Put
  <1>5. LineOK'
    BY <1>1, <1>4, LineStays DEF TraceInv
  <1>6. Tracing!TypeOK'
    BY <1>1 DEF TraceInv, Tracing!TypeOK
  <1>7. InsideOK'
    BY <1>2, <1>3 DEF InsideOK
  <1>8. Tracing!FailsOnItsOwn'
    BY <1>1 DEF TraceInv, Tracing!FailsOnItsOwn
  <1>9. Tracing!NoneSkipped'
    <2>1. \A r : Tracing!InLine(r) => Tracing!InLine(r)'
      BY <1>1 DEF Tracing!InLine
    <2>2. \A s \in opened : pc'[s] \notin {"close", "join", "ended"}
      BY <1>1 DEF TraceInv, Tracing!TypeOK
    <2> QED
      BY <1>1, <2>1, <2>2, NothingDue DEF TraceInv
  <1>10. OpenedOK'
    <2>1. \A s \in Tracing!Span : pc'[s] # "open" => s = Tracing!Run
      BY <1>1
    <2> QED
      BY <1>1, <2>1, RunIsNoThread DEF TraceInv, OpenedOK
  <1> QED
    BY <1>5, <1>6, <1>7, <1>8, <1>9, <1>10 DEF TraceInv

(* The run has the results of its threads. *)
LEMMA JoinTraceInv ==
  ASSUME TraceInv, Tracing!Join
  PROVE  TraceInv'
  <1>1. /\ pc[Tracing!Run] = "wait" /\ Tracing!Goes(Tracing!Run, "exit")
        /\ \A t \in PoolThreads : pc[t] = "ended"
        /\ failed' = IF failed = {} THEN {} ELSE failed \cup {Tracing!Run}
        /\ UNCHANGED <<session, queue, opened, broken, stopping, worker, item, sent, warned>>
    BY DEF Tracing!Join, Tracing!sending
  <1>2. /\ \A r : Put(r) => Put(r)'
        /\ pc'[Tracing!Run] = "exit"
        /\ \A u \in Tracing!Span \ {Tracing!Run} : pc'[u] = pc[u]
    BY <1>1, RunIsNoThread, PutStays DEF TraceInv
  <1>3. LineOK'
    BY <1>1, <1>2, LineStays DEF TraceInv
  <1>4. pc' \in [Tracing!Span ->
                    {"unborn", "open", "body", "wait", "exit", "close", "join", "ended"}]
    BY <1>1 DEF TraceInv, Tracing!TypeOK, Tracing!Goes
  <1>5. Tracing!TypeOK'
    BY <1>1, <1>4, RunIsNoThread DEF TraceInv, Tracing!TypeOK
  <1>6. InsideOK'
    BY <1>1, <1>2, RunIsNoThread DEF TraceInv, InsideOK
  <1>7. Tracing!FailsOnItsOwn'
    BY <1>1 DEF TraceInv, Tracing!FailsOnItsOwn
  <1>8. Tracing!NoneSkipped'
    <2>1. \A r : Tracing!InLine(r) => Tracing!InLine(r)'
      BY <1>1 DEF Tracing!InLine
    <2>2. \A s \in opened : pc'[s] \in {"close", "join", "ended"} =>
                              pc[s] \in {"close", "join", "ended"}
      BY <1>2 DEF TraceInv, Tracing!TypeOK
    <2> QED
      BY <1>1, <2>1, <2>2, NothingDue DEF TraceInv
  <1>9. OpenedOK'
    BY <1>1, <1>2 DEF TraceInv, OpenedOK
  <1> QED
    BY <1>3, <1>5, <1>6, <1>7, <1>8, <1>9 DEF TraceInv

(* The session is closed: no span is left. *)
LEMMA CloseTraceInv ==
  ASSUME TraceInv, Tracing!Close \/ Tracing!JoinWorker \/ Tracing!JoinExpires
  PROVE  TraceInv'
  <1>1. PICK next \in {"join", "ended"} :
           /\ pc[Tracing!Run] \in {"close", "join"} /\ Tracing!Goes(Tracing!Run, next)
    BY DEF Tracing!Close, Tracing!JoinWorker, Tracing!JoinExpires
  <1>2. /\ UNCHANGED <<session, queue, opened, failed, broken, worker, item, sent>>
        /\ warned => warned'
    BY DEF Tracing!Close, Tracing!JoinWorker, Tracing!JoinExpires, Tracing!sending
  <1>3. stopping' \in BOOLEAN /\ warned' \in BOOLEAN
    BY DEF Tracing!Close, Tracing!JoinWorker, Tracing!JoinExpires, Tracing!sending, TraceInv,
           Tracing!TypeOK
  <1>4. /\ \A r : Put(r) => Put(r)'
        /\ pc'[Tracing!Run] = next
        /\ \A u \in Tracing!Span \ {Tracing!Run} : pc'[u] = pc[u]
    BY <1>1, RunIsNoThread, PutStays DEF TraceInv
  <1>5. LineOK'
    BY <1>2, <1>4, LineStays DEF TraceInv
  <1>6. pc' \in [Tracing!Span ->
                    {"unborn", "open", "body", "wait", "exit", "close", "join", "ended"}]
    BY <1>1 DEF TraceInv, Tracing!TypeOK, Tracing!Goes
  <1>7. Tracing!TypeOK'
    BY <1>2, <1>3, <1>6 DEF TraceInv, Tracing!TypeOK
  <1>8. InsideOK'
    BY <1>1, <1>4, RunIsNoThread DEF TraceInv, InsideOK
  <1>9. Tracing!FailsOnItsOwn'
    BY <1>2 DEF TraceInv, Tracing!FailsOnItsOwn
  <1>10. Tracing!NoneSkipped'
    <2>1. \A r : Tracing!InLine(r) => Tracing!InLine(r)'
      BY <1>2 DEF Tracing!InLine
    <2>2. \A s \in opened : pc'[s] \in {"close", "join", "ended"} =>
                              pc[s] \in {"close", "join", "ended"}
      BY <1>1, <1>4 DEF TraceInv, Tracing!TypeOK
    <2> QED
      BY <1>2, <2>1, <2>2, NothingDue DEF TraceInv
  <1>11. OpenedOK'
    BY <1>1, <1>2, <1>4 DEF TraceInv, OpenedOK
  <1> QED
    BY <1>5, <1>7, <1>8, <1>9, <1>10, <1>11 DEF TraceInv

(* The sender takes the first record of the queue. *)
LEMMA TakeTraceInv ==
  ASSUME TraceInv, Tracing!Take
  PROVE  TraceInv'
  <1>1. /\ queue # <<>> /\ item' = Head(queue) /\ queue' = Tail(queue)
        /\ worker = "get" /\ worker' = "send"
        /\ UNCHANGED <<session, pc, opened, failed, broken, stopping, sent, warned>>
    BY DEF Tracing!Take
  <1>2. /\ queue \in Seq(Tracing!Record) /\ Len(queue) \in Nat /\ Len(queue) <= QueueSize
        /\ Len(sent) \in Nat /\ QueueSize \in Nat
    BY RunIsNoThread DEF TraceInv, Tracing!TypeOK
  <1>3. /\ Len(queue) > 0 /\ item' = queue[1] /\ item' \in Tracing!Record
        /\ queue' \in Seq(Tracing!Record) /\ Len(queue') = Len(queue) - 1
        /\ \A i \in 1 .. Len(queue') : queue'[i] = queue[i + 1]
    BY <1>1, <1>2
  <1>4. \A i \in 1 .. Len(queue') : i + 1 \in 1 .. Len(queue)
    BY <1>2, <1>3
  <1>5. \A r : Put(r) => Put(r)'
    BY <1>1 DEF Put
  <1>6. SentOK'
    BY <1>1 DEF TraceInv, LineOK, SentOK
  <1>7. QueueOK'
    <2>1. ASSUME NEW i \in 1 .. Len(queue'), NEW j \in 1 .. Len(queue'), i < j
          PROVE  Ordered(queue'[i], queue'[j])
      <3>1. i + 1 < j + 1 /\ i + 1 \in 1 .. Len(queue) /\ j + 1 \in 1 .. Len(queue)
        BY <1>2, <1>3, <1>4, <2>1
      <3> QED
        BY <1>3, <3>1 DEF TraceInv, LineOK, QueueOK
    <2>2. ASSUME NEW i \in 1 .. Len(sent), NEW j \in 1 .. Len(queue')
          PROVE  Ordered(sent[i], queue'[j])
      BY <1>3, <1>4 DEF TraceInv, LineOK, QueueOK
    <2> QED
      BY <1>1, <2>1, <2>2 DEF QueueOK
  <1>8. ItemOK'
    <2>1. 1 \in 1 .. Len(queue)
      BY <1>2, <1>3
    <2>2. Put(item)'
      <3>1. PICK r : r = queue[1]
        OBVIOUS
      <3>2. Put(r)
        BY <2>1, <3>1 DEF TraceInv, LineOK, PutOK
      <3>3. Put(r)' /\ item' = r
        BY <1>3, <1>5, <3>1, <3>2
      <3> QED
        BY <3>3 DEF Put
    <2>3. \A i \in 1 .. Len(sent) : Ordered(sent[i], item')
      BY <1>3, <2>1 DEF TraceInv, LineOK, QueueOK
    <2>4. ASSUME NEW j \in 1 .. Len(queue')
          PROVE  Ordered(item', queue'[j])
      <3>1. 1 < j + 1 /\ j + 1 \in 1 .. Len(queue)
        BY <1>2, <1>3, <1>4
      <3> QED
        BY <1>3, <2>1, <3>1 DEF TraceInv, LineOK, QueueOK
    <2> QED
      BY <1>1, <2>2, <2>3, <2>4 DEF ItemOK
  <1>9. PutOK'
    BY <1>1, <1>3, <1>4, <1>5 DEF TraceInv, LineOK, PutOK
  <1>10. Tracing!TypeOK'
    <2>1. Len(queue') <= QueueSize
      BY <1>2, <1>3
    <2> QED
      BY <1>1, <1>3, <2>1 DEF TraceInv, Tracing!TypeOK
  <1>11. InsideOK'
    BY <1>1 DEF TraceInv, InsideOK
  <1>12. Tracing!FailsOnItsOwn'
    BY <1>1 DEF TraceInv, Tracing!FailsOnItsOwn
  <1>13. ASSUME NEW r, Tracing!InLine(r)
         PROVE  Tracing!InLine(r)'
    <2>1. CASE r \in Tracing!ToSet(sent)
      BY <1>1, <2>1 DEF Tracing!InLine
    <2>2. CASE r \in Tracing!ToSet(queue)
      <3>1. PICK i \in 1 .. Len(queue) : queue[i] = r
        BY <1>2, <2>2, InSequence
      <3>2. CASE i = 1
        BY <1>1, <1>3, <3>1, <3>2 DEF Tracing!InLine
      <3>3. CASE i # 1
        <4>1. i - 1 \in 1 .. Len(queue') /\ queue'[i - 1] = r
          BY <1>2, <1>3, <3>1, <3>3
        <4>2. r \in Tracing!ToSet(queue')
          BY <1>3, <4>1, InSequence
        <4> QED
          BY <4>2 DEF Tracing!InLine
      <3> QED
        BY <3>2, <3>3
    <2> QED
      BY <1>1, <1>13, <2>1, <2>2 DEF Tracing!InLine
  <1>14. Tracing!NoneSkipped'
    BY <1>1, <1>13, NothingDue DEF TraceInv
  <1>15. OpenedOK'
    BY <1>1 DEF TraceInv, OpenedOK
  <1> QED
    BY <1>6, <1>7, <1>8, <1>9, <1>10, <1>11, <1>12, <1>14, <1>15 DEF TraceInv, LineOK

(* The record it holds is sent, or lost with a warning. *)
LEMMA SendTraceInv ==
  ASSUME TraceInv, Tracing!Send
  PROVE  TraceInv'
  <1>1. /\ worker = "send" /\ item' = Tracing!Nothing /\ worker' = "get"
        /\ UNCHANGED <<session, queue, pc, opened, failed, broken, stopping>>
    BY DEF Tracing!Send
  <1>2. /\ sent \in Seq(Tracing!Record) /\ Len(sent) \in Nat
        /\ Put(item) /\ item \in Tracing!Record
        /\ \A r : Put(r) => Put(r)'
    BY <1>1 DEF TraceInv, Tracing!TypeOK, LineOK, ItemOK, Put
  <1>3. (warned => warned') /\ warned' \in BOOLEAN
    BY DEF Tracing!Send, TraceInv, Tracing!TypeOK
  <1>4. ItemOK'
    BY <1>1 DEF ItemOK
  <1>5. sent' \in Seq(Tracing!Record) /\ SentOK' /\ QueueOK' /\ PutOK'
    <2>1. CASE sent' = sent
      BY <1>1, <1>2, <2>1 DEF TraceInv, LineOK, SentOK, QueueOK, PutOK
    <2>2. CASE sent' = Append(sent, item)
      <3>1. /\ sent' \in Seq(Tracing!Record) /\ Len(sent') = Len(sent) + 1
            /\ sent'[Len(sent) + 1] = item
            /\ \A i \in 1 .. Len(sent) : sent'[i] = sent[i]
        BY <1>2, <2>2
      <3>2. \A i \in 1 .. Len(sent') : i \in 1 .. Len(sent) \/ i = Len(sent) + 1
        BY <1>2, <3>1
      <3>3. PutOK'
        BY <1>1, <1>2, <3>1, <3>2 DEF TraceInv, LineOK, PutOK
      <3>4. ASSUME NEW i \in 1 .. Len(sent'), NEW j \in 1 .. Len(sent'), i < j
            PROVE  Ordered(sent'[i], sent'[j])
        <4>1. i \in 1 .. Len(sent)
          BY <1>2, <3>1, <3>4
        <4>2. CASE j \in 1 .. Len(sent)
          BY <3>1, <3>4, <4>1, <4>2 DEF TraceInv, LineOK, SentOK
        <4>3. CASE j = Len(sent) + 1
          BY <1>1, <3>1, <4>1, <4>3 DEF TraceInv, LineOK, ItemOK
        <4> QED
          BY <3>2, <4>2, <4>3
      <3>5. ASSUME NEW i \in 1 .. Len(sent'), NEW j \in 1 .. Len(queue)
            PROVE  Ordered(sent'[i], queue[j])
        BY <1>1, <3>1, <3>2 DEF TraceInv, LineOK, ItemOK, QueueOK
      <3>6. \A i, j \in 1 .. Len(queue) : i < j => Ordered(queue[i], queue[j])
        BY DEF TraceInv, LineOK, QueueOK
      <3> QED
        BY <1>1, <3>1, <3>3, <3>4, <3>5, <3>6 DEF SentOK, QueueOK
    <2> QED
      BY <2>1, <2>2 DEF Tracing!Send
  <1>6. Tracing!TypeOK'
    BY <1>1, <1>3, <1>5 DEF TraceInv, Tracing!TypeOK
  <1>7. InsideOK'
    BY <1>1 DEF TraceInv, InsideOK
  <1>8. Tracing!FailsOnItsOwn'
    BY <1>1 DEF TraceInv, Tracing!FailsOnItsOwn
  <1>9. ASSUME ~warned', NEW r, Tracing!InLine(r)
        PROVE  Tracing!InLine(r)'
    <2>1. sent' = Append(sent, item)
      BY <1>9 DEF Tracing!Send
    <2>2. /\ Len(sent') = Len(sent) + 1 /\ sent'[Len(sent) + 1] = item
          /\ \A i \in 1 .. Len(sent) : sent'[i] = sent[i]
      BY <1>2, <2>1
    <2>3. r \in Tracing!ToSet(sent) \/ r = item => r \in Tracing!ToSet(sent')
      BY <1>2, <1>5, <2>2, InSequence
    <2> QED
      BY <1>1, <1>9, <2>3 DEF Tracing!InLine
  <1>10. Tracing!NoneSkipped'
    BY <1>1, <1>3, <1>9, NothingDue DEF TraceInv
  <1>11. OpenedOK'
    BY <1>1, <1>3 DEF TraceInv, OpenedOK
  <1> QED
    BY <1>4, <1>5, <1>6, <1>7, <1>8, <1>10, <1>11 DEF TraceInv, LineOK

(* It waits for a record, looks for the stop event, or ends. *)
LEMMA IdleTraceInv ==
  ASSUME TraceInv, Tracing!TimesOut \/ Tracing!LookForStop \/ Tracing!CloseClient
  PROVE  TraceInv'
  <1>1. /\ worker \in {"get", "idle", "closing"}
        /\ worker' \in {"get", "idle", "closing", "ended"}
        /\ UNCHANGED <<session, queue, pc, opened, failed, broken, stopping, item, sent>>
    BY DEF Tracing!TimesOut, Tracing!LookForStop, Tracing!CloseClient
  <1>2. (warned => warned') /\ warned' \in BOOLEAN
    BY DEF Tracing!TimesOut, Tracing!LookForStop, Tracing!CloseClient, TraceInv, Tracing!TypeOK
  <1>3. LineOK'
    <2>1. \A r : Put(r) => Put(r)'
      BY <1>1 DEF Put
    <2>2. SentOK' /\ QueueOK' /\ PutOK'
      BY <1>1, <2>1 DEF TraceInv, LineOK, SentOK, QueueOK, PutOK
    <2>3. ItemOK'
      BY <1>1 DEF ItemOK
    <2> QED
      BY <2>2, <2>3 DEF LineOK
  <1>4. Tracing!TypeOK'
    BY <1>1, <1>2 DEF TraceInv, Tracing!TypeOK
  <1>5. InsideOK'
    BY <1>1 DEF TraceInv, InsideOK
  <1>6. Tracing!FailsOnItsOwn'
    BY <1>1 DEF TraceInv, Tracing!FailsOnItsOwn
  <1>7. Tracing!NoneSkipped'
    <2>1. \A r : Tracing!InLine(r) => Tracing!InLine(r)'
      BY <1>1 DEF Tracing!InLine
    <2> QED
      BY <1>1, <1>2, <2>1, NothingDue DEF TraceInv
  <1>8. OpenedOK'
    BY <1>1, <1>2 DEF TraceInv, OpenedOK
  <1> QED
    BY <1>3, <1>4, <1>5, <1>6, <1>7, <1>8 DEF TraceInv

LEMMA TraceStep ==
  ASSUME TraceInv, [Tracing!Next]_(Tracing!vars)
  PROVE  TraceInv'
  <1>1. CASE UNCHANGED Tracing!vars
    <2>1. UNCHANGED <<session, queue, pc, opened, failed, broken, stopping, worker, item, sent,
                      warned>>
      BY <1>1 DEF Tracing!vars
    <2>2. \A r : Put(r) => Put(r)'
      BY <2>1 DEF Put
    <2>3. LineOK'
      BY <2>1, <2>2, LineStays DEF TraceInv
    <2>4. Tracing!TypeOK'
      BY <2>1 DEF TraceInv, Tracing!TypeOK
    <2>5. InsideOK' /\ OpenedOK' /\ Tracing!FailsOnItsOwn'
      BY <2>1 DEF TraceInv, InsideOK, OpenedOK, Tracing!FailsOnItsOwn
    <2>6. Tracing!NoneSkipped'
      BY <2>1 DEF TraceInv, Tracing!NoneSkipped, Tracing!Due, Tracing!InLine
    <2> QED
      BY <2>3, <2>4, <2>5, <2>6 DEF TraceInv
  <1>2. CASE Tracing!Pipeline
    BY <1>2, OpenTraceInv, ExitTraceInv, WorkTraceInv, SubmitTraceInv, JoinTraceInv,
       CloseTraceInv DEF Tracing!Pipeline
  <1>3. CASE Tracing!Worker
    BY <1>3, TakeTraceInv, SendTraceInv, IdleTraceInv DEF Tracing!Worker
  <1> QED
    BY <1>1, <1>2, <1>3 DEF Tracing!Next

-------------------------------------------------------------------------------
(* Each part keeps its invariant; the steps of the others are none of its. *)

LEMMA StructuredPart ==
  ASSUME [Next]_all, part = "structured" \/ part' = "structured"
  PROVE  /\ part = "structured" /\ part' = "structured"
         /\ [Structured!Next]_(Structured!vars)
  BY DEF Next, all, StructuredStep, CoordinatorStep, UnitStep, ThreadStep, PipelineStep,
         TracedStep, SenderStep, Structured!vars

LEMMA ReassessmentPart ==
  ASSUME [Next]_all, part = "reassessment" \/ part' = "reassessment"
  PROVE  /\ part = "reassessment" /\ part' = "reassessment"
         /\ [Reassessment!Next]_(Reassessment!vars)
  BY DEF Next, all, StructuredStep, CoordinatorStep, UnitStep, ThreadStep, PipelineStep,
         TracedStep, SenderStep, Reassessment!Next, Reassessment!vars

LEMMA PreflightPart ==
  ASSUME [Next]_all, part' = "preflight"
  PROVE  /\ part = "preflight"
         /\ UNCHANGED Preflight!vars \/ \E t \in Threads : Preflight!Step(t)
  BY DEF Next, all, StructuredStep, CoordinatorStep, UnitStep, ThreadStep, PipelineStep,
         TracedStep, SenderStep, Preflight!vars

LEMMA TracingPart ==
  ASSUME [Next]_all, part' = "tracing"
  PROVE  part = "tracing" /\ [Tracing!Next]_(Tracing!vars)
  BY DEF Next, all, StructuredStep, CoordinatorStep, UnitStep, ThreadStep, PipelineStep,
         TracedStep, SenderStep, Tracing!Next, Tracing!vars

(* Whatever a model answers, first and to each correction: a structured    *)
(* answer that is returned passes the full check, and its correction has   *)
(* touched only faults and stayed within its bound (rag/graph.py           *)
(* structured(), rag/repair.py).                                           *)
THEOREM AnswerCorrect == Spec => []AnswerIsSound
  <1> DEFINE Inv == part = "structured" => AnswerInv
  <1>1. Init => Inv
    BY AnswerInit DEF Init
  <1>2. Inv /\ [Next]_all => Inv'
    BY StructuredPart, AnswerStep
  <1>3. Inv => AnswerIsSound
    BY AnswerInvSuffices DEF AnswerIsSound
  <1> QED
    BY <1>1, <1>2, <1>3, PTL DEF Spec

(* Whatever units fail and in whatever order they end: a reassessment      *)
(* returns after its threads, with what succeeded on file, and merges what *)
(* they brought without calling it better than it is (rag/reassessment.py).*)
THEOREM MergeCorrect == Spec => []MergeIsSound
  <1> DEFINE Inv == part = "reassessment" => MergeInv
  <1>1. Init => Inv
    BY MergeInit DEF Init
  <1>2. Inv /\ [Next]_all => Inv'
    BY ReassessmentPart, MergeStep
  <1>3. Inv => MergeIsSound
    BY MergeInvSuffices DEF MergeIsSound
  <1> QED
    BY <1>1, <1>2, <1>3, PTL DEF Spec

(* Every unit of a split request is counted before one is paid, none is    *)
(* paid twice, and a result is delivered only if all were: the corrections *)
(* of structured() and the facets of reassess() both implement             *)
(* AllOrNothing.                                                           *)
THEOREM PaidCorrect == Spec => PaidAllOrNothing
  <1> DEFINE Inv == /\ part = "structured" => AnswerInv
                    /\ part = "reassessment" => MergeInv
             Steps == /\ part = "structured" =>
                            [Structured!Promise!Next]_(Structured!Promise!vars)
                      /\ part = "reassessment" =>
                            [Reassessment!Promise!Next]_(Reassessment!Promise!vars)
             Starts == /\ part = "structured" => Structured!Promise!Init
                       /\ part = "reassessment" => Reassessment!Promise!Init
  <1>1. Init => Inv
    BY AnswerInit, MergeInit DEF Init
  <1>2. Inv /\ [Next]_all => Inv'
    BY StructuredPart, AnswerStep, ReassessmentPart, MergeStep
  <1>3. Inv /\ [Next]_all => Steps
    BY StructuredPart, AnswerPromised, ReassessmentPart, MergePromised
  <1>4. Init => Starts
    <2>1. ASSUME Structured!Init
          PROVE  Structured!Promise!Init
      <3>1. /\ units = {} /\ paid = {} /\ outcome = Structured!NoOutcome
        BY <2>1 DEF Structured!Init
      <3>2. Structured!ModelUnits = {} /\ Structured!CountedUnits = {}
        BY <3>1 DEF Structured!ModelUnits, Structured!CountedUnits
      <3> QED
        BY <3>1, <3>2 DEF Structured!Promise!Init, Structured!NoOutcome
    <2>2. ASSUME Reassessment!Init
          PROVE  Reassessment!Promise!Init
      <3>1. /\ phase = "start" /\ counted = 0 /\ paid = {} /\ file.status = "absent"
            /\ outcome.result = "none"
        BY <2>2 DEF Reassessment!Init, Reassessment!NoFile, Reassessment!NoOutcome
      <3>2. Reassessment!Counted = {}
        BY <3>1 DEF Reassessment!Counted
      <3> QED
        BY <3>1, <3>2 DEF Reassessment!Promise!Init
    <2> QED
      BY <2>1, <2>2 DEF Init
  <1>5. Spec => Starts /\ [][Steps]_all
    BY <1>1, <1>2, <1>3, <1>4, PTL DEF Spec
  <1> QED
    BY <1>5 DEF PaidAllOrNothing

(* However many threads plan and generate whatever payloads, identical     *)
(* ones are counted once, and nothing is generated that its exact count or *)
(* the reserve of its plan forbids (rag/llm.py preflight()).               *)
THEOREM AdmissionCorrect == Spec => []AdmissionIsSound
  <1> DEFINE Inv == part = "preflight" => AdmissionInv
  <1>1. Init => Inv
    BY AdmissionInit DEF Init
  <1>2. Inv /\ [Next]_all => Inv'
    BY PreflightPart, AdmissionStep
  <1>3. Inv => AdmissionIsSound
    BY DEF AdmissionIsSound, Preflight!AdmissionIsSound, AdmissionInv, AskedOK,
           Preflight!CountedOnce, Preflight!TypeOK
  <1> QED
    BY <1>1, <1>2, <1>3, PTL DEF Spec

(* Whatever the queue drops and the server refuses, and however late the   *)
(* sender is: the server sees spans begin before they end and inside of    *)
(* rag_run, and no run fails by its telemetry.  A record that is given up  *)
(* for a full queue, or refused, is announced; without a notice only the   *)
(* last records of a run can be lost, when the sender has found the queue  *)
(* empty before the stop event, and the trace it leaves then has no end    *)
(* (rag/tracing.py).                                                       *)
THEOREM TraceCorrect == Spec => []TraceIsSound
  <1> DEFINE Inv == part = "tracing" => TraceInv
  <1>1. Init => Inv
    BY TraceInit DEF Init
  <1>2. Inv /\ [Next]_all => Inv'
    BY TracingPart, TraceStep
  <1>3. Inv => TraceIsSound
    BY TraceInvSuffices DEF TraceIsSound
  <1> QED
    BY <1>1, <1>2, <1>3, PTL DEF Spec

-------------------------------------------------------------------------------
(* The graph.  Its lists are built by folds, about which one argues by     *)
(* induction.                                                              *)


(* A set of numbers that is not empty has a least, which well-foundedness  *)
(* gives.                                                                  *)
LEMMA Smallest ==
  ASSUME NEW T, T \subseteq Nat, T # {}
  PROVE  \E n \in T : \A m \in T : n <= m
  <1>1. \E n \in T : \A m \in T : ~ (<<m, n>> \in OpToRel(<, Nat))
    BY NatLessThanWellFounded, WFMin, Zenon
  <1>2. \E n \in T : \A m \in T : ~ (m < n)
    BY <1>1 DEF OpToRel
  <1> QED
    BY <1>2

(* A set with 0 and every successor has all the numbers.                   *)
LEMMA SetInduction ==
  ASSUME NEW S, 0 \in S, \A n \in Nat : n \in S => n + 1 \in S
  PROVE  \A n \in Nat : n \in S
  <1>1. SUFFICES ASSUME Nat \ S # {} PROVE FALSE
    OBVIOUS
  <1>2. PICK n \in Nat \ S : \A m \in Nat \ S : n <= m
    BY <1>1, Smallest
  <1> QED
    BY <1>2

(* The same, up to a bound.                                                *)
LEMMA UpTo ==
  ASSUME NEW n \in Nat, NEW S, 0 \in S, \A i \in 1 .. n : i - 1 \in S => i \in S
  PROVE  \A i \in 0 .. n : i \in S
  <1> DEFINE T == {i \in Nat : i <= n => i \in S}
  <1>1. 0 \in T
    OBVIOUS
  <1>2. ASSUME NEW i \in Nat, i \in T
        PROVE  i + 1 \in T
    <2>1. SUFFICES ASSUME i + 1 <= n PROVE i + 1 \in S
      OBVIOUS
    <2>2. i + 1 \in 1 .. n /\ (i + 1) - 1 = i /\ i \in S
      BY <1>2, <2>1
    <2> QED
      BY <2>2
  <1> HIDE DEF T
  <1>3. \A i \in Nat : i \in T
    BY <1>1, <1>2, SetInduction
  <1> QED
    BY <1>3 DEF T

(* And one below a bound has a greatest, the maximum of the library.       *)
LEMMA Greatest ==
  ASSUME NEW n \in Nat, NEW s, s \subseteq 1 .. n, s # {}
  PROVE  Pipeline!Max(s) \in s /\ \A i \in s : i <= Pipeline!Max(s)
  <1> DEFINE T == {n - i : i \in s}
  <1>1. T \subseteq Nat /\ T # {}
    <2>1. \A i \in s : n - i \in Nat
      OBVIOUS
    <2>2. PICK i \in s : TRUE
      OBVIOUS
    <2>3. n - i \in T
      OBVIOUS
    <2> QED
      BY <2>1, <2>3
  <1>2. PICK m \in T : \A k \in T : m <= k
    BY <1>1, Smallest
  <1>3. PICK j \in s : m = n - j
    OBVIOUS
  <1>4. \A i \in s : j >= i
    BY <1>2, <1>3
  <1> QED
    BY <1>4 DEF Pipeline!Max

(* A fold over a sequence of length n, whose step is given as a function   *)
(* of position and intermediate result: it exists, on all the positions    *)
(* that FoldLeft may be left with.                                         *)
FoldsTo(it, n, base, onward) ==
    \A s \in SUBSET (1 .. n) :
        it[s] = IF s = {} THEN base
                ELSE onward[<<Pipeline!Max(s), it[s \ {Pipeline!Max(s)}]>>]

(* The recursion has a solution, so the CHOOSE of the fold has one.        *)
LEMMA FoldExists ==
  ASSUME NEW A, NEW base \in A, NEW n \in Nat, NEW onward \in [(1 .. n) \X A -> A]
  PROVE  \E it \in [SUBSET (1 .. n) -> A] : FoldsTo(it, n, base, onward)
  <1> DEFINE S == {m \in 0 .. n : \E it \in [SUBSET (1 .. m) -> A] : FoldsTo(it, m, base, onward)}
  <1>1. 0 \in S
    <2> DEFINE it == [s \in SUBSET (1 .. 0) |-> base]
    <2>1. \A s \in SUBSET (1 .. 0) : s = {}
      OBVIOUS
    <2>2. it \in [SUBSET (1 .. 0) -> A] /\ FoldsTo(it, 0, base, onward)
      BY <2>1 DEF FoldsTo
    <2> QED
      BY <2>2
  <1>2. ASSUME NEW m \in 1 .. n, m - 1 \in S
        PROVE  m \in S
    <2>1. PICK old \in [SUBSET (1 .. m - 1) -> A] : FoldsTo(old, m - 1, base, onward)
      BY <1>2
    <2> DEFINE it == [s \in SUBSET (1 .. m) |->
                         IF m \in s THEN onward[<<m, old[s \ {m}]>>] ELSE old[s]]
    <2>2. ASSUME NEW s \in SUBSET (1 .. m), m \in s
          PROVE  /\ s \ {m} \in SUBSET (1 .. m - 1) /\ Pipeline!Max(s) = m /\ s # {}
                 /\ it[s] = onward[<<m, it[s \ {m}]>>] /\ it[s] \in A
      <3>1. s \ {m} \in SUBSET (1 .. m - 1)
        OBVIOUS
      <3>2. Pipeline!Max(s) = m
        <4>1. m \in Nat /\ s \subseteq 1 .. m /\ s # {}
          BY <2>2
        <4>2. Pipeline!Max(s) \in s /\ \A i \in s : i <= Pipeline!Max(s)
          BY <4>1, Greatest
        <4>3. PICK k : k = Pipeline!Max(s)
          OBVIOUS
        <4>4. k \in 1 .. m /\ m <= k
          BY <2>2, <4>1, <4>2, <4>3
        <4>5. k = m
          BY <4>4
        <4> QED
          BY <4>3, <4>5
      <3>3. it[s \ {m}] = old[s \ {m}] /\ old[s \ {m}] \in A
        BY <3>1
      <3>4. it[s] = onward[<<m, old[s \ {m}]>>]
        BY <2>2
      <3>5. <<m, old[s \ {m}]>> \in (1 .. n) \X A
        BY <3>3
      <3> QED
        BY <2>2, <3>1, <3>2, <3>3, <3>4, <3>5
    <2>3. ASSUME NEW s \in SUBSET (1 .. m), m \notin s
          PROVE  /\ s \in SUBSET (1 .. m - 1) /\ it[s] = old[s] /\ it[s] \in A
                 /\ s # {} => it[s \ {Pipeline!Max(s)}] = old[s \ {Pipeline!Max(s)}]
      <3>1. s \in SUBSET (1 .. m - 1)
        BY <2>3
      <3> QED
        BY <2>3, <3>1
    <2>4. it \in [SUBSET (1 .. m) -> A]
      BY <2>2, <2>3
    <2> HIDE DEF it
    <2>5. FoldsTo(it, m, base, onward)
      <3>1. ASSUME NEW s \in SUBSET (1 .. m)
            PROVE  it[s] = IF s = {} THEN base
                           ELSE onward[<<Pipeline!Max(s), it[s \ {Pipeline!Max(s)}]>>]
        <4>1. CASE m \in s
          BY <2>2, <4>1
        <4>2. CASE m \notin s
          BY <2>1, <2>3, <4>2 DEF FoldsTo
        <4> QED
          BY <4>1, <4>2
      <3> QED
        BY <3>1 DEF FoldsTo
    <2> QED
      BY <2>4, <2>5
  <1> HIDE DEF S
  <1>3. \A m \in 0 .. n : m \in S
    BY <1>1, <1>2, UpTo
  <1>4. n \in S
    BY <1>3
  <1> QED
    BY <1>4 DEF S

(* InOrder goes through the order, element by element.                     *)
LEMMA InOrderSteps ==
  ASSUME NEW X, NEW order \in Seq(X), NEW S
  PROVE  \E f \in [0 .. Len(order) -> Seq(X)] :
            /\ f[0] = <<>>
            /\ \A i \in 1 .. Len(order) :
                  f[i] = IF order[i] \in S THEN Append(f[i - 1], order[i]) ELSE f[i - 1]
            /\ Pipeline!InOrder(order, S) = f[Len(order)]
  <1> DEFINE n == Len(order)
             base == <<>>
             Step(i, a) == IF order[i] \in S THEN Append(a, order[i]) ELSE a
             onward == [p \in (1 .. n) \X Seq(X) |-> Step(p[1], p[2])]
             Body(it) == [s \in SUBSET (1 .. n) |->
                             IF s = {} THEN base
                             ELSE Step(Pipeline!Max(s), it[s \ {Pipeline!Max(s)}])]
             it == CHOOSE it : it = Body(it)
  <1>1. n \in Nat /\ DOMAIN order = 1 .. n /\ \A i \in 1 .. n : order[i] \in X
    BY LenProperties, ElementOfSeq
  <1>2. onward \in [(1 .. n) \X Seq(X) -> Seq(X)] /\ base \in Seq(X)
    BY <1>1, AppendProperties
  <1>3. Pipeline!InOrder(order, S) = it[1 .. n]
    BY <1>1, Zenon DEF Pipeline!InOrder, Pipeline!FoldLeft, Pipeline!MapThenFoldSet
  <1>4. \E g : g = Body(g)
    <2>1. PICK g \in [SUBSET (1 .. n) -> Seq(X)] : FoldsTo(g, n, base, onward)
      BY <1>1, <1>2, FoldExists
    <2>2. ASSUME NEW s \in SUBSET (1 .. n)
          PROVE  g[s] = IF s = {} THEN base
                        ELSE Step(Pipeline!Max(s), g[s \ {Pipeline!Max(s)}])
      <3>1. CASE s # {}
        <4>1. Pipeline!Max(s) \in s
          BY <1>1, <3>1, Greatest
        <4>2. <<Pipeline!Max(s), g[s \ {Pipeline!Max(s)}]>> \in (1 .. n) \X Seq(X)
          BY <4>1
        <4> QED
          BY <2>1, <3>1, <4>2 DEF FoldsTo
      <3> QED
        BY <2>1, <3>1 DEF FoldsTo
    <2>3. g = Body(g)
      BY <2>2
    <2> QED
      BY <2>3
  <1>5. it = Body(it)
    BY <1>4
  <1> HIDE DEF it
  <1>6. \A s \in SUBSET (1 .. n) :
           it[s] = IF s = {} THEN base ELSE Step(Pipeline!Max(s), it[s \ {Pipeline!Max(s)}])
    BY <1>5
  <1> DEFINE f == [i \in 0 .. n |-> it[1 .. i]]
  <1>7. f[0] = <<>>
    <2>1. 1 .. 0 = {} /\ 0 \in 0 .. n
      BY <1>1
    <2> QED
      BY <1>6, <2>1
  <1>8. ASSUME NEW i \in 1 .. n
        PROVE  f[i] = Step(i, f[i - 1])
    <2>1. /\ 1 .. i \subseteq 1 .. n /\ i \in 1 .. i /\ i \in Nat
          /\ i - 1 \in 0 .. n /\ i \in 0 .. n
      BY <1>1
    <2>2. Pipeline!Max(1 .. i) = i
      <3>1. Pipeline!Max(1 .. i) \in 1 .. i /\ \A k \in 1 .. i : k <= Pipeline!Max(1 .. i)
        BY <2>1, Greatest
      <3> QED
        BY <2>1, <3>1
    <2>3. (1 .. i) \ {i} = 1 .. i - 1
      OBVIOUS
    <2> QED
      BY <1>6, <2>1, <2>2, <2>3
  <1> HIDE DEF f
  <1>9. \A i \in 0 .. n : f[i] \in Seq(X)
    <2> DEFINE T == {i \in 0 .. n : f[i] \in Seq(X)}
    <2>1. 0 \in T
      <3>1. 0 \in 0 .. n /\ <<>> \in Seq(X)
        BY <1>1, EmptySeq
      <3> QED
        BY <1>7, <3>1
    <2>2. ASSUME NEW i \in 1 .. n, i - 1 \in T
          PROVE  i \in T
      <3>1. f[i - 1] \in Seq(X) /\ order[i] \in X /\ i \in 0 .. n
        BY <1>1, <2>2
      <3>2. Append(f[i - 1], order[i]) \in Seq(X)
        BY <3>1, AppendProperties
      <3> QED
        BY <1>8, <3>1, <3>2
    <2> HIDE DEF T
    <2>3. \A i \in 0 .. n : i \in T
      BY <1>1, <2>1, <2>2, UpTo
    <2> QED
      BY <2>3 DEF T
  <1>10. f \in [0 .. n -> Seq(X)]
    BY <1>9 DEF f
  <1>11. f[n] = it[1 .. n]
    BY <1>1 DEF f
  <1> QED
    BY <1>3, <1>7, <1>8, <1>10, <1>11

LEMMA PipelineConstants ==
  /\ Searches \in Nat \ {0} /\ BatchSize \in Nat \ {0} /\ Concurrency \in Nat \ {0}
  /\ TechOrder \in Seq(Pipeline!Tech) /\ ViewOrder \in Seq(Pipeline!View)
  /\ Pipeline!Tech \cap Pipeline!View = {}
  BY PipelineAssumption DEF Pipeline!SizesAssumption, Pipeline!OrderAssumption

(* It keeps what is in the set, and all of it if everything is.            *)
LEMMA InOrderOf ==
  ASSUME NEW X, NEW order \in Seq(X), NEW S
  PROVE  /\ Pipeline!InOrder(order, S) \in Seq(X)
         /\ \A i \in 1 .. Len(Pipeline!InOrder(order, S)) : Pipeline!InOrder(order, S)[i] \in S
         /\ (\A i \in 1 .. Len(order) : order[i] \in S) => Pipeline!InOrder(order, S) = order
  <1>1. PICK f \in [0 .. Len(order) -> Seq(X)] :
           /\ f[0] = <<>>
           /\ \A i \in 1 .. Len(order) :
                 f[i] = IF order[i] \in S THEN Append(f[i - 1], order[i]) ELSE f[i - 1]
           /\ Pipeline!InOrder(order, S) = f[Len(order)]
    BY InOrderSteps
  <1>2. PICK n \in Nat : n = Len(order)
    BY LenProperties
  <1>3. \A i \in 1 .. n : order[i] \in X
    BY <1>2, ElementOfSeq
  <1> DEFINE T == {i \in 0 .. n : \A j \in 1 .. Len(f[i]) : f[i][j] \in S}
             U == {i \in 0 .. n : f[i] = SubSeq(order, 1, i)}
  <1>4. \A i \in 0 .. n : i \in T
    <2>1. 0 \in T
      <3>1. Len(f[0]) = 0
        BY <1>1, EmptySeq
      <3> QED
        BY <3>1
    <2>2. ASSUME NEW i \in 1 .. n, i - 1 \in T
          PROVE  i \in T
      <3>1. i - 1 \in 0 .. n /\ i \in 0 .. n /\ f[i - 1] \in Seq(X) /\ order[i] \in X
        <4>1. i - 1 \in 0 .. n /\ i \in 0 .. n
          BY <1>2
        <4>2. f[i - 1] \in Seq(X)
          BY <1>1, <1>2, <4>1
        <4> QED
          BY <1>3, <4>1, <4>2
      <3>2. CASE order[i] \in S
        <4>1. f[i] = Append(f[i - 1], order[i])
          BY <1>1, <1>2, <3>2
        <4>2. Len(f[i - 1]) \in Nat
          BY <3>1, LenProperties
        <4>3. /\ Len(f[i]) = Len(f[i - 1]) + 1
              /\ \A j \in 1 .. Len(f[i - 1]) : f[i][j] = f[i - 1][j]
              /\ f[i][Len(f[i - 1]) + 1] = order[i]
          BY <3>1, <4>1, AppendProperties
        <4>4. \A j \in 1 .. Len(f[i]) : j \in 1 .. Len(f[i - 1]) \/ j = Len(f[i - 1]) + 1
          BY <4>2, <4>3
        <4> QED
          BY <2>2, <3>1, <3>2, <4>3, <4>4
      <3>3. CASE order[i] \notin S
        <4>1. f[i] = f[i - 1]
          BY <1>1, <1>2, <3>3
        <4> QED
          BY <2>2, <3>1, <4>1
      <3> QED
        BY <3>2, <3>3
    <2> HIDE DEF T
    <2> QED
      BY <2>1, <2>2, UpTo
  <1>5. ASSUME \A i \in 1 .. n : order[i] \in S
        PROVE  \A i \in 0 .. n : i \in U
    <2>1. 0 \in U
      BY <1>1, SubSeqEmpty
    <2>2. ASSUME NEW i \in 1 .. n, i - 1 \in U
          PROVE  i \in U
      <3>1. i - 1 \in 0 .. n /\ i \in 0 .. n /\ f[i - 1] \in Seq(X) /\ order[i] \in X
        <4>1. i - 1 \in 0 .. n /\ i \in 0 .. n
          BY <1>2
        <4>2. f[i - 1] \in Seq(X)
          BY <1>1, <1>2, <4>1
        <4> QED
          BY <1>3, <4>1, <4>2
      <3>2. f[i] = Append(f[i - 1], order[i])
        BY <1>1, <1>2, <1>5
      <3>3. f[i] = f[i - 1] \o <<order[i]>>
        BY <3>1, <3>2, AppendIsConcat
      <3>4. SubSeq(order, 1, i) = SubSeq(order, 1, i - 1) \o <<order[i]>>
        <4>1. 1 \in 1 .. Len(order) /\ i \in 1 .. Len(order)
          BY <1>2
        <4> QED
          BY <4>1, SubSeqRecursiveSecond
      <3>5. f[i - 1] = SubSeq(order, 1, i - 1)
        BY <2>2
      <3> QED
        BY <3>1, <3>3, <3>4, <3>5
    <2> HIDE DEF U
    <2> QED
      BY <2>1, <2>2, UpTo
  <1>6. n \in 0 .. n
    OBVIOUS
  <1>7. (\A i \in 1 .. n : order[i] \in S) => f[n] = order
    <2>1. SubSeq(order, 1, n) = order
      BY <1>2, SubSeqFull
    <2> QED
      BY <1>5, <1>6, <2>1
  <1>8. \A j \in 1 .. Len(f[n]) : f[n][j] \in S
    BY <1>4, <1>6
  <1> QED
    BY <1>1, <1>2, <1>6, <1>7, <1>8

(* The batches, one behind the other, are the sequence they were cut from. *)
LEMMA BatchesJoin ==
  ASSUME NEW X, NEW seq \in Seq(X)
  PROVE  Pipeline!FlattenSeq(Pipeline!Batches(seq)) = seq
  <1> DEFINE B == BatchSize
             L == Len(seq)
             N == (L + B - 1) \div B
             Hi(i) == IF i * B < L THEN i * B ELSE L
             Slice(i) == SubSeq(seq, (i - 1) * B + 1, Hi(i))
             b == Pipeline!Batches(seq)
  <1>1. B \in Nat \ {0} /\ L \in Nat
    BY PipelineConstants, LenProperties
  <1>2. N \in Int /\ B * N <= L + B - 1 /\ L + B - 1 < B * N + B
    BY <1>1
  <1>3. N >= 0
    <2>1. SUFFICES ASSUME N <= -1 PROVE FALSE
      BY <1>2
    <2> HIDE DEF N
    <2>2. B * (N + 1) <= 0
      BY <1>1, <1>2, <2>1
    <2>3. B * (N + 1) = B * N + B
      BY <1>1, <1>2
    <2> QED
      BY <1>1, <1>2, <2>2, <2>3
  <1>4. b = [i \in 1 .. N |-> Slice(i)]
    BY DEF Pipeline!Batches
  <1> HIDE DEF N, b
  <1>5. Len(b) = N
    BY <1>2, <1>3, <1>4
  <1>6. N = 0 => L = 0
    BY <1>1, <1>2
  <1>7. CASE N = 0
    <2>1. seq = <<>>
      BY <1>6, <1>7, EmptySeq
    <2>2. b = <<>>
      BY <1>4, <1>7
    <2> QED
      BY <1>5, <1>7, <2>1, <2>2 DEF Pipeline!FlattenSeq, b
  <1>8. CASE N # 0
    <2>1. N \in Nat /\ N >= 1
      BY <1>2, <1>3, <1>8
    <2>2. ASSUME NEW i \in 1 .. N
          PROVE  (i - 1) * B \in Nat /\ (i - 1) * B < L /\ i * B = (i - 1) * B + B
      <3>1. B * (N - i) >= 0
        BY <1>1, <2>1
      <3>2. B * (N - i) = B * N - B * i /\ B * i = i * B /\ i * B = (i - 1) * B + B
        BY <1>1, <2>1
      <3>3. (i - 1) * B >= 0 /\ (i - 1) * B \in Int
        BY <1>1, <2>1
      <3> QED
        BY <1>1, <1>2, <2>1, <3>1, <3>2, <3>3
    <2>3. ASSUME NEW i \in 1 .. N
          PROVE  Hi(i) \in Nat /\ (i - 1) * B < Hi(i) /\ Hi(i) <= L
      BY <1>1, <2>2
    <2>4. Hi(N) = L
      <3>1. B * N = N * B
        BY <1>1, <2>1
      <3> QED
        BY <1>1, <1>2, <2>1, <3>1
    <2>5. ASSUME NEW i \in 2 .. N
          PROVE  Hi(i - 1) = (i - 1) * B /\ i - 1 \in 1 .. N /\ i \in 1 .. N
      BY <1>1, <2>1, <2>2
    <2> DEFINE g == [i \in 1 .. N |-> SubSeq(seq, 1, Hi(i))]
               Body(h) == [i \in 1 .. N |-> IF i = 1 THEN b[i] ELSE h[i - 1] \o b[i]]
               flatten == CHOOSE h : h = Body(h)
    <2> HIDE DEF B
    <2>6. ASSUME NEW i \in 2 .. N
          PROVE  SubSeq(seq, 1, Hi(i - 1)) \o b[i] = SubSeq(seq, 1, Hi(i))
      <3>1. b[i] = Slice(i) /\ Slice(i) = SubSeq(seq, Hi(i - 1) + 1, Hi(i))
        BY <1>4, <2>5
      <3>2. Hi(i - 1) \in Nat /\ Hi(i) \in Nat /\ Hi(i - 1) < Hi(i) /\ Hi(i) <= L
        BY <2>3, <2>5
      <3>3. 1 \in 1 .. L + 1 /\ Hi(i - 1) \in 1 - 1 .. L /\ Hi(i) \in Hi(i - 1) .. L
        BY <1>1, <3>2
      <3>4. SubSeq(seq, 1, Hi(i - 1)) \o SubSeq(seq, Hi(i - 1) + 1, Hi(i)) = SubSeq(seq, 1, Hi(i))
        BY <3>3, ConcatAdjacentSubSeq
      <3> QED
        BY <3>1, <3>4
    <2>7. b[1] = SubSeq(seq, 1, Hi(1))
      <3>1. (1 - 1) * B + 1 = 1
        BY <1>1
      <3>2. Slice(1) = SubSeq(seq, 1, Hi(1))
        BY <3>1
      <3> HIDE DEF Slice
      <3>3. b[1] = Slice(1)
        BY <1>4, <2>1
      <3> QED
        BY <3>2, <3>3
    <2>8. g = Body(g)
      <3>1. ASSUME NEW i \in 1 .. N
            PROVE  g[i] = IF i = 1 THEN b[i] ELSE g[i - 1] \o b[i]
        <4>1. CASE i = 1
          BY <2>7, <4>1
        <4>2. CASE i # 1
          <5>1. i \in 2 .. N /\ i - 1 \in 1 .. N
            BY <2>1, <4>2
          <5> QED
            BY <2>6, <4>2, <5>1
        <4> QED
          BY <4>1, <4>2
      <3> HIDE DEF Hi
      <3> QED
        BY <3>1
    <2>9. flatten = Body(flatten)
      BY <2>8
    <2>10. Pipeline!FlattenSeq(b) = flatten[N]
      BY <1>5, <1>8, Zenon DEF Pipeline!FlattenSeq
    <2> HIDE DEF flatten
    <2>11. \A i \in 1 .. N : flatten[i] = IF i = 1 THEN b[i] ELSE flatten[i - 1] \o b[i]
      BY <2>9
    <2> DEFINE T == {i \in 0 .. N : i = 0 \/ flatten[i] = SubSeq(seq, 1, Hi(i))}
    <2>12. 0 \in T
      BY <2>1
    <2>13. ASSUME NEW i \in 1 .. N, i - 1 \in T
           PROVE  i \in T
      <3>1. CASE i = 1
        BY <2>7, <2>11, <3>1
      <3>2. CASE i # 1
        <4>1. i \in 2 .. N
          BY <2>1, <3>2
        <4>2. flatten[i - 1] = SubSeq(seq, 1, Hi(i - 1))
          BY <2>13, <4>1
        <4>3. flatten[i] = flatten[i - 1] \o b[i]
          BY <2>11, <3>2
        <4>4. flatten[i] = SubSeq(seq, 1, Hi(i))
          BY <2>6, <4>1, <4>2, <4>3
        <4> QED
          BY <2>1, <4>4
      <3> QED
        BY <3>1, <3>2
    <2> HIDE DEF T
    <2>14. N \in T
      <3>1. N \in 0 .. N
        BY <2>1
      <3> QED
        BY <2>1, <2>12, <2>13, <3>1, UpTo
    <2>15. flatten[N] = SubSeq(seq, 1, L)
      BY <1>8, <2>4, <2>14 DEF T
    <2> QED
      BY <2>10, <2>15, SubSeqFull DEF b
  <1> QED
    BY <1>7, <1>8

(* A thread has ended when its result is known and its future completed.   *)
ThreadsOK ==
    \A t \in Pipeline!Tech :
        /\ rpc[t] = "ended" <=> t \in Pipeline!ToSet(finished)
        /\ rpc[t] = "ended" <=> result[t] \in {"ok", "failed"}
        /\ rpc[t] # "ended" <=> result[t] = "none"
        /\ rpc[t] \in {"queued", "search", "searching"} => searched[t] < Searches

(* Threads work in their node only; behind the research every result of a  *)
(* technology is good.                                                     *)
ResearchOK ==
    /\ node # "research" => \A t \in Pipeline!Tech : rpc[t] \in {"queued", "ended"}
    /\ node \in {"views", "report", "evaluate", "render", "stopped"} =>
           \A t \in Pipeline!Tech : result[t] = "ok"
    /\ node \in {"plan", "research"} => tech_assessment = <<>>

ViewsOK ==
    /\ node \in {"plan", "research"} => \A v \in Pipeline!View : vpc[v] = "queued"
    /\ node # "views" => \A v \in Pipeline!View : vpc[v] \notin {"assess", "reassess"}
    /\ \A v \in Pipeline!View : vpc[v] = "ended" => result[v] # "none"

(* What the synthesis has seen; a report exists behind it, and a verdict   *)
(* behind the evaluation.                                                  *)
ReportOK ==
    /\ node \in {"plan", "research", "views", "stopped"} =>
           DOMAIN task = {} /\ run_status # "human_review_pending"
    /\ node # "ended" => run_status # "human_review_pending"
    /\ node \in {"evaluate", "render"} \/ run_status = "human_review_pending" =>
           /\ \A i \in DOMAIN task : task[i] = "ok"
           /\ decisions = Pipeline!GapRecords(gaps)
    /\ node \in {"plan", "research", "views", "report", "stopped"} => decisions = <<>>
    /\ node \in {"report", "evaluate", "render"} \/ run_status = "human_review_pending" =>
           /\ \A t \in Pipeline!Tech : result[t] = "ok"
           /\ \A v \in Pipeline!View : vpc[v] = "ended" /\ result[v] \in {"ok", "insufficient"}
    /\ node = "render" \/ run_status = "human_review_pending" => evaluation = "passed"

(* The invariant.                                                          *)
GraphInv ==
    /\ Pipeline!TypeOK
    /\ ThreadsOK /\ ResearchOK /\ ViewsOK /\ ReportOK
    /\ Pipeline!CompletionOrderIsInvisible
    /\ Pipeline!NoThreadOutlivesNode

(* The invariant contains what the graph promises.                         *)
LEMMA GraphInvSuffices ==
  ASSUME GraphInv
  PROVE  Pipeline!GraphIsSound
  <1>1. Pipeline!JoinSeesEveryBranch
    BY DEF GraphInv, ReportOK, Pipeline!JoinSeesEveryBranch
  <1>2. Pipeline!EveryGapIsDecided
    BY DEF GraphInv, ReportOK, Pipeline!EveryGapIsDecided
  <1>3. Pipeline!ReviewIsEarned
    BY DEF GraphInv, ReportOK, Pipeline!ReviewIsEarned, Pipeline!None
  <1> QED
    BY <1>1, <1>2, <1>3 DEF GraphInv, Pipeline!GraphIsSound

(* What a thread of the research node may do: go on, or end with a result. *)
LEMMA ThreadMoves ==
  ASSUME Pipeline!TypeOK, ThreadsOK, NEW t \in Pipeline!Tech, Pipeline!TechStep(t)
  PROVE  /\ node = "research" /\ rpc[t] # "ended"
         /\ attempt' \in [Pipeline!Tech -> 0 .. 1]
         /\ searched' \in [Pipeline!Tech -> 0 .. Searches]
         /\ searcher' \in Pipeline!Tech \cup {"none"}
         /\ UNCHANGED <<node, run_status, tech_assessment, vpc, gaps, task, decisions, evaluation>>
         /\ \/ /\ \E p \in Pipeline!Working : rpc' = [rpc EXCEPT ![t] = p]
               /\ UNCHANGED <<result, finished>>
            \/ \E status \in {"ok", "failed"} : Pipeline!Finish(t, status)
         /\ rpc'[t] \in {"queued", "search", "searching"} => searched'[t] < Searches
         /\ \A u \in Pipeline!Tech \ {t} : searched'[u] = searched[u]
  <1> USE DEF Pipeline!report
  <1>1. CASE Pipeline!Start(t)
    BY <1>1 DEF ThreadsOK, Pipeline!Start, Pipeline!Researches, Pipeline!TypeOK, Pipeline!None, Pipeline!Working
  <1>2. CASE Pipeline!Lock(t)
    BY <1>2 DEF ThreadsOK, Pipeline!Lock, Pipeline!Researches, Pipeline!TypeOK, Pipeline!None, Pipeline!Working
  <1>3. CASE Pipeline!Search(t)
    <2>1. /\ node = "research" /\ rpc[t] = "searching" /\ searcher' = "none"
          /\ UNCHANGED <<node, run_status, attempt, tech_assessment, vpc, gaps, task, decisions,
                         evaluation>>
      BY <1>3 DEF Pipeline!Search, Pipeline!Researches, Pipeline!None
    <2>2. \/ /\ searched' = [searched EXCEPT ![t] = @ + 1]
             /\ rpc' = [rpc EXCEPT ![t] = IF searched[t] + 1 = Searches THEN "pack" ELSE "search"]
             /\ UNCHANGED <<result, finished>>
          \/ Pipeline!Finish(t, "failed") /\ UNCHANGED searched
      BY <1>3 DEF Pipeline!Search
    <2>3. searched[t] < Searches
      BY <2>1 DEF ThreadsOK
    <2>4. /\ rpc \in [Pipeline!Tech -> Pipeline!Working \cup {"queued", "ended"}]
          /\ searched \in [Pipeline!Tech -> 0 .. Searches] /\ attempt \in [Pipeline!Tech -> 0 .. 1]
      BY DEF Pipeline!TypeOK
    <2>5. CASE /\ searched' = [searched EXCEPT ![t] = @ + 1]
               /\ rpc' = [rpc EXCEPT ![t] = IF searched[t] + 1 = Searches THEN "pack" ELSE "search"]
               /\ UNCHANGED <<result, finished>>
      <3>1. /\ searched[t] \in 0 .. Searches /\ searched[t] + 1 \in 0 .. Searches
            /\ searched' \in [Pipeline!Tech -> 0 .. Searches] /\ searched'[t] = searched[t] + 1
        BY <2>3, <2>4, <2>5, PipelineConstants
      <3>2. PICK p : p = IF searched[t] + 1 = Searches THEN "pack" ELSE "search"
        OBVIOUS
      <3>3. p \in Pipeline!Working /\ rpc' = [rpc EXCEPT ![t] = p] /\ rpc'[t] = p
        BY <2>4, <2>5, <3>2 DEF Pipeline!Working
      <3>4. p \in {"queued", "search", "searching"} => searched'[t] < Searches
        BY <2>3, <3>1, <3>2, PipelineConstants
      <3> QED
        BY <2>1, <2>4, <2>5, <3>1, <3>3, <3>4
    <2>6. CASE Pipeline!Finish(t, "failed") /\ UNCHANGED searched
      BY <2>1, <2>4, <2>6 DEF Pipeline!Finish
    <2> QED
      BY <2>2, <2>5, <2>6
  <1>4. CASE Pipeline!Pack(t)
    BY <1>4 DEF Pipeline!Pack, Pipeline!Researches, Pipeline!TypeOK, Pipeline!None, Pipeline!Working,
                Pipeline!Finish
  <1>5. CASE Pipeline!Review(t)
    <2>1. /\ node = "research" /\ rpc[t] \in {"review", "assess"}
          /\ UNCHANGED <<node, run_status, attempt, searched, searcher, tech_assessment, vpc, gaps,
                         task, decisions, evaluation>>
      BY <1>5 DEF Pipeline!Review, Pipeline!Researches
    <2>2. \/ \E p \in {"assess", "rewrite"} :
                rpc' = [rpc EXCEPT ![t] = p] /\ UNCHANGED <<result, finished>>
          \/ \E status \in {"ok", "failed"} : Pipeline!Finish(t, status)
      BY <1>5 DEF Pipeline!Review, Pipeline!Insufficient
    <2>3. CASE \E p \in {"assess", "rewrite"} :
                  rpc' = [rpc EXCEPT ![t] = p] /\ UNCHANGED <<result, finished>>
      BY <2>1, <2>3 DEF Pipeline!TypeOK, Pipeline!None, Pipeline!Working
    <2>4. CASE \E status \in {"ok", "failed"} : Pipeline!Finish(t, status)
      BY <2>1, <2>4 DEF Pipeline!TypeOK, Pipeline!None, Pipeline!Finish
    <2> QED
      BY <2>2, <2>3, <2>4
  <1>6. CASE Pipeline!Rewrite(t)
    <2>1. /\ node = "research" /\ rpc[t] = "rewrite"
          /\ UNCHANGED <<node, run_status, searcher, tech_assessment, vpc, gaps, task, decisions,
                         evaluation>>
      BY <1>6 DEF Pipeline!Rewrite, Pipeline!Researches
    <2>2. \/ /\ rpc' = [rpc EXCEPT ![t] = "search"]
             /\ attempt' = [attempt EXCEPT ![t] = 1] /\ searched' = [searched EXCEPT ![t] = 0]
             /\ UNCHANGED <<result, finished>>
          \/ Pipeline!Finish(t, "failed") /\ UNCHANGED <<attempt, searched>>
      BY <1>6 DEF Pipeline!Rewrite
    <2>3. /\ rpc \in [Pipeline!Tech -> Pipeline!Working \cup {"queued", "ended"}]
          /\ searched \in [Pipeline!Tech -> 0 .. Searches] /\ attempt \in [Pipeline!Tech -> 0 .. 1]
          /\ searcher \in Pipeline!Tech \cup {"none"}
      BY DEF Pipeline!TypeOK, Pipeline!None
    <2>4. CASE /\ rpc' = [rpc EXCEPT ![t] = "search"]
               /\ attempt' = [attempt EXCEPT ![t] = 1] /\ searched' = [searched EXCEPT ![t] = 0]
               /\ UNCHANGED <<result, finished>>
      BY <2>1, <2>3, <2>4, PipelineConstants DEF Pipeline!Working
    <2>5. CASE Pipeline!Finish(t, "failed") /\ UNCHANGED <<attempt, searched>>
      BY <2>1, <2>3, <2>5 DEF Pipeline!Finish
    <2> QED
      BY <2>2, <2>4, <2>5
  <1> QED
    BY <1>1, <1>2, <1>3, <1>4, <1>5, <1>6 DEF Pipeline!TechStep

(* A future that completes is one more. *)
LEMMA FinishedGrows ==
  ASSUME NEW t \in Pipeline!Tech, finished \in Seq(Pipeline!Tech),
         Len(finished) = Pipeline!Cardinality(Pipeline!ToSet(finished)),
         t \notin Pipeline!ToSet(finished), finished' = Append(finished, t)
  PROVE  /\ finished' \in Seq(Pipeline!Tech)
         /\ Pipeline!ToSet(finished') = Pipeline!ToSet(finished) \cup {t}
         /\ Len(finished') = Pipeline!Cardinality(Pipeline!ToSet(finished'))
  <1>1. PICK n \in Nat : n = Len(finished) /\ DOMAIN finished = 1 .. n
    BY LenProperties
  <1>2. /\ finished' \in Seq(Pipeline!Tech) /\ Len(finished') = n + 1
        /\ \A i \in 1 .. n : finished'[i] = finished[i]
        /\ finished'[n + 1] = t
    BY <1>1, AppendProperties
  <1>3. DOMAIN finished' = 1 .. n + 1
    BY <1>2, LenProperties
  <1>4. Pipeline!ToSet(finished') = Pipeline!ToSet(finished) \cup {t}
    <2>1. Pipeline!ToSet(finished) = {finished[i] : i \in 1 .. n}
      BY <1>1 DEF Pipeline!ToSet
    <2>2. Pipeline!ToSet(finished') = {finished'[i] : i \in 1 .. n + 1}
      BY <1>3 DEF Pipeline!ToSet
    <2>3. \A i \in 1 .. n + 1 : i \in 1 .. n \/ i = n + 1
      BY <1>1
    <2>4. \A i \in 1 .. n : i \in 1 .. n + 1
      BY <1>1
    <2>5. n + 1 \in 1 .. n + 1
      BY <1>1
    <2>6. Pipeline!ToSet(finished') \subseteq Pipeline!ToSet(finished) \cup {t}
      <3>1. ASSUME NEW x \in Pipeline!ToSet(finished') PROVE x \in Pipeline!ToSet(finished) \cup {t}
        <4>1. PICK i \in 1 .. n + 1 : x = finished'[i]
          BY <2>2, <3>1
        <4> QED
          BY <1>2, <2>1, <2>3, <4>1
      <3> QED
        BY <3>1
    <2>7. Pipeline!ToSet(finished) \cup {t} \subseteq Pipeline!ToSet(finished')
      <3>1. ASSUME NEW x \in Pipeline!ToSet(finished) PROVE x \in Pipeline!ToSet(finished')
        <4>1. PICK i \in 1 .. n : x = finished[i]
          BY <2>1, <3>1
        <4>2. x = finished'[i] /\ i \in 1 .. n + 1
          BY <1>2, <2>4, <4>1
        <4> QED
          BY <2>2, <4>2
      <3>2. t \in Pipeline!ToSet(finished')
        BY <1>2, <2>2, <2>5
      <3> QED
        BY <3>1, <3>2
    <2> QED
      BY <2>6, <2>7
  <1>5. IsFiniteSet(Pipeline!ToSet(finished))
    <2> DEFINE g == [i \in 1 .. n |-> finished[i]]
    <2>1. g \in Surjection(1 .. n, Pipeline!ToSet(finished))
      BY <1>1 DEF Surjection, Pipeline!ToSet
    <2>2. IsFiniteSet(1 .. n)
      BY <1>1, FS_Interval
    <2> QED
      BY <2>1, <2>2, FS_Surjection
  <1>6. \A S : Pipeline!Cardinality(S) = Cardinality(S)
    BY DEF Pipeline!Cardinality, Cardinality
  <1>7. Cardinality(Pipeline!ToSet(finished) \cup {t}) = Cardinality(Pipeline!ToSet(finished)) + 1
    BY <1>5, FS_AddElement
  <1> QED
    BY <1>1, <1>2, <1>4, <1>6, <1>7

LEMMA ThreadInv ==
  ASSUME GraphInv, NEW t \in Pipeline!Tech, Pipeline!TechStep(t)
  PROVE  GraphInv'
  <1>1. Pipeline!TypeOK /\ ThreadsOK /\ ResearchOK /\ ViewsOK /\ ReportOK
    BY DEF GraphInv
  <1>2. /\ node = "research" /\ rpc[t] # "ended"
        /\ attempt' \in [Pipeline!Tech -> 0 .. 1]
        /\ searched' \in [Pipeline!Tech -> 0 .. Searches]
        /\ searcher' \in Pipeline!Tech \cup {"none"}
        /\ UNCHANGED <<node, run_status, tech_assessment, vpc, gaps, task, decisions, evaluation>>
        /\ \/ /\ \E p \in Pipeline!Working : rpc' = [rpc EXCEPT ![t] = p]
              /\ UNCHANGED <<result, finished>>
           \/ \E status \in {"ok", "failed"} : Pipeline!Finish(t, status)
        /\ rpc'[t] \in {"queued", "search", "searching"} => searched'[t] < Searches
        /\ \A u \in Pipeline!Tech \ {t} : searched'[u] = searched[u]
    BY <1>1, ThreadMoves
  <1>3. /\ rpc' \in [Pipeline!Tech -> Pipeline!Working \cup {"queued", "ended"}]
        /\ result' \in [Pipeline!Tech \cup Pipeline!View -> {"none", "ok", "insufficient", "failed"}]
        /\ \A v \in Pipeline!View : result'[v] = result[v]
        /\ finished' \in Seq(Pipeline!Tech)
        /\ Len(finished') = Pipeline!Cardinality(Pipeline!ToSet(finished'))
        /\ ThreadsOK'
    <2>1. /\ rpc \in [Pipeline!Tech -> Pipeline!Working \cup {"queued", "ended"}]
          /\ result \in [Pipeline!Tech \cup Pipeline!View -> {"none", "ok", "insufficient", "failed"}]
          /\ finished \in Seq(Pipeline!Tech)
          /\ Len(finished) = Pipeline!Cardinality(Pipeline!ToSet(finished))
      BY <1>1 DEF Pipeline!TypeOK, Pipeline!None
    <2>2. CASE (\E p \in Pipeline!Working : rpc' = [rpc EXCEPT ![t] = p])
                 /\ UNCHANGED <<result, finished>>
      <3>1. PICK p \in Pipeline!Working : rpc' = [rpc EXCEPT ![t] = p]
        BY <2>2
      <3>2. p # "ended"
        BY <3>1 DEF Pipeline!Working
      <3>3. Pipeline!ToSet(finished') = Pipeline!ToSet(finished)
        BY <2>2
      <3> QED
        BY <1>1, <1>2, <2>1, <2>2, <3>1, <3>2, <3>3 DEF ThreadsOK
    <2>3. CASE \E status \in {"ok", "failed"} : Pipeline!Finish(t, status)
      <3>1. PICK status \in {"ok", "failed"} :
               /\ rpc' = [rpc EXCEPT ![t] = "ended"] /\ result' = [result EXCEPT ![t] = status]
               /\ finished' = Append(finished, t)
        BY <2>3 DEF Pipeline!Finish
      <3>2. t \notin Pipeline!ToSet(finished)
        BY <1>1, <1>2 DEF ThreadsOK
      <3>3. /\ finished' \in Seq(Pipeline!Tech)
            /\ Pipeline!ToSet(finished') = Pipeline!ToSet(finished) \cup {t}
            /\ Len(finished') = Pipeline!Cardinality(Pipeline!ToSet(finished'))
        BY <2>1, <3>1, <3>2, FinishedGrows
      <3> QED
        BY <1>1, <1>2, <2>1, <3>1, <3>3, PipelineConstants DEF ThreadsOK
    <2> QED
      BY <1>2, <2>2, <2>3
  <1>4. Pipeline!TypeOK'
    BY <1>1, <1>2, <1>3 DEF Pipeline!TypeOK, Pipeline!None
  <1>5. ResearchOK' /\ ViewsOK' /\ ReportOK'
    BY <1>1, <1>2, <1>3 DEF ResearchOK, ViewsOK, ReportOK
  <1>6. Pipeline!CompletionOrderIsInvisible' /\ Pipeline!NoThreadOutlivesNode'
    BY <1>2 DEF GraphInv, Pipeline!CompletionOrderIsInvisible, Pipeline!NoThreadOutlivesNode
  <1> QED
    BY <1>3, <1>4, <1>5, <1>6 DEF GraphInv

LEMMA ViewInv ==
  ASSUME GraphInv, NEW v \in Pipeline!View, Pipeline!ViewStep(v)
  PROVE  GraphInv'
  <1>1. Pipeline!TypeOK /\ ThreadsOK /\ ResearchOK /\ ViewsOK /\ ReportOK
    BY DEF GraphInv
  <1>2. /\ node = "views"
        /\ UNCHANGED <<node, run_status, rpc, attempt, searched, searcher, finished, tech_assessment,
                       gaps, task, decisions, evaluation>>
        /\ \/ /\ \E p \in {"assess", "raised", "reassess"} : vpc' = [vpc EXCEPT ![v] = p]
              /\ UNCHANGED result
           \/ /\ vpc' = [vpc EXCEPT ![v] = "ended"]
              /\ \E status \in {"ok", "failed", "insufficient"} :
                    result' = [result EXCEPT ![v] = status]
    BY DEF Pipeline!ViewStep, Pipeline!SearchWeb, Pipeline!SnapshotChanged, Pipeline!Assess,
           Pipeline!research, Pipeline!report
  <1>3. /\ vpc' \in [Pipeline!View -> {"queued", "assess", "reassess", "ended", "raised"}]
        /\ result' \in [Pipeline!Tech \cup Pipeline!View -> {"none", "ok", "insufficient", "failed"}]
        /\ \A t \in Pipeline!Tech : result'[t] = result[t]
        /\ \A u \in Pipeline!View : vpc'[u] = "ended" => result'[u] # "none"
    <2>1. /\ vpc \in [Pipeline!View -> {"queued", "assess", "reassess", "ended", "raised"}]
          /\ result \in [Pipeline!Tech \cup Pipeline!View -> {"none", "ok", "insufficient", "failed"}]
          /\ \A u \in Pipeline!View : vpc[u] = "ended" => result[u] # "none"
      BY <1>1 DEF Pipeline!TypeOK, Pipeline!None, ViewsOK
    <2> QED
      BY <1>2, <2>1, PipelineConstants
  <1>4. Pipeline!ToSet(finished') = Pipeline!ToSet(finished)
    BY <1>2
  <1>5. Pipeline!TypeOK'
    BY <1>1, <1>2, <1>3, <1>4 DEF Pipeline!TypeOK, Pipeline!None
  <1>6. ThreadsOK' /\ ResearchOK' /\ ViewsOK' /\ ReportOK'
    BY <1>1, <1>2, <1>3, <1>4 DEF ThreadsOK, ResearchOK, ViewsOK, ReportOK
  <1>7. Pipeline!CompletionOrderIsInvisible' /\ Pipeline!NoThreadOutlivesNode'
    BY <1>2 DEF GraphInv, Pipeline!CompletionOrderIsInvisible, Pipeline!NoThreadOutlivesNode
  <1> QED
    BY <1>5, <1>6, <1>7 DEF GraphInv

LEMMA TaskInv ==
  ASSUME GraphInv, NEW i \in DOMAIN task, Pipeline!TaskStep(i)
  PROVE  GraphInv'
  <1>1. Pipeline!TypeOK /\ ThreadsOK /\ ResearchOK /\ ViewsOK /\ ReportOK
    BY DEF GraphInv
  <1>2. /\ node = "report"
        /\ UNCHANGED <<node, run_status, rpc, attempt, searched, searcher, finished, tech_assessment,
                       vpc, result, gaps, decisions, evaluation>>
        /\ \E s \in {"running", "ok", "failed"} : task' = [task EXCEPT ![i] = s]
    BY DEF Pipeline!TaskStep, Pipeline!StartTask, Pipeline!EndTask, Pipeline!research
  <1>3. \A j \in DOMAIN task' : task'[j] \in {"queued", "running", "ok", "failed"}
    BY <1>1, <1>2 DEF Pipeline!TypeOK
  <1>4. Pipeline!ToSet(finished') = Pipeline!ToSet(finished)
    BY <1>2
  <1>5. Pipeline!TypeOK'
    BY <1>1, <1>2, <1>3, <1>4 DEF Pipeline!TypeOK, Pipeline!None
  <1>6. ThreadsOK' /\ ResearchOK' /\ ViewsOK' /\ ReportOK'
    BY <1>1, <1>2, <1>4 DEF ThreadsOK, ResearchOK, ViewsOK, ReportOK
  <1>7. Pipeline!CompletionOrderIsInvisible' /\ Pipeline!NoThreadOutlivesNode'
    BY <1>2 DEF GraphInv, Pipeline!CompletionOrderIsInvisible, Pipeline!NoThreadOutlivesNode
  <1> QED
    BY <1>5, <1>6, <1>7 DEF GraphInv

(* The views are asked in the order of the configuration. *)
LEMMA ConfigOrder ==
  ASSUME \A t \in Pipeline!Tech : t \in Pipeline!ToSet(finished)
  PROVE  Pipeline!InConfigOrder = TechOrder
  <1>1. \A i \in 1 .. Len(TechOrder) : TechOrder[i] \in Pipeline!ToSet(finished)
    BY PipelineConstants, ElementOfSeq
  <1> QED
    BY <1>1, PipelineConstants, InOrderOf DEF Pipeline!InConfigOrder

(* All gaps are decided. *)
LEMMA GapsOfReport ==
  ASSUME NEW G \in SUBSET (Pipeline!Tech \cup Pipeline!View)
  PROVE  /\ Pipeline!FlattenSeq(Pipeline!Batches(Pipeline!GapRecords(G))) = Pipeline!GapRecords(G)
         /\ Pipeline!ToSet(Pipeline!GapRecords(G)) \subseteq G
  <1> DEFINE X == Pipeline!Tech \cup Pipeline!View
             order == TechOrder \o ViewOrder
  <1>1. order \in Seq(X)
    <2>1. TechOrder \in Seq(X) /\ ViewOrder \in Seq(X)
      BY PipelineConstants, SeqMonotonic
    <2> QED
      BY <2>1, ConcatProperties
  <1> HIDE DEF X, order
  <1>2. /\ Pipeline!InOrder(order, G) \in Seq(X)
        /\ \A i \in 1 .. Len(Pipeline!InOrder(order, G)) : Pipeline!InOrder(order, G)[i] \in G
    BY <1>1, InOrderOf
  <1>3. Pipeline!GapRecords(G) = Pipeline!InOrder(order, G)
    BY DEF Pipeline!GapRecords, order
  <1>4. Pipeline!ToSet(Pipeline!GapRecords(G)) \subseteq G
    <2>1. DOMAIN Pipeline!InOrder(order, G) = 1 .. Len(Pipeline!InOrder(order, G))
      BY <1>2, LenProperties
    <2> QED
      BY <1>2, <1>3, <2>1 DEF Pipeline!ToSet
  <1> QED
    BY <1>2, <1>3, <1>4, BatchesJoin

LEMMA NodeInv ==
  ASSUME GraphInv, Pipeline!NodeStep
  PROVE  GraphInv'
  <1>1. /\ Pipeline!TypeOK /\ ThreadsOK /\ ResearchOK /\ ViewsOK /\ ReportOK
        /\ Pipeline!CompletionOrderIsInvisible /\ Pipeline!NoThreadOutlivesNode
    BY DEF GraphInv
  <1> USE DEF Pipeline!research, Pipeline!report
  <1>2. /\ UNCHANGED <<rpc, attempt, searched, searcher, finished, vpc, result>>
        /\ Pipeline!ToSet(finished') = Pipeline!ToSet(finished) /\ ThreadsOK'
    <2>1. UNCHANGED <<rpc, attempt, searched, searcher, finished, vpc, result>>
      BY DEF Pipeline!NodeStep, Pipeline!PlanQueries, Pipeline!Research, Pipeline!Join,
             Pipeline!Stop, Pipeline!Synthesize, Pipeline!Evaluate, Pipeline!Render
    <2> QED
      BY <1>1, <2>1 DEF ThreadsOK
  <1>3. CASE Pipeline!PlanQueries \/ Pipeline!Stop
    <2>1. /\ UNCHANGED <<tech_assessment, gaps, task, decisions, evaluation>>
          /\ \/ node = "plan" /\ node' = "research" /\ run_status' = run_status
             \/ node = "plan" /\ node' = "ended" /\ run_status' = "incomplete"
             \/ /\ node = "views" /\ node' = "stopped" /\ run_status' = run_status
                /\ \A v \in Pipeline!View : vpc[v] \notin {"assess", "reassess"}
      BY <1>3 DEF Pipeline!PlanQueries, Pipeline!Stop
    <2>2. Pipeline!TypeOK'
      BY <1>1, <1>2, <2>1 DEF Pipeline!TypeOK, Pipeline!None
    <2>3. ResearchOK' /\ ViewsOK' /\ ReportOK'
      BY <1>1, <1>2, <2>1 DEF ResearchOK, ViewsOK, ReportOK
    <2>4. Pipeline!CompletionOrderIsInvisible' /\ Pipeline!NoThreadOutlivesNode'
      BY <1>1, <1>2, <2>1 DEF Pipeline!CompletionOrderIsInvisible, Pipeline!NoThreadOutlivesNode,
             ResearchOK, ReportOK, Pipeline!Working
    <2> QED
      BY <1>2, <2>2, <2>3, <2>4 DEF GraphInv
  <1>4. CASE Pipeline!Research
    <2>1. /\ node = "research" /\ UNCHANGED <<gaps, task, decisions, evaluation>>
          /\ \A t \in Pipeline!Tech : rpc[t] = "ended"
          /\ tech_assessment' = Pipeline!InConfigOrder
          /\ \/ node' = "ended" /\ run_status' = "incomplete"
             \/ /\ node' = "views" /\ run_status' = "research_ok"
                /\ \A t \in Pipeline!Tech : result[t] # "failed"
      BY <1>4 DEF Pipeline!Research
    <2>2. tech_assessment' = TechOrder
      BY <1>1, <2>1, ConfigOrder DEF ThreadsOK
    <2>3. Pipeline!ToSet(tech_assessment') \subseteq Pipeline!Tech
      BY <2>2 DEF Pipeline!Tech
    <2>4. Pipeline!TypeOK'
      BY <1>1, <1>2, <2>1, <2>3 DEF Pipeline!TypeOK, Pipeline!None
    <2>5. ResearchOK' /\ ViewsOK' /\ ReportOK'
      BY <1>1, <1>2, <2>1 DEF ThreadsOK, ResearchOK, ViewsOK, ReportOK
    <2>6. Pipeline!CompletionOrderIsInvisible' /\ Pipeline!NoThreadOutlivesNode'
      BY <1>1, <1>2, <2>1, <2>2 DEF Pipeline!CompletionOrderIsInvisible,
             Pipeline!NoThreadOutlivesNode, ViewsOK, ReportOK, Pipeline!Working
    <2> QED
      BY <1>2, <2>4, <2>5, <2>6 DEF GraphInv
  <1>5. CASE Pipeline!Join
    <2>1. /\ node = "views" /\ UNCHANGED <<tech_assessment, decisions, evaluation>>
          /\ \A v \in Pipeline!View : vpc[v] = "ended"
          /\ \/ /\ run_status' = "incomplete" /\ node' = "ended" /\ UNCHANGED <<gaps, task>>
             \/ /\ run_status' = "joined" /\ node' = "report"
                /\ \A x \in Pipeline!Tech \cup Pipeline!View : result[x] # "failed"
                /\ gaps' \in SUBSET (Pipeline!Tech \cup Pipeline!View)
                /\ \E n : task' = [i \in 0 .. n |-> "queued"]
      BY <1>5 DEF Pipeline!Join, Pipeline!JoinedStatus
    <2>2. /\ run_status' \in {"incomplete", "joined"} /\ node' \in {"ended", "report"}
          /\ gaps' \subseteq Pipeline!Tech \cup Pipeline!View
          /\ \A i \in DOMAIN task' : task'[i] \in {"queued", "running", "ok", "failed"}
          /\ decisions' = <<>> /\ Pipeline!ToSet(decisions') \subseteq gaps'
      <3>1. run_status' \in {"incomplete", "joined"} /\ node' \in {"ended", "report"}
        BY <2>1
      <3>2. gaps' \subseteq Pipeline!Tech \cup Pipeline!View
        <4>1. gaps \subseteq Pipeline!Tech \cup Pipeline!View
          BY <1>1 DEF Pipeline!TypeOK
        <4>2. gaps' = gaps \/ gaps' \in SUBSET (Pipeline!Tech \cup Pipeline!View)
          BY <2>1
        <4>3. CASE gaps' = gaps
          BY <4>1, <4>3
        <4>4. CASE gaps' \in SUBSET (Pipeline!Tech \cup Pipeline!View)
          BY <4>4
        <4> QED
          BY <4>2, <4>3, <4>4
      <3>3. ASSUME task' = task
            PROVE  \A i \in DOMAIN task' : task'[i] \in {"queued", "running", "ok", "failed"}
        BY <1>1, <3>3 DEF Pipeline!TypeOK
      <3>4. ASSUME NEW n, task' = [i \in 0 .. n |-> "queued"]
            PROVE  \A i \in DOMAIN task' : task'[i] \in {"queued", "running", "ok", "failed"}
        BY <3>4
      <3>5. \A i \in DOMAIN task' : task'[i] \in {"queued", "running", "ok", "failed"}
        BY <2>1, <3>3, <3>4
      <3>6. decisions' = <<>>
        BY <1>1, <2>1 DEF ReportOK
      <3>7. Pipeline!ToSet(<<>>) = {}
        BY DEF Pipeline!ToSet
      <3> QED
        BY <3>1, <3>2, <3>5, <3>6, <3>7
    <2>3. Pipeline!TypeOK'
      BY <1>1, <1>2, <2>1, <2>2 DEF Pipeline!TypeOK, Pipeline!None
    <2>4. \A v \in Pipeline!View : result[v] \in {"ok", "insufficient", "failed"}
      BY <1>1, <2>1 DEF Pipeline!TypeOK, Pipeline!None, ViewsOK
    <2>5. ResearchOK' /\ ViewsOK' /\ ReportOK'
      BY <1>1, <1>2, <2>1, <2>2, <2>4 DEF ResearchOK, ViewsOK, ReportOK
    <2>6. Pipeline!CompletionOrderIsInvisible' /\ Pipeline!NoThreadOutlivesNode'
      BY <1>1, <1>2, <2>1 DEF Pipeline!CompletionOrderIsInvisible, Pipeline!NoThreadOutlivesNode,
             ReportOK
    <2> QED
      BY <1>2, <2>3, <2>5, <2>6 DEF GraphInv
  <1>6. CASE Pipeline!Synthesize
    <2>1. /\ node = "report" /\ UNCHANGED <<tech_assessment, gaps, task, evaluation>>
          /\ \A i \in DOMAIN task : task[i] \in {"ok", "failed"}
          /\ \/ /\ run_status' = "report_drafted" /\ node' = "evaluate"
                /\ \A i \in DOMAIN task : task[i] = "ok"
                /\ decisions' = Pipeline!FlattenSeq(Pipeline!Batches(Pipeline!GapRecords(gaps)))
             \/ run_status' = "incomplete" /\ node' = "ended" /\ decisions' = decisions
      BY <1>6 DEF Pipeline!Synthesize, Pipeline!TasksEnded
    <2>2. gaps \in SUBSET (Pipeline!Tech \cup Pipeline!View)
      BY <1>1 DEF Pipeline!TypeOK
    <2>3. /\ decisions' = decisions \/ decisions' = Pipeline!GapRecords(gaps)
          /\ node' = "evaluate" => decisions' = Pipeline!GapRecords(gaps)
          /\ Pipeline!ToSet(decisions') \subseteq gaps'
      BY <1>1, <2>1, <2>2, GapsOfReport DEF Pipeline!TypeOK
    <2>4. Pipeline!GapRecords(gaps') = Pipeline!GapRecords(gaps)
      BY <2>1
    <2>5. Pipeline!TypeOK'
      BY <1>1, <1>2, <2>1, <2>3 DEF Pipeline!TypeOK, Pipeline!None
    <2>6. ResearchOK' /\ ViewsOK'
      BY <1>1, <1>2, <2>1 DEF ResearchOK, ViewsOK
    <2>7. ReportOK'
      BY <1>1, <1>2, <2>1, <2>3, <2>4 DEF ReportOK
    <2>8. Pipeline!CompletionOrderIsInvisible' /\ Pipeline!NoThreadOutlivesNode'
      BY <1>1, <1>2, <2>1 DEF Pipeline!CompletionOrderIsInvisible, Pipeline!NoThreadOutlivesNode
    <2> QED
      BY <1>2, <2>5, <2>6, <2>7, <2>8 DEF GraphInv
  <1>7. CASE Pipeline!Evaluate \/ Pipeline!Render
    <2>1. /\ UNCHANGED <<tech_assessment, gaps, task, decisions>>
          /\ \/ /\ node = "evaluate" /\ evaluation' \in {"passed", "revision", "failed"}
                /\ \/ node' = "render" /\ run_status' = "validated" /\ evaluation' = "passed"
                   \/ node' = "ended" /\ run_status' \in {"revision_requested", "incomplete"}
             \/ /\ node = "render" /\ node' = "ended" /\ evaluation' = evaluation
                /\ run_status' \in {"human_review_pending", "incomplete"}
      BY <1>7 DEF Pipeline!Evaluate, Pipeline!Render, Pipeline!StatusOf
    <2>2. Pipeline!GapRecords(gaps') = Pipeline!GapRecords(gaps)
      BY <2>1
    <2>3. Pipeline!TypeOK'
      BY <1>1, <1>2, <2>1 DEF Pipeline!TypeOK, Pipeline!None
    <2>4. ResearchOK' /\ ViewsOK'
      BY <1>1, <1>2, <2>1 DEF ResearchOK, ViewsOK
    <2>5. ReportOK'
      BY <1>1, <1>2, <2>1, <2>2 DEF ReportOK
    <2>6. Pipeline!CompletionOrderIsInvisible' /\ Pipeline!NoThreadOutlivesNode'
      BY <1>1, <1>2, <2>1 DEF Pipeline!CompletionOrderIsInvisible, Pipeline!NoThreadOutlivesNode
    <2> QED
      BY <1>2, <2>3, <2>4, <2>5, <2>6 DEF GraphInv
  <1> QED
    BY <1>3, <1>4, <1>5, <1>6, <1>7 DEF Pipeline!NodeStep

(* Every step preserves it.                                                *)
LEMMA GraphStep ==
  ASSUME GraphInv, [Pipeline!Next]_(Pipeline!vars)
  PROVE  GraphInv'
  <1>1. CASE UNCHANGED Pipeline!vars
    <2>1. UNCHANGED <<node, run_status, rpc, attempt, searched, searcher, finished, tech_assessment,
                      vpc, result, gaps, task, decisions, evaluation>>
      BY <1>1 DEF Pipeline!vars
    <2>2. Pipeline!TypeOK'
      BY <2>1 DEF GraphInv, Pipeline!TypeOK
    <2>3. ThreadsOK' /\ ResearchOK' /\ ViewsOK'
      BY <2>1 DEF GraphInv, ThreadsOK, ResearchOK, ViewsOK
    <2>4. ReportOK'
      <3>1. Pipeline!GapRecords(gaps') = Pipeline!GapRecords(gaps)
        BY <2>1
      <3> QED
        BY <2>1, <3>1 DEF GraphInv, ReportOK
    <2> QED
      BY <2>1, <2>2, <2>3, <2>4
         DEF GraphInv, Pipeline!CompletionOrderIsInvisible, Pipeline!NoThreadOutlivesNode
  <1> QED
    BY <1>1, ThreadInv, ViewInv, TaskInv, NodeInv DEF Pipeline!Next

LEMMA GraphInit ==
  ASSUME Pipeline!Init
  PROVE  GraphInv
  <1> USE DEF Pipeline!Init, Pipeline!None
  <1>1. Pipeline!ToSet(<<>>) = {} /\ DOMAIN task = {}
    BY DEF Pipeline!ToSet
  <1>2. Pipeline!TypeOK
    <2>1. <<>> \in Seq(Pipeline!Tech) /\ Len(<<>>) = 0
      BY EmptySeq
    <2>2. Pipeline!Cardinality({}) = 0
      <3>1. Pipeline!Cardinality({}) = Cardinality({})
        BY DEF Pipeline!Cardinality, Cardinality
      <3> QED
        BY <3>1, FS_EmptySet
    <2>3. finished \in Seq(Pipeline!Tech) /\ Len(finished) = Pipeline!Cardinality(Pipeline!ToSet(finished))
      BY <1>1, <2>1, <2>2
    <2>4. Pipeline!ToSet(tech_assessment) = {} /\ Pipeline!ToSet(decisions) = {}
      BY <1>1
    <2>5. \A i \in DOMAIN task : task[i] \in {"queued", "running", "ok", "failed"}
      BY <1>1
    <2>6. /\ attempt \in [Pipeline!Tech -> 0 .. 1] /\ searched \in [Pipeline!Tech -> 0 .. Searches]
      BY PipelineConstants
    <2>7. /\ rpc \in [Pipeline!Tech -> Pipeline!Working \cup {"queued", "ended"}]
          /\ vpc \in [Pipeline!View -> {"queued", "assess", "reassess", "ended", "raised"}]
          /\ result \in [Pipeline!Tech \cup Pipeline!View -> {"none", "ok", "insufficient", "failed"}]
      OBVIOUS
    <2> QED
      BY <2>3, <2>4, <2>5, <2>6, <2>7 DEF Pipeline!TypeOK
  <1>3. ThreadsOK /\ ResearchOK /\ ViewsOK /\ ReportOK
    BY <1>1, PipelineConstants DEF ThreadsOK, ResearchOK, ViewsOK, ReportOK
  <1> QED
    BY <1>1, <1>2, <1>3
       DEF GraphInv, Pipeline!CompletionOrderIsInvisible, Pipeline!NoThreadOutlivesNode,
           Pipeline!Working

(* A step of this part is one of the graph.                                *)
LEMMA PipelinePart ==
  ASSUME [Next]_all, part' = "pipeline"
  PROVE  part = "pipeline" /\ [Pipeline!Next]_(Pipeline!vars)
  BY DEF Next, all, Pipeline!vars, StructuredStep, CoordinatorStep, UnitStep, ThreadStep,
         PipelineStep, TracedStep, SenderStep

(* However the threads of a node are scheduled and whichever of them fail: *)
(* the synthesis sees every branch ended and none failed, no thread is at  *)
(* work outside of its node, what the views are asked does not depend on   *)
(* the order in which the technologies complete, the report decides every  *)
(* gap once, in order, and a run that waits for its human review has       *)
(* earned it (rag/graph.py).                                               *)
THEOREM GraphCorrect == Spec => []GraphIsSound
  <1> DEFINE Inv == part = "pipeline" => GraphInv
  <1>1. Init => Inv
    BY GraphInit DEF Init
  <1>2. Inv /\ [Next]_all => Inv'
    BY PipelinePart, GraphStep
  <1>3. Inv => GraphIsSound
    BY GraphInvSuffices DEF GraphIsSound
  <1> QED
    BY <1>1, <1>2, <1>3, PTL DEF Spec

===============================================================================
