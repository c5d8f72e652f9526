--------------------------------- MODULE Writer -------------------------------
(***************************************************************************)
(* What a report is made of: the writer of rag/writer.py between the       *)
(* research it is given and the verdicts it is sent back with, as the      *)
(* Supervisor of a team run calls it.                                      *)
(*                                                                         *)
(* Module Supervisor says which request follows which, and what a crash    *)
(* does; here the requests have contents.  A view's result has gaps, whose *)
(* identifiers are their positions, one claim that is sourced or unknown,  *)
(* and its copy of a chunk that all views share.  A rework of a report     *)
(* keeps the gap decisions of the report before it.                        *)
(***************************************************************************)
EXTENDS Integers, FiniteSets, SequencesExt

CONSTANTS
    View,           \* the research views
    First,          \* "research", which the other views read
    MaxGaps,        \* gaps of one result
    BatchSize,      \* gaps reviewed by one call
    MaxResearch,    \* attempts of a view
    MaxWriter       \* attempts of the writer

WriterAssumption ==
    /\ First \in View /\ "writer" \notin View /\ IsFiniteSet(View)
    /\ MaxGaps \in Nat /\ BatchSize \in Nat \ {0}
    /\ MaxResearch \in Nat \ {0} /\ MaxWriter \in Nat \ {0}

Role == View \cup {"writer"}

None == [n |-> 0]

VARIABLES
    results,    \* the current result of each view, or None
    report,     \* the current report, or None
    verdict,    \* of the current report: "none", "passed", "revise"
    feedback,   \* roles that have something to answer
    repairs,    \* roles the verdict that is being answered names
    attempts,   \* of the views and the writer
    status,     \* "running", or how the run has ended
    told,       \* history: whether the last writer was given its repairs
    owed        \* history: roles a verdict named that have not worked since

vars == <<results, report, verdict, feedback, repairs, attempts, status, told, owed>>

Results == [n : 1 .. MaxResearch, ok : BOOLEAN, gaps : 0 .. MaxGaps,
            kind : {"sourced", "unknown"}, copy : {1, 2}]

Current(v) == results[v] # None

(* merge_registry: views that hold a chunk hold the same one. *)
Agree(rs) == \A r, q \in rs \ {None} : r.copy = q.copy

-------------------------------------------------------------------------------
(* Supervisor.choices *)

Ready == {v \in View : Current(v) /\ results[v].ok}

Targets ==
    IF First \notin Ready \/ First \in feedback THEN {First}
    ELSE IF feedback \cap View # {} THEN feedback \cap View
    ELSE View \ Ready

Allowed ==
    IF status # "running" \/ verdict = "passed" \/ (report # None /\ verdict = "none") THEN {}
    ELSE IF Targets # {} THEN Targets
    ELSE IF "writer" \in feedback THEN {"writer"}
    ELSE {"writer"} \cup {v \in View : attempts[v] < MaxResearch}

(* "limit_exceeded": of any view that is to work, or of the writer. *)
Exhausted ==
    \/ \E v \in Targets : attempts[v] >= MaxResearch
    \/ Targets = {} /\ attempts["writer"] >= MaxWriter

Works(role) ==
    /\ role \in Allowed
    /\ ~Exhausted
    /\ attempts' = [attempts EXCEPT ![role] = @ + 1]
    /\ owed' = owed \ {role}

Stop ==
    /\ Allowed # {}
    /\ Exhausted
    /\ status' = "limit_exceeded"
    /\ UNCHANGED <<results, report, verdict, feedback, repairs, attempts, told, owed>>

-------------------------------------------------------------------------------
(* Supervisor.worker: a result replaces the one before it, and what was    *)
(* made of it.                                                             *)

Refresh(v, r) ==
    /\ results' = [u \in View |-> IF u = v THEN r ELSE IF v = First THEN None ELSE results[u]]
    /\ report' = None
    /\ feedback' = IF r.ok THEN feedback \ {v} ELSE feedback \cup {v}

(* Variant: a view that is researched again is not compared again. *)
AdmitsOnce(v, r) ==
    Current(v) \/ Agree({r} \cup (IF v = First THEN {} ELSE {results[u] : u \in View \ {v}}))

(* A result that disagrees with one of those that remain, of any view, is  *)
(* no result.                                                              *)
Admits(v, r) ==
    Agree({r} \cup (IF v = First THEN {} ELSE {results[u] : u \in View \ {v}}))

Research(v) ==
    /\ Works(v)
    /\ \E r \in Results :
          /\ r.n = attempts'[v]
          /\ IF Admits(v, r)
             THEN /\ Refresh(v, r)
                  /\ verdict' = "none"
                  /\ UNCHANGED status
             ELSE status' = "artifact_mismatch" /\ UNCHANGED <<results, report, verdict, feedback>>
    /\ UNCHANGED <<repairs, told>>

-------------------------------------------------------------------------------
(* write_report *)

(* The gap records of the joined results, in order. *)
GapRecords == SetToSeq({g \in View \X (1 .. MaxGaps) : g[2] <= results[g[1]].gaps})

Basis == [v \in View |-> results[v].n]

Sourced == {v \in View : results[v].kind = "sourced"}

(* gap_decision_errors: each gap is decided once, and resolved by sourced  *)
(* claims only.                                                            *)
GapsAreDecided(decisions, gaps) ==
    /\ {d.gap : d \in decisions} = gaps
    /\ Cardinality(decisions) = Cardinality(gaps)
    /\ \A d \in decisions : d.resolved => d.claims \cap Sourced # {}

(* What a validated review of some gaps may say. *)
Reviews(gaps) ==
    {D \in SUBSET {[gap |-> g, resolved |-> b, claims |-> IF b THEN Sourced ELSE {}, basis |-> Basis] :
                      g \in gaps, b \in BOOLEAN} : GapsAreDecided(D, gaps)}

(* range(0, len, 5): the last batch may be a short one. *)
Batches(gaps) ==
    LET Least(a, b) == IF a < b THEN a ELSE b
    IN  {Range(SubSeq(gaps, k * BatchSize + 1, Least((k + 1) * BatchSize, Len(gaps)))) :
            k \in {j \in 0 .. Len(gaps) : j * BatchSize < Len(gaps)}}

(* A revision keeps the decisions; a first report reviews every batch.     *)
(* Since the batches share no gap, the reviews of all are put together     *)
(* from those of each.                                                     *)
Decisions ==
    IF report # None THEN {report.decisions}
    ELSE Reviews(UNION Batches(GapRecords))

(* Variant: what a verdict asks of the writer goes to a revision only. *)
FeedbackOfRevision == "writer" \in feedback /\ report # None

(* Supervisor._feedback: the writer's repairs, whether or not the report   *)
(* that was found wanting is still there.                                  *)
Feedback == "writer" \in feedback /\ "writer" \in repairs

Writes(d) ==
    /\ report' = [n |-> attempts'["writer"], basis |-> Basis, decisions |-> d]
    /\ verdict' = "none"
    /\ feedback' = {}
    /\ repairs' = {}
    /\ UNCHANGED status

Fails(reason) ==
    /\ status' = reason
    /\ UNCHANGED <<report, verdict, feedback, repairs>>

(* The registries are merged, the draft written, the gaps decided and the  *)
(* whole checked again; each may end the run.                              *)
Write ==
    /\ Works("writer")
    /\ told' = Feedback
    /\ IF Agree(Range(results))
       THEN \/ Fails("draft_failed")
            \/ \E d \in Decisions :
                  IF GapsAreDecided(d, Range(GapRecords)) THEN Writes(d) ELSE Fails("report_contract")
       ELSE Fails("artifact_mismatch")
    /\ UNCHANGED results

-------------------------------------------------------------------------------

(* The evaluator's verdict: to revise names at least one role. *)
Evaluate ==
    /\ status = "running"
    /\ report # None
    /\ verdict = "none"
    /\ \/ verdict' = "passed" /\ UNCHANGED <<feedback, repairs, owed>>
       \/ \E roles \in SUBSET Role \ {{}} :
             /\ verdict' = "revise"
             /\ feedback' = roles
             /\ repairs' = roles
             /\ owed' = roles
    /\ UNCHANGED <<results, report, attempts, status, told>>

Publish ==
    /\ status = "running"
    /\ verdict = "passed"
    /\ status' = "completed"
    /\ UNCHANGED <<results, report, verdict, feedback, repairs, attempts, told, owed>>

Init ==
    /\ results = [v \in View |-> None]
    /\ report = None
    /\ verdict = "none"
    /\ feedback = {}
    /\ repairs = {}
    /\ attempts = [r \in Role |-> 0]
    /\ status = "running"
    /\ told = FALSE
    /\ owed = {}

Next ==
    \/ \E v \in View : Research(v)
    \/ Write \/ Evaluate \/ Publish \/ Stop

Spec == Init /\ [][Next]_vars

-------------------------------------------------------------------------------
(* Properties. *)

(* Every variable has its type. *)
TypeOK ==
    /\ results \in [View -> Results \cup {None}]
    /\ report = None \/ report.n \in 1 .. MaxWriter
    /\ verdict \in {"none", "passed", "revise"}
    /\ feedback \subseteq Role
    /\ repairs \subseteq Role
    /\ attempts \in [Role -> Nat]
    /\ \A v \in View : attempts[v] <= MaxResearch
    /\ attempts["writer"] <= MaxWriter
    /\ status \in {"running", "completed", "limit_exceeded", "artifact_mismatch",
                   "draft_failed", "report_contract"}
    /\ told \in BOOLEAN
    /\ owed \subseteq Role

(* Gaps are known by their position, so a decision of an earlier report    *)
(* would pass for one about the gap that has taken its place: a published  *)
(* report has no decision about research that was replaced since.          *)
DecisionsAreCurrent ==
    status = "completed" =>
        /\ report.basis = Basis
        /\ \A d \in report.decisions : d.basis = Basis
        /\ GapsAreDecided(report.decisions, Range(GapRecords))

(* The last check of the writer never rejects a report it has paid for:    *)
(* the batches cover the gaps, and decisions that are kept still fit.      *)
PaidReportIsSound == status # "report_contract"

(* Nor does it find, after four views were paid, that they hold different  *)
(* copies of a chunk: a result is compared as it comes in with all those   *)
(* that stay, so any two in use agree.  A disagreement ends the run before *)
(* it replaces a result, and what was a report of agreeing results stays.  *)
RegistriesAgree ==
    /\ \A u, v \in View : Current(u) /\ Current(v) => results[u].copy = results[v].copy
    /\ status = "artifact_mismatch" /\ report # None => report.basis = Basis

(* A verdict that asks for repairs is answered in full by the next report: *)
(* every view it names was researched since, and the writer, when it is    *)
(* named, was told so, also when a view it named has taken the report away.*)
AnswersRepairs ==
    report'.n # 0 /\ report' # report =>
        /\ owed \cap View = {}
        /\ "writer" \in owed => told'

RepairsAreAnswered == [][AnswersRepairs]_vars

(* What the writer delivers, and what the Supervisor publishes of it.      *)
ReportIsSound == TypeOK /\ DecisionsAreCurrent /\ PaidReportIsSound /\ RegistriesAgree

===============================================================================
