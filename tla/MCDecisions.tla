----------------------------- MODULE MCDecisions ------------------------------
(* What is concluded from evidence: the reassessments of a followup view,  *)
(* the writer, the evaluation of a report, and a retrieval experiment.  In *)
(* the configuration, two facets include one for counter-evidence; two     *)
(* views have up to two gaps each, reviewed two at a time (no batch, a     *)
(* short one, a whole one, and one of each), with three researches of a    *)
(* view and two reports; and the experiment has six commands.              *)
EXTENDS Naturals, Functions

CONSTANTS
    Facet, Counter, Paper, Web,                             \* Followup
    View, Claim, RoleOf, Gap, ViewOf,
    Artifact, Finding, Answer,                              \* Evaluation
    First, MaxGaps, BatchSize, MaxResearch, MaxWriter,      \* Writer
    Order, Operational, Model, ModelOf,
    Reference, Baseline, Outcome, MaxCommands               \* Experiment

VARIABLES
    part, previous, inherited, phase, lookup, facets, base, assessment,
    outcome, artifact, pc, draft, result, results, report, verdict,
    feedback, repairs, attempts, status, told, owed, inputs, protocol,
    manifest, chunks, vectors, selection, lock, decision, command, split,
    models, todo, item, commands

all == <<part, previous, inherited, phase, lookup, facets, base, assessment,
          outcome, artifact, pc, draft, result, results, report, verdict,
          feedback, repairs, attempts, status, told, owed, inputs, protocol,
          manifest, chunks, vectors, selection, lock, decision, command,
          split, models, todo, item, commands>>

(* Evaluation: reports that leave out a view, cite badly or are laid out   *)
(* badly (a claim in the wrong section, a section without one of the       *)
(* technologies, a gap decided on no evidence, a summary too long), and a  *)
(* Judge with up to two findings, of any criterion, that name claims of    *)
(* several roles, a role, missing views or nothing.                        *)
MCRoleOf == [c \in Claim |->
    CASE c = "r1" -> "research" [] c = "m1" -> "market" [] OTHER -> "writer"]
MCViewOf == [g \in Gap |-> IF g = "gap-r" THEN "research" ELSE "market"]
LayoutError(criterion, claims, names) ==
    [criterion |-> criterion, claims |-> claims, names |-> names]
MCLayout ==
    LET misplaced  == LayoutError("coverage", {"r1"}, {"research"})
        onesided   == LayoutError("coverage", {}, {"market"})
        unfounded  == LayoutError("groundedness", {}, {})
        summary    == LayoutError("coverage", {}, {})
    IN  {{}, {misplaced}, {onesided}, {unfounded}, {summary, misplaced}}
MCArtifact ==
    {a \in [intact : BOOLEAN, used : {Claim, {"r1", "s1"}}, body : {Claim, {"r1", "s1"}, {"s1"}},
            faulty : {{}, {"r1"}, {"r1", "m1"}}, layout : MCLayout] :
        a.body \subseteq a.used /\ \A e \in a.layout : e.claims \subseteq a.body}
MCFinding ==
    [criterion : {"groundedness", "neutrality", "coverage"}, target : {"market", "writer", "none"},
     claims : {{}, {"r1"}, {"r1", "m1"}, {"s1"}}, missing : {{}, {"market"}, View}, issue : {"judge"}]
MCAnswer ==
    {{}} \cup {{f} : f \in MCFinding}
         \cup {{f, g} : f \in {h \in MCFinding : h.target = "none" /\ h.missing = {}},
                        g \in {h \in MCFinding : h.target = "market" /\ h.criterion # "coverage"}}

(* Experiment: the model in use with its common configuration and the      *)
(* baseline, and a rival model with a common configuration and its own.    *)
MCOrder == <<"e5-common", "e5-380-50", "m3-common", "m3-380-50">>
MCModelOf == [c \in Range(MCOrder) |->
    IF c \in {"m3-common", "m3-380-50"} THEN "m3" ELSE "e5"]
Found(harm, complete, conditions) ==
    [harm |-> harm, complete |-> complete, conditions |-> conditions]
MCOutcome == [c \in Range(MCOrder) |->
    CASE c = "e5-380-50" -> {Found(FALSE, 1, 1)}
      [] c = "m3-380-50" -> {Found(FALSE, 1, 1), Found(FALSE, 2, 0), Found(FALSE, 2, 2), Found(TRUE, 2, 2)}
      [] c = "m3-common" -> {Found(FALSE, 1, 1), Found(TRUE, 1, 1)}
      [] c = "e5-common" -> {Found(FALSE, 1, 1)}]

-------------------------------------------------------------------------------

Followup == INSTANCE Followup

ASSUME FollowupAssumption ==
    Followup!CounterAssumption /\ Followup!ChunkAssumption

BesideFollowup == <<artifact, pc, draft, result, results, report, verdict,
                    feedback, repairs, attempts, status, told, owed, inputs,
                    protocol, manifest, chunks, vectors, selection, lock,
                    decision, command, split, models, todo, item, commands>>

Evaluation == INSTANCE Evaluation

ASSUME EvaluationAssumption ==
    Evaluation!RoleAssumption /\ Evaluation!FindingAssumption /\ Evaluation!ArtifactAssumption

BesideEvaluation == <<previous, inherited, phase, lookup, facets, base,
                      assessment, outcome, results, report, verdict, feedback,
                      repairs, attempts, status, told, owed, inputs, protocol,
                      manifest, chunks, vectors, selection, lock, decision,
                      command, split, models, todo, item, commands>>

Writer == INSTANCE Writer

ASSUME WriterAssumption == Writer!WriterAssumption

BesideWriter == <<previous, inherited, phase, lookup, facets, base,
                  assessment, outcome, artifact, pc, draft, result, inputs,
                  protocol, manifest, chunks, vectors, selection, lock,
                  decision, command, split, models, todo, item, commands>>

Experiment == INSTANCE Experiment

ASSUME ExperimentAssumption == Experiment!ExperimentAssumption

BesideExperiment == <<previous, inherited, phase, lookup, facets, base,
                      assessment, outcome, artifact, draft, results, report,
                      verdict, feedback, repairs, attempts, status, told,
                      owed>>

-------------------------------------------------------------------------------

(* The parts share no state: a behaviour is one of one part, beside which  *)
(* the variables of the others are unused.                                 *)
Unused == "unused"

Init ==
    \/ /\ part = "followup" /\ Followup!Init
       /\ artifact = Unused /\ pc = Unused /\ draft = Unused
       /\ result = Unused /\ results = Unused /\ report = Unused
       /\ verdict = Unused /\ feedback = Unused /\ repairs = Unused
       /\ attempts = Unused /\ status = Unused /\ told = Unused
       /\ owed = Unused /\ inputs = Unused /\ protocol = Unused
       /\ manifest = Unused /\ chunks = Unused /\ vectors = Unused
       /\ selection = Unused /\ lock = Unused /\ decision = Unused
       /\ command = Unused /\ split = Unused /\ models = Unused
       /\ todo = Unused /\ item = Unused /\ commands = Unused
    \/ /\ part = "evaluation" /\ Evaluation!Init
       /\ previous = Unused /\ inherited = Unused /\ phase = Unused
       /\ lookup = Unused /\ facets = Unused /\ base = Unused
       /\ assessment = Unused /\ outcome = Unused /\ results = Unused
       /\ report = Unused /\ verdict = Unused /\ feedback = Unused
       /\ repairs = Unused /\ attempts = Unused /\ status = Unused
       /\ told = Unused /\ owed = Unused /\ inputs = Unused
       /\ protocol = Unused /\ manifest = Unused /\ chunks = Unused
       /\ vectors = Unused /\ selection = Unused /\ lock = Unused
       /\ decision = Unused /\ command = Unused /\ split = Unused
       /\ models = Unused /\ todo = Unused /\ item = Unused
       /\ commands = Unused
    \/ /\ part = "writer" /\ Writer!Init
       /\ previous = Unused /\ inherited = Unused /\ phase = Unused
       /\ lookup = Unused /\ facets = Unused /\ base = Unused
       /\ assessment = Unused /\ outcome = Unused /\ artifact = Unused
       /\ pc = Unused /\ draft = Unused /\ result = Unused
       /\ inputs = Unused /\ protocol = Unused /\ manifest = Unused
       /\ chunks = Unused /\ vectors = Unused /\ selection = Unused
       /\ lock = Unused /\ decision = Unused /\ command = Unused
       /\ split = Unused /\ models = Unused /\ todo = Unused
       /\ item = Unused /\ commands = Unused
    \/ /\ part = "experiment" /\ Experiment!Init
       /\ previous = Unused /\ inherited = Unused /\ phase = Unused
       /\ lookup = Unused /\ facets = Unused /\ base = Unused
       /\ assessment = Unused /\ outcome = Unused /\ artifact = Unused
       /\ draft = Unused /\ results = Unused /\ report = Unused
       /\ verdict = Unused /\ feedback = Unused /\ repairs = Unused
       /\ attempts = Unused /\ status = Unused /\ told = Unused
       /\ owed = Unused

Next ==
    \/ part = "followup" /\ Followup!Next /\ UNCHANGED <<part, BesideFollowup>>
    \/ part = "evaluation" /\ Evaluation!Next /\ UNCHANGED <<part, BesideEvaluation>>
    \/ part = "writer" /\ Writer!Next /\ UNCHANGED <<part, BesideWriter>>
    \/ part = "experiment" /\ Experiment!Next /\ UNCHANGED <<part, BesideExperiment>>

Spec == Init /\ [][Next]_all

-------------------------------------------------------------------------------
(* Properties. *)

(* A reassessment by the followup view leaves the claims of other facets   *)
(* alone, searches again for everything it reports as unknown, cites only  *)
(* current evidence it was shown, and says why it is insufficient.         *)
FollowupIsSound == part = "followup" => Followup!FollowupIsSound

(* A verdict covers up neither a failed code check nor a finding of the    *)
(* Judge: each reaches the role that can repair it, with identifiers that  *)
(* role owns, and the writer comes last.                                   *)
VerdictIsSound == part = "evaluation" => Evaluation!VerdictIsSound

(* A published report decides the gaps of the research it was drawn from,  *)
(* and no report that was paid for is rejected at the end for gaps or      *)
(* evidence that do not fit together.                                      *)
ReportIsSound == part = "writer" => Writer!ReportIsSound

(* A verdict that asks for repairs is answered in full by the next report: *)
(* the views it names were researched since, and the writer, if named, was *)
(* told so, also when a view has taken the report away.                    *)
RepairsAreAnswered == [][part = "writer" => Writer!AnswersRepairs]_all

(* A change of the retrieval configuration has passed every gate over the  *)
(* frozen inputs, the holdout stays unseen until the choice is locked, and *)
(* a command that died is made up for by giving it again.                  *)
ExperimentIsSound == part = "experiment" => Experiment!ExperimentIsSound

(* Once the selection is locked, no command changes it, the results it was *)
(* made from, or a decision that was taken.                                *)
ChoiceIsFinal == [][part = "experiment" => Experiment!KeepsChoice]_all

===============================================================================
