------------------------------- MODULE Evaluation -----------------------------
(***************************************************************************)
(* evaluate_report of rag/evaluator.py: one quality evaluation of a report.*)
(* Code checks the artifact and its citations and layout, a Judge reviews  *)
(* four criteria, and the two together become a verdict and the repair     *)
(* requests the Supervisor routes.                                         *)
(*                                                                         *)
(* A claim is an identifier with the role that can repair it.  Of a code   *)
(* error and of a finding what matters is where it points: the claims, the *)
(* perspectives found missing, the target it names.  The wording of a      *)
(* request is its issue.                                                   *)
(***************************************************************************)
EXTENDS Integers, SequencesExt

CONSTANTS
    View,       \* the research views
    Claim,      \* the claims of the joined registry, syntheses included
    RoleOf,     \* the role that answers for a claim: a view, or "writer"
    Gap,        \* the gap records of the registry
    ViewOf,     \* the view a gap belongs to
    Artifact,   \* the reports to evaluate
    Finding,    \* what the Judge may find
    Answer      \* the sets of findings it may answer with

Role == View \cup {"writer"}

Criterion == {"groundedness", "neutrality", "bias_control", "coverage"}

RoleAssumption ==
    /\ "writer" \notin View /\ "none" \notin View
    /\ RoleOf \in [Claim -> Role]
    /\ ViewOf \in [Gap -> View]

(* Of the Judge: what its schema admits, and never without end. *)
FindingAssumption ==
    /\ IsFiniteSet(View) /\ IsFiniteSet(Claim)
    /\ \A f \in Finding :
          /\ f.criterion \in Criterion /\ f.target \in Role \cup {"none"}
          /\ f.claims \subseteq Claim /\ f.missing \subseteq View /\ f.issue = "judge"
    /\ \A F \in Answer : F \subseteq Finding /\ IsFiniteSet(F)

(* intact: the Markdown and the chunks are those of the report; used: its  *)
(* claims; body: those outside of the summary; faulty: claims whose        *)
(* citations do not check; layout: the other errors of the report, each    *)
(* with the criterion its wording puts it under, the claim it starts with, *)
(* if any, and the perspectives it speaks of.                              *)
ArtifactAssumption ==
    \A a \in Artifact :
        /\ a.body \subseteq a.used /\ a.used \subseteq Claim /\ a.faulty \subseteq Claim
        /\ a.intact \in BOOLEAN /\ IsFiniteSet(a.layout)
        /\ \A e \in a.layout :
              /\ e.criterion \in {"groundedness", "coverage"} /\ e.names \subseteq View
              /\ e.claims \subseteq a.used /\ \A c, d \in e.claims : c = d

NoDraft == [findings |-> {}, revise |-> {}]

VARIABLES
    artifact,   \* the report
    pc,         \* "artifact", "judge", "decide", "ended"
    draft,      \* the Judge's findings, and the criteria it wants revised
    result      \* what is returned

vars == <<artifact, pc, draft, result>>

NoResult == [status |-> "none", passed |-> FALSE, checks |-> <<>>, repairs |-> <<>>]

-------------------------------------------------------------------------------
(* The code checks. *)

(* _coverage_errors: views without a claim in the body. *)
Missing(a) == View \ {RoleOf[c] : c \in a.body}

(* A code error as a finding: it names the claim it starts with and those  *)
(* missing perspectives it speaks of, and is otherwise addressed to        *)
(* "citations" or "structure", which is no role.                           *)
CodeFinding(criterion, claims, missing) ==
    [criterion |-> criterion, target |-> "none", claims |-> claims,
     missing |-> missing, issue |-> "code"]

(* Variant: an error of the layout is not looked through for the claim it  *)
(* starts with.                                                            *)
CodeFindingsUnclaimed(a) ==
    {CodeFinding("groundedness", {c}, {}) : c \in a.used \cap a.faulty}
        \cup {CodeFinding("coverage", {}, {v}) : v \in Missing(a)}
        \cup {CodeFinding(e.criterion, {}, e.names \cap Missing(a)) : e \in a.layout}

(* _code_checks and the findings made of it: errors of the citations of a  *)
(* claim, perspectives that are missing, errors of the layout.             *)
CodeFindings(a) ==
    {CodeFinding("groundedness", {c}, {}) : c \in a.used \cap a.faulty}
        \cup {CodeFinding("coverage", {}, {v}) : v \in Missing(a)}
        \cup {CodeFinding(e.criterion, e.claims, e.names \cap Missing(a)) : e \in a.layout}

-------------------------------------------------------------------------------
(* _repair_requests *)

(* Neutrality is a matter of wording; else the missing perspectives, the   *)
(* target, or the one role of all named claims decide, and the writer      *)
(* takes what is left.                                                     *)
Roles(f) ==
    LET owners == {RoleOf[c] : c \in f.claims}
    IN  IF f.criterion = "neutrality" THEN {"writer"}
        ELSE IF f.missing # {} THEN f.missing
        ELSE IF f.target \in Role THEN {f.target}
        ELSE IF \E r \in Role : owners = {r} THEN owners
        ELSE {"writer"}

(* The writer is given all the claims of a finding, a view its own, and    *)
(* its gaps.                                                               *)
Request(f, role) ==
    [target |-> role,
     issue  |-> f.issue,
     claims |-> {c \in f.claims : role = "writer" \/ RoleOf[c] = role},
     gaps   |-> {g \in Gap : ViewOf[g] = role}]

RepairRequests(findings) == UNION {{Request(f, r) : r \in Roles(f)} : f \in findings}

(* Whatever is to be researched again comes before the writer. *)
WriterLast(requests) ==
    SetToSeq({r \in requests : r.target # "writer"})
        \o SetToSeq({r \in requests : r.target = "writer"})

-------------------------------------------------------------------------------
(* The verdict. *)

(* The findings of both count, those of a criterion it lets pass too. *)
Problems(a, d) == d.findings \cup CodeFindings(a)

(* The check of a criterion passes when nobody has found anything. *)
CheckOf(criterion, problems) ==
    LET own == {f \in problems : f.criterion = criterion}
    IN  [passed |-> own = {},
         claims |-> UNION {f.claims : f \in own},
         gaps   |-> UNION {r.gaps : r \in RepairRequests(own)}]

(* A failed evaluation without a request, were there one, is the writer's. *)
Verdict(a, d) ==
    LET problems == Problems(a, d)
        checks   == [c \in Criterion |-> CheckOf(c, problems)]
        passed   == \A c \in Criterion : checks[c].passed
        requests == RepairRequests(problems)
        fallback == [target |-> "writer", issue |-> "criteria",
                     claims |-> UNION {checks[c].claims : c \in Criterion},
                     gaps   |-> UNION {checks[c].gaps : c \in Criterion}]
    IN  [status  |-> "ok", passed |-> passed, checks |-> checks,
         repairs |-> WriterLast(IF ~passed /\ requests = {} THEN {fallback} ELSE requests)]

-------------------------------------------------------------------------------

Init ==
    /\ artifact \in Artifact
    /\ pc = "artifact"
    /\ draft = NoDraft
    /\ result = NoResult

Failed == [NoResult EXCEPT !.status = "failed"]

(* _validate_report_artifact: another Markdown or a missing chunk is a     *)
(* failed evaluation, before the Judge is paid.                            *)
ValidateArtifact ==
    /\ pc = "artifact"
    /\ IF artifact.intact
       THEN pc' = "judge" /\ UNCHANGED result
       ELSE pc' = "ended" /\ result' = Failed
    /\ UNCHANGED <<artifact, draft>>

(* _validate_judge_references: the Judge may name claims of the report     *)
(* only; a criterion to revise needs a finding.                            *)
Judge ==
    /\ pc = "judge"
    /\ \E F \in Answer :
          /\ \A f \in F : f.claims \subseteq artifact.used
          /\ \E revise \in SUBSET {f.criterion : f \in F} :
                draft' = [findings |-> F, revise |-> revise]
    /\ pc' = "decide"
    /\ UNCHANGED <<artifact, result>>

(* No money, no connection, or an answer that stays invalid. *)
JudgeFails ==
    /\ pc = "judge"
    /\ pc' = "ended"
    /\ result' = Failed
    /\ UNCHANGED <<artifact, draft>>

Decide ==
    /\ pc = "decide"
    /\ result' = Verdict(artifact, draft)
    /\ pc' = "ended"
    /\ UNCHANGED <<artifact, draft>>

Next == ValidateArtifact \/ Judge \/ JudgeFails \/ Decide

Spec == Init /\ [][Next]_vars

-------------------------------------------------------------------------------
(* Properties. *)

Requests == [target : Role, issue : {"code", "judge", "criteria"},
             claims : SUBSET Claim, gaps : SUBSET Gap]

(* Every variable has its type, and a result is one EvaluationResult       *)
(* accepts: a failure is no verdict, and a verdict that does not pass      *)
(* has something to repair.                                                *)
TypeOK ==
    /\ artifact \in Artifact
    /\ pc \in {"artifact", "judge", "decide", "ended"}
    /\ draft.findings \subseteq Finding /\ draft.revise \subseteq Criterion
    /\ result \in {NoResult, Failed} \/
          /\ result.status = "ok"
          /\ result.checks \in [Criterion -> [passed : BOOLEAN, claims : SUBSET Claim, gaps : SUBSET Gap]]
          /\ result.passed <=> \A c \in Criterion : result.checks[c].passed
          /\ result.repairs \in Seq(Requests)
          /\ result.passed <=> result.repairs = <<>>

Asked == Range(result.repairs)

(* Who can repair an error of the layout: the missing perspectives it      *)
(* speaks of, the owner of the claim it starts with, else the writer.      *)
RepairedBy(e) ==
    LET named == e.names \cap Missing(artifact)
    IN  IF named # {} THEN named
        ELSE IF e.claims # {} THEN {RoleOf[c] : c \in e.claims}
        ELSE {"writer"}

(* "A failed check of sources, citations or structure is not covered up by *)
(* a positive verdict of the Judge": the report does not pass, and the     *)
(* role that can repair it is asked to, with the claim.                    *)
CodeIsDecisive ==
    result.status = "ok" =>
        /\ \A c \in artifact.used \cap artifact.faulty :
              /\ ~result.checks["groundedness"].passed
              /\ \E r \in Asked : r.target = RoleOf[c] /\ c \in r.claims
        /\ \A v \in Missing(artifact) :
              ~result.checks["coverage"].passed /\ \E r \in Asked : r.target = v
        /\ \A e \in artifact.layout :
              /\ ~result.checks[e.criterion].passed
              /\ \A role \in RepairedBy(e) : \E r \in Asked :
                    r.target = role /\ {c \in e.claims : RoleOf[c] = role} \subseteq r.claims

(* What the Judge has found reaches someone: a criterion it finds fault    *)
(* with has failed, and there is a request for each of its findings.       *)
NoFindingIsLost ==
    result.status = "ok" =>
        \A f \in draft.findings :
            /\ ~result.checks[f.criterion].passed
            /\ \E r \in Asked : r.issue = f.issue /\ r.target \in f.missing \cup {f.target, "writer"}
                                    \cup {RoleOf[c] : c \in f.claims}

(* A view is never asked to repair the claims or gaps of another one, and  *)
(* every identifier is one the Supervisor finds in the report.             *)
AskedOfItsOwner ==
    \A r \in Asked :
        /\ r.target \in View => \A c \in r.claims : RoleOf[c] = r.target
        /\ \A g \in r.gaps : ViewOf[g] = r.target
        /\ r.claims \subseteq artifact.used

(* The writer is asked last, when the views it writes from are repaired. *)
WriterComesLast ==
    \A i, j \in DOMAIN result.repairs :
        i < j /\ result.repairs[i].target = "writer" => result.repairs[j].target = "writer"

(* What the Supervisor acts on: the verdict and the requests it carries.   *)
VerdictIsSound ==
    /\ TypeOK
    /\ CodeIsDecisive
    /\ NoFindingIsLost
    /\ AskedOfItsOwner
    /\ WriterComesLast

===============================================================================
