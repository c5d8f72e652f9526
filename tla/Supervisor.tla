------------------------------ MODULE Supervisor ------------------------------
(***************************************************************************)
(* The team run of agents/supervisor.py on top of agents/store.py: a       *)
(* Supervisor node that alternates with the research views, the writer,    *)
(* the evaluator and the publisher; the control state each node changes;   *)
(* the write-ahead checkpoint before and the checkpoint after every node;  *)
(* the write-once artifacts; and the processes that start, pause, crash    *)
(* and resume the run.                                                     *)
(*                                                                         *)
(* A reference to an artifact is the attempt number of the file it names   *)
(* (artifacts/<role>/<attempt>.json), 0 standing for None.  Payloads are   *)
(* reduced to what later requests are validated on: the status of a        *)
(* result, which results a report or a verdict was made from, and which    *)
(* roles a verdict asks to repair.                                         *)
(***************************************************************************)
EXTENDS Naturals, FiniteSets

CONSTANTS
    Process,            \* operating-system processes that may execute the run
    FollowUps,          \* the views other than "research"
    WorkerAttempts,     \* Limits.worker_attempts
    WriterAttempts,     \* Limits.writer_attempts
    SupervisorSteps     \* Limits.supervisor_steps

ASSUME FollowUpsAssumption ==
    FollowUps \subseteq {"market", "stakeholder", "domain"}

ASSUME LimitsAssumption ==
    /\ WorkerAttempts \in Nat \ {0}
    /\ WriterAttempts \in Nat \ {0}
    /\ SupervisorSteps \in Nat \ {0}

Views   == {"research"} \cup FollowUps
Roles   == Views \cup {"writer", "evaluator", "publish"}
Nodes   == Roles \cup {"supervisor"}
Actions == Roles \cup {"stop"}              \* contracts.Action
Targets == Views \cup {"writer"}            \* contracts.RepairRequest.target

(***************************************************************************)
(* Error codes: the ones that routing or recovery tell apart, and "error"  *)
(* for every other code of contracts.NodeError.                            *)
(***************************************************************************)
Codes == {"uncertain_request", "limit_exceeded", "evidence_gap", "error"}

VARIABLES
    snapshot,   \* snapshot.json: the control state on disk
    artifacts,  \* the set of files under artifacts/
    pc,         \* where each process is inside its current node
    mem,        \* the control state each process holds in memory
    at,         \* the graph node each process runs next
    sent,       \* history: requests handed to a model or a subordinate
    unknown     \* history: sent requests whose outcome is not on disk

vars == <<snapshot, artifacts, pc, mem, at, sent, unknown>>

-------------------------------------------------------------------------------
(* The control state, agents/state.py AgentState. *)

Request   == [role : Nodes, attempt : Nat]
NoRequest == [role |-> "supervisor", attempt |-> 0]

State ==
    [ status              : {"absent", "running", "incomplete",
                             "needs_attention", "completed"},
      next_action         : Actions \cup {"supervisor"},
      step_count          : Nat,
      attempts            : [Roles -> Nat],
      pending             : Request,
      last_error          : Codes \cup {"none"},
      feedback            : SUBSET Actions,
      evidence_sufficient : BOOLEAN,
      summaries           : [Views -> {"none", "ok", "insufficient", "failed"}],
      results             : [Views -> Nat],
      report              : Nat,
      evaluation          : Nat,
      publication         : Nat,
      repair_source       : Nat ]

initial ==
    [ status              |-> "running",
      next_action         |-> "supervisor",
      step_count          |-> 0,
      attempts            |-> [r \in Roles |-> 0],
      pending             |-> NoRequest,
      last_error          |-> "none",
      feedback            |-> {},
      evidence_sufficient |-> FALSE,
      summaries           |-> [v \in Views |-> "none"],
      results             |-> [v \in Views |-> 0],
      report              |-> 0,
      evaluation          |-> 0,
      publication         |-> 0,
      repair_source       |-> 0 ]

(* No snapshot.json, and the memory of a process that is not executing. *)
Absent == [initial EXCEPT !.status = "absent"]

(* The payloads under artifacts/, one record set per result type. *)
ResearchFile == [role : Views, attempt : Nat,
                 status : {"ok", "insufficient", "failed"}, context : Nat]
ReportFile   == [role : {"writer"}, attempt : Nat,
                 status : {"ok", "failed"}, inputs : [Views -> Nat]]
VerdictFile  == [role : {"evaluator"}, attempt : Nat,
                 status : {"ok", "failed"}, report : Nat,
                 passed : BOOLEAN, repairs : SUBSET Targets]
PublishFile  == [role : {"publish"}, attempt : Nat,
                 status : {"ok", "failed"}, report : Nat, evaluation : Nat]
DecisionFile == [role : {"supervisor"}, attempt : Nat]
File == ResearchFile \cup ReportFile \cup VerdictFile \cup PublishFile
            \cup DecisionFile

Written(role, n) == \E f \in artifacts : f.role = role /\ f.attempt = n
get(role, n)     == CHOOSE f \in artifacts : f.role = role /\ f.attempt = n

(* put: the exclusive link of the finished file; the caller checks Written. *)
put(f) == artifacts' = artifacts \cup {f}

-------------------------------------------------------------------------------
(* What a node may do next. *)

(* _stop: the update that ends a run. *)
stop(s, code) ==
    [s EXCEPT !.status = IF code = "uncertain_request" THEN "needs_attention"
                                                       ELSE "incomplete",
              !.next_action = "stop",
              !.last_error = code]

Ready(s) == {v \in Views : s.summaries[v] = "ok"}

(* The views that must be researched before anything may be written. *)
ResearchTargets(s) ==
    IF "research" \notin Ready(s) \/ "research" \in s.feedback
    THEN {"research"}
    ELSE IF s.feedback \cap Views # {} THEN s.feedback \cap Views
                                       ELSE Views \ Ready(s)

Passed(s) ==
    /\ s.evaluation # 0
    /\ LET verdict == get("evaluator", s.evaluation)
       IN  verdict.status = "ok" /\ verdict.passed

choices(s) ==
    IF \/ s.status # "running"
       \/ s.last_error # "none"
       \/ s.step_count >= SupervisorSteps        THEN {}
    ELSE IF Passed(s)                            THEN {"publish"}
    ELSE IF s.report # 0 /\ s.evaluation = 0     THEN {"evaluator"}
    ELSE IF ResearchTargets(s) # {}
         THEN IF \E v \in ResearchTargets(s) : s.attempts[v] >= WorkerAttempts
              THEN {} ELSE ResearchTargets(s)
    ELSE IF s.attempts["writer"] >= WriterAttempts THEN {}
    ELSE IF "writer" \in s.feedback              THEN {"writer"}
    ELSE {"writer"} \cup {v \in Views : s.attempts[v] < WorkerAttempts}

(* A decision taken without asking the model. *)
Forced(s) == choices(s) \in {{"evaluator"}, {"publish"}}

(* Variant: the sufficiency judgment is not required. *)
EligibleWithoutJudgment(s, action, sufficient) ==
    action \in choices(s) \cup {"stop"}

(* The checks on a decision the model returns. *)
Eligible(s, action, sufficient) ==
    /\ action \in choices(s) \cup {"stop"}
    /\ action = "writer" => sufficient

(* Variant: feedback is filed under the previous action. *)
AfterDecisionMisfiled(s, action, sufficient, notes) ==
    LET t == [s EXCEPT !.next_action = action, !.step_count = @ + 1,
                       !.evidence_sufficient = sufficient,
                       !.feedback = IF notes THEN @ \cup {s.next_action} ELSE @]
    IN  IF action = "stop" THEN stop(t, "evidence_gap") ELSE t

(* The update of an accepted decision; notes: it carries feedback. *)
AfterDecision(s, action, sufficient, notes) ==
    LET t == [s EXCEPT
                !.next_action = action,
                !.step_count = @ + 1,
                !.evidence_sufficient = sufficient,
                !.feedback = IF notes \/ (action \in Views /\ s.attempts[action] > 0)
                             THEN @ \cup {action} ELSE @]
    IN  IF action = "stop" THEN stop(t, "evidence_gap") ELSE t

(* The validators of ResearchRequest, WriteRequest, EvaluationRequest and  *)
(* PublishRequest, and the sufficiency check of writer().                  *)
RequestAccepted(s, role) ==
    CASE role \in Views ->
            /\ s.results[role] < s.attempts[role]
            /\ role # "research" =>
                 /\ s.results["research"] # 0
                 /\ get("research", s.results["research"]).status = "ok"
      [] role = "writer" ->
            /\ s.evidence_sufficient
            /\ \A v \in Views : s.results[v] # 0 /\ get(v, s.results[v]).status = "ok"
            /\ s.report < s.attempts["writer"]
      [] role = "evaluator" ->
            s.report # 0 /\ get("writer", s.report).status = "ok"
      [] role = "publish" ->
            /\ s.report # 0 /\ get("writer", s.report).status = "ok"
            /\ Passed(s) /\ get("evaluator", s.evaluation).report = s.report
      [] OTHER -> TRUE

(* Variants: a research rerun keeps the perspectives; any rerun clears all *)
(* feedback.                                                               *)
AfterWorkerKeepingViews(s, view, status, code) ==
    LET t == [s EXCEPT !.results[view] = s.attempts[view],
                       !.summaries[view] = status,
                       !.feedback = IF status = "insufficient" THEN @ \cup {view}
                                                               ELSE @ \ {view},
                       !.report = 0, !.evaluation = 0, !.publication = 0,
                       !.evidence_sufficient = FALSE, !.next_action = "supervisor"]
    IN  IF status = "failed" THEN stop(t, code) ELSE t

AfterWorkerForgetting(s, view, status, code) ==
    [AfterWorkerKeepingViews(s, view, status, code) EXCEPT !.feedback = {}]

(* worker: a research rerun drops every other result and summary. *)
AfterWorker(s, view, status, code) ==
    LET t == [s EXCEPT
                !.results = [v \in Views |->
                                IF v = view THEN s.attempts[view]
                                ELSE IF view = "research" THEN 0 ELSE @[v]],
                !.summaries = [v \in Views |->
                                IF v = view THEN status
                                ELSE IF view = "research" THEN "none" ELSE @[v]],
                !.feedback = IF status = "insufficient" THEN @ \cup {view}
                                                        ELSE @ \ {view},
                !.report = 0, !.evaluation = 0, !.publication = 0,
                !.evidence_sufficient = FALSE,
                !.next_action = "supervisor"]
    IN  IF status = "failed" THEN stop(t, code) ELSE t

AfterWriter(s, status, code) ==
    LET t == [s EXCEPT
                !.report = s.attempts["writer"],
                !.evaluation = 0, !.publication = 0, !.repair_source = 0,
                !.feedback = {}, !.next_action = "supervisor"]
    IN  IF status = "failed" THEN stop(t, code) ELSE t

AfterEvaluate(s, status, repairs, code) ==
    LET n == s.attempts["evaluator"]
        t == [s EXCEPT
                !.evaluation = n,
                !.repair_source = IF repairs # {} THEN n ELSE 0,
                !.feedback = repairs, !.next_action = "supervisor"]
    IN  IF status = "failed" THEN stop(t, code) ELSE t

AfterPublish(s, status, code) ==
    LET t == [s EXCEPT !.publication = s.attempts["publish"]]
    IN  IF status = "failed" THEN stop(t, code)
        ELSE [t EXCEPT !.status = "completed", !.next_action = "stop"]

-------------------------------------------------------------------------------
(* Processes.  The run lock is a non-blocking flock: a process holds it    *)
(* exactly while it is executing, and the system releases it on a crash.   *)

(* Variant: the lock is not taken. *)
UnlockedAlways(p) == TRUE

Unlocked(p) == \A q \in Process : pc[q] = "idle"

Leave(p) ==
    /\ pc' = [pc EXCEPT ![p] = "idle"]
    /\ mem' = [mem EXCEPT ![p] = Absent]
    /\ at' = [at EXCEPT ![p] = "stop"]

Enter(p, s) ==
    /\ pc' = [pc EXCEPT ![p] = "node"]
    /\ mem' = [mem EXCEPT ![p] = s]
    /\ at' = [at EXCEPT ![p] = s.next_action]

(* run(resume=False) refuses a directory that already has a snapshot. *)
Start(p) ==
    /\ pc[p] = "idle" /\ Unlocked(p)
    /\ snapshot.status = "absent"
    /\ snapshot' = initial
    /\ Enter(p, initial)
    /\ UNCHANGED <<artifacts, sent, unknown>>

(* RunStore.load: every reference of the snapshot must resolve. *)
Loadable(s) ==
    /\ \A v \in Views : s.results[v] # 0 => Written(v, s.results[v])
    /\ s.report # 0 => Written("writer", s.report)
    /\ s.evaluation # 0 => Written("evaluator", s.evaluation)
    /\ s.publication # 0 => Written("publish", s.publication)
    /\ s.repair_source # 0 => Written("evaluator", s.repair_source)

(* run(resume=True): a pending request of unknown completion ends the run, *)
(* a finished run is returned as it is, a running one continues.           *)
Resume(p) ==
    /\ pc[p] = "idle" /\ Unlocked(p)
    /\ snapshot.status # "absent" /\ Loadable(snapshot)
    /\ \/ /\ snapshot.pending # NoRequest
          /\ snapshot' = stop(snapshot, "uncertain_request")
          /\ UNCHANGED <<pc, mem, at>>
       \/ /\ snapshot.pending = NoRequest /\ snapshot.status # "running"
          /\ UNCHANGED <<snapshot, pc, mem, at>>
       \/ /\ snapshot.pending = NoRequest /\ snapshot.status = "running"
          /\ Enter(p, snapshot)
          /\ UNCHANGED snapshot
    /\ UNCHANGED <<artifacts, sent, unknown>>

(* The stream ends, or the caller's pause_after stops it between nodes     *)
(* (a pause before the first node leaves what a crash there leaves).       *)
Return(p) ==
    /\ pc[p] = "node" /\ at[p] = "stop"
    /\ Leave(p)
    /\ UNCHANGED <<snapshot, artifacts, sent, unknown>>

Pause(p) ==
    /\ pc[p] = "node" /\ at[p] # "stop"
    /\ Leave(p)
    /\ UNCHANGED <<snapshot, artifacts, sent, unknown>>

(* The process dies, or a checkpoint cannot be written. *)
Crash(p) ==
    /\ pc[p] # "idle"
    /\ Leave(p)
    /\ UNCHANGED <<snapshot, artifacts, sent, unknown>>

-------------------------------------------------------------------------------
(* node(role): the wrapper around every handler. *)

Acknowledging(p) == at[p] = "supervisor" /\ mem[p].status # "running"

(* Variant: the attempt is counted when the node finishes, not before. *)
ReservedLate(s, role) ==
    [s EXCEPT !.pending = [role |-> role,
                           attempt |-> IF role = "supervisor" THEN s.step_count
                                       ELSE s.attempts[role]]]

Reserved(s, role) ==
    IF role = "supervisor"
    THEN [s EXCEPT !.pending = [role |-> role, attempt |-> s.step_count + 1]]
    ELSE [s EXCEPT !.pending = [role |-> role, attempt |-> s.attempts[role] + 1],
                   !.attempts[role] = @ + 1]

(* The attempt is consumed and on disk before the handler runs. *)
Begin(p) ==
    /\ pc[p] = "node" /\ at[p] # "stop" /\ ~Acknowledging(p)
    /\ LET s == Reserved(mem[p], at[p])
       IN  snapshot' = s /\ mem' = [mem EXCEPT ![p] = s]
    /\ pc' = [pc EXCEPT ![p] = "begun"]
    /\ UNCHANGED <<artifacts, at, sent, unknown>>

(* Variant: the edge after the acknowledgement leads back to it. *)
AcknowledgeForever(p) ==
    /\ pc[p] = "node" /\ Acknowledging(p)
    /\ UNCHANGED vars

(* Final acknowledgement of a stopped run; no request is made. *)
Acknowledge(p) ==
    /\ pc[p] = "node" /\ Acknowledging(p)
    /\ LET s == [mem[p] EXCEPT !.next_action = "stop"]
       IN  snapshot' = s /\ mem' = [mem EXCEPT ![p] = s]
    /\ at' = [at EXCEPT ![p] = "stop"]
    /\ UNCHANGED <<artifacts, pc, sent, unknown>>

(* The handler ends with control state s, not yet on disk. *)
Finish(p, s) ==
    /\ mem' = [mem EXCEPT ![p] = s]
    /\ pc' = [pc EXCEPT ![p] = "done"]
    /\ UNCHANGED <<snapshot, at, sent, unknown>>

(* An exception inside the handler. *)
Raise(p, code) == Finish(p, stop(mem[p], code)) /\ UNCHANGED artifacts

(* Variant: a failed result is referenced but not stored. *)
RecordUnlessFailed(p, f, s) ==
    IF f.role # "supervisor" /\ s.last_error # "none"
    THEN Finish(p, s) /\ UNCHANGED artifacts
    ELSE put(f) /\ Finish(p, s)

(* Finish with control state s after put(f), which refuses to overwrite. *)
Record(p, f, s) ==
    IF Written(f.role, f.attempt)
    THEN Raise(p, "error")
    ELSE put(f) /\ Finish(p, s)

Role(p) == mem[p].pending.role

Decision(p) == [role |-> "supervisor", attempt |-> mem[p].step_count + 1]

(* supervise: no eligible action, or the only one needs no judgment. *)
SuperviseLocally(p) ==
    /\ pc[p] = "begun" /\ Role(p) = "supervisor"
    /\ \/ /\ choices(mem[p]) = {}
          /\ Raise(p, "limit_exceeded")
       \/ /\ Forced(mem[p])
          /\ \E action \in choices(mem[p]) :
                Record(p, Decision(p), AfterDecision(mem[p], action, TRUE, FALSE))

(* Build the request and hand it to the model or the subordinate. *)
Send(p) ==
    /\ pc[p] = "begun"
    /\ Role(p) = "supervisor" => choices(mem[p]) # {} /\ ~Forced(mem[p])
    /\ IF RequestAccepted(mem[p], Role(p))
       THEN /\ sent' = sent \cup {mem[p].pending}
            /\ unknown' = unknown \cup {mem[p].pending}
            /\ pc' = [pc EXCEPT ![p] = "calling"]
            /\ UNCHANGED <<snapshot, artifacts, mem, at>>
       ELSE Raise(p, "error")

(* The call raises, or its answer fails validation or an identity check. *)
CallRaises(p) ==
    /\ pc[p] = "calling"
    /\ \E code \in {"uncertain_request", "error"} : Raise(p, code)

Decided(p) ==
    /\ pc[p] = "calling" /\ Role(p) = "supervisor"
    /\ \E action \in Actions, sufficient, notes \in BOOLEAN :
          IF Eligible(mem[p], action, sufficient)
          THEN Record(p, Decision(p),
                      AfterDecision(mem[p], action, sufficient, notes))
          ELSE Raise(p, "error")

FailureCodes(status) ==
    IF status = "failed" THEN {"uncertain_request", "error"} ELSE {"none"}

Researched(p) ==
    /\ pc[p] = "calling" /\ Role(p) \in Views
    /\ \E status \in {"ok", "insufficient", "failed"} :
       \E code \in FailureCodes(status) :
          Record(p, [role    |-> Role(p), attempt |-> mem[p].attempts[Role(p)],
                     status  |-> status,
                     context |-> IF Role(p) = "research" THEN 0
                                 ELSE mem[p].results["research"]],
                 AfterWorker(mem[p], Role(p), status, code))

ReportWritten(p) ==
    /\ pc[p] = "calling" /\ Role(p) = "writer"
    /\ \E status \in {"ok", "failed"} :
       \E code \in FailureCodes(status) :
          Record(p, [role   |-> "writer", attempt |-> mem[p].attempts["writer"],
                     status |-> status, inputs |-> mem[p].results],
                 AfterWriter(mem[p], status, code))

(* A verdict that does not pass asks for at least one repair. *)
Evaluated(p) ==
    /\ pc[p] = "calling" /\ Role(p) = "evaluator"
    /\ \E status \in {"ok", "failed"} :
       \E code \in FailureCodes(status) :
       \E repairs \in IF status = "ok" THEN SUBSET Targets ELSE {{}} :
          Record(p, [role    |-> "evaluator",
                     attempt |-> mem[p].attempts["evaluator"],
                     status  |-> status, report |-> mem[p].report,
                     passed  |-> status = "ok" /\ repairs = {},
                     repairs |-> repairs],
                 AfterEvaluate(mem[p], status, repairs, code))

Published(p) ==
    /\ pc[p] = "calling" /\ Role(p) = "publish"
    /\ \E status \in {"ok", "failed"} :
       \E code \in FailureCodes(status) :
          Record(p, [role   |-> "publish", attempt |-> mem[p].attempts["publish"],
                     status |-> status, report |-> mem[p].report,
                     evaluation |-> mem[p].evaluation],
                 AfterPublish(mem[p], status, code))

(* Variants: the marker is always cleared; it is never cleared. *)
SettledAlways(s) == [s EXCEPT !.pending = NoRequest]
SettledNever(s)  == s

(* The state a finished node leaves: only a request that may still be      *)
(* running at the provider stays marked as pending.                        *)
Settled(s) ==
    IF s.status = "needs_attention" THEN s ELSE [s EXCEPT !.pending = NoRequest]

(* The checkpoint after the handler, and the edge to the next node. *)
Commit(p) ==
    /\ pc[p] = "done"
    /\ LET s == Settled(mem[p])
       IN  /\ snapshot' = s
           /\ mem' = [mem EXCEPT ![p] = s]
           /\ at' = [at EXCEPT ![p] = IF Role(p) = "supervisor" THEN s.next_action
                                                                ELSE "supervisor"]
    /\ unknown' = IF mem[p].status = "needs_attention" THEN unknown
                  ELSE unknown \ {mem[p].pending}
    /\ pc' = [pc EXCEPT ![p] = "node"]
    /\ UNCHANGED <<artifacts, sent>>

-------------------------------------------------------------------------------

Init ==
    /\ snapshot = Absent
    /\ artifacts = {}
    /\ pc = [p \in Process |-> "idle"]
    /\ mem = [p \in Process |-> Absent]
    /\ at = [p \in Process |-> "stop"]
    /\ sent = {}
    /\ unknown = {}

(* What a process does by itself once it is executing the run. *)
Execute(p) ==
    \/ Begin(p) \/ Acknowledge(p) \/ SuperviseLocally(p) \/ Send(p)
    \/ CallRaises(p) \/ Decided(p) \/ Researched(p) \/ ReportWritten(p)
    \/ Evaluated(p) \/ Published(p) \/ Commit(p) \/ Return(p)

(* What its user or the system does to it. *)
Control(p) == Start(p) \/ Resume(p) \/ Pause(p) \/ Crash(p)

Next == \E p \in Process : Execute(p) \/ Control(p)

Spec == Init /\ [][Next]_vars

(* An executing process is scheduled, and every call returns or raises     *)
(* (the provider client and the subordinates have time limits).            *)
FairSpec == Spec /\ \A p \in Process : WF_vars(Execute(p))

-------------------------------------------------------------------------------
(* Properties. *)

(* Every variable has its type.  Memory and graph position of a process    *)
(* that is not executing are empty, and an executing one is in a node of   *)
(* the graph compiled by compile().                                        *)
TypeOK ==
    /\ snapshot \in State
    /\ artifacts \subseteq File
    /\ pc \in [Process -> {"idle", "node", "begun", "calling", "done"}]
    /\ mem \in [Process -> State]
    /\ at \in [Process -> Nodes \cup {"stop"}]
    /\ sent \subseteq Request
    /\ unknown \subseteq sent

(* node() checkpoints the pending marker before it calls anything, and     *)
(* keeps it when the outcome is not known: a request that was sent and     *)
(* whose outcome is not on disk is the one snapshot.json names as pending, *)
(* whatever crashes, pauses and concurrent resumes happened.               *)
WriteAhead == unknown \subseteq {snapshot.pending}

(* The run on disk behaves as AtMostOnceRun promises: no request is handed *)
(* to a model or a subordinate twice, nor while the outcome of an earlier  *)
(* one is unknown, since run() refuses to continue past a pending marker   *)
(* and node() checkpoints around every call.                               *)
Promise == INSTANCE AtMostOnceRun
               WITH status <- snapshot.status, issued <- sent, open <- unknown
AtMostOnce == Promise!Spec

(* A request id and an artifact slot are used once: when a handler starts, *)
(* its request was never sent by anyone and the exclusive link in put()    *)
(* finds no file, also after crashes that consumed an attempt.             *)
AttemptsAreFresh ==
    \A p \in Process :
        LET r == mem[p].pending
        IN  /\ pc[p] = "begun" => r \notin sent
            /\ pc[p] \in {"begun", "calling"} => ~Written(r.role, r.attempt)

(* Every reference in snapshot.json names a file that exists, so load()    *)
(* never rejects a run after a crash: artifacts are linked before the      *)
(* checkpoint that mentions them.                                          *)
SnapshotLoads == Loadable(snapshot)

(* The decisions choices() allows always satisfy the validators of the     *)
(* request the next node builds: a perspective is only asked for with a    *)
(* successful technical result, a report only from sufficient views, a     *)
(* publication only with a passing verdict on this very report.            *)
RequestsAreAccepted ==
    \A p \in Process : pc[p] = "begun" => RequestAccepted(mem[p], Role(p))

(* Derived results on disk are never stale: a perspective was made from    *)
(* the current technical result, the report from exactly the current       *)
(* results, the verdict is about the current report.  worker(), writer()   *)
(* and evaluate() drop what their result invalidates.                      *)
ResultsAreCurrent ==
    LET s == snapshot
    IN  /\ \A v \in FollowUps : s.results[v] # 0 =>
              get(v, s.results[v]).context = s.results["research"]
        /\ s.report # 0 => get("writer", s.report).inputs = s.results
        /\ s.evaluation # 0 => /\ s.report # 0
                               /\ get("evaluator", s.evaluation).report = s.report

(* A view that a verdict asked to repair is researched again before any    *)
(* later report is written, even when the rerun of another view, a crash   *)
(* or a pause lies in between: no repair request is forgotten.             *)
RepairsAreDone ==
    \A e, r \in artifacts :
        e.role = "evaluator" /\ r.role = "writer" /\ r.attempt > e.report =>
            \A v \in e.repairs \cap Views :
                r.inputs[v] > get("writer", e.report).inputs[v]

(* A completed run published a report that passed its evaluation and that  *)
(* rests on the latest attempt of every view, each of them sufficient.     *)
CompletedIsSound ==
    snapshot.status = "completed" =>
        LET publication == get("publish", snapshot.publication)
            report      == get("writer", publication.report)
            verdict     == get("evaluator", publication.evaluation)
        IN  /\ publication.status = "ok"
            /\ verdict.passed /\ verdict.report = publication.report
            /\ report.attempt = snapshot.attempts["writer"]
            /\ \A v \in Views : /\ report.inputs[v] = snapshot.attempts[v]
                                /\ get(v, report.inputs[v]).status = "ok"

(* The attempts that s counts, role by role.                               *)
Attempted(s) == UNION {{r} \X (1 .. s.attempts[r]) : r \in Roles}

(* The three limits bound the run over all its resumes: every role's       *)
(* attempts, one decision per attempt, and, for the graph's recursion      *)
(* limit of 2 * supervisor_steps + 8, the nodes any stream can execute     *)
(* (decisions, attempts, the last decision and the acknowledgement).       *)
WithinLimits ==
    LET s == snapshot
        total == Cardinality(Attempted(s))
    IN  /\ \A v \in Views : s.attempts[v] <= WorkerAttempts
        /\ s.attempts["writer"] <= WriterAttempts
        /\ s.attempts["evaluator"] <= s.attempts["writer"]
        /\ s.attempts["publish"] <= 1
        /\ total <= s.step_count
        /\ s.step_count <= SupervisorSteps
        /\ s.step_count + total + 2 <= 2 * SupervisorSteps + 8

(* A run that has ended stays as it ended: no resume, acknowledgement or   *)
(* late step of any process changes its snapshot, adds a result or sends   *)
(* a request.                                                              *)
EndedStaysEnded ==
    [][snapshot.status \notin {"absent", "running"} =>
           UNCHANGED <<snapshot, artifacts, sent>>]_vars

(* Every process that executes the run comes back: by the limits, the      *)
(* graph reaches END (or the process pauses or dies first).                *)
ExecutionEnds == \A p \in Process : pc[p] # "idle" ~> pc[p] = "idle"

(* Whatever is requested is fresh, acceptable to its Agent, and within the *)
(* limits of the run.                                                      *)
RequestsAreSound == AttemptsAreFresh /\ RequestsAreAccepted /\ WithinLimits

(* Whatever a crash leaves can be resumed, and says nothing that is stale. *)
SnapshotIsSound == SnapshotLoads /\ ResultsAreCurrent /\ CompletedIsSound

===============================================================================
