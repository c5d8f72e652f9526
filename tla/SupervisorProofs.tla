--------------------------- MODULE SupervisorProofs ---------------------------
(***************************************************************************)
(* Proofs about the team run, for every set of processes and follow-up     *)
(* views and for all limits: its control state and the calls it pays for,  *)
(* then its results, which are the files that a run leaves and the         *)
(* references to them, the requests that are made from them, the limits of *)
(* the run and its end.                                                    *)
(***************************************************************************)
EXTENDS Supervisor, FiniteSetTheorems, TLAPS

-------------------------------------------------------------------------------
(* The updates of the control state keep its type. *)

(* initial() and the absent snapshot are control states. *)
LEMMA InitialType == initial \in State /\ Absent \in State
  BY DEF initial, Absent, State, NoRequest, Request, Views, Roles, Nodes, Actions

(* _stop keeps the type of the control state. *)
LEMMA StopType ==
  ASSUME NEW s \in State, NEW code \in Codes
  PROVE  stop(s, code) \in State
  BY DEF stop, State, Codes, Actions

(* The pending marker and the consumed attempt are well-typed. *)
LEMMA ReservedType ==
  ASSUME NEW s \in State, NEW role \in Nodes
  PROVE  Reserved(s, role) \in State
  <1> DEFINE mark(n) == [role |-> role, attempt |-> n]
             attempts == [s.attempts EXCEPT ![role] = @ + 1]
  <1>1. CASE role = "supervisor"
    <2>1. mark(s.step_count + 1) \in Request
      BY DEF State, Request
    <2> HIDE DEF mark
    <2>2. [s EXCEPT !.pending = mark(s.step_count + 1)] \in State
      BY <2>1 DEF State
    <2> QED
      BY <1>1, <2>2 DEF Reserved, mark
  <1>2. CASE role # "supervisor"
    <2>1. role \in Roles
      BY <1>2 DEF Nodes
    <2>2. s.attempts \in [Roles -> Nat]
      BY DEF State
    <2>3. /\ mark(s.attempts[role] + 1) \in Request
          /\ attempts \in [Roles -> Nat]
      BY <2>1, <2>2 DEF Request
    <2> DEFINE m == mark(s.attempts[role] + 1)
    <2>4. Reserved(s, role) = [s EXCEPT !.pending = m, !.attempts = attempts]
      BY <1>2 DEF Reserved, State
    <2> HIDE DEF m, attempts
    <2>5. [s EXCEPT !.pending = m, !.attempts = attempts] \in State
      BY <2>3 DEF State, m
    <2> QED
      BY <2>4, <2>5
  <1> QED
    BY <1>1, <1>2

(* Clearing the pending marker keeps the type. *)
LEMMA SettledType ==
  ASSUME NEW s \in State
  PROVE  Settled(s) \in State
  BY DEF Settled, State, NoRequest, Request, Nodes

(* supervise() returns a control state. *)
LEMMA DecisionType ==
  ASSUME NEW s \in State, NEW action \in Actions,
         NEW sufficient \in BOOLEAN, NEW notes \in BOOLEAN
  PROVE  AfterDecision(s, action, sufficient, notes) \in State
  <1> DEFINE t == [s EXCEPT
                !.next_action = action,
                !.step_count = @ + 1,
                !.evidence_sufficient = sufficient,
                !.feedback = IF notes \/ (action \in Views /\ s.attempts[action] > 0)
                             THEN @ \cup {action} ELSE @]
  <1>1. t \in State
    <2> DEFINE feedback == IF notes \/ (action \in Views /\ s.attempts[action] > 0)
                           THEN s.feedback \cup {action} ELSE s.feedback
    <2>1. feedback \in SUBSET Actions
      BY DEF State
    <2> DEFINE u == [s EXCEPT !.next_action = action, !.step_count = @ + 1]
    <2>2. u \in State
      <3>1. s.step_count + 1 \in Nat
        BY DEF State
      <3> DEFINE n == s.step_count + 1
      <3> HIDE DEF n
      <3>2. [s EXCEPT !.next_action = action, !.step_count = n] \in State
        BY <3>1 DEF State, n
      <3> QED
        BY <3>2 DEF n
    <2>3. [u EXCEPT !.evidence_sufficient = sufficient] \in State
      <3> HIDE DEF u
      <3> QED
        BY <2>2, Zenon DEF State
    <2> DEFINE v == [u EXCEPT !.evidence_sufficient = sufficient]
    <2>4. [v EXCEPT !.feedback = feedback] \in State
      <3> HIDE DEF v, feedback
      <3> QED
        BY <2>1, <2>3 DEF State, v
    <2> QED
      BY <2>4
  <1>2. stop(t, "evidence_gap") \in State
    BY <1>1, StopType DEF Codes
  <1> QED
    BY <1>1, <1>2 DEF AfterDecision

(* worker() returns a control state. *)
LEMMA WorkerType ==
  ASSUME NEW s \in State, NEW view \in Views,
         NEW status \in {"ok", "insufficient", "failed"},
         NEW code \in Codes \cup {"none"},
         status = "failed" => code \in Codes
  PROVE  AfterWorker(s, view, status, code) \in State
  <1> DEFINE results == [v \in Views |->
                           IF v = view THEN s.attempts[view]
                           ELSE IF view = "research" THEN 0 ELSE s.results[v]]
             summaries == [v \in Views |->
                           IF v = view THEN status
                           ELSE IF view = "research" THEN "none" ELSE s.summaries[v]]
             feedback == IF status = "insufficient" THEN s.feedback \cup {view}
                                                    ELSE s.feedback \ {view}
             t == [s EXCEPT
                !.results = results, !.summaries = summaries, !.feedback = feedback,
                !.report = 0, !.evaluation = 0, !.publication = 0,
                !.evidence_sufficient = FALSE,
                !.next_action = "supervisor"]
  <1>1. results \in [Views -> Nat]
    BY DEF State, Roles
  <1>2. summaries \in [Views -> {"none", "ok", "insufficient", "failed"}]
    BY DEF State
  <1>3. feedback \in SUBSET Actions
    BY DEF State, Actions, Roles
  <1>4. t \in State
    <2> HIDE DEF results, summaries, feedback
    <2> QED
      BY <1>1, <1>2, <1>3 DEF State
  <1>5. status = "failed" => stop(t, code) \in State
    BY <1>4, StopType
  <1> QED
    BY <1>4, <1>5 DEF AfterWorker

(* writer() returns a control state. *)
LEMMA WriterType ==
  ASSUME NEW s \in State, NEW status, NEW code,
         status = "failed" => code \in Codes
  PROVE  AfterWriter(s, status, code) \in State
  <1> DEFINE t == [s EXCEPT
                !.report = s.attempts["writer"],
                !.evaluation = 0, !.publication = 0, !.repair_source = 0,
                !.feedback = {}, !.next_action = "supervisor"]
  <1>1. t \in State
    BY DEF State, Roles
  <1>2. status = "failed" => stop(t, code) \in State
    BY <1>1, StopType
  <1> QED
    BY <1>1, <1>2 DEF AfterWriter

(* evaluate() returns a control state. *)
LEMMA EvaluateType ==
  ASSUME NEW s \in State, NEW status, NEW code, NEW repairs \in SUBSET Targets,
         status = "failed" => code \in Codes
  PROVE  AfterEvaluate(s, status, repairs, code) \in State
  <1> DEFINE n == s.attempts["evaluator"]
             t == [s EXCEPT
                !.evaluation = n,
                !.repair_source = IF repairs # {} THEN n ELSE 0,
                !.feedback = repairs, !.next_action = "supervisor"]
  <1>1. n \in Nat /\ repairs \in SUBSET Actions
    BY DEF State, Roles, Targets, Actions
  <1>2. t \in State
    BY <1>1 DEF State
  <1>3. status = "failed" => stop(t, code) \in State
    BY <1>2, StopType
  <1> QED
    BY <1>2, <1>3 DEF AfterEvaluate

(* publish() returns a control state. *)
LEMMA PublishType ==
  ASSUME NEW s \in State, NEW status, NEW code,
         status = "failed" => code \in Codes
  PROVE  AfterPublish(s, status, code) \in State
  <1> DEFINE t == [s EXCEPT !.publication = s.attempts["publish"]]
  <1>1. t \in State
    BY DEF State, Roles
  <1>2. status = "failed" => stop(t, code) \in State
    BY <1>1, StopType
  <1>3. [t EXCEPT !.status = "completed", !.next_action = "stop"] \in State
    BY <1>1 DEF State, Actions
  <1> QED
    BY <1>1, <1>2, <1>3 DEF AfterPublish

-------------------------------------------------------------------------------
(* Type correctness. *)

(* A handler that ends keeps the types if its control state and its        *)
(* artifact have theirs.                                                   *)
LEMMA FinishType ==
  ASSUME TypeOK, NEW p \in Process, NEW s \in State, Finish(p, s),
         artifacts' \subseteq File
  PROVE  TypeOK'
  BY DEF TypeOK, Finish

(* An exception in a handler keeps the types. *)
LEMMA RaiseType ==
  ASSUME TypeOK, NEW p \in Process, NEW code \in Codes, Raise(p, code)
  PROVE  TypeOK'
  <1>1. stop(mem[p], code) \in State
    BY StopType DEF TypeOK
  <1> QED
    BY <1>1, FinishType DEF Raise, TypeOK

(* Storing a result keeps the types, also when the slot is taken. *)
LEMMA RecordType ==
  ASSUME TypeOK, NEW p \in Process, NEW f \in File, NEW s \in State,
         Record(p, f, s)
  PROVE  TypeOK'
  <1>1. CASE Written(f.role, f.attempt)
    BY <1>1, RaiseType DEF Record, Codes
  <1>2. CASE ~Written(f.role, f.attempt)
    BY <1>2, FinishType DEF Record, put, TypeOK
  <1> QED
    BY <1>1, <1>2

(* The role of a process's marker is a node of the graph. *)
LEMMA RoleType ==
  ASSUME TypeOK, NEW p \in Process
  PROVE  /\ Role(p) \in Nodes
         /\ mem[p] \in State
         /\ mem[p].pending \in Request
  BY DEF TypeOK, State, Request, Role

(* The step of each node keeps the types. *)
LEMMA DecideTypes ==
  ASSUME TypeOK, NEW p \in Process, SuperviseLocally(p) \/ Decided(p)
  PROVE  TypeOK'
  <1>1. Decision(p) \in File
    BY RoleType DEF Decision, File, DecisionFile, State
  <1>2. CASE SuperviseLocally(p)
    <2>1. CASE Raise(p, "limit_exceeded")
      BY <2>1, RaiseType DEF Codes
    <2>2. ASSUME NEW action \in choices(mem[p]), Forced(mem[p]),
                 Record(p, Decision(p), AfterDecision(mem[p], action, TRUE, FALSE))
          PROVE  TypeOK'
      <3>1. action \in Actions
        BY <2>2 DEF Forced, Actions, Roles
      <3>2. AfterDecision(mem[p], action, TRUE, FALSE) \in State
        BY <3>1, DecisionType, RoleType
      <3> QED
        BY <1>1, <2>2, <3>2, RecordType
    <2> QED
      BY <1>2, <2>1, <2>2 DEF SuperviseLocally
  <1>3. CASE Decided(p)
    <2> PICK action \in Actions, sufficient \in BOOLEAN, notes \in BOOLEAN :
          IF Eligible(mem[p], action, sufficient)
          THEN Record(p, Decision(p),
                      AfterDecision(mem[p], action, sufficient, notes))
          ELSE Raise(p, "error")
      BY <1>3, Zenon DEF Decided
    <2>1. AfterDecision(mem[p], action, sufficient, notes) \in State
      BY DecisionType, RoleType
    <2>2. CASE Eligible(mem[p], action, sufficient)
      BY <1>1, <2>1, <2>2, RecordType
    <2>3. CASE ~Eligible(mem[p], action, sufficient)
      BY <2>3, RaiseType DEF Codes
    <2> QED
      BY <2>2, <2>3
  <1> QED
    BY <1>2, <1>3

LEMMA ResearchedTypes ==
  ASSUME TypeOK, NEW p \in Process, Researched(p)
  PROVE  TypeOK'
  <1> DEFINE f(status) ==
               [role    |-> Role(p), attempt |-> mem[p].attempts[Role(p)],
                status  |-> status,
                context |-> IF Role(p) = "research" THEN 0
                            ELSE mem[p].results["research"]]
  <1>1. PICK status \in {"ok", "insufficient", "failed"} :
                \E code \in FailureCodes(status) :
                   Record(p, f(status), AfterWorker(mem[p], Role(p), status, code))
    BY DEF Researched
  <1> PICK code \in FailureCodes(status) :
        Record(p, f(status), AfterWorker(mem[p], Role(p), status, code))
    BY <1>1
  <1>2. Role(p) \in Views
    BY DEF Researched
  <1>3. f(status) \in File
    BY <1>2, RoleType DEF File, ResearchFile, State, Roles, Views
  <1>4. /\ code \in Codes \cup {"none"}
        /\ status = "failed" => code \in Codes
    BY DEF FailureCodes, Codes
  <1>5. AfterWorker(mem[p], Role(p), status, code) \in State
    BY <1>2, <1>4, RoleType, WorkerType
  <1> QED
    <2> HIDE DEF f
    <2> QED
      BY <1>1, <1>3, <1>5, RecordType

LEMMA WrittenTypes ==
  ASSUME TypeOK, NEW p \in Process, ReportWritten(p)
  PROVE  TypeOK'
  <1> DEFINE f(status) ==
               [role   |-> "writer", attempt |-> mem[p].attempts["writer"],
                status |-> status, inputs |-> mem[p].results]
  <1>1. PICK status \in {"ok", "failed"} :
                \E code \in FailureCodes(status) :
                   Record(p, f(status), AfterWriter(mem[p], status, code))
    BY DEF ReportWritten
  <1> PICK code \in FailureCodes(status) :
        Record(p, f(status), AfterWriter(mem[p], status, code))
    BY <1>1
  <1>2. f(status) \in File
    BY RoleType DEF File, ReportFile, State, Roles
  <1>3. status = "failed" => code \in Codes
    BY DEF FailureCodes, Codes
  <1>4. AfterWriter(mem[p], status, code) \in State
    BY <1>3, RoleType, WriterType
  <1> QED
    <2> HIDE DEF f
    <2> QED
      BY <1>1, <1>2, <1>4, RecordType

LEMMA EvaluatedTypes ==
  ASSUME TypeOK, NEW p \in Process, Evaluated(p)
  PROVE  TypeOK'
  <1> DEFINE f(status, repairs) ==
               [role    |-> "evaluator",
                attempt |-> mem[p].attempts["evaluator"],
                status  |-> status, report |-> mem[p].report,
                passed  |-> status = "ok" /\ repairs = {},
                repairs |-> repairs]
  <1>1. PICK status \in {"ok", "failed"} :
            \E code \in FailureCodes(status) :
            \E repairs \in IF status = "ok" THEN SUBSET Targets ELSE {{}} :
               Record(p, f(status, repairs), AfterEvaluate(mem[p], status, repairs, code))
    BY DEF Evaluated
  <1> PICK code \in FailureCodes(status),
           repairs \in IF status = "ok" THEN SUBSET Targets ELSE {{}} :
               Record(p, f(status, repairs), AfterEvaluate(mem[p], status, repairs, code))
    BY <1>1
  <1>2. repairs \in SUBSET Targets
    OBVIOUS
  <1>3. f(status, repairs) \in File
    <2>1. mem[p].attempts["evaluator"] \in Nat /\ mem[p].report \in Nat
      BY RoleType DEF State, Roles
    <2>2. (status = "ok" /\ repairs = {}) \in BOOLEAN
      OBVIOUS
    <2>3. f(status, repairs) \in VerdictFile
      BY <1>2, <2>1, <2>2 DEF VerdictFile
    <2> QED
      BY <2>3 DEF File
  <1>4. status = "failed" => code \in Codes
    BY DEF FailureCodes, Codes
  <1>5. AfterEvaluate(mem[p], status, repairs, code) \in State
    BY <1>2, <1>4, RoleType, EvaluateType
  <1> QED
    <2> HIDE DEF f
    <2> QED
      BY <1>1, <1>3, <1>5, RecordType

LEMMA PublishedTypes ==
  ASSUME TypeOK, NEW p \in Process, Published(p)
  PROVE  TypeOK'
  <1> DEFINE f(status) ==
               [role   |-> "publish", attempt |-> mem[p].attempts["publish"],
                status |-> status, report |-> mem[p].report,
                evaluation |-> mem[p].evaluation]
  <1>1. PICK status \in {"ok", "failed"} :
                \E code \in FailureCodes(status) :
                   Record(p, f(status), AfterPublish(mem[p], status, code))
    BY DEF Published
  <1> PICK code \in FailureCodes(status) :
        Record(p, f(status), AfterPublish(mem[p], status, code))
    BY <1>1
  <1>2. f(status) \in File
    BY RoleType DEF File, PublishFile, State, Roles
  <1>3. status = "failed" => code \in Codes
    BY DEF FailureCodes, Codes
  <1>4. AfterPublish(mem[p], status, code) \in State
    BY <1>3, RoleType, PublishType
  <1> QED
    <2> HIDE DEF f
    <2> QED
      BY <1>1, <1>2, <1>4, RecordType

(* Every step keeps the types. *)
LEMMA StepTypes ==
  ASSUME TypeOK, [Next]_vars
  PROVE  TypeOK'
  <1>1. CASE UNCHANGED vars
    BY <1>1 DEF TypeOK, vars
  <1>2. ASSUME NEW p \in Process, Execute(p) \/ Control(p)
        PROVE  TypeOK'
    <2>1. CASE Begin(p)
      <3>1. at[p] \in Nodes
        BY <2>1 DEF TypeOK, Begin
      <3>2. Reserved(mem[p], at[p]) \in State
        BY <3>1, RoleType, ReservedType
      <3> QED
        BY <2>1, <3>2 DEF TypeOK, Begin
    <2>2. CASE Acknowledge(p)
      <3>1. [mem[p] EXCEPT !.next_action = "stop"] \in State
        BY RoleType DEF State, Actions
      <3> QED
        BY <2>2, <3>1 DEF TypeOK, Acknowledge
    <2>3. CASE SuperviseLocally(p)
      BY <2>3, DecideTypes
    <2>4. CASE Send(p)
      <3>1. CASE RequestAccepted(mem[p], Role(p))
        BY <2>4, <3>1, RoleType DEF TypeOK, Send
      <3>2. CASE ~RequestAccepted(mem[p], Role(p))
        BY <2>4, <3>2, RaiseType DEF Send, Codes
      <3> QED
        BY <3>1, <3>2
    <2>5. CASE CallRaises(p)
      BY <2>5, RaiseType DEF CallRaises, Codes
    <2>6. CASE Decided(p)
      BY <2>6, DecideTypes
    <2>7. CASE Researched(p)
      BY <2>7, ResearchedTypes
    <2>8. CASE ReportWritten(p)
      BY <2>8, WrittenTypes
    <2>9. CASE Evaluated(p)
      BY <2>9, EvaluatedTypes
    <2>10. CASE Published(p)
      BY <2>10, PublishedTypes
    <2>11. CASE Commit(p)
      <3>1. Settled(mem[p]) \in State
        BY RoleType, SettledType
      <3>2. Settled(mem[p]).next_action \in Nodes \cup {"stop"}
        BY <3>1 DEF State, Actions, Nodes
      <3>3. unknown' \subseteq sent
        BY <2>11 DEF Commit, TypeOK
      <3> QED
        BY <2>11, <3>1, <3>2, <3>3 DEF TypeOK, Commit, Nodes
    <2>12. CASE Return(p) \/ Pause(p) \/ Crash(p)
      BY <2>12, InitialType DEF TypeOK, Return, Pause, Crash, Leave
    <2>13. CASE Start(p)
      <3>1. initial.next_action \in Nodes
        BY DEF initial, Nodes
      <3> QED
        BY <2>13, <3>1, InitialType DEF TypeOK, Start, Enter
    <2>14. CASE Resume(p)
      <3>1. stop(snapshot, "uncertain_request") \in State
        BY StopType DEF TypeOK, Codes
      <3>2. snapshot.next_action \in Nodes \cup {"stop"}
        BY DEF TypeOK, State, Actions, Nodes
      <3> QED
        BY <2>14, <3>1, <3>2 DEF TypeOK, Resume, Enter
    <2> QED
      BY <1>2, <2>1, <2>2, <2>3, <2>4, <2>5, <2>6, <2>7, <2>8, <2>9, <2>10,
         <2>11, <2>12, <2>13, <2>14 DEF Execute, Control
  <1> QED
    BY <1>1, <1>2 DEF Next

(* In every reachable state all variables have their types: control states *)
(* stay within the schema of AgentState, and only well-formed artifacts    *)
(* are stored.                                                             *)
THEOREM TypeCorrect == Spec => []TypeOK
  <1>1. Init => TypeOK
    BY InitialType DEF Init, TypeOK
  <1>2. TypeOK /\ [Next]_vars => TypeOK'
    BY StepTypes
  <1> QED
    BY <1>1, <1>2, PTL DEF Spec

-------------------------------------------------------------------------------
(* The inductive invariant behind the write-ahead discipline. *)

(* At most one process executes the run. *)
RunsAlone ==
    \A p, q \in Process : pc[p] # "idle" /\ pc[q] # "idle" => p = q

(* The counters of s cover every request sent, except its pending one.     *)
Covers(s, r) ==
    r.attempt <= IF r.role = "supervisor" THEN s.step_count ELSE s.attempts[r.role]

Counted(s) == \A r \in sent : r = s.pending \/ Covers(s, r)
Recorded(s) == \A r \in sent : Covers(s, r)

(* What the disk says about the requests that were sent. *)
DiskOK ==
    /\ snapshot.status = "absent" => sent = {}
    /\ snapshot.status \in {"absent", "incomplete", "completed"} =>
          snapshot.pending = NoRequest
    /\ snapshot.status = "running" => Counted(snapshot)
    /\ NoRequest \notin sent

(* What the process that executes the run knows, phase by phase. *)
NodeOK(p) ==
    pc[p] = "node" =>
        /\ mem[p] = snapshot
        /\ snapshot.status # "absent"
        /\ snapshot.status = "running" => snapshot.pending = NoRequest
        /\ at[p] \in Roles => snapshot.status = "running"

HandlerOK(p) ==
    pc[p] \in {"begun", "calling"} =>
        /\ mem[p] = snapshot
        /\ snapshot.status = "running"
        /\ snapshot.pending # NoRequest
        /\ snapshot.pending.attempt <=
              IF snapshot.pending.role = "supervisor" THEN snapshot.step_count + 1
              ELSE snapshot.attempts[snapshot.pending.role]
        /\ pc[p] = "begun" => snapshot.pending \notin sent

(* The state a handler may hand to the second checkpoint. *)
Outcome(s) ==
    /\ s.status # "absent"
    /\ s.next_action \in Roles => s.status = "running"
    /\ s.status = "running" => Recorded(s)

DoneOK(p) ==
    pc[p] = "done" =>
        /\ snapshot.status = "running"
        /\ mem[p].pending = snapshot.pending
        /\ Outcome(mem[p])

IInv ==
    /\ TypeOK
    /\ RunsAlone
    /\ DiskOK
    /\ WriteAhead
    /\ \A p \in Process : NodeOK(p) /\ HandlerOK(p) /\ DoneOK(p)

(* A stopped control state is a legal outcome of any handler. *)
LEMMA StopOutcome ==
  ASSUME NEW s \in State, NEW code \in Codes
  PROVE  /\ Outcome(stop(s, code))
         /\ stop(s, code).pending = s.pending
         /\ stop(s, code).status \in {"needs_attention", "incomplete"}
  <1>1. /\ stop(s, code).next_action = "stop"
        /\ stop(s, code).status \in {"needs_attention", "incomplete"}
        /\ stop(s, code).pending = s.pending
    BY DEF stop, State
  <1>2. "stop" \notin Roles
    BY FollowUpsAssumption DEF Roles, Views
  <1> QED
    BY <1>1, <1>2 DEF Outcome

(* When the handler of a role other than the Supervisor runs, the counters *)
(* on disk cover every request sent, its own included; a decision makes    *)
(* them cover the request that asked for it.                               *)
LEMMA HandlerRecorded ==
  ASSUME IInv, NEW p \in Process, pc[p] \in {"begun", "calling"}
  PROVE  /\ Role(p) # "supervisor" => Recorded(mem[p])
         /\ \A s \in State :
               /\ Role(p) = "supervisor"
               /\ s.step_count = mem[p].step_count + 1
               /\ s.attempts = mem[p].attempts
               => Recorded(s)
  <1>1. /\ mem[p] = snapshot /\ snapshot \in State
        /\ snapshot.pending.attempt <=
              IF snapshot.pending.role = "supervisor" THEN snapshot.step_count + 1
              ELSE snapshot.attempts[snapshot.pending.role]
        /\ Counted(snapshot)
    BY DEF IInv, TypeOK, DiskOK, HandlerOK
  <1>2. CASE Role(p) # "supervisor"
    BY <1>1, <1>2 DEF Role, Counted, Recorded, Covers
  <1>3. CASE Role(p) = "supervisor"
    <2> SUFFICES ASSUME NEW s \in State,
                        s.step_count = mem[p].step_count + 1,
                        s.attempts = mem[p].attempts,
                        NEW r \in sent
                 PROVE  Covers(s, r)
      BY <1>3 DEF Recorded
    <2>1. r \in Request /\ snapshot.step_count \in Nat
      BY <1>1 DEF IInv, TypeOK, State
    <2>2. CASE r = snapshot.pending
      BY <1>1, <1>3, <2>2 DEF Role, Covers
    <2>3. CASE Covers(snapshot, r)
      BY <1>1, <2>1, <2>3 DEF Covers, Request
    <2> QED
      BY <1>1, <2>2, <2>3 DEF Counted
  <1> QED
    BY <1>2, <1>3

(* A handler that ends with a legal outcome keeps the invariant. *)
LEMMA FinishInv ==
  ASSUME IInv, NEW p \in Process, NEW s \in State,
         pc[p] \in {"begun", "calling"},
         Finish(p, s), TypeOK',
         s.pending = mem[p].pending, Outcome(s)
  PROVE  IInv'
  <1>1. /\ pc' = [pc EXCEPT ![p] = "done"]
        /\ mem' = [mem EXCEPT ![p] = s]
        /\ UNCHANGED <<snapshot, at, sent, unknown>>
        /\ pc'[p] = "done" /\ mem'[p] = s
        /\ \A q \in Process : q # p => pc'[q] = "idle"
    BY DEF IInv, Finish, TypeOK, RunsAlone
  <1>2. RunsAlone'
    BY <1>1 DEF RunsAlone
  <1>3. DiskOK' /\ WriteAhead'
    BY <1>1 DEF IInv, DiskOK, WriteAhead, Counted, Covers
  <1>4. mem[p] = snapshot /\ snapshot.status = "running"
    BY DEF IInv, HandlerOK
  <1>5. Outcome(s)'
    BY <1>1 DEF Outcome, Recorded, Covers
  <1>6. ASSUME NEW q \in Process
        PROVE  NodeOK(q)' /\ HandlerOK(q)' /\ DoneOK(q)'
    <2>1. CASE q = p
      BY <1>1, <1>4, <1>5, <2>1 DEF NodeOK, HandlerOK, DoneOK, Outcome, Recorded, Covers
    <2>2. CASE q # p
      BY <1>1, <2>2 DEF NodeOK, HandlerOK, DoneOK
    <2> QED
      BY <2>1, <2>2
  <1> QED
    BY <1>2, <1>3, <1>6 DEF IInv

(* An exception in a handler keeps the invariant. *)
LEMMA RaiseInv ==
  ASSUME IInv, NEW p \in Process, NEW code \in Codes,
         pc[p] \in {"begun", "calling"}, Raise(p, code), TypeOK'
  PROVE  IInv'
  <1>1. mem[p] \in State
    BY RoleType DEF IInv
  <1>2. stop(mem[p], code) \in State
    BY <1>1, StopType
  <1> QED
    BY <1>1, <1>2, StopOutcome, FinishInv DEF Raise

(* So does storing a result, whether the slot is free or taken. *)
LEMMA RecordInv ==
  ASSUME IInv, NEW p \in Process, NEW f, NEW s \in State,
         pc[p] \in {"begun", "calling"}, Record(p, f, s), TypeOK',
         s.pending = mem[p].pending, Outcome(s)
  PROVE  IInv'
  <1>1. CASE Written(f.role, f.attempt)
    BY <1>1, RaiseInv DEF Record, Codes
  <1>2. CASE ~Written(f.role, f.attempt)
    BY <1>2, FinishInv DEF Record
  <1> QED
    BY <1>1, <1>2

(* What a decision leaves. *)
LEMMA DecisionOutcome ==
  ASSUME IInv, NEW p \in Process, pc[p] \in {"begun", "calling"},
         Role(p) = "supervisor",
         NEW action \in Actions, NEW sufficient \in BOOLEAN, NEW notes \in BOOLEAN
  PROVE  LET s == AfterDecision(mem[p], action, sufficient, notes)
         IN  s.pending = mem[p].pending /\ Outcome(s)
  <1> DEFINE s == mem[p]
             t == [s EXCEPT
                !.next_action = action,
                !.step_count = @ + 1,
                !.evidence_sufficient = sufficient,
                !.feedback = IF notes \/ (action \in Views /\ s.attempts[action] > 0)
                             THEN @ \cup {action} ELSE @]
             u == AfterDecision(s, action, sufficient, notes)
  <1>1. s \in State /\ s.status = "running"
    BY RoleType DEF IInv, HandlerOK
  <1>2. u \in State
    BY <1>1, DecisionType
  <1>3. CASE action # "stop"
    <2>1. /\ u = t
          /\ t.pending = s.pending
          /\ t.status = "running"
          /\ t.step_count = s.step_count + 1
          /\ t.attempts = s.attempts
      BY <1>1, <1>3 DEF AfterDecision, State
    <2> HIDE DEF u, t
    <2>2. Recorded(u)
      BY <1>2, <2>1, HandlerRecorded
    <2> QED
      BY <2>1, <2>2 DEF Outcome, u
  <1>4. CASE action = "stop"
    <2>1. /\ u.pending = s.pending
          /\ u.next_action = "stop"
          /\ u.status = "incomplete"
      BY <1>1, <1>4 DEF AfterDecision, stop, State
    <2>2. "stop" \notin Roles
      BY FollowUpsAssumption DEF Roles, Views
    <2> HIDE DEF u
    <2>3. Outcome(u)
      BY <2>1, <2>2 DEF Outcome
    <2> QED
      BY <2>1, <2>3 DEF u
  <1> QED
    BY <1>3, <1>4

(* A control state that returns to the Supervisor with the same counters,  *)
(* and any state that ends the run, is a legal outcome.                    *)
LEMMA ReturnOutcome ==
  ASSUME IInv, NEW p \in Process, pc[p] \in {"begun", "calling"},
         Role(p) # "supervisor", NEW t \in State,
         t.status # "absent",
         t.status # "running" => t.next_action = "stop",
         t.step_count = mem[p].step_count, t.attempts = mem[p].attempts
  PROVE  Outcome(t)
  <1>1. Recorded(t)
    BY HandlerRecorded DEF Recorded, Covers
  <1>2. "stop" \notin Roles
    BY FollowUpsAssumption DEF Roles, Views
  <1> QED
    BY <1>1, <1>2 DEF Outcome

LEMMA WorkerOutcome ==
  ASSUME IInv, NEW p \in Process, pc[p] \in {"begun", "calling"},
         Role(p) \in Views,
         NEW status \in {"ok", "insufficient", "failed"},
         NEW code \in FailureCodes(status)
  PROVE  LET s == AfterWorker(mem[p], Role(p), status, code)
         IN  s \in State /\ s.pending = mem[p].pending /\ Outcome(s)
  <1> DEFINE s == AfterWorker(mem[p], Role(p), status, code)
  <1>1. /\ code \in Codes \cup {"none"}
        /\ status = "failed" => code \in Codes
    BY DEF FailureCodes, Codes
  <1>2. mem[p] \in State /\ mem[p].status = "running"
    BY RoleType DEF IInv, HandlerOK
  <1>3. s \in State
    BY <1>1, <1>2, WorkerType
  <1>4. /\ s.pending = mem[p].pending
        /\ s.status \in {"running", "incomplete", "needs_attention"}
        /\ s.status # "running" => s.next_action = "stop"
        /\ s.step_count = mem[p].step_count
        /\ s.attempts = mem[p].attempts
    BY <1>2 DEF AfterWorker, stop, State
  <1>5. Role(p) # "supervisor"
    BY FollowUpsAssumption DEF Views
  <1> HIDE DEF s
  <1>6. Outcome(s)
    BY <1>3, <1>4, <1>5, ReturnOutcome
  <1> QED
    BY <1>3, <1>4, <1>6 DEF s

LEMMA WriterOutcome ==
  ASSUME IInv, NEW p \in Process, pc[p] \in {"begun", "calling"},
         Role(p) = "writer",
         NEW status \in {"ok", "failed"}, NEW code \in FailureCodes(status)
  PROVE  LET s == AfterWriter(mem[p], status, code)
         IN  s \in State /\ s.pending = mem[p].pending /\ Outcome(s)
  <1> DEFINE s == AfterWriter(mem[p], status, code)
  <1>1. mem[p] \in State /\ mem[p].status = "running"
    BY RoleType DEF IInv, HandlerOK
  <1>2. s \in State
    BY <1>1, WriterType DEF FailureCodes, Codes
  <1>3. /\ s.pending = mem[p].pending
        /\ s.status \in {"running", "incomplete", "needs_attention"}
        /\ s.status # "running" => s.next_action = "stop"
        /\ s.step_count = mem[p].step_count
        /\ s.attempts = mem[p].attempts
    BY <1>1 DEF AfterWriter, stop, State
  <1> HIDE DEF s
  <1>4. Outcome(s)
    BY <1>2, <1>3, ReturnOutcome
  <1> QED
    BY <1>2, <1>3, <1>4 DEF s

LEMMA EvaluateOutcome ==
  ASSUME IInv, NEW p \in Process, pc[p] \in {"begun", "calling"},
         Role(p) = "evaluator", NEW repairs \in SUBSET Targets,
         NEW status \in {"ok", "failed"}, NEW code \in FailureCodes(status)
  PROVE  LET s == AfterEvaluate(mem[p], status, repairs, code)
         IN  s \in State /\ s.pending = mem[p].pending /\ Outcome(s)
  <1> DEFINE s == AfterEvaluate(mem[p], status, repairs, code)
  <1>1. mem[p] \in State /\ mem[p].status = "running"
    BY RoleType DEF IInv, HandlerOK
  <1>2. s \in State
    BY <1>1, EvaluateType DEF FailureCodes, Codes
  <1>3. /\ s.pending = mem[p].pending
        /\ s.status \in {"running", "incomplete", "needs_attention"}
        /\ s.status # "running" => s.next_action = "stop"
        /\ s.step_count = mem[p].step_count
        /\ s.attempts = mem[p].attempts
    BY <1>1 DEF AfterEvaluate, stop, State
  <1> HIDE DEF s
  <1>4. Outcome(s)
    BY <1>2, <1>3, ReturnOutcome
  <1> QED
    BY <1>2, <1>3, <1>4 DEF s

LEMMA PublishOutcome ==
  ASSUME IInv, NEW p \in Process, pc[p] \in {"begun", "calling"},
         Role(p) = "publish",
         NEW status \in {"ok", "failed"}, NEW code \in FailureCodes(status)
  PROVE  LET s == AfterPublish(mem[p], status, code)
         IN  s \in State /\ s.pending = mem[p].pending /\ Outcome(s)
  <1> DEFINE s == AfterPublish(mem[p], status, code)
  <1>1. mem[p] \in State /\ mem[p].status = "running"
    BY RoleType DEF IInv, HandlerOK
  <1>2. s \in State
    BY <1>1, PublishType DEF FailureCodes, Codes
  <1>3. /\ s.pending = mem[p].pending
        /\ s.status \in {"completed", "incomplete", "needs_attention"}
        /\ s.next_action = "stop"
        /\ s.step_count = mem[p].step_count
        /\ s.attempts = mem[p].attempts
    BY <1>1 DEF AfterPublish, stop, State
  <1> HIDE DEF s
  <1>4. Outcome(s)
    BY <1>2, <1>3, ReturnOutcome
  <1> QED
    BY <1>2, <1>3, <1>4 DEF s

(* The end of every handler keeps the invariant. *)
LEMMA HandlersInv ==
  ASSUME IInv, NEW p \in Process, TypeOK',
         \/ SuperviseLocally(p) \/ CallRaises(p) \/ Decided(p) \/ Researched(p)
         \/ ReportWritten(p) \/ Evaluated(p) \/ Published(p)
  PROVE  IInv'
  <1>1. CASE SuperviseLocally(p)
    <2>1. CASE Raise(p, "limit_exceeded")
      BY <1>1, <2>1, RaiseInv DEF SuperviseLocally, Codes
    <2>2. ASSUME NEW action \in choices(mem[p]), Forced(mem[p]),
                 Record(p, Decision(p), AfterDecision(mem[p], action, TRUE, FALSE))
          PROVE  IInv'
      <3>1. action \in Actions
        BY <2>2 DEF Forced, Actions, Roles
      <3>2. AfterDecision(mem[p], action, TRUE, FALSE) \in State
        BY <3>1, DecisionType, RoleType DEF IInv
      <3>3. pc[p] = "begun" /\ Role(p) = "supervisor"
        BY <1>1 DEF SuperviseLocally
      <3> QED
        BY <2>2, <3>1, <3>2, <3>3, DecisionOutcome, RecordInv
    <2> QED
      BY <1>1, <2>1, <2>2 DEF SuperviseLocally
  <1>2. CASE CallRaises(p)
    BY <1>2, RaiseInv DEF CallRaises, Codes
  <1>3. CASE Decided(p)
    <2> PICK action \in Actions, sufficient \in BOOLEAN, notes \in BOOLEAN :
          IF Eligible(mem[p], action, sufficient)
          THEN Record(p, Decision(p),
                      AfterDecision(mem[p], action, sufficient, notes))
          ELSE Raise(p, "error")
      BY <1>3, Zenon DEF Decided
    <2>1. pc[p] = "calling" /\ Role(p) = "supervisor"
      BY <1>3 DEF Decided
    <2>2. AfterDecision(mem[p], action, sufficient, notes) \in State
      BY DecisionType, RoleType DEF IInv
    <2>3. CASE Eligible(mem[p], action, sufficient)
      BY <2>1, <2>2, <2>3, DecisionOutcome, RecordInv
    <2>4. CASE ~Eligible(mem[p], action, sufficient)
      BY <2>1, <2>4, RaiseInv DEF Codes
    <2> QED
      BY <2>3, <2>4
  <1>4. CASE Researched(p)
    <2>1. PICK status \in {"ok", "insufficient", "failed"} :
          \E code \in FailureCodes(status) :
          \E f : Record(p, f, AfterWorker(mem[p], Role(p), status, code))
      BY <1>4 DEF Researched
    <2>2. pc[p] = "calling" /\ Role(p) \in Views
      BY <1>4 DEF Researched
    <2> QED
      BY <2>1, <2>2, WorkerOutcome, RecordInv
  <1>5. CASE ReportWritten(p)
    <2>1. PICK status \in {"ok", "failed"} :
          \E code \in FailureCodes(status) :
          \E f : Record(p, f, AfterWriter(mem[p], status, code))
      BY <1>5 DEF ReportWritten
    <2>2. pc[p] = "calling" /\ Role(p) = "writer"
      BY <1>5 DEF ReportWritten
    <2> QED
      BY <2>1, <2>2, WriterOutcome, RecordInv
  <1>6. CASE Evaluated(p)
    <2>1. PICK status \in {"ok", "failed"} :
          \E code \in FailureCodes(status) :
          \E repairs \in IF status = "ok" THEN SUBSET Targets ELSE {{}} :
          \E f : Record(p, f, AfterEvaluate(mem[p], status, repairs, code))
      BY <1>6 DEF Evaluated
    <2>2. pc[p] = "calling" /\ Role(p) = "evaluator"
      BY <1>6 DEF Evaluated
    <2>3. \A repairs \in IF status = "ok" THEN SUBSET Targets ELSE {{}} :
             repairs \in SUBSET Targets
      OBVIOUS
    <2> QED
      BY <2>1, <2>2, <2>3, EvaluateOutcome, RecordInv
  <1>7. CASE Published(p)
    <2>1. PICK status \in {"ok", "failed"} :
          \E code \in FailureCodes(status) :
          \E f : Record(p, f, AfterPublish(mem[p], status, code))
      BY <1>7 DEF Published
    <2>2. pc[p] = "calling" /\ Role(p) = "publish"
      BY <1>7 DEF Published
    <2> QED
      BY <2>1, <2>2, PublishOutcome, RecordInv
  <1> QED
    BY <1>1, <1>2, <1>3, <1>4, <1>5, <1>6, <1>7

(* Begin: the marker that replaces the cleared one is fresh, because the   *)
(* counters on disk cover everything that was sent.                        *)
LEMMA BeginInv ==
  ASSUME IInv, NEW p \in Process, Begin(p), TypeOK'
  PROVE  IInv'
  <1> DEFINE s == Reserved(snapshot, at[p])
  <1>1. /\ pc[p] = "node" /\ mem[p] = snapshot /\ snapshot \in State
        /\ at[p] \in Nodes
        /\ snapshot.status = "running"
        /\ snapshot.pending = NoRequest
        /\ Counted(snapshot)
    BY DEF IInv, TypeOK, Begin, NodeOK, DiskOK, Acknowledging, Nodes
  <1>2. /\ snapshot' = s /\ mem' = [mem EXCEPT ![p] = s]
        /\ pc' = [pc EXCEPT ![p] = "begun"]
        /\ UNCHANGED <<artifacts, at, sent, unknown>>
        /\ pc'[p] = "begun" /\ mem'[p] = s
        /\ \A q \in Process : q # p => pc'[q] = "idle"
    BY <1>1 DEF IInv, TypeOK, Begin, RunsAlone
  <1>3. Recorded(snapshot)
    BY <1>1 DEF Counted, Recorded, IInv, DiskOK
  <1>4. /\ s.status = "running"
        /\ s.pending \in Request /\ s.pending.role = at[p]
        /\ s.pending.attempt \in Nat \ {0}
        /\ ~Covers(snapshot, s.pending)
        /\ s.pending.attempt <= IF at[p] = "supervisor" THEN s.step_count + 1
                                                        ELSE s.attempts[at[p]]
        /\ \A r \in Request : Covers(snapshot, r) => Covers(s, r)
    <2>1. snapshot.step_count \in Nat /\ snapshot.attempts \in [Roles -> Nat]
      BY <1>1 DEF State
    <2>2. CASE at[p] = "supervisor"
      <3>1. /\ s.pending = [role |-> at[p], attempt |-> snapshot.step_count + 1]
            /\ s.status = "running"
            /\ s.step_count = snapshot.step_count
            /\ s.attempts = snapshot.attempts
        BY <1>1, <2>2 DEF Reserved, State
      <3> HIDE DEF s
      <3> QED
        BY <1>1, <2>1, <2>2, <3>1 DEF Covers, Request
    <2>3. CASE at[p] # "supervisor"
      <3>1. at[p] \in Roles
        BY <1>1, <2>3 DEF Nodes
      <3>2. /\ s.pending = [role |-> at[p], attempt |-> snapshot.attempts[at[p]] + 1]
            /\ s.status = "running"
            /\ s.step_count = snapshot.step_count
            /\ s.attempts = [snapshot.attempts EXCEPT ![at[p]] = @ + 1]
        BY <1>1, <2>3 DEF Reserved, State
      <3> HIDE DEF s
      <3>3. s.attempts[at[p]] = snapshot.attempts[at[p]] + 1
        BY <2>1, <3>1, <3>2
      <3>4. ASSUME NEW r \in Request, Covers(snapshot, r)
            PROVE  Covers(s, r)
        <4>1. r.role = "supervisor" \/ r.role \in Roles
          BY DEF Request, Nodes
        <4>2. r.attempt \in Nat
          BY DEF Request
        <4>3. CASE r.role = "supervisor"
          BY <3>2, <3>4, <4>3 DEF Covers
        <4>4. CASE r.role # "supervisor" /\ r.role # at[p]
          <5>1. s.attempts[r.role] = snapshot.attempts[r.role]
            BY <2>1, <3>2, <4>1, <4>4
          <5> QED
            BY <3>4, <4>4, <5>1 DEF Covers
        <4>5. CASE r.role # "supervisor" /\ r.role = at[p]
          BY <2>1, <3>1, <3>3, <3>4, <4>2, <4>5 DEF Covers
        <4> QED
          BY <4>3, <4>4, <4>5
      <3>5. s.pending \in Request
        BY <1>1, <2>1, <3>1, <3>2 DEF Request
      <3>6. /\ s.pending.attempt \in Nat \ {0}
            /\ ~Covers(snapshot, s.pending)
        BY <2>1, <2>3, <3>1, <3>2 DEF Covers
      <3> QED
        BY <2>1, <2>3, <3>1, <3>2, <3>3, <3>4, <3>5, <3>6
    <2> QED
      BY <2>2, <2>3
  <1> HIDE DEF s
  <1>5. s.pending # NoRequest /\ s.pending \notin sent
    BY <1>3, <1>4 DEF Recorded, NoRequest
  <1>6. unknown = {}
    BY <1>1 DEF IInv, WriteAhead, DiskOK, TypeOK
  <1>7. RunsAlone'
    BY <1>2 DEF RunsAlone
  <1>8. DiskOK' /\ WriteAhead'
    <2>1. Recorded(s)
      BY <1>3, <1>4 DEF Recorded, IInv, TypeOK
    <2>2. Counted(snapshot)'
      BY <1>2, <2>1 DEF Recorded, Counted, Covers
    <2> QED
      BY <1>2, <1>4, <1>6, <2>2 DEF IInv, DiskOK, WriteAhead
  <1>9. ASSUME NEW q \in Process
        PROVE  NodeOK(q)' /\ HandlerOK(q)' /\ DoneOK(q)'
    <2>1. CASE q = p
      BY <1>2, <1>4, <1>5, <2>1 DEF NodeOK, HandlerOK, DoneOK
    <2>2. CASE q # p
      BY <1>2, <2>2 DEF NodeOK, HandlerOK, DoneOK
    <2> QED
      BY <2>1, <2>2
  <1> QED
    BY <1>7, <1>8, <1>9 DEF IInv

(* Send: the request becomes one that was sent, and the one of unknown     *)
(* outcome is the marker on disk.                                          *)
LEMMA SendInv ==
  ASSUME IInv, NEW p \in Process, Send(p), TypeOK'
  PROVE  IInv'
  <1>1. CASE ~RequestAccepted(mem[p], Role(p))
    BY <1>1, RaiseInv DEF Send, Codes
  <1>2. CASE RequestAccepted(mem[p], Role(p))
    <2>1. /\ pc[p] = "begun" /\ mem[p] = snapshot
          /\ snapshot.status = "running" /\ snapshot.pending # NoRequest
      BY DEF IInv, Send, HandlerOK
    <2>2. /\ sent' = sent \cup {snapshot.pending}
          /\ unknown' = unknown \cup {snapshot.pending}
          /\ pc' = [pc EXCEPT ![p] = "calling"]
          /\ UNCHANGED <<snapshot, artifacts, mem, at>>
          /\ pc'[p] = "calling"
          /\ \A q \in Process : q # p => pc'[q] = "idle"
      BY <1>2, <2>1 DEF IInv, TypeOK, Send, RunsAlone
    <2>3. RunsAlone'
      BY <2>2 DEF RunsAlone
    <2>4. DiskOK' /\ WriteAhead'
      BY <2>1, <2>2 DEF IInv, DiskOK, WriteAhead, Counted, Covers
    <2>5. ASSUME NEW q \in Process
          PROVE  NodeOK(q)' /\ HandlerOK(q)' /\ DoneOK(q)'
      <3>1. CASE q = p
        BY <2>1, <2>2, <3>1 DEF IInv, NodeOK, HandlerOK, DoneOK
      <3>2. CASE q # p
        BY <2>2, <3>2 DEF NodeOK, HandlerOK, DoneOK
      <3> QED
        BY <3>1, <3>2
    <2> QED
      BY <2>3, <2>4, <2>5 DEF IInv
  <1> QED
    BY <1>1, <1>2

(* Commit: the marker is cleared exactly when the outcome is known. *)
LEMMA CommitInv ==
  ASSUME IInv, NEW p \in Process, Commit(p), TypeOK'
  PROVE  IInv'
  <1> DEFINE s == Settled(mem[p])
  <1>1. /\ pc[p] = "done" /\ mem[p] \in State
        /\ snapshot.status = "running"
        /\ mem[p].pending = snapshot.pending
        /\ Outcome(mem[p])
    BY DEF IInv, TypeOK, Commit, DoneOK
  <1>2. /\ snapshot' = s /\ mem'[p] = s
        /\ pc' = [pc EXCEPT ![p] = "node"]
        /\ at'[p] = IF Role(p) = "supervisor" THEN s.next_action ELSE "supervisor"
        /\ unknown' = IF mem[p].status = "needs_attention" THEN unknown
                      ELSE unknown \ {mem[p].pending}
        /\ UNCHANGED <<artifacts, sent>>
        /\ pc'[p] = "node"
        /\ \A q \in Process : q # p => pc'[q] = "idle"
    BY <1>1 DEF IInv, TypeOK, Commit, RunsAlone
  <1>3. /\ s.status = mem[p].status
        /\ s.next_action = mem[p].next_action
        /\ s.step_count = mem[p].step_count
        /\ s.attempts = mem[p].attempts
        /\ s.pending = IF mem[p].status = "needs_attention" THEN snapshot.pending
                       ELSE NoRequest
    BY <1>1 DEF Settled, State
  <1> HIDE DEF s
  <1>4. RunsAlone'
    BY <1>2 DEF RunsAlone
  <1>5. DiskOK' /\ WriteAhead'
    <2>1. s.status = "running" => Recorded(s)
      BY <1>1, <1>3 DEF Outcome, Recorded, Covers
    <2>2. (snapshot.status = "running" => Counted(snapshot))'
      BY <1>2, <2>1 DEF Recorded, Counted, Covers
    <2>3. unknown \subseteq {mem[p].pending}
      BY <1>1 DEF IInv, WriteAhead
    <2>4. WriteAhead'
      BY <1>1, <1>2, <1>3, <2>3 DEF WriteAhead
    <2>5. s.status # "absent"
      BY <1>1, <1>3 DEF Outcome
    <2> QED
      BY <1>2, <1>3, <2>2, <2>4, <2>5 DEF IInv, DiskOK
  <1>6. ASSUME NEW q \in Process
        PROVE  NodeOK(q)' /\ HandlerOK(q)' /\ DoneOK(q)'
    <2>1. CASE q = p
      <3>1. "supervisor" \notin Roles
        BY FollowUpsAssumption DEF Roles, Views
      <3>2. NodeOK(p)'
        BY <1>1, <1>2, <1>3, <3>1 DEF NodeOK, Outcome
      <3> QED
        BY <1>2, <2>1, <3>2 DEF HandlerOK, DoneOK
    <2>2. CASE q # p
      BY <1>2, <2>2 DEF NodeOK, HandlerOK, DoneOK
    <2> QED
      BY <2>1, <2>2
  <1> QED
    BY <1>4, <1>5, <1>6 DEF IInv

(* The final acknowledgement changes nothing the invariant is about. *)
LEMMA AcknowledgeInv ==
  ASSUME IInv, NEW p \in Process, Acknowledge(p), TypeOK'
  PROVE  IInv'
  <1> DEFINE s == [snapshot EXCEPT !.next_action = "stop"]
  <1>1. /\ pc[p] = "node" /\ mem[p] = snapshot /\ snapshot \in State
        /\ snapshot.status \notin {"absent", "running"}
    BY DEF IInv, TypeOK, Acknowledge, Acknowledging, NodeOK
  <1>2. /\ snapshot' = s /\ mem'[p] = s /\ at'[p] = "stop"
        /\ UNCHANGED <<artifacts, pc, sent, unknown>>
        /\ \A q \in Process : q # p => pc'[q] = "idle"
    BY <1>1 DEF IInv, TypeOK, Acknowledge, RunsAlone
  <1>3. s.status = snapshot.status /\ s.pending = snapshot.pending
    BY <1>1 DEF State
  <1>4. "stop" \notin Roles
    BY FollowUpsAssumption DEF Roles, Views
  <1> HIDE DEF s
  <1>5. RunsAlone' /\ DiskOK' /\ WriteAhead'
    BY <1>1, <1>2, <1>3 DEF IInv, RunsAlone, DiskOK, WriteAhead
  <1>6. ASSUME NEW q \in Process
        PROVE  NodeOK(q)' /\ HandlerOK(q)' /\ DoneOK(q)'
    <2>1. CASE q = p
      BY <1>1, <1>2, <1>3, <1>4, <2>1 DEF NodeOK, HandlerOK, DoneOK
    <2>2. CASE q # p
      BY <1>2, <2>2 DEF NodeOK, HandlerOK, DoneOK
    <2> QED
      BY <2>1, <2>2
  <1> QED
    BY <1>5, <1>6 DEF IInv

(* Starting, resuming and leaving the run. *)
LEMMA StartInv ==
  ASSUME IInv, NEW p \in Process, Start(p), TypeOK'
  PROVE  IInv'
  <1>1. /\ sent = {} /\ unknown = {}
        /\ \A q \in Process : pc[q] = "idle"
    BY DEF IInv, TypeOK, Start, Unlocked, DiskOK
  <1>2. /\ snapshot' = initial /\ mem'[p] = initial /\ at'[p] = "supervisor"
        /\ sent' = {} /\ unknown' = {}
        /\ pc'[p] = "node"
        /\ \A q \in Process : q # p => pc'[q] = "idle"
    BY <1>1 DEF IInv, TypeOK, Start, Enter, initial
  <1>3. initial.status = "running" /\ initial.pending = NoRequest
    BY DEF initial
  <1>4. RunsAlone' /\ DiskOK' /\ WriteAhead'
    BY <1>2, <1>3 DEF RunsAlone, DiskOK, WriteAhead, Counted
  <1>5. ASSUME NEW q \in Process
        PROVE  NodeOK(q)' /\ HandlerOK(q)' /\ DoneOK(q)'
    BY <1>2, <1>3 DEF NodeOK, HandlerOK, DoneOK
  <1> QED
    BY <1>4, <1>5 DEF IInv

LEMMA ResumeInv ==
  ASSUME IInv, NEW p \in Process, Resume(p), TypeOK'
  PROVE  IInv'
  <1>1. \A q \in Process : pc[q] = "idle"
    BY DEF Resume, Unlocked
  <1>2. CASE /\ snapshot.pending # NoRequest
             /\ snapshot' = stop(snapshot, "uncertain_request")
             /\ UNCHANGED <<pc, mem, at, sent, unknown>>
    <2>1. /\ snapshot'.status = "needs_attention"
          /\ snapshot'.pending = snapshot.pending
      BY <1>2 DEF IInv, TypeOK, State, stop
    <2>2. RunsAlone' /\ DiskOK' /\ WriteAhead'
      BY <1>2, <2>1 DEF IInv, RunsAlone, DiskOK, WriteAhead
    <2>3. ASSUME NEW q \in Process
          PROVE  NodeOK(q)' /\ HandlerOK(q)' /\ DoneOK(q)'
      BY <1>1, <1>2 DEF NodeOK, HandlerOK, DoneOK
    <2> QED
      BY <2>2, <2>3 DEF IInv
  <1>3. CASE UNCHANGED <<snapshot, pc, mem, at, sent, unknown>>
    BY <1>3 DEF IInv, RunsAlone, DiskOK, WriteAhead, Counted, Covers, NodeOK,
                HandlerOK, DoneOK, Outcome, Recorded
  <1>4. CASE /\ snapshot.pending = NoRequest /\ snapshot.status = "running"
             /\ Enter(p, snapshot)
             /\ UNCHANGED <<snapshot, sent, unknown>>
    <2>1. /\ mem'[p] = snapshot /\ pc'[p] = "node"
          /\ \A q \in Process : q # p => pc'[q] = "idle"
      BY <1>1, <1>4 DEF IInv, TypeOK, Enter
    <2>2. RunsAlone' /\ DiskOK' /\ WriteAhead'
      BY <1>4, <2>1 DEF IInv, RunsAlone, DiskOK, WriteAhead, Counted, Covers
    <2>3. ASSUME NEW q \in Process
          PROVE  NodeOK(q)' /\ HandlerOK(q)' /\ DoneOK(q)'
      BY <1>4, <2>1 DEF NodeOK, HandlerOK, DoneOK
    <2> QED
      BY <2>2, <2>3 DEF IInv
  <1> QED
    BY <1>2, <1>3, <1>4 DEF Resume

LEMMA LeaveInv ==
  ASSUME IInv, NEW p \in Process, TypeOK',
         Leave(p), UNCHANGED <<snapshot, artifacts, sent, unknown>>
  PROVE  IInv'
  <1>1. /\ pc'[p] = "idle"
        /\ \A q \in Process : q # p => /\ pc'[q] = pc[q] /\ mem'[q] = mem[q]
                                       /\ at'[q] = at[q]
    BY DEF IInv, TypeOK, Leave
  <1>2. RunsAlone' /\ DiskOK' /\ WriteAhead'
    BY <1>1 DEF IInv, RunsAlone, DiskOK, WriteAhead, Counted, Covers
  <1>3. ASSUME NEW q \in Process
        PROVE  NodeOK(q)' /\ HandlerOK(q)' /\ DoneOK(q)'
    <2>1. CASE q = p
      BY <1>1, <2>1 DEF NodeOK, HandlerOK, DoneOK
    <2>2. CASE q # p
      BY <1>1, <2>2 DEF IInv, NodeOK, HandlerOK, DoneOK, Outcome, Recorded, Covers
    <2> QED
      BY <2>1, <2>2
  <1> QED
    BY <1>2, <1>3 DEF IInv

LEMMA StepInv ==
  ASSUME IInv, [Next]_vars
  PROVE  IInv'
  <1>1. TypeOK'
    BY StepTypes DEF IInv
  <1>2. CASE UNCHANGED vars
    BY <1>1, <1>2 DEF vars, IInv, RunsAlone, DiskOK, WriteAhead, Counted, Covers,
                      NodeOK, HandlerOK, DoneOK, Outcome, Recorded
  <1>3. ASSUME NEW p \in Process, Execute(p)
        PROVE  IInv'
    BY <1>1, <1>3, BeginInv, AcknowledgeInv, SendInv, HandlersInv, CommitInv,
       LeaveInv DEF Execute, Return
  <1>4. ASSUME NEW p \in Process, Control(p)
        PROVE  IInv'
    BY <1>1, <1>4, StartInv, ResumeInv, LeaveInv DEF Control, Pause, Crash
  <1> QED
    BY <1>2, <1>3, <1>4 DEF Next

(* The invariant holds throughout every execution. *)
THEOREM Invariance == Spec => []IInv
  <1>1. Init => IInv
    <2> SUFFICES ASSUME Init PROVE IInv
      OBVIOUS
    <2>1. TypeOK
      BY InitialType DEF Init, TypeOK
    <2>2. Absent.status = "absent" /\ Absent.pending = NoRequest
      BY DEF Absent, initial
    <2>3. DiskOK /\ WriteAhead
      BY <2>2 DEF Init, DiskOK, WriteAhead
    <2>4. \A p \in Process : pc[p] = "idle"
      BY DEF Init
    <2> QED
      BY <2>1, <2>3, <2>4 DEF IInv, RunsAlone, NodeOK, HandlerOK, DoneOK
  <1>2. IInv /\ [Next]_vars => IInv'
    BY StepInv
  <1> QED
    BY <1>1, <1>2, PTL DEF Spec

(* A request that was sent and whose outcome is not on disk is the one     *)
(* snapshot.json names as pending.                                         *)
THEOREM WriteAheadCorrect == Spec => []WriteAhead
  <1>1. IInv => WriteAhead
    BY DEF IInv
  <1> QED
    BY <1>1, Invariance, PTL

-------------------------------------------------------------------------------
(* The run implements AtMostOnceRun. *)

(* Handlers end in memory and in artifacts: nothing that the abstract run  *)
(* shows changes before the second checkpoint.                             *)
LEMMA HandlersStutter ==
  ASSUME NEW p \in Process,
         \/ SuperviseLocally(p) \/ CallRaises(p) \/ Decided(p) \/ Researched(p)
         \/ ReportWritten(p) \/ Evaluated(p) \/ Published(p)
  PROVE  UNCHANGED <<snapshot, sent, unknown>>
  <1>1. \A code : Raise(p, code) => UNCHANGED <<snapshot, sent, unknown>>
    BY DEF Raise, Finish
  <1>2. \A f, s : Record(p, f, s) => UNCHANGED <<snapshot, sent, unknown>>
    BY <1>1 DEF Record, Finish
  <1>3. CASE SuperviseLocally(p)
    BY <1>1, <1>2, <1>3 DEF SuperviseLocally
  <1>4. CASE CallRaises(p)
    BY <1>1, <1>4 DEF CallRaises
  <1>5. CASE Decided(p)
    BY <1>1, <1>2, <1>5, Zenon DEF Decided
  <1>6. CASE Researched(p)
    BY <1>2, <1>6 DEF Researched
  <1>7. CASE ReportWritten(p)
    BY <1>2, <1>7 DEF ReportWritten
  <1>8. CASE Evaluated(p)
    BY <1>2, <1>8 DEF Evaluated
  <1>9. CASE Published(p)
    BY <1>2, <1>9 DEF Published
  <1> QED
    BY <1>3, <1>4, <1>5, <1>6, <1>7, <1>8, <1>9

(* Sending is Issue: nothing is open, and the request is new. *)
LEMMA SendIssues ==
  ASSUME IInv, NEW p \in Process, Send(p)
  PROVE  [Promise!Next]_(Promise!vars)
  <1>1. /\ mem[p] = snapshot /\ snapshot.status = "running"
        /\ snapshot.pending \notin sent
    BY DEF IInv, Send, HandlerOK
  <1>2. unknown = {}
    BY <1>1 DEF IInv, WriteAhead, TypeOK
  <1>3. CASE RequestAccepted(mem[p], Role(p))
    <2>1. /\ sent' = sent \cup {snapshot.pending}
          /\ unknown' = {snapshot.pending}
          /\ snapshot' = snapshot
      BY <1>1, <1>2, <1>3 DEF Send
    <2>2. snapshot.pending \in sent' \ sent
      BY <1>1, <2>1
    <2>3. Promise!Issue
      BY <1>1, <1>2, <2>1, <2>2 DEF Promise!Issue
    <2> QED
      BY <2>3 DEF Promise!Next
  <1>4. CASE ~RequestAccepted(mem[p], Role(p))
    BY <1>4 DEF Send, Raise, Finish, Promise!vars
  <1> QED
    BY <1>3, <1>4

(* The second checkpoint is Conclude, or Abandon if the outcome of the     *)
(* request is still unknown.                                               *)
LEMMA CommitConcludes ==
  ASSUME IInv, NEW p \in Process, Commit(p)
  PROVE  Promise!Conclude \/ Promise!Abandon
  <1>1. /\ mem[p] \in State
        /\ snapshot.status = "running"
        /\ mem[p].pending = snapshot.pending
        /\ mem[p].status # "absent"
    BY DEF IInv, TypeOK, Commit, DoneOK, Outcome
  <1>2. snapshot'.status = mem[p].status /\ sent' = sent
    BY <1>1 DEF Commit, Settled, State
  <1>3. CASE mem[p].status = "needs_attention"
    BY <1>1, <1>2, <1>3 DEF Commit, Promise!Abandon
  <1>4. CASE mem[p].status # "needs_attention"
    <2>1. mem[p].status \in {"running", "incomplete", "completed"}
      BY <1>1, <1>4 DEF State
    <2>2. unknown' = {}
      BY <1>1, <1>4 DEF Commit, IInv, WriteAhead
    <2> QED
      BY <1>1, <1>2, <2>1, <2>2 DEF Promise!Conclude
  <1> QED
    BY <1>3, <1>4

(* Resuming past a pending marker is Abandon; only a running run, or one   *)
(* that was given up already, has such a marker.                           *)
LEMMA ResumeAbandons ==
  ASSUME IInv, NEW p \in Process, Resume(p)
  PROVE  [Promise!Next]_(Promise!vars)
  <1>1. snapshot \in State
    BY DEF IInv, TypeOK
  <1>2. CASE /\ snapshot.pending # NoRequest
             /\ snapshot' = stop(snapshot, "uncertain_request")
             /\ UNCHANGED <<sent, unknown>>
    <2>1. snapshot.status \in {"running", "needs_attention"}
      BY <1>1, <1>2 DEF IInv, DiskOK, State
    <2>2. snapshot'.status = "needs_attention"
      BY <1>1, <1>2 DEF stop, State
    <2>3. CASE snapshot.status = "running"
      BY <1>2, <2>2, <2>3 DEF Promise!Next, Promise!Abandon
    <2>4. CASE snapshot.status = "needs_attention"
      BY <1>2, <2>2, <2>4 DEF Promise!vars
    <2> QED
      BY <2>1, <2>3, <2>4
  <1>3. CASE UNCHANGED <<snapshot, sent, unknown>>
    BY <1>3 DEF Promise!vars
  <1> QED
    BY <1>2, <1>3 DEF Resume

(* Whatever crashes, pauses, resumes and failures occur, and however many  *)
(* processes try to execute the run: no request is issued twice, nor while *)
(* the outcome of an earlier one is unknown.                               *)
THEOREM IssuedAtMostOnce == Spec => AtMostOnce
  <1>1. Init => Promise!Init
    BY DEF Init, Absent, initial, Promise!Init
  <1>2. IInv /\ [Next]_vars => [Promise!Next]_(Promise!vars)
    <2> SUFFICES ASSUME IInv, [Next]_vars PROVE [Promise!Next]_(Promise!vars)
      OBVIOUS
    <2>1. CASE UNCHANGED vars
      BY <2>1 DEF vars, Promise!vars
    <2>2. ASSUME NEW p \in Process, Begin(p) \/ Acknowledge(p)
          PROVE  [Promise!Next]_(Promise!vars)
      <3>1. snapshot \in State /\ mem[p] = snapshot
        BY <2>2 DEF IInv, TypeOK, NodeOK, Begin, Acknowledge
      <3>2. CASE Begin(p)
        <4>1. snapshot' = Reserved(snapshot, at[p]) /\ UNCHANGED <<sent, unknown>>
          BY <3>1, <3>2 DEF Begin
        <4>2. snapshot'.status = snapshot.status
          BY <3>1, <4>1 DEF Reserved, State
        <4> QED
          BY <4>1, <4>2 DEF Promise!vars
      <3>3. CASE Acknowledge(p)
        <4>1. /\ snapshot' = [snapshot EXCEPT !.next_action = "stop"]
              /\ UNCHANGED <<sent, unknown>>
          BY <3>1, <3>3 DEF Acknowledge
        <4>2. snapshot'.status = snapshot.status
          BY <3>1, <4>1 DEF State
        <4> QED
          BY <4>1, <4>2 DEF Promise!vars
      <3> QED
        BY <2>2, <3>2, <3>3
    <2>3. ASSUME NEW p \in Process, Start(p)
          PROVE  [Promise!Next]_(Promise!vars)
      <3>1. snapshot'.status = "running" /\ snapshot.status = "absent"
        BY <2>3 DEF Start, initial
      <3> QED
        BY <2>3, <3>1 DEF Start, Promise!Next, Promise!Create
    <2>4. ASSUME NEW p \in Process, Return(p) \/ Pause(p) \/ Crash(p)
          PROVE  [Promise!Next]_(Promise!vars)
      BY <2>4 DEF Return, Pause, Crash, Promise!vars
    <2>5. ASSUME NEW p \in Process,
                 \/ SuperviseLocally(p) \/ CallRaises(p) \/ Decided(p)
                 \/ Researched(p) \/ ReportWritten(p) \/ Evaluated(p)
                 \/ Published(p)
          PROVE  [Promise!Next]_(Promise!vars)
      <3>1. UNCHANGED <<snapshot, sent, unknown>>
        BY <2>5, HandlersStutter
      <3> QED
        BY <3>1 DEF Promise!vars
    <2> QED
      BY <2>1, <2>2, <2>3, <2>4, <2>5, SendIssues, CommitConcludes, ResumeAbandons
         DEF Next, Execute, Control, Promise!Next
  <1> QED
    BY <1>1, <1>2, Invariance, PTL DEF Spec, AtMostOnce, Promise!Spec

-------------------------------------------------------------------------------
(* A control state s on top of the files in A. *)

Live(s) == s.status \in {"running", "completed"}

(* A slot holds one file. *)
Unique(A) ==
    \A f, g \in A : f.role = g.role /\ f.attempt = g.attempt => f = g

ViewsOK(A, s) ==
    \A v \in Views :
        IF s.results[v] = 0 THEN s.summaries[v] = "none"
        ELSE \E f \in A : /\ f.role = v /\ f.attempt = s.results[v]
                          /\ f.status = s.summaries[v]
                          /\ v # "research" => f.context = s.results["research"]

ReportOK(A, s) ==
    s.report # 0 =>
        /\ \A v \in Views : s.summaries[v] = "ok"
        /\ \E f \in A : /\ f.role = "writer" /\ f.attempt = s.report
                        /\ f.inputs = s.results
                        /\ Live(s) => f.status = "ok"

VerdictOK(A, s) ==
    s.evaluation # 0 =>
        /\ s.report # 0
        /\ \E f \in A : /\ f.role = "evaluator" /\ f.attempt = s.evaluation
                        /\ f.report = s.report

PassedIn(A, s) ==
    /\ s.evaluation # 0
    /\ \E f \in A : /\ f.role = "evaluator" /\ f.attempt = s.evaluation
                    /\ f.status = "ok" /\ f.passed

OthersOK(A, s) ==
    /\ s.publication # 0 =>
           \E f \in A : f.role = "publish" /\ f.attempt = s.publication
    /\ s.repair_source # 0 =>
           \E f \in A : f.role = "evaluator" /\ f.attempt = s.repair_source

CompletedOK(A, s) ==
    s.status = "completed" =>
        /\ PassedIn(A, s) /\ s.publication # 0
        /\ \E f \in A : /\ f.role = "publish" /\ f.attempt = s.publication
                        /\ f.status = "ok"
                        /\ f.report = s.report /\ f.evaluation = s.evaluation

EndedOK(s) ==
    /\ s.status \notin {"absent", "running"} => s.next_action = "stop"
    /\ s.status = "running" => s.next_action # "stop"
    /\ s.status = "needs_attention" => s.last_error = "uncertain_request"

CountersOK(s) ==
    /\ \A v \in Views : s.attempts[v] <= WorkerAttempts
    /\ s.attempts["writer"] <= WriterAttempts
    /\ s.attempts["evaluator"] <= s.attempts["writer"]
    /\ s.attempts["publish"] <= 1
    /\ IsFiniteSet(Attempted(s))
    /\ Cardinality(Attempted(s)) <= s.step_count
    /\ s.step_count <= SupervisorSteps

(* What holds of every control state, in memory and on disk. *)
Sound(A, s) ==
    /\ ViewsOK(A, s) /\ ReportOK(A, s) /\ VerdictOK(A, s) /\ OthersOK(A, s)
    /\ CompletedOK(A, s) /\ EndedOK(s) /\ CountersOK(s)

(* The latest finished attempt of a role, while the node of role works.    *)
Latest(s, r, role) == IF r = role THEN s.attempts[r] - 1 ELSE s.attempts[r]

(* A repair that was asked for is on the list, or done, or due anyway.     *)
RepairsOK(A, s) ==
    \A e, w \in A :
        e.role = "evaluator" /\ w.role = "writer" /\ w.attempt = e.report =>
            \A v \in e.repairs \cap Views :
                v \in s.feedback \/ s.results[v] = 0 \/ s.results[v] > w.inputs[v]

(* What holds of the state that the node of role works on, and with        *)
(* "supervisor" for role of a state between two nodes.                     *)
Current(A, s, role) ==
    Live(s) =>
        /\ \A v \in Views : s.results[v] \in {0, Latest(s, v, role)}
        /\ s.report \in {0, Latest(s, "writer", role)}
        /\ \A w \in A : w.role = "writer" =>
               \A v \in Views : w.inputs[v] <= Latest(s, v, role)
        /\ s.status = "running" /\ role # "publish" => s.attempts["publish"] = 0
        /\ s.status = "running" /\ s.report # 0 /\ s.evaluation = 0 =>
               /\ s.feedback = {}
               /\ role # "evaluator" => s.attempts["evaluator"] < s.attempts["writer"]
        /\ s.status = "running" =>
               s.attempts["evaluator"] <= Latest(s, "writer", role)
        /\ s.status = "running" => RepairsOK(A, s)

(* What a node relies on. *)
Admissible(A, s, role) ==
    /\ role \in Views \ {"research"} => s.summaries["research"] = "ok"
    /\ role = "writer" => /\ s.evidence_sufficient
                          /\ \A v \in Views : s.summaries[v] = "ok"
                          /\ s.feedback \cap Views = {}
    /\ role = "evaluator" => s.report # 0 /\ s.evaluation = 0
    /\ role = "publish" => PassedIn(A, s)

Affords(s, role) ==
    /\ Cardinality(Attempted(s)) < s.step_count
    /\ role \in Views => s.attempts[role] < WorkerAttempts
    /\ role = "writer" => s.attempts[role] < WriterAttempts

(* The decision that a state between two nodes carries. *)
Chosen(A, s) ==
    s.status = "running" /\ s.next_action \in Roles =>
        Admissible(A, s, s.next_action) /\ Affords(s, s.next_action)

Between(A, s) == Current(A, s, "supervisor") /\ Chosen(A, s)

-------------------------------------------------------------------------------
(* The inductive invariant. *)

FilesOK ==
    /\ Unique(artifacts)
    /\ \A e \in artifacts : e.role = "evaluator" =>
           \E w \in artifacts : w.role = "writer" /\ w.attempt = e.report
    /\ snapshot.status = "absent" => artifacts = {}
    /\ snapshot.status = "running" =>
           \A f \in artifacts :
               \/ f.role = snapshot.pending.role /\ f.attempt = snapshot.pending.attempt
               \/ Covers(snapshot, f)

SnapshotOK ==
    /\ Sound(artifacts, snapshot)
    /\ snapshot.pending.role = "supervisor" => Between(artifacts, snapshot)

AtNextAction(p) ==
    pc[p] = "node" /\ snapshot.status = "running" => at[p] = snapshot.next_action

(* A handler at work on the control state that is on disk. *)
WorkOK(p) ==
    pc[p] \in {"begun", "calling"} =>
        /\ Current(artifacts, snapshot, Role(p))
        /\ Admissible(artifacts, snapshot, Role(p))
        /\ snapshot.pending.attempt =
               IF Role(p) = "supervisor" THEN snapshot.step_count + 1
                                         ELSE snapshot.attempts[Role(p)]
        /\ Role(p) = "supervisor" => snapshot.next_action = "supervisor"
        /\ snapshot.pending.attempt > 0
        /\ ~Written(Role(p), snapshot.pending.attempt)
        /\ pc[p] = "calling" /\ Role(p) = "supervisor" =>
               choices(snapshot) # {} /\ ~Forced(snapshot)

(* A control state that is not on disk yet. *)
FinishedOK(p) ==
    pc[p] = "done" =>
        /\ Sound(artifacts, mem[p]) /\ Between(artifacts, mem[p])
        /\ mem[p].status = "running" => \A f \in artifacts : Covers(mem[p], f)
        /\ Role(p) # "supervisor" => mem[p].next_action \in {"supervisor", "stop"}

RInv ==
    /\ IInv
    /\ FilesOK
    /\ SnapshotOK
    /\ \A p \in Process : AtNextAction(p) /\ WorkOK(p) /\ FinishedOK(p)
    /\ RepairsAreDone

-------------------------------------------------------------------------------
(* The parts of the invariant under single changes. *)

(* A reference that resolves gets the file. *)
LEMMA GetFile ==
  ASSUME Unique(artifacts), NEW f \in artifacts
  PROVE  get(f.role, f.attempt) = f /\ Written(f.role, f.attempt)
  BY DEF Unique, get, Written

(* Further files leave references as they are. *)
LEMMA SoundGrows ==
  ASSUME NEW A, NEW B, A \subseteq B, NEW s, Sound(A, s)
  PROVE  Sound(B, s)
  <1>1. ViewsOK(B, s)
    BY DEF Sound, ViewsOK
  <1>2. ReportOK(B, s) /\ VerdictOK(B, s) /\ OthersOK(B, s)
    BY DEF Sound, ReportOK, VerdictOK, OthersOK
  <1>3. CompletedOK(B, s)
    BY DEF Sound, CompletedOK, PassedIn
  <1> QED
    BY <1>1, <1>2, <1>3 DEF Sound

(* Counters and ends are not about files. *)
LEMMA CountersSame ==
  ASSUME NEW s, NEW t, CountersOK(s), t.attempts = s.attempts, t.step_count = s.step_count
  PROVE  CountersOK(t)
  <1>1. Attempted(t) = Attempted(s)
    BY DEF Attempted
  <1> QED
    BY <1>1 DEF CountersOK

(* The fields that the references and the limits are about. *)
SameResults(s, t) ==
    /\ t.results = s.results /\ t.summaries = s.summaries
    /\ t.report = s.report /\ t.evaluation = s.evaluation
    /\ t.publication = s.publication /\ t.repair_source = s.repair_source
    /\ t.attempts = s.attempts

(* An ended state keeps sound references, and plans nothing. *)
LEMMA EndedSound ==
  ASSUME NEW A, NEW s, NEW t, Sound(A, s), SameResults(s, t),
         t.status \in {"incomplete", "needs_attention"}, EndedOK(t), CountersOK(t)
  PROVE  Sound(A, t) /\ Between(A, t)
  <1>2. ViewsOK(A, t)
    BY DEF Sound, SameResults, ViewsOK
  <1>3. ReportOK(A, t) /\ VerdictOK(A, t) /\ OthersOK(A, t) /\ CompletedOK(A, t)
    BY DEF Sound, SameResults, ReportOK, VerdictOK, OthersOK, CompletedOK, Live
  <1> QED
    BY <1>2, <1>3 DEF Sound, Between, Current, Chosen, Live

LEMMA StopFields ==
  ASSUME NEW s \in State, NEW code \in Codes, NEW t, t = stop(s, code)
  PROVE  /\ SameResults(s, t) /\ t.step_count = s.step_count /\ t.pending = s.pending
         /\ t.status = IF code = "uncertain_request" THEN "needs_attention" ELSE "incomplete"
         /\ t.next_action = "stop" /\ t.last_error = code
  BY DEF stop, State, SameResults

LEMMA StopSound ==
  ASSUME NEW A, NEW s \in State, Sound(A, s), NEW code \in Codes, NEW t, t = stop(s, code)
  PROVE  Sound(A, t) /\ Between(A, t) /\ t.next_action = "stop" /\ t.status # "running"
  <1>1. EndedOK(t) /\ t.status \in {"incomplete", "needs_attention"}
    BY StopFields DEF EndedOK
  <1>2. CountersOK(t)
    BY StopFields, CountersSame DEF Sound, SameResults
  <1> QED
    BY <1>1, <1>2, StopFields, EndedSound

(* Clearing the marker changes nothing else. *)
LEMMA SettledFields ==
  ASSUME NEW s \in State, NEW t, t = Settled(s)
  PROVE  /\ SameResults(s, t) /\ t.step_count = s.step_count
         /\ t.status = s.status /\ t.next_action = s.next_action
         /\ t.last_error = s.last_error /\ t.feedback = s.feedback
         /\ t.evidence_sufficient = s.evidence_sufficient
         /\ t.pending = IF s.status = "needs_attention" THEN s.pending ELSE NoRequest
  BY DEF Settled, State, SameResults

LEMMA SettledSound ==
  ASSUME NEW A, NEW s \in State, Sound(A, s), Between(A, s), NEW t, t = Settled(s)
  PROVE  Sound(A, t) /\ Between(A, t)
  <1>0. /\ SameResults(s, t) /\ t.step_count = s.step_count
        /\ t.status = s.status /\ t.next_action = s.next_action
        /\ t.last_error = s.last_error /\ t.feedback = s.feedback
        /\ t.evidence_sufficient = s.evidence_sufficient
    BY SettledFields
  <1> USE DEF SameResults
  <1>1. CountersOK(t)
    BY <1>0, CountersSame DEF Sound
  <1>2. ViewsOK(A, t)
    BY <1>0 DEF Sound, ViewsOK
  <1>3. ReportOK(A, t) /\ VerdictOK(A, t) /\ OthersOK(A, t)
    BY <1>0 DEF Sound, ReportOK, VerdictOK, OthersOK, Live
  <1>4. CompletedOK(A, t) /\ EndedOK(t)
    BY <1>0 DEF Sound, CompletedOK, PassedIn, EndedOK
  <1>5. Current(A, t, "supervisor")
    BY <1>0 DEF Between, Current, Live, Latest, RepairsOK
  <1>6. Chosen(A, t)
    BY <1>0 DEF Between, Chosen, Admissible, Affords, PassedIn, Attempted
  <1> QED
    BY <1>0, <1>1, <1>2, <1>3, <1>4, <1>5, <1>6 DEF Sound, Between

(* Another attempt adds one to the attempts that were made. *)
LEMMA AttemptedOneMore ==
  ASSUME NEW s \in State, NEW t \in State, NEW role \in Roles,
         t.attempts = [s.attempts EXCEPT ![role] = @ + 1], IsFiniteSet(Attempted(s))
  PROVE  /\ IsFiniteSet(Attempted(t))
         /\ Cardinality(Attempted(s)) \in Nat
         /\ Cardinality(Attempted(t)) = Cardinality(Attempted(s)) + 1
  <1> DEFINE n == s.attempts[role]
  <1>1. s.attempts \in [Roles -> Nat] /\ n \in Nat
    BY DEF State
  <1>2. \A r \in Roles : {r} \X (1 .. t.attempts[r]) =
            ({r} \X (1 .. s.attempts[r])) \cup (IF r = role THEN {<<role, n + 1>>} ELSE {})
    <2> SUFFICES ASSUME NEW r \in Roles
                 PROVE  {r} \X (1 .. t.attempts[r]) =
                          ({r} \X (1 .. s.attempts[r]))
                            \cup (IF r = role THEN {<<role, n + 1>>} ELSE {})
      OBVIOUS
    <2>1. CASE r = role
      <3>1. 1 .. t.attempts[r] = (1 .. n) \cup {n + 1}
        BY <1>1, <2>1
      <3> QED
        BY <2>1, <3>1
    <2>2. CASE r # role
      BY <1>1, <2>2
    <2> QED
      BY <2>1, <2>2
  <1>3. Attempted(t) = Attempted(s) \cup {<<role, n + 1>>}
    BY <1>2 DEF Attempted
  <1>4. <<role, n + 1>> \notin Attempted(s)
    BY <1>1 DEF Attempted
  <1> QED
    BY <1>3, <1>4, FS_AddElement, FS_CardinalityType

(* A node begins: its attempt is counted, and it is entitled to it. *)
LEMMA ReservedFields ==
  ASSUME NEW s \in State, NEW role \in Nodes, NEW t, t = Reserved(s, role)
  PROVE  /\ t.results = s.results /\ t.summaries = s.summaries
         /\ t.report = s.report /\ t.evaluation = s.evaluation
         /\ t.publication = s.publication /\ t.repair_source = s.repair_source
         /\ t.step_count = s.step_count /\ t.status = s.status
         /\ t.next_action = s.next_action /\ t.last_error = s.last_error
         /\ t.feedback = s.feedback /\ t.evidence_sufficient = s.evidence_sufficient
         /\ role = "supervisor" => t.attempts = s.attempts
         /\ role # "supervisor" => t.attempts = [s.attempts EXCEPT ![role] = @ + 1]
         /\ t.pending.role = role
         /\ t.pending.attempt = IF role = "supervisor" THEN t.step_count + 1
                                                       ELSE t.attempts[role]
  <1>1. CASE role = "supervisor"
    BY <1>1 DEF Reserved, State
  <1>2. CASE role # "supervisor"
    <2>1. role \in Roles /\ s.attempts \in [Roles -> Nat]
      BY <1>2 DEF Nodes, State
    <2>2. t = [s EXCEPT !.pending = [role |-> role, attempt |-> s.attempts[role] + 1],
                        !.attempts = [s.attempts EXCEPT ![role] = @ + 1]]
      BY <1>2 DEF Reserved, State
    <2> QED
      BY <1>2, <2>1, <2>2 DEF State
  <1> QED
    BY <1>1, <1>2

LEMMA ReservedCounters ==
  ASSUME LimitsAssumption, FollowUpsAssumption,
         NEW A, NEW s \in State, CountersOK(s), NEW role \in Roles,
         Current(A, s, "supervisor"), s.status = "running",
         Admissible(A, s, role), Affords(s, role),
         NEW t \in State, t.attempts = [s.attempts EXCEPT ![role] = @ + 1],
         t.step_count = s.step_count
  PROVE  CountersOK(t)
  <1>1. s.attempts \in [Roles -> Nat] /\ t.attempts \in [Roles -> Nat] /\ s.step_count \in Nat
    BY DEF State
  <1>2. \A r \in Roles : t.attempts[r] = IF r = role THEN s.attempts[r] + 1 ELSE s.attempts[r]
    BY <1>1
  <1>3. "writer" \in Roles /\ "evaluator" \in Roles /\ "publish" \in Roles
        /\ Views \subseteq Roles /\ "writer" \notin Views /\ "evaluator" \notin Views
        /\ "publish" \notin Views
    BY DEF Roles, Views, FollowUpsAssumption
  <1>4. IsFiniteSet(Attempted(t)) /\ Cardinality(Attempted(t)) <= t.step_count
    <2>1. Cardinality(Attempted(s)) < s.step_count /\ IsFiniteSet(Attempted(s))
      BY DEF Affords, CountersOK
    <2> QED
      BY <1>1, <2>1, AttemptedOneMore
  <1>5. \A v \in Views : t.attempts[v] <= WorkerAttempts
    BY <1>1, <1>2, <1>3 DEF CountersOK, Affords, LimitsAssumption
  <1>6. t.attempts["writer"] <= WriterAttempts
    BY <1>1, <1>2, <1>3 DEF CountersOK, Affords, LimitsAssumption
  <1>7. t.attempts["evaluator"] <= t.attempts["writer"]
    <2>1. s.attempts["evaluator"] <= s.attempts["writer"]
      BY DEF CountersOK
    <2>2. role = "evaluator" => s.attempts["evaluator"] < s.attempts["writer"]
      BY DEF Admissible, Current, Live
    <2> QED
      BY <1>1, <1>2, <1>3, <2>1, <2>2
  <1>8. t.attempts["publish"] <= 1
    <2>1. s.attempts["publish"] = 0
      BY DEF Current, Live
    <2> QED
      BY <1>2, <1>3, <2>1
  <1> QED
    BY <1>4, <1>5, <1>6, <1>7, <1>8 DEF CountersOK

LEMMA ReservedSound ==
  ASSUME LimitsAssumption, FollowUpsAssumption,
         NEW A, NEW s \in State, Sound(A, s), Between(A, s), s.status = "running",
         NEW role \in Nodes, role = s.next_action, NEW t \in State, t = Reserved(s, role)
  PROVE  Sound(A, t) /\ Current(A, t, role) /\ Admissible(A, t, role)
  <1>0. /\ t.results = s.results /\ t.summaries = s.summaries
        /\ t.report = s.report /\ t.evaluation = s.evaluation
        /\ t.publication = s.publication /\ t.repair_source = s.repair_source
        /\ t.step_count = s.step_count /\ t.status = s.status
        /\ t.next_action = s.next_action /\ t.last_error = s.last_error
        /\ t.feedback = s.feedback /\ t.evidence_sufficient = s.evidence_sufficient
        /\ role = "supervisor" => t.attempts = s.attempts
        /\ role # "supervisor" => t.attempts = [s.attempts EXCEPT ![role] = @ + 1]
    BY ReservedFields
  <1>1. role # "supervisor" => role \in Roles
    BY DEF Nodes
  <1>2. role # "supervisor" => Admissible(A, s, role) /\ Affords(s, role)
    BY <1>0, <1>1 DEF Between, Chosen
  <1>3. CountersOK(t)
    <2>1. CASE role = "supervisor"
      BY <1>0, <2>1, CountersSame DEF Sound
    <2>2. CASE role # "supervisor"
      BY <1>0, <1>1, <1>2, <2>2, ReservedCounters DEF Sound, Between
    <2> QED
      BY <1>0, <2>1, <2>2
  <1>4. ViewsOK(A, t)
    BY <1>0 DEF Sound, ViewsOK
  <1>5. ReportOK(A, t) /\ VerdictOK(A, t) /\ OthersOK(A, t)
    BY <1>0 DEF Sound, ReportOK, VerdictOK, OthersOK, Live
  <1>6. CompletedOK(A, t) /\ EndedOK(t)
    BY <1>0 DEF Sound, CompletedOK, EndedOK
  <1>7. Admissible(A, t, role)
    <2>1. CASE role = "supervisor"
      BY <2>1, FollowUpsAssumption DEF Admissible, Views
    <2>2. CASE role # "supervisor"
      BY <1>0, <1>2, <2>2 DEF Admissible, PassedIn
    <2> QED
      BY <1>0, <2>1, <2>2
  <1>8. Current(A, t, role)
    <2>1. s.attempts \in [Roles -> Nat] /\ Views \subseteq Roles /\ "writer" \in Roles
          /\ "evaluator" \in Roles /\ "publish" \in Roles /\ "supervisor" \notin Roles
      BY FollowUpsAssumption DEF State, Roles, Views
    <2>2. Current(A, s, "supervisor")
      BY <1>0 DEF Between
    <2>3. \A r \in Roles : Latest(t, r, role) = Latest(s, r, "supervisor")
      <3>1. CASE role = "supervisor"
        BY <1>0, <3>1, <2>1 DEF Latest
      <3>2. CASE role # "supervisor"
        BY <1>0, <1>1, <3>2, <2>1 DEF Latest
      <3> QED
        BY <1>0, <3>1, <3>2
    <2>4. RepairsOK(A, t)
      BY <1>0, <2>2 DEF Current, Live, RepairsOK
    <2>5. role # "publish" => t.attempts["publish"] = 0
      BY <1>0, <1>1, <2>1, <2>2 DEF Current, Live
    <2>6. t.report # 0 /\ t.evaluation = 0 =>
             /\ t.feedback = {}
             /\ role # "evaluator" => t.attempts["evaluator"] < t.attempts["writer"]
      <3>1. s.report # 0 /\ s.evaluation = 0 =>
              s.feedback = {} /\ s.attempts["evaluator"] < s.attempts["writer"]
        BY <1>0, <2>2 DEF Current, Live
      <3>2. CASE role = "supervisor"
        BY <1>0, <3>1, <3>2
      <3>3. CASE role # "supervisor"
        BY <1>0, <1>1, <2>1, <3>1, <3>3
      <3> QED
        BY <1>0, <3>2, <3>3
    <2>7. t.attempts["evaluator"] <= Latest(t, "writer", role)
      <3>1. s.attempts["evaluator"] <= s.attempts["writer"]
        BY <2>2 DEF Current, Live, Latest
      <3>2. role = "evaluator" => s.attempts["evaluator"] < s.attempts["writer"]
        BY <1>7, <2>2, <1>0 DEF Admissible, Current, Live
      <3>3. CASE role = "supervisor"
        BY <1>0, <2>1, <3>1, <3>3 DEF Latest
      <3>4. CASE role # "supervisor"
        BY <1>0, <1>1, <2>1, <3>1, <3>2, <3>4 DEF Latest
      <3> QED
        BY <3>3, <3>4
    <2> QED
      BY <1>0, <2>1, <2>2, <2>3, <2>4, <2>5, <2>6, <2>7 DEF Current, Live
  <1> QED
    BY <1>0, <1>3, <1>4, <1>5, <1>6, <1>7, <1>8 DEF Sound

-------------------------------------------------------------------------------
(* What the handlers leave. *)

(* The roles are different nodes. *)
LEMMA RoleNames ==
  /\ Views \subseteq Roles /\ Views \subseteq Targets
  /\ "research" \in Views
  /\ "writer" \in Roles /\ "evaluator" \in Roles /\ "publish" \in Roles
  /\ "writer" \notin Views /\ "evaluator" \notin Views /\ "publish" \notin Views
  /\ "supervisor" \notin Roles /\ "stop" \notin Roles
  /\ Nodes = Roles \cup {"supervisor"} /\ Actions = Roles \cup {"stop"}
  BY FollowUpsAssumption DEF Roles, Views, Nodes, Actions, Targets

(* A control state on which the node of role is at work, on the files in A.*)
Working(A, s, role) ==
    /\ A \in SUBSET File /\ s \in State
    /\ Sound(A, s) /\ Current(A, s, role) /\ Admissible(A, s, role)
    /\ s.status = "running"
    /\ role # "supervisor" => s.attempts[role] > 0

(* What a node may leave on the files in B. *)
Good(B, t) == Sound(B, t) /\ Between(B, t)

(* What is current, spelled out for a run that is running. *)
LEMMA CurrentRunning ==
  ASSUME NEW A, NEW s, s.status = "running", NEW role
  PROVE  Current(A, s, role) <=>
           /\ \A v \in Views : s.results[v] \in {0, Latest(s, v, role)}
           /\ s.report \in {0, Latest(s, "writer", role)}
           /\ \A w \in A : w.role = "writer" =>
                  \A v \in Views : w.inputs[v] <= Latest(s, v, role)
           /\ role # "publish" => s.attempts["publish"] = 0
           /\ s.report # 0 /\ s.evaluation = 0 =>
                  /\ s.feedback = {}
                  /\ role # "evaluator" => s.attempts["evaluator"] < s.attempts["writer"]
           /\ s.attempts["evaluator"] <= Latest(s, "writer", role)
           /\ RepairsOK(A, s)
  BY DEF Current, Live

(* A result that is a failure ends the run. *)
LEMMA FailedGood ==
  ASSUME NEW B, NEW t \in State, Sound(B, t), NEW code \in Codes,
         NEW u, u = stop(t, code)
  PROVE  Good(B, u) /\ u.next_action = "stop" /\ u.status # "running"
  BY StopSound DEF Good

(* The control state of worker() before a failure is looked at. *)
Reworked(s, view, status) ==
    [s EXCEPT
        !.results = [v \in Views |->
                        IF v = view THEN s.attempts[view]
                        ELSE IF view = "research" THEN 0 ELSE @[v]],
        !.summaries = [v \in Views |->
                        IF v = view THEN status
                        ELSE IF view = "research" THEN "none" ELSE @[v]],
        !.feedback = IF status = "insufficient" THEN @ \cup {view}
                                                ELSE @ \ {view},
        !.report = 0, !.evaluation = 0, !.publication = 0,
        !.evidence_sufficient = FALSE,
        !.next_action = "supervisor"]

LEMMA ReworkedFields ==
  ASSUME NEW s \in State, NEW view \in Views,
         NEW status \in {"ok", "insufficient", "failed"},
         NEW t, t = Reworked(s, view, status)
  PROVE  /\ t.results = [v \in Views |->
                            IF v = view THEN s.attempts[view]
                            ELSE IF view = "research" THEN 0 ELSE s.results[v]]
         /\ t.summaries = [v \in Views |->
                            IF v = view THEN status
                            ELSE IF view = "research" THEN "none" ELSE s.summaries[v]]
         /\ s.feedback \ {view} \subseteq t.feedback
         /\ t.report = 0 /\ t.evaluation = 0 /\ t.publication = 0
         /\ t.repair_source = s.repair_source
         /\ t.attempts = s.attempts /\ t.step_count = s.step_count
         /\ t.status = s.status /\ t.next_action = "supervisor"
  BY DEF Reworked, State

LEMMA ReworkedType ==
  ASSUME NEW s \in State, NEW view \in Views,
         NEW status \in {"ok", "insufficient", "failed"}
  PROVE  Reworked(s, view, status) \in State
  <1> DEFINE results == [v \in Views |->
                           IF v = view THEN s.attempts[view]
                           ELSE IF view = "research" THEN 0 ELSE s.results[v]]
             summaries == [v \in Views |->
                           IF v = view THEN status
                           ELSE IF view = "research" THEN "none" ELSE s.summaries[v]]
             feedback == IF status = "insufficient" THEN s.feedback \cup {view}
                                                    ELSE s.feedback \ {view}
             t == [s EXCEPT
                !.results = results, !.summaries = summaries, !.feedback = feedback,
                !.report = 0, !.evaluation = 0, !.publication = 0,
                !.evidence_sufficient = FALSE,
                !.next_action = "supervisor"]
  <1>1. results \in [Views -> Nat]
    BY DEF State, Roles
  <1>2. summaries \in [Views -> {"none", "ok", "insufficient", "failed"}]
    BY DEF State
  <1>3. feedback \in SUBSET Actions
    BY DEF State, Actions, Roles
  <1>4. Reworked(s, view, status) = t
    BY DEF Reworked, State
  <1> HIDE DEF results, summaries, feedback
  <1>5. t \in State
    BY <1>1, <1>2, <1>3 DEF State
  <1> QED
    BY <1>4, <1>5

LEMMA ReworkedGood ==
  ASSUME NEW A, NEW s, NEW view \in Views, Working(A, s, view),
         NEW status \in {"ok", "insufficient", "failed"},
         NEW f \in ResearchFile, f.role = view, f.attempt = s.attempts[view],
         f.status = status,
         view # "research" => f.context = s.results["research"],
         NEW t, t = Reworked(s, view, status)
  PROVE  Good(A \cup {f}, t)
  <1> DEFINE B == A \cup {f}
  <1> HIDE DEF B
  <1>0. /\ s \in State /\ Sound(B, s) /\ s.status = "running" /\ Current(A, s, view)
        /\ A \in SUBSET File /\ s.attempts[view] > 0
    BY SoundGrows, RoleNames DEF Working, B
  <1>1. /\ t.results = [v \in Views |->
                           IF v = view THEN s.attempts[view]
                           ELSE IF view = "research" THEN 0 ELSE s.results[v]]
        /\ t.summaries = [v \in Views |->
                           IF v = view THEN status
                           ELSE IF view = "research" THEN "none" ELSE s.summaries[v]]
        /\ s.feedback \ {view} \subseteq t.feedback
        /\ t.report = 0 /\ t.evaluation = 0 /\ t.publication = 0
        /\ t.repair_source = s.repair_source
        /\ t.attempts = s.attempts /\ t.step_count = s.step_count
        /\ t.status = "running" /\ t.next_action = "supervisor"
    BY <1>0, ReworkedFields
  <1>2. CountersOK(t)
    BY <1>0, <1>1, CountersSame DEF Sound
  <1>3. ViewsOK(B, t)
    <2> SUFFICES ASSUME NEW v \in Views
                 PROVE  IF t.results[v] = 0 THEN t.summaries[v] = "none"
                        ELSE \E g \in B : /\ g.role = v /\ g.attempt = t.results[v]
                                          /\ g.status = t.summaries[v]
                                          /\ v # "research" => g.context = t.results["research"]
      BY DEF ViewsOK
    <2>1. CASE v = view
      <3>1. t.results[v] = s.attempts[view] /\ t.summaries[v] = status
        BY <1>1, <2>1
      <3>2. v # "research" => t.results["research"] = s.results["research"]
        BY <1>1, <2>1, RoleNames
      <3>3. f \in B
        BY DEF B
      <3> QED
        BY <1>0, <2>1, <3>1, <3>2, <3>3
    <2>2. CASE v # view /\ view = "research"
      BY <1>1, <2>2
    <2>3. CASE v # view /\ view # "research"
      <3>1. /\ t.results[v] = s.results[v] /\ t.summaries[v] = s.summaries[v]
            /\ t.results["research"] = s.results["research"]
        BY <1>1, <2>3, RoleNames
      <3> QED
        BY <1>0, <3>1 DEF Sound, ViewsOK
    <2> QED
      BY <2>1, <2>2, <2>3
  <1>4. Sound(B, t)
    BY <1>0, <1>1, <1>2, <1>3
       DEF Sound, ReportOK, VerdictOK, OthersOK, CompletedOK, EndedOK
  <1>5. s.attempts \in [Roles -> Nat] /\ s.results \in [Views -> Nat]
    BY <1>0 DEF State
  <1>6. \A r \in Roles : Latest(t, r, "supervisor") = s.attempts[r]
    BY <1>1, RoleNames DEF Latest
  <1>7. ASSUME NEW v \in Views
        PROVE  t.results[v] \in {0, Latest(t, v, "supervisor")}
    <2>1. s.results[v] \in {0, Latest(s, v, view)}
      BY <1>0 DEF Current, Live
    <2> QED
      BY <1>1, <1>6, <2>1, RoleNames DEF Latest
  <1>8. ASSUME NEW w \in B, w.role = "writer"
        PROVE  w \in A /\ \A v \in Views : w.inputs[v] \in Nat /\ w.inputs[v] <= Latest(s, v, view)
    <2>1. w \in A
      BY <1>8, RoleNames DEF B
    <2>2. w \in ReportFile
      BY <1>0, <1>8, <2>1, RoleNames
         DEF File, ResearchFile, ReportFile, VerdictFile, PublishFile, DecisionFile
    <2> QED
      BY <1>0, <1>8, <2>1, <2>2 DEF Current, Live, ReportFile
  <1>9. ASSUME NEW w \in B, w.role = "writer", NEW v \in Views
        PROVE  w.inputs[v] <= Latest(t, v, "supervisor")
    BY <1>5, <1>6, <1>8, <1>9, RoleNames DEF Latest
  <1>10. RepairsOK(B, t)
    <2> SUFFICES ASSUME NEW e \in B, NEW w \in B,
                        e.role = "evaluator", w.role = "writer", w.attempt = e.report,
                        NEW v \in e.repairs \cap Views
                 PROVE  v \in t.feedback \/ t.results[v] = 0 \/ t.results[v] > w.inputs[v]
      BY DEF RepairsOK
    <2>1. e \in A /\ w \in A
      BY <1>8, RoleNames DEF B
    <2>2. v \in s.feedback \/ s.results[v] = 0 \/ s.results[v] > w.inputs[v]
      BY <1>0, <2>1 DEF Current, Live, RepairsOK
    <2>3. CASE v = view
      BY <1>1, <1>5, <1>8, <2>3, RoleNames DEF Latest
    <2>4. CASE v # view
      BY <1>1, <2>2, <2>4
    <2> QED
      BY <2>3, <2>4
  <1>11. t.attempts["publish"] = 0
    BY <1>0, <1>1, RoleNames DEF Current, Live
  <1>14. t.attempts["evaluator"] <= Latest(t, "writer", "supervisor")
    BY <1>0, <1>1, <1>6, RoleNames DEF Current, Live, Latest
  <1>12. Current(B, t, "supervisor")
    BY <1>1, <1>7, <1>9, <1>10, <1>11, <1>14, CurrentRunning
  <1>13. Chosen(B, t)
    BY <1>1, RoleNames DEF Chosen
  <1> QED
    BY <1>4, <1>12, <1>13 DEF Good, Between, B

(* worker(): the views that are left were made from the same technical     *)
(* result, nothing derived is kept, and no repair is forgotten.            *)
LEMMA WorkerGood ==
  ASSUME NEW A, NEW s, NEW view \in Views, Working(A, s, view),
         NEW status \in {"ok", "insufficient", "failed"}, NEW code \in FailureCodes(status),
         NEW f \in ResearchFile, f.role = view, f.attempt = s.attempts[view],
         f.status = status,
         view # "research" => f.context = s.results["research"],
         NEW t, t = AfterWorker(s, view, status, code)
  PROVE  Good(A \cup {f}, t) /\ t.next_action \in {"supervisor", "stop"}
  <1>1. s \in State /\ s.status = "running"
    BY DEF Working
  <1>2. PICK u : u = Reworked(s, view, status)
    OBVIOUS
  <1>3. t = IF status = "failed" THEN stop(u, code) ELSE u
    BY <1>2 DEF AfterWorker, Reworked
  <1>4. Good(A \cup {f}, u)
    BY <1>2, ReworkedGood
  <1>5. u \in State
    BY <1>1, <1>2, ReworkedType
  <1>8. u.next_action = "supervisor"
    BY <1>1, <1>2 DEF Reworked, State
  <1>6. CASE status = "failed"
    <2>1. code \in Codes
      BY <1>6 DEF FailureCodes, Codes
    <2> QED
      BY <1>3, <1>4, <1>5, <1>6, <2>1, FailedGood DEF Good
  <1>7. CASE status # "failed"
    BY <1>3, <1>4, <1>7, <1>8
  <1> QED
    BY <1>6, <1>7

(* The slot for the file that a working node is about to leave, and the    *)
(* reports of the verdicts on file.                                        *)
Free(A, role, n)  == \A g \in A : ~(g.role = role /\ g.attempt = n)
VerdictsRest(A)   == \A e \in A : e.role = "evaluator" =>
                         \E w \in A : w.role = "writer" /\ w.attempt = e.report

(* Only a report has the role of the writer. *)
LEMMA ReportType ==
  ASSUME NEW w \in File, w.role = "writer"
  PROVE  w \in ReportFile
  BY RoleNames DEF File, ResearchFile, ReportFile, VerdictFile, PublishFile, DecisionFile

LEMMA WriterFields ==
  ASSUME NEW s \in State, s.status = "running",
         NEW status \in {"ok", "failed"}, NEW code \in FailureCodes(status),
         NEW t, t = AfterWriter(s, status, code)
  PROVE  /\ t.results = s.results /\ t.summaries = s.summaries
         /\ t.report = s.attempts["writer"]
         /\ t.evaluation = 0 /\ t.publication = 0 /\ t.repair_source = 0
         /\ t.feedback = {}
         /\ t.attempts = s.attempts /\ t.step_count = s.step_count
         /\ status = "ok" => t.status = "running" /\ t.next_action = "supervisor"
         /\ status = "failed" =>
                /\ t.status \in {"incomplete", "needs_attention"} /\ t.next_action = "stop"
                /\ EndedOK(t)
  BY DEF AfterWriter, stop, State, FailureCodes, EndedOK

(* writer(): the report is made from the current results, all of them      *)
(* sufficient, after every repair that was asked for.                      *)
LEMMA WriterGood ==
  ASSUME NEW A, NEW s, Working(A, s, "writer"),
         VerdictsRest(A), Free(A, "writer", s.attempts["writer"]),
         NEW status \in {"ok", "failed"}, NEW code \in FailureCodes(status),
         NEW f \in ReportFile, f.role = "writer", f.attempt = s.attempts["writer"],
         f.status = status, f.inputs = s.results,
         NEW t, t = AfterWriter(s, status, code)
  PROVE  Good(A \cup {f}, t) /\ t.next_action \in {"supervisor", "stop"}
  <1> DEFINE B == A \cup {f}
  <1> HIDE DEF B
  <1>0. /\ s \in State /\ Sound(B, s) /\ s.status = "running" /\ Current(A, s, "writer")
        /\ Admissible(A, s, "writer") /\ A \in SUBSET File /\ s.attempts["writer"] > 0
    BY SoundGrows, RoleNames DEF Working, B
  <1>1. /\ t.results = s.results /\ t.summaries = s.summaries
        /\ t.report = s.attempts["writer"]
        /\ t.evaluation = 0 /\ t.publication = 0 /\ t.repair_source = 0
        /\ t.feedback = {}
        /\ t.attempts = s.attempts /\ t.step_count = s.step_count
        /\ status = "ok" => t.status = "running" /\ t.next_action = "supervisor"
        /\ status = "failed" =>
               /\ t.status \in {"incomplete", "needs_attention"} /\ t.next_action = "stop"
               /\ EndedOK(t)
    BY <1>0, WriterFields
  <1>2. CountersOK(t)
    BY <1>0, <1>1, CountersSame DEF Sound
  <1>3. ViewsOK(B, t)
    BY <1>0, <1>1 DEF Sound, ViewsOK
  <1>4. ReportOK(B, t)
    <2>1. \A v \in Views : t.summaries[v] = "ok"
      BY <1>0, <1>1 DEF Admissible
    <2>2. f \in B /\ Live(t) => f.status = "ok"
      BY <1>1 DEF B, Live
    <2> QED
      BY <1>1, <2>1, <2>2 DEF ReportOK, B
  <1>5. Sound(B, t)
    BY <1>1, <1>2, <1>3, <1>4 DEF Sound, VerdictOK, OthersOK, CompletedOK, EndedOK
  <1>6. CASE status = "failed"
    BY <1>1, <1>5, <1>6 DEF Good, Between, Current, Chosen, Live, B
  <1>7. CASE status = "ok"
    <2>1. s.attempts \in [Roles -> Nat] /\ s.results \in [Views -> Nat]
      BY <1>0 DEF State
    <2>2. \A r \in Roles : Latest(t, r, "supervisor") = s.attempts[r]
      BY <1>1, RoleNames DEF Latest
    <2>3. \A v \in Views : Latest(s, v, "writer") = s.attempts[v]
      BY RoleNames DEF Latest
    <2>4. ASSUME NEW v \in Views
          PROVE  t.results[v] \in {0, Latest(t, v, "supervisor")}
      BY <1>0, <1>1, <2>2, <2>3, RoleNames DEF Current, Live
    <2>5. ASSUME NEW w \in B, w.role = "writer", NEW v \in Views
          PROVE  w.inputs[v] <= Latest(t, v, "supervisor")
      <3>1. CASE w = f
        BY <1>1, <2>1, <2>2, <2>4, <3>1, RoleNames
      <3>2. CASE w # f
        BY <1>0, <2>2, <2>3, <2>5, <3>2, RoleNames DEF B, Current, Live
      <3> QED
        BY <3>1, <3>2
    <2>6. t.attempts["publish"] = 0
      BY <1>0, <1>1 DEF Current, Live
    <2>7. t.attempts["evaluator"] < t.attempts["writer"]
      BY <1>0, <1>1, <2>1, RoleNames DEF Current, Live, Latest
    <2>8. RepairsOK(B, t)
      <3> SUFFICES ASSUME NEW e \in B, NEW w \in B,
                          e.role = "evaluator", w.role = "writer", w.attempt = e.report,
                          NEW v \in e.repairs \cap Views
                   PROVE  t.results[v] = 0 \/ t.results[v] > w.inputs[v]
        BY DEF RepairsOK
      <3>1. e \in A
        BY DEF B
      <3>2. w \in A
        BY <3>1 DEF VerdictsRest, Free, B
      <3>3. v \in s.feedback \/ s.results[v] = 0 \/ s.results[v] > w.inputs[v]
        BY <1>0, <3>1, <3>2 DEF Current, Live, RepairsOK
      <3> QED
        BY <1>0, <1>1, <3>3 DEF Admissible
    <2>9. Current(B, t, "supervisor")
      BY <1>1, <1>7, <2>1, <2>2, <2>4, <2>5, <2>6, <2>7, <2>8, RoleNames, CurrentRunning
    <2> QED
      BY <1>1, <1>5, <1>7, <2>9, RoleNames DEF Good, Between, Chosen, B
  <1> QED
    BY <1>6, <1>7

LEMMA EvaluateFields ==
  ASSUME NEW s \in State, s.status = "running",
         NEW status \in {"ok", "failed"}, NEW code \in FailureCodes(status),
         NEW repairs, NEW t, t = AfterEvaluate(s, status, repairs, code)
  PROVE  /\ t.results = s.results /\ t.summaries = s.summaries
         /\ t.report = s.report /\ t.publication = s.publication
         /\ t.evaluation = s.attempts["evaluator"]
         /\ t.repair_source \in {0, s.attempts["evaluator"]}
         /\ t.feedback = repairs
         /\ t.attempts = s.attempts /\ t.step_count = s.step_count
         /\ status = "ok" => t.status = "running" /\ t.next_action = "supervisor"
         /\ status = "failed" =>
                /\ t.status \in {"incomplete", "needs_attention"} /\ t.next_action = "stop"
                /\ EndedOK(t)
  BY DEF AfterEvaluate, stop, State, FailureCodes, EndedOK

(* evaluate(): the verdict is about the current report, and what it asks   *)
(* to repair is on the list.                                               *)
LEMMA EvaluateGood ==
  ASSUME NEW A, NEW s, Working(A, s, "evaluator"),
         NEW status \in {"ok", "failed"}, NEW code \in FailureCodes(status),
         NEW f \in VerdictFile, f.role = "evaluator", f.attempt = s.attempts["evaluator"],
         f.report = s.report,
         NEW t, t = AfterEvaluate(s, status, f.repairs, code)
  PROVE  Good(A \cup {f}, t) /\ t.next_action \in {"supervisor", "stop"}
  <1> DEFINE B == A \cup {f}
  <1> HIDE DEF B
  <1>0. /\ s \in State /\ Sound(B, s) /\ s.status = "running" /\ Current(A, s, "evaluator")
        /\ s.report # 0 /\ s.evaluation = 0
        /\ A \in SUBSET File /\ s.attempts["evaluator"] > 0
    BY SoundGrows, RoleNames DEF Working, Admissible, B
  <1>1. /\ t.results = s.results /\ t.summaries = s.summaries
        /\ t.report = s.report /\ t.publication = s.publication
        /\ t.evaluation = s.attempts["evaluator"]
        /\ t.repair_source \in {0, s.attempts["evaluator"]}
        /\ t.feedback = f.repairs
        /\ t.attempts = s.attempts /\ t.step_count = s.step_count
        /\ status = "ok" => t.status = "running" /\ t.next_action = "supervisor"
        /\ status = "failed" =>
               /\ t.status \in {"incomplete", "needs_attention"} /\ t.next_action = "stop"
               /\ EndedOK(t)
    BY <1>0, EvaluateFields
  <1>2. CountersOK(t)
    BY <1>0, <1>1, CountersSame DEF Sound
  <1>3. ViewsOK(B, t)
    BY <1>0, <1>1 DEF Sound, ViewsOK
  <1>4. ReportOK(B, t)
    BY <1>0, <1>1 DEF Sound, ReportOK, Live
  <1>5. VerdictOK(B, t) /\ OthersOK(B, t)
    <2>1. f \in B
      BY DEF B
    <2> QED
      BY <1>0, <1>1, <2>1 DEF Sound, VerdictOK, OthersOK
  <1>6. Sound(B, t)
    BY <1>1, <1>2, <1>3, <1>4, <1>5 DEF Sound, CompletedOK, EndedOK
  <1>7. CASE status = "failed"
    BY <1>1, <1>6, <1>7 DEF Good, Between, Current, Chosen, Live, B
  <1>8. CASE status = "ok"
    <2>1. s.attempts \in [Roles -> Nat]
      BY <1>0 DEF State
    <2>2. \A r \in Roles : Latest(t, r, "supervisor") = s.attempts[r]
      BY <1>1, RoleNames DEF Latest
    <2>3. \A r \in Views \cup {"writer"} : Latest(s, r, "evaluator") = s.attempts[r]
      BY RoleNames DEF Latest
    <2>4. ASSUME NEW v \in Views
          PROVE  t.results[v] \in {0, Latest(t, v, "supervisor")}
      BY <1>0, <1>1, <2>2, <2>3, RoleNames DEF Current, Live
    <2>5. t.report \in {0, Latest(t, "writer", "supervisor")}
      BY <1>0, <1>1, <2>2, <2>3, RoleNames DEF Current, Live
    <2>6. ASSUME NEW w \in B, w.role = "writer"
          PROVE  w \in A
      BY <2>6 DEF B
    <2>7. ASSUME NEW w \in B, w.role = "writer", NEW v \in Views
          PROVE  w.inputs[v] <= Latest(t, v, "supervisor")
      BY <1>0, <2>2, <2>3, <2>6, <2>7, RoleNames DEF Current, Live
    <2>8. t.attempts["publish"] = 0
      BY <1>0, <1>1 DEF Current, Live
    <2>9. t.attempts["evaluator"] <= Latest(t, "writer", "supervisor")
      BY <1>0, <1>1, <2>2, <2>3, RoleNames DEF Current, Live
    <2>10. RepairsOK(B, t)
      <3> SUFFICES ASSUME NEW e \in B, NEW w \in B,
                          e.role = "evaluator", w.role = "writer", w.attempt = e.report,
                          NEW v \in e.repairs \cap Views
                   PROVE  v \in t.feedback \/ t.results[v] = 0 \/ t.results[v] > w.inputs[v]
        BY DEF RepairsOK
      <3>1. CASE e = f
        BY <1>1, <3>1
      <3>2. CASE e # f
        <4>1. e \in A /\ w \in A
          BY <2>6, <3>2 DEF B
        <4>2. v \in s.feedback \/ s.results[v] = 0 \/ s.results[v] > w.inputs[v]
          BY <1>0, <4>1 DEF Current, Live, RepairsOK
        <4>3. s.feedback = {}
          BY <1>0 DEF Current, Live
        <4> QED
          BY <1>1, <4>2, <4>3
      <3> QED
        BY <3>1, <3>2
    <2>11. Current(B, t, "supervisor")
      BY <1>0, <1>1, <1>8, <2>4, <2>5, <2>7, <2>8, <2>9, <2>10, CurrentRunning
    <2> QED
      BY <1>1, <1>6, <1>8, <2>11, RoleNames DEF Good, Between, Chosen, B
  <1> QED
    BY <1>7, <1>8

LEMMA PublishFields ==
  ASSUME NEW s \in State, s.status = "running",
         NEW status \in {"ok", "failed"}, NEW code \in FailureCodes(status),
         NEW t, t = AfterPublish(s, status, code)
  PROVE  /\ t.results = s.results /\ t.summaries = s.summaries
         /\ t.report = s.report /\ t.evaluation = s.evaluation
         /\ t.repair_source = s.repair_source
         /\ t.publication = s.attempts["publish"]
         /\ t.attempts = s.attempts /\ t.step_count = s.step_count
         /\ t.next_action = "stop" /\ EndedOK(t)
         /\ status = "ok" => t.status = "completed"
         /\ status = "failed" => t.status \in {"incomplete", "needs_attention"}
  BY DEF AfterPublish, stop, State, FailureCodes, EndedOK

(* publish(): the run completes with the report that passed. *)
LEMMA PublishGood ==
  ASSUME NEW A, NEW s, Working(A, s, "publish"),
         NEW status \in {"ok", "failed"}, NEW code \in FailureCodes(status),
         NEW f \in PublishFile, f.role = "publish", f.attempt = s.attempts["publish"],
         f.status = status, f.report = s.report, f.evaluation = s.evaluation,
         NEW t, t = AfterPublish(s, status, code)
  PROVE  Good(A \cup {f}, t) /\ t.next_action \in {"supervisor", "stop"}
  <1> DEFINE B == A \cup {f}
  <1> HIDE DEF B
  <1>0. /\ s \in State /\ Sound(B, s) /\ s.status = "running" /\ Current(A, s, "publish")
        /\ PassedIn(A, s) /\ s.attempts["publish"] > 0
    BY SoundGrows, RoleNames DEF Working, Admissible, B
  <1>1. /\ t.results = s.results /\ t.summaries = s.summaries
        /\ t.report = s.report /\ t.evaluation = s.evaluation
        /\ t.repair_source = s.repair_source
        /\ t.publication = s.attempts["publish"]
        /\ t.attempts = s.attempts /\ t.step_count = s.step_count
        /\ t.next_action = "stop" /\ EndedOK(t)
        /\ status = "ok" => t.status = "completed"
        /\ status = "failed" => t.status \in {"incomplete", "needs_attention"}
    BY <1>0, PublishFields
  <1>2. CountersOK(t)
    BY <1>0, <1>1, CountersSame DEF Sound
  <1>3. ViewsOK(B, t)
    BY <1>0, <1>1 DEF Sound, ViewsOK
  <1>4. ReportOK(B, t) /\ VerdictOK(B, t)
    BY <1>0, <1>1 DEF Sound, ReportOK, VerdictOK, Live
  <1>5. f \in B /\ PassedIn(B, t)
    BY <1>0, <1>1 DEF PassedIn, B
  <1>6. OthersOK(B, t) /\ CompletedOK(B, t)
    BY <1>0, <1>1, <1>5 DEF Sound, OthersOK, CompletedOK
  <1>7. Sound(B, t)
    BY <1>1, <1>2, <1>3, <1>4, <1>6 DEF Sound
  <1>8. \A r \in Views \cup {"writer"} : Latest(t, r, "supervisor") = Latest(s, r, "publish")
    BY <1>1, RoleNames DEF Latest
  <1>9. \A w \in B : w.role = "writer" => w \in A
    BY DEF B
  <1>10. Current(B, t, "supervisor")
    BY <1>0, <1>1, <1>8, <1>9 DEF Current, Live
  <1>11. Chosen(B, t)
    BY <1>1 DEF Chosen
  <1> QED
    BY <1>1, <1>7, <1>10, <1>11 DEF Good, Between, B

-------------------------------------------------------------------------------
(* What the Supervisor decides. *)

LEMMA PassedMeans ==
  ASSUME Unique(artifacts), NEW s, VerdictOK(artifacts, s)
  PROVE  Passed(s) <=> PassedIn(artifacts, s)
  <1>1. CASE s.evaluation = 0
    BY <1>1 DEF Passed, PassedIn
  <1>2. CASE s.evaluation # 0
    <2>1. PICK f \in artifacts : f.role = "evaluator" /\ f.attempt = s.evaluation
      BY <1>2 DEF VerdictOK
    <2>2. get("evaluator", s.evaluation) = f
      BY <2>1, GetFile
    <2>3. \A g \in artifacts : g.role = "evaluator" /\ g.attempt = s.evaluation => g = f
      BY <2>1 DEF Unique
    <2> QED
      BY <1>2, <2>1, <2>2, <2>3 DEF Passed, PassedIn
  <1> QED
    BY <1>1, <1>2

(* The views that must be researched first rest on the technical result. *)
LEMMA TargetsAllowed ==
  ASSUME NEW s \in State
  PROVE  /\ ResearchTargets(s) \subseteq Views
         /\ \A v \in ResearchTargets(s) \ {"research"} : s.summaries["research"] = "ok"
         /\ ResearchTargets(s) = {} =>
                /\ \A v \in Views : s.summaries[v] = "ok"
                /\ s.feedback \cap Views = {}
  BY RoleNames DEF ResearchTargets, Ready

(* Every eligible action may be taken, and is within the limits. *)
LEMMA ChoicesAllowed ==
  ASSUME Unique(artifacts), NEW s, Working(artifacts, s, "supervisor"),
         NEW action \in choices(s)
  PROVE  /\ action \in Roles /\ s.step_count < SupervisorSteps
         /\ action \in Views \ {"research"} => s.summaries["research"] = "ok"
         /\ action = "writer" => /\ \A v \in Views : s.summaries[v] = "ok"
                                 /\ s.feedback \cap Views = {}
         /\ action = "evaluator" => s.report # 0 /\ s.evaluation = 0
         /\ action = "publish" => PassedIn(artifacts, s)
         /\ action \in Views => s.attempts[action] < WorkerAttempts
         /\ action = "writer" => s.attempts[action] < WriterAttempts
         /\ s.report # 0 /\ s.evaluation = 0 => Forced(s) /\ action = "evaluator"
  <1>0. s \in State /\ VerdictOK(artifacts, s)
    BY DEF Working, Sound
  <1>1. /\ s.attempts \in [Roles -> Nat] /\ s.step_count \in Nat
        /\ SupervisorSteps \in Nat /\ WorkerAttempts \in Nat /\ WriterAttempts \in Nat
    BY <1>0, LimitsAssumption DEF State
  <1>2. Passed(s) <=> PassedIn(artifacts, s)
    BY <1>0, PassedMeans
  <1>3. s.step_count < SupervisorSteps
    BY <1>1 DEF choices
  <1>8. s.status = "running" /\ s.last_error = "none" /\ ~(s.step_count >= SupervisorSteps)
    BY DEF choices
  <1>4. CASE Passed(s)
    <2>1. action = "publish"
      BY <1>4, <1>8 DEF choices
    <2> QED
      BY <1>2, <1>3, <1>4, <2>1, RoleNames DEF Passed
  <1>5. CASE ~Passed(s) /\ s.report # 0 /\ s.evaluation = 0
    <2>1. choices(s) = {"evaluator"}
      BY <1>5, <1>8 DEF choices
    <2> QED
      BY <1>3, <1>5, <2>1, RoleNames DEF Forced
  <1>6. CASE ~Passed(s) /\ ~(s.report # 0 /\ s.evaluation = 0) /\ ResearchTargets(s) # {}
    <2>1. choices(s) = ResearchTargets(s)
          /\ \A v \in ResearchTargets(s) : ~(s.attempts[v] >= WorkerAttempts)
      BY <1>6, <1>8 DEF choices
    <2>2. action \in ResearchTargets(s) /\ action \in Views
      BY <1>0, <2>1, TargetsAllowed
    <2>3. s.attempts[action] < WorkerAttempts
      BY <1>1, <2>1, <2>2, RoleNames
    <2>4. action # "research" => s.summaries["research"] = "ok"
      BY <1>0, <2>2, TargetsAllowed
    <2> QED
      BY <1>3, <1>6, <2>2, <2>3, <2>4, RoleNames
  <1>7. CASE ~Passed(s) /\ ~(s.report # 0 /\ s.evaluation = 0) /\ ResearchTargets(s) = {}
    <2>1. /\ ~(s.attempts["writer"] >= WriterAttempts)
          /\ \/ action = "writer"
             \/ action \in {v \in Views : s.attempts[v] < WorkerAttempts}
      BY <1>7, <1>8 DEF choices
    <2>2. s.attempts["writer"] < WriterAttempts
      BY <1>1, <2>1, RoleNames
    <2>3. (\A v \in Views : s.summaries[v] = "ok") /\ s.feedback \cap Views = {}
      BY <1>0, <1>7, TargetsAllowed
    <2> QED
      BY <1>3, <1>7, <2>1, <2>2, <2>3, RoleNames
  <1> QED
    BY <1>4, <1>5, <1>6, <1>7

LEMMA DecisionFields ==
  ASSUME NEW s \in State, s.status = "running", NEW action \in Actions,
         NEW sufficient \in BOOLEAN, NEW notes \in BOOLEAN,
         NEW t, t = AfterDecision(s, action, sufficient, notes)
  PROVE  /\ SameResults(s, t) /\ t.step_count = s.step_count + 1
         /\ t.next_action = action
         /\ action # "stop" =>
                /\ t.status = "running"
                /\ t.evidence_sufficient = sufficient
                /\ t.feedback \in {s.feedback, s.feedback \cup {action}}
                /\ ~notes /\ action \notin Views => t.feedback = s.feedback
         /\ action = "stop" => t.status = "incomplete"
  BY DEF AfterDecision, stop, State, SameResults

(* supervise(): an eligible decision sets up a node that may run. *)
LEMMA DecisionGood ==
  ASSUME Unique(artifacts), NEW s, Working(artifacts, s, "supervisor"),
         choices(s) # {}, NEW action \in choices(s) \cup {"stop"},
         NEW sufficient \in BOOLEAN, NEW notes \in BOOLEAN,
         action = "writer" => sufficient,
         Forced(s) => ~notes,
         NEW f \in DecisionFile,
         NEW t, t = AfterDecision(s, action, sufficient, notes)
  PROVE  Good(artifacts \cup {f}, t)
  <1> DEFINE A == artifacts
             B == A \cup {f}
  <1> HIDE DEF A, B
  <1>0. /\ s \in State /\ Sound(B, s) /\ s.status = "running" /\ Current(A, s, "supervisor")
        /\ A \in SUBSET File
    BY SoundGrows DEF Working, A, B
  <1>1. s.step_count < SupervisorSteps /\ (action = "stop" \/ action \in Roles)
    BY ChoicesAllowed
  <1>2. action \in Actions
    BY <1>1, RoleNames
  <1>3. /\ SameResults(s, t) /\ t.step_count = s.step_count + 1
        /\ t.next_action = action
        /\ action # "stop" =>
                /\ t.status = "running"
                /\ t.evidence_sufficient = sufficient
                /\ t.feedback \in {s.feedback, s.feedback \cup {action}}
                /\ ~notes /\ action \notin Views => t.feedback = s.feedback
        /\ action = "stop" => t.status = "incomplete"
    BY <1>0, <1>2, DecisionFields
  <1>4. CountersOK(t) /\ Cardinality(Attempted(t)) < t.step_count
    <2>1. Attempted(t) = Attempted(s)
      BY <1>3 DEF Attempted, SameResults
    <2>2. CountersOK(s)
      BY <1>0 DEF Sound
    <2>3. Cardinality(Attempted(s)) \in Nat
      BY <2>2, FS_CardinalityType DEF CountersOK
    <2>4. s.step_count \in Nat /\ SupervisorSteps \in Nat
      BY <1>0, LimitsAssumption DEF State
    <2> QED
      BY <1>1, <1>3, <2>1, <2>2, <2>3, <2>4 DEF CountersOK, SameResults
  <1>5. CASE action = "stop"
    <2>1. EndedOK(t)
      BY <1>3, <1>5 DEF EndedOK
    <2> QED
      BY <1>0, <1>3, <1>4, <1>5, <2>1, EndedSound DEF Good, A, B
  <1>6. CASE action # "stop"
    <2>0. action \in choices(s) /\ action \in Roles
      BY <1>1, <1>6
    <2>1. /\ action \in Views \ {"research"} => s.summaries["research"] = "ok"
          /\ action = "writer" => /\ \A v \in Views : s.summaries[v] = "ok"
                                  /\ s.feedback \cap Views = {}
          /\ action = "evaluator" => s.report # 0 /\ s.evaluation = 0
          /\ action = "publish" => PassedIn(A, s)
          /\ action \in Views => s.attempts[action] < WorkerAttempts
          /\ action = "writer" => s.attempts[action] < WriterAttempts
          /\ s.report # 0 /\ s.evaluation = 0 => Forced(s) /\ action = "evaluator"
      BY <2>0, ChoicesAllowed DEF A
    <2>2. ViewsOK(B, t)
      BY <1>0, <1>3 DEF Sound, ViewsOK, SameResults
    <2>3. ReportOK(B, t) /\ VerdictOK(B, t) /\ OthersOK(B, t)
      BY <1>0, <1>3, <1>6 DEF Sound, ReportOK, VerdictOK, OthersOK, SameResults, Live
    <2>4. CompletedOK(B, t) /\ EndedOK(t)
      BY <1>3, <1>6 DEF CompletedOK, EndedOK
    <2>5. Sound(B, t)
      BY <1>4, <2>2, <2>3, <2>4 DEF Sound
    <2>6. \A g \in B : g.role # "supervisor" => g \in A
      BY DEF B, DecisionFile
    <2>7. RepairsOK(B, t)
      <3> SUFFICES ASSUME NEW e \in B, NEW w \in B,
                          e.role = "evaluator", w.role = "writer", w.attempt = e.report,
                          NEW v \in e.repairs \cap Views
                   PROVE  v \in t.feedback \/ t.results[v] = 0 \/ t.results[v] > w.inputs[v]
        BY DEF RepairsOK
      <3>1. e \in A /\ w \in A
        BY <2>6
      <3>2. v \in s.feedback \/ s.results[v] = 0 \/ s.results[v] > w.inputs[v]
        BY <1>0, <3>1 DEF Current, Live, RepairsOK
      <3> QED
        BY <1>3, <1>6, <3>2 DEF SameResults
    <2>8. t.report # 0 /\ t.evaluation = 0 =>
              t.feedback = {} /\ t.attempts["evaluator"] < t.attempts["writer"]
      <3> SUFFICES ASSUME s.report # 0, s.evaluation = 0
                   PROVE  t.feedback = {} /\ t.attempts["evaluator"] < t.attempts["writer"]
        BY <1>3 DEF SameResults
      <3>1. s.feedback = {} /\ s.attempts["evaluator"] < s.attempts["writer"]
        BY <1>0 DEF Current, Live
      <3>2. ~notes /\ action \notin Views
        BY <2>1, RoleNames
      <3> QED
        BY <1>3, <1>6, <3>1, <3>2 DEF SameResults
    <2>9. \A r : Latest(t, r, "supervisor") = Latest(s, r, "supervisor")
      BY <1>3 DEF Latest, SameResults
    <2>10. ASSUME NEW w \in B, w.role = "writer", NEW v \in Views
           PROVE  w.inputs[v] <= Latest(t, v, "supervisor")
      BY <1>0, <2>6, <2>9, <2>10 DEF Current, Live
    <2>11. /\ \A v \in Views : t.results[v] \in {0, Latest(t, v, "supervisor")}
           /\ t.report \in {0, Latest(t, "writer", "supervisor")}
           /\ t.attempts["publish"] = 0
           /\ t.attempts["evaluator"] <= Latest(t, "writer", "supervisor")
      BY <1>0, <1>3, <2>9 DEF Current, Live, SameResults
    <2>12. Current(B, t, "supervisor")
      BY <1>3, <1>6, <2>7, <2>8, <2>10, <2>11, CurrentRunning
    <2>13. Admissible(B, t, action)
      <3>1. PassedIn(A, s) => PassedIn(B, t)
        BY <1>3 DEF PassedIn, SameResults, B
      <3>2. action = "writer" => t.feedback \cap Views = {}
        BY <1>3, <2>1, RoleNames
      <3> QED
        BY <1>3, <1>6, <2>1, <3>1, <3>2 DEF Admissible, SameResults
    <2>14. Affords(t, action)
      BY <1>3, <1>4, <2>1 DEF Affords, SameResults
    <2> QED
      BY <1>3, <2>5, <2>12, <2>13, <2>14 DEF Good, Between, Chosen, A, B
  <1> QED
    BY <1>5, <1>6

-------------------------------------------------------------------------------
(* The end of a handler keeps the invariant. *)

(* What get returns, for any set of files. *)
LEMMA UniqueFile ==
  ASSUME NEW A, Unique(A), NEW f \in A
  PROVE  (CHOOSE g \in A : g.role = f.role /\ g.attempt = f.attempt) = f
  BY DEF Unique

(* RepairsAreDone for any set of files, without get. *)
RepairsDone(A) ==
    \A e, w, r \in A :
        /\ e.role = "evaluator" /\ w.role = "writer" /\ w.attempt = e.report
        /\ r.role = "writer" /\ r.attempt > e.report
        => \A v \in e.repairs \cap Views : r.inputs[v] > w.inputs[v]

LEMMA RepairsUnfolded ==
  ASSUME FilesOK
  PROVE  RepairsAreDone => RepairsDone(artifacts)
  <1> SUFFICES ASSUME RepairsAreDone,
                      NEW e \in artifacts, NEW w \in artifacts, NEW r \in artifacts,
                      e.role = "evaluator", w.role = "writer", w.attempt = e.report,
                      r.role = "writer", r.attempt > e.report,
                      NEW v \in e.repairs \cap Views
               PROVE  r.inputs[v] > w.inputs[v]
    BY DEF RepairsDone
  <1>1. get("writer", e.report) = w
    BY GetFile DEF FilesOK
  <1> QED
    BY <1>1 DEF RepairsAreDone

LEMMA RepairsFolded ==
  ASSUME Unique(artifacts'), VerdictsRest(artifacts'), RepairsDone(artifacts')
  PROVE  RepairsAreDone'
  <1> SUFFICES ASSUME NEW e \in artifacts', NEW r \in artifacts',
                      e.role = "evaluator", r.role = "writer", r.attempt > e.report,
                      NEW v \in e.repairs \cap Views
               PROVE  r.inputs[v] > get("writer", e.report)'.inputs[v]
    BY DEF RepairsAreDone
  <1>1. PICK w \in artifacts' : w.role = "writer" /\ w.attempt = e.report
    BY DEF VerdictsRest
  <1>2. get("writer", e.report)' = w
    BY <1>1, UniqueFile DEF get
  <1> QED
    BY <1>1, <1>2 DEF RepairsDone

(* What a handler that is at work may rely on. *)
LEMMA HandlerRelies ==
  ASSUME RInv, NEW p \in Process, pc[p] \in {"begun", "calling"}
  PROVE  /\ mem[p] = snapshot /\ Working(artifacts, snapshot, Role(p))
         /\ Free(artifacts, Role(p), snapshot.pending.attempt)
         /\ snapshot.pending.attempt =
               IF Role(p) = "supervisor" THEN snapshot.step_count + 1
                                         ELSE snapshot.attempts[Role(p)]
         /\ Unique(artifacts) /\ VerdictsRest(artifacts) /\ RepairsDone(artifacts)
         /\ \A f \in artifacts :
               \/ f.role = Role(p) /\ f.attempt = snapshot.pending.attempt
               \/ Covers(snapshot, f)
         /\ Role(p) = "supervisor" => Between(artifacts, snapshot)
         /\ pc[p] = "calling" /\ Role(p) = "supervisor" =>
               choices(snapshot) # {} /\ ~Forced(snapshot)
         /\ RunsAlone /\ snapshot \in State
  <1>1. /\ mem[p] = snapshot /\ snapshot.status = "running" /\ Role(p) = snapshot.pending.role
        /\ snapshot \in State /\ artifacts \in SUBSET File /\ RunsAlone
    BY DEF RInv, IInv, TypeOK, HandlerOK, Role
  <1>2. WorkOK(p)
    BY DEF RInv
  <1>3. FilesOK /\ SnapshotOK
    BY DEF RInv
  <1>4. Working(artifacts, snapshot, Role(p))
    BY <1>1, <1>2, <1>3 DEF WorkOK, SnapshotOK, Working
  <1>5. Free(artifacts, Role(p), snapshot.pending.attempt)
    BY <1>1, <1>2 DEF WorkOK, Written, Free
  <1>6. VerdictsRest(artifacts) /\ Unique(artifacts)
    BY <1>3 DEF FilesOK, VerdictsRest
  <1>7. RepairsDone(artifacts)
    BY <1>3, RepairsUnfolded DEF RInv
  <1>8. \A f \in artifacts :
               \/ f.role = Role(p) /\ f.attempt = snapshot.pending.attempt
               \/ Covers(snapshot, f)
    BY <1>1, <1>3 DEF FilesOK
  <1>9. Role(p) = "supervisor" => Between(artifacts, snapshot)
    BY <1>1, <1>3 DEF SnapshotOK
  <1>10. /\ snapshot.pending.attempt =
               IF Role(p) = "supervisor" THEN snapshot.step_count + 1
                                         ELSE snapshot.attempts[Role(p)]
         /\ pc[p] = "calling" /\ Role(p) = "supervisor" =>
               choices(snapshot) # {} /\ ~Forced(snapshot)
    BY <1>2 DEF WorkOK
  <1> QED
    BY <1>1, <1>4, <1>5, <1>6, <1>7, <1>8, <1>9, <1>10

(* Decisions on file leave what is between two nodes as it is. *)
LEMMA BetweenGrows ==
  ASSUME NEW A, NEW B, A \subseteq B, NEW s, Between(A, s),
         \A f \in B \ A : f.role = "supervisor"
  PROVE  Between(B, s)
  <1>1. \A w \in B : w.role # "supervisor" => w \in A
    OBVIOUS
  <1>2. RepairsOK(A, s) => RepairsOK(B, s)
    BY <1>1 DEF RepairsOK
  <1>3. Current(B, s, "supervisor")
    BY <1>1, <1>2 DEF Between, Current
  <1>4. PassedIn(A, s) => PassedIn(B, s)
    BY DEF PassedIn
  <1>5. Chosen(B, s)
    BY <1>4 DEF Between, Chosen, Admissible
  <1> QED
    BY <1>3, <1>5 DEF Between

(* A handler that ends keeps the invariant, if what it leaves is good. *)
LEMMA FinishR ==
  ASSUME RInv, IInv', NEW p \in Process, pc[p] \in {"begun", "calling"},
         NEW s \in State, Finish(p, s), s.pending = mem[p].pending,
         artifacts \subseteq artifacts',
         \A f \in artifacts' \ artifacts :
             f.role = Role(p) /\ f.attempt = snapshot.pending.attempt,
         Unique(artifacts'), VerdictsRest(artifacts'), RepairsDone(artifacts'),
         Good(artifacts', s),
         s.status = "running" => \A f \in artifacts' : Covers(s, f),
         Role(p) # "supervisor" => s.next_action \in {"supervisor", "stop"}
  PROVE  RInv'
  <1>1. /\ mem[p] = snapshot /\ Sound(artifacts, snapshot)
        /\ snapshot.status = "running" /\ Role(p) = snapshot.pending.role
        /\ \A f \in artifacts :
               \/ f.role = Role(p) /\ f.attempt = snapshot.pending.attempt
               \/ Covers(snapshot, f)
        /\ Role(p) = "supervisor" => Between(artifacts, snapshot)
    BY HandlerRelies DEF Working, Role
  <1>2. /\ snapshot' = snapshot /\ mem'[p] = s /\ pc'[p] = "done"
        /\ \A q \in Process : q # p => pc'[q] = "idle"
    BY DEF RInv, IInv, TypeOK, Finish, RunsAlone
  <1>3. FilesOK'
    <2>1. \A e \in artifacts' : e.role = "evaluator" =>
             \E w \in artifacts' : w.role = "writer" /\ w.attempt = e.report
      BY DEF VerdictsRest
    <2>2. \A f \in artifacts' :
               \/ f.role = snapshot'.pending.role /\ f.attempt = snapshot'.pending.attempt
               \/ Covers(snapshot', f)
      BY <1>1, <1>2
    <2> QED
      BY <1>1, <1>2, <2>1, <2>2 DEF FilesOK
  <1>4. SnapshotOK'
    <2>1. Sound(artifacts', snapshot)
      BY <1>1, SoundGrows
    <2>2. Role(p) = "supervisor" => Between(artifacts', snapshot)
      BY <1>1, BetweenGrows
    <2> QED
      BY <1>1, <1>2, <2>1, <2>2 DEF SnapshotOK
  <1>5. RepairsAreDone'
    BY RepairsFolded
  <1>6. ASSUME NEW q \in Process
        PROVE  (AtNextAction(q) /\ WorkOK(q) /\ FinishedOK(q))'
    <2>1. CASE q = p
      <3>1. Role(p)' = Role(p)
        BY <1>2 DEF Role
      <3> QED
        BY <1>2, <2>1, <3>1 DEF AtNextAction, WorkOK, FinishedOK, Good
    <2>2. CASE q # p
      BY <1>2, <2>2 DEF AtNextAction, WorkOK, FinishedOK
    <2> QED
      BY <2>1, <2>2
  <1> QED
    BY <1>3, <1>4, <1>5, <1>6 DEF RInv

(* An exception in a handler. *)
LEMMA RaiseR ==
  ASSUME RInv, IInv', NEW p \in Process, pc[p] \in {"begun", "calling"},
         NEW code \in Codes, Raise(p, code)
  PROVE  RInv'
  <1>1. PICK s : s = stop(mem[p], code)
    OBVIOUS
  <1>2. /\ mem[p] = snapshot /\ snapshot \in State /\ Sound(artifacts, snapshot)
        /\ Unique(artifacts) /\ VerdictsRest(artifacts) /\ RepairsDone(artifacts)
    BY HandlerRelies DEF Working
  <1>3. /\ s \in State /\ s.pending = mem[p].pending
        /\ Sound(artifacts, s) /\ Between(artifacts, s)
        /\ s.next_action = "stop" /\ s.status # "running"
    BY <1>1, <1>2, StopType, StopFields, StopSound
  <1>4. Finish(p, s) /\ artifacts' = artifacts
    BY <1>1 DEF Raise
  <1> QED
    BY <1>2, <1>3, <1>4, FinishR DEF Good

(* A result that is stored leaves every repair done. *)
LEMMA RepairsStayDone ==
  ASSUME NEW s, NEW role, Working(artifacts, s, role),
         Free(artifacts, role, s.attempts[role]),
         VerdictsRest(artifacts), RepairsDone(artifacts),
         \A w \in artifacts : w.role = "writer" /\ role # "writer" =>
             w.attempt <= s.attempts["writer"],
         NEW f \in File, f.role = role,
         role \in {"writer", "evaluator"} => f.attempt = s.attempts[role],
         role = "evaluator" => f.report = s.report,
         role = "writer" => f.inputs = s.results
  PROVE  RepairsDone(artifacts \cup {f}) /\ VerdictsRest(artifacts \cup {f})
  <1> DEFINE A == artifacts
             B == A \cup {f}
  <1> HIDE DEF A, B
  <1>0. /\ s \in State /\ Sound(A, s) /\ Current(A, s, role) /\ Admissible(A, s, role)
        /\ A \in SUBSET File /\ s.status = "running"
    BY DEF Working, A
  <1>1. CASE role = "evaluator"
    <2>1. s.report # 0 /\ s.report = s.attempts["writer"]
      BY <1>0, <1>1 DEF Admissible, Current, Live, Latest
    <2>2. VerdictsRest(B)
      <3>1. \E w \in A : w.role = "writer" /\ w.attempt = s.report
        BY <1>0, <2>1 DEF Sound, ReportOK
      <3> QED
        BY <1>1, <3>1 DEF VerdictsRest, A, B
    <2>3. \A w \in B : w.role = "writer" => w \in A /\ w.attempt \in Nat
      BY <1>0, <1>1, ReportType DEF B, ReportFile
    <2>4. s.attempts["writer"] \in Nat
      BY <1>0, RoleNames DEF State
    <2>5. RepairsDone(B)
      <3> SUFFICES ASSUME NEW e \in B, NEW w \in B, NEW r \in B,
                          e.role = "evaluator", w.role = "writer", w.attempt = e.report,
                          r.role = "writer", r.attempt > e.report,
                          NEW v \in e.repairs \cap Views
                   PROVE  r.inputs[v] > w.inputs[v]
        BY DEF RepairsDone
      <3>1. e # f
        BY <1>1, <2>1, <2>3, <2>4 DEF A
      <3> QED
        BY <2>3, <3>1 DEF RepairsDone, A, B
    <2> QED
      BY <2>2, <2>5 DEF A, B
  <1>2. CASE role = "writer"
    <2>1. \A e \in B : e.role = "evaluator" => e \in A
      BY <1>2 DEF B
    <2>2. VerdictsRest(B)
      BY <2>1 DEF VerdictsRest, A, B
    <2>3. \A v \in Views : s.results[v] # 0
      BY <1>0, <1>2 DEF Admissible, Sound, ViewsOK
    <2>4. RepairsDone(B)
      <3> SUFFICES ASSUME NEW e \in B, NEW w \in B, NEW r \in B,
                          e.role = "evaluator", w.role = "writer", w.attempt = e.report,
                          r.role = "writer", r.attempt > e.report,
                          NEW v \in e.repairs \cap Views
                   PROVE  r.inputs[v] > w.inputs[v]
        BY DEF RepairsDone
      <3>1. e \in A
        BY <2>1
      <3>2. w \in A
        <4>1. PICK x \in A : x.role = "writer" /\ x.attempt = e.report
          BY <3>1 DEF VerdictsRest, A
        <4> QED
          BY <1>2, <4>1 DEF Free, A, B
      <3>3. CASE r \in A
        BY <3>1, <3>2, <3>3 DEF RepairsDone, A
      <3>4. CASE r = f
        <4>1. v \in s.feedback \/ s.results[v] = 0 \/ s.results[v] > w.inputs[v]
          BY <1>0, <3>1, <3>2 DEF Current, Live, RepairsOK
        <4> QED
          BY <1>0, <1>2, <2>3, <3>4, <4>1 DEF Admissible
      <3> QED
        BY <3>3, <3>4 DEF B
    <2> QED
      BY <2>2, <2>4 DEF A, B
  <1>3. CASE role \notin {"evaluator", "writer"}
    <2>1. \A g \in B : g.role \in {"evaluator", "writer"} => g \in A
      BY <1>3 DEF B
    <2>2. A \subseteq B
      BY DEF B
    <2>3. VerdictsRest(B)
      BY <2>1, <2>2 DEF VerdictsRest, A
    <2>4. RepairsDone(B)
      BY <2>1 DEF RepairsDone, A
    <2> QED
      BY <2>3, <2>4 DEF A, B
  <1> QED
    BY <1>1, <1>2, <1>3

(* Storing a result: the slot is free, so it is stored. *)
LEMMA RecordR ==
  ASSUME RInv, IInv', NEW p \in Process, pc[p] \in {"begun", "calling"},
         NEW f \in File, f.role = Role(p), f.attempt = snapshot.pending.attempt,
         NEW s \in State, Record(p, f, s), s.pending = mem[p].pending,
         Good(artifacts \cup {f}, s),
         s.attempts = snapshot.attempts,
         s.step_count = IF Role(p) = "supervisor" THEN snapshot.step_count + 1
                                                  ELSE snapshot.step_count,
         Role(p) # "supervisor" => s.next_action \in {"supervisor", "stop"},
         Role(p) = "evaluator" => f.report = snapshot.report,
         Role(p) = "writer" => f.inputs = snapshot.results
  PROVE  RInv'
  <1>1. /\ mem[p] = snapshot /\ Working(artifacts, snapshot, Role(p))
        /\ Free(artifacts, Role(p), snapshot.pending.attempt)
        /\ snapshot.pending.attempt =
               IF Role(p) = "supervisor" THEN snapshot.step_count + 1
                                         ELSE snapshot.attempts[Role(p)]
        /\ Unique(artifacts) /\ VerdictsRest(artifacts) /\ RepairsDone(artifacts)
        /\ \A g \in artifacts :
               \/ g.role = Role(p) /\ g.attempt = snapshot.pending.attempt
               \/ Covers(snapshot, g)
        /\ snapshot \in State
    BY HandlerRelies
  <1>2. artifacts' = artifacts \cup {f} /\ Finish(p, s)
    BY <1>1 DEF Record, Written, Free, put
  <1>3. Unique(artifacts')
    BY <1>1, <1>2 DEF Unique, Free
  <1>4. /\ snapshot.step_count \in Nat /\ snapshot.attempts \in [Roles -> Nat]
        /\ Role(p) \in Nodes
    BY <1>1, RoleType DEF State, RInv, IInv
  <1>5. \A g \in artifacts' : Covers(s, g)
    <2> SUFFICES ASSUME NEW g \in artifacts'
                 PROVE  Covers(s, g)
      OBVIOUS
    <2>1. \/ g.role = Role(p) /\ g.attempt = snapshot.pending.attempt
          \/ Covers(snapshot, g)
      BY <1>1, <1>2
    <2>2. g \in File /\ g.attempt \in Nat
      BY <1>1, <1>2 DEF Working, File, ResearchFile, ReportFile, VerdictFile,
                        PublishFile, DecisionFile
    <2>3. CASE g.role = Role(p) /\ g.attempt = snapshot.pending.attempt
      <3>1. CASE Role(p) = "supervisor"
        BY <1>1, <1>4, <2>3, <3>1 DEF Covers
      <3>2. CASE Role(p) # "supervisor"
        <4>1. Role(p) \in Roles
          BY <1>4, <3>2, RoleNames
        <4> QED
          BY <1>1, <1>4, <2>3, <3>2, <4>1 DEF Covers
      <3> QED
        BY <3>1, <3>2
    <2>4. CASE Covers(snapshot, g)
      BY <1>4, <2>2, <2>4 DEF Covers
    <2> QED
      BY <2>1, <2>3, <2>4
  <1>6. RepairsDone(artifacts') /\ VerdictsRest(artifacts')
    <2>1. Role(p) # "supervisor" => Free(artifacts, Role(p), snapshot.attempts[Role(p)])
      BY <1>1
    <2>2. CASE Role(p) = "supervisor"
      <3>1. \A g \in artifacts' : g.role \in {"evaluator", "writer"} => g \in artifacts
        BY <1>2, <2>2
      <3> QED
        BY <1>1, <1>2, <3>1 DEF RepairsDone, VerdictsRest
    <2>3. CASE Role(p) # "supervisor"
      <3>1. \A w \in artifacts : w.role = "writer" /\ Role(p) # "writer" =>
                w.attempt <= snapshot.attempts["writer"]
        BY <1>1 DEF Covers
      <3> QED
        BY <1>1, <1>2, <2>1, <2>3, <3>1, RepairsStayDone
    <2> QED
      BY <2>2, <2>3
  <1> QED
    BY <1>1, <1>2, <1>3, <1>5, <1>6, FinishR

-------------------------------------------------------------------------------
(* The handlers, one by one. *)

LEMMA SuperviseR ==
  ASSUME RInv, IInv', NEW p \in Process, SuperviseLocally(p) \/ Decided(p)
  PROVE  RInv'
  <1>1. /\ pc[p] \in {"begun", "calling"} /\ Role(p) = "supervisor"
    BY DEF SuperviseLocally, Decided
  <1>2. /\ mem[p] = snapshot /\ Working(artifacts, snapshot, "supervisor")
        /\ snapshot.pending.attempt = snapshot.step_count + 1
        /\ Unique(artifacts) /\ snapshot \in State /\ snapshot.status = "running"
        /\ pc[p] = "calling" => choices(snapshot) # {} /\ ~Forced(snapshot)
    BY <1>1, HandlerRelies DEF Working
  <1>3. /\ Decision(p) \in DecisionFile /\ Decision(p) \in File
        /\ Decision(p).role = Role(p)
        /\ Decision(p).attempt = snapshot.pending.attempt
    BY <1>1, <1>2 DEF Decision, File, DecisionFile, State
  <1>4. ASSUME NEW action \in choices(snapshot) \cup {"stop"}, choices(snapshot) # {},
               NEW sufficient \in BOOLEAN, NEW notes \in BOOLEAN,
               action = "writer" => sufficient, Forced(snapshot) => ~notes,
               Record(p, Decision(p), AfterDecision(snapshot, action, sufficient, notes))
        PROVE  RInv'
    <2>1. PICK t : t = AfterDecision(snapshot, action, sufficient, notes)
      OBVIOUS
    <2>2. PICK f : f = Decision(p)
      OBVIOUS
    <2>3. Good(artifacts \cup {f}, t)
      BY <1>2, <1>3, <1>4, <2>1, <2>2, DecisionGood
    <2>4. action \in Actions
      <3>1. CASE action = "stop"
        BY <3>1, RoleNames
      <3>2. CASE action # "stop"
        <4>1. action \in choices(snapshot)
          BY <3>2
        <4>2. action \in Roles
          BY <1>2, <4>1, ChoicesAllowed
        <4> QED
          BY <4>2, RoleNames
      <3> QED
        BY <3>1, <3>2
    <2>5. SameResults(snapshot, t) /\ t.step_count = snapshot.step_count + 1
      BY <1>2, <2>1, <2>4, DecisionFields
    <2>6. t \in State
      BY <1>2, <2>1, <2>4, DecisionType
    <2>7. t.pending = snapshot.pending
      BY <1>2, <2>1 DEF AfterDecision, stop, State
    <2>8. Record(p, f, t)
      BY <1>4, <2>1, <2>2
    <2> QED
      BY <1>1, <1>2, <1>3, <2>2, <2>3, <2>5, <2>6, <2>7, <2>8, RecordR DEF SameResults
  <1>5. CASE SuperviseLocally(p)
    <2>1. CASE Raise(p, "limit_exceeded")
      BY <1>1, <2>1, RaiseR DEF Codes
    <2>2. ASSUME NEW action \in choices(mem[p]), Forced(mem[p]),
                 Record(p, Decision(p), AfterDecision(mem[p], action, TRUE, FALSE))
          PROVE  RInv'
      BY <1>2, <1>4, <2>2
    <2> QED
      BY <1>5, <2>1, <2>2 DEF SuperviseLocally
  <1>6. CASE Decided(p)
    <2> PICK action \in Actions, sufficient \in BOOLEAN, notes \in BOOLEAN :
          IF Eligible(mem[p], action, sufficient)
          THEN Record(p, Decision(p),
                      AfterDecision(mem[p], action, sufficient, notes))
          ELSE Raise(p, "error")
      BY <1>6, Zenon DEF Decided
    <2>1. pc[p] = "calling"
      BY <1>6 DEF Decided
    <2>2. CASE Eligible(mem[p], action, sufficient)
      BY <1>2, <1>4, <2>1, <2>2 DEF Eligible
    <2>3. CASE ~Eligible(mem[p], action, sufficient)
      BY <1>1, <2>3, RaiseR DEF Codes
    <2> QED
      BY <2>2, <2>3
  <1> QED
    BY <1>5, <1>6

LEMMA ResearchedR ==
  ASSUME RInv, IInv', NEW p \in Process, Researched(p)
  PROVE  RInv'
  <1> DEFINE f(status) ==
               [role    |-> Role(p), attempt |-> mem[p].attempts[Role(p)],
                status  |-> status,
                context |-> IF Role(p) = "research" THEN 0
                            ELSE mem[p].results["research"]]
  <1>1. PICK status \in {"ok", "insufficient", "failed"} :
                \E code \in FailureCodes(status) :
                   Record(p, f(status), AfterWorker(mem[p], Role(p), status, code))
    BY DEF Researched
  <1>2. PICK code \in FailureCodes(status) :
               Record(p, f(status), AfterWorker(mem[p], Role(p), status, code))
    BY <1>1
  <1>3. pc[p] = "calling" /\ Role(p) \in Views /\ Role(p) # "supervisor"
        /\ Role(p) # "evaluator" /\ Role(p) # "writer"
    BY RoleNames DEF Researched
  <1>4. /\ mem[p] = snapshot /\ Working(artifacts, snapshot, Role(p))
        /\ snapshot.pending.attempt = snapshot.attempts[Role(p)]
        /\ snapshot \in State
    BY <1>3, HandlerRelies
  <1>5. PICK g : g = f(status)
    OBVIOUS
  <1>6. /\ g \in ResearchFile /\ g \in File
        /\ g.role = Role(p) /\ g.attempt = snapshot.attempts[Role(p)]
        /\ g.status = status
        /\ Role(p) # "research" => g.context = snapshot.results["research"]
    BY <1>3, <1>4, <1>5 DEF File, ResearchFile, State, Roles, Views
  <1>7. PICK t : t = AfterWorker(snapshot, Role(p), status, code)
    OBVIOUS
  <1>8. t \in State /\ t.pending = snapshot.pending
    BY <1>3, <1>4, <1>7, WorkerOutcome DEF RInv
  <1>9. t.attempts = snapshot.attempts /\ t.step_count = snapshot.step_count
    BY <1>4, <1>7 DEF AfterWorker, stop, State
  <1>10. Good(artifacts \cup {g}, t) /\ t.next_action \in {"supervisor", "stop"}
    BY <1>3, <1>4, <1>6, <1>7, WorkerGood
  <1>11. Record(p, g, t)
    BY <1>2, <1>4, <1>5, <1>7
  <1> QED
    BY <1>3, <1>4, <1>6, <1>8, <1>9, <1>10, <1>11, RecordR

LEMMA ReportWrittenR ==
  ASSUME RInv, IInv', NEW p \in Process, ReportWritten(p)
  PROVE  RInv'
  <1> DEFINE f(status) ==
               [role   |-> "writer", attempt |-> mem[p].attempts["writer"],
                status |-> status, inputs |-> mem[p].results]
  <1>1. PICK status \in {"ok", "failed"} :
                \E code \in FailureCodes(status) :
                   Record(p, f(status), AfterWriter(mem[p], status, code))
    BY DEF ReportWritten
  <1>2. PICK code \in FailureCodes(status) :
               Record(p, f(status), AfterWriter(mem[p], status, code))
    BY <1>1
  <1>3. pc[p] = "calling" /\ Role(p) = "writer"
    BY DEF ReportWritten
  <1>4. /\ mem[p] = snapshot /\ Working(artifacts, snapshot, "writer")
        /\ snapshot.pending.attempt = snapshot.attempts["writer"]
        /\ VerdictsRest(artifacts)
        /\ Free(artifacts, "writer", snapshot.attempts["writer"])
        /\ snapshot \in State /\ snapshot.status = "running"
    BY <1>3, HandlerRelies DEF Working
  <1>5. PICK g : g = f(status)
    OBVIOUS
  <1>6. /\ g \in ReportFile /\ g \in File
        /\ g.role = "writer" /\ g.attempt = snapshot.attempts["writer"]
        /\ g.status = status /\ g.inputs = snapshot.results
    BY <1>4, <1>5 DEF File, ReportFile, State, Roles
  <1>7. PICK t : t = AfterWriter(snapshot, status, code)
    OBVIOUS
  <1>8. t \in State /\ t.pending = snapshot.pending
    BY <1>3, <1>4, <1>7, WriterOutcome DEF RInv
  <1>9. t.attempts = snapshot.attempts /\ t.step_count = snapshot.step_count
    BY <1>4, <1>7, WriterFields
  <1>10. Good(artifacts \cup {g}, t) /\ t.next_action \in {"supervisor", "stop"}
    BY <1>4, <1>6, <1>7, WriterGood
  <1>11. Record(p, g, t)
    BY <1>2, <1>4, <1>5, <1>7
  <1> QED
    BY <1>3, <1>4, <1>6, <1>8, <1>9, <1>10, <1>11, RecordR

LEMMA EvaluatedR ==
  ASSUME RInv, IInv', NEW p \in Process, Evaluated(p)
  PROVE  RInv'
  <1> DEFINE f(status, repairs) ==
               [role    |-> "evaluator",
                attempt |-> mem[p].attempts["evaluator"],
                status  |-> status, report |-> mem[p].report,
                passed  |-> status = "ok" /\ repairs = {},
                repairs |-> repairs]
  <1>1. PICK status \in {"ok", "failed"} :
            \E code \in FailureCodes(status) :
            \E repairs \in IF status = "ok" THEN SUBSET Targets ELSE {{}} :
               Record(p, f(status, repairs), AfterEvaluate(mem[p], status, repairs, code))
    BY DEF Evaluated
  <1>2. PICK code \in FailureCodes(status),
             repairs \in IF status = "ok" THEN SUBSET Targets ELSE {{}} :
               Record(p, f(status, repairs), AfterEvaluate(mem[p], status, repairs, code))
    BY <1>1
  <1>3. pc[p] = "calling" /\ Role(p) = "evaluator"
    BY DEF Evaluated
  <1>4. /\ mem[p] = snapshot /\ Working(artifacts, snapshot, "evaluator")
        /\ snapshot.pending.attempt = snapshot.attempts["evaluator"]
        /\ snapshot \in State /\ snapshot.status = "running"
    BY <1>3, HandlerRelies DEF Working
  <1>5. PICK g : g = f(status, repairs)
    OBVIOUS
  <1>6. repairs \in SUBSET Targets
    BY <1>2
  <1>7. /\ g \in VerdictFile /\ g \in File
        /\ g.role = "evaluator" /\ g.attempt = snapshot.attempts["evaluator"]
        /\ g.report = snapshot.report /\ g.repairs = repairs
    <2>1. snapshot.attempts["evaluator"] \in Nat /\ snapshot.report \in Nat
      BY <1>4, RoleNames DEF State
    <2>2. (status = "ok" /\ repairs = {}) \in BOOLEAN
      OBVIOUS
    <2>3. g \in VerdictFile
      BY <1>4, <1>5, <1>6, <2>1, <2>2 DEF VerdictFile
    <2> QED
      BY <1>4, <1>5, <2>3 DEF File
  <1>8. PICK t : t = AfterEvaluate(snapshot, status, repairs, code)
    OBVIOUS
  <1>9. t \in State /\ t.pending = snapshot.pending
    BY <1>3, <1>4, <1>6, <1>8, EvaluateOutcome DEF RInv
  <1>10. t.attempts = snapshot.attempts /\ t.step_count = snapshot.step_count
    BY <1>4, <1>8, EvaluateFields
  <1>11. Good(artifacts \cup {g}, t) /\ t.next_action \in {"supervisor", "stop"}
    BY <1>4, <1>7, <1>8, EvaluateGood
  <1>12. Record(p, g, t)
    BY <1>2, <1>4, <1>5, <1>8
  <1> QED
    BY <1>3, <1>4, <1>7, <1>9, <1>10, <1>11, <1>12, RecordR

LEMMA PublishedR ==
  ASSUME RInv, IInv', NEW p \in Process, Published(p)
  PROVE  RInv'
  <1> DEFINE f(status) ==
               [role   |-> "publish", attempt |-> mem[p].attempts["publish"],
                status |-> status, report |-> mem[p].report,
                evaluation |-> mem[p].evaluation]
  <1>1. PICK status \in {"ok", "failed"} :
                \E code \in FailureCodes(status) :
                   Record(p, f(status), AfterPublish(mem[p], status, code))
    BY DEF Published
  <1>2. PICK code \in FailureCodes(status) :
               Record(p, f(status), AfterPublish(mem[p], status, code))
    BY <1>1
  <1>3. pc[p] = "calling" /\ Role(p) = "publish"
    BY DEF Published
  <1>4. /\ mem[p] = snapshot /\ Working(artifacts, snapshot, "publish")
        /\ snapshot.pending.attempt = snapshot.attempts["publish"]
        /\ snapshot \in State /\ snapshot.status = "running"
    BY <1>3, HandlerRelies DEF Working
  <1>5. PICK g : g = f(status)
    OBVIOUS
  <1>6. /\ g \in PublishFile /\ g \in File
        /\ g.role = "publish" /\ g.attempt = snapshot.attempts["publish"]
        /\ g.status = status
        /\ g.report = snapshot.report /\ g.evaluation = snapshot.evaluation
    BY <1>4, <1>5 DEF File, PublishFile, State, Roles
  <1>7. PICK t : t = AfterPublish(snapshot, status, code)
    OBVIOUS
  <1>8. t \in State /\ t.pending = snapshot.pending
    BY <1>3, <1>4, <1>7, PublishOutcome DEF RInv
  <1>9. t.attempts = snapshot.attempts /\ t.step_count = snapshot.step_count
    BY <1>4, <1>7, PublishFields
  <1>10. Good(artifacts \cup {g}, t) /\ t.next_action \in {"supervisor", "stop"}
    BY <1>4, <1>6, <1>7, PublishGood
  <1>11. Record(p, g, t)
    BY <1>2, <1>4, <1>5, <1>7
  <1> QED
    BY <1>3, <1>4, <1>6, <1>8, <1>9, <1>10, <1>11, RecordR

-------------------------------------------------------------------------------
(* The other steps. *)

LEMMA InitialSound ==
  ASSUME NEW s \in {initial, Absent}
  PROVE  Good({}, s)
  <1>1. /\ s.status \in {"running", "absent"} /\ s.next_action = "supervisor"
        /\ s.step_count = 0 /\ s.attempts = [r \in Roles |-> 0]
        /\ s.feedback = {} /\ s.summaries = [v \in Views |-> "none"]
        /\ s.results = [v \in Views |-> 0]
        /\ s.report = 0 /\ s.evaluation = 0 /\ s.publication = 0 /\ s.repair_source = 0
    BY DEF initial, Absent
  <1>2. Attempted(s) = {}
    BY <1>1 DEF Attempted
  <1>3. CountersOK(s)
    BY <1>1, <1>2, FS_EmptySet, LimitsAssumption, RoleNames DEF CountersOK
  <1>4. Sound({}, s)
    BY <1>1, <1>3 DEF Sound, ViewsOK, ReportOK, VerdictOK, OthersOK, CompletedOK, EndedOK
  <1>5. Current({}, s, "supervisor")
    BY <1>1, RoleNames DEF Current, Live, Latest, RepairsOK
  <1>6. Chosen({}, s)
    BY <1>1, RoleNames DEF Chosen
  <1> QED
    BY <1>4, <1>5, <1>6 DEF Good, Between

(* As long as the disk does not change, neither does what it offers. *)
LEMMA SameDisk ==
  ASSUME RInv, UNCHANGED <<snapshot, artifacts>>
  PROVE  /\ FilesOK' /\ SnapshotOK' /\ RepairsAreDone'
         /\ choices(snapshot)' = choices(snapshot)
         /\ Forced(snapshot)' <=> Forced(snapshot)
  <1>1. choices(snapshot)' = choices(snapshot)
    BY DEF choices, Passed, get, ResearchTargets, Ready
  <1>2. Forced(snapshot)' <=> Forced(snapshot)
    BY <1>1 DEF Forced
  <1>3. RepairsAreDone'
    BY DEF RInv, RepairsAreDone, get
  <1>4. FilesOK' /\ SnapshotOK'
    BY DEF RInv, FilesOK, SnapshotOK
  <1> QED
    BY <1>1, <1>2, <1>3, <1>4

LEMMA SameProcess ==
  ASSUME RInv, UNCHANGED <<snapshot, artifacts>>, NEW q \in Process,
         pc'[q] = pc[q], mem'[q] = mem[q], at'[q] = at[q]
  PROVE  (AtNextAction(q) /\ WorkOK(q) /\ FinishedOK(q))'
  <1>1. /\ choices(snapshot)' = choices(snapshot)
        /\ Forced(snapshot)' <=> Forced(snapshot)
    BY SameDisk
  <1>2. Role(q)' = Role(q)
    BY DEF Role
  <1>3. AtNextAction(q) /\ WorkOK(q) /\ FinishedOK(q)
    BY DEF RInv
  <1>4. WorkOK(q)'
    BY <1>1, <1>2, <1>3 DEF WorkOK, Written
  <1>5. AtNextAction(q)' /\ FinishedOK(q)'
    BY <1>2, <1>3 DEF AtNextAction, FinishedOK
  <1> QED
    BY <1>4, <1>5

LEMMA LeaveR ==
  ASSUME RInv, IInv', NEW p \in Process, Leave(p), UNCHANGED <<snapshot, artifacts>>
  PROVE  RInv'
  <1>1. /\ pc'[p] = "idle"
        /\ \A q \in Process : q # p => /\ pc'[q] = pc[q] /\ mem'[q] = mem[q]
                                       /\ at'[q] = at[q]
    BY DEF RInv, IInv, TypeOK, Leave
  <1>2. ASSUME NEW q \in Process
        PROVE  (AtNextAction(q) /\ WorkOK(q) /\ FinishedOK(q))'
    <2>1. CASE q = p
      BY <1>1, <2>1 DEF AtNextAction, WorkOK, FinishedOK
    <2>2. CASE q # p
      BY <1>1, <2>2, SameProcess
    <2> QED
      BY <2>1, <2>2
  <1> QED
    BY <1>2, SameDisk DEF RInv

LEMMA SendR ==
  ASSUME RInv, IInv', NEW p \in Process, Send(p)
  PROVE  RInv'
  <1>1. CASE ~RequestAccepted(mem[p], Role(p))
    BY <1>1, RaiseR DEF Send, Codes
  <1>2. CASE RequestAccepted(mem[p], Role(p))
    <2>1. /\ pc[p] = "begun" /\ pc'[p] = "calling"
          /\ UNCHANGED <<snapshot, artifacts, mem, at>>
          /\ \A q \in Process : q # p => pc'[q] = pc[q]
          /\ Role(p) = "supervisor" => choices(mem[p]) # {} /\ ~Forced(mem[p])
          /\ mem[p] = snapshot /\ Role(p)' = Role(p)
      BY <1>2 DEF RInv, IInv, TypeOK, Send, HandlerOK, Role
    <2>2. /\ choices(snapshot)' = choices(snapshot)
          /\ Forced(snapshot)' <=> Forced(snapshot)
      BY <2>1, SameDisk
    <2>3. WorkOK(p)
      BY DEF RInv
    <2>4. WorkOK(p)'
      BY <2>1, <2>2, <2>3 DEF WorkOK, Written
    <2>5. ASSUME NEW q \in Process
          PROVE  (AtNextAction(q) /\ WorkOK(q) /\ FinishedOK(q))'
      <3>1. CASE q = p
        BY <2>1, <2>4, <3>1 DEF AtNextAction, FinishedOK
      <3>2. CASE q # p
        BY <2>1, <3>2, SameProcess
      <3> QED
        BY <3>1, <3>2
    <2> QED
      BY <2>1, <2>5, SameDisk DEF RInv
  <1> QED
    BY <1>1, <1>2

(* The acknowledgement writes the state that is on disk. *)
LEMMA AcknowledgeSame ==
  ASSUME RInv, NEW p \in Process, Acknowledge(p)
  PROVE  /\ snapshot' = snapshot /\ mem'[p] = mem[p] /\ mem[p] = snapshot
         /\ snapshot.status \notin {"absent", "running"}
  <1>1. /\ mem[p] = snapshot /\ snapshot \in State
        /\ snapshot.status \notin {"absent", "running"}
    BY DEF RInv, IInv, TypeOK, Acknowledge, Acknowledging, NodeOK
  <1>2. snapshot.next_action = "stop"
    BY <1>1 DEF RInv, SnapshotOK, Sound, EndedOK
  <1>3. [snapshot EXCEPT !.next_action = "stop"] = snapshot
    BY <1>1, <1>2 DEF State
  <1> QED
    BY <1>1, <1>3 DEF Acknowledge, RInv, IInv, TypeOK

LEMMA AcknowledgeR ==
  ASSUME RInv, IInv', NEW p \in Process, Acknowledge(p)
  PROVE  RInv'
  <1>1. /\ snapshot' = snapshot /\ mem'[p] = mem[p] /\ mem[p] = snapshot
        /\ snapshot.status \notin {"absent", "running"}
    BY AcknowledgeSame
  <1>2. /\ UNCHANGED <<artifacts, pc>> /\ pc[p] = "node"
        /\ \A q \in Process : q # p => mem'[q] = mem[q] /\ at'[q] = at[q]
    BY DEF Acknowledge, RInv, IInv, TypeOK
  <1>3. ASSUME NEW q \in Process
        PROVE  (AtNextAction(q) /\ WorkOK(q) /\ FinishedOK(q))'
    <2>1. CASE q = p
      BY <1>1, <1>2, <2>1 DEF AtNextAction, WorkOK, FinishedOK
    <2>2. CASE q # p
      BY <1>1, <1>2, <2>2, SameProcess
    <2> QED
      BY <2>1, <2>2
  <1> QED
    BY <1>1, <1>2, <1>3, SameDisk DEF RInv

LEMMA BeginR ==
  ASSUME RInv, IInv', NEW p \in Process, Begin(p)
  PROVE  RInv'
  <1>1. /\ pc[p] = "node" /\ mem[p] = snapshot /\ snapshot \in State
        /\ at[p] \in Nodes
        /\ snapshot.status = "running"
        /\ snapshot.pending = NoRequest
        /\ at[p] = snapshot.next_action
    BY DEF RInv, IInv, TypeOK, Begin, NodeOK, Acknowledging, Nodes, AtNextAction
  <1>2. PICK s : s = Reserved(snapshot, at[p])
    OBVIOUS
  <1>3. /\ snapshot' = s /\ mem'[p] = s /\ pc'[p] = "begun"
        /\ UNCHANGED <<artifacts, at>>
        /\ \A q \in Process : q # p => pc'[q] = "idle"
    BY <1>1, <1>2 DEF RInv, IInv, TypeOK, Begin, RunsAlone
  <1>4. s \in State
    BY <1>1, <1>2, ReservedType
  <1>5. Sound(artifacts, snapshot) /\ Between(artifacts, snapshot)
    BY <1>1 DEF RInv, SnapshotOK, NoRequest
  <1>6. Sound(artifacts, s) /\ Current(artifacts, s, at[p]) /\ Admissible(artifacts, s, at[p])
    BY <1>1, <1>2, <1>4, <1>5, ReservedSound, LimitsAssumption, FollowUpsAssumption
  <1>7. /\ s.step_count = snapshot.step_count /\ s.status = "running"
        /\ s.next_action = snapshot.next_action
        /\ at[p] = "supervisor" => s.attempts = snapshot.attempts
        /\ at[p] # "supervisor" => s.attempts = [snapshot.attempts EXCEPT ![at[p]] = @ + 1]
        /\ s.pending.role = at[p]
        /\ s.pending.attempt = IF at[p] = "supervisor" THEN s.step_count + 1
                                                       ELSE s.attempts[at[p]]
    BY <1>1, <1>2, ReservedFields
  <1>8. /\ snapshot.step_count \in Nat /\ snapshot.attempts \in [Roles -> Nat]
        /\ at[p] # "supervisor" => at[p] \in Roles
    BY <1>1 DEF State, Nodes
  <1>9. s.pending.attempt > 0
    BY <1>7, <1>8
  <1>10. ASSUME NEW f \in artifacts
         PROVE  Covers(s, f) /\ ~(f.role = at[p] /\ f.attempt = s.pending.attempt)
    <2>1. f.attempt \in Nat /\ f.role \in Nodes
      BY RoleNames DEF RInv, IInv, TypeOK, File, ResearchFile, ReportFile, VerdictFile,
                       PublishFile, DecisionFile
    <2>2. Covers(snapshot, f)
      <3>1. \/ f.role = "supervisor" /\ f.attempt = 0
            \/ Covers(snapshot, f)
        BY <1>1 DEF RInv, FilesOK, NoRequest
      <3> QED
        BY <1>8, <3>1 DEF Covers
    <2>3. CASE at[p] = "supervisor"
      BY <1>7, <1>8, <2>1, <2>2, <2>3 DEF Covers
    <2>4. CASE at[p] # "supervisor"
      <3>1. \A r \in Roles : s.attempts[r] = IF r = at[p] THEN snapshot.attempts[r] + 1
                                             ELSE snapshot.attempts[r]
        BY <1>7, <1>8, <2>4
      <3>2. f.role # "supervisor" => f.role \in Roles
        BY <2>1 DEF Nodes
      <3> QED
        BY <1>7, <1>8, <2>1, <2>2, <2>4, <3>1, <3>2 DEF Covers
    <2> QED
      BY <2>3, <2>4
  <1>11. FilesOK'
    BY <1>3, <1>7, <1>10 DEF RInv, FilesOK, Covers
  <1>12. SnapshotOK'
    <2>1. at[p] = "supervisor" => Between(artifacts, s)
      BY <1>1, <1>6, <1>7, RoleNames DEF Between, Chosen
    <2> QED
      BY <1>3, <1>6, <1>7, <2>1 DEF SnapshotOK
  <1>13. RepairsAreDone'
    BY <1>3 DEF RInv, RepairsAreDone, get
  <1>14. ASSUME NEW q \in Process
         PROVE  (AtNextAction(q) /\ WorkOK(q) /\ FinishedOK(q))'
    <2>1. CASE q = p
      <3>1. Role(p)' = at[p]
        BY <1>3, <1>7 DEF Role
      <3>2. WorkOK(p)'
        BY <1>1, <1>3, <1>6, <1>7, <1>9, <1>10, <3>1 DEF WorkOK, Written
      <3> QED
        BY <1>3, <2>1, <3>2 DEF AtNextAction, FinishedOK
    <2>2. CASE q # p
      BY <1>3, <2>2 DEF AtNextAction, WorkOK, FinishedOK
    <2> QED
      BY <2>1, <2>2
  <1> QED
    BY <1>11, <1>12, <1>13, <1>14 DEF RInv

LEMMA CommitR ==
  ASSUME RInv, IInv', NEW p \in Process, Commit(p)
  PROVE  RInv'
  <1>1. /\ pc[p] = "done" /\ mem[p] \in State /\ snapshot.status = "running"
        /\ mem[p].status # "absent"
    BY DEF RInv, IInv, TypeOK, Commit, DoneOK, Outcome
  <1>2. PICK s : s = Settled(mem[p])
    OBVIOUS
  <1>3. /\ snapshot' = s /\ mem'[p] = s /\ pc'[p] = "node"
        /\ UNCHANGED artifacts
        /\ at'[p] = IF Role(p) = "supervisor" THEN s.next_action ELSE "supervisor"
        /\ \A q \in Process : q # p => pc'[q] = "idle"
    BY <1>1, <1>2 DEF RInv, IInv, TypeOK, Commit, RunsAlone
  <1>4. /\ Sound(artifacts, mem[p]) /\ Between(artifacts, mem[p])
        /\ mem[p].status = "running" => \A f \in artifacts : Covers(mem[p], f)
        /\ Role(p) # "supervisor" => mem[p].next_action \in {"supervisor", "stop"}
    BY <1>1 DEF RInv, FinishedOK
  <1>5. Sound(artifacts, s) /\ Between(artifacts, s)
    BY <1>1, <1>2, <1>4, SettledSound
  <1>6. /\ s.status = mem[p].status /\ s.next_action = mem[p].next_action
        /\ s.step_count = mem[p].step_count /\ s.attempts = mem[p].attempts
    BY <1>1, <1>2, SettledFields DEF SameResults
  <1>7. s.status = "running" => \A f \in artifacts : Covers(s, f)
    BY <1>4, <1>6 DEF Covers
  <1>8. FilesOK'
    BY <1>1, <1>3, <1>6, <1>7 DEF RInv, FilesOK, Covers
  <1>9. SnapshotOK'
    BY <1>3, <1>5 DEF SnapshotOK
  <1>10. RepairsAreDone'
    BY <1>3 DEF RInv, RepairsAreDone, get
  <1>11. ASSUME NEW q \in Process
         PROVE  (AtNextAction(q) /\ WorkOK(q) /\ FinishedOK(q))'
    <2>1. CASE q = p
      <3>1. s.status = "running" => s.next_action # "stop"
        BY <1>5 DEF Sound, EndedOK
      <3> QED
        BY <1>3, <1>4, <1>6, <2>1, <3>1 DEF AtNextAction, WorkOK, FinishedOK
    <2>2. CASE q # p
      BY <1>3, <2>2 DEF AtNextAction, WorkOK, FinishedOK
    <2> QED
      BY <2>1, <2>2
  <1> QED
    BY <1>8, <1>9, <1>10, <1>11 DEF RInv

LEMMA StartR ==
  ASSUME RInv, IInv', NEW p \in Process, Start(p)
  PROVE  RInv'
  <1>1. /\ artifacts = {} /\ \A q \in Process : pc[q] = "idle"
    BY DEF RInv, FilesOK, Start, Unlocked
  <1>2. /\ snapshot' = initial /\ artifacts' = {}
        /\ mem'[p] = initial /\ pc'[p] = "node" /\ at'[p] = initial.next_action
        /\ \A q \in Process : q # p => pc'[q] = "idle"
    BY <1>1 DEF RInv, IInv, TypeOK, Start, Enter
  <1>3. initial.status = "running"
    BY DEF initial
  <1>4. FilesOK' /\ RepairsAreDone'
    BY <1>2, <1>3 DEF FilesOK, Unique, RepairsAreDone
  <1>5. SnapshotOK'
    BY <1>2, InitialSound DEF SnapshotOK, Good
  <1>6. ASSUME NEW q \in Process
        PROVE  (AtNextAction(q) /\ WorkOK(q) /\ FinishedOK(q))'
    BY <1>2 DEF AtNextAction, WorkOK, FinishedOK
  <1> QED
    BY <1>4, <1>5, <1>6 DEF RInv

LEMMA ResumeR ==
  ASSUME RInv, IInv', NEW p \in Process, Resume(p)
  PROVE  RInv'
  <1>1. \A q \in Process : pc[q] = "idle"
    BY DEF Resume, Unlocked
  <1>2. CASE /\ snapshot' = stop(snapshot, "uncertain_request")
             /\ UNCHANGED <<artifacts, pc>>
    <2>1. PICK s : s = stop(snapshot, "uncertain_request")
      OBVIOUS
    <2>2. Sound(artifacts, s) /\ Between(artifacts, s)
      BY <2>1, StopSound DEF RInv, IInv, TypeOK, SnapshotOK, Codes
    <2>3. s.status = "needs_attention"
      BY <2>1, StopFields DEF RInv, IInv, TypeOK, Codes
    <2>4. FilesOK'
      BY <1>2, <2>1, <2>3 DEF RInv, FilesOK
    <2>5. SnapshotOK' /\ RepairsAreDone'
      BY <1>2, <2>1, <2>2 DEF RInv, SnapshotOK, RepairsAreDone, get
    <2>6. ASSUME NEW q \in Process
          PROVE  (AtNextAction(q) /\ WorkOK(q) /\ FinishedOK(q))'
      BY <1>1, <1>2 DEF AtNextAction, WorkOK, FinishedOK
    <2> QED
      BY <2>4, <2>5, <2>6 DEF RInv
  <1>3. CASE UNCHANGED <<snapshot, artifacts, pc, mem, at>>
    <2>1. ASSUME NEW q \in Process
          PROVE  (AtNextAction(q) /\ WorkOK(q) /\ FinishedOK(q))'
      BY <1>3, SameProcess
    <2> QED
      BY <1>3, <2>1, SameDisk DEF RInv
  <1>4. CASE Enter(p, snapshot) /\ UNCHANGED <<snapshot, artifacts>>
    <2>1. /\ pc'[p] = "node" /\ at'[p] = snapshot.next_action
          /\ \A q \in Process : q # p => pc'[q] = "idle"
      BY <1>1, <1>4 DEF RInv, IInv, TypeOK, Enter
    <2>2. ASSUME NEW q \in Process
          PROVE  (AtNextAction(q) /\ WorkOK(q) /\ FinishedOK(q))'
      BY <1>4, <2>1 DEF AtNextAction, WorkOK, FinishedOK
    <2> QED
      BY <1>4, <2>2, SameDisk DEF RInv
  <1> QED
    BY <1>2, <1>3, <1>4 DEF Resume

LEMMA StepRInv ==
  ASSUME RInv, [Next]_vars
  PROVE  RInv'
  <1>1. IInv'
    BY StepInv DEF RInv
  <1>2. CASE UNCHANGED vars
    <2>1. ASSUME NEW q \in Process
          PROVE  (AtNextAction(q) /\ WorkOK(q) /\ FinishedOK(q))'
      BY <1>2, SameProcess DEF vars
    <2> QED
      BY <1>1, <1>2, <2>1, SameDisk DEF RInv, vars
  <1>3. ASSUME NEW p \in Process, Execute(p)
        PROVE  RInv'
    <2>1. CASE CallRaises(p)
      BY <1>1, <2>1, RaiseR DEF CallRaises, Codes
    <2>2. CASE Return(p)
      BY <1>1, <2>2, LeaveR DEF Return
    <2> QED
      BY <1>1, <1>3, <2>1, <2>2, BeginR, AcknowledgeR, SuperviseR, SendR, ResearchedR,
         ReportWrittenR, EvaluatedR, PublishedR, CommitR DEF Execute
  <1>4. ASSUME NEW p \in Process, Control(p)
        PROVE  RInv'
    <2>1. CASE Pause(p) \/ Crash(p)
      BY <1>1, <2>1, LeaveR DEF Pause, Crash
    <2> QED
      BY <1>1, <1>4, <2>1, StartR, ResumeR DEF Control
  <1> QED
    BY <1>2, <1>3, <1>4 DEF Next

-------------------------------------------------------------------------------
(* What the invariant means. *)

(* A reference of a control state, and the file it gets. *)
LEMMA ViewFile ==
  ASSUME Unique(artifacts), NEW s, ViewsOK(artifacts, s), NEW v \in Views, s.results[v] # 0
  PROVE  /\ Written(v, s.results[v])
         /\ get(v, s.results[v]).status = s.summaries[v]
         /\ v # "research" => get(v, s.results[v]).context = s.results["research"]
  <1>1. PICK f \in artifacts : /\ f.role = v /\ f.attempt = s.results[v]
                               /\ f.status = s.summaries[v]
                               /\ v # "research" => f.context = s.results["research"]
    BY DEF ViewsOK
  <1>2. get(v, s.results[v]) = f /\ Written(v, s.results[v])
    BY <1>1, GetFile
  <1> QED
    BY <1>1, <1>2

LEMMA ReportOnFile ==
  ASSUME Unique(artifacts), NEW s, ReportOK(artifacts, s), s.report # 0
  PROVE  /\ Written("writer", s.report) /\ get("writer", s.report).attempt = s.report
         /\ get("writer", s.report).inputs = s.results
         /\ Live(s) => get("writer", s.report).status = "ok"
  <1>1. PICK f \in artifacts : /\ f.role = "writer" /\ f.attempt = s.report
                               /\ f.inputs = s.results
                               /\ Live(s) => f.status = "ok"
    BY DEF ReportOK
  <1>2. get("writer", s.report) = f /\ Written("writer", s.report)
    BY <1>1, GetFile
  <1> QED
    BY <1>1, <1>2

LEMMA VerdictOnFile ==
  ASSUME Unique(artifacts), NEW s, VerdictOK(artifacts, s), s.evaluation # 0
  PROVE  /\ s.report # 0
         /\ Written("evaluator", s.evaluation)
         /\ get("evaluator", s.evaluation).report = s.report
         /\ PassedIn(artifacts, s) => get("evaluator", s.evaluation).passed
  <1>1. PICK f \in artifacts : /\ f.role = "evaluator" /\ f.attempt = s.evaluation
                               /\ f.report = s.report
    BY DEF VerdictOK
  <1>2. get("evaluator", s.evaluation) = f /\ Written("evaluator", s.evaluation)
    BY <1>1, GetFile
  <1>3. PassedIn(artifacts, s) => f.passed
    BY <1>1 DEF PassedIn, Unique
  <1> QED
    BY <1>1, <1>2, <1>3 DEF VerdictOK

LEMMA InvRequests ==
  ASSUME RInv
  PROVE  RequestsAreSound
  <1>1. AttemptsAreFresh
    <2> SUFFICES ASSUME NEW p \in Process, pc[p] \in {"begun", "calling"}
                 PROVE  /\ pc[p] = "begun" => mem[p].pending \notin sent
                        /\ ~Written(mem[p].pending.role, mem[p].pending.attempt)
      BY DEF AttemptsAreFresh
    <2>1. mem[p] = snapshot /\ Free(artifacts, Role(p), snapshot.pending.attempt)
      BY HandlerRelies
    <2>2. pc[p] = "begun" => snapshot.pending \notin sent
      BY DEF RInv, IInv, HandlerOK
    <2> QED
      BY <2>1, <2>2 DEF Role, Free, Written
  <1>2. RequestsAreAccepted
    <2> SUFFICES ASSUME NEW p \in Process, pc[p] = "begun"
                 PROVE  RequestAccepted(snapshot, Role(p))
      BY HandlerRelies DEF RequestsAreAccepted
    <2> DEFINE s == snapshot
               role == Role(p)
    <2>1. Working(artifacts, s, role) /\ Unique(artifacts) /\ role \in Nodes
      BY HandlerRelies, RoleType DEF RInv, IInv
    <2> HIDE DEF role
    <2>2. /\ s \in State /\ Sound(artifacts, s) /\ Current(artifacts, s, role)
          /\ Admissible(artifacts, s, role) /\ s.status = "running"
          /\ role # "supervisor" => s.attempts[role] > 0
          /\ s.attempts \in [Roles -> Nat]
      BY <2>1 DEF Working, State
    <2>3. \A v \in Views : s.summaries[v] = "ok" =>
              s.results[v] # 0 /\ get(v, s.results[v]).status = "ok"
      BY <2>1, <2>2, ViewFile DEF Sound, ViewsOK
    <2>4. CASE role \in Views
      <3>1. s.results[role] \in {0, s.attempts[role] - 1} /\ s.attempts[role] > 0
            /\ s.attempts[role] \in Nat
        BY <2>2, <2>4, RoleNames DEF Current, Live, Latest
      <3>2. s.results[role] < s.attempts[role]
        BY <3>1
      <3>3. role # "research" => s.results["research"] # 0
              /\ get("research", s.results["research"]).status = "ok"
        BY <2>2, <2>3, <2>4, RoleNames DEF Admissible
      <3>4. role # "writer" /\ role # "evaluator" /\ role # "publish"
        BY <2>4, RoleNames
      <3> QED
        BY <2>4, <3>2, <3>3, <3>4 DEF RequestAccepted, role
    <2>5. CASE role = "writer"
      <3>1. s.report \in {0, s.attempts[role] - 1} /\ s.attempts[role] > 0
            /\ s.attempts[role] \in Nat
        BY <2>2, <2>5, RoleNames DEF Current, Live, Latest
      <3>2. s.report < s.attempts["writer"]
        BY <2>5, <3>1
      <3>3. s.evidence_sufficient
            /\ \A v \in Views : s.results[v] # 0 /\ get(v, s.results[v]).status = "ok"
        BY <2>2, <2>3, <2>5 DEF Admissible
      <3> QED
        BY <2>5, <3>2, <3>3, RoleNames DEF RequestAccepted, role
    <2>6. CASE role = "evaluator"
      <3>1. s.report # 0 /\ get("writer", s.report).status = "ok"
        BY <2>1, <2>2, <2>6, ReportOnFile DEF Admissible, Sound, Live
      <3> QED
        BY <2>6, <3>1, RoleNames DEF RequestAccepted, role
    <2>7. CASE role = "publish"
      <3>1. PassedIn(artifacts, s) /\ s.evaluation # 0
        BY <2>2, <2>7 DEF Admissible, PassedIn
      <3>2. s.report # 0 /\ get("evaluator", s.evaluation).report = s.report
        BY <2>1, <2>2, <3>1, VerdictOnFile DEF Sound
      <3>3. get("writer", s.report).status = "ok"
        BY <2>1, <2>2, <3>2, ReportOnFile DEF Sound, Live
      <3>4. Passed(s)
        BY <2>1, <2>2, <3>1, PassedMeans DEF Sound
      <3> QED
        BY <2>7, <3>2, <3>3, <3>4, RoleNames DEF RequestAccepted, role
    <2>8. CASE role = "supervisor"
      <3>1. role \notin Views
        BY <2>8, RoleNames
      <3> QED
        BY <2>8, <3>1 DEF RequestAccepted, role
    <2> QED
      BY <2>1, <2>4, <2>5, <2>6, <2>7, <2>8 DEF Nodes, Roles, role
  <1>3. WithinLimits
    <2>1. CountersOK(snapshot) /\ snapshot \in State
      BY DEF RInv, SnapshotOK, Sound, IInv, TypeOK
    <2>2. Cardinality(Attempted(snapshot)) \in Nat
      BY <2>1, FS_CardinalityType DEF CountersOK
    <2>3. snapshot.step_count \in Nat /\ SupervisorSteps \in Nat
      BY <2>1, LimitsAssumption DEF State
    <2> QED
      BY <2>1, <2>2, <2>3 DEF WithinLimits, CountersOK
  <1> QED
    BY <1>1, <1>2, <1>3 DEF RequestsAreSound

LEMMA InvSnapshot ==
  ASSUME RInv
  PROVE  SnapshotIsSound
  <1> DEFINE s == snapshot
  <1>1. /\ Unique(artifacts) /\ Sound(artifacts, s) /\ s \in State
        /\ s.status = "completed" => Between(artifacts, s)
    BY DEF RInv, FilesOK, SnapshotOK, IInv, TypeOK, DiskOK, NoRequest
  <1> HIDE DEF s
  <1>2. SnapshotLoads
    <2>1. \A v \in Views : s.results[v] # 0 => Written(v, s.results[v])
      BY <1>1, ViewFile DEF Sound
    <2>2. s.report # 0 => Written("writer", s.report)
      BY <1>1, ReportOnFile DEF Sound
    <2>3. s.evaluation # 0 => Written("evaluator", s.evaluation)
      BY <1>1, VerdictOnFile DEF Sound
    <2>4. /\ s.publication # 0 => Written("publish", s.publication)
          /\ s.repair_source # 0 => Written("evaluator", s.repair_source)
      BY <1>1 DEF Sound, OthersOK, Written
    <2> QED
      BY <2>1, <2>2, <2>3, <2>4 DEF SnapshotLoads, Loadable, s
  <1>3. ResultsAreCurrent
    <2>1. \A v \in FollowUps : s.results[v] # 0 =>
              get(v, s.results[v]).context = s.results["research"]
      BY <1>1, ViewFile, FollowUpsAssumption DEF Sound, Views
    <2>2. s.report # 0 => get("writer", s.report).inputs = s.results
      BY <1>1, ReportOnFile DEF Sound
    <2>3. s.evaluation # 0 => /\ s.report # 0
                              /\ get("evaluator", s.evaluation).report = s.report
      BY <1>1, VerdictOnFile DEF Sound
    <2> QED
      BY <2>1, <2>2, <2>3 DEF ResultsAreCurrent, s
  <1>4. CompletedIsSound
    <2> SUFFICES ASSUME s.status = "completed"
                 PROVE  LET publication == get("publish", s.publication)
                            report      == get("writer", publication.report)
                            verdict     == get("evaluator", publication.evaluation)
                        IN  /\ publication.status = "ok"
                            /\ verdict.passed /\ verdict.report = publication.report
                            /\ report.attempt = s.attempts["writer"]
                            /\ \A v \in Views :
                                  /\ report.inputs[v] = s.attempts[v]
                                  /\ get(v, report.inputs[v]).status = "ok"
      BY DEF CompletedIsSound, s
    <2>1. PassedIn(artifacts, s) /\ s.evaluation # 0
      BY <1>1 DEF Sound, CompletedOK, PassedIn
    <2>2. PICK f \in artifacts : /\ f.role = "publish" /\ f.attempt = s.publication
                                 /\ f.status = "ok"
                                 /\ f.report = s.report /\ f.evaluation = s.evaluation
      BY <1>1 DEF Sound, CompletedOK
    <2>3. get("publish", s.publication) = f
      BY <1>1, <2>2, GetFile
    <2>4. /\ s.report # 0
          /\ get("evaluator", s.evaluation).report = s.report
          /\ get("evaluator", s.evaluation).passed
      BY <1>1, <2>1, VerdictOnFile DEF Sound
    <2>5. /\ get("writer", s.report).attempt = s.report
          /\ get("writer", s.report).inputs = s.results
      BY <1>1, <2>4, ReportOnFile DEF Sound
    <2>6. /\ s.report = s.attempts["writer"]
          /\ \A v \in Views : s.results[v] \in {0, s.attempts[v]}
      BY <1>1, <2>4, RoleNames DEF Between, Current, Live, Latest
    <2>7. ASSUME NEW v \in Views
          PROVE  s.results[v] = s.attempts[v] /\ get(v, s.results[v]).status = "ok"
      <3>1. s.summaries[v] = "ok"
        BY <1>1, <2>4 DEF Sound, ReportOK
      <3>2. s.results[v] # 0
        BY <1>1, <3>1 DEF Sound, ViewsOK
      <3> QED
        BY <1>1, <2>6, <3>1, <3>2, ViewFile DEF Sound
    <2> QED
      BY <2>2, <2>3, <2>4, <2>5, <2>6, <2>7
  <1> QED
    BY <1>2, <1>3, <1>4 DEF SnapshotIsSound

(* No process works on a run that has ended; what remains to be done       *)
(* writes what is on disk.                                                 *)
LEMMA EndedSteps ==
  ASSUME RInv, [Next]_vars, snapshot.status \notin {"absent", "running"}
  PROVE  UNCHANGED <<snapshot, artifacts, sent>>
  <1>1. ASSUME NEW p \in Process
        PROVE  pc[p] \in {"idle", "node"}
    BY DEF RInv, IInv, TypeOK, HandlerOK, DoneOK
  <1>2. ASSUME NEW p \in Process, Execute(p)
        PROVE  UNCHANGED <<snapshot, artifacts, sent>>
    <2>1. CASE Begin(p)
      <3>1. mem[p] = snapshot /\ at[p] \notin Roles
        BY <2>1 DEF RInv, IInv, NodeOK, Begin
      <3> QED
        BY <2>1, <3>1 DEF Begin, Acknowledging, RInv, IInv, TypeOK, Nodes
    <2>2. CASE Acknowledge(p)
      BY <2>2, AcknowledgeSame DEF Acknowledge
    <2>3. CASE Return(p)
      BY <2>3 DEF Return
    <2> QED
      BY <1>1, <1>2, <2>1, <2>2, <2>3
         DEF Execute, SuperviseLocally, Send, CallRaises, Decided, Researched,
             ReportWritten, Evaluated, Published, Commit
  <1>3. ASSUME NEW p \in Process, Resume(p)
        PROVE  UNCHANGED <<snapshot, artifacts, sent>>
    <2>1. CASE /\ snapshot.pending # NoRequest
               /\ snapshot' = stop(snapshot, "uncertain_request")
      <3>1. snapshot \in State /\ snapshot.status = "needs_attention"
        BY <2>1 DEF RInv, IInv, TypeOK, DiskOK, State
      <3>2. snapshot.next_action = "stop" /\ snapshot.last_error = "uncertain_request"
        BY <3>1 DEF RInv, SnapshotOK, Sound, EndedOK
      <3>3. stop(snapshot, "uncertain_request") = snapshot
        BY <3>1, <3>2 DEF stop, State
      <3> QED
        BY <1>3, <2>1, <3>3 DEF Resume
    <2> QED
      BY <1>3, <2>1 DEF Resume
  <1>4. CASE UNCHANGED vars
    BY <1>4 DEF vars
  <1> QED
    BY <1>2, <1>3, <1>4 DEF Next, Control, Start, Pause, Crash

-------------------------------------------------------------------------------
(* The theorems. *)

(* The files, the control states in memory and on disk, and the decision   *)
(* that each carries fit together throughout every execution.              *)
THEOREM ResultsInvariance == Spec => []RInv
  <1>1. Init /\ IInv => RInv
    <2> SUFFICES ASSUME Init, IInv PROVE RInv
      OBVIOUS
    <2>1. snapshot = Absent /\ artifacts = {} /\ \A p \in Process : pc[p] = "idle"
      BY DEF Init
    <2>2. Absent.status = "absent"
      BY DEF Absent, initial
    <2>3. FilesOK /\ RepairsAreDone
      BY <2>1, <2>2 DEF FilesOK, Unique, RepairsAreDone
    <2>4. SnapshotOK
      BY <2>1, InitialSound DEF SnapshotOK, Good
    <2> QED
      BY <2>1, <2>3, <2>4 DEF RInv, AtNextAction, WorkOK, FinishedOK
  <1>2. RInv /\ [Next]_vars => RInv'
    BY StepRInv
  <1> QED
    BY <1>1, <1>2, Invariance, PTL DEF Spec

(* Whatever a handler is about to request is fresh, passes the validators  *)
(* of the request models, and is within the limits of the run: choices()   *)
(* offers nothing that a later node would refuse.                          *)
THEOREM RequestsCorrect == Spec => []RequestsAreSound
  <1>1. RInv => RequestsAreSound
    BY InvRequests
  <1> QED
    BY <1>1, ResultsInvariance, PTL

(* Whatever a crash leaves loads, refers to nothing stale, and is complete *)
(* only with a report that passed and rests on the latest attempts.        *)
THEOREM SnapshotCorrect == Spec => []SnapshotIsSound
  <1>1. RInv => SnapshotIsSound
    BY InvSnapshot
  <1> QED
    BY <1>1, ResultsInvariance, PTL

(* No repair that a verdict asked for is forgotten before a later report.  *)
THEOREM RepairsCorrect == Spec => []RepairsAreDone
  <1>1. RInv => RepairsAreDone
    BY DEF RInv
  <1> QED
    BY <1>1, ResultsInvariance, PTL

(* A run that has ended keeps its snapshot, its files and its requests:    *)
(* the acknowledgement and a repeated resume rewrite what is on disk.      *)
THEOREM EndCorrect == Spec => EndedStaysEnded
  <1>1. RInv /\ [Next]_vars =>
           [snapshot.status \notin {"absent", "running"} =>
                UNCHANGED <<snapshot, artifacts, sent>>]_vars
    BY EndedSteps
  <1> QED
    BY <1>1, ResultsInvariance, PTL DEF Spec, EndedStaysEnded

===============================================================================
