------------------------------- MODULE Pipeline -------------------------------
(***************************************************************************)
(* The single-shot graph of rag/graph.py (Pipeline.compile): a research    *)
(* node with one thread per technology, three parallel views that join     *)
(* once, a writer that drafts the report while it reviews the gaps, a      *)
(* quality evaluator and the renderer.  LangGraph runs the branches of a   *)
(* step in threads and applies their writes when all have ended; a branch  *)
(* that raises stops the run.                                              *)
(*                                                                         *)
(* A model call ends in an accepted value or in an error: "value" (a       *)
(* ValueError: validation, insufficient evidence, input over the budget)   *)
(* or "call" (APIError, BudgetExceeded).  What the assessments say is left *)
(* out, except for their status and whether they leave gaps.               *)
(***************************************************************************)
EXTENDS Integers, FiniteSets, SequencesExt

CONSTANTS
    TechOrder,      \* config["technologies"]
    ViewOrder,      \* ("market", "stakeholder", "domain")
    Searches,       \* queries of a technology in one attempt
    BatchSize,      \* gaps reviewed by one call
    Concurrency     \* RAG_MAX_CONCURRENCY

SizesAssumption ==
    /\ Searches \in Nat \ {0}
    /\ BatchSize \in Nat \ {0}
    /\ Concurrency \in Nat \ {0}

Tech == ToSet(TechOrder)

View == ToSet(ViewOrder)

(* Both are lists, of different things. *)
OrderAssumption ==
    /\ TechOrder \in Seq(Tech)
    /\ ViewOrder \in Seq(View)
    /\ Tech \cap View = {}

None == "none"

VARIABLES
    node,           \* the step of the graph that is executing
    run_status,
    rpc,            \* where each technology's thread is
    attempt,        \* its retrieval_attempt
    searched,       \* its searches in this attempt
    searcher,       \* the thread holding search_lock
    finished,       \* technologies in the order as_completed gives them
    tech_assessment,\* technologies in the order the views receive them
    vpc,            \* where each view's branch is
    result,         \* status of each technology's and view's assessment
    gaps,           \* the assessments that left gaps, once joined
    task,           \* the writer's tasks: "draft" and the gap batches
    decisions,      \* gap decisions of the report
    evaluation      \* what the quality evaluator said

vars == <<node, run_status, rpc, attempt, searched, searcher, finished, tech_assessment,
          vpc, result, gaps, task, decisions, evaluation>>

research == <<rpc, attempt, searched, searcher, finished>>

report == <<task, decisions>>

Working == {"search", "searching", "pack", "review", "assess", "rewrite"}

Busy(S, pc, phases) == Cardinality({x \in S : pc[x] \in phases})

(* join: any failed assessment ends the run as incomplete. *)
JoinedStatus ==
    IF \E x \in Tech \cup View : result[x] = "failed" THEN "incomplete" ELSE "joined"

(* Variant: full batches only. *)
BatchesFull(seq) ==
    [i \in 1 .. Len(seq) \div BatchSize |-> SubSeq(seq, (i - 1) * BatchSize + 1, i * BatchSize)]

(* range(0, len(gaps), 5): the last batch holds what is left. *)
Batches(seq) ==
    [i \in 1 .. (Len(seq) + BatchSize - 1) \div BatchSize |->
        SubSeq(seq, (i - 1) * BatchSize + 1,
               IF i * BatchSize < Len(seq) THEN i * BatchSize ELSE Len(seq))]

(* [x for x in order if x in S] *)
InOrder(order, S) ==
    FoldLeft(LAMBDA kept, x : IF x \in S THEN Append(kept, x) ELSE kept, <<>>, order)

(* gap_records: the gaps in the order of the assessments. *)
GapRecords(owners) == InOrder(TechOrder \o ViewOrder, owners)

-------------------------------------------------------------------------------
(* The threads of the research node. *)

Researches(t) == node = "research" /\ t \in Tech

(* The thread returns its result; its future completes. *)
Finish(t, status) ==
    /\ rpc' = [rpc EXCEPT ![t] = "ended"]
    /\ result' = [result EXCEPT ![t] = status]
    /\ finished' = Append(finished, t)

(* The handler of a ValueError: one rewrite, then the failure is final. *)
Insufficient(t) ==
    IF attempt[t] = 1 THEN Finish(t, "failed")
    ELSE /\ rpc' = [rpc EXCEPT ![t] = "rewrite"]
         /\ UNCHANGED <<result, finished>>

(* A pool of min(2, RAG_MAX_CONCURRENCY) workers takes them in order. *)
Start(t) ==
    /\ Researches(t)
    /\ rpc[t] = "queued"
    /\ \A i, j \in DOMAIN TechOrder :
          i < j /\ TechOrder[j] = t => rpc[TechOrder[i]] # "queued"
    /\ Busy(Tech, rpc, Working) < (IF Concurrency < 2 THEN Concurrency ELSE 2)
    /\ rpc' = [rpc EXCEPT ![t] = "search"]
    /\ UNCHANGED <<node, run_status, attempt, searched, searcher, finished, tech_assessment,
                   result, vpc, gaps, report, evaluation>>

(* "with self.search_lock" *)
Lock(t) ==
    /\ Researches(t)
    /\ rpc[t] = "search"
    /\ searcher = None
    /\ searcher' = t
    /\ rpc' = [rpc EXCEPT ![t] = "searching"]
    /\ UNCHANGED <<node, run_status, attempt, searched, finished, tech_assessment,
                   result, vpc, gaps, report, evaluation>>

(* A query too long for the encoder raises; the lock is freed either way. *)
Search(t) ==
    /\ Researches(t)
    /\ rpc[t] = "searching"
    /\ searcher' = None
    /\ \/ /\ searched' = [searched EXCEPT ![t] = @ + 1]
          /\ rpc' = [rpc EXCEPT ![t] = IF searched[t] + 1 = Searches THEN "pack" ELSE "search"]
          /\ UNCHANGED <<result, finished>>
       \/ Finish(t, "failed") /\ UNCHANGED searched
    /\ UNCHANGED <<node, run_status, attempt, tech_assessment, vpc, gaps, report, evaluation>>

(* build_research_context, which counts tokens with the encoder's tokenizer. *)
Pack(t) ==
    /\ Researches(t)
    /\ rpc[t] = "pack"
    /\ \/ rpc' = [rpc EXCEPT ![t] = "review"] /\ UNCHANGED <<result, finished>>
       \/ Finish(t, "failed")
    /\ UNCHANGED <<node, run_status, attempt, searched, searcher, tech_assessment,
                   vpc, gaps, report, evaluation>>

(* The retrieval review and the assessment: accepted, wanting, or failed. *)
Review(t) ==
    /\ Researches(t)
    /\ rpc[t] \in {"review", "assess"}
    /\ \/ /\ rpc[t] = "review"
          /\ rpc' = [rpc EXCEPT ![t] = "assess"]
          /\ UNCHANGED <<result, finished>>
       \/ rpc[t] = "assess" /\ Finish(t, "ok")
       \/ Insufficient(t)
       \/ Finish(t, "failed")
    /\ UNCHANGED <<node, run_status, attempt, searched, searcher, tech_assessment,
                   vpc, gaps, report, evaluation>>

(* The second attempt searches with the rewritten queries. *)
Rewrite(t) ==
    /\ Researches(t)
    /\ rpc[t] = "rewrite"
    /\ \/ /\ rpc' = [rpc EXCEPT ![t] = "search"]
          /\ attempt' = [attempt EXCEPT ![t] = 1]
          /\ searched' = [searched EXCEPT ![t] = 0]
          /\ UNCHANGED <<result, finished>>
       \/ Finish(t, "failed") /\ UNCHANGED <<attempt, searched>>
    /\ UNCHANGED <<node, run_status, searcher, tech_assessment, vpc, gaps, report, evaluation>>

-------------------------------------------------------------------------------
(* The nodes of the graph. *)

(* research_queries: eight queries, or the run is incomplete. *)
PlanQueries ==
    /\ node = "plan"
    /\ \/ /\ node' = "research"
          /\ UNCHANGED run_status
       \/ /\ node' = "ended"
          /\ run_status' = "incomplete"
    /\ UNCHANGED <<research, tech_assessment, vpc, gaps, result, report, evaluation>>

(* "Completion order must not change serialized downstream requests"       *)
InConfigOrder == InOrder(TechOrder, ToSet(finished))

Research ==
    /\ node = "research"
    /\ \A t \in Tech : rpc[t] = "ended"
    /\ tech_assessment' = InConfigOrder
    /\ IF \E t \in Tech : result[t] = "failed"
       THEN node' = "ended" /\ run_status' = "incomplete"
       ELSE node' = "views" /\ run_status' = "research_ok"
    /\ UNCHANGED <<research, vpc, gaps, result, report, evaluation>>

(* A view's branch: a search outside of its try, which can only raise if a *)
(* source snapshot changed on disk; then its assessment.                   *)
SearchWeb(v) ==
    /\ node = "views"
    /\ vpc[v] = "queued"
    /\ \A u \in View : vpc[u] # "raised"
    /\ Busy(View, vpc, {"assess", "reassess"}) < Concurrency
    /\ vpc' = [vpc EXCEPT ![v] = "assess"]
    /\ UNCHANGED <<node, run_status, research, tech_assessment, result, gaps, report, evaluation>>

SnapshotChanged(v) ==
    /\ node = "views"
    /\ vpc[v] = "queued"
    /\ \A u \in View : vpc[u] # "raised"
    /\ Busy(View, vpc, {"assess", "reassess"}) < Concurrency
    /\ vpc' = [vpc EXCEPT ![v] = "raised"]
    /\ UNCHANGED <<node, run_status, research, tech_assessment, result, gaps, report, evaluation>>

(* The assessment ends the branch, or leaves facets to search for again;   *)
(* what is still unknown after that makes it insufficient.                 *)
Assess(v) ==
    /\ node = "views"
    /\ \/ /\ vpc[v] = "assess"
          /\ vpc' = [vpc EXCEPT ![v] = "reassess"]
          /\ UNCHANGED result
       \/ /\ vpc[v] \in {"assess", "reassess"}
          /\ vpc' = [vpc EXCEPT ![v] = "ended"]
          /\ \E status \in {"ok", "failed"} \cup IF vpc[v] = "reassess" THEN {"insufficient"} ELSE {} :
                result' = [result EXCEPT ![v] = status]
    /\ UNCHANGED <<node, run_status, research, tech_assessment, gaps, report, evaluation>>

(* The edge from all three views: one join, when every branch has ended.   *)
(* An insufficient assessment has gaps, others may.  The writer's tasks    *)
(* are the draft, 0, and one per batch of gaps.                            *)
Join ==
    /\ node = "views"
    /\ \A v \in View : vpc[v] = "ended"
    /\ run_status' = JoinedStatus
    /\ IF JoinedStatus = "joined"
       THEN /\ node' = "report"
            /\ gaps' \in {G \in SUBSET (Tech \cup View) :
                            \A v \in View : result[v] = "insufficient" => v \in G}
            /\ task' = [i \in 0 .. Len(Batches(GapRecords(gaps'))) |-> "queued"]
       ELSE /\ node' = "ended"
            /\ UNCHANGED <<gaps, task>>
    /\ UNCHANGED <<research, tech_assessment, vpc, result, decisions, evaluation>>

(* A branch raised: the started ones end, the run stops without a state.   *)
Stop ==
    /\ node = "views"
    /\ \E v \in View : vpc[v] = "raised"
    /\ \A v \in View : vpc[v] \notin {"assess", "reassess"}
    /\ node' = "stopped"
    /\ UNCHANGED <<run_status, research, tech_assessment, vpc, gaps, result, report, evaluation>>

(* The writer's pool of min(3, RAG_MAX_CONCURRENCY), in order. *)
StartTask(i) ==
    /\ node = "report"
    /\ task[i] = "queued"
    /\ \A j \in DOMAIN task : j < i => task[j] # "queued"
    /\ Busy(DOMAIN task, task, {"running"}) < (IF Concurrency < 3 THEN Concurrency ELSE 3)
    /\ task' = [task EXCEPT ![i] = "running"]
    /\ UNCHANGED <<node, run_status, research, tech_assessment, vpc, gaps, result,
                   decisions, evaluation>>

EndTask(i) ==
    /\ node = "report"
    /\ task[i] = "running"
    /\ \E end \in {"ok", "failed"} : task' = [task EXCEPT ![i] = end]
    /\ UNCHANGED <<node, run_status, research, tech_assessment, vpc, gaps, result,
                   decisions, evaluation>>

(* Leaving the pool waits for every task, whatever has failed. *)
TasksEnded == \A i \in DOMAIN task : task[i] \in {"ok", "failed"}

(* synthesize: the decisions in the order of the batches, then one check   *)
(* of the whole report.                                                    *)
Synthesize ==
    /\ node = "report"
    /\ TasksEnded
    /\ \/ /\ \A i \in DOMAIN task : task[i] = "ok"
          /\ decisions' = FlattenSeq(Batches(GapRecords(gaps)))
          /\ run_status' = "report_drafted"
          /\ node' = "evaluate"
       \/ /\ run_status' = "incomplete"
          /\ node' = "ended"
          /\ UNCHANGED decisions
    /\ UNCHANGED <<research, tech_assessment, vpc, gaps, result, task, evaluation>>

StatusOf(verdict) ==
    CASE verdict = "passed"   -> "validated"
      [] verdict = "revision" -> "revision_requested"
      [] verdict = "failed"   -> "incomplete"

Evaluate ==
    /\ node = "evaluate"
    /\ \E verdict \in {"passed", "revision", "failed"} :
          /\ evaluation' = verdict
          /\ run_status' = StatusOf(verdict)
          /\ node' = IF StatusOf(verdict) = "validated" THEN "render" ELSE "ended"
    /\ UNCHANGED <<research, tech_assessment, vpc, gaps, result, report>>

(* "Human semantic and submission review is deliberately not auto-approved." *)
Render ==
    /\ node = "render"
    /\ \E status \in {"human_review_pending", "incomplete"} : run_status' = status
    /\ node' = "ended"
    /\ UNCHANGED <<research, tech_assessment, vpc, gaps, result, report, evaluation>>

-------------------------------------------------------------------------------

Init ==
    /\ node = "plan"
    /\ run_status = None
    /\ rpc = [t \in Tech |-> "queued"]
    /\ attempt = [t \in Tech |-> 0]
    /\ searched = [t \in Tech |-> 0]
    /\ searcher = None
    /\ finished = <<>>
    /\ tech_assessment = <<>>
    /\ vpc = [v \in View |-> "queued"]
    /\ result = [x \in Tech \cup View |-> None]
    /\ gaps = {}
    /\ task = [i \in {} |-> None]
    /\ decisions = <<>>
    /\ evaluation = None

TechStep(t) == Start(t) \/ Lock(t) \/ Search(t) \/ Pack(t) \/ Review(t) \/ Rewrite(t)

ViewStep(v) == SearchWeb(v) \/ SnapshotChanged(v) \/ Assess(v)

TaskStep(i) == StartTask(i) \/ EndTask(i)

NodeStep ==
    \/ PlanQueries \/ Research \/ Join \/ Stop
    \/ Synthesize \/ Evaluate \/ Render

Next ==
    \/ \E t \in Tech : TechStep(t)
    \/ \E v \in View : ViewStep(v)
    \/ \E i \in DOMAIN task : TaskStep(i)
    \/ NodeStep

Spec == Init /\ [][Next]_vars

(* Threads are scheduled and model calls have time limits. *)
FairSpec == Spec /\ WF_vars(Next)

-------------------------------------------------------------------------------
(* Properties. *)

(* Every variable has its type. *)
TypeOK ==
    /\ node \in {"plan", "research", "views", "report", "evaluate", "render", "ended", "stopped"}
    /\ run_status \in {None, "incomplete", "research_ok", "joined", "report_drafted",
                       "validated", "revision_requested", "human_review_pending"}
    /\ rpc \in [Tech -> Working \cup {"queued", "ended"}]
    /\ attempt \in [Tech -> 0 .. 1]
    /\ searched \in [Tech -> 0 .. Searches]
    /\ searcher \in Tech \cup {None}
    /\ finished \in Seq(Tech) /\ Len(finished) = Cardinality(ToSet(finished))
    /\ ToSet(tech_assessment) \subseteq Tech
    /\ vpc \in [View -> {"queued", "assess", "reassess", "ended", "raised"}]
    /\ result \in [Tech \cup View -> {None, "ok", "insufficient", "failed"}]
    /\ gaps \subseteq Tech \cup View
    /\ \A i \in DOMAIN task : task[i] \in {"queued", "running", "ok", "failed"}
    /\ ToSet(decisions) \subseteq gaps
    /\ evaluation \in {None, "passed", "revision", "failed"}

(* The join condition of docs/design-report.md: the synthesis starts only  *)
(* when all branches have ended and no assessment, of a technology or of a *)
(* view, has failed; what is merely insufficient goes on.                  *)
JoinSeesEveryBranch ==
    node \in {"report", "evaluate", "render"} =>
        /\ \A t \in Tech : result[t] = "ok"
        /\ \A v \in View : vpc[v] = "ended" /\ result[v] \in {"ok", "insufficient"}

(* The order in which the research threads complete is not visible in what *)
(* the views are asked: they would miss the receipts of an earlier run.    *)
CompletionOrderIsInvisible == tech_assessment \in {<<>>, TechOrder}

(* No thread of a node is at work, and none of its paid calls can start,   *)
(* once the node has returned: an incomplete run is really over.           *)
NoThreadOutlivesNode ==
    /\ node # "research" => \A t \in Tech : rpc[t] \notin Working
    /\ node # "views" => \A v \in View : vpc[v] \notin {"assess", "reassess"}
    /\ node # "report" => \A i \in DOMAIN task : task[i] \in {"ok", "failed"}

(* A report carries one decision for every gap of every branch, in order:    *)
(* gaps an insufficient view left are handed on, never dropped.            *)
EveryGapIsDecided ==
    node \in {"evaluate", "render"} \/ run_status = "human_review_pending" =>
        decisions = GapRecords(gaps)

(* A run waits for the human review only with a report that passed the     *)
(* evaluation, drawn from assessments of which none failed.                *)
ReviewIsEarned ==
    run_status = "human_review_pending" =>
        /\ evaluation = "passed"
        /\ \A i \in DOMAIN task : task[i] = "ok"
        /\ \A x \in Tech \cup View : result[x] \notin {None, "failed"}

(* Every run ends, with one of the documented final states unless a branch *)
(* raised.                                                                 *)
Over ==
    \/ node = "stopped"
    \/ /\ node = "ended"
       /\ run_status \in {"incomplete", "revision_requested", "human_review_pending"}

EveryRunEnds == <>Over

(* What the graph promises of its joins, its report and its final state.   *)
GraphIsSound ==
    /\ TypeOK
    /\ JoinSeesEveryBranch
    /\ CompletionOrderIsInvisible
    /\ NoThreadOutlivesNode
    /\ EveryGapIsDecided
    /\ ReviewIsEarned

===============================================================================
