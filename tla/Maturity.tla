------------------------------- MODULE Maturity -------------------------------
(***************************************************************************)
(* The "research" view: run_maturity of agents/researchers/maturity.py.    *)
(* A coordinator plans the queries, researches the target technologies in  *)
(* a thread pool, drains the pool, and assembles one result or raises one  *)
(* failure, which ResearchAgent.research maps to a failed result.          *)
(*                                                                         *)
(* A structured model call returns a valid value, fails its validation     *)
(* after one repair round ("invalid"), or raises.  Raised failures are     *)
(* reduced to "uncertain_request" (the provider may have completed the     *)
(* request), "definite" (every other contract error code) and "unmapped"   *)
(* (an exception node_error does not map).                                 *)
(***************************************************************************)
EXTENDS Naturals, Sequences, FiniteSets

CONSTANTS
    Order,      \* the technologies, in contract order
    Workers     \* min(2, RAG_MAX_CONCURRENCY)

Technology == {Order[i] : i \in DOMAIN Order}

ASSUME OrderAssumption ==
    \A i, j \in DOMAIN Order : Order[i] = Order[j] => i = j
ASSUME WorkersAssumption == Workers \in Nat \ {0}

Failures == {"uncertain_request", "definite", "unmapped"}

VARIABLES
    previous,   \* the status of each technology in request.previous_result
    phase,      \* of the coordinator
    planned,    \* the technologies whose feedback rewrite is done
    worker,     \* what each technology's thread does next, or how it ended
    round,      \* its retrieval_attempt
    failure,    \* the exception it raised
    outcome,    \* what research() returned or raised
    calls,      \* history: structured calls made for each technology
    lost        \* history: calls whose completion is unknown

vars == <<previous, phase, planned, worker, round, failure, outcome, calls, lost>>

(* feedback_mode: feedback for an earlier result that did not fail. *)
FeedbackMode == \A t \in Technology : previous[t] # "none"

(* Only technologies without a sufficient assessment are researched again, *)
(* or all of them if each was sufficient.                                  *)
targets ==
    LET lacking == {t \in Technology : previous[t] # "ok"}
    IN  IF FeedbackMode /\ lacking # {} THEN lacking ELSE Technology

(* t is the first of the technologies in S, in contract order. *)
First(t, S) ==
    /\ t \in S
    /\ \A i, j \in DOMAIN Order : Order[j] = t /\ i < j => Order[i] \notin S

Active == {"search", "review", "rewrite", "assess"}
Done   == {"ok", "insufficient", "invalid", "failed"}

NoOutcome == [status |-> "none", code |-> "none"]

-------------------------------------------------------------------------------
(* The coordinator. *)

(* An exception that leaves run_maturity: a failed result, or raised on. *)
Fails(kind) ==
    /\ phase' = "ended"
    /\ outcome' = [status |-> IF kind = "unmapped" THEN "raised" ELSE "failed",
                   code   |-> kind]

Lose(kind, what) == lost' = IF kind = "uncertain_request" THEN lost \cup {what} ELSE lost

(* A structured call that ends in an exception for the coordinator. *)
PlanRaises(what) ==
    /\ \E kind \in Failures : Fails(kind) /\ Lose(kind, what)
    /\ UNCHANGED planned

Plan ==
    /\ phase = "plan" /\ ~FeedbackMode
    /\ \/ phase' = "pool" /\ UNCHANGED <<planned, outcome, lost>>
       \/ PlanRaises("plan")
    /\ UNCHANGED <<previous, worker, round, failure, calls>>

(* One query rewrite per target, in order, before any of them is searched. *)
RewriteFeedback ==
    /\ phase = "plan" /\ FeedbackMode
    /\ \E t \in Technology :
          /\ First(t, targets \ planned)
          /\ calls' = [calls EXCEPT ![t] = @ + 1]
          /\ \/ /\ planned' = planned \cup {t}
                /\ phase' = IF planned' = targets THEN "pool" ELSE "plan"
                /\ UNCHANGED <<outcome, lost>>
             \/ PlanRaises(t)
    /\ UNCHANGED <<previous, worker, round, failure>>

(* A pool thread picks up the next submitted technology. *)
StartWorker ==
    /\ phase = "pool"
    /\ Cardinality({t \in Technology : worker[t] \in Active}) < Workers
    /\ \E t \in Technology :
          /\ First(t, {u \in targets : worker[u] = "idle"})
          /\ worker' = [worker EXCEPT ![t] = "search"]
    /\ UNCHANGED <<previous, phase, planned, round, failure, outcome, calls, lost>>

(* Variant: failures do not count as completed futures. *)
DrainedSuccessfully ==
    \A t \in targets : worker[t] \in Done \ {"failed"}

(* as_completed has returned every future. *)
Drained == \A t \in targets : worker[t] \in Done

Failed == {t \in targets : worker[t] = "failed"}

(* The status each technology has in the assembled result; an assessment   *)
(* that stayed invalid is one without claims.                              *)
FinalStatus(t) ==
    IF t \notin targets THEN previous[t]
    ELSE IF worker[t] = "invalid" THEN "insufficient" ELSE worker[t]

(* Variant: preserved assessments are not looked at. *)
ResultStatusOfTargets ==
    IF \E t \in targets : worker[t] = "ok" THEN "ok" ELSE "insufficient"

ResultStatus ==
    IF \A t \in Technology : FinalStatus(t) = "ok" THEN "ok" ELSE "insufficient"

(* The failure of the first technology in contract order, or the result;   *)
(* assembling it may still find conflicting chunks or broken citations.    *)
Conclude ==
    /\ phase = "pool" /\ Drained
    /\ \/ \E t \in Technology : First(t, Failed) /\ Fails(failure[t])
       \/ /\ Failed = {}
          /\ phase' = "ended"
          /\ outcome' = [status |-> ResultStatus, code |-> "none"]
       \/ Failed = {} /\ Fails("definite")
    /\ UNCHANGED <<previous, planned, worker, round, failure, calls, lost>>

-------------------------------------------------------------------------------
(* One technology: _technology_research. *)

Become(t, state) == worker' = [worker EXCEPT ![t] = state]

Raises(t, kind) ==
    /\ Become(t, "failed")
    /\ failure' = [failure EXCEPT ![t] = kind]
    /\ UNCHANGED round

(* A structured call of the thread: counted, and lost if unconfirmed. *)
StructuredRaises(t) ==
    \E kind \in Failures : Raises(t, kind) /\ Lose(kind, t)

Counted(t) == calls' = [calls EXCEPT ![t] = @ + 1]

(* Paper search, serialised by search_lock; no hit at all is a gap. *)
Search(t) ==
    /\ worker[t] = "search"
    /\ \/ Become(t, "review") /\ UNCHANGED <<round, failure>>
       \/ Become(t, "insufficient") /\ UNCHANGED <<round, failure>>
       \/ Raises(t, "definite")
    /\ UNCHANGED <<previous, phase, planned, outcome, calls, lost>>

(* A deficient review leads to one rewrite, then to an insufficient result. *)
AfterDeficient(t) == IF round[t] = 0 THEN "rewrite" ELSE "insufficient"

(* An invalid review says nothing about the evidence and is an error. *)
Review(t) ==
    /\ worker[t] = "review"
    /\ Counted(t)
    /\ \/ Become(t, "assess") /\ UNCHANGED <<round, failure, lost>>
       \/ Become(t, AfterDeficient(t)) /\ UNCHANGED <<round, failure, lost>>
       \/ StructuredRaises(t)
    /\ UNCHANGED <<previous, phase, planned, outcome>>

Rewrite(t) ==
    /\ worker[t] = "rewrite"
    /\ Counted(t)
    /\ \/ /\ Become(t, "search")
          /\ round' = [round EXCEPT ![t] = @ + 1]
          /\ UNCHANGED <<failure, lost>>
       \/ StructuredRaises(t)
    /\ UNCHANGED <<previous, phase, planned, outcome>>

(* An assessment without caveats (balance_findings) is insufficient, and   *)
(* so is one that stays invalid; neither is searched again.                *)
Assess(t) ==
    /\ worker[t] = "assess"
    /\ Counted(t)
    /\ \/ \E state \in {"ok", "insufficient", "invalid"} :
            Become(t, state) /\ UNCHANGED <<round, failure, lost>>
       \/ StructuredRaises(t)
    /\ UNCHANGED <<previous, phase, planned, outcome>>

-------------------------------------------------------------------------------

Init ==
    /\ previous \in {[t \in Technology |-> "none"]}
                       \cup [Technology -> {"ok", "insufficient"}]
    /\ phase = "plan"
    /\ planned = {}
    /\ worker = [t \in Technology |-> "idle"]
    /\ round = [t \in Technology |-> 0]
    /\ failure = [t \in Technology |-> "none"]
    /\ outcome = NoOutcome
    /\ calls = [t \in Technology |-> 0]
    /\ lost = {}

Thread(t) == Search(t) \/ Review(t) \/ Rewrite(t) \/ Assess(t)

Coordinator == Plan \/ RewriteFeedback \/ StartWorker \/ Conclude

Next == Coordinator \/ \E t \in Technology : Thread(t)

Spec == Init /\ [][Next]_vars

(* The coordinator and the pool threads are scheduled; calls have timeouts. *)
FairSpec ==
    /\ Spec
    /\ WF_vars(Coordinator)
    /\ \A t \in Technology : WF_vars(Thread(t))

-------------------------------------------------------------------------------
(* Properties. *)

(* Every variable has its type; outcomes carry a code exactly on failure. *)
TypeOK ==
    /\ previous \in [Technology -> {"none", "ok", "insufficient"}]
    /\ phase \in {"plan", "pool", "ended"}
    /\ planned \subseteq Technology
    /\ worker \in [Technology -> {"idle"} \cup Active \cup Done]
    /\ round \in [Technology -> 0 .. 1]
    /\ failure \in [Technology -> Failures \cup {"none"}]
    /\ outcome \in [status : {"none", "ok", "insufficient", "failed", "raised"},
                    code : Failures \cup {"none"}]
    /\ calls \in [Technology -> Nat]
    /\ lost \subseteq Technology \cup {"plan"}

(* A result or an error leaves the view only after every thread has ended: *)
(* no thread still searches or pays for calls behind a concluded request.  *)
NoThreadOutlivesRequest ==
    phase = "ended" => \A t \in Technology : worker[t] \notin Active

(* The view is sufficient only if every technology is: each target ended   *)
(* sufficient in this request, every other one was preserved as such, and  *)
(* no call failed or was lost on the way.                                  *)
SufficientMeansAll ==
    outcome.status = "ok" =>
        /\ lost = {}
        /\ \A t \in Technology : worker[t] = "ok" \/ (worker[t] = "idle" /\ previous[t] = "ok")

(* Work on feedback spends nothing on a technology that was sufficient     *)
(* while another was not.                                                  *)
SufficientIsNotRepeated ==
    \A t \in Technology :
        previous[t] = "ok" /\ (\E u \in Technology : previous[u] # "ok") =>
            worker[t] = "idle" /\ calls[t] = 0

(* Structured calls per technology are bounded: at most two reviews, a     *)
(* rewrite between them and an assessment, plus the feedback rewrite.      *)
CallsAreBounded ==
    \A t \in Technology : calls[t] <= IF FeedbackMode THEN 5 ELSE 4

(* Every request of the view ends, whichever threads fail. *)
RequestEnds == <>(phase = "ended")

(* A call whose completion is unknown makes the whole view uncertain, as   *)
(* APIError.code asks of every Agent role: the Supervisor then keeps the   *)
(* request pending and stops in needs_attention.                           *)
UncertaintyIsReported ==
    phase = "ended" /\ lost # {} => outcome.code = "uncertain_request"

(* What a request of the view pays for and returns.                        *)
ViewIsSound ==
    /\ TypeOK
    /\ NoThreadOutlivesRequest
    /\ SufficientMeansAll
    /\ SufficientIsNotRepeated
    /\ CallsAreBounded

===============================================================================
