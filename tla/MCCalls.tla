------------------------------- MODULE MCCalls --------------------------------
(* Paid calls and the threads they are made in.  The configuration gives   *)
(* structured answers two claims beside the layout (three correction       *)
(* units, one more than the bound), the reassessment three facets and two  *)
(* workers, counted payloads three threads, the single-shot graph two      *)
(* technologies, three views and batches of two gaps, and the trace queue  *)
(* two records for two threads.                                            *)
EXTENDS Naturals, Sequences

CONSTANTS
    Claims,         \* Structured: the claims of an answer, in order,
    MaxUnits,       \* the units of a correction
    Facets,         \* Reassessment: the facets of a view,
    Workers,        \* the threads that reassess them
    Threads,        \* Preflight: threads of a run,
    Payloads,       \* what they count,
    Programs,       \* the calls each of them makes,
    Tokens,         \* the exact counts,
    Limit,          \* the largest that is admitted,
    Reusable,       \* payloads with a receipt,
    TooLong,        \* payloads over the byte bound
    TechOrder,      \* Pipeline: the technologies,
    ViewOrder,      \* the views,
    Searches,       \* searches of a technology in one attempt,
    BatchSize,      \* gaps of one call,
    Concurrency,    \* threads of a pool
    PoolThreads,    \* Tracing: threads with a span of their own,
    QueueSize       \* the records its queue takes

VARIABLES
    part, kind, missing, phase, value, units, left, rejected, outcome,
    first, paid, counted, worker, failure, unknown, handled, file, step, pc,
    holder, counts, reserves, asked, sent, node, run_status, rpc, attempt,
    searched, searcher, finished, tech_assessment, vpc, result, gaps, task,
    decisions, evaluation, session, queue, opened, failed, broken, stopping,
    item, warned

all == <<part, kind, missing, phase, value, units, left, rejected, outcome,
          first, paid, counted, worker, failure, unknown, handled, file, step,
          pc, holder, counts, reserves, asked, sent, node, run_status, rpc,
          attempt, searched, searcher, finished, tech_assessment, vpc, result,
          gaps, task, decisions, evaluation, session, queue, opened, failed,
          broken, stopping, item, warned>>

MCClaims == <<"c1", "c2">>
MCTechOrder == <<"KIVI", "InfiniGen">>
MCViewOrder == <<"market", "stakeholder", "domain">>

(* Two threads plan and generate the same payload "a", one of them with a  *)
(* reserve, then another one; the third meets every refusal.               *)
Plan(p, n)  == [payload |-> p, reserve |-> n, send |-> FALSE]
Generate(p) == [payload |-> p, reserve |-> 0, send |-> TRUE]
MCPrograms ==
    [t1 |-> <<Plan("a", 2), Generate("a"), Plan("b", 0), Generate("b")>>,
     t2 |-> <<Plan("a", 1), Generate("a"), Plan("b", 2), Generate("b")>>,
     t3 |-> <<Generate("old"), Generate("a"), Plan("b", 1), Generate("b"), Plan("long", 0)>>]
MCTokens == [a |-> 3, b |-> 4, old |-> 9, long |-> 9]

-------------------------------------------------------------------------------

Structured == INSTANCE Structured

ASSUME StructuredAssumption ==
    Structured!ClaimsAssumption /\ Structured!MaxUnitsAssumption

BesideStructured == <<counted, worker, failure, unknown, handled, file, step,
                      pc, holder, counts, reserves, asked, sent, node,
                      run_status, rpc, attempt, searched, searcher, finished,
                      tech_assessment, vpc, result, gaps, task, decisions,
                      evaluation, session, queue, opened, failed, broken,
                      stopping, item, warned>>

Reassessment == INSTANCE Reassessment WITH
    Facet <- Facets

ASSUME ReassessmentAssumption ==
    Reassessment!FacetAssumption /\ Reassessment!WorkersAssumption

BesideReassessment == <<kind, value, units, left, rejected, first, step, pc,
                        holder, counts, reserves, asked, sent, node,
                        run_status, rpc, attempt, searched, searcher,
                        finished, tech_assessment, vpc, result, gaps, task,
                        decisions, evaluation, session, queue, opened, failed,
                        broken, stopping, item, warned>>

Preflight == INSTANCE Preflight WITH
    Thread <- Threads, Payload <- Payloads, Program <- Programs

ASSUME PreflightAssumption ==
    Preflight!ProgramAssumption /\ Preflight!TokensAssumption

BesidePreflight == <<kind, missing, phase, value, units, left, rejected,
                     outcome, first, paid, counted, worker, failure, unknown,
                     handled, file, node, run_status, rpc, attempt, searched,
                     searcher, finished, tech_assessment, vpc, result, gaps,
                     task, decisions, evaluation, session, queue, opened,
                     failed, broken, stopping, item, warned>>

Pipeline == INSTANCE Pipeline

ASSUME PipelineAssumption ==
    Pipeline!SizesAssumption /\ Pipeline!OrderAssumption

BesidePipeline == <<kind, missing, phase, value, units, left, rejected,
                    outcome, first, paid, counted, worker, failure, unknown,
                    handled, file, step, pc, holder, counts, reserves, asked,
                    sent, session, queue, opened, failed, broken, stopping,
                    item, warned>>

Tracing == INSTANCE Tracing WITH
    Thread <- PoolThreads

ASSUME TracingAssumption ==
    Tracing!QueueSizeAssumption /\ Tracing!ThreadAssumption

BesideTracing == <<kind, missing, phase, value, units, left, rejected,
                   outcome, first, paid, counted, failure, unknown, handled,
                   file, step, holder, counts, reserves, asked, node,
                   run_status, rpc, attempt, searched, searcher, finished,
                   tech_assessment, vpc, result, gaps, task, decisions,
                   evaluation>>

-------------------------------------------------------------------------------

(* The parts share no state: a behaviour is one of one part, beside which  *)
(* the variables of the others are unused.                                 *)
Unused == "unused"

Init ==
    \/ /\ part = "structured" /\ Structured!Init
       /\ counted = Unused /\ worker = Unused /\ failure = Unused
       /\ unknown = Unused /\ handled = Unused /\ file = Unused
       /\ step = Unused /\ pc = Unused /\ holder = Unused
       /\ counts = Unused /\ reserves = Unused /\ asked = Unused
       /\ sent = Unused /\ node = Unused /\ run_status = Unused
       /\ rpc = Unused /\ attempt = Unused /\ searched = Unused
       /\ searcher = Unused /\ finished = Unused /\ tech_assessment = Unused
       /\ vpc = Unused /\ result = Unused /\ gaps = Unused
       /\ task = Unused /\ decisions = Unused /\ evaluation = Unused
       /\ session = Unused /\ queue = Unused /\ opened = Unused
       /\ failed = Unused /\ broken = Unused /\ stopping = Unused
       /\ item = Unused /\ warned = Unused
    \/ /\ part = "reassessment" /\ Reassessment!Init
       /\ kind = Unused /\ value = Unused /\ units = Unused
       /\ left = Unused /\ rejected = Unused /\ first = Unused
       /\ step = Unused /\ pc = Unused /\ holder = Unused
       /\ counts = Unused /\ reserves = Unused /\ asked = Unused
       /\ sent = Unused /\ node = Unused /\ run_status = Unused
       /\ rpc = Unused /\ attempt = Unused /\ searched = Unused
       /\ searcher = Unused /\ finished = Unused /\ tech_assessment = Unused
       /\ vpc = Unused /\ result = Unused /\ gaps = Unused
       /\ task = Unused /\ decisions = Unused /\ evaluation = Unused
       /\ session = Unused /\ queue = Unused /\ opened = Unused
       /\ failed = Unused /\ broken = Unused /\ stopping = Unused
       /\ item = Unused /\ warned = Unused
    \/ /\ part = "preflight" /\ Preflight!Init
       /\ kind = Unused /\ missing = Unused /\ phase = Unused
       /\ value = Unused /\ units = Unused /\ left = Unused
       /\ rejected = Unused /\ outcome = Unused /\ first = Unused
       /\ paid = Unused /\ counted = Unused /\ worker = Unused
       /\ failure = Unused /\ unknown = Unused /\ handled = Unused
       /\ file = Unused /\ node = Unused /\ run_status = Unused
       /\ rpc = Unused /\ attempt = Unused /\ searched = Unused
       /\ searcher = Unused /\ finished = Unused /\ tech_assessment = Unused
       /\ vpc = Unused /\ result = Unused /\ gaps = Unused
       /\ task = Unused /\ decisions = Unused /\ evaluation = Unused
       /\ session = Unused /\ queue = Unused /\ opened = Unused
       /\ failed = Unused /\ broken = Unused /\ stopping = Unused
       /\ item = Unused /\ warned = Unused
    \/ /\ part = "pipeline" /\ Pipeline!Init
       /\ kind = Unused /\ missing = Unused /\ phase = Unused
       /\ value = Unused /\ units = Unused /\ left = Unused
       /\ rejected = Unused /\ outcome = Unused /\ first = Unused
       /\ paid = Unused /\ counted = Unused /\ worker = Unused
       /\ failure = Unused /\ unknown = Unused /\ handled = Unused
       /\ file = Unused /\ step = Unused /\ pc = Unused
       /\ holder = Unused /\ counts = Unused /\ reserves = Unused
       /\ asked = Unused /\ sent = Unused /\ session = Unused
       /\ queue = Unused /\ opened = Unused /\ failed = Unused
       /\ broken = Unused /\ stopping = Unused /\ item = Unused
       /\ warned = Unused
    \/ /\ part = "tracing" /\ Tracing!Init
       /\ kind = Unused /\ missing = Unused /\ phase = Unused
       /\ value = Unused /\ units = Unused /\ left = Unused
       /\ rejected = Unused /\ outcome = Unused /\ first = Unused
       /\ paid = Unused /\ counted = Unused /\ failure = Unused
       /\ unknown = Unused /\ handled = Unused /\ file = Unused
       /\ step = Unused /\ holder = Unused /\ counts = Unused
       /\ reserves = Unused /\ asked = Unused /\ node = Unused
       /\ run_status = Unused /\ rpc = Unused /\ attempt = Unused
       /\ searched = Unused /\ searcher = Unused /\ finished = Unused
       /\ tech_assessment = Unused /\ vpc = Unused /\ result = Unused
       /\ gaps = Unused /\ task = Unused /\ decisions = Unused
       /\ evaluation = Unused

StructuredStep ==
    part = "structured" /\ Structured!Next /\ UNCHANGED <<part, BesideStructured>>

CoordinatorStep ==
    part = "reassessment" /\ Reassessment!Coordinator /\ UNCHANGED <<part, BesideReassessment>>

UnitStep(f) ==
    part = "reassessment" /\ Reassessment!RunUnit(f) /\ UNCHANGED <<part, BesideReassessment>>

ThreadStep(t) ==
    part = "preflight" /\ Preflight!Step(t) /\ UNCHANGED <<part, BesidePreflight>>

PipelineStep ==
    part = "pipeline" /\ Pipeline!Next /\ UNCHANGED <<part, BesidePipeline>>

TracedStep ==
    part = "tracing" /\ Tracing!Pipeline /\ UNCHANGED <<part, BesideTracing>>

SenderStep ==
    part = "tracing" /\ Tracing!Worker /\ UNCHANGED <<part, BesideTracing>>

Next ==
    \/ StructuredStep
    \/ CoordinatorStep
    \/ \E f \in Facets : UnitStep(f)
    \/ \E t \in Threads : ThreadStep(t)
    \/ PipelineStep
    \/ TracedStep \/ SenderStep

Spec == Init /\ [][Next]_all

(* The fairness each component states: its threads are scheduled and every *)
(* call of a provider returns or raises; that the server telemetry is sent *)
(* to answers is not assumed.                                              *)
FairSpec ==
    /\ Spec
    /\ WF_all(StructuredStep)
    /\ WF_all(CoordinatorStep)
    /\ \A f \in Facets : WF_all(UnitStep(f))
    /\ \A t \in Threads : WF_all(ThreadStep(t))
    /\ WF_all(PipelineStep)
    /\ WF_all(TracedStep)

-------------------------------------------------------------------------------
(* Properties. *)

(* A structured answer passes the full check, and a correction of it       *)
(* (patches of single items or one whole second answer) touches only what  *)
(* was faulty, keeps the sufficient claims of a reassessment and is        *)
(* bounded.                                                                *)
AnswerIsSound == part = "structured" => Structured!AnswerIsSound

(* A reassessment returns after all of its threads, with the evidence of   *)
(* every unit that succeeded on file, and merges the new claims with the   *)
(* preserved ones without calling the result better than they are.         *)
MergeIsSound == part = "reassessment" => Reassessment!MergeIsSound

(* Both ways of splitting a paid request, the correction units of          *)
(* structured() and the facets of reassess(), keep the promise of          *)
(* AllOrNothing: every unit is counted before one is paid, and a result is *)
(* delivered only if all of them were.                                     *)
PaidAllOrNothing ==
    /\ part = "structured" => Structured!Promise!Init
    /\ part = "reassessment" => Reassessment!Promise!Init
    /\ [][/\ part = "structured" =>
                [Structured!Promise!Next]_(Structured!Promise!vars)
          /\ part = "reassessment" =>
                [Reassessment!Promise!Next]_(Reassessment!Promise!vars)]_all

(* Threads that plan and generate with the same payload count it once, and *)
(* nothing is generated beyond the limit or with less room than the plan   *)
(* of its thread has verified.                                             *)
AdmissionIsSound == part = "preflight" => Preflight!AdmissionIsSound

(* The single-shot graph: the synthesis sees every branch, whatever order  *)
(* they ended in; no paid call starts behind a node that has returned;     *)
(* every gap a branch left is decided in the report; and a run that waits  *)
(* for its review has passed every step before.                            *)
GraphIsSound == part = "pipeline" => Pipeline!GraphIsSound

(* The server sees spans begin before they end and inside of rag_run,      *)
(* whatever is lost of them; without a warning only the last records of a  *)
(* run can be lost, and then its end is among them; and no run fails by    *)
(* its telemetry.                                                          *)
TraceIsSound == part = "tracing" => Tracing!TraceIsSound

(* Every structured request, reassessment, program of counted calls, graph *)
(* run and traced run ends, whichever calls fail, whichever threads wait   *)
(* for one another, and whether or not the trace server answers.           *)
EveryCallEnds ==
    <>(/\ part = "structured" => Structured!Over
       /\ part = "reassessment" => Reassessment!Over
       /\ part = "preflight" => Preflight!Over
       /\ part = "pipeline" => Pipeline!Over
       /\ part = "tracing" => Tracing!Over)

===============================================================================
