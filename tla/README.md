# Verification of the research-team run

TLA+ models, TLC checks and TLAPS proofs for the program in `src/`: a team of
language-model agents that researches two techniques (KIVI and InfiniGen) from
four views, writes a report, evaluates it, repairs it and publishes it, while a
shared ledger keeps what the provider may bill within a budget.

`PROJECT.json` lists the components, the runs, the mutants that show each
property can fail, the source lines behind each definition, the hazards of the
code and the theorems.

## 1. The system

| Component | Code | State it keeps | Operations |
|---|---|---|---|
| Supervisor run | `agents/supervisor.py`, `agents/state.py` | the control state (status, counters, pending request, feedback, references) in memory and in `snapshot.json` | `run` (start, resume, pause), one graph node per role, each wrapped by `node()` |
| RunStore | `agents/store.py` | `snapshot.json`, `artifacts/<role>/<n>.json`, `.run.lock` | `locked`, `checkpoint`, `put`, `get`, `load` |
| Contracts | `agents/contracts.py`, `agents/decision.py` | none | validation of every request and result |
| Gateway | `rag/llm.py` | receipts of earlier runs, generation slots, input counts | `preflight`, `generate` |
| Budget | `rag/budget.py` | `usage.json` (shared by all runs), one history file per run, a file lock | `bind_history`, `reserve`, `settle` |
| Research view | `agents/researchers/maturity.py`, `result.py` | per request: plan, per technology a round and a log | `run_maturity`, `_technology_research` |
| ResearchAgent | `agents/researchers/agent.py` | per request: `result.json`, `error.json`, `.in_progress` | `research` |
| Follow-up views | `agents/researchers/followup.py`, `rag/reassessment.py` | per request: questions, evidence, partial reassessments | `run_followup`, `reassess_facets` |
| Structured answers | `rag/graph.py`, `rag/repair.py` | per call: the value and its errors | `structured`, `plan_repairs`, `apply_patch` |
| Pipeline graph | `rag/graph.py` | the state of the single-shot graph | its nodes and the join |
| Writer, evaluator | `rag/writer.py`, `rag/evaluator.py`, `rag/evidence.py`, `rag/conflicts.py` | none between calls; a rework gets the earlier report | `write_report`, `evaluate_report` |
| Publisher, renderer | `rag/render.py` | a publication directory per request; the files of a run directory | `publish`, `render_report` |
| Tracing | `rag/tracing.py` | a queue of 512 trace records | `trace_run`, spans, the sending thread, `close` |
| Web sources | `rag/corpus.py` | raw bytes and a snapshot per source, shared by all processes | `prepare_sources`, `freeze_sources`, `web_search` |
| Index and its gate | `rag/corpus.py`, `scripts/revalidate_retrieval.py` | `vectors.npy`, `index.json`, the regression result | `build`, `ensure_retrieval_regression` |
| Context | `rag/context.py` | none | `build_research_context`, `assessment_evidence` |
| Source discovery | `rag/source_discovery.py` | raw bytes and a record per page | `collect` |
| Retrieval experiment | `scripts/retrieval_experiments.py` | frozen inputs, chunks, vectors, results, selection | `freeze`, `prepare`, `run`, `select`, `validate` |
| Runtime | `rag/agent_runtime.py`, `app.py` | `sources.json`, `manifest.json`, `graph.mmd`, `execution.json` | `execute_agent`, `run_team_agent` |

**How they interact.** `app.py` builds one Gateway (with the shared Budget), a
Pipeline, a ResearchAgent and a RunStore, and calls `Supervisor.run`. The
Supervisor's graph alternates between the node `supervisor`, which asks a model
(through `GatewayDecider`) for the next action, and the node of that action,
which calls the ResearchAgent, the writer, the evaluator or the publisher. Those
call `Pipeline.structured`, which calls `Gateway.generate`, which reserves
budget, sends the request and settles it. Views use thread pools; the control
state is only changed by the one thread that executes the graph.

**What is hard.** A process may die at any instruction, with a paid request in
flight; runs may be resumed by several processes; threads and processes share
the ledger; a provider may time out after it has generated an answer; a rerun
invalidates what was derived from an older result; a repair may need several
nodes; pool threads fail independently. Section `hazards` of `PROJECT.json`
lists each of these at its line.

**What makes the parts correct.**

- Supervisor run and RunStore: no request is issued twice or after an uncertain
  one; the snapshot is always loadable; results in it are mutually current; no
  repair is forgotten; limits hold over all resumes; execution ends.
- Gateway and Budget: the ledger covers what the provider bills; limits hold
  under concurrency; only refused requests are repeated; slots are conserved.
- Research view: the pool is drained before a request concludes; a sufficient
  result is sufficient for every technology; calls are bounded.
- ResearchAgent: one execution at a time; an interrupted one is not replayed.
- Follow-up views and facet reassessment: what is not reassessed is preserved,
  evidence is current, nothing is called unknown without a second search.
- Structured answers: all units are counted before any is paid; only what
  passes in full is returned; sufficient claims survive.
- Pipeline graph: the join sees every branch, no thread outlives its node, no
  gap is dropped.
- Writer and evaluator: decisions and repair requests are never carried over to,
  or lost for, another report; every finding reaches the role that can repair it.
- Publisher and renderer: a publication is whole and is the evaluated report;
  a record of success is true of the files.
- Runtime: one ledger pays for a run, and one code makes its calls, unless the
  code is replaced beside an execution; a paid run can be resumed.
- Tracing: records arrive in order; telemetry neither fails nor holds up a run;
  a trace that is not whole has been announced or has no end.
- Web sources, index, discovery, experiment: what is read is what was hashed,
  measured, official or frozen, whatever crashes and other processes leave.

## 2. The modules

### `Supervisor.tla` and `AtMostOnceRun.tla`

One process of the operating system is an element of `Process`. `pc[p]` is where
it is inside `node(role)`: `idle` (not executing), `node` (between nodes),
`begun` (first checkpoint done), `calling` (the request is out), `done` (the
handler has ended, second checkpoint outstanding). `mem[p]` is the `AgentState`
it holds, `snapshot` the one on disk, `at[p]` the node LangGraph runs next.

| Code | Model |
|---|---|
| `run(resume=False)`, `run(resume=True)`, `pause_after`, end of the stream | `Start`, `Resume`, `Pause`, `Return` |
| process death, failing checkpoint | `Crash` |
| `node()`: acknowledgement, first checkpoint, exception, second checkpoint | `Acknowledge`, `Begin`, `Raise`, `Commit` |
| `supervise` without and with a model call | `SuperviseLocally`; `Send`, `Decided` |
| `worker`, `writer`, `evaluate`, `publish` | `Send`, then `Researched`, `ReportWritten`, `Evaluated`, `Published` |
| `_call` raising, or an answer that fails validation | `CallRaises` |
| `choices` | `choices` |
| request validators of `contracts.py` | `RequestAccepted` |
| `RunStore.locked`, `load`, `put`, `get` | `Unlocked`, `Loadable`, `Record`/`put`, `get` |

An artifact reference is the attempt number in its path. A view's result is
reduced to its status and the technical result it was made from, a report to the
results it was made from, a verdict to its report and the roles it asks to
repair. Feedback is the set of roles that have a note. A `start` pause (before
the first node) leaves the same files as a crash there. `sent` and `unknown`
are history variables: what was handed to a model or subordinate, and what of it
has no outcome on disk.

`AtMostOnceRun` says the same thing without processes, crashes or checkpoints:
requests are issued once, one at a time, and a run given up while one is open
stays given up. `Supervisor` implements it with `status <- snapshot.status`,
`issued <- sent`, `open <- unknown`.

### `Gateway.tla`

`Run` are processes, `Call` the `generate()` invocations of their threads. An
action is what a thread does between two points where another thread, another
process or a crash can interfere: taking a slot, `reserve` up to the ledger
file, the history file, sending, the provider's answer or failure, `settle` up
to the ledger file, the history file, the receipt. `lock` is the file lock of
`Budget.locked`, held by at most one call. What the provider will bill for a
request is decided when it is sent (`sent`) and may exceed the reservation.
Amounts are natural numbers. The clock (exponential pause before a retry), the
heartbeat thread and tracing have no effect on this state and are left out. The
history check that precedes every use of the ledger is part of `Reserve`,
`Settle` and `Launch`; `HistoryAgrees` shows it never rejects, which is why
`Settle` has no failing alternative for it. Preflight is one step that succeeds
or raises: it sends nothing that is billed. What the entries of the ledger add up
to (`total`) is written as the size of a set, in which every entry appears as
often as it costs: it is the same number as their sum, and can be reasoned about.

### `Maturity.tla`

`run_maturity`: the coordinator (`Plan`, `RewriteFeedback`, `StartWorker`,
`Conclude`) and one thread per technology (`Search`, `Review`, `Rewrite`,
`Assess`). Each structured call can succeed, be deficient, or raise one of
three kinds of failure. `Search` stands for the four searches of a round, which
are serialised by `search_lock` and change nothing shared. A review that stays
invalid after its correction raises; an assessment that does ends as
insufficient, as in the code. `Order` is the contract order of the
technologies; what the code goes through in that order is a set here (`targets`,
`planned`), of which `First` is the next.

### `ResearchAgent.tla`

The three files of a request and the invocations that race for them. The runner
and `build_result` are one step that ends with a result or an unmapped
exception. `error.json` and `result.json` are written in one step: nothing reads
`error.json` in between, and a crash between the two leaves what a crash before
`SaveResult` leaves (a claim and no result).

### `AllOrNothing.tla`, `Structured.tla` and `Reassessment.tla`

`AllOrNothing` is what splitting a paid request promises: no unit is paid before
all of them fit, none twice, and a result needs all of them. Both splits of the
program implement it, each by a refinement mapping (`PaidAllOrNothing`): the
patches of one correction, and the facets of one reassessment.

`Structured` follows `Pipeline.structured`: `Ask`, `Plan` (with
`PlanRepairs`), `Check`, `CountUnit` for every unit, `Patch` for every unit,
`Merge`, or `CountWhole` and `Whole`. The units are a set, and `left` those the
present pass over them has yet to come to, in the order of the code (`Before`,
`Current`). A value is its claims, each with at most
one fault, and the rest. `RestoreVerbatim` and `RestoreSufficient` are the two
repairs that need no model; a correction is again open to any fault.

`Reassessment` follows `reassess_facets`: `CountWhole`, `AssessWhole`,
`CountUnit`, `Start`, a `RunUnit` per thread, `Handle` (the coordinator's
`as_completed` loop, which writes the evidence file), `Conclude`, which raises the
`FirstFailure` in request order. The two claims of a facet are one value.

### `Followup.tla`

`run_followup` with its three ways: fresh, on feedback for an earlier result
(which reassesses some facets only), and the second search for facets that stay
unknown. Structured calls and `reassess_facets` return anything their check
accepts. Chunks are papers or web pages; `Counter` is the facet that
`balance_findings` wants evidence against the technologies for.

### `Preflight.tla`

`Gateway.preflight` as threads use it: `Reuse`, `RefuseLong`, `Lock` (one lock
per payload), `Count`, `Enforce`. Programs of plan and generate steps are a
constant.

### `Pipeline.tla`

The single-shot graph: two research threads behind one search lock (`Start` to
`Rewrite`), `PlanQueries`, one branch per view (`SearchWeb`,
`SnapshotChanged`, `Assess`), `Join`, the writer's pool of tasks (`StartTask`,
`EndTask`, task 0 being the draft), `Synthesize`, `Evaluate`, `Render`, and
`Stop` for a branch that raised. LangGraph runs the nodes of one step together
and applies their writes when all have ended.

### `Writer.tla` and `Evaluation.tla`

`Writer` gives the requests that `Supervisor` issues contents: gaps known by
their position, one claim per view, and each view's copy of a shared chunk. It
follows the decisions about gaps, the batches, the registries and the repair
requests through researches, reworks and verdicts. A result that holds another
copy of a chunk than those that stay ends the run with `artifact_mismatch`
(`Admits`, from `merge_registry`). `Evaluation` is one `evaluate_report`: check in
code, judge, or the repair requests of both. What is wrong with the layout of a
report is given; each such error has the criterion it is sorted under, the claims
it starts with and the views it names (`CodeFindings`), from which follows whom
it is routed to (`Roles`).

### `Publisher.tla` and `Renderer.tla`

`Publisher` has the Supervisor, which writes and evaluates, and processes of
`--agent-publish-request` that take no lock. `Check`, `Load`, `Exists`, `Stage`
(one file at a time) and `Rename` are the steps of `publish`. `Renderer` is
`render_report` over the files of an earlier rendering: an in-place file is torn
between `Open` and `Write`, an atomic one never.

### `Runtime.tla`

Processes that create or resume one run: `OpenNew`, `Mkdir`, `WriteSources`,
`WriteManifest`, `BindHistory`, `OpenResume`, `Load`, `WriteGraph`, `Lock`,
`Enter`, `StartNode`, `EndNode`, `Leave`, `Unlock`, `Summarise`. `Crash` may
happen anywhere. A node is a call that is pending until it is over; what else
happens under the lock is `Supervisor`.

`Update` replaces the code on disk, or rolls it back, and `ReplaceLedger` the
ledger, at any time. A process imports its modules when it begins, computes the
identity of the code on disk when it opens the run (`Opens`), and reads the
Supervisor's prompt from disk for every decision. So what makes a call
(`CodeOf`) is the code on disk, unless that was replaced since the process began
(the history variable `overtaken`): then it may be old modules and new prompts,
or the reverse. The snapshot has an identity of its own, of a part of the code
(`Supervisor._identity`), by which `Load` and `Enter` may refuse it after an
update, but need not.

### `Tracing.tla`

Spans put records on the queue (`Open`, `Exit`), the sending thread takes them
(`Take`), finds none (`TimesOut`), looks at the stop event (`LookForStop`) and
sends (`Send`, which the server accepts, refuses or never answers); `Close`,
`JoinWorker` or `JoinExpires` end the session. What the sender finds empty before
it looks at the stop event may have been filled in between; it then ends and
leaves those records.

### `Sources.tla`, `Index.tla`, `Context.tla`, `Discovery.tla`, `Experiment.tla`

`Sources`: the raw bytes of a web source are overwritten in place, the snapshot
is replaced; other processes refresh, a person edits, a process dies. A version
stands for bytes, text and hash. `Index`: `Corpus.build` writes the vectors
before the index that identifies them, and the regression gate measures or
reuses; the actions are the file accesses. `Context`: the selection of chunks
within a token budget, where any cost of each chunk is chosen at the start and
the orders of candidates are a constant; an assessment may cite a chunk that
the corpus does not have (`Foreign`), and is refused. `token_context`, the earlier
implementation, is the reference definition of the baseline. Its loops are folds
over sequences (`Take`, `Yielding`, `Consume`). `Discovery`: a collection reads start pages, then
links, under limits of number and bytes, over the files of earlier ones.
`Experiment`: the five commands, given by hand in any order, over files that are
created exclusively.

### Model-checking modules

`MCSupervisor`, `MCGateway`, `MCMaturity` and `MCResearchAgent` give values to
the constants of one module each, and name symmetries. The other components are
checked side by side, in four modules grouped by what they work with:

| Module | Components |
|---|---|
| `MCCalls` | `Structured`, `Reassessment`, `Preflight`, `Pipeline`, `Tracing`: paid calls and the threads they are made in |
| `MCDecisions` | `Followup`, `Writer`, `Evaluation`, `Experiment`: what is concluded from evidence |
| `MCFiles` | `Context`, `Sources`, `Discovery`, `Publisher`, `Renderer`: what is read and written |
| `MCCommands` | `Runtime`, `Index`: commands that race for a directory |

These components share no state, so nothing is gained by interleaving them: the
variable `part` is chosen in the initial state, a behaviour is one of that
component's, and the variables of the others hold `"unused"` (a name that two
modules use is one variable that belongs to whichever is chosen). Each module
states its components' properties as `part = "x" => X!P`.

The constants of the components are constants of `MCCalls`, `MCCommands`,
`MCDecisions` and `MCFiles` too, with their assumptions named there (`ReassessmentAssumption`,
`IndexAssumption`, ...); only the `.cfg` gives them small values. The proofs
extend these modules, so the property a theorem states is the very definition
the run checks, for all values the assumptions allow.

A property of a run may have several named parts, which are defined and
explained one by one in the component's module: `AnswerIsSound` of `Structured`
is `TypeOK` and `ReturnedIsValid`, `OnlyFaultsAreCorrected`,
`SufficientSurvives`, `CorrectionIsBounded`. TLC names the conjunction that is
violated; the state it prints shows which part.

## 3. The runs

Passing runs:

| Run | Question | Checks |
|---|---|---|
| `supervisor` | do the safety properties and the refinement hold for two processes? | `TypeOK`, `WriteAhead`, `RequestsAreSound`, `SnapshotIsSound`, `RepairsAreDone`, `AtMostOnce`, `EndedStaysEnded` |
| `supervisor_live` | does every execution come back? | `ExecutionEnds` |
| `gateway` | spending, repetition and slots under threads, runs, crashes | `TypeOK`, `LedgerCoversBills`, `LimitsHold`, `HistoryAgrees`, `OnlyRefusedIsRepeated`, `ViolationStopsReservations` |
| `gateway_live` | does every call end? | `CallsEnd` |
| `maturity` | outcome, draining, bounded calls, termination of the research view | `ViewIsSound`, `RequestEnds` |
| `research_agent` | is a request exclusive, not replayed, and ended? | `ClaimIsSound`, `InvocationEnds` |
| `calls` | are paid calls counted, bounded, merged and ended, whatever fails? | `AnswerIsSound`, `MergeIsSound`, `AdmissionIsSound`, `GraphIsSound`, `TraceIsSound`, `PaidAllOrNothing`, `EveryCallEnds` |
| `decisions` | does what is concluded rest on current evidence, with nothing lost? | `FollowupIsSound`, `VerdictIsSound`, `ReportIsSound`, `ExperimentIsSound`, `RepairsAreAnswered`, `ChoiceIsFinal` |
| `commands` | one ledger and one code per run, resumable, measured before paid, under races, crashes and updates? | `RunIsSound`, `IndexIsSound`, `SummaryIsRepaired` |
| `files` | is what is read what was named, and what is published whole? | `ContextIsSound`, `SourcesAreSound`, `DiscoveryIsSound`, `PublicationIsSound`, `RenderingIsSound` |

Violated on purpose, one property each (section 5): `maturity_uncertain`,
`research_agent_final`.

**Bounds**, and why they suffice:

| Component | Bounds |
|---|---|
| `Supervisor` | Two of the follow-up views (`market`, `stakeholder`) stand for all of them, which the code treats alike: one can be repaired while the other is not. 2 attempts per worker and 3 per writer are the code's defaults; 11 decisions allow a complete run with a repair of a view, a rewrite and a failed attempt. The two processes are interchangeable (symmetry). `supervisor_live`: one follow-up view, 2 worker and 2 writer attempts, 7 decisions, no symmetry |
| `Gateway` | two runs, two threads in one of them, prices 1 and 2 against a limit of 3, call limit 2, one retry: every limit is reached by a different interleaving. Two slots keep both threads of a run in flight together; waiting for a slot is the subject of `gateway_live`: one slot, so that threads wait for each other, and a cached call |
| `Maturity` | the two technologies the contract fixes, two threads as in the code, all earlier results |
| `ResearchAgent` | three invocations: a winner, a loser and one that comes late |
| `Structured` | two claims and the layout are three units against a maximum of two, so both kinds of correction happen; every fault of each |
| `Reassessment` | the three facets of a view, two threads as in the code |
| `Preflight` | three threads; two plan and send the same two payloads with different reserves, one meets every refusal |
| `Pipeline` | two technologies with two searches a round, the three views, batches of two over at most five gaps, so that batches are empty, whole and short |
| `Tracing` | two pool threads and a queue of two against six records, so that it is full before, inside and after the threads; 512 is more of the same |
| `Followup` | a facet with and one without counter-evidence, one paper, two web pages: what a paper's removal and a second search change |
| `Writer` | two views, two gaps each, batches of two, three researches of a view and two reports: every content is replaced once while another is kept |
| `Evaluation` | two views and a synthesis; up to two findings that name claims of several roles, a role, missing views or nothing; layout errors that start with a claim, speak of a view or name nothing, under two criteria |
| `Experiment` | two models, the one in use and a rival, each in the common chunking and one more, one of which is the baseline; six commands: one complete experiment and a command given again |
| `Runtime` | three executions, new or resumed, two nodes; two race while a third finds what they left (symmetry); any number of updates and rollbacks between the two versions of the code, one replacement of the ledger |
| `Index` | two commands (symmetry), two settings over different pages, three starts, one new baseline. The first baseline, if there is one, is over the pages of one setting (`FirstPages`), the settings being alike |
| `Context` | six chunks on three pages that cost 1 or 4 against 5 (4 in reserve), two ranked hits, four orders, one citation the corpus does not have: everything fits, nothing fits, or one dear chunk takes the place of several cheap ones |
| `Sources` | two processes (symmetry), one source, three starts; two texts and bytes that cannot be decoded |
| `Discovery` | two sources, one of which moves and shares a link with the other; three collections, 2 links per source, 2 in total, 2 bytes per file, 8 in all, so that each limit is met alone |
| `Publisher` | two request files beside the Supervisor, two ids, two reports, edited or not |
| `Renderer` | four renderings of one directory |

`CHECK_DEADLOCK FALSE` is set wherever the modelled request, run or sequence of
commands ends. A team run can always be resumed once more, and a gateway run
relaunched, so `Supervisor` and `Gateway` are checked for deadlock; that the
others end where they should and not earlier is what `RequestEnds`,
`InvocationEnds` and `EveryCallEnds` say. The commands of `MCDecisions`,
`MCFiles` and `MCCommands` are given by hand and need never be given; no
liveness is claimed of them.

**Fairness.** Weak fairness of an executing process's own steps (`Execute`), of
a thread once its call was made (`Thread`, `Step`, `RunUnit`), of the
coordinator and of an invocation. It is what the operating system's scheduler
and the time limits of the provider client (`OPENAI_TIMEOUT_SECONDS`) give.
`Structured` is one sequential function and `Pipeline` one graph execution that
waits for all its threads, so there the fairness of `Next` is enough. In
`Tracing` only the run's own steps are fair: the server need never answer, and
the run ends all the same. Nothing is assumed about starting, resuming, pausing
or crashing. The slots of the gateway need no strong fairness: each waiting call
retries finitely often; nor do the locks of `Preflight`, which are each taken
once per count.

**What the runs show.** Besides the findings, every property holds. The
ones that took thought, by the names of their parts:

- `AttemptsAreFresh`: an attempt is consumed on disk before the handler runs,
  so a crash can waste an attempt number but never reuse one; `put`'s refusal to
  overwrite is never met.
- `RepairsAreDone`: `worker` removes only its own view from the feedback, and
  `choices` offers only views with feedback as long as there are any, so a
  repair outlives the verdict that asked for it, which is dropped with the
  report.
- `RequestsAreAccepted`: `choices` and the sufficiency judgment imply all
  validators of the next request; the `ValueError`s there are unreachable.
- `WithinLimits`: the recursion limit of the graph is sufficient, with every
  node of every resume counted.
- `EndedStaysEnded`: resuming a run that needs attention writes the same state
  again.
- `HistoryAgrees`: a crash between ledger and history is harmless since the
  ledger is written first.
- `LedgerCoversBills` holds although `settle` loses the state `uncertain` it
  assigns when usage is missing (`rag/budget.py:123` raises before the ledger
  is written): the entry then keeps its full reservation.
- `GenerationFits`: the generation that follows a plan counts with reserve 0.
  It still has the room of its plan, since a refused plan ends the program and a
  payload has one count; and the room on record, the maximum over all threads
  (`rag/llm.py:110`), is true and no less, though the generation would erase it if
  the last one were recorded.
- `OnlyFaultsAreCorrected` and `SufficientSurvives`: patches can change only
  what their unit names, and claims that were sufficient are restored before
  every check, so the model cannot lose them.
- `UnknownWasSearchedAgain`: a feedback rewrite that leaves out a facet which is
  still unknown is rejected.
- `EveryGapIsDecided`: also when the number of gaps leaves a short last batch
  and a task of the pool ends before the draft.
- `DecisionsAreCurrent`: gaps are known by their position, so an old decision
  could pass for one about a new gap; the Supervisor drops the report, and the
  decisions with it, whenever a view is researched.
- `PublishedWasEvaluated`: the command takes no lock and trusts no file; it
  compares the request with the artifacts of the snapshot, and once those include
  a passing verdict the Supervisor goes on to nothing but their publication.
- `RecordIsTrue`: both records are set to "started" before the first file is
  touched.
- `PaidIsResumable`: everything a resume checks, the first snapshot included, is
  written before the first call, so a directory that a crash left incomplete has
  cost nothing.
- `OneBasisPerRun`: the code is compared once per execution, when it is opened,
  and is then made of modules imported before and prompts read after. Whatever
  updates and rollbacks come between executions, the comparison is enough; for one
  that an update overtakes it is not (section 5).
- `NoneSkipped` and `EndIsLast`: a record leaves the queue only to the server or
  with a notice, so what may be lost in silence is what is still queued when the
  sender has ended; that is the last of the run by `SentInOrder`, and includes the
  end of `rag_run`. No trace looks complete that is not.
- `CodeIsDecisive`: an error of the layout fails the criterion it is sorted under
  and reaches the missing views it speaks of, else the owner of the claim it
  starts with, else the writer.
- `RegistriesAgree`: a result is compared with every one that stays, also when its
  view is researched again, so results that disagree never meet in the writer.
- `CitedAreComplete`: an assessment either sees all it cites or is refused, for a
  chunk the corpus does not have or for the budget, and for nothing else.
- `ReadsItsIdentity`: the registry names one hash, and the text of a snapshot is
  kept in memory once it fits that hash.
- `BytesWithinBudget`: a read that fails half-way keeps what was reserved for it.
- `ChangeIsEarned` holds for chunks edited at any time but one, between a
  child's check of them and its reading during the holdout; the property says so.

## 4. The proofs

Every theorem below holds for all values of the constants that the named
assumptions of its module allow, and states a property that a run of section 3
checks. Each follows the same line: an invariant that contains the property
and is inductive (checked by TLC before it was proved, where TLC can evaluate
it), one lemma per action that preserves it, and a last temporal step.

| Module | Theorem | States |
|---|---|---|
| `SupervisorProofs` | `TypeCorrect` | `TypeOK` |
| | `WriteAheadCorrect` | `WriteAhead` |
| | `IssuedAtMostOnce` | `AtMostOnce`, the refinement of `AtMostOnceRun` |
| | `RequestsCorrect` | `RequestsAreSound` |
| | `SnapshotCorrect` | `SnapshotIsSound` |
| | `RepairsCorrect` | `RepairsAreDone` |
| | `EndCorrect` | `EndedStaysEnded` |
| `ResearchAgentProofs` | `ClaimCorrect` | `ClaimIsSound` |
| `GatewayProofs` | `TypeCorrect`, `BillsCovered`, `LimitsCorrect`, `HistoryCorrect`, `RepeatsCorrect`, `ViolationCorrect` | `TypeOK`, `LedgerCoversBills`, `LimitsHold`, `HistoryAgrees`, `OnlyRefusedIsRepeated`, `ViolationStopsReservations` |
| `MaturityProofs` | `ViewCorrect` | `ViewIsSound` |
| `FilesProofs` | `PublicationCorrect`, `RenderingCorrect`, `SourcesCorrect` | `PublicationIsSound`, `RenderingIsSound`, `SourcesAreSound` |
| | `DiscoveryCorrect`, `ContextCorrect` | `DiscoveryIsSound`, `ContextIsSound` |
| `CallsProofs` | `AdmissionCorrect`, `AnswerCorrect`, `MergeCorrect`, `TraceCorrect` | `AdmissionIsSound`, `AnswerIsSound`, `MergeIsSound`, `TraceIsSound` |
| | `PaidCorrect` | `PaidAllOrNothing`, the two refinements of `AllOrNothing` |
| | `GraphCorrect` | `GraphIsSound` |
| `CommandsProofs` | `RunCorrect`, `SummaryCorrect`, `IndexCorrect` | `RunIsSound`, `SummaryIsRepaired`, `IndexIsSound` |
| `DecisionsProofs` | `FollowupCorrect`, `ExperimentCorrect`, `ChoiceCorrect` | `FollowupIsSound`, `ExperimentIsSound`, `ChoiceIsFinal` |
| | `VerdictCorrect`, `ReportCorrect`, `RepairsCorrect` | `VerdictIsSound`, `ReportIsSound`, `RepairsAreAnswered` |

**At most one issue of a request** (`SupervisorProofs`; any processes, any
follow-up views, all positive limits). `WriteAhead` is not inductive: that the
marker replaced by `Begin` was cleared, and that the new request was never sent,
depends on what all earlier processes left on disk. `IInv` adds:

- `RunsAlone`: at most one process is executing, by the run lock.
- `NodeOK`, `HandlerOK`: around a call, memory equals the snapshot; between
  nodes of a running run the marker is cleared.
- `DiskOK`: while the run is running, the counters on disk cover every request
  ever sent, except the pending one (`Counted`); ended runs have no marker
  unless they need attention.
- `DoneOK`: what a handler hands to the second checkpoint (`Outcome`) covers
  all requests and goes on only if the run does.

The refinement follows: `Send` is `Issue`, because at `begun` nothing is open and
the request is new; `Commit` is `Conclude` or `Abandon`; `Resume` at a marker is
`Abandon` or a stutter; everything else stutters.

**The results of a run** (`SupervisorProofs`, on top of `IInv`). `RInv` relates
every control state, on disk (`SnapshotOK`), with a handler (`WorkOK`) or waiting
for the second checkpoint (`FinishedOK`), to the files it names: `Sound` says
that each reference has its file, with the status the summary repeats, made from
the results referred to now, and that the counters have not passed their limits;
`Current` and `Chosen` say what a node may rely on, and so why the validators
never reject its request. `FilesOK` says that no file is above the counters, which
makes every attempt fresh, and `AtNextAction` that LangGraph is where the
snapshot says. Most of the work is one lemma for each way a handler changes
a control state (`Working` to `Good`).

**The claim of a research request** (`ResearchAgentProofs`, any callers). The
invariant adds that the claim exists as long as somebody holds it
(`HeldIsClaimed`), that who has not taken it has not executed
(`EarlyHasNotRun`), and, stronger than the property, that an interrupted
execution leaves no holder at all, the raising one included
(`InterruptedBlocks`): the last holder can then remove its claim without opening
a request that was interrupted.

**Spending** (`GatewayProofs`; any runs, calls, prices, bills, slots, retries
and limits). `IInv` says that reservations and requests exist for the attempts
up to the present one, and for that one from the phase on that makes them
(`AttemptsOK`), that every earlier one was refused (`RefusedOK`), that an attempt
keeps its reservation open until it is settled (`OpenOK`), and that an id names
one entry and one request (`IdsUnique`). That the limit on spending holds needs
arithmetic on the sum of the ledger; the lemmas on `total` say what a new, a
changed and an untouched entry do to it. The slots are counted in the same way
(`Holders`).

**The research view** (`MaturityProofs`, any technologies and workers). `IInv`:
nothing is done for technologies that are not targets (`OthersIdle`); what a
thread may have spent at each of its steps, from which the bound on calls
follows (`SpentOK`); a call is lost only by a thread that failed (`PoolOK`), and
left its exception (`FailureOK`).

**Paid calls** (`CallsProofs`).
- Admission (any threads, payloads, programs, counts, limit): counting once rests
  on the lock (`HoldsLock`) and on a payload staying uncounted while it is counted
  (`CountOK`, `AskedOK`); that generations fit on what is on record fitting the
  limit (`RecordOK`) and covering every step a thread has left behind
  (`BehindOK`), because a refused step is its last.
- Reassessment (any facets and workers): until all units are counted nothing is
  started (`BeforePoolOK`, `PaidOK`), what was handled is on file (`HandledOK`),
  and who ended has waited (`EndedOK`).
- Structured answers (any claims, any bound on the units): the first answer has
  what was sufficient (`FirstOK`), units are those of its faults (`UnitsOK`), and
  while they are patched everything else is as it was, and bodies are
  (`PatchOK`).
- The promise: in both, the step to the units is `Partition`, the counting of one
  is `Count`, the start of one is `Pay`, an end is `Deliver` or `Fail`, and all
  else stutters. The first unit paid is preceded by every count because
  `counted` (or the pass over `left`) was complete.
- Tracing (any threads and size of the queue): what was sent, is being sent and
  waits is one sequence in which every two records are in order (`SentOK`,
  `QueueOK`, `ItemOK`), holds only what spans have put there so far (`PutOK`,
  `InsideOK`) and, as long as there was no notice, all of it (`NoneSkipped`).
  The end of `rag_run` is behind everything else in that sequence, and every span
  has put its records by then (`OpenedOK`), hence `EndIsLast`.
- The graph (any technologies and views in any order, any number of queries,
  gaps, batch size and concurrency): a thread has ended exactly when its result
  is known and its future completed (`ThreadsOK`); threads work in their node
  only (`ResearchOK`, `ViewsOK`); whoever is behind the join has every view, and
  whoever is behind the report has every task (`ReportOK`). What is merged after
  the threads is folded in the order of the configuration and equals the
  definition by that order, whatever order they completed in
  (`CompletionOrderIsInvisible`): `FoldExists` shows the fold of `SequencesExt`
  has a value, `InOrderOf` that it obeys its recursion.

**Files** (`FilesProofs`).
- Publisher (any commands, ids and reports): a temporary directory has exactly
  the files written so far (`StagingOK`), and past the comparison a request is
  the report of the run, which passed and stays (`ComparedOK`).
- Renderer (any number of renderings): the files before the one at hand are
  those of this rendering and both records say "started" (`WritingOK`).
- Sources (any processes, sources and versions): a process has read only when
  it has frozen (`SeenOK`), and downloads what can be decoded (`FetchedOK`).
- Discovery (any sources, pages, links, answers of the web, sizes and limits):
  the budgets and scopes follow from `CollectionInv`, by the step each page was
  written and recorded in (`ItemOK`). That everything found without a failure is
  found again needs the past: a collection without failures has left a trail
  (`Trail`), a set of stations each of which is followed by another of the set
  when it is read again from disk, and a later collection never leaves it
  (`Circuit`). Neither the trail nor its length is a variable of the model:
  the invariant says only that there is such a set.
- Prompts (any chunks, pages, costs, orders offered, setups and budgets): every
  fold has its two equations, for the empty sequence and for one more chunk
  (`TakeAlong`, `ConsumeAlong`, `YieldAlong`, `TotalAlong`, `InOrderAlong`). From
  them: a selection stays within the budget and names a chunk once (`TakeOK`);
  what was taken stays, where it is (`TakeKeeps`); what is required is there in
  its order, or the packing is refused, and then only if it does not fit
  (`PackIs`), so an assessment is refused for that or for a chunk it cites and
  the corpus does not have; at most three chunks yield, none of them ranked (`YieldIs`); and
  `_pack` and `token_context`, offered the same, select the same (`StepsAlike`).
  The invariant (`ContextInv`) then says which packing each variable came from.

Induction over data is stated about sets: a set of numbers with 0 and each
successor has all (`SetInduction`, from the least element that well-foundedness
gives), hence a set of sequences with `<<>>` and every `Append` has all
(`SeqInduction`).

**Commands** (`CommandsProofs`).
- A run's directory (any processes and nodes): files appear in their order
  (`FilesOK`), one process creates them and all who got past the manifest have
  computed the same basis (`CreatorOK`), the code in it is the code on disk until
  that is replaced beside them (`CurrentOK`), the lock holder alone changes the
  snapshot (`HolderOK`), and beside a process that is alone nobody is active
  (`AloneOK`), which is why its summary repeats the checkpoint.
- The index (any commands, settings, pages and baselines): what a process needs
  for its step is there (`StageOK`); a result on file, or on its way there, is
  that of a measured index (`ResultOK`); undisturbed builds are one at a time
  and the vectors on file are those `index.json` names (`BuildOK`); without an
  overlap one process has the temporary file open (`HandleOK`).

**Decisions** (`DecisionsProofs`).
- A follow-up view (any facets, papers and pages): the papers shown are current
  once those of the earlier result were found to be (`ShownOK`); while facets are
  searched again, the unknown ones are among them (`SearchedOK`); what is
  balanced has passed the check and kept the other claims (`CheckedOK`).
- The retrieval experiment (any configurations, models, outcomes and number of
  commands): `FilesOK` reads the stage of the experiment off its files: a result
  has its vectors and chunks, a selection was made from a whole set of frozen
  results and could be made again from them, a lock has a selection, a decision
  has both holdout results. What a command checked when it began still holds at
  its step (`BeforeChoiceOK`, `ScoringOK`, `ItemOK`), since commands run one at a
  time and edits reach only inputs and chunks; a validation accounts for both
  configurations it compares (`ValidationOK`), so it decides only when both are
  scored.
- A verdict (any report, any finite answer of the Judge that its schema admits):
  `EvaluationInv` says it is `Verdict` of this report and this answer, so the
  step is easy and the work is in what `Verdict` computes. A problem names only
  claims the report uses (`CodeProblems`), every problem has a role
  (`RolesOfProblem`), and the requests made of finitely many problems are
  finitely many (`RequestsAreFinite`): their sequence holds every one of them,
  those of the writer behind the others (`OrderOfRequests`).
- The writer (any views, gaps, batch size and attempts): `WriterInv` adds to the
  properties that the results in use agree on the chunks they share, that a
  report is of the present results, and that what a verdict asked for and was not
  done since is still asked for (`owed \subseteq feedback \cap repairs`). That the
  batches hold every gap once they are all reviewed is division with remainder
  (`Product`, `Batch`, `BatchesCover`); no induction is needed there. The writer works
  only when no view has anything left to answer (`WorksWithin`), hence
  `RepairsAreAnswered`.

**Assumptions.** They are the typing of the constants and what the code fixes:
a view is not a technology, limits are naturals, programs are not empty, file
names in an order are distinct. Those of the form `"none"` is not an element
(`Absent \notin Process`, `FileAssumption`) tell a marker from a value that the
code tells apart by type. `FindingAssumption` is the Judge's schema: a finding
names a criterion, claims, views and at most one role, and an answer has
finitely many; `ArtifactAssumption` is that a report has finitely many layout
errors, each of a criterion and starting with at most one claim that it uses. `OrderAssumption` of `Pipeline`: the configured technologies and
views are lists, of different things. `RootsAssumption` and `PagesAssumption` of
`Discovery`: a source is configured once (they are keys of a dictionary) and its
start page lies in its own scope, sizes and limits are numbers. `ChunksAssumption`
and `BudgetAssumption` of `Context`: an order offered names every chunk once, a
foreign citation none, and the budgets are those `_pack` does not refuse. TLC evaluates all of them in the
runs.

**Only model-checked.** Liveness under fairness and `ENABLED` (`ExecutionEnds`,
`CallsEnd`, `RequestEnds`, `InvocationEnds`, `EveryCallEnds`) are out of the
prover's reach. Every invariant, action property and refinement of the passing
runs is stated by a theorem.

## 5. Findings

Where the code does something else than a comment, a document or a test of the
repository says. The first two are counterexamples of runs.

1. `maturity_uncertain`: `run_maturity` raises the failure of the first
   technology in contract order (`agents/researchers/maturity.py:439`). If that
   one is an ordinary error, an `uncertain_request` of the other technology is
   lost: the view fails with an ordinary code, the Supervisor ends the run as
   `incomplete` and clears the pending marker. `rag/llm.py:19-20` asks every
   role to keep that distinction, and the repository's `README.md:62` says calls
   of unknown completion stay `needs_attention`. `rag/reassessment.py:84` selects
   the failure of the first missing facet in the same way.
2. `research_agent_final`: `research()` looks for `result.json` before it takes
   the claim (`agents/researchers/agent.py:47`), and a finished invocation
   removes its claim, so an invocation that looked early can execute a finished
   request again. `tests/test_research_agent.py:142-145` states such a request
   is refused. Inside a team run the run lock excludes it.

Met while modelling, and part of the models' behaviour; no run is devoted to
them, and the properties above hold all the same or say what they except:

- An assessment that stays invalid in the first round
  (`agents/researchers/maturity.py:258`) ends the technology as insufficient;
  `docs/rag-legacy-guide.md:211` describes a second search for it.
- The search lock does not cover the counting of tokens (`rag/graph.py:364`),
  for which the tokenizer of the same encoder is used, against the comment at
  `rag/graph.py:356`.
- The identity of the code is computed once per execution, from the files on disk
  after the modules were imported (`rag/agent_runtime.py:22`, `:144`), and covers
  `prompts/*.txt`, but the Supervisor's prompt is read from disk for every
  decision (`agents/decision.py:22`). An update beside an execution is therefore
  used, in part, under a manifest that names another version: of the calls of an
  overtaken execution `OneBasisPerRun` claims the ledger only. A run created
  across an update may have a snapshot of another identity than its manifest
  names, and is then refused by every resume (`Load`, `Enter`), though it has
  all its files, which is what `PaidIsResumable` is about.
- The snapshot is read before the run lock (`rag/agent_runtime.py:97`), so the
  untraced path of a resume, which its comment says makes no calls, may make
  them if another process has moved the run on in between. Whether a path is
  traced is not in the model; this was seen by reading.
- The sender of traces may see the queue empty, then find the stop event set and
  end (`rag/tracing.py:90`), while the last records were put in between; they are
  lost without the wait or the notice of `close`. `NoneSkipped` and `EndIsLast`
  say how far this goes: only the last records of a run, and its trace then has
  no end.
- Up to three neighbours yield, as the comment at `rag/context.py:108` says
  (`rag/context.py:118`); `docs/context-retrieval.md:55` says two. `ThreeYieldAtMost`
  states the comment, and TLC has a prompt that gives up three. They yield before
  it is known whether anything takes their place (`rag/context.py:115`).
- A refresh whose new bytes cannot be decoded has already overwritten the raw
  file of the snapshot it keeps (`rag/corpus.py:116`), and generation then
  refuses the source.
- Vectors are not identified by themselves (`rag/corpus.py:274`); a build cut
  short before `index.json` leaves the vectors of other chunks for the next build
  of the earlier setting. `VectorsAreOwn` excepts it.
- A start page whose raw bytes and record were left apart by a crash
  (`rag/source_discovery.py:124`) fails in every later collection, a refresh
  included.

## 6. Not modelled

- What evidence, prompts and reports say: pure text. Conflict records
  (`rag/conflicts.py`) are one check that passes or fails. Which layout errors a
  report has (`report_errors` of `rag/evidence.py`) is chosen; what is made of them
  is modelled. The wording of a query is any wording.
- Field shapes (`agents/researchers/contract.py`, `rag/schemas.py`, the
  converters of `agents/researchers/result.py`): stateless validation. A
  rejection is a failing answer in every module that calls it, with the code
  `node_error` gives it; the rules routing depends on are in `Supervisor`.
- Numerics: embedding search, lexical ranking, scores and their averages. The
  models choose any order or grade the code could compute.
- Hashes are injective; content hashes of artifacts and path checks are left
  out of `Supervisor`, whose artifacts are written once.
- The 64 KiB limit of the control state (`agents/store.py:67`), which feedback
  and summaries may exceed after a call was paid: a failing checkpoint is covered
  as a crash at that point, and no property is about the size itself.
- What a JSON file of an experiment cut short in the middle of its exclusive
  write (`scripts/retrieval_experiments.py:45`) means for the commands after it:
  it can neither be read nor written again. The model has such files, and
  `DiedIsResumed` excepts them, since no document promises more.
- PDF parsing, chunking and PDF layout; which metadata a span carries; argument
  parsing and settings; the wording of receipts and events.
- Edits by hand other than those that are actions (`Update` and `ReplaceLedger` of
  `Runtime`, the edits of `Sources` and `Experiment`).
- The remaining scripts (packaging, export, benchmarks, evaluation of contexts
  and of query rewrites): each processes files once and keeps no state anything
  else depends on.

## 7. Plan

The safety of every modelled component is proved, except for the behaviour the
findings describe. What is left is breadth:

1. The result contract (`agents/researchers/contract.py` and the converters of
   `result.py`): pure validation, as operators against a reference definition.
2. `Corpus`: the ordering of candidates, which `Context` takes as any order.
3. The size of the control state, as a limit that a checkpoint may exceed.

No module uses a recursive operator, so all of them can be proved about.
