------------------------------- MODULE Experiment -----------------------------
(***************************************************************************)
(* The retrieval experiment of scripts/retrieval_experiments.py that chose *)
(* the chunking in use: freeze, prepare, run, select, validate.  Each      *)
(* command is a process started by hand, one after the other; it may die   *)
(* anywhere, and inputs and chunks may be edited at any time.  Nothing is  *)
(* written twice but vectors: a JSON file is created exclusively, and a    *)
(* process that dies while it writes one leaves it torn for good.          *)
(*                                                                         *)
(* What a measurement says of a configuration is reduced to whether a      *)
(* required question is worse than with the reference, and to how much of  *)
(* the evidence and of its conditions is recovered on average.             *)
(***************************************************************************)
EXTENDS Integers, FiniteSets, SequencesExt

CONSTANTS
    Order,          \* the configurations, as the manifest lists them
    Operational,    \* configurations that may be chosen; the others compare models
    Model, ModelOf,
    Reference,      \* the model in use (e5)
    Baseline,       \* the configuration in use
    Outcome,        \* what may be measured of a configuration
    MaxCommands

Config == Range(Order)

(* c is the first of some configurations. *)
FirstOf(c, cs) ==
    c \in cs /\ \E i \in DOMAIN Order : Order[i] = c /\ \A j \in 1 .. i - 1 : Order[j] \notin cs

ExperimentAssumption ==
    /\ Operational \subseteq Config /\ Baseline \in Operational
    /\ ModelOf \in [Config -> Model] /\ Reference = ModelOf[Baseline]
    /\ Outcome \in [Config -> SUBSET [harm : BOOLEAN, complete : Nat, conditions : Nat]]
    /\ \A o \in Outcome[Baseline] : ~o.harm
    /\ MaxCommands \in Nat
    /\ {"none", "torn"} \cap Config = {}

VARIABLES
    inputs,     \* pages, dataset, models and the script: "first" or "edited"
    protocol,   \* the inputs it froze
    manifest,
    chunks,     \* the chunk file of each configuration
    vectors,    \* its vector file
    result,     \* its result of each split
    selection, lock, decision,
    pc,
    command,    \* the command running, "none" between two
    split,      \* the questions it scores
    models,     \* models it has still to run
    todo,       \* configurations of the present one
    item,       \* the one being measured
    commands    \* commands started

files == <<protocol, manifest, chunks, vectors, result, selection, lock, decision>>

vars == <<inputs, files, pc, command, split, models, todo, item, commands>>

Split == {"selection", "holdout"}

(* Files of one word: absent, torn, or what they say. *)
None == "none"

Torn == "torn"

NoResult == [state |-> None, harm |-> FALSE, complete |-> 0, conditions |-> 0, frozen |-> FALSE]

TornResult == [NoResult EXCEPT !.state = Torn]

Init ==
    /\ inputs = "first" /\ protocol = None /\ manifest = None
    /\ chunks = [c \in Config |-> None] /\ vectors = [c \in Config |-> None]
    /\ result = [c \in Config |-> [s \in Split |-> NoResult]]
    /\ selection = None /\ lock = None /\ decision = None
    /\ pc = "idle" /\ command = None /\ split = "selection"
    /\ models = {} /\ todo = {} /\ item = Baseline /\ commands = 0

Begins(name, next) ==
    /\ pc \in {"idle", "failed"} /\ commands < MaxCommands
    /\ command' = name /\ pc' = next /\ commands' = commands + 1

Ends == pc' = "idle" /\ command' = None

(* An exception; the files stay as they are. *)
Fails == pc' = "failed" /\ UNCHANGED command

-------------------------------------------------------------------------------
(* What is frozen, and when it still holds *)

LoadsInputs == protocol = inputs

ManifestHolds == manifest = "whole" /\ \A c \in Config : chunks[c] = "whole"

Edit ==
    /\ \/ inputs = "first" /\ inputs' = "edited" /\ UNCHANGED chunks
       \/ /\ \A c \in Config : chunks[c] # "edited"
          /\ \E c \in Config : chunks[c] = "whole" /\ chunks' = [chunks EXCEPT ![c] = "edited"]
          /\ UNCHANGED inputs
    /\ UNCHANGED <<protocol, manifest, vectors, result, selection, lock, decision, pc, command,
                   split, models, todo, item, commands>>

-------------------------------------------------------------------------------
(* freeze and prepare; an existing file, torn or not, ends them at once *)

Freeze ==
    /\ Begins("freeze", "freeze")
    /\ protocol = None
    /\ UNCHANGED <<inputs, files, split, models, todo, item>>

WriteProtocol ==
    /\ pc = "freeze"
    /\ protocol' = inputs
    /\ Ends
    /\ UNCHANGED <<inputs, manifest, chunks, vectors, result, selection, lock, decision, split,
                   models, todo, item, commands>>

Unprepared == {c \in Config : chunks[c] = None}

Prepare ==
    /\ Begins("prepare", "prepare")
    /\ LoadsInputs /\ Unprepared = Config
    /\ UNCHANGED <<inputs, files, split, models, todo, item>>

(* Chunk files come before the manifest that lists them. *)
WriteChunks ==
    /\ pc = "prepare"
    /\ \E c \in Config : FirstOf(c, Unprepared) /\ chunks' = [chunks EXCEPT ![c] = "whole"]
    /\ UNCHANGED <<inputs, protocol, manifest, vectors, result, selection, lock, decision, pc,
                   command, split, models, todo, item, commands>>

WriteManifest ==
    /\ pc = "prepare" /\ Unprepared = {}
    /\ manifest' = "whole"
    /\ Ends
    /\ UNCHANGED <<inputs, protocol, chunks, vectors, result, selection, lock, decision, split,
                   models, todo, item, commands>>

-------------------------------------------------------------------------------
(* run: one process per model, by hand, for run-all or for a validation *)

(* No tuning after the holdout was opened; no holdout before a selection.  *)
MayRun ==
    /\ LoadsInputs /\ ManifestHolds
    /\ IF split = "selection" THEN lock = None ELSE selection \in Config /\ lock = "whole"

Run ==
    /\ Begins("run", "child")
    /\ \/ \E m \in Model : models' = {m} /\ split' \in Split
       \/ models' = Model /\ split' = "selection"
    /\ UNCHANGED <<inputs, files, todo, item>>

Scored(m) ==
    {c \in Config : ModelOf[c] = m /\ (split = "holdout" => c \in {Baseline, selection})}

StartChild ==
    /\ pc = "child"
    /\ \E m \in models :
          IF MayRun
          THEN pc' = "run" /\ models' = models \ {m} /\ todo' = Scored(m) /\ UNCHANGED command
          ELSE Fails /\ UNCHANGED <<models, todo>>
    /\ UNCHANGED <<inputs, files, split, item, commands>>

EndChild ==
    /\ pc = "run" /\ todo = {}
    /\ pc' = (IF models # {} THEN "child" ELSE IF command = "validate" THEN "decide" ELSE "idle")
    /\ command' = (IF pc' = "idle" THEN None ELSE command)
    /\ UNCHANGED <<inputs, files, split, models, todo, item, commands>>

(* A result that exists is kept if its vectors are still there.  The       *)
(* holdout is scored with the vectors of the selection.                    *)
Take(c) ==
    IF result[c][split].state # None
    THEN IF result[c][split].state = "whole" /\ vectors[c] = "whole"
         THEN todo' = todo \ {c} /\ UNCHANGED <<pc, command, item>>
         ELSE Fails /\ UNCHANGED <<todo, item>>
    ELSE IF split = "selection" THEN pc' = "encode" /\ item' = c /\ UNCHANGED <<todo, command>>
    ELSE IF result[c]["selection"].state = "whole" /\ vectors[c] = "whole"
         THEN pc' = "score" /\ item' = c /\ UNCHANGED <<todo, command>>
         ELSE Fails /\ UNCHANGED <<todo, item>>

Measure ==
    /\ pc = "run"
    /\ \E c \in Config : FirstOf(c, todo) /\ Take(c)
    /\ UNCHANGED <<inputs, files, split, models, commands>>

(* Vectors of a run that died are written over. *)
SaveVectors ==
    /\ pc = "encode"
    /\ vectors' = [vectors EXCEPT ![item] = "whole"]
    /\ pc' = "score"
    /\ UNCHANGED <<inputs, protocol, manifest, chunks, result, selection, lock, decision, command,
                   split, models, todo, item, commands>>

(* Chunks are read after the manifest was checked, possibly much later.    *)
WriteResult ==
    /\ pc = "score"
    /\ \E o \in Outcome[item] :
          result' = [result EXCEPT ![item][split] =
              [state |-> "whole", harm |-> o.harm, complete |-> o.complete,
               conditions |-> o.conditions, frozen |-> chunks[item] = "whole"]]
    /\ todo' = todo \ {item} /\ pc' = "run"
    /\ UNCHANGED <<inputs, protocol, manifest, chunks, vectors, selection, lock, decision, command,
                   split, models, item, commands>>

-------------------------------------------------------------------------------
(* select *)

Measured(c) == result[c]["selection"]

(* Models whose common configuration harms no required question. *)
EligibleModels ==
    {Reference} \cup {m \in Model : \E c \in Config \ Operational :
                         ModelOf[c] = m /\ ~Measured(c).harm}

Eligible == {c \in Operational : ModelOf[c] \in EligibleModels /\ ~Measured(c).harm}

(* Complete evidence counts first, then conditions. *)
Ahead(a, b) ==
    a.complete > b.complete \/ (a.complete = b.complete /\ a.conditions > b.conditions)

(* Between equals, latency decides, which is any of them. *)
Best == {c \in Eligible : \A d \in Eligible : ~Ahead(Measured(d), Measured(c))}

(* Variant: a selection may be made again. *)
SelectAgain ==
    /\ Begins("select", "select")
    /\ LoadsInputs /\ ManifestHolds
    /\ \A c \in Config : Measured(c).state = "whole"
    /\ UNCHANGED <<inputs, files, split, models, todo, item>>

Select ==
    /\ Begins("select", "select")
    /\ LoadsInputs /\ ManifestHolds /\ lock = None /\ selection = None
    /\ \A c \in Config : Measured(c).state = "whole"
    /\ UNCHANGED <<inputs, files, split, models, todo, item>>

WriteSelection ==
    /\ pc = "select"
    /\ selection' \in Best
    /\ Ends
    /\ UNCHANGED <<inputs, protocol, manifest, chunks, vectors, result, lock, decision, split,
                   models, todo, item, commands>>

-------------------------------------------------------------------------------
(* validate *)

(* The first validation opens the holdout; one that died is resumed.       *)
Validate ==
    /\ selection \in Config
    /\ Begins("validate",
              IF LoadsInputs /\ ManifestHolds /\ decision = None /\ lock # Torn
              THEN IF lock = "whole" THEN "child" ELSE "lock"
              ELSE "failed")
    /\ split' = "holdout" /\ models' = {ModelOf[Baseline], ModelOf[selection]}
    /\ UNCHANGED <<inputs, files, todo, item>>

WriteLock ==
    /\ pc = "lock"
    /\ lock' = "whole"
    /\ pc' = "child"
    /\ UNCHANGED <<inputs, protocol, manifest, chunks, vectors, result, selection, decision,
                   command, split, models, todo, item, commands>>

(* Variant: the holdout is judged like the selection. *)
PassesAhead ==
    /\ ~result[selection]["holdout"].harm
    /\ ~Ahead(result[Baseline]["holdout"], result[selection]["holdout"])

(* Neither average may fall. *)
AtLeast(a, b) == a.complete >= b.complete /\ a.conditions >= b.conditions

Passes ==
    /\ ~result[selection]["holdout"].harm
    /\ AtLeast(result[selection]["holdout"], result[Baseline]["holdout"])

WriteDecision ==
    /\ pc = "decide"
    /\ decision' = (IF Passes THEN selection ELSE Baseline)
    /\ Ends
    /\ UNCHANGED <<inputs, protocol, manifest, chunks, vectors, result, selection, lock, split,
                   models, todo, item, commands>>

-------------------------------------------------------------------------------
(* The process dies; the file it was about to write is as it was, or torn. *)

Tears(at, file) == pc = at /\ file' = Torn

Crash ==
    /\ pc \notin {"idle", "failed"}
    /\ Ends
    /\ \/ UNCHANGED files
       \/ /\ Tears("freeze", protocol)
          /\ UNCHANGED <<manifest, chunks, vectors, result, selection, lock, decision>>
       \/ /\ pc = "prepare"
          /\ \E c \in Config : FirstOf(c, Unprepared) /\ chunks' = [chunks EXCEPT ![c] = Torn]
          /\ UNCHANGED <<protocol, manifest, vectors, result, selection, lock, decision>>
       \/ /\ Tears("prepare", manifest) /\ Unprepared = {}
          /\ UNCHANGED <<protocol, chunks, vectors, result, selection, lock, decision>>
       \/ /\ pc = "encode" /\ vectors' = [vectors EXCEPT ![item] = Torn]
          /\ UNCHANGED <<protocol, manifest, chunks, result, selection, lock, decision>>
       \/ /\ pc = "score" /\ result' = [result EXCEPT ![item][split] = TornResult]
          /\ UNCHANGED <<protocol, manifest, chunks, vectors, selection, lock, decision>>
       \/ /\ Tears("select", selection)
          /\ UNCHANGED <<protocol, manifest, chunks, vectors, result, lock, decision>>
       \/ /\ Tears("lock", lock)
          /\ UNCHANGED <<protocol, manifest, chunks, vectors, result, selection, decision>>
       \/ /\ Tears("decide", decision)
          /\ UNCHANGED <<protocol, manifest, chunks, vectors, result, selection, lock>>
    /\ UNCHANGED <<inputs, split, models, todo, item, commands>>

Next ==
    \/ Edit \/ Freeze \/ WriteProtocol \/ Prepare \/ WriteChunks \/ WriteManifest
    \/ Run \/ StartChild \/ EndChild \/ Measure \/ SaveVectors \/ WriteResult
    \/ Select \/ WriteSelection \/ Validate \/ WriteLock \/ WriteDecision \/ Crash

Spec == Init /\ [][Next]_vars

-------------------------------------------------------------------------------
(* Properties. *)

(* Every variable has its type, and a validation scores the holdout. *)
TypeOK ==
    /\ inputs \in {"first", "edited"} /\ protocol \in {None, Torn, "first", "edited"}
    /\ {manifest, lock} \subseteq {None, Torn, "whole"}
    /\ chunks \in [Config -> {None, Torn, "whole", "edited"}]
    /\ vectors \in [Config -> {None, Torn, "whole"}]
    /\ \A c \in Config, s \in Split :
          \/ result[c][s] \in {NoResult, TornResult}
          \/ \E o \in Outcome[c] : \A k \in DOMAIN o : result[c][s][k] = o[k]
    /\ {selection, decision} \subseteq Config \cup {None, Torn}
    /\ pc \in {"idle", "failed", "freeze", "prepare", "child", "run", "encode", "score",
               "select", "lock", "decide"}
    /\ command \in {None, "freeze", "prepare", "run", "select", "validate"}
    /\ split \in Split /\ (command = "validate" => split = "holdout") /\ models \subseteq Model /\ todo \subseteq Config /\ item \in Config
    /\ commands \in 0 .. MaxCommands

(* A configuration that replaces the baseline has passed every gate, its   *)
(* model's and its own, on both sets of questions, and was selected over   *)
(* the chunks that were frozen, whatever was edited or has died meanwhile. *)
(* (Chunks edited between a child's check and its reading of them are not  *)
(* noticed by the holdout, after which nothing looks at them again.)       *)
ChangeIsEarned ==
    decision \in Config \ {Baseline} =>
        /\ decision = selection /\ decision \in Operational /\ ~Measured(decision).harm
        /\ \/ ModelOf[decision] = Reference
           \/ \E c \in Config \ Operational :
                 ModelOf[c] = ModelOf[decision] /\ ~Measured(c).harm
        /\ \A c \in Config : Measured(c).frozen
        /\ ~result[decision]["holdout"].harm
        /\ result[decision]["holdout"].complete >= result[Baseline]["holdout"].complete
        /\ result[decision]["holdout"].conditions >= result[Baseline]["holdout"].conditions

(* The choice is made blind: when a holdout result appears, the selection  *)
(* is on file, and only the two configurations it compares are scored.     *)
HoldoutIsBlind ==
    /\ (\E c \in Config : result[c]["holdout"] # NoResult) =>
           selection \in Config /\ lock = "whole"
    /\ \A c \in Config \ {Baseline, selection} : result[c]["holdout"] = NoResult

(* Once the lock is on file, no step changes the choice, what it was made  *)
(* from, or a decision that was taken.                                     *)
KeepsChoice ==
    lock # None => /\ selection' = selection
                   /\ \A c \in Config : Measured(c)' = Measured(c)
                   /\ decision # None => decision' = decision

ChoiceIsFinal == [][KeepsChoice]_vars

TornJson ==
    \/ Torn \in {protocol, manifest, selection, lock, decision}
    \/ \E c \in Config : chunks[c] = Torn \/ \E s \in Split : result[c][s] = TornResult

(* As long as nothing was edited or torn, a command that died is made up   *)
(* for by giving it again: neither vectors nor results left behind stop    *)
(* it.                                                                     *)
DiedIsResumed ==
    pc = "failed" /\ ~TornJson /\ LoadsInputs /\ ManifestHolds =>
        \/ command = "run" /\ ~MayRun
        \/ command = "validate" /\ decision # None

(* What the files of an experiment allow to conclude.                      *)
ExperimentIsSound == TypeOK /\ ChangeIsEarned /\ HoldoutIsBlind /\ DiedIsResumed

===============================================================================
