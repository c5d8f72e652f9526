--------------------------------- MODULE Index --------------------------------
(***************************************************************************)
(* What stands before any paid call: Corpus.build of rag/corpus.py, which  *)
(* embeds the chunks or loads the vectors of an earlier build, and         *)
(* ensure_retrieval_regression of scripts/revalidate_retrieval.py, which   *)
(* compares what the index retrieves with a reviewed baseline, or reuses   *)
(* an earlier comparison.  Several commands share the index directory and  *)
(* the result file without a lock, and any of them may die.                *)
(*                                                                         *)
(* A setting stands for the chunks and the embedding profile; vectors are  *)
(* known by the setting they were computed for.  How well an index answers *)
(* the questions is one of two grades, decided when it is first measured.  *)
(***************************************************************************)
EXTENDS Integers, FiniteSets

CONSTANTS
    Process,
    Setting,
    Pages,          \* the source pages (and questions) of a setting
    MaxStarts,      \* commands started
    MaxBaselines,   \* baselines put in place after the first
    None,
    Partial,        \* a file that is being written, or was when its writer died
    Mixed           \* vectors of two writers in one file

SettingAssumption ==
    /\ {None, Partial, Mixed} \cap Setting = {}
    /\ DOMAIN Pages = Setting
    /\ MaxStarts \in Nat /\ MaxBaselines \in Nat

VARIABLES
    matrix,     \* vectors.npy
    meta,       \* index.json: the hash of a setting
    shared,     \* processes whose file another has open as well
    grade,      \* how the indexes measured so far answer the questions
    baseline,   \* eval/retrieval-baseline.json
    baselines,  \* baselines so far
    record,     \* the result file
    temp,       \* its temporary file, whose name is fixed
    handle,     \* which of the two a process is writing
    overlap,    \* two processes have used the temporary file at once
    disturbed,  \* a build was cut short, or two worked at once
    started,    \* commands started
    pc,         \* where each process is
    setting,    \* its setting
    vectors,    \* the vectors it searches
    basis       \* the baseline it compares with

index == <<matrix, meta, disturbed>>
files == <<record, temp, handle, overlap>>
gate == <<grade, baseline, baselines, files>>
vars == <<index, gate, shared, started, pc, setting, vectors, basis>>

Vectors == Setting \cup {Mixed}

Identity == [setting : Setting, vectors : Vectors]

Baseline == [pages : {Pages[s] : s \in Setting}, grade : 0 .. 1]

Record == [of : Identity, basis : Baseline]

(* What is no file, or no whole one, is told from every whole one. *)
FileAssumption ==
    /\ {None, Partial, Mixed} \cap (Record \cup Baseline \cup 0 .. 1) = {}
    /\ None \notin {"temp", "record", "gone"}
    /\ None # Partial /\ None # Mixed /\ Partial # Mixed

Ident(p) == [setting |-> setting[p], vectors |-> vectors[p]]

Goes(p, next) == pc' = [pc EXCEPT ![p] = next]

Init ==
    /\ matrix = None /\ meta = None /\ disturbed = FALSE /\ shared = {}
    /\ grade = [i \in Identity |-> None]
    /\ baseline \in Baseline \cup {None}
    /\ baselines = 0
    /\ record = None /\ temp = None /\ overlap = FALSE
    /\ handle = [p \in Process |-> None]
    /\ started = 0
    /\ pc = [p \in Process |-> "idle"]
    /\ setting = [p \in Process |-> None]
    /\ vectors = [p \in Process |-> None]
    /\ basis = [p \in Process |-> None]

Start(p) ==
    /\ pc[p] = "idle"
    /\ started < MaxStarts
    /\ started' = started + 1
    /\ \E s \in Setting : setting' = [setting EXCEPT ![p] = s]
    /\ Goes(p, "build")
    /\ UNCHANGED <<index, gate, shared, vectors, basis>>

Building(q) == pc[q] \in {"load", "encode", "saving", "saved"}

(* The process ends or dies; an open file stays as it is. *)
Exit(p) ==
    /\ pc[p] # "idle"
    /\ Goes(p, "idle")
    /\ disturbed' = (disturbed \/ pc[p] \in {"saving", "saved"})
    /\ handle' = [handle EXCEPT ![p] = None]
    /\ vectors' = [vectors EXCEPT ![p] = None]
    /\ basis' = [basis EXCEPT ![p] = None]
    /\ setting' = [setting EXCEPT ![p] = None]
    /\ shared' = shared \ {p}
    /\ UNCHANGED <<matrix, meta, grade, baseline, baselines, record, temp, overlap, started>>

-------------------------------------------------------------------------------
(* Corpus.build *)

(* Both files must be there, and index.json name the hash of this setting. *)
Find(p) ==
    /\ pc[p] = "build"
    /\ Goes(p, IF meta = setting[p] /\ matrix # None THEN "load" ELSE "encode")
    /\ disturbed' = (disturbed \/ \E q \in Process : Building(q))
    /\ UNCHANGED <<matrix, meta, gate, shared, started, setting, vectors, basis>>

(* A partial file does not load.  Vectors are not held against the hash.   *)
Load(p) ==
    /\ pc[p] = "load"
    /\ IF matrix = Partial
       THEN Goes(p, "failed") /\ UNCHANGED vectors
       ELSE Goes(p, "gate") /\ vectors' = [vectors EXCEPT ![p] = matrix]
    /\ UNCHANGED <<index, gate, shared, started, setting, basis>>

(* A file opened while others write it is shared by all of them. *)
Share(p, writers) ==
    shared' = IF writers = {} THEN shared \ {p} ELSE shared \cup writers \cup {p}

(* np.save truncates vectors.npy in place. *)
OpenMatrix(p) ==
    /\ pc[p] = "encode"
    /\ vectors' = [vectors EXCEPT ![p] = setting[p]]
    /\ matrix' = Partial
    /\ Share(p, {q \in Process : pc[q] = "saving" /\ setting[q] # setting[p]})
    /\ Goes(p, "saving")
    /\ UNCHANGED <<meta, disturbed, gate, started, setting, basis>>

CloseMatrix(p) ==
    /\ pc[p] = "saving"
    /\ \/ matrix' = setting[p]
       \/ p \in shared /\ matrix' = Mixed
    /\ Goes(p, "saved")
    /\ UNCHANGED <<meta, disturbed, gate, shared, started, setting, vectors, basis>>

SaveMeta(p) ==
    /\ pc[p] = "saved"
    /\ meta' = setting[p]
    /\ Goes(p, "gate")
    /\ UNCHANGED <<matrix, disturbed, gate, shared, started, setting, vectors, basis>>

-------------------------------------------------------------------------------
(* ensure_retrieval_regression *)

(* A reviewed baseline is put in place, under a path that is free again. *)
Approve ==
    /\ baselines < MaxBaselines
    /\ baselines' = baselines + 1
    /\ baseline' \in Baseline
    /\ UNCHANGED <<index, grade, files, shared, started, pc, setting, vectors, basis>>

(* Same pages and questions, and no question answered worse. *)
NoRegression(p) ==
    /\ Pages[setting[p]] = basis[p].pages
    /\ grade[Ident(p)] >= basis[p].grade

ReadBaseline(p) ==
    /\ pc[p] = "gate"
    /\ basis' = [basis EXCEPT ![p] = baseline]
    /\ Goes(p, IF baseline = None THEN "failed" ELSE "lookup")
    /\ UNCHANGED <<index, gate, shared, started, setting, vectors>>

(* Variant: the fingerprint leaves the vectors out. *)
ReadRecordOfSetting(p) ==
    /\ pc[p] = "lookup"
    /\ UNCHANGED <<index, gate, shared, started, setting, vectors, basis>>
    /\ Goes(p, IF record = Partial THEN "failed"
               ELSE IF record = None THEN "measure"
               ELSE IF record.of.setting # setting[p] \/ record.basis # basis[p] THEN "measure"
               ELSE IF Pages[setting[p]] = basis[p].pages /\ grade[record.of] >= basis[p].grade
               THEN "paying" ELSE "failed")

(* A record of this identity and baseline is compared again from its rows; *)
(* one that cannot be read ends the command; any other is replaced.        *)
ReadRecord(p) ==
    /\ pc[p] = "lookup"
    /\ UNCHANGED <<index, gate, shared, started, setting, vectors, basis>>
    /\ Goes(p, IF record = Partial THEN "failed"
               ELSE IF record # [of |-> Ident(p), basis |-> basis[p]] THEN "measure"
               ELSE IF NoRegression(p) THEN "paying" ELSE "failed")

(* The questions are asked.  Vectors of another setting may not even have  *)
(* as many rows as there are chunks.                                       *)
Measure(p) ==
    /\ pc[p] = "measure"
    /\ \/ /\ \E g \in IF grade[Ident(p)] = None THEN 0 .. 1 ELSE {grade[Ident(p)]} :
                grade' = [grade EXCEPT ![Ident(p)] = g]
          /\ Goes(p, "measured")
       \/ vectors[p] # setting[p] /\ Goes(p, "failed") /\ UNCHANGED grade
    /\ UNCHANGED <<index, baseline, baselines, files, shared, started, setting, vectors, basis>>

Using(q) == pc[q] \in {"writing", "written"} /\ handle[q] = "temp"

(* The temporary file has the same name for everyone. *)
OpenTemp(p) ==
    /\ pc[p] = "measured"
    /\ temp' = Partial
    /\ handle' = [handle EXCEPT ![p] = "temp"]
    /\ overlap' = (overlap \/ \E q \in Process : Using(q))
    /\ Share(p, {q \in Process : Using(q) /\ pc[q] = "writing"})
    /\ Goes(p, "writing")
    /\ UNCHANGED <<index, grade, baseline, baselines, record, started, setting, vectors, basis>>

(* What is written goes where the open file has been moved to meanwhile. *)
CloseTemp(p) ==
    /\ pc[p] = "writing"
    /\ \E content \in {[of |-> Ident(p), basis |-> basis[p]]} \cup (IF p \in shared THEN {Partial} ELSE {}) :
          /\ temp' = IF handle[p] = "temp" THEN content ELSE temp
          /\ record' = IF handle[p] = "record" THEN content ELSE record
    /\ Goes(p, "written")
    /\ UNCHANGED <<index, grade, baseline, baselines, handle, overlap, shared, started, setting, vectors, basis>>

(* Whoever comes second finds no temporary file. *)
Replace(p) ==
    /\ pc[p] = "written"
    /\ IF temp = None
       THEN Goes(p, "failed") /\ UNCHANGED <<record, temp, handle>>
       ELSE /\ record' = temp
            /\ temp' = None
            /\ handle' = [q \in Process |->
                  CASE q = p -> None [] q # p /\ handle[q] = "temp" -> "record"
                    [] q # p /\ handle[q] = "record" -> "gone" [] OTHER -> handle[q]]
            /\ Goes(p, IF NoRegression(p) THEN "paying" ELSE "failed")
    /\ UNCHANGED <<index, grade, baseline, baselines, overlap, shared, started, setting, vectors, basis>>

Next ==
    \/ Approve
    \/ \E p \in Process :
          \/ Start(p) \/ Exit(p)
          \/ Find(p) \/ Load(p) \/ OpenMatrix(p) \/ CloseMatrix(p) \/ SaveMeta(p)
          \/ ReadBaseline(p) \/ ReadRecord(p) \/ Measure(p)
          \/ OpenTemp(p) \/ CloseTemp(p) \/ Replace(p)

Spec == Init /\ [][Next]_vars

-------------------------------------------------------------------------------
(* Properties. *)

(* Every variable has its type. *)
TypeOK ==
    /\ matrix \in Vectors \cup {None, Partial}
    /\ meta \in Setting \cup {None}
    /\ shared \subseteq Process
    /\ grade \in [Identity -> (0 .. 1) \cup {None}]
    /\ baseline \in Baseline \cup {None}
    /\ baselines \in 0 .. MaxBaselines
    /\ record \in Record \cup {None, Partial}
    /\ temp \in Record \cup {None, Partial}
    /\ handle \in [Process -> {None, "temp", "record", "gone"}]
    /\ overlap \in BOOLEAN /\ disturbed \in BOOLEAN
    /\ started \in 0 .. MaxStarts
    /\ pc \in [Process -> {"idle", "build", "load", "encode", "saving", "saved", "gate", "lookup",
                           "measure", "measured", "writing", "written", "paying", "failed"}]
    /\ setting \in [Process -> Setting \cup {None}]
    /\ vectors \in [Process -> Vectors \cup {None}]
    /\ basis \in [Process -> Baseline \cup {None}]

(* Nothing is paid for unless the very index that is searched was measured *)
(* and answers as well as the baseline, on the same pages, whoever has     *)
(* written the result that was reused.                                     *)
PaidIsMeasured ==
    \A p \in Process : pc[p] = "paying" =>
        /\ grade[Ident(p)] # None
        /\ Pages[setting[p]] = basis[p].pages
        /\ grade[Ident(p)] >= basis[p].grade

(* The result file is replaced as a whole: a command that dies leaves the  *)
(* old one, unless two have used the temporary file at once.               *)
ResultIsWhole == record = Partial => overlap

(* A build that is never cut short, alone, searches the vectors of its own *)
(* chunks, whichever settings were built before.                           *)
VectorsAreOwn ==
    ~disturbed => \A p \in Process : vectors[p] \in {None, setting[p]}

(* What the search index and its gate let pass.                            *)
IndexIsSound == TypeOK /\ PaidIsMeasured /\ ResultIsWhole /\ VectorsAreOwn

===============================================================================
