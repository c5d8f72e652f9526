------------------------------ MODULE MCCommands ------------------------------
(* Commands and the directories they leave.  The configuration gives a run *)
(* three executions, each new or a resume, and two nodes (two can race     *)
(* while a third finds what they left; nothing tells the executions apart  *)
(* but what they do), and the commands that build, measure and reuse a     *)
(* search index two builders, of two settings over different pages.        *)
EXTENDS Naturals, TLC

CONSTANTS
    Processes,      \* Runtime: executions of a run,
    MaxNodes,       \* Supervisor steps
    Builders,       \* Index: commands at work at a time,
    Settings,       \* what they build,
    Pages,          \* over which source pages,
    MaxStarts,      \* commands started,
    MaxBaselines,   \* baselines put in place after the first
    FirstPages,     \* pages the first baseline may be of
    None, Partial, Mixed

VARIABLES
    part, basis, files, manifest, history, snapshot, summary, lock, pc,
    mode, own, alone, overtaken, calls, matrix, meta, shared,
    grade, baseline, baselines, record, temp, handle, overlap, disturbed,
    started, setting, vectors

all == <<part, basis, files, manifest, history, snapshot, summary, lock, pc,
          mode, own, alone, overtaken, calls, matrix, meta, shared,
          grade, baseline, baselines, record, temp, handle, overlap,
          disturbed, started, setting, vectors>>

Symmetry == Permutations(Processes)

(* Index: the settings have different pages, and are alike otherwise, so   *)
(* that the first baseline may as well be of the pages of one of them.     *)
MCPages == [s \in Settings |-> IF s = "s1" THEN "a" ELSE "b"]
MCFirstPages == {"a"}

-------------------------------------------------------------------------------

Runtime == INSTANCE Runtime WITH
    Process <- Processes

ASSUME RuntimeAssumption ==
    Runtime!MaxNodesAssumption /\ Runtime!ProcessAssumption

BesideRuntime == <<matrix, meta, shared, grade, baseline, baselines, record,
                   temp, handle, overlap, disturbed, started, setting,
                   vectors>>

Index == INSTANCE Index WITH
    Process <- Builders, Setting <- Settings

ASSUME IndexAssumption ==
    Index!SettingAssumption /\ Index!FileAssumption

BesideIndex == <<files, manifest, history, snapshot, summary, lock, mode,
                 own, alone, overtaken, calls>>

-------------------------------------------------------------------------------

(* The parts share no state: a behaviour is one of one part, beside which  *)
(* the variables of the others are unused.                                 *)
Unused == "unused"

Init ==
    \/ /\ part = "runtime" /\ Runtime!Init
       /\ matrix = Unused /\ meta = Unused /\ shared = Unused
       /\ grade = Unused /\ baseline = Unused /\ baselines = Unused
       /\ record = Unused /\ temp = Unused /\ handle = Unused
       /\ overlap = Unused /\ disturbed = Unused /\ started = Unused
       /\ setting = Unused /\ vectors = Unused
    \/ /\ part = "index" /\ Index!Init
       /\ baseline \in {None} \cup [pages : FirstPages, grade : 0 .. 1]
       /\ files = Unused /\ manifest = Unused /\ history = Unused
       /\ snapshot = Unused /\ summary = Unused /\ lock = Unused
       /\ mode = Unused /\ own = Unused /\ alone = Unused
       /\ overtaken = Unused /\ calls = Unused

Next ==
    \/ part = "runtime" /\ Runtime!Next /\ UNCHANGED <<part, BesideRuntime>>
    \/ part = "index" /\ Index!Next /\ UNCHANGED <<part, BesideIndex>>

Spec == Init /\ [][Next]_all

-------------------------------------------------------------------------------
(* Properties. *)

(* All calls of a run are paid from the ledger its manifest names, and     *)
(* made by the code it names, unless an update overtakes the execution; a  *)
(* run that has paid can be resumed; and a summary never says more than    *)
(* the checkpoint.                                                         *)
RunIsSound == part = "runtime" => Runtime!RunIsSound

(* A resume that has the directory to itself repairs the summary that an   *)
(* interrupted process left behind the checkpoint.                         *)
SummaryIsRepaired == [][part = "runtime" => Runtime!RepairsSummary]_all

(* Nothing is paid for unless the index that is searched was measured and  *)
(* answers as well as the baseline; the result file is replaced as a       *)
(* whole; and a build that is never cut short, alone, searches its own     *)
(* vectors.                                                                *)
IndexIsSound == part = "index" => Index!IndexIsSound

===============================================================================
