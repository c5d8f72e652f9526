-------------------------------- MODULE Runtime -------------------------------
(***************************************************************************)
(* execute_agent and run_team_agent of rag/agent_runtime.py: how processes *)
(* create the directory of one agent run, resume it, and share it.  The    *)
(* run lock is taken late, in Supervisor.run; everything before and the    *)
(* summary after it happen without it.  A process may crash at any step.   *)
(*                                                                         *)
(* What the Supervisor does under the lock is module Supervisor; here a    *)
(* node is a model call that is pending until it is over.  The basis of a  *)
(* run is the code it runs and the ledger it pays from, either of which    *)
(* may be another one by the time it is resumed, or while it is executing: *)
(* a process imports its modules before it computes the identity of the    *)
(* code on disk, and reads the prompt of the Supervisor from disk for      *)
(* every decision.                                                         *)
(***************************************************************************)
EXTENDS Integers, FiniteSets

CONSTANTS
    Process,    \* each executes the agent once, anew or as a resume
    MaxNodes    \* Supervisor steps of the run

MaxNodesAssumption == MaxNodes \in Nat \ {0}

Absent == "none"

ProcessAssumption == Absent \notin Process

VARIABLES
    basis,      \* the code on disk, prompts included, and the ledger at hand
    files,      \* what the run directory holds
    manifest,   \* the basis in manifest.json
    history,    \* the ledger in budget-history.json
    snapshot,   \* snapshot.json: code identity, status, pending, nodes completed
    summary,    \* the status in execution.json
    lock,       \* the holder of .run.lock
    pc,         \* where each process is
    mode,       \* "new", "resume"
    own,        \* the basis a process computed for itself
    alone,      \* history: no other process has been active beside it
    overtaken,  \* history: the code on disk has changed while it was active
    calls       \* history: model calls: the code, the ledger, overtaken or not

vars == <<basis, files, manifest, history, snapshot, summary, lock,
          pc, mode, own, alone, overtaken, calls>>

disk == <<files, manifest, history, snapshot, summary>>

local == <<mode, own, alone, overtaken>>

Code == {"old", "new"}

Basis == [code : Code, ledger : {"ledger", "other"}]

NoBasis == [code |-> Absent, ledger |-> Absent]

Terminal == {"completed", "incomplete", "needs_attention"}

Ended == {"rejected", "ended", "dead"}

Active(p) == pc[p] \notin Ended \cup {"idle"}

Forgets(p) ==
    /\ mode' = [mode EXCEPT ![p] = "new"]
    /\ own' = [own EXCEPT ![p] = NoBasis]
    /\ alone' = [alone EXCEPT ![p] = FALSE]
    /\ overtaken' = [overtaken EXCEPT ![p] = FALSE]

(* A process goes on to its next step, or is over and leaves no state. *)
Goes(p, next) ==
    /\ pc' = [pc EXCEPT ![p] = next]
    /\ IF next \in Ended THEN Forgets(p) ELSE UNCHANGED local

(* execution_identity: code, inputs, settings and the ledger. *)
Identity(b) == b

Free(p) == lock' = IF lock = p THEN Absent ELSE lock

-------------------------------------------------------------------------------
(* The world. *)

(* The code is updated, or rolled back. *)
Update ==
    /\ \E code \in Code \ {basis.code} : basis' = [basis EXCEPT !.code = code]
    /\ overtaken' = [p \in Process |-> Active(p)]
    /\ UNCHANGED <<disk, lock, pc, mode, own, alone, calls>>

(* The ledger is removed or replaced. *)
ReplaceLedger ==
    /\ basis.ledger = "ledger"
    /\ basis' = [basis EXCEPT !.ledger = "other"]
    /\ UNCHANGED <<disk, lock, pc, local, calls>>

(* A process dies; flock is freed with it. *)
Crash(p) ==
    /\ Active(p)
    /\ Goes(p, "dead")
    /\ Free(p)
    /\ UNCHANGED <<basis, disk, calls>>

(* A process is started, and imports the code that is on disk. *)
Begin(p) ==
    /\ pc[p] = "idle"
    /\ pc' = [pc EXCEPT ![p] = "open"]
    /\ \E m \in {"new", "resume"} : mode' = [mode EXCEPT ![p] = m]
    /\ alone' = [q \in Process |-> q = p /\ \A r \in Process : ~Active(r)]
    /\ UNCHANGED <<basis, disk, lock, own, overtaken, calls>>

-------------------------------------------------------------------------------
(* execute_agent: a new run. *)

(* execution_identity, computed for the manifest. *)
Opens(p, next) ==
    /\ pc' = [pc EXCEPT ![p] = next]
    /\ own' = [own EXCEPT ![p] = basis]
    /\ UNCHANGED <<mode, alone, overtaken>>

(* "Run directory exists"; the basis is computed, mkdir is exclusive. *)
OpenNew(p) ==
    /\ pc[p] = "open"
    /\ mode[p] = "new"
    /\ IF "directory" \in files THEN Goes(p, "rejected") ELSE Opens(p, "mkdir")
    /\ UNCHANGED <<basis, disk, lock, calls>>

Mkdir(p) ==
    /\ pc[p] = "mkdir"
    /\ IF "directory" \in files
       THEN Goes(p, "rejected") /\ UNCHANGED files
       ELSE Goes(p, "sources") /\ files' = files \cup {"directory"}
    /\ UNCHANGED <<basis, manifest, history, snapshot, summary, lock, calls>>

WriteSources(p) ==
    /\ pc[p] = "sources"
    /\ files' = files \cup {"sources"}
    /\ Goes(p, "manifest")
    /\ UNCHANGED <<basis, manifest, history, snapshot, summary, lock, calls>>

WriteManifest(p) ==
    /\ pc[p] = "manifest"
    /\ files' = files \cup {"manifest"}
    /\ manifest' = own[p]
    /\ Goes(p, "history")
    /\ UNCHANGED <<basis, history, snapshot, summary, lock, calls>>

-------------------------------------------------------------------------------
(* execute_agent: a resume. *)

(* Variant: only the ledger is compared with the manifest's. *)
OpenResumeAnyCode(p) ==
    /\ pc[p] = "open"
    /\ mode[p] = "resume"
    /\ IF {"sources", "manifest"} \subseteq files /\ manifest.ledger = basis.ledger
       THEN Opens(p, "history") ELSE Goes(p, "rejected")
    /\ UNCHANGED <<basis, disk, lock, calls>>

(* The manifest must be there, the ledger the one it names, the identity   *)
(* the present one and sources.json unchanged.                             *)
OpenResume(p) ==
    /\ pc[p] = "open"
    /\ mode[p] = "resume"
    /\ IF {"sources", "manifest"} \subseteq files
          /\ manifest.ledger = basis.ledger
          /\ Identity(manifest) = Identity(basis)
       THEN Opens(p, "history") ELSE Goes(p, "rejected")
    /\ UNCHANGED <<basis, disk, lock, calls>>

(* bind_history: a resume needs the history, and the ledger must continue  *)
(* it; then both are written.                                              *)
BindHistory(p) ==
    /\ pc[p] = "history"
    /\ IF /\ mode[p] = "resume" => "history" \in files
          /\ basis.ledger = own[p].ledger
          /\ "history" \in files => history = basis.ledger
       THEN /\ files' = files \cup {"history"}
            /\ history' = basis.ledger
            /\ Goes(p, IF mode[p] = "resume" THEN "load" ELSE "graph")
       ELSE Goes(p, "rejected") /\ UNCHANGED <<files, history>>
    /\ UNCHANGED <<basis, manifest, snapshot, summary, lock, calls>>

-------------------------------------------------------------------------------
(* run_team_agent. *)

(* The snapshot is read before the lock is taken.  It holds an identity of *)
(* the code, by which it can be refused, but of a part of the code only:   *)
(* an update of the rest goes unnoticed.                                   *)
Load(p) ==
    /\ pc[p] = "load"
    /\ \/ /\ "snapshot" \in files
          /\ Goes(p, "lock")
       \/ /\ "snapshot" \in files => snapshot.code # basis.code
          /\ Goes(p, "rejected")
    /\ UNCHANGED <<basis, disk, lock, calls>>

WriteGraph(p) ==
    /\ pc[p] = "graph"
    /\ Goes(p, IF "snapshot" \in files THEN "rejected" ELSE "lock")
    /\ UNCHANGED <<basis, disk, lock, calls>>

(* Supervisor.run: "another process is already executing this run". *)
Lock(p) ==
    /\ pc[p] = "lock"
    /\ IF lock = Absent
       THEN lock' = p /\ Goes(p, "enter")
       ELSE Goes(p, "rejected") /\ UNCHANGED lock
    /\ UNCHANGED <<basis, disk, calls>>

First == [code |-> basis.code, status |-> "running", pending |-> FALSE, nodes |-> 0]

(* Under the lock: a first snapshot, or a second look at the saved one.    *)
(* The identity is taken just before the lock: an update between the two   *)
(* is like one after both.                                                 *)
Enter(p) ==
    /\ pc[p] = "enter"
    /\ \/ /\ mode[p] = "new"
          /\ "snapshot" \notin files
          /\ files' = files \cup {"snapshot"}
          /\ snapshot' = First
          /\ Goes(p, "run")
          /\ UNCHANGED lock
       \/ /\ mode[p] = "resume"
          /\ snapshot' = IF snapshot.pending THEN [snapshot EXCEPT !.status = "needs_attention"]
                         ELSE snapshot
          /\ Goes(p, IF snapshot'.status = "running" THEN "run" ELSE "unlock")
          /\ UNCHANGED <<files, lock>>
       \/ /\ mode[p] = "resume"
          /\ snapshot.code # basis.code
          /\ Goes(p, "rejected")
          /\ Free(p)
          /\ UNCHANGED <<files, snapshot>>
    /\ UNCHANGED <<basis, manifest, history, summary, calls>>

(* A node: saved as pending, its call paid from the process's ledger. *)
StartNode(p) ==
    /\ pc[p] = "run"
    /\ snapshot.status = "running"
    /\ snapshot.nodes < MaxNodes
    /\ snapshot' = [snapshot EXCEPT !.pending = TRUE]
    /\ Goes(p, "node")
    /\ UNCHANGED <<basis, files, manifest, history, summary, lock, calls>>

(* What may make a call of p: the modules it imported when it began, and   *)
(* the prompt of a decision as it is on disk now.  They are of one code    *)
(* unless the disk has changed in between.                                 *)
CodeOf(p) == IF overtaken[p] THEN Code ELSE {basis.code}

(* A call, for which the ledger at hand is checked, and pays; any other    *)
(* end of the node.                                                        *)
EndNode(p) ==
    /\ pc[p] = "node"
    /\ IF basis.ledger = own[p].ledger
       THEN calls' = calls \cup {[code |-> CodeOf(p), ledger |-> basis.ledger,
                                  overtaken |-> overtaken[p]]}
       ELSE UNCHANGED calls
    /\ \E status \in {"running", "completed", "incomplete", "needs_attention"} :
          /\ basis.ledger # own[p].ledger => status = "incomplete"
          /\ snapshot' = [snapshot EXCEPT !.status = status, !.pending = status = "needs_attention",
                                          !.nodes = @ + 1]
    /\ Goes(p, "run")
    /\ UNCHANGED <<basis, files, manifest, history, summary, lock>>

(* The run is over, at its limit, or paused after any node. *)
Leave(p) ==
    /\ pc[p] = "run"
    /\ IF snapshot.status = "running" /\ snapshot.nodes = MaxNodes
       THEN snapshot' = [snapshot EXCEPT !.status = "incomplete"]
       ELSE UNCHANGED snapshot
    /\ Goes(p, "unlock")
    /\ UNCHANGED <<basis, files, manifest, history, summary, lock, calls>>

-------------------------------------------------------------------------------
(* execute_agent: the summary, after the lock. *)

(* The status is returned as it was under the lock; the process goes on    *)
(* with it to the summary.                                                 *)
Unlock(p) ==
    /\ pc[p] = "unlock"
    /\ Free(p)
    /\ Goes(p, snapshot.status)
    /\ UNCHANGED <<basis, disk, calls>>

(* Variant: only a missing summary, or one of a running run, is written. *)
WritesMissing(p) ==
    mode[p] = "new" \/ "summary" \notin files \/ pc[p] = "running"

(* A summary that already has the status is left alone. *)
Writes(p) ==
    \/ mode[p] = "new" \/ "summary" \notin files \/ pc[p] = "running"
    \/ summary # pc[p]

Summarise(p) ==
    /\ pc[p] \in Terminal \cup {"running"}
    /\ IF Writes(p)
       THEN files' = files \cup {"summary"} /\ summary' = pc[p]
       ELSE UNCHANGED <<files, summary>>
    /\ Goes(p, "ended")
    /\ UNCHANGED <<basis, manifest, history, snapshot, lock, calls>>

-------------------------------------------------------------------------------

Init ==
    /\ basis = [code |-> "old", ledger |-> "ledger"]
    /\ files = {}
    /\ manifest = NoBasis
    /\ history = Absent
    /\ snapshot = [code |-> Absent, status |-> Absent, pending |-> FALSE, nodes |-> 0]
    /\ summary = Absent
    /\ lock = Absent
    /\ pc = [p \in Process |-> "idle"]
    /\ mode = [p \in Process |-> "new"]
    /\ own = [p \in Process |-> NoBasis]
    /\ alone = [p \in Process |-> FALSE]
    /\ overtaken = [p \in Process |-> FALSE]
    /\ calls = {}

Step(p) ==
    \/ OpenNew(p) \/ Mkdir(p) \/ WriteSources(p) \/ WriteManifest(p)
    \/ OpenResume(p) \/ BindHistory(p)
    \/ Load(p) \/ WriteGraph(p) \/ Lock(p) \/ Enter(p)
    \/ StartNode(p) \/ EndNode(p) \/ Leave(p)
    \/ Unlock(p) \/ Summarise(p)

Next ==
    \/ Update \/ ReplaceLedger
    \/ \E p \in Process : Begin(p) \/ Step(p) \/ Crash(p)

Spec == Init /\ [][Next]_vars

-------------------------------------------------------------------------------
(* Properties. *)

(* Every variable has its type. *)
TypeOK ==
    /\ basis \in Basis
    /\ files \subseteq {"directory", "sources", "manifest", "history", "snapshot", "summary"}
    /\ manifest \in Basis \cup {NoBasis}
    /\ history \in {Absent, "ledger", "other"}
    /\ snapshot \in [code : Code \cup {Absent}, status : Terminal \cup {Absent, "running"},
                     pending : BOOLEAN, nodes : 0 .. MaxNodes]
    /\ summary \in Terminal \cup {Absent, "running"}
    /\ lock \in Process \cup {Absent}
    /\ pc \in [Process -> Ended \cup Terminal \cup
                  {"idle", "open", "mkdir", "sources", "manifest", "history", "load", "graph",
                   "lock", "enter", "run", "node", "unlock", "running"}]
    /\ mode \in [Process -> {"new", "resume"}]
    /\ own \in [Process -> Basis \cup {NoBasis}]
    /\ alone \in [Process -> BOOLEAN]
    /\ overtaken \in [Process -> BOOLEAN]
    /\ calls \subseteq [code : SUBSET Code, ledger : {"ledger", "other"}, overtaken : BOOLEAN]

(* However often a run is interrupted and resumed, all its calls are paid  *)
(* from the ledger its manifest names; and, whatever updates and rollbacks *)
(* come between the executions, made by the code its manifest names, by    *)
(* modules and prompts alike.  The code is compared when an execution is   *)
(* opened and not after: one that an update overtakes is excepted.         *)
OneBasisPerRun ==
    \A c \in calls :
        /\ c.ledger = manifest.ledger
        /\ ~c.overtaken => c.code = {manifest.code}

(* A run that has paid for anything has all that a resume asks for:        *)
(* whatever a crash left out of its directory, it left out before the      *)
(* first call.  (What an update beside its creation makes of the identity  *)
(* in its snapshot, Load and Enter have.)                                  *)
PaidIsResumable ==
    calls # {} =>
        /\ {"sources", "manifest", "history", "snapshot"} \subseteq files
        /\ history = manifest.ledger

(* A summary may lag behind the run, for it is written after the lock is   *)
(* released, but it never says more: a terminal status in execution.json,  *)
(* and with it human_review_pending, is that of the snapshot.              *)
SummaryIsTrue == summary \in Terminal => summary = snapshot.status

(* A resume that has the directory to itself repairs a summary that lags.  *)
RepairsSummary ==
    \A p \in Process :
        pc[p] # "ended" /\ pc'[p] = "ended" /\ alone[p] => summary' = snapshot.status

SummaryIsRepaired == [][RepairsSummary]_vars

(* What a run directory says of its run.                                   *)
RunIsSound == TypeOK /\ OneBasisPerRun /\ PaidIsResumable /\ SummaryIsTrue

===============================================================================
