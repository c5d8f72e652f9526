---------------------------- MODULE CommandsProofs ----------------------------
(***************************************************************************)
(* Proofs about the commands that module MCCommands checks side by side:   *)
(* the processes that create, resume and share the directory of one run,   *)
(* and those that build, measure and reuse the search index.               *)
(***************************************************************************)
EXTENDS MCCommands, TLAPS

-------------------------------------------------------------------------------
(* The directory of a run. *)

Locked == {"enter", "run", "node", "unlock"}

(* Where a process has left the manifest behind, and where the history.    *)
Bound == {"load", "graph", "lock", "running"} \cup Locked \cup Runtime!Terminal
Past  == Bound \cup {"history"}

(* Where it has computed its own basis. *)
Opened == Past \cup {"mkdir", "sources", "manifest"}

(* Whatever is there, what is written before it is there as well.          *)
FilesOK ==
    /\ "manifest" \in files =>
           {"directory", "sources"} \subseteq files /\ manifest \in Runtime!Basis
    /\ "history" \in files => "manifest" \in files /\ history = manifest.ledger
    /\ "snapshot" \in files => "history" \in files
    /\ "snapshot" \in files <=> snapshot.status # Runtime!Absent
    /\ snapshot.pending => snapshot.status \in {"running", "needs_attention"}
    /\ calls # {} => "snapshot" \in files

(* One process creates the run, and nobody gets past the manifest before   *)
(* it is there; all who did have computed the same basis.                  *)
CreatorOK(p) ==
    /\ pc[p] \in {"mkdir", "sources", "manifest", "graph"} => mode[p] = "new"
    /\ pc[p] \in {"mkdir", "sources", "manifest"} => own[p] \in Runtime!Basis
    /\ pc[p] \in {"sources", "manifest"} =>
           /\ "directory" \in files /\ "manifest" \notin files
           /\ \A q \in Processes : pc[q] \in {"sources", "manifest"} => q = p
    /\ pc[p] = "manifest" => "sources" \in files
    /\ pc[p] \in Past => "manifest" \in files /\ own[p] = manifest
    /\ pc[p] \in Bound => "history" \in files

(* The lock is held by whoever changes the snapshot; what a process has    *)
(* seen of an end under the lock stays true after it.                      *)
HolderOK(p) ==
    /\ pc[p] \in Locked => lock = p
    /\ pc[p] \in {"lock", "enter"} /\ mode[p] = "resume" => "snapshot" \in files
    /\ pc[p] \in {"run", "node", "unlock"} => "snapshot" \in files
    /\ pc[p] = "run" /\ snapshot.status = "running" => ~snapshot.pending
    /\ pc[p] = "node" => snapshot.status = "running" /\ snapshot.nodes < MaxNodes
    /\ pc[p] \in Runtime!Terminal => snapshot.status = pc[p]

(* Beside a process that is alone nobody is active. *)
AloneOK(p) ==
    alone[p] /\ Runtime!Active(p) =>
        /\ \A q \in Processes \ {p} : ~Runtime!Active(q)
        /\ pc[p] = "running" => snapshot.status = "running"

(* While the code on disk does not change, it is the code that a process   *)
(* has computed its basis from.                                            *)
CurrentOK(p) ==
    pc[p] \in Opened /\ ~overtaken[p] => own[p].code = basis.code

RunInv ==
    /\ Runtime!TypeOK
    /\ FilesOK
    /\ \A p \in Processes : CreatorOK(p) /\ HolderOK(p) /\ AloneOK(p) /\ CurrentOK(p)
    /\ Runtime!OneBasisPerRun
    /\ Runtime!SummaryIsTrue

(* A process goes on, or is over and forgotten. *)
Moves(p, next) ==
    /\ pc' = [pc EXCEPT ![p] = next]
    /\ mode' \in [Processes -> {"new", "resume"}]
    /\ own' \in [Processes -> Runtime!Basis \cup {Runtime!NoBasis}]
    /\ alone' \in [Processes -> BOOLEAN] /\ overtaken' \in [Processes -> BOOLEAN]
    /\ \A q \in Processes \ {p} :
          /\ mode'[q] = mode[q] /\ own'[q] = own[q]
          /\ alone'[q] = alone[q] /\ overtaken'[q] = overtaken[q]
    /\ next \notin Runtime!Ended =>
          mode'[p] = mode[p] /\ alone'[p] = alone[p] /\ overtaken'[p] = overtaken[p]

LEMMA GoesMoves ==
  ASSUME RunInv, NEW p \in Processes, NEW next, Runtime!Goes(p, next)
  PROVE  Moves(p, next) /\ (next \notin Runtime!Ended => own'[p] = own[p])
  <1>1. /\ mode \in [Processes -> {"new", "resume"}]
        /\ own \in [Processes -> Runtime!Basis \cup {Runtime!NoBasis}]
        /\ alone \in [Processes -> BOOLEAN] /\ overtaken \in [Processes -> BOOLEAN]
    BY DEF RunInv, Runtime!TypeOK
  <1>2. CASE next \in Runtime!Ended
    BY <1>1, <1>2 DEF Moves, Runtime!Goes, Runtime!Forgets
  <1>3. CASE next \notin Runtime!Ended
    BY <1>1, <1>3 DEF Moves, Runtime!Goes, Runtime!local
  <1> QED
    BY <1>2, <1>3

LEMMA OpensMoves ==
  ASSUME RunInv, NEW p \in Processes, NEW next, Runtime!Opens(p, next)
  PROVE  Moves(p, next) /\ own'[p] = basis
  <1>1. /\ mode \in [Processes -> {"new", "resume"}]
        /\ own \in [Processes -> Runtime!Basis \cup {Runtime!NoBasis}]
        /\ alone \in [Processes -> BOOLEAN] /\ overtaken \in [Processes -> BOOLEAN]
        /\ basis \in Runtime!Basis
    BY DEF RunInv, Runtime!TypeOK
  <1> QED
    BY <1>1 DEF Moves, Runtime!Opens

(* A step of p leaves the others where they are: nobody is inside of the   *)
(* manifest or under the lock beside it, and nobody is alone.              *)
LEMMA StepOfProcess ==
  ASSUME RunInv, NEW p \in Processes, NEW next, Moves(p, next), Runtime!Active(p),
         UNCHANGED basis,
         \/ own'[p] = basis \/ next \in Runtime!Ended
         \/ pc[p] \in Opened /\ own'[p] = own[p],
         files \subseteq files',
         "manifest" \in files' \/ manifest' # manifest =>
             ("manifest" \in files /\ manifest' = manifest) \/ pc[p] = "manifest",
         snapshot' = snapshot \/ pc[p] \in Locked,
         snapshot.status \in Runtime!Terminal => snapshot'.status = snapshot.status,
         \A q \in Processes \ {p} : lock = q => lock' = q,
         next \in {"sources", "manifest"} => pc[p] = "sources" \/ "directory" \notin files,
         next = "running" /\ alone[p] => snapshot'.status = "running",
         Runtime!TypeOK', FilesOK', CreatorOK(p)', HolderOK(p)',
         Runtime!OneBasisPerRun', Runtime!SummaryIsTrue'
  PROVE  RunInv'
  <1>1. pc'[p] = next /\ \A q \in Processes \ {p} : pc'[q] = pc[q]
    BY DEF RunInv, Runtime!TypeOK, Moves
  <1>2. CreatorOK(p) /\ HolderOK(p) /\ AloneOK(p) /\ CurrentOK(p)
    BY DEF RunInv
  <1>3. ASSUME NEW q \in Processes, q # p
        PROVE  CreatorOK(q)' /\ HolderOK(q)' /\ AloneOK(q)' /\ CurrentOK(q)'
    <2>1. /\ CreatorOK(q) /\ HolderOK(q) /\ AloneOK(q) /\ CurrentOK(q)
          /\ pc'[q] = pc[q] /\ own'[q] = own[q] /\ mode'[q] = mode[q] /\ alone'[q] = alone[q]
          /\ overtaken'[q] = overtaken[q]
      BY <1>1, <1>3 DEF RunInv, Moves
    <2>2. pc[q] \in {"sources", "manifest"} =>
              /\ "directory" \in files' /\ "manifest" \notin files'
              /\ \A r \in Processes : pc'[r] \in {"sources", "manifest"} => r = q
      <3>1. SUFFICES ASSUME pc[q] \in {"sources", "manifest"}
                     PROVE  /\ "directory" \in files' /\ "manifest" \notin files'
                            /\ \A r \in Processes : pc'[r] \in {"sources", "manifest"} => r = q
        OBVIOUS
      <3>2. /\ "directory" \in files /\ "manifest" \notin files
            /\ pc[p] \notin {"sources", "manifest"}
        BY <1>3, <2>1, <3>1 DEF CreatorOK
      <3>3. next \notin {"sources", "manifest"}
        BY <3>2
      <3>4. \A r \in Processes : pc'[r] \in {"sources", "manifest"} => r = q
        BY <1>1, <2>1, <3>1, <3>3 DEF CreatorOK
      <3> QED
        BY <3>2, <3>4
    <2>3. pc[q] \in Past => "manifest" \in files' /\ own[q] = manifest'
      BY <1>2, <2>1 DEF CreatorOK
    <2>4. CreatorOK(q)'
      BY <2>1, <2>2, <2>3 DEF CreatorOK
    <2>5. pc[q] \in Locked => lock' = q /\ snapshot' = snapshot
      BY <1>2, <1>3, <2>1 DEF HolderOK
    <2>6. HolderOK(q)'
      BY <2>1, <2>5 DEF HolderOK, Locked
    <2>7. AloneOK(q)'
      BY <1>3, <2>1 DEF AloneOK, Runtime!Active
    <2>8. CurrentOK(q)'
      BY <2>1 DEF CurrentOK
    <2> QED
      BY <2>4, <2>6, <2>7, <2>8
  <1>4. AloneOK(p)'
    BY <1>1, <1>2 DEF AloneOK, Runtime!Active, Moves
  <1>5. CurrentOK(p)'
    <2>1. CASE next \in Runtime!Ended
      BY <1>1, <2>1 DEF CurrentOK, Opened, Past, Bound, Locked, Runtime!Ended, Runtime!Terminal
    <2>2. CASE next \notin Runtime!Ended
      BY <1>1, <1>2, <2>2 DEF CurrentOK, Moves
    <2> QED
      BY <2>1, <2>2
  <1> QED
    BY <1>3, <1>4, <1>5 DEF RunInv

(* Steps that touch neither the directory nor what is known of the run.    *)
LEMMA LocalStep ==
  ASSUME RunInv, NEW p \in Processes, NEW next, Moves(p, next), Runtime!Active(p),
         UNCHANGED <<files, manifest, history, snapshot, summary, calls, basis>>,
         \/ own'[p] = basis \/ next \in Runtime!Ended
         \/ pc[p] \in Opened /\ own'[p] = own[p],
         lock' \in Processes \cup {Runtime!Absent},
         \A q \in Processes \ {p} : lock = q => lock' = q,
         next \in Runtime!Ended \cup {"mkdir", "history", "graph", "lock", "enter", "completed",
                                      "incomplete", "needs_attention", "running"},
         next = "running" /\ alone[p] => snapshot'.status = "running",
         CreatorOK(p)', HolderOK(p)'
  PROVE  RunInv'
  <1>1. Runtime!TypeOK'
    <2>1. pc' \in [Processes -> Runtime!Ended \cup Runtime!Terminal \cup
                     {"idle", "open", "mkdir", "sources", "manifest", "history", "load", "graph",
                      "lock", "enter", "run", "node", "unlock", "running"}]
      BY DEF RunInv, Runtime!TypeOK, Moves, Runtime!Terminal
    <2> QED
      BY <2>1 DEF RunInv, Runtime!TypeOK, Moves
  <1>2. FilesOK' /\ Runtime!OneBasisPerRun' /\ Runtime!SummaryIsTrue'
    BY DEF RunInv, FilesOK, Runtime!OneBasisPerRun, Runtime!SummaryIsTrue
  <1>3. next \notin {"sources", "manifest"}
    BY DEF Runtime!Ended
  <1> QED
    BY <1>1, <1>2, <1>3, StepOfProcess

LEMMA CrashRunInv ==
  ASSUME RunInv, NEW p \in Processes, Runtime!Crash(p)
  PROVE  RunInv'
  <1>1. /\ Runtime!Active(p) /\ Runtime!Goes(p, "dead")
        /\ UNCHANGED <<files, manifest, history, snapshot, summary, calls, basis>>
        /\ lock' = IF lock = p THEN Runtime!Absent ELSE lock
    BY DEF Runtime!Crash, Runtime!Free, Runtime!disk
  <1>2. pc'[p] = "dead"
    BY <1>1 DEF RunInv, Runtime!TypeOK, Runtime!Goes
  <1>3. CreatorOK(p)' /\ HolderOK(p)'
    BY <1>2 DEF CreatorOK, HolderOK, Past, Bound, Locked, Runtime!Terminal
  <1>4. /\ lock' \in Processes \cup {Runtime!Absent}
        /\ \A q \in Processes \ {p} : lock = q => lock' = q
    BY <1>1 DEF RunInv, Runtime!TypeOK
  <1>5. Moves(p, "dead") /\ "dead" \in Runtime!Ended
    BY <1>1, GoesMoves DEF Runtime!Ended
  <1> QED
    BY <1>1, <1>3, <1>4, <1>5, LocalStep

(* The executions that are opened: the basis of a resume is the manifest's. *)
LEMMA OpenRunInv ==
  ASSUME RunInv, NEW p \in Processes, Runtime!OpenNew(p) \/ Runtime!OpenResume(p)
  PROVE  RunInv'
  <1>1. /\ pc[p] = "open"
        /\ UNCHANGED <<files, manifest, history, snapshot, summary, calls, basis, lock>>
    BY DEF Runtime!OpenNew, Runtime!OpenResume, Runtime!disk
  <1>2. basis \in Runtime!Basis /\ lock \in Processes \cup {Runtime!Absent}
    BY DEF RunInv, Runtime!TypeOK
  <1>3. Runtime!Active(p)
    BY <1>1 DEF Runtime!Active, Runtime!Ended
  <1>4. CASE Runtime!Goes(p, "rejected")
    <2>1. pc'[p] = "rejected"
      BY <1>4 DEF RunInv, Runtime!TypeOK, Runtime!Goes
    <2>2. CreatorOK(p)' /\ HolderOK(p)'
      BY <2>1 DEF CreatorOK, HolderOK, Past, Bound, Locked, Runtime!Terminal
    <2>3. Moves(p, "rejected") /\ "rejected" \in Runtime!Ended
      BY <1>4, GoesMoves DEF Runtime!Ended
    <2> QED
      BY <1>1, <1>2, <1>3, <2>2, <2>3, LocalStep
  <1>5. CASE \E next \in {"mkdir", "history"} :
                /\ Runtime!Opens(p, next)
                /\ next = "mkdir" => mode[p] = "new"
                /\ next = "history" => "manifest" \in files /\ manifest = basis
    <2>1. PICK next \in {"mkdir", "history"} :
             /\ Runtime!Opens(p, next)
             /\ next = "mkdir" => mode[p] = "new"
             /\ next = "history" => "manifest" \in files /\ manifest = basis
      BY <1>5
    <2>2. Moves(p, next) /\ own'[p] = basis
      BY <2>1, OpensMoves
    <2>3. pc'[p] = next /\ mode'[p] = mode[p]
      BY <2>2 DEF RunInv, Runtime!TypeOK, Moves, Runtime!Ended
    <2>4. CreatorOK(p)' /\ HolderOK(p)'
      BY <1>1, <1>2, <2>1, <2>2, <2>3
         DEF CreatorOK, HolderOK, Past, Bound, Locked, Runtime!Terminal
    <2> QED
      BY <1>1, <1>2, <1>3, <2>1, <2>2, <2>4, LocalStep DEF Runtime!Ended
  <1> QED
    BY <1>4, <1>5 DEF Runtime!OpenNew, Runtime!OpenResume, Runtime!Identity

(* Toward the lock, and out of it. *)
LEMMA LoadRunInv ==
  ASSUME RunInv, NEW p \in Processes, Runtime!Load(p) \/ Runtime!WriteGraph(p)
  PROVE  RunInv'
  <1>1. PICK next \in {"rejected", "lock"} :
           /\ Runtime!Goes(p, next)
           /\ next = "lock" => "snapshot" \in files \/ pc[p] = "graph"
    BY DEF Runtime!Load, Runtime!WriteGraph
  <1>2. /\ pc[p] \in {"load", "graph"}
        /\ UNCHANGED <<files, manifest, history, snapshot, summary, calls, basis, lock>>
    BY DEF Runtime!Load, Runtime!WriteGraph, Runtime!disk
  <1>3. Moves(p, next) /\ (next \notin Runtime!Ended => own'[p] = own[p])
    BY <1>1, GoesMoves
  <1>4. /\ pc'[p] = next /\ CreatorOK(p)
        /\ next = "lock" => mode'[p] = mode[p] /\ own'[p] = own[p]
    BY <1>3 DEF RunInv, Runtime!TypeOK, Moves, Runtime!Ended
  <1>5. CreatorOK(p)' /\ HolderOK(p)'
    BY <1>1, <1>2, <1>4 DEF CreatorOK, HolderOK, Past, Bound, Locked, Runtime!Terminal
  <1>6. /\ Runtime!Active(p) /\ lock' \in Processes \cup {Runtime!Absent}
        /\ pc[p] \in Opened
    BY <1>2 DEF Runtime!Active, Runtime!Ended, RunInv, Runtime!TypeOK, Opened, Past, Bound
  <1>7. next \in Runtime!Ended \/ own'[p] = own[p]
    BY <1>3
  <1> QED
    BY <1>1, <1>2, <1>3, <1>5, <1>6, <1>7, LocalStep DEF Runtime!Ended

LEMMA LockRunInv ==
  ASSUME RunInv, NEW p \in Processes, Runtime!Lock(p) \/ Runtime!Unlock(p)
  PROVE  RunInv'
  <1>1. /\ UNCHANGED <<files, manifest, history, snapshot, summary, calls, basis>>
        /\ pc[p] \in {"lock", "unlock"}
    BY DEF Runtime!Lock, Runtime!Unlock, Runtime!disk
  <1>2. CreatorOK(p) /\ HolderOK(p) /\ Runtime!TypeOK /\ FilesOK
    BY DEF RunInv
  <1>3. PICK next \in Runtime!Terminal \cup {"rejected", "enter", "running"} :
           /\ Runtime!Goes(p, next)
           /\ next = "enter" => pc[p] = "lock" /\ lock' = p
           /\ next \in Runtime!Terminal \cup {"running"} =>
                  pc[p] = "unlock" /\ next = snapshot.status
    <2>1. CASE Runtime!Lock(p)
      BY <2>1 DEF Runtime!Lock, Runtime!Terminal
    <2>2. CASE Runtime!Unlock(p)
      <3>1. pc[p] = "unlock" /\ Runtime!Goes(p, snapshot.status)
        BY <2>2 DEF Runtime!Unlock
      <3>2. snapshot.status \in Runtime!Terminal \cup {"running"}
        BY <1>2, <3>1 DEF HolderOK, FilesOK, Runtime!TypeOK
      <3> QED
        BY <3>1, <3>2 DEF Runtime!Terminal
    <2> QED
      BY <2>1, <2>2
  <1>4. /\ lock' \in Processes \cup {Runtime!Absent}
        /\ \A q \in Processes \ {p} : lock = q => lock' = q
    BY <1>2, RuntimeAssumption
       DEF Runtime!Lock, Runtime!Unlock, Runtime!Free, Runtime!TypeOK, Runtime!ProcessAssumption
  <1>5. Moves(p, next) /\ (next \notin Runtime!Ended => own'[p] = own[p])
    BY <1>3, GoesMoves
  <1>6. /\ pc'[p] = next
        /\ next # "rejected" =>
               mode'[p] = mode[p] /\ own'[p] = own[p] /\ alone'[p] = alone[p]
    BY <1>2, <1>3, <1>5 DEF Runtime!TypeOK, Moves, Runtime!Ended, Runtime!Terminal
  <1>7. CreatorOK(p)' /\ HolderOK(p)'
    BY <1>1, <1>2, <1>3, <1>6 DEF CreatorOK, HolderOK, Past, Bound, Locked, Runtime!Terminal
  <1>8. Runtime!Active(p) /\ pc[p] \in Opened
    BY <1>1 DEF Runtime!Active, Runtime!Ended, Opened, Past, Bound, Locked
  <1>9. next = "running" /\ alone[p] => snapshot'.status = "running"
    BY <1>1, <1>3
  <1>10. next \in Runtime!Ended \/ own'[p] = own[p]
    BY <1>5
  <1> QED
    BY <1>1, <1>3, <1>4, <1>5, <1>7, <1>8, <1>9, <1>10, LocalStep
       DEF Runtime!Ended, Runtime!Terminal

-------------------------------------------------------------------------------
(* The steps that write the directory. *)

LEMMA PlaceType ==
  ASSUME RunInv, NEW p \in Processes, NEW next, Runtime!Goes(p, next),
         next \in Runtime!Ended \cup Runtime!Terminal \cup
                     {"sources", "manifest", "history", "load", "graph", "run", "node", "unlock"}
  PROVE  /\ pc' \in [Processes -> Runtime!Ended \cup Runtime!Terminal \cup
                        {"idle", "open", "mkdir", "sources", "manifest", "history", "load",
                         "graph", "lock", "enter", "run", "node", "unlock", "running"}]
         /\ pc'[p] = next /\ \A q \in Processes \ {p} : pc'[q] = pc[q]
         /\ mode' \in [Processes -> {"new", "resume"}]
         /\ own' \in [Processes -> Runtime!Basis \cup {Runtime!NoBasis}]
         /\ alone' \in [Processes -> BOOLEAN] /\ overtaken' \in [Processes -> BOOLEAN]
         /\ Moves(p, next)
         /\ next \notin Runtime!Ended => mode'[p] = mode[p] /\ own'[p] = own[p]
  <1>1. Moves(p, next) /\ (next \notin Runtime!Ended => own'[p] = own[p])
    BY GoesMoves
  <1> QED
    BY <1>1 DEF RunInv, Runtime!TypeOK, Moves

LEMMA MkdirRunInv ==
  ASSUME RunInv, NEW p \in Processes, Runtime!Mkdir(p)
  PROVE  RunInv'
  <1>1. PICK next \in {"rejected", "sources"} :
           /\ Runtime!Goes(p, next)
           /\ IF next = "sources" THEN files' = files \cup {"directory"} ELSE files' = files
           /\ next = "sources" => "directory" \notin files
    BY DEF Runtime!Mkdir
  <1>2. /\ pc[p] = "mkdir"
        /\ UNCHANGED <<basis, manifest, history, snapshot, summary, lock, calls>>
    BY DEF Runtime!Mkdir
  <1>3. /\ Runtime!TypeOK /\ FilesOK /\ CreatorOK(p) /\ HolderOK(p)
        /\ Runtime!OneBasisPerRun /\ Runtime!SummaryIsTrue
    BY DEF RunInv
  <1>4. /\ pc' \in [Processes -> Runtime!Ended \cup Runtime!Terminal \cup
                       {"idle", "open", "mkdir", "sources", "manifest", "history", "load",
                        "graph", "lock", "enter", "run", "node", "unlock", "running"}]
        /\ pc'[p] = next /\ \A q \in Processes \ {p} : pc'[q] = pc[q]
        /\ mode' \in [Processes -> {"new", "resume"}]
        /\ own' \in [Processes -> Runtime!Basis \cup {Runtime!NoBasis}]
        /\ alone' \in [Processes -> BOOLEAN] /\ overtaken' \in [Processes -> BOOLEAN]
        /\ Moves(p, next)
        /\ next \notin Runtime!Ended => mode'[p] = mode[p] /\ own'[p] = own[p]
    <2>1. next \in Runtime!Ended \cup {"sources"}
      BY <1>1 DEF Runtime!Ended
    <2> QED
      BY <1>1, <2>1, PlaceType
  <1>5. Runtime!TypeOK'
    BY <1>1, <1>2, <1>3, <1>4 DEF Runtime!TypeOK
  <1>6. FilesOK'
    BY <1>1, <1>2, <1>3 DEF FilesOK
  <1>7. CreatorOK(p)' /\ HolderOK(p)'
    <2>1. next = "sources" =>
             /\ "directory" \in files' /\ "manifest" \notin files'
             /\ \A q \in Processes : pc'[q] \in {"sources", "manifest"} => q = p
      BY <1>1, <1>3, <1>4 DEF RunInv, FilesOK, CreatorOK
    <2> QED
      BY <1>1, <1>2, <1>3, <1>4, <2>1
         DEF CreatorOK, HolderOK, Past, Bound, Locked, Runtime!Terminal, Runtime!Ended
  <1>8. Runtime!OneBasisPerRun' /\ Runtime!SummaryIsTrue'
    BY <1>2, <1>3 DEF Runtime!OneBasisPerRun, Runtime!SummaryIsTrue
  <1>9. /\ Runtime!Active(p) /\ files \subseteq files'
        /\ "manifest" \in files' => "manifest" \in files
    BY <1>1, <1>2 DEF Runtime!Active, Runtime!Ended
  <1>10. next \in Runtime!Ended \/ (pc[p] \in Opened /\ own'[p] = own[p])
    BY <1>2, <1>4 DEF Opened
  <1> QED
    BY <1>1, <1>2, <1>4, <1>5, <1>6, <1>7, <1>8, <1>9, <1>10, StepOfProcess

(* The sources are there before the manifest names the run. *)
LEMMA WriteRunInv ==
  ASSUME RunInv, NEW p \in Processes, Runtime!WriteSources(p) \/ Runtime!WriteManifest(p)
  PROVE  RunInv'
  <1>1. /\ pc[p] \in {"sources", "manifest"}
        /\ UNCHANGED <<basis, history, snapshot, summary, lock, calls>>
    BY DEF Runtime!WriteSources, Runtime!WriteManifest
  <1>2. /\ Runtime!TypeOK /\ FilesOK /\ CreatorOK(p) /\ HolderOK(p)
        /\ Runtime!OneBasisPerRun /\ Runtime!SummaryIsTrue
    BY DEF RunInv
  <1>3. PICK next \in {"manifest", "history"} :
           /\ Runtime!Goes(p, next)
           /\ next = "manifest" => /\ pc[p] = "sources" /\ manifest' = manifest
                                   /\ files' = files \cup {"sources"}
           /\ next = "history" => /\ pc[p] = "manifest" /\ manifest' = own[p]
                                  /\ files' = files \cup {"manifest"}
    BY DEF Runtime!WriteSources, Runtime!WriteManifest
  <1>4. /\ pc' \in [Processes -> Runtime!Ended \cup Runtime!Terminal \cup
                       {"idle", "open", "mkdir", "sources", "manifest", "history", "load",
                        "graph", "lock", "enter", "run", "node", "unlock", "running"}]
        /\ pc'[p] = next /\ \A q \in Processes \ {p} : pc'[q] = pc[q]
        /\ mode' \in [Processes -> {"new", "resume"}]
        /\ own' \in [Processes -> Runtime!Basis \cup {Runtime!NoBasis}]
        /\ alone' \in [Processes -> BOOLEAN] /\ overtaken' \in [Processes -> BOOLEAN]
        /\ Moves(p, next)
        /\ next \notin Runtime!Ended => mode'[p] = mode[p] /\ own'[p] = own[p]
    BY <1>3, PlaceType
  <1>5. /\ "directory" \in files /\ "manifest" \notin files /\ own[p] \in Runtime!Basis
        /\ "history" \notin files /\ "snapshot" \notin files /\ calls = {}
        /\ pc[p] = "manifest" => "sources" \in files
    BY <1>1, <1>2 DEF CreatorOK, FilesOK
  <1>6. Runtime!TypeOK'
    BY <1>1, <1>2, <1>3, <1>4, <1>5 DEF Runtime!TypeOK
  <1>7. FilesOK'
    BY <1>1, <1>2, <1>3, <1>5 DEF FilesOK
  <1>8. CreatorOK(p)'
    <2>1. next = "manifest" => \A q \in Processes : pc'[q] \in {"sources", "manifest"} => q = p
      BY <1>1, <1>2, <1>4 DEF CreatorOK
    <2> QED
      BY <1>1, <1>2, <1>3, <1>4, <1>5, <2>1
         DEF CreatorOK, Past, Bound, Locked, Runtime!Terminal, Runtime!Ended
  <1>9. HolderOK(p)'
    BY <1>3, <1>4 DEF HolderOK, Locked, Runtime!Terminal
  <1>10. Runtime!OneBasisPerRun' /\ Runtime!SummaryIsTrue'
    BY <1>1, <1>2, <1>5 DEF Runtime!OneBasisPerRun, Runtime!SummaryIsTrue
  <1>11. Runtime!Active(p) /\ files \subseteq files'
    BY <1>1, <1>3 DEF Runtime!Active, Runtime!Ended
  <1>12. "manifest" \in files' \/ manifest' # manifest =>
             ("manifest" \in files /\ manifest' = manifest) \/ pc[p] = "manifest"
    BY <1>3, <1>5
  <1>13. pc[p] \in Opened /\ own'[p] = own[p]
    BY <1>1, <1>3, <1>4 DEF Opened, Runtime!Ended
  <1> QED
    BY <1>1, <1>3, <1>4, <1>6, <1>7, <1>8, <1>9, <1>10, <1>11, <1>12, <1>13, StepOfProcess

(* The history names the ledger that the manifest names. *)
LEMMA HistoryRunInv ==
  ASSUME RunInv, NEW p \in Processes, Runtime!BindHistory(p)
  PROVE  RunInv'
  <1>1. PICK next \in {"rejected", "load", "graph"} :
           /\ Runtime!Goes(p, next)
           /\ IF next = "rejected" THEN UNCHANGED <<files, history>>
              ELSE /\ basis.ledger = own[p].ledger
                   /\ files' = files \cup {"history"} /\ history' = basis.ledger
           /\ next = "graph" => mode[p] # "resume"
    BY DEF Runtime!BindHistory
  <1>2. /\ pc[p] = "history"
        /\ UNCHANGED <<basis, manifest, snapshot, summary, lock, calls>>
    BY DEF Runtime!BindHistory
  <1>3. /\ Runtime!TypeOK /\ FilesOK /\ CreatorOK(p) /\ HolderOK(p)
        /\ Runtime!OneBasisPerRun /\ Runtime!SummaryIsTrue
    BY DEF RunInv
  <1>4. /\ pc' \in [Processes -> Runtime!Ended \cup Runtime!Terminal \cup
                       {"idle", "open", "mkdir", "sources", "manifest", "history", "load",
                        "graph", "lock", "enter", "run", "node", "unlock", "running"}]
        /\ pc'[p] = next
        /\ mode' \in [Processes -> {"new", "resume"}]
        /\ own' \in [Processes -> Runtime!Basis \cup {Runtime!NoBasis}]
        /\ alone' \in [Processes -> BOOLEAN] /\ overtaken' \in [Processes -> BOOLEAN]
        /\ Moves(p, next)
        /\ next \notin Runtime!Ended => mode'[p] = mode[p] /\ own'[p] = own[p]
    <2>1. next \in Runtime!Ended \cup {"load", "graph"}
      BY <1>1 DEF Runtime!Ended
    <2> QED
      BY <1>1, <2>1, PlaceType
  <1>5. /\ "manifest" \in files /\ own[p] = manifest /\ basis.ledger \in {"ledger", "other"}
    BY <1>2, <1>3 DEF CreatorOK, Past, Runtime!TypeOK, Runtime!Basis
  <1>6. Runtime!TypeOK'
    BY <1>1, <1>2, <1>3, <1>4, <1>5 DEF Runtime!TypeOK
  <1>7. FilesOK'
    BY <1>1, <1>2, <1>3, <1>5 DEF FilesOK
  <1>8. mode[p] \in {"new", "resume"}
    BY <1>3 DEF Runtime!TypeOK
  <1>9. CreatorOK(p)' /\ HolderOK(p)'
    BY <1>1, <1>2, <1>3, <1>4, <1>5, <1>8
       DEF CreatorOK, HolderOK, Past, Bound, Locked, Runtime!Terminal, Runtime!Ended
  <1>10. Runtime!OneBasisPerRun' /\ Runtime!SummaryIsTrue'
    BY <1>2, <1>3 DEF Runtime!OneBasisPerRun, Runtime!SummaryIsTrue
  <1>11. Runtime!Active(p) /\ files \subseteq files'
    BY <1>1, <1>2 DEF Runtime!Active, Runtime!Ended
  <1>12. next \in Runtime!Ended \/ (pc[p] \in Opened /\ own'[p] = own[p])
    BY <1>2, <1>4 DEF Opened, Past
  <1> QED
    BY <1>1, <1>2, <1>4, <1>5, <1>6, <1>7, <1>9, <1>10, <1>11, <1>12, StepOfProcess

(* A summary is the status that was seen under the lock. *)
LEMMA SummariseRunInv ==
  ASSUME RunInv, NEW p \in Processes, Runtime!Summarise(p)
  PROVE  RunInv'
  <1>1. /\ pc[p] \in Runtime!Terminal \cup {"running"} /\ Runtime!Goes(p, "ended")
        /\ \/ files' = files \cup {"summary"} /\ summary' = pc[p]
           \/ UNCHANGED <<files, summary>>
        /\ UNCHANGED <<basis, manifest, history, snapshot, lock, calls>>
    BY DEF Runtime!Summarise
  <1>2. /\ Runtime!TypeOK /\ FilesOK /\ CreatorOK(p) /\ HolderOK(p)
        /\ Runtime!OneBasisPerRun /\ Runtime!SummaryIsTrue
    BY DEF RunInv
  <1>3. "ended" \in Runtime!Ended
    BY DEF Runtime!Ended
  <1>4. /\ pc' \in [Processes -> Runtime!Ended \cup Runtime!Terminal \cup
                       {"idle", "open", "mkdir", "sources", "manifest", "history", "load",
                        "graph", "lock", "enter", "run", "node", "unlock", "running"}]
        /\ pc'[p] = "ended"
        /\ mode' \in [Processes -> {"new", "resume"}]
        /\ own' \in [Processes -> Runtime!Basis \cup {Runtime!NoBasis}]
        /\ alone' \in [Processes -> BOOLEAN] /\ overtaken' \in [Processes -> BOOLEAN]
        /\ Moves(p, "ended")
    BY <1>1, <1>3, PlaceType
  <1>5. Runtime!TypeOK'
    <2>1. summary' \in Runtime!Terminal \cup {Runtime!Absent, "running"}
      BY <1>1, <1>2 DEF Runtime!TypeOK
    <2>2. files' \subseteq {"directory", "sources", "manifest", "history", "snapshot", "summary"}
      BY <1>1, <1>2 DEF Runtime!TypeOK
    <2> QED
      BY <1>1, <1>2, <1>4, <2>1, <2>2 DEF Runtime!TypeOK
  <1>6. FilesOK'
    BY <1>1, <1>2 DEF FilesOK
  <1>7. CreatorOK(p)' /\ HolderOK(p)'
    BY <1>4 DEF CreatorOK, HolderOK, Past, Bound, Locked, Runtime!Terminal
  <1>8. Runtime!OneBasisPerRun' /\ Runtime!SummaryIsTrue'
    BY <1>1, <1>2 DEF Runtime!OneBasisPerRun, Runtime!SummaryIsTrue, HolderOK, Runtime!Terminal
  <1>9. /\ Runtime!Active(p) /\ files \subseteq files'
        /\ "manifest" \in files' => "manifest" \in files
    BY <1>1 DEF Runtime!Active, Runtime!Ended, Runtime!Terminal
  <1> QED
    BY <1>1, <1>3, <1>4, <1>5, <1>6, <1>7, <1>8, <1>9, StepOfProcess

-------------------------------------------------------------------------------
(* The steps under the lock. *)

LEMMA HeldStep ==
  ASSUME RunInv, NEW p \in Processes, pc[p] \in Locked, NEW next, Runtime!Goes(p, next),
         next \in {"run", "node", "unlock"},
         UNCHANGED <<basis, manifest, history, summary, lock>>,
         files' = files \cup {"snapshot"},
         snapshot' \in [code : Runtime!Code \cup {Runtime!Absent},
                        status : Runtime!Terminal \cup {"running"},
                        pending : BOOLEAN, nodes : 0 .. MaxNodes],
         snapshot'.pending => snapshot'.status \in {"running", "needs_attention"},
         snapshot.status \in Runtime!Terminal => snapshot'.status = snapshot.status,
         next = "run" /\ snapshot'.status = "running" => ~snapshot'.pending,
         next = "node" => snapshot'.status = "running" /\ snapshot'.nodes < MaxNodes,
         \/ calls' = calls
         \/ /\ basis.ledger = own[p].ledger
            /\ calls' = calls \cup {[code |-> Runtime!CodeOf(p), ledger |-> basis.ledger,
                                     overtaken |-> overtaken[p]]}
  PROVE  RunInv'
  <1>1. /\ Runtime!TypeOK /\ FilesOK /\ CreatorOK(p) /\ HolderOK(p) /\ CurrentOK(p)
        /\ Runtime!OneBasisPerRun /\ Runtime!SummaryIsTrue
    BY DEF RunInv
  <1>2. /\ pc' \in [Processes -> Runtime!Ended \cup Runtime!Terminal \cup
                       {"idle", "open", "mkdir", "sources", "manifest", "history", "load",
                        "graph", "lock", "enter", "run", "node", "unlock", "running"}]
        /\ pc'[p] = next
        /\ mode' \in [Processes -> {"new", "resume"}]
        /\ own' \in [Processes -> Runtime!Basis \cup {Runtime!NoBasis}]
        /\ alone' \in [Processes -> BOOLEAN] /\ overtaken' \in [Processes -> BOOLEAN]
        /\ Moves(p, next)
        /\ next \notin Runtime!Ended => mode'[p] = mode[p] /\ own'[p] = own[p]
    BY PlaceType
  <1>3. /\ "manifest" \in files /\ "history" \in files /\ own[p] = manifest
        /\ manifest \in Runtime!Basis /\ overtaken[p] \in BOOLEAN /\ basis \in Runtime!Basis
    BY <1>1 DEF CreatorOK, FilesOK, Past, Bound, Runtime!TypeOK
  <1>4. ~overtaken[p] => Runtime!CodeOf(p) = {manifest.code}
    BY <1>1, <1>3 DEF CurrentOK, Opened, Past, Bound, Runtime!CodeOf
  <1>5. /\ Runtime!OneBasisPerRun'
        /\ calls' \subseteq [code : SUBSET Runtime!Code, ledger : {"ledger", "other"},
                             overtaken : BOOLEAN]
    <2>1. /\ Runtime!CodeOf(p) \subseteq Runtime!Code
          /\ basis.ledger \in {"ledger", "other"}
      BY <1>3 DEF Runtime!CodeOf, Runtime!Basis
    <2>2. \A c \in calls' :
             \/ c \in calls
             \/ /\ c = [code |-> Runtime!CodeOf(p), ledger |-> basis.ledger,
                        overtaken |-> overtaken[p]]
                /\ basis.ledger = manifest.ledger
      BY <1>3
    <2>3. calls' \subseteq [code : SUBSET Runtime!Code, ledger : {"ledger", "other"},
                            overtaken : BOOLEAN]
      BY <1>1, <1>3, <2>1, <2>2 DEF Runtime!TypeOK
    <2> QED
      BY <1>1, <1>4, <2>2, <2>3 DEF Runtime!OneBasisPerRun
  <1>6. Runtime!TypeOK'
    BY <1>1, <1>2, <1>5 DEF Runtime!TypeOK
  <1>7. snapshot'.status \in Runtime!Terminal \cup {"running"}
    OBVIOUS
  <1>8. FilesOK'
    BY <1>1, <1>3, <1>7 DEF FilesOK, Runtime!Terminal, Runtime!Absent
  <1>9. CreatorOK(p)'
    BY <1>1, <1>2, <1>3 DEF CreatorOK, Past, Bound, Locked, Runtime!Ended
  <1>10. HolderOK(p)'
    BY <1>1, <1>2 DEF HolderOK, Locked, Runtime!Terminal
  <1>11. Runtime!SummaryIsTrue'
    BY <1>1 DEF Runtime!SummaryIsTrue
  <1>12. Runtime!Active(p) /\ files \subseteq files'
    BY DEF Runtime!Active, Runtime!Ended, Locked
  <1>13. pc[p] \in Opened /\ own'[p] = own[p]
    BY <1>2 DEF Opened, Past, Bound, Runtime!Ended
  <1> QED
    BY <1>2, <1>3, <1>5, <1>6, <1>8, <1>9, <1>10, <1>11, <1>12, <1>13, StepOfProcess

(* The first snapshot, or the mark of a node that was interrupted. *)
LEMMA EnterRunInv ==
  ASSUME RunInv, NEW p \in Processes, Runtime!Enter(p)
  PROVE  RunInv'
  <1>1. /\ pc[p] = "enter" /\ pc[p] \in Locked
        /\ UNCHANGED <<basis, manifest, history, summary, calls>>
    BY DEF Runtime!Enter, Locked
  <1>2. Runtime!TypeOK /\ FilesOK /\ HolderOK(p)
    BY DEF RunInv
  <1>3. MaxNodes \in Nat \ {0}
    BY RuntimeAssumption DEF Runtime!MaxNodesAssumption
  <1>4. CASE /\ "snapshot" \notin files /\ files' = files \cup {"snapshot"}
             /\ snapshot' = Runtime!First
             /\ Runtime!Goes(p, "run") /\ UNCHANGED lock
    <2>1. snapshot' \in [code : Runtime!Code \cup {Runtime!Absent},
                         status : Runtime!Terminal \cup {"running"},
                         pending : BOOLEAN, nodes : 0 .. MaxNodes]
      BY <1>2, <1>3, <1>4 DEF Runtime!First, Runtime!TypeOK, Runtime!Basis
    <2>2. snapshot.status \notin Runtime!Terminal /\ snapshot'.status = "running"
      BY <1>2, <1>4 DEF FilesOK, Runtime!Absent, Runtime!Terminal, Runtime!First
    <2>3. ~snapshot'.pending /\ snapshot'.status = "running"
      BY <1>4 DEF Runtime!First
    <2> QED
      BY <1>1, <1>4, <2>1, <2>2, <2>3, HeldStep
  <1>5. CASE /\ mode[p] = "resume" /\ UNCHANGED <<files, lock>>
             /\ snapshot' = IF snapshot.pending
                            THEN [snapshot EXCEPT !.status = "needs_attention"] ELSE snapshot
             /\ Runtime!Goes(p, IF snapshot'.status = "running" THEN "run" ELSE "unlock")
    <2>1. "snapshot" \in files /\ files' = files \cup {"snapshot"}
      BY <1>1, <1>2, <1>5 DEF HolderOK
    <2>2. snapshot \in [code : Runtime!Code \cup {Runtime!Absent},
                        status : Runtime!Terminal \cup {"running"},
                        pending : BOOLEAN, nodes : 0 .. MaxNodes]
      BY <1>2, <2>1 DEF Runtime!TypeOK, FilesOK
    <2>3. snapshot.pending => snapshot.status \in {"running", "needs_attention"}
      BY <1>2 DEF FilesOK
    <2>4. /\ snapshot' \in [code : Runtime!Code \cup {Runtime!Absent},
                            status : Runtime!Terminal \cup {"running"},
                            pending : BOOLEAN, nodes : 0 .. MaxNodes]
          /\ snapshot'.pending => snapshot'.status \in {"running", "needs_attention"}
          /\ snapshot.status \in Runtime!Terminal => snapshot'.status = snapshot.status
          /\ snapshot'.status = "running" => ~snapshot'.pending
      BY <1>5, <2>2, <2>3 DEF Runtime!Terminal
    <2>5. PICK next \in {"run", "unlock"} : Runtime!Goes(p, next)
      BY <1>5
    <2> QED
      BY <1>1, <1>5, <2>1, <2>4, <2>5, HeldStep
  <1>6. CASE Runtime!Goes(p, "rejected") /\ Runtime!Free(p) /\ UNCHANGED <<files, snapshot>>
    <2>1. Moves(p, "rejected") /\ "rejected" \in Runtime!Ended
      BY <1>6, GoesMoves DEF Runtime!Ended
    <2>2. pc'[p] = "rejected"
      BY <1>2, <1>6 DEF Runtime!TypeOK, Runtime!Goes
    <2>3. CreatorOK(p)' /\ HolderOK(p)'
      BY <2>2 DEF CreatorOK, HolderOK, Past, Bound, Locked, Runtime!Terminal
    <2>4. /\ lock' \in Processes \cup {Runtime!Absent}
          /\ \A q \in Processes \ {p} : lock = q => lock' = q
      BY <1>2, <1>6 DEF Runtime!Free, Runtime!TypeOK
    <2>5. Runtime!Active(p)
      BY <1>1 DEF Runtime!Active, Runtime!Ended
    <2> QED
      BY <1>1, <1>6, <2>1, <2>3, <2>4, <2>5, LocalStep
  <1> QED
    BY <1>4, <1>5, <1>6 DEF Runtime!Enter

(* A node, and the end of the execution. *)
LEMMA NodeRunInv ==
  ASSUME RunInv, NEW p \in Processes,
         Runtime!StartNode(p) \/ Runtime!EndNode(p) \/ Runtime!Leave(p)
  PROVE  RunInv'
  <1>1. /\ pc[p] \in {"run", "node"} /\ pc[p] \in Locked
        /\ UNCHANGED <<basis, files, manifest, history, summary, lock>>
    BY DEF Runtime!StartNode, Runtime!EndNode, Runtime!Leave, Locked
  <1>2. Runtime!TypeOK /\ FilesOK /\ HolderOK(p) /\ MaxNodes \in Nat
    BY RuntimeAssumption DEF RunInv, Runtime!MaxNodesAssumption
  <1>3. "snapshot" \in files /\ files' = files \cup {"snapshot"}
    BY <1>1, <1>2 DEF HolderOK
  <1>4. /\ snapshot \in [code : Runtime!Code \cup {Runtime!Absent},
                         status : Runtime!Terminal \cup {"running"},
                         pending : BOOLEAN, nodes : 0 .. MaxNodes]
        /\ snapshot.pending => snapshot.status \in {"running", "needs_attention"}
    BY <1>2, <1>3 DEF Runtime!TypeOK, FilesOK
  <1>5. CASE Runtime!StartNode(p)
    <2>1. /\ snapshot.status = "running" /\ snapshot.nodes < MaxNodes
          /\ snapshot' = [snapshot EXCEPT !.pending = TRUE]
          /\ Runtime!Goes(p, "node") /\ UNCHANGED calls
      BY <1>5 DEF Runtime!StartNode
    <2>2. /\ snapshot' \in [code : Runtime!Code \cup {Runtime!Absent},
                            status : Runtime!Terminal \cup {"running"},
                            pending : BOOLEAN, nodes : 0 .. MaxNodes]
          /\ snapshot'.status = "running" /\ snapshot'.nodes < MaxNodes
      BY <1>4, <2>1
    <2>3. snapshot.status \notin Runtime!Terminal
      BY <2>1 DEF Runtime!Terminal
    <2> QED
      BY <1>1, <1>3, <2>1, <2>2, <2>3, HeldStep
  <1>6. CASE Runtime!EndNode(p)
    <2>1. PICK status \in {"running", "completed", "incomplete", "needs_attention"} :
             snapshot' = [snapshot EXCEPT !.status = status,
                                          !.pending = status = "needs_attention",
                                          !.nodes = @ + 1]
      BY <1>6 DEF Runtime!EndNode
    <2>2. /\ pc[p] = "node" /\ Runtime!Goes(p, "run")
          /\ \/ calls' = calls
             \/ /\ basis.ledger = own[p].ledger
                /\ calls' = calls \cup {[code |-> Runtime!CodeOf(p), ledger |-> basis.ledger,
                                         overtaken |-> overtaken[p]]}
      BY <1>6 DEF Runtime!EndNode
    <2>3. snapshot.status = "running" /\ snapshot.nodes < MaxNodes
      BY <1>2, <2>2 DEF HolderOK
    <2>4. snapshot.nodes + 1 \in 0 .. MaxNodes
      BY <1>2, <1>4, <2>3
    <2>5. snapshot' \in [code : Runtime!Code \cup {Runtime!Absent},
                         status : Runtime!Terminal \cup {"running"},
                         pending : BOOLEAN, nodes : 0 .. MaxNodes]
      BY <1>4, <2>1, <2>4 DEF Runtime!Terminal
    <2>6. snapshot'.pending => snapshot'.status = "needs_attention"
      BY <1>4, <2>1
    <2>7. snapshot.status \notin Runtime!Terminal
      BY <2>3 DEF Runtime!Terminal
    <2> QED
      BY <1>1, <1>3, <2>2, <2>5, <2>6, <2>7, HeldStep
  <1>7. CASE Runtime!Leave(p)
    <2>1. /\ \/ /\ snapshot.status = "running"
                /\ snapshot' = [snapshot EXCEPT !.status = "incomplete"]
             \/ snapshot' = snapshot
          /\ Runtime!Goes(p, "unlock") /\ UNCHANGED calls
      BY <1>7 DEF Runtime!Leave
    <2>2. pc[p] = "run"
      BY <1>7 DEF Runtime!Leave
    <2>3. CASE snapshot' = snapshot
      BY <1>1, <1>3, <1>4, <2>1, <2>3, HeldStep
    <2>4. CASE /\ snapshot.status = "running"
               /\ snapshot' = [snapshot EXCEPT !.status = "incomplete"]
      <3>1. ~snapshot.pending
        BY <1>2, <2>2, <2>4 DEF HolderOK
      <3>2. /\ snapshot' \in [code : Runtime!Code \cup {Runtime!Absent},
                              status : Runtime!Terminal \cup {"running"},
                              pending : BOOLEAN, nodes : 0 .. MaxNodes]
            /\ ~snapshot'.pending /\ snapshot.status \notin Runtime!Terminal
        BY <1>4, <2>4, <3>1 DEF Runtime!Terminal
      <3> QED
        BY <1>1, <1>3, <2>1, <3>2, HeldStep
    <2> QED
      BY <2>1, <2>3, <2>4
  <1> QED
    BY <1>5, <1>6, <1>7

-------------------------------------------------------------------------------
(* Every step of a run. *)

LEMMA BeginRunInv ==
  ASSUME RunInv, NEW p \in Processes, Runtime!Begin(p)
  PROVE  RunInv'
  <1>1. /\ pc[p] = "idle" /\ pc' = [pc EXCEPT ![p] = "open"]
        /\ \E m \in {"new", "resume"} : mode' = [mode EXCEPT ![p] = m]
        /\ alone' = [q \in Processes |-> q = p /\ \A r \in Processes : ~Runtime!Active(r)]
        /\ UNCHANGED <<basis, files, manifest, history, snapshot, summary, lock, own, overtaken,
                       calls>>
    BY DEF Runtime!Begin, Runtime!disk
  <1>2. /\ Runtime!TypeOK /\ FilesOK /\ Runtime!OneBasisPerRun /\ Runtime!SummaryIsTrue
        /\ \A q \in Processes : CreatorOK(q) /\ HolderOK(q) /\ AloneOK(q) /\ CurrentOK(q)
    BY DEF RunInv
  <1>3. pc'[p] = "open" /\ \A q \in Processes \ {p} : pc'[q] = pc[q] /\ mode'[q] = mode[q]
    BY <1>1, <1>2 DEF Runtime!TypeOK
  <1>4. alone' \in [Processes -> BOOLEAN]
    <2>1. \A q \in Processes : (q = p /\ \A r \in Processes : ~Runtime!Active(r)) \in BOOLEAN
      BY Zenon
    <2> QED
      BY <1>1, <2>1
  <1>5. Runtime!TypeOK'
    <2>1. mode' \in [Processes -> {"new", "resume"}]
      BY <1>1, <1>2 DEF Runtime!TypeOK
    <2>2. pc' \in [Processes -> Runtime!Ended \cup Runtime!Terminal \cup
                       {"idle", "open", "mkdir", "sources", "manifest", "history", "load",
                        "graph", "lock", "enter", "run", "node", "unlock", "running"}]
      BY <1>1, <1>2 DEF Runtime!TypeOK
    <2> QED
      BY <1>1, <1>2, <1>4, <2>1, <2>2 DEF Runtime!TypeOK
  <1>6. FilesOK' /\ Runtime!OneBasisPerRun' /\ Runtime!SummaryIsTrue'
    BY <1>1, <1>2 DEF FilesOK, Runtime!OneBasisPerRun, Runtime!SummaryIsTrue
  <1>7. ASSUME NEW q \in Processes
        PROVE  CreatorOK(q)' /\ HolderOK(q)' /\ AloneOK(q)' /\ CurrentOK(q)'
    <2>1. CASE q = p
      <3>1. CreatorOK(q)' /\ HolderOK(q)' /\ CurrentOK(q)'
        BY <1>3, <2>1 DEF CreatorOK, HolderOK, CurrentOK, Opened, Past, Bound, Locked,
                          Runtime!Terminal
      <3>2. alone'[p] => \A r \in Processes \ {p} : ~Runtime!Active(r)
        BY <1>1
      <3>3. AloneOK(q)'
        BY <1>3, <2>1, <3>2 DEF AloneOK, Runtime!Active
      <3> QED
        BY <3>1, <3>3
    <2>2. CASE q # p
      <3>1. /\ pc'[q] = pc[q] /\ mode'[q] = mode[q]
            /\ CreatorOK(q) /\ HolderOK(q) /\ CurrentOK(q)
        BY <1>2, <1>3, <2>2
      <3>2. pc[q] \in {"sources", "manifest"} =>
                \A r \in Processes : pc'[r] \in {"sources", "manifest"} => r = q
        BY <1>3, <3>1 DEF CreatorOK
      <3>3. CreatorOK(q)'
        BY <1>1, <3>1, <3>2 DEF CreatorOK
      <3>4. HolderOK(q)' /\ CurrentOK(q)'
        BY <1>1, <3>1 DEF HolderOK, CurrentOK
      <3>5. ~alone'[q]
        BY <1>1, <2>2
      <3>6. AloneOK(q)'
        BY <3>5 DEF AloneOK
      <3> QED
        BY <3>3, <3>4, <3>6
    <2> QED
      BY <2>1, <2>2
  <1> QED
    BY <1>5, <1>6, <1>7 DEF RunInv

(* An update overtakes every process that is under way. *)
LEMMA UpdateRunInv ==
  ASSUME RunInv, Runtime!Update
  PROVE  RunInv'
  <1>1. /\ UNCHANGED <<files, manifest, history, snapshot, summary, lock, pc, mode, own, alone,
                       calls>>
        /\ overtaken' = [q \in Processes |-> Runtime!Active(q)]
    BY DEF Runtime!Update, Runtime!disk
  <1>2. basis' \in Runtime!Basis
    <2>1. basis \in Runtime!Basis
      BY DEF RunInv, Runtime!TypeOK
    <2>2. PICK code \in Runtime!Code : basis' = [basis EXCEPT !.code = code]
      BY DEF Runtime!Update
    <2> QED
      BY <2>1, <2>2 DEF Runtime!Basis
  <1>3. overtaken' \in [Processes -> BOOLEAN]
    <2>1. \A q \in Processes : Runtime!Active(q) \in BOOLEAN
      BY DEF Runtime!Active
    <2> QED
      BY <1>1, <2>1
  <1>4. Runtime!TypeOK'
    BY <1>1, <1>2, <1>3 DEF RunInv, Runtime!TypeOK
  <1>5. FilesOK' /\ Runtime!OneBasisPerRun' /\ Runtime!SummaryIsTrue'
    BY <1>1 DEF RunInv, FilesOK, Runtime!OneBasisPerRun, Runtime!SummaryIsTrue
  <1>6. ASSUME NEW q \in Processes
        PROVE  CreatorOK(q)' /\ HolderOK(q)' /\ AloneOK(q)' /\ CurrentOK(q)'
    <2>1. CreatorOK(q)' /\ HolderOK(q)' /\ AloneOK(q)'
      BY <1>1 DEF RunInv, CreatorOK, HolderOK, AloneOK, Runtime!Active
    <2>2. pc[q] \in Opened => Runtime!Active(q)
      BY DEF Opened, Past, Bound, Locked, Runtime!Active, Runtime!Ended, Runtime!Terminal
    <2>3. CurrentOK(q)'
      BY <1>1, <2>2 DEF CurrentOK
    <2> QED
      BY <2>1, <2>3
  <1> QED
    BY <1>4, <1>5, <1>6 DEF RunInv

LEMMA ReplaceLedgerRunInv ==
  ASSUME RunInv, Runtime!ReplaceLedger
  PROVE  RunInv'
  <1>1. /\ UNCHANGED <<files, manifest, history, snapshot, summary, lock, pc, mode, own, alone,
                       overtaken, calls>>
        /\ basis' = [basis EXCEPT !.ledger = "other"]
    BY DEF Runtime!ReplaceLedger, Runtime!disk, Runtime!local
  <1>2. basis' \in Runtime!Basis /\ basis'.code = basis.code
    BY <1>1 DEF RunInv, Runtime!TypeOK, Runtime!Basis
  <1>3. Runtime!TypeOK'
    BY <1>1, <1>2 DEF RunInv, Runtime!TypeOK
  <1>4. FilesOK' /\ Runtime!OneBasisPerRun' /\ Runtime!SummaryIsTrue'
    BY <1>1 DEF RunInv, FilesOK, Runtime!OneBasisPerRun, Runtime!SummaryIsTrue
  <1>5. ASSUME NEW q \in Processes
        PROVE  CreatorOK(q)' /\ HolderOK(q)' /\ AloneOK(q)' /\ CurrentOK(q)'
    BY <1>1, <1>2 DEF RunInv, CreatorOK, HolderOK, AloneOK, CurrentOK, Runtime!Active
  <1> QED
    BY <1>3, <1>4, <1>5 DEF RunInv

LEMMA RunStep ==
  ASSUME RunInv, [Runtime!Next]_(Runtime!vars)
  PROVE  RunInv'
  <1>1. CASE UNCHANGED Runtime!vars
    <2>1. UNCHANGED <<basis, files, manifest, history, snapshot, summary, lock, pc, mode, own,
                      alone, overtaken, calls>>
      BY <1>1 DEF Runtime!vars
    <2>2. Runtime!TypeOK' /\ FilesOK' /\ Runtime!OneBasisPerRun' /\ Runtime!SummaryIsTrue'
      BY <2>1 DEF RunInv, Runtime!TypeOK, FilesOK, Runtime!OneBasisPerRun,
                  Runtime!SummaryIsTrue
    <2>3. ASSUME NEW q \in Processes
          PROVE  CreatorOK(q)' /\ HolderOK(q)' /\ AloneOK(q)' /\ CurrentOK(q)'
      BY <2>1 DEF RunInv, CreatorOK, HolderOK, AloneOK, CurrentOK, Runtime!Active
    <2> QED
      BY <2>2, <2>3 DEF RunInv
  <1>2. CASE Runtime!Update \/ Runtime!ReplaceLedger
    BY <1>2, UpdateRunInv, ReplaceLedgerRunInv
  <1>3. ASSUME NEW p \in Processes, Runtime!Begin(p) \/ Runtime!Step(p) \/ Runtime!Crash(p)
        PROVE  RunInv'
    <2>1. CASE Runtime!Step(p)
      BY <2>1, OpenRunInv, MkdirRunInv, WriteRunInv, HistoryRunInv, LoadRunInv, LockRunInv,
         EnterRunInv, NodeRunInv, SummariseRunInv DEF Runtime!Step
    <2> QED
      BY <1>3, <2>1, BeginRunInv, CrashRunInv
  <1> QED
    BY <1>1, <1>2, <1>3 DEF Runtime!Next

LEMMA RunInit ==
  ASSUME Runtime!Init
  PROVE  RunInv
  <1>1. MaxNodes \in Nat
    BY RuntimeAssumption DEF Runtime!MaxNodesAssumption
  <1>2. Runtime!TypeOK
    BY <1>1 DEF Runtime!Init, Runtime!TypeOK, Runtime!Basis, Runtime!NoBasis, Runtime!Absent,
                   Runtime!Code
  <1>3. FilesOK /\ Runtime!OneBasisPerRun /\ Runtime!SummaryIsTrue
    BY DEF Runtime!Init, FilesOK, Runtime!OneBasisPerRun, Runtime!SummaryIsTrue,
           Runtime!Absent, Runtime!Terminal
  <1>4. ASSUME NEW p \in Processes
        PROVE  CreatorOK(p) /\ HolderOK(p) /\ AloneOK(p) /\ CurrentOK(p)
    <2>1. pc[p] = "idle"
      BY DEF Runtime!Init
    <2> QED
      BY <2>1 DEF CreatorOK, HolderOK, AloneOK, CurrentOK, Opened, Past, Bound, Locked,
                  Runtime!Terminal,
                  Runtime!Active
  <1> QED
    BY <1>2, <1>3, <1>4 DEF RunInv

(* Whatever is paid for was bound to a manifest and a history before. *)
LEMMA RunInvSuffices ==
  ASSUME RunInv
  PROVE  Runtime!RunIsSound
  BY DEF RunInv, FilesOK, Runtime!RunIsSound, Runtime!PaidIsResumable

(* Only its summary ends a process, and nobody has moved the run since it  *)
(* was alone with it.                                                      *)
LEMMA RunRepairs ==
  ASSUME RunInv, [Runtime!Next]_(Runtime!vars)
  PROVE  Runtime!RepairsSummary
  <1> SUFFICES ASSUME NEW p \in Processes, pc[p] # "ended", pc'[p] = "ended", alone[p]
               PROVE  summary' = snapshot.status
    BY DEF Runtime!RepairsSummary
  <1>1. Runtime!TypeOK /\ HolderOK(p) /\ AloneOK(p) /\ FilesOK
    BY DEF RunInv
  <1>2. Runtime!Summarise(p)
    <2>1. CASE UNCHANGED Runtime!vars \/ Runtime!Update \/ Runtime!ReplaceLedger
      BY <2>1 DEF Runtime!vars, Runtime!Update, Runtime!ReplaceLedger
    <2>2. ASSUME NEW q \in Processes,
                 Runtime!Begin(q) \/ Runtime!Step(q) \/ Runtime!Crash(q)
          PROVE  Runtime!Summarise(p)
      <3>1. PICK next : pc' = [pc EXCEPT ![q] = next] /\ (next = "ended" => Runtime!Summarise(q))
        <4>1. CASE Runtime!Unlock(q)
          <5>1. pc' = [pc EXCEPT ![q] = snapshot.status]
            BY <4>1 DEF Runtime!Unlock, Runtime!Goes
          <5>2. snapshot.status # "ended"
            BY <1>1 DEF Runtime!TypeOK, Runtime!Terminal, Runtime!Absent
          <5> QED
            BY <5>1, <5>2
        <4>2. CASE Runtime!Summarise(q)
          BY <4>2 DEF Runtime!Summarise, Runtime!Goes
        <4>3. CASE Runtime!Begin(q) \/ Runtime!Crash(q)
          <5>1. pc' = [pc EXCEPT ![q] = "open"] \/ pc' = [pc EXCEPT ![q] = "dead"]
            BY <4>3 DEF Runtime!Begin, Runtime!Crash, Runtime!Goes
          <5> QED
            BY <5>1
        <4>4. CASE \/ Runtime!OpenNew(q) \/ Runtime!Mkdir(q) \/ Runtime!WriteSources(q)
                   \/ Runtime!WriteManifest(q) \/ Runtime!OpenResume(q)
          BY <4>4 DEF Runtime!OpenNew, Runtime!Mkdir, Runtime!WriteSources,
                      Runtime!WriteManifest, Runtime!OpenResume, Runtime!Goes, Runtime!Opens
        <4>5. CASE \/ Runtime!BindHistory(q) \/ Runtime!Load(q) \/ Runtime!WriteGraph(q)
                   \/ Runtime!Lock(q)
          BY <4>5 DEF Runtime!BindHistory, Runtime!Load, Runtime!WriteGraph, Runtime!Lock,
                      Runtime!Goes
        <4>6. CASE \/ Runtime!Enter(q) \/ Runtime!StartNode(q) \/ Runtime!EndNode(q)
                   \/ Runtime!Leave(q)
          BY <4>6 DEF Runtime!Enter, Runtime!StartNode, Runtime!EndNode, Runtime!Leave,
                      Runtime!Goes
        <4> QED
          BY <2>2, <4>1, <4>2, <4>3, <4>4, <4>5, <4>6 DEF Runtime!Step
      <3>2. q = p /\ next = "ended"
        BY <1>1, <3>1 DEF Runtime!TypeOK
      <3> QED
        BY <3>1, <3>2
    <2> QED
      BY <2>1, <2>2 DEF Runtime!Next
  <1>3. /\ pc[p] \in Runtime!Terminal \cup {"running"}
        /\ IF Runtime!Writes(p) THEN summary' = pc[p] ELSE summary' = summary
    BY <1>2 DEF Runtime!Summarise
  <1>4. Runtime!Active(p)
    BY <1>3 DEF Runtime!Active, Runtime!Ended, Runtime!Terminal
  <1>5. snapshot.status = pc[p]
    BY <1>1, <1>3, <1>4 DEF HolderOK, AloneOK
  <1> QED
    BY <1>3, <1>5 DEF Runtime!Writes

-------------------------------------------------------------------------------
(* The search index and the result of its measurement. *)

Searching == {"gate", "lookup", "measure", "measured", "writing", "written", "paying"}

Compared == Searching \ {"gate"}

Measured == {"measured", "writing", "written", "paying"}

(* A process has what its step needs. *)
StageOK(p) ==
    /\ pc[p] # "idle" => setting[p] \in Settings
    /\ pc[p] \in {"idle", "build", "load", "encode"} => vectors[p] = None
    /\ pc[p] \in {"saving", "saved"} => vectors[p] = setting[p]
    /\ pc[p] \in Searching => vectors[p] \in Index!Vectors
    /\ pc[p] \in Compared => basis[p] \in Index!Baseline
    /\ pc[p] \in Measured => grade[Index!Ident(p)] # None
    /\ pc[p] = "load" => matrix # None

PaidOK(p) ==
    pc[p] = "paying" =>
        /\ Pages[setting[p]] = basis[p].pages
        /\ grade[Index!Ident(p)] >= basis[p].grade

(* While builds are neither cut short nor side by side: the vectors on     *)
(* file are those index.json names, except during a build, whose own they  *)
(* are once they are written.                                              *)
BuildOK ==
    ~disturbed =>
        /\ \A p, q \in Builders : Index!Building(p) /\ Index!Building(q) => p = q
        /\ (\A p \in Builders : pc[p] \notin {"saving", "saved"}) => matrix = meta
        /\ \A p \in Builders :
              /\ pc[p] = "load" => meta = setting[p]
              /\ pc[p] = "saving" => p \notin shared
              /\ pc[p] = "saved" => matrix = setting[p]

(* A result, in its temporary file or in its place, is that of a measured  *)
(* index.                                                                  *)
ResultOK ==
    \A file \in {record, temp} : file \in Index!Record => grade[file.of] # None

(* Who has the temporary file open. *)
HandleOK ==
    /\ \A p \in Builders :
          /\ handle[p] = "temp" => pc[p] \in {"writing", "written"} /\ temp # None
          /\ pc[p] \in {"writing", "written"} => handle[p] # None
    /\ ~overlap =>
          /\ \A p, q \in Builders : handle[p] = "temp" /\ handle[q] = "temp" => p = q
          /\ \A p \in Builders :
                /\ handle[p] \in {None, "temp"}
                /\ pc[p] = "writing" => p \notin shared
                /\ pc[p] = "written" => temp # Partial

IndexInv ==
    /\ Index!TypeOK
    /\ \A p \in Builders : StageOK(p) /\ PaidOK(p)
    /\ BuildOK /\ ResultOK /\ HandleOK
    /\ Index!ResultIsWhole /\ Index!VectorsAreOwn

Stages == {"idle", "build", "load", "encode", "saving", "saved", "gate", "lookup", "measure",
           "measured", "writing", "written", "paying", "failed"}

LEMMA Markers ==
  /\ None # Partial /\ None # Mixed /\ Partial # Mixed
  /\ None \notin Settings /\ Partial \notin Settings /\ Mixed \notin Settings
  /\ None \notin Index!Record /\ Partial \notin Index!Record
  /\ None \notin Index!Baseline /\ None \notin 0 .. 1
  /\ None # "temp" /\ None # "record" /\ None # "gone"
  BY IndexAssumption DEF Index!SettingAssumption, Index!FileAssumption

(* A step of p that goes on to stage next. *)
LEMMA PcGoes ==
  ASSUME Index!TypeOK, NEW p \in Builders, NEW next \in Stages, Index!Goes(p, next)
  PROVE  /\ pc' \in [Builders -> Stages]
         /\ pc'[p] = next /\ \A q \in Builders \ {p} : pc'[q] = pc[q]
  BY DEF Index!TypeOK, Index!Goes, Stages

(* What was measured stays measured. *)
GradeStays == \A i \in Index!Identity : grade[i] # None => grade'[i] = grade[i]

(* What the others have is left to them. *)
LEMMA StagesStay ==
  ASSUME IndexInv, NEW p \in Builders,
         \A q \in Builders \ {p} :
             pc'[q] = pc[q] /\ setting'[q] = setting[q] /\ vectors'[q] = vectors[q]
                /\ basis'[q] = basis[q],
         matrix # None => matrix' # None, GradeStays,
         StageOK(p)', PaidOK(p)'
  PROVE  \A q \in Builders : StageOK(q)' /\ PaidOK(q)'
  <1> SUFFICES ASSUME NEW q \in Builders, q # p
               PROVE  StageOK(q)' /\ PaidOK(q)'
    OBVIOUS
  <1>1. StageOK(q) /\ PaidOK(q)
    BY DEF IndexInv
  <1>2. /\ pc'[q] = pc[q] /\ setting'[q] = setting[q] /\ vectors'[q] = vectors[q]
        /\ basis'[q] = basis[q] /\ Index!Ident(q)' = Index!Ident(q)
    BY DEF Index!Ident
  <1>3. pc[q] \in Measured =>
            grade[Index!Ident(q)] # None /\ grade'[Index!Ident(q)] = grade[Index!Ident(q)]
    <2>1. pc[q] \in Measured => Index!Ident(q) \in Index!Identity
      BY <1>1 DEF StageOK, Measured, Searching, Index!Ident, Index!Identity
    <2> QED
      BY <1>1, <2>1 DEF StageOK, GradeStays
  <1>4. StageOK(q)'
    BY <1>1, <1>2, <1>3 DEF StageOK
  <1>5. PaidOK(q)'
    BY <1>1, <1>2, <1>3 DEF PaidOK, Measured
  <1> QED
    BY <1>4, <1>5

(* Who is not building does not disturb a build. *)
LEMMA BuildStays ==
  ASSUME IndexInv, NEW p \in Builders,
         \A q \in Builders \ {p} : pc'[q] = pc[q] /\ setting'[q] = setting[q],
         ~Index!Building(p), pc'[p] \notin {"load", "encode", "saving", "saved"},
         UNCHANGED <<matrix, meta, disturbed>>,
         \A q \in Builders : pc[q] = "saving" /\ q \in shared' => q \in shared
  PROVE  BuildOK'
  <1> SUFFICES ASSUME ~disturbed
               PROVE  /\ \A q, r \in Builders :
                            Index!Building(q)' /\ Index!Building(r)' => q = r
                      /\ (\A q \in Builders : pc'[q] \notin {"saving", "saved"}) =>
                             matrix = meta
                      /\ \A q \in Builders :
                            /\ pc'[q] = "load" => meta = setting'[q]
                            /\ pc'[q] = "saving" => q \notin shared'
                            /\ pc'[q] = "saved" => matrix = setting'[q]
    BY DEF BuildOK
  <1>1. BuildOK
    BY DEF IndexInv
  <1>2. \A q \in Builders : Index!Building(q)' => Index!Building(q)
    BY DEF Index!Building
  <1>3. pc[p] \notin {"saving", "saved"}
    BY DEF Index!Building
  <1>4. (\A q \in Builders : pc'[q] \notin {"saving", "saved"}) => matrix = meta
    BY <1>1, <1>3 DEF BuildOK
  <1>5. ASSUME NEW q \in Builders
        PROVE  /\ pc'[q] = "load" => meta = setting'[q]
               /\ pc'[q] = "saving" => q \notin shared'
               /\ pc'[q] = "saved" => matrix = setting'[q]
    BY <1>1 DEF BuildOK
  <1> QED
    BY <1>1, <1>2, <1>4, <1>5 DEF BuildOK

(* Who has no temporary file open does not touch it. *)
LEMMA HandlesStay ==
  ASSUME IndexInv, NEW p \in Builders,
         \A q \in Builders \ {p} : pc'[q] = pc[q],
         pc[p] \notin {"writing", "written"}, pc'[p] \notin {"writing", "written"},
         UNCHANGED <<handle, temp, overlap>>,
         \A q \in Builders : pc[q] = "writing" /\ q \in shared' => q \in shared
  PROVE  HandleOK'
  <1>1. HandleOK
    BY DEF IndexInv
  <1>2. ASSUME NEW q \in Builders
        PROVE  /\ handle[q] = "temp" => pc'[q] \in {"writing", "written"} /\ temp # None
               /\ pc'[q] \in {"writing", "written"} => handle[q] # None
               /\ ~overlap =>
                     /\ handle[q] \in {None, "temp"}
                     /\ pc'[q] = "writing" => q \notin shared'
                     /\ pc'[q] = "written" => temp # Partial
    BY <1>1 DEF HandleOK
  <1>3. ~overlap => \A q, r \in Builders : handle[q] = "temp" /\ handle[r] = "temp" => q = r
    BY <1>1 DEF HandleOK
  <1> QED
    BY <1>2, <1>3 DEF HandleOK

LEMMA ResultStays ==
  ASSUME IndexInv, UNCHANGED <<record, temp>>, GradeStays
  PROVE  ResultOK'
  <1>1. ASSUME NEW file \in {record, temp}, file \in Index!Record
        PROVE  grade'[file.of] # None
    <2>1. grade[file.of] # None
      BY <1>1 DEF IndexInv, ResultOK
    <2>2. file.of \in Index!Identity
      BY <1>1 DEF Index!Record
    <2> QED
      BY <2>1, <2>2 DEF GradeStays
  <1> QED
    BY <1>1 DEF ResultOK

-------------------------------------------------------------------------------
(* Building. *)

LEMMA StartIndexInv ==
  ASSUME IndexInv, NEW p \in Builders, Index!Start(p)
  PROVE  IndexInv'
  <1>1. PICK s \in Settings : setting' = [setting EXCEPT ![p] = s]
    BY DEF Index!Start
  <1>2. /\ pc[p] = "idle" /\ Index!Goes(p, "build")
        /\ started < MaxStarts /\ started' = started + 1
        /\ UNCHANGED <<matrix, meta, disturbed, grade, baseline, baselines, record, temp, handle,
                       overlap, shared, vectors, basis>>
    BY DEF Index!Start, Index!index, Index!gate, Index!files
  <1>3. Index!TypeOK /\ StageOK(p)
    BY DEF IndexInv
  <1>4. /\ pc' \in [Builders -> Stages] /\ pc'[p] = "build"
        /\ \A q \in Builders \ {p} : pc'[q] = pc[q]
    BY <1>2, <1>3, PcGoes DEF Stages
  <1>5. setting' \in [Builders -> Settings \cup {None}] /\ setting'[p] = s
        /\ \A q \in Builders \ {p} : setting'[q] = setting[q]
    BY <1>1, <1>3 DEF Index!TypeOK
  <1>6. started' \in 0 .. MaxStarts
    BY <1>2, <1>3, IndexAssumption DEF Index!TypeOK, Index!SettingAssumption
  <1>7. Index!TypeOK'
    BY <1>2, <1>3, <1>4, <1>5, <1>6 DEF Index!TypeOK, Stages
  <1>8. StageOK(p)' /\ PaidOK(p)'
    BY <1>2, <1>3, <1>4, <1>5 DEF StageOK, PaidOK, Searching, Compared, Measured
  <1>9. GradeStays
    BY <1>2 DEF GradeStays
  <1>10. \A q \in Builders : StageOK(q)' /\ PaidOK(q)'
    BY <1>2, <1>4, <1>5, <1>8, <1>9, StagesStay
  <1>11. BuildOK'
    BY <1>2, <1>4, <1>5, BuildStays DEF Index!Building
  <1>12. HandleOK' /\ ResultOK'
    BY <1>2, <1>4, <1>9, HandlesStay, ResultStays
  <1>13. Index!ResultIsWhole'
    BY <1>2 DEF IndexInv, Index!ResultIsWhole
  <1>14. Index!VectorsAreOwn'
    BY <1>2, <1>3, <1>5 DEF IndexInv, Index!VectorsAreOwn, StageOK
  <1> QED
    BY <1>7, <1>10, <1>11, <1>12, <1>13, <1>14 DEF IndexInv

(* A build that finds another at work is not alone. *)
LEMMA FindIndexInv ==
  ASSUME IndexInv, NEW p \in Builders, Index!Find(p)
  PROVE  IndexInv'
  <1>1. PICK next \in {"load", "encode"} :
           /\ Index!Goes(p, next)
           /\ next = "load" => meta = setting[p] /\ matrix # None
    BY DEF Index!Find
  <1>2. /\ pc[p] = "build"
        /\ disturbed' = (disturbed \/ \E q \in Builders : Index!Building(q))
        /\ UNCHANGED <<matrix, meta, grade, baseline, baselines, record, temp, handle,
                       overlap, shared, started, setting, vectors, basis>>
    BY DEF Index!Find, Index!gate, Index!files
  <1>3. Index!TypeOK /\ StageOK(p) /\ BuildOK
    BY DEF IndexInv
  <1>4. /\ pc' \in [Builders -> Stages] /\ pc'[p] = next
        /\ \A q \in Builders \ {p} : pc'[q] = pc[q]
    BY <1>1, <1>3, PcGoes DEF Stages
  <1>5. disturbed' \in BOOLEAN
    <2>1. (disturbed \/ \E q \in Builders : Index!Building(q)) \in BOOLEAN
      BY Zenon
    <2> QED
      BY <1>2, <2>1
  <1>6. Index!TypeOK'
    BY <1>2, <1>3, <1>4, <1>5 DEF Index!TypeOK, Stages
  <1>7. StageOK(p)' /\ PaidOK(p)'
    BY <1>1, <1>2, <1>3, <1>4 DEF StageOK, PaidOK, Searching, Compared, Measured
  <1>8. GradeStays
    BY <1>2 DEF GradeStays
  <1>9. \A q \in Builders : StageOK(q)' /\ PaidOK(q)'
    BY <1>2, <1>4, <1>7, <1>8, StagesStay
  <1>10. BuildOK'
    <2>1. ASSUME ~disturbed'
          PROVE  ~disturbed /\ \A q \in Builders : ~Index!Building(q)
      BY <1>2, <2>1
    <2>2. ASSUME ~disturbed'
          PROVE  /\ \A q \in Builders \ {p} :
                        pc'[q] \notin {"load", "encode", "saving", "saved"}
                 /\ matrix = meta /\ pc'[p] \notin {"saving", "saved"}
      BY <1>1, <1>3, <1>4, <2>1, <2>2 DEF Index!Building, BuildOK
    <2> QED
      BY <1>1, <1>2, <1>4, <2>2 DEF BuildOK, Index!Building
  <1>11. HandleOK' /\ ResultOK'
    BY <1>1, <1>2, <1>4, <1>8, HandlesStay, ResultStays
  <1>12. Index!ResultIsWhole' /\ Index!VectorsAreOwn'
    BY <1>2 DEF IndexInv, Index!ResultIsWhole, Index!VectorsAreOwn
  <1> QED
    BY <1>6, <1>9, <1>10, <1>11, <1>12 DEF IndexInv

(* What is loaded is what index.json names, if nobody disturbed it. *)
LEMMA LoadIndexInv ==
  ASSUME IndexInv, NEW p \in Builders, Index!Load(p)
  PROVE  IndexInv'
  <1>1. PICK next \in {"failed", "gate"} :
           /\ Index!Goes(p, next)
           /\ IF next = "gate" THEN matrix # Partial /\ vectors' = [vectors EXCEPT ![p] = matrix]
              ELSE vectors' = vectors
    BY DEF Index!Load
  <1>2. /\ pc[p] = "load"
        /\ UNCHANGED <<matrix, meta, disturbed, grade, baseline, baselines, record, temp, handle,
                       overlap, shared, started, setting, basis>>
    BY DEF Index!Load, Index!index, Index!gate, Index!files
  <1>3. Index!TypeOK /\ StageOK(p) /\ BuildOK
    BY DEF IndexInv
  <1>4. /\ pc' \in [Builders -> Stages] /\ pc'[p] = next
        /\ \A q \in Builders \ {p} : pc'[q] = pc[q]
    BY <1>1, <1>3, PcGoes DEF Stages
  <1>5. matrix # None /\ (next = "gate" => matrix \in Index!Vectors)
    BY <1>1, <1>2, <1>3 DEF StageOK, Index!TypeOK
  <1>6. /\ vectors' \in [Builders -> Index!Vectors \cup {None}]
        /\ \A q \in Builders \ {p} : vectors'[q] = vectors[q]
        /\ vectors'[p] = IF next = "gate" THEN matrix ELSE vectors[p]
    BY <1>1, <1>3, <1>5 DEF Index!TypeOK
  <1>7. Index!TypeOK'
    BY <1>2, <1>3, <1>4, <1>6 DEF Index!TypeOK, Stages
  <1>8. StageOK(p)' /\ PaidOK(p)'
    BY <1>1, <1>2, <1>3, <1>4, <1>5, <1>6 DEF StageOK, PaidOK, Searching, Compared, Measured
  <1>9. GradeStays
    BY <1>2 DEF GradeStays
  <1>10. \A q \in Builders : StageOK(q)' /\ PaidOK(q)'
    BY <1>2, <1>4, <1>6, <1>8, <1>9, StagesStay
  <1>11. ~disturbed => /\ matrix = setting[p] /\ matrix = meta
                       /\ \A q \in Builders : Index!Building(q) => q = p
    <2>1. ASSUME ~disturbed
          PROVE  /\ \A q \in Builders : Index!Building(q) => q = p
                 /\ meta = setting[p]
      BY <1>2, <1>3, <2>1 DEF BuildOK, Index!Building
    <2>2. ASSUME ~disturbed
          PROVE  \A q \in Builders : pc[q] \notin {"saving", "saved"}
      BY <1>2, <2>1, <2>2 DEF Index!Building
    <2> QED
      BY <1>3, <2>1, <2>2 DEF BuildOK
  <1>12. BuildOK'
    BY <1>1, <1>2, <1>4, <1>11 DEF BuildOK, Index!Building
  <1>13. HandleOK' /\ ResultOK'
    BY <1>1, <1>2, <1>4, <1>9, HandlesStay, ResultStays
  <1>14. Index!ResultIsWhole'
    BY <1>2 DEF IndexInv, Index!ResultIsWhole
  <1>15. Index!VectorsAreOwn'
    BY <1>2, <1>6, <1>11 DEF IndexInv, Index!VectorsAreOwn
  <1> QED
    BY <1>7, <1>10, <1>12, <1>13, <1>14, <1>15 DEF IndexInv

(* The vectors are written over whatever was there. *)
LEMMA OpenIndexInv ==
  ASSUME IndexInv, NEW p \in Builders, Index!OpenMatrix(p)
  PROVE  IndexInv'
  <1> DEFINE writers == {q \in Builders : pc[q] = "saving" /\ setting[q] # setting[p]}
  <1>1. /\ pc[p] = "encode" /\ Index!Goes(p, "saving")
        /\ vectors' = [vectors EXCEPT ![p] = setting[p]] /\ matrix' = Partial
        /\ shared' = IF writers = {} THEN shared \ {p} ELSE shared \cup writers \cup {p}
        /\ UNCHANGED <<meta, disturbed, grade, baseline, baselines, record, temp, handle,
                       overlap, started, setting, basis>>
    BY DEF Index!OpenMatrix, Index!gate, Index!files, Index!Share
  <1>2. Index!TypeOK /\ StageOK(p) /\ BuildOK
    BY DEF IndexInv
  <1>3. /\ pc' \in [Builders -> Stages] /\ pc'[p] = "saving"
        /\ \A q \in Builders \ {p} : pc'[q] = pc[q]
    BY <1>1, <1>2, PcGoes DEF Stages
  <1>4. setting[p] \in Settings
    BY <1>1, <1>2 DEF StageOK
  <1>5. /\ vectors' \in [Builders -> Index!Vectors \cup {None}] /\ vectors'[p] = setting[p]
        /\ \A q \in Builders \ {p} : vectors'[q] = vectors[q]
    BY <1>1, <1>2, <1>4 DEF Index!TypeOK, Index!Vectors
  <1>6. /\ shared' \subseteq Builders
        /\ \A q \in Builders : q \in shared' => q \in shared \/ q = p \/ pc[q] = "saving"
        /\ (\A q \in Builders \ {p} : pc[q] # "saving") => p \notin shared'
    BY <1>1, <1>2 DEF Index!TypeOK
  <1> HIDE DEF writers
  <1>7. Index!TypeOK'
    BY <1>1, <1>2, <1>3, <1>5, <1>6 DEF Index!TypeOK, Stages
  <1>8. StageOK(p)' /\ PaidOK(p)'
    BY <1>1, <1>3, <1>4, <1>5 DEF StageOK, PaidOK, Searching, Compared, Measured
  <1>9. GradeStays
    BY <1>1 DEF GradeStays
  <1>10. \A q \in Builders : StageOK(q)' /\ PaidOK(q)'
    BY <1>1, <1>3, <1>5, <1>8, <1>9, Markers, StagesStay
  <1>11. ~disturbed => \A q \in Builders \ {p} :
                          pc[q] \notin {"load", "encode", "saving", "saved"}
    BY <1>1, <1>2 DEF BuildOK, Index!Building
  <1>12. BuildOK'
    <2>1. ASSUME ~disturbed
          PROVE  /\ \A q \in Builders \ {p} :
                        pc'[q] \notin {"load", "encode", "saving", "saved"}
                 /\ p \notin shared'
      BY <1>3, <1>6, <1>11, <2>1
    <2> QED
      BY <1>1, <1>3, <2>1 DEF BuildOK, Index!Building
  <1>13. HandleOK'
    BY <1>1, <1>3, <1>6, HandlesStay
  <1>14. ResultOK' /\ Index!ResultIsWhole'
    BY <1>1, <1>9, ResultStays DEF IndexInv, Index!ResultIsWhole
  <1>15. Index!VectorsAreOwn'
    BY <1>1, <1>5 DEF IndexInv, Index!VectorsAreOwn
  <1> QED
    BY <1>7, <1>10, <1>12, <1>13, <1>14, <1>15 DEF IndexInv

(* They are its own unless another had the file open. *)
LEMMA CloseIndexInv ==
  ASSUME IndexInv, NEW p \in Builders, Index!CloseMatrix(p)
  PROVE  IndexInv'
  <1>1. /\ pc[p] = "saving" /\ Index!Goes(p, "saved")
        /\ matrix' = setting[p] \/ (p \in shared /\ matrix' = Mixed)
        /\ UNCHANGED <<meta, disturbed, grade, baseline, baselines, record, temp, handle,
                       overlap, shared, started, setting, vectors, basis>>
    BY DEF Index!CloseMatrix, Index!gate, Index!files
  <1>2. Index!TypeOK /\ StageOK(p) /\ BuildOK
    BY DEF IndexInv
  <1>3. /\ pc' \in [Builders -> Stages] /\ pc'[p] = "saved"
        /\ \A q \in Builders \ {p} : pc'[q] = pc[q]
    BY <1>1, <1>2, PcGoes DEF Stages
  <1>4. setting[p] \in Settings /\ matrix' \in Index!Vectors /\ matrix' # None
    BY <1>1, <1>2, Markers DEF StageOK, Index!Vectors
  <1>5. Index!TypeOK'
    BY <1>1, <1>2, <1>3, <1>4 DEF Index!TypeOK, Stages
  <1>6. StageOK(p)' /\ PaidOK(p)'
    BY <1>1, <1>2, <1>3 DEF StageOK, PaidOK, Searching, Compared, Measured
  <1>7. GradeStays
    BY <1>1 DEF GradeStays
  <1>8. \A q \in Builders : StageOK(q)' /\ PaidOK(q)'
    BY <1>1, <1>3, <1>4, <1>6, <1>7, StagesStay
  <1>9. BuildOK'
    <2>1. ASSUME ~disturbed
          PROVE  /\ \A q \in Builders \ {p} :
                        pc[q] \notin {"load", "encode", "saving", "saved"}
                 /\ matrix' = setting[p]
      BY <1>1, <1>2, <2>1 DEF BuildOK, Index!Building
    <2> QED
      BY <1>1, <1>3, <2>1 DEF BuildOK, Index!Building
  <1>10. HandleOK' /\ ResultOK'
    BY <1>1, <1>3, <1>7, HandlesStay, ResultStays
  <1>11. Index!ResultIsWhole' /\ Index!VectorsAreOwn'
    BY <1>1 DEF IndexInv, Index!ResultIsWhole, Index!VectorsAreOwn
  <1> QED
    BY <1>5, <1>8, <1>9, <1>10, <1>11 DEF IndexInv

LEMMA SaveIndexInv ==
  ASSUME IndexInv, NEW p \in Builders, Index!SaveMeta(p)
  PROVE  IndexInv'
  <1>1. /\ pc[p] = "saved" /\ Index!Goes(p, "gate") /\ meta' = setting[p]
        /\ UNCHANGED <<matrix, disturbed, grade, baseline, baselines, record, temp, handle,
                       overlap, shared, started, setting, vectors, basis>>
    BY DEF Index!SaveMeta, Index!gate, Index!files
  <1>2. Index!TypeOK /\ StageOK(p) /\ BuildOK
    BY DEF IndexInv
  <1>3. /\ pc' \in [Builders -> Stages] /\ pc'[p] = "gate"
        /\ \A q \in Builders \ {p} : pc'[q] = pc[q]
    BY <1>1, <1>2, PcGoes DEF Stages
  <1>4. setting[p] \in Settings
    BY <1>1, <1>2 DEF StageOK
  <1>5. Index!TypeOK'
    BY <1>1, <1>2, <1>3, <1>4 DEF Index!TypeOK, Stages
  <1>6. StageOK(p)' /\ PaidOK(p)'
    BY <1>1, <1>2, <1>3, <1>4
       DEF StageOK, PaidOK, Searching, Compared, Measured, Index!Vectors
  <1>7. GradeStays
    BY <1>1 DEF GradeStays
  <1>8. \A q \in Builders : StageOK(q)' /\ PaidOK(q)'
    BY <1>1, <1>3, <1>6, <1>7, StagesStay
  <1>9. BuildOK'
    <2>1. ASSUME ~disturbed
          PROVE  /\ \A q \in Builders \ {p} :
                        pc[q] \notin {"load", "encode", "saving", "saved"}
                 /\ matrix = setting[p]
      BY <1>1, <1>2, <2>1 DEF BuildOK, Index!Building
    <2> QED
      BY <1>1, <1>3, <2>1 DEF BuildOK, Index!Building
  <1>10. HandleOK' /\ ResultOK'
    BY <1>1, <1>3, <1>7, HandlesStay, ResultStays
  <1>11. Index!ResultIsWhole' /\ Index!VectorsAreOwn'
    BY <1>1 DEF IndexInv, Index!ResultIsWhole, Index!VectorsAreOwn
  <1> QED
    BY <1>5, <1>8, <1>9, <1>10, <1>11 DEF IndexInv

(* A build that ends before index.json is written was disturbed. *)
LEMMA ExitIndexInv ==
  ASSUME IndexInv, NEW p \in Builders, Index!Exit(p)
  PROVE  IndexInv'
  <1>1. /\ Index!Goes(p, "idle")
        /\ disturbed' = (disturbed \/ pc[p] \in {"saving", "saved"})
        /\ handle' = [handle EXCEPT ![p] = None] /\ vectors' = [vectors EXCEPT ![p] = None]
        /\ basis' = [basis EXCEPT ![p] = None] /\ setting' = [setting EXCEPT ![p] = None]
        /\ shared' = shared \ {p}
        /\ UNCHANGED <<matrix, meta, grade, baseline, baselines, record, temp, overlap, started>>
    BY DEF Index!Exit
  <1>2. Index!TypeOK /\ StageOK(p) /\ BuildOK /\ HandleOK
    BY DEF IndexInv
  <1>3. /\ pc' \in [Builders -> Stages] /\ pc'[p] = "idle"
        /\ \A q \in Builders \ {p} : pc'[q] = pc[q]
    BY <1>1, <1>2, PcGoes DEF Stages
  <1>4. /\ handle' \in [Builders -> {None, "temp", "record", "gone"}]
        /\ vectors' \in [Builders -> Index!Vectors \cup {None}]
        /\ basis' \in [Builders -> Index!Baseline \cup {None}]
        /\ setting' \in [Builders -> Settings \cup {None}]
        /\ handle'[p] = None /\ vectors'[p] = None
        /\ \A q \in Builders \ {p} :
              /\ handle'[q] = handle[q] /\ vectors'[q] = vectors[q]
              /\ basis'[q] = basis[q] /\ setting'[q] = setting[q]
    BY <1>1, <1>2 DEF Index!TypeOK
  <1>5. disturbed' \in BOOLEAN
    <2>1. (disturbed \/ pc[p] \in {"saving", "saved"}) \in BOOLEAN
      BY Zenon
    <2> QED
      BY <1>1, <2>1
  <1>6. Index!TypeOK'
    BY <1>1, <1>2, <1>3, <1>4, <1>5 DEF Index!TypeOK, Stages
  <1>7. StageOK(p)' /\ PaidOK(p)'
    BY <1>3, <1>4 DEF StageOK, PaidOK, Searching, Compared, Measured
  <1>8. GradeStays
    BY <1>1 DEF GradeStays
  <1>9. \A q \in Builders : StageOK(q)' /\ PaidOK(q)'
    BY <1>1, <1>3, <1>4, <1>7, <1>8, StagesStay
  <1>10. BuildOK'
    <2>1. ASSUME ~disturbed'
          PROVE  ~disturbed /\ pc[p] \notin {"saving", "saved"}
      BY <1>1, <2>1
    <2>2. \A q \in Builders : Index!Building(q)' => Index!Building(q) /\ q # p
      BY <1>3 DEF Index!Building
    <2>3. ASSUME ~disturbed'
          PROVE  (\A q \in Builders : pc'[q] \notin {"saving", "saved"}) => matrix = meta
      BY <1>2, <1>3, <2>1, <2>3 DEF BuildOK
    <2>4. ASSUME ~disturbed', NEW q \in Builders
          PROVE  /\ pc'[q] = "load" => meta = setting'[q]
                 /\ pc'[q] = "saving" => q \notin shared'
                 /\ pc'[q] = "saved" => matrix = setting'[q]
      BY <1>1, <1>2, <1>3, <1>4, <2>1, <2>4 DEF BuildOK
    <2> QED
      BY <1>1, <1>2, <2>1, <2>2, <2>3, <2>4 DEF BuildOK
  <1>11. HandleOK'
    <2>1. ASSUME NEW q \in Builders
          PROVE  /\ handle'[q] = "temp" => handle[q] = "temp" /\ q # p
                 /\ handle'[q] = "temp" => pc'[q] \in {"writing", "written"} /\ temp # None
                 /\ pc'[q] \in {"writing", "written"} => handle'[q] # None
                 /\ ~overlap =>
                       /\ handle'[q] \in {None, "temp"}
                       /\ pc'[q] = "writing" => q \notin shared'
                       /\ pc'[q] = "written" => temp # Partial
      <3>1. CASE q = p
        BY <1>3, <1>4, <3>1, Markers
      <3>2. CASE q # p
        BY <1>1, <1>2, <1>3, <1>4, <3>2 DEF HandleOK
      <3> QED
        BY <3>1, <3>2
    <2> QED
      BY <1>1, <1>2, <2>1 DEF HandleOK
  <1>12. ResultOK' /\ Index!ResultIsWhole'
    BY <1>1, <1>8, ResultStays DEF IndexInv, Index!ResultIsWhole
  <1>13. Index!VectorsAreOwn'
    BY <1>1, <1>4 DEF IndexInv, Index!VectorsAreOwn
  <1> QED
    BY <1>6, <1>9, <1>10, <1>11, <1>12, <1>13 DEF IndexInv

-------------------------------------------------------------------------------
(* The gate. *)

LEMMA ApproveIndexInv ==
  ASSUME IndexInv, Index!Approve
  PROVE  IndexInv'
  <1>1. /\ baselines < MaxBaselines /\ baselines' = baselines + 1
        /\ baseline' \in Index!Baseline
        /\ UNCHANGED <<matrix, meta, disturbed, grade, record, temp, handle, overlap, shared,
                       started, pc, setting, vectors, basis>>
    BY DEF Index!Approve, Index!index, Index!files
  <1>2. baselines' \in 0 .. MaxBaselines
    BY <1>1, IndexAssumption DEF IndexInv, Index!TypeOK, Index!SettingAssumption
  <1>3. Index!TypeOK'
    BY <1>1, <1>2 DEF IndexInv, Index!TypeOK
  <1>4. ASSUME NEW q \in Builders
        PROVE  StageOK(q)' /\ PaidOK(q)'
    BY <1>1 DEF IndexInv, StageOK, PaidOK, Index!Ident
  <1>5. BuildOK' /\ HandleOK'
    BY <1>1 DEF IndexInv, BuildOK, HandleOK, Index!Building
  <1>6. ResultOK' /\ Index!ResultIsWhole' /\ Index!VectorsAreOwn'
    BY <1>1 DEF IndexInv, ResultOK, Index!ResultIsWhole, Index!VectorsAreOwn
  <1> QED
    BY <1>3, <1>4, <1>5, <1>6 DEF IndexInv

LEMMA BaselineIndexInv ==
  ASSUME IndexInv, NEW p \in Builders, Index!ReadBaseline(p)
  PROVE  IndexInv'
  <1>1. PICK next \in {"failed", "lookup"} :
           Index!Goes(p, next) /\ (next = "lookup" => baseline # None)
    BY DEF Index!ReadBaseline
  <1>2. /\ pc[p] = "gate" /\ basis' = [basis EXCEPT ![p] = baseline]
        /\ UNCHANGED <<matrix, meta, disturbed, grade, baseline, baselines, record, temp, handle,
                       overlap, shared, started, setting, vectors>>
    BY DEF Index!ReadBaseline, Index!index, Index!gate, Index!files
  <1>3. Index!TypeOK /\ StageOK(p)
    BY DEF IndexInv
  <1>4. /\ pc' \in [Builders -> Stages] /\ pc'[p] = next
        /\ \A q \in Builders \ {p} : pc'[q] = pc[q]
    BY <1>1, <1>3, PcGoes DEF Stages
  <1>5. /\ basis' \in [Builders -> Index!Baseline \cup {None}] /\ basis'[p] = baseline
        /\ \A q \in Builders \ {p} : basis'[q] = basis[q]
    BY <1>2, <1>3 DEF Index!TypeOK
  <1>6. Index!TypeOK'
    BY <1>2, <1>3, <1>4, <1>5 DEF Index!TypeOK, Stages
  <1>7. StageOK(p)' /\ PaidOK(p)'
    BY <1>1, <1>2, <1>3, <1>4, <1>5
       DEF StageOK, PaidOK, Searching, Compared, Measured, Index!TypeOK
  <1>8. GradeStays
    BY <1>2 DEF GradeStays
  <1>9. \A q \in Builders : StageOK(q)' /\ PaidOK(q)'
    BY <1>2, <1>4, <1>5, <1>7, <1>8, StagesStay
  <1>10. BuildOK'
    BY <1>1, <1>2, <1>4, BuildStays DEF Index!Building
  <1>11. HandleOK' /\ ResultOK'
    BY <1>1, <1>2, <1>4, <1>8, HandlesStay, ResultStays
  <1>12. Index!ResultIsWhole' /\ Index!VectorsAreOwn'
    BY <1>2 DEF IndexInv, Index!ResultIsWhole, Index!VectorsAreOwn
  <1> QED
    BY <1>6, <1>9, <1>10, <1>11, <1>12 DEF IndexInv

(* Who reads a whole result of its own identity reuses a measurement. *)
LEMMA ReadIndexInv ==
  ASSUME IndexInv, NEW p \in Builders, Index!ReadRecord(p)
  PROVE  IndexInv'
  <1>1. PICK next \in {"failed", "measure", "paying"} :
           /\ Index!Goes(p, next)
           /\ next = "paying" => /\ record = [of |-> Index!Ident(p), basis |-> basis[p]]
                                 /\ Index!NoRegression(p)
    <2> DEFINE mine == [of |-> Index!Ident(p), basis |-> basis[p]]
               next == IF record = Partial THEN "failed" ELSE IF record # mine THEN "measure"
                       ELSE IF Index!NoRegression(p) THEN "paying" ELSE "failed"
    <2>1. Index!Goes(p, next)
      BY DEF Index!ReadRecord
    <2>2. next \in {"failed", "measure", "paying"}
      OBVIOUS
    <2>3. next = "paying" => record = mine /\ Index!NoRegression(p)
      OBVIOUS
    <2> HIDE DEF next
    <2> QED
      BY <2>1, <2>2, <2>3
  <1>2. /\ pc[p] = "lookup"
        /\ UNCHANGED <<matrix, meta, disturbed, grade, baseline, baselines, record, temp, handle,
                       overlap, shared, started, setting, vectors, basis>>
    BY DEF Index!ReadRecord, Index!index, Index!gate, Index!files
  <1>3. Index!TypeOK /\ StageOK(p) /\ ResultOK
    BY DEF IndexInv
  <1>4. /\ pc' \in [Builders -> Stages] /\ pc'[p] = next
        /\ \A q \in Builders \ {p} : pc'[q] = pc[q]
    BY <1>1, <1>3, PcGoes DEF Stages
  <1>5. Index!TypeOK'
    BY <1>2, <1>3, <1>4 DEF Index!TypeOK, Stages
  <1>6. next = "paying" => grade[Index!Ident(p)] # None
    <2>1. Index!Ident(p) \in Index!Identity /\ basis[p] \in Index!Baseline
      BY <1>2, <1>3
         DEF StageOK, Searching, Compared, Index!Ident, Index!Identity
    <2>2. [of |-> Index!Ident(p), basis |-> basis[p]] \in Index!Record
      BY <2>1 DEF Index!Record
    <2> QED
      BY <1>1, <1>3, <2>2 DEF ResultOK
  <1>7. StageOK(p)' /\ PaidOK(p)'
    <2>1. Index!Ident(p)' = Index!Ident(p)
      BY <1>2 DEF Index!Ident
    <2>2. StageOK(p)'
      BY <1>1, <1>2, <1>3, <1>4, <1>6, <2>1 DEF StageOK, Searching, Compared, Measured
    <2>3. PaidOK(p)'
      BY <1>1, <1>2, <1>4, <2>1 DEF PaidOK, Index!NoRegression
    <2> QED
      BY <2>2, <2>3
  <1>8. GradeStays
    BY <1>2 DEF GradeStays
  <1>9. \A q \in Builders : StageOK(q)' /\ PaidOK(q)'
    BY <1>2, <1>4, <1>7, <1>8, StagesStay
  <1>10. BuildOK'
    BY <1>1, <1>2, <1>4, BuildStays DEF Index!Building
  <1>11. HandleOK' /\ ResultOK'
    BY <1>1, <1>2, <1>4, <1>8, HandlesStay, ResultStays
  <1>12. Index!ResultIsWhole' /\ Index!VectorsAreOwn'
    BY <1>2 DEF IndexInv, Index!ResultIsWhole, Index!VectorsAreOwn
  <1> QED
    BY <1>5, <1>9, <1>10, <1>11, <1>12 DEF IndexInv

(* What an index answers is settled when it is first measured. *)
LEMMA MeasureIndexInv ==
  ASSUME IndexInv, NEW p \in Builders, Index!Measure(p)
  PROVE  IndexInv'
  <1>1. PICK next \in {"failed", "measured"} :
           /\ Index!Goes(p, next)
           /\ IF next = "measured"
              THEN \E g \in IF grade[Index!Ident(p)] = None THEN 0 .. 1
                            ELSE {grade[Index!Ident(p)]} :
                      grade' = [grade EXCEPT ![Index!Ident(p)] = g]
              ELSE grade' = grade
    BY DEF Index!Measure
  <1>2. /\ pc[p] = "measure"
        /\ UNCHANGED <<matrix, meta, disturbed, baseline, baselines, record, temp, handle,
                       overlap, shared, started, setting, vectors, basis>>
    BY DEF Index!Measure, Index!index, Index!files
  <1>3. Index!TypeOK /\ StageOK(p) /\ ResultOK
    BY DEF IndexInv
  <1>4. /\ pc' \in [Builders -> Stages] /\ pc'[p] = next
        /\ \A q \in Builders \ {p} : pc'[q] = pc[q]
    BY <1>1, <1>3, PcGoes DEF Stages
  <1>5. PICK i \in Index!Identity : i = Index!Ident(p)
    BY <1>2, <1>3 DEF StageOK, Searching, Index!Ident, Index!Identity
  <1>6. Index!Ident(p)' = i
    BY <1>2, <1>5 DEF Index!Ident
  <1>7. /\ grade' \in [Index!Identity -> (0 .. 1) \cup {None}]
        /\ GradeStays
        /\ next = "measured" => grade'[i] # None
    <2>1. grade \in [Index!Identity -> (0 .. 1) \cup {None}]
      BY <1>3 DEF Index!TypeOK
    <2>2. CASE next = "measured"
      <3>1. PICK g \in IF grade[i] = None THEN 0 .. 1 ELSE {grade[i]} :
               grade' = [grade EXCEPT ![i] = g]
        BY <1>1, <1>5, <2>2
      <3>2. g \in 0 .. 1 /\ g # None /\ (grade[i] # None => g = grade[i])
        BY <2>1, <3>1, Markers
      <3> QED
        BY <2>1, <3>1, <3>2 DEF GradeStays
    <2>3. CASE next # "measured"
      BY <1>1, <2>1, <2>3 DEF GradeStays
    <2> QED
      BY <2>2, <2>3
  <1>8. Index!TypeOK'
    BY <1>2, <1>3, <1>4, <1>7 DEF Index!TypeOK, Stages
  <1>9. StageOK(p)' /\ PaidOK(p)'
    BY <1>1, <1>2, <1>3, <1>4, <1>6, <1>7
       DEF StageOK, PaidOK, Searching, Compared, Measured
  <1>10. \A q \in Builders : StageOK(q)' /\ PaidOK(q)'
    BY <1>2, <1>4, <1>7, <1>9, StagesStay
  <1>11. BuildOK'
    BY <1>1, <1>2, <1>4, BuildStays DEF Index!Building
  <1>12. HandleOK' /\ ResultOK'
    BY <1>1, <1>2, <1>4, <1>7, HandlesStay, ResultStays
  <1>13. Index!ResultIsWhole' /\ Index!VectorsAreOwn'
    BY <1>2 DEF IndexInv, Index!ResultIsWhole, Index!VectorsAreOwn
  <1> QED
    BY <1>8, <1>10, <1>11, <1>12, <1>13 DEF IndexInv

(* Whoever opens the temporary file while another uses it overlaps. *)
LEMMA OpenTempIndexInv ==
  ASSUME IndexInv, NEW p \in Builders, Index!OpenTemp(p)
  PROVE  IndexInv'
  <1> DEFINE writers == {q \in Builders : Index!Using(q) /\ pc[q] = "writing"}
  <1>1. /\ pc[p] = "measured" /\ Index!Goes(p, "writing")
        /\ temp' = Partial /\ handle' = [handle EXCEPT ![p] = "temp"]
        /\ overlap' = (overlap \/ \E q \in Builders : Index!Using(q))
        /\ shared' = IF writers = {} THEN shared \ {p} ELSE shared \cup writers \cup {p}
        /\ UNCHANGED <<matrix, meta, disturbed, grade, baseline, baselines, record, started,
                       setting, vectors, basis>>
    BY DEF Index!OpenTemp, Index!index, Index!Share
  <1>2. Index!TypeOK /\ StageOK(p) /\ HandleOK /\ ResultOK
    BY DEF IndexInv
  <1>3. /\ pc' \in [Builders -> Stages] /\ pc'[p] = "writing"
        /\ \A q \in Builders \ {p} : pc'[q] = pc[q]
    BY <1>1, <1>2, PcGoes DEF Stages
  <1>4. /\ handle' \in [Builders -> {None, "temp", "record", "gone"}] /\ handle'[p] = "temp"
        /\ \A q \in Builders \ {p} : handle'[q] = handle[q]
    BY <1>1, <1>2 DEF Index!TypeOK
  <1>5. /\ shared' \subseteq Builders
        /\ \A q \in Builders : q \in shared' => q \in shared \/ q = p \/ pc[q] = "writing"
        /\ (\A q \in Builders : ~Index!Using(q)) => p \notin shared'
    BY <1>1, <1>2 DEF Index!TypeOK
  <1>6. overlap' \in BOOLEAN
    <2>1. (overlap \/ \E q \in Builders : Index!Using(q)) \in BOOLEAN
      BY Zenon
    <2> QED
      BY <1>1, <2>1
  <1>7. Index!TypeOK'
    BY <1>1, <1>2, <1>3, <1>4, <1>5, <1>6 DEF Index!TypeOK, Stages
  <1>8. StageOK(p)' /\ PaidOK(p)'
    <2>1. Index!Ident(p)' = Index!Ident(p)
      BY <1>1 DEF Index!Ident
    <2> QED
      BY <1>1, <1>2, <1>3, <2>1 DEF StageOK, PaidOK, Searching, Compared, Measured
  <1>9. GradeStays
    BY <1>1 DEF GradeStays
  <1>10. \A q \in Builders : StageOK(q)' /\ PaidOK(q)'
    BY <1>1, <1>3, <1>8, <1>9, StagesStay
  <1>11. BuildOK'
    <2>1. \A q \in Builders : pc[q] = "saving" /\ q \in shared' => q \in shared
      BY <1>1, <1>5
    <2> QED
      BY <1>1, <1>3, <2>1, BuildStays DEF Index!Building
  <1>12. HandleOK'
    <2>1. ASSUME NEW q \in Builders
          PROVE  /\ handle'[q] = "temp" => pc'[q] \in {"writing", "written"} /\ temp' # None
                 /\ pc'[q] \in {"writing", "written"} => handle'[q] # None
      <3>1. CASE q = p
        BY <1>1, <1>3, <1>4, <3>1, Markers
      <3>2. CASE q # p
        BY <1>1, <1>2, <1>3, <1>4, <3>2, Markers DEF HandleOK
      <3> QED
        BY <3>1, <3>2
    <2>2. ASSUME ~overlap'
          PROVE  ~overlap /\ \A q \in Builders : ~Index!Using(q)
      BY <1>1, <2>2
    <2>3. ASSUME ~overlap', NEW q \in Builders, q # p
          PROVE  handle[q] = None /\ pc[q] \notin {"writing", "written"}
      BY <1>2, <2>2, <2>3 DEF HandleOK, Index!Using
    <2>4. ASSUME ~overlap', NEW q \in Builders
          PROVE  /\ handle'[q] = IF q = p THEN "temp" ELSE None
                 /\ pc'[q] = "writing" => q \notin shared'
                 /\ pc'[q] = "written" => temp' # Partial
      BY <1>3, <1>4, <1>5, <2>2, <2>3, <2>4
    <2>5. ASSUME ~overlap', NEW q \in Builders, NEW r \in Builders,
                 handle'[q] = "temp", handle'[r] = "temp"
          PROVE  q = r
      BY <2>4, <2>5, Markers
    <2>6. ASSUME ~overlap', NEW q \in Builders
          PROVE  handle'[q] \in {None, "temp"}
      BY <2>4, <2>6
    <2> QED
      BY <2>1, <2>4, <2>5, <2>6 DEF HandleOK
  <1>13. ResultOK'
    <2>1. \A file \in {record, temp'} : file \in Index!Record => grade[file.of] # None
      BY <1>1, <1>2, Markers DEF ResultOK
    <2> QED
      BY <1>1, <2>1 DEF ResultOK
  <1>14. Index!ResultIsWhole' /\ Index!VectorsAreOwn'
    BY <1>1 DEF IndexInv, Index!ResultIsWhole, Index!VectorsAreOwn
  <1> QED
    BY <1>7, <1>10, <1>11, <1>12, <1>13, <1>14 DEF IndexInv

(* What is written is whole unless another writes the same file. *)
LEMMA CloseTempIndexInv ==
  ASSUME IndexInv, NEW p \in Builders, Index!CloseTemp(p)
  PROVE  IndexInv'
  <1> DEFINE mine == [of |-> Index!Ident(p), basis |-> basis[p]]
  <1>1. PICK content \in {mine} \cup (IF p \in shared THEN {Partial} ELSE {}) :
           /\ temp' = IF handle[p] = "temp" THEN content ELSE temp
           /\ record' = IF handle[p] = "record" THEN content ELSE record
    BY DEF Index!CloseTemp
  <1>2. /\ pc[p] = "writing" /\ Index!Goes(p, "written")
        /\ UNCHANGED <<matrix, meta, disturbed, grade, baseline, baselines, handle, overlap,
                       shared, started, setting, vectors, basis>>
    BY DEF Index!CloseTemp, Index!index
  <1>3. Index!TypeOK /\ StageOK(p) /\ HandleOK /\ ResultOK
    BY DEF IndexInv
  <1>4. /\ pc' \in [Builders -> Stages] /\ pc'[p] = "written"
        /\ \A q \in Builders \ {p} : pc'[q] = pc[q]
    BY <1>2, <1>3, PcGoes DEF Stages
  <1>5. mine \in Index!Record /\ mine.of = Index!Ident(p) /\ grade[Index!Ident(p)] # None
    <2>1. Index!Ident(p) \in Index!Identity /\ basis[p] \in Index!Baseline
      BY <1>2, <1>3 DEF StageOK, Searching, Compared, Index!Ident, Index!Identity
    <2> QED
      BY <1>2, <1>3, <2>1 DEF StageOK, Measured, Index!Record
  <1>6. /\ content \in Index!Record \cup {Partial} /\ content # None
        /\ content \in Index!Record => grade[content.of] # None
        /\ content = Partial => p \in shared
    <2>1. mine # None /\ mine # Partial
      BY <1>5, Markers
    <2> HIDE DEF mine
    <2>2. CASE content = mine
      BY <1>5, <2>1, <2>2
    <2>3. CASE content # mine
      BY <1>1, <2>3, Markers
    <2> QED
      BY <2>2, <2>3
  <1>7. Index!TypeOK'
    BY <1>1, <1>2, <1>3, <1>4, <1>6 DEF Index!TypeOK, Stages
  <1>8. StageOK(p)' /\ PaidOK(p)'
    <2>1. Index!Ident(p)' = Index!Ident(p)
      BY <1>2 DEF Index!Ident
    <2> QED
      BY <1>2, <1>3, <1>4, <2>1 DEF StageOK, PaidOK, Searching, Compared, Measured
  <1>9. GradeStays
    BY <1>2 DEF GradeStays
  <1>10. \A q \in Builders : StageOK(q)' /\ PaidOK(q)'
    BY <1>2, <1>4, <1>8, <1>9, StagesStay
  <1>11. BuildOK'
    BY <1>2, <1>4, BuildStays DEF Index!Building
  <1>12. ~overlap => p \notin shared /\ handle[p] = "temp" /\ content # Partial
    BY <1>2, <1>3, <1>6 DEF HandleOK
  <1>13. HandleOK'
    <2>1. ASSUME NEW q \in Builders
          PROVE  /\ handle[q] = "temp" => pc'[q] \in {"writing", "written"} /\ temp' # None
                 /\ pc'[q] \in {"writing", "written"} => handle[q] # None
      BY <1>1, <1>2, <1>3, <1>4, <1>6 DEF HandleOK
    <2>2. ASSUME ~overlap, NEW q \in Builders
          PROVE  /\ handle[q] \in {None, "temp"}
                 /\ pc'[q] = "writing" => q \notin shared
                 /\ pc'[q] = "written" => temp' # Partial
      BY <1>1, <1>3, <1>4, <1>12, <2>2 DEF HandleOK
    <2> QED
      BY <1>2, <1>3, <2>1, <2>2 DEF HandleOK
  <1>14. ResultOK'
    <2>1. \A file \in {record', temp'} : file \in Index!Record => grade[file.of] # None
      BY <1>1, <1>3, <1>6 DEF ResultOK
    <2> QED
      BY <1>2, <2>1 DEF ResultOK
  <1>15. Index!ResultIsWhole'
    BY <1>1, <1>2, <1>12, Markers DEF IndexInv, Index!ResultIsWhole
  <1>16. Index!VectorsAreOwn'
    BY <1>2 DEF IndexInv, Index!VectorsAreOwn
  <1> QED
    BY <1>7, <1>10, <1>11, <1>13, <1>14, <1>15, <1>16 DEF IndexInv

(* Whoever comes first has the file renamed under the others. *)
LEMMA ReplaceIndexInv ==
  ASSUME IndexInv, NEW p \in Builders, Index!Replace(p)
  PROVE  IndexInv'
  <1>1. PICK next \in {"failed", "paying"} :
           Index!Goes(p, next) /\ (next = "paying" => temp # None /\ Index!NoRegression(p))
    BY DEF Index!Replace
  <1>2. /\ pc[p] = "written"
        /\ UNCHANGED <<matrix, meta, disturbed, grade, baseline, baselines, overlap, shared,
                       started, setting, vectors, basis>>
    BY DEF Index!Replace, Index!index
  <1>3. Index!TypeOK /\ StageOK(p) /\ HandleOK /\ ResultOK
    BY DEF IndexInv
  <1>4. /\ pc' \in [Builders -> Stages] /\ pc'[p] = next
        /\ \A q \in Builders \ {p} : pc'[q] = pc[q]
    BY <1>1, <1>3, PcGoes DEF Stages
  <1>5. \/ temp = None /\ UNCHANGED <<record, temp, handle>>
        \/ temp # None /\ record' = temp /\ temp' = None
    BY DEF Index!Replace
  <1>6. /\ handle' \in [Builders -> {None, "temp", "record", "gone"}]
        /\ temp # None =>
              /\ handle'[p] = None
              /\ \A q \in Builders : /\ handle'[q] # "temp"
                                     /\ q # p /\ handle[q] # None => handle'[q] # None
                                     /\ handle[q] = None => handle'[q] = None
    <2>1. CASE temp = None
      BY <1>3, <2>1 DEF Index!Replace, Index!TypeOK
    <2>2. CASE temp # None
      <3> DEFINE moved(q) ==
             CASE q = p -> None [] q # p /\ handle[q] = "temp" -> "record"
               [] q # p /\ handle[q] = "record" -> "gone" [] OTHER -> handle[q]
      <3>1. handle' = [q \in Builders |-> moved(q)]
        BY <2>2 DEF Index!Replace
      <3>2. ASSUME NEW q \in Builders
            PROVE  /\ moved(q) \in {None, "record", "gone"}
                   /\ q = p => moved(q) = None
                   /\ q # p /\ handle[q] # None => moved(q) # None
                   /\ handle[q] = None => moved(q) = None
        <4>1. handle[q] \in {None, "temp", "record", "gone"}
          BY <1>3 DEF Index!TypeOK
        <4> QED
          BY <4>1, Markers
      <3> HIDE DEF moved
      <3> QED
        BY <3>1, <3>2, Markers
    <2> QED
      BY <2>1, <2>2
  <1>7. Index!TypeOK'
    BY <1>2, <1>3, <1>4, <1>5, <1>6 DEF Index!TypeOK, Stages
  <1>8. StageOK(p)' /\ PaidOK(p)'
    <2>1. Index!Ident(p)' = Index!Ident(p)
      BY <1>2 DEF Index!Ident
    <2>2. StageOK(p)'
      BY <1>1, <1>2, <1>3, <1>4, <2>1 DEF StageOK, Searching, Compared, Measured
    <2>3. PaidOK(p)'
      BY <1>1, <1>2, <1>4, <2>1 DEF PaidOK, Index!NoRegression
    <2> QED
      BY <2>2, <2>3
  <1>9. GradeStays
    BY <1>2 DEF GradeStays
  <1>10. \A q \in Builders : StageOK(q)' /\ PaidOK(q)'
    BY <1>2, <1>4, <1>8, <1>9, StagesStay
  <1>11. BuildOK'
    BY <1>1, <1>2, <1>4, BuildStays DEF Index!Building
  <1>12. HandleOK' /\ Index!ResultIsWhole'
    <2>1. CASE temp = None
      <3>1. UNCHANGED <<record, temp, handle>> /\ \A q \in Builders : handle[q] # "temp"
        BY <1>3, <1>5, <2>1 DEF HandleOK
      <3>2. ASSUME NEW q \in Builders
            PROVE  /\ pc'[q] \in {"writing", "written"} =>
                          q # p /\ pc[q] \in {"writing", "written"}
                   /\ ~overlap => pc[q] \notin {"writing", "written"}
        BY <1>1, <1>3, <1>4, <3>1 DEF HandleOK
      <3>3. HandleOK'
        BY <1>2, <1>3, <3>1, <3>2 DEF HandleOK
      <3> QED
        BY <1>2, <3>1, <3>3 DEF IndexInv, Index!ResultIsWhole
    <2>2. CASE temp # None
      <3>1. record' = temp /\ temp' = None
        BY <1>5, <2>2
      <3>2. ASSUME ~overlap
            PROVE  /\ temp # Partial
                   /\ \A q \in Builders \ {p} :
                         handle[q] = None /\ pc[q] \notin {"writing", "written"}
        BY <1>2, <1>3, <3>2 DEF HandleOK
      <3>3. ASSUME NEW q \in Builders
            PROVE  /\ handle'[q] # "temp"
                   /\ pc'[q] \in {"writing", "written"} => handle'[q] # None
                   /\ ~overlap => /\ handle'[q] \in {None, "temp"}
                                  /\ pc'[q] \notin {"writing", "written"}
        BY <1>1, <1>3, <1>4, <1>6, <2>2, <3>2 DEF HandleOK
      <3>4. HandleOK'
        BY <1>2, <3>3 DEF HandleOK
      <3> QED
        BY <1>2, <3>1, <3>2, <3>4 DEF Index!ResultIsWhole
    <2> QED
      BY <2>1, <2>2
  <1>13. ResultOK'
    <2>1. \A file \in {record', temp'} : file \in Index!Record => grade[file.of] # None
      BY <1>3, <1>5, Markers DEF ResultOK
    <2> QED
      BY <1>2, <2>1 DEF ResultOK
  <1>14. Index!VectorsAreOwn'
    BY <1>2 DEF IndexInv, Index!VectorsAreOwn
  <1> QED
    BY <1>7, <1>10, <1>11, <1>12, <1>13, <1>14 DEF IndexInv

LEMMA IndexInit ==
  ASSUME Index!Init
  PROVE  IndexInv
  <1>1. /\ matrix = None /\ meta = None /\ disturbed = FALSE /\ shared = {}
        /\ grade = [i \in Index!Identity |-> None] /\ baseline \in Index!Baseline \cup {None}
        /\ baselines = 0 /\ record = None /\ temp = None /\ overlap = FALSE /\ started = 0
        /\ \A p \in Builders : /\ pc[p] = "idle" /\ setting[p] = None /\ vectors[p] = None
                               /\ handle[p] = None /\ basis[p] = None
    BY DEF Index!Init
  <1>2. Index!TypeOK
    <2>1. 0 \in 0 .. MaxBaselines /\ 0 \in 0 .. MaxStarts
      BY IndexAssumption DEF Index!SettingAssumption
    <2> QED
      BY <2>1 DEF Index!Init, Index!TypeOK
  <1>3. ASSUME NEW p \in Builders
        PROVE  StageOK(p) /\ PaidOK(p)
    BY <1>1 DEF StageOK, PaidOK, Searching, Compared, Measured
  <1>4. BuildOK
    BY <1>1 DEF BuildOK, Index!Building
  <1>5. ResultOK
    BY <1>1, Markers DEF ResultOK
  <1>6. HandleOK
    BY <1>1, Markers DEF HandleOK
  <1>7. Index!ResultIsWhole /\ Index!VectorsAreOwn
    BY <1>1, Markers DEF Index!ResultIsWhole, Index!VectorsAreOwn
  <1> QED
    BY <1>2, <1>3, <1>4, <1>5, <1>6, <1>7 DEF IndexInv

LEMMA IndexStep ==
  ASSUME IndexInv, [Index!Next]_(Index!vars)
  PROVE  IndexInv'
  <1>1. CASE UNCHANGED Index!vars
    BY <1>1 DEF Index!vars, Index!index, Index!gate, Index!files, IndexInv, Index!TypeOK,
                StageOK, PaidOK, BuildOK, ResultOK, HandleOK, Index!Building, Index!Ident,
                Index!ResultIsWhole, Index!VectorsAreOwn
  <1>2. CASE Index!Approve
    BY <1>2, ApproveIndexInv
  <1>3. ASSUME NEW p \in Builders,
               \/ Index!Start(p) \/ Index!Exit(p) \/ Index!Find(p) \/ Index!Load(p)
               \/ Index!OpenMatrix(p) \/ Index!CloseMatrix(p) \/ Index!SaveMeta(p)
        PROVE  IndexInv'
    BY <1>3, StartIndexInv, ExitIndexInv, FindIndexInv, LoadIndexInv, OpenIndexInv,
       CloseIndexInv, SaveIndexInv
  <1>4. ASSUME NEW p \in Builders,
               \/ Index!ReadBaseline(p) \/ Index!ReadRecord(p) \/ Index!Measure(p)
               \/ Index!OpenTemp(p) \/ Index!CloseTemp(p) \/ Index!Replace(p)
        PROVE  IndexInv'
    BY <1>4, BaselineIndexInv, ReadIndexInv, MeasureIndexInv, OpenTempIndexInv,
       CloseTempIndexInv, ReplaceIndexInv
  <1> QED
    BY <1>1, <1>2, <1>3, <1>4 DEF Index!Next

LEMMA IndexInvSuffices ==
  ASSUME IndexInv
  PROVE  Index!IndexIsSound
  <1>1. ASSUME NEW p \in Builders, pc[p] = "paying"
        PROVE  /\ grade[Index!Ident(p)] # None
               /\ Pages[setting[p]] = basis[p].pages
               /\ grade[Index!Ident(p)] >= basis[p].grade
    BY <1>1 DEF IndexInv, StageOK, PaidOK, Measured
  <1> QED
    BY <1>1 DEF IndexInv, Index!IndexIsSound, Index!PaidIsMeasured

-------------------------------------------------------------------------------
(* The theorems. *)

LEMMA RuntimePart ==
  ASSUME [Next]_all, part' = "runtime"
  PROVE  part = "runtime" /\ [Runtime!Next]_(Runtime!vars)
  BY DEF Next, all, Runtime!vars

LEMMA IndexPart ==
  ASSUME [Next]_all, part' = "index"
  PROVE  part = "index" /\ [Index!Next]_(Index!vars)
  BY DEF Next, all, Index!vars, Index!index, Index!gate, Index!files

(* Whatever the processes that create, resume and share a run's directory, *)
(* whatever updates come between and beside them, and wherever they die:   *)
(* all its calls are paid from the ledger of its manifest, and made by its *)
(* code in every execution that no update overtakes, with the prompt that  *)
(* is read for each call; a run that has paid can be resumed; its summary  *)
(* never says more than the checkpoint (rag/agent_runtime.py).             *)
THEOREM RunCorrect == Spec => []RunIsSound
  <1> DEFINE Inv == part = "runtime" => RunInv
  <1>1. Init => Inv
    BY RunInit DEF Init
  <1>2. Inv /\ [Next]_all => Inv'
    BY RuntimePart, RunStep
  <1>3. Inv => RunIsSound
    BY RunInvSuffices DEF RunIsSound
  <1> QED
    BY <1>1, <1>2, <1>3, PTL DEF Spec

(* A resume that has the directory to itself leaves a summary that says    *)
(* what the checkpoint says, whatever those before it left behind.         *)
THEOREM SummaryCorrect == Spec => SummaryIsRepaired
  <1> DEFINE Inv == part = "runtime" => RunInv
             Repairs == part = "runtime" => Runtime!RepairsSummary
  <1>1. Init => Inv
    BY RunInit DEF Init
  <1>2. Inv /\ [Next]_all => Inv'
    BY RuntimePart, RunStep
  <1>3. Inv /\ [Next]_all => [Repairs]_all
    <2>1. [Next]_all /\ part = "runtime" => [Runtime!Next]_(Runtime!vars)
      BY DEF Next, all, Runtime!vars
    <2> QED
      BY <2>1, RunRepairs
  <1>4. Spec => [][Repairs]_all
    BY <1>1, <1>2, <1>3, PTL DEF Spec
  <1> QED
    BY <1>4 DEF SummaryIsRepaired

(* However many commands build, measure and reuse the index at once, and   *)
(* wherever they die: nothing is paid for unless the index that is         *)
(* searched was measured and answers as well as the baseline, the result   *)
(* is replaced as a whole, and a build that is alone and never cut short   *)
(* searches its own vectors (rag/corpus.py, scripts/                       *)
(* revalidate_retrieval.py).                                               *)
THEOREM IndexCorrect == Spec => []IndexIsSound
  <1> DEFINE Inv == part = "index" => IndexInv
  <1>1. Init => Inv
    BY IndexInit DEF Init
  <1>2. Inv /\ [Next]_all => Inv'
    BY IndexPart, IndexStep
  <1>3. Inv => IndexIsSound
    BY IndexInvSuffices DEF IndexIsSound
  <1> QED
    BY <1>1, <1>2, <1>3, PTL DEF Spec

===============================================================================
