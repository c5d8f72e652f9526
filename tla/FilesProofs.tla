----------------------------- MODULE FilesProofs ------------------------------
(***************************************************************************)
(* Proofs about what is written and read: the publications and renderings  *)
(* of a report, the registered sources, the collections of source pages,   *)
(* and the prompts made of them, for every value of the constants the      *)
(* configuration of MCFiles gives a small value to.                        *)
(***************************************************************************)
EXTENDS MCFiles, FiniteSetTheorems, SequenceTheorems, WellFoundedInduction, TLAPS

-------------------------------------------------------------------------------
(* A set that n distinct elements make up has n elements. *)
LEMMA ListSize ==
  ASSUME NEW n \in Nat, NEW T, NEW f \in [1 .. n -> T],
         \A i, j \in 1 .. n : f[i] = f[j] => i = j,
         \A t \in T : \E i \in 1 .. n : f[i] = t
  PROVE  IsFiniteSet(T) /\ Cardinality(T) = n
  <1>1. IsFiniteSet(1 .. n) /\ Cardinality(1 .. n) = n
    <2>1. 1 \in Int /\ n \in Int
      OBVIOUS
    <2>2. /\ IsFiniteSet(1 .. n)
          /\ Cardinality(1 .. n) = IF 1 > n THEN 0 ELSE n - 1 + 1
      BY <2>1, FS_Interval, Zenon
    <2> QED
      BY <2>2
  <1>2. f \in Bijection(1 .. n, T)
    BY DEF Bijection, Injection, Surjection, IsInjective
  <1>3. ExistsBijection(1 .. n, T)
    BY <1>2 DEF ExistsBijection
  <1> QED
    BY <1>1, <1>3, FS_Bijection

(* The components count with the same operator. *)
LEMMA SameCardinality ==
  ASSUME NEW S
  PROVE  Publisher!Cardinality(S) = Cardinality(S)
  BY DEF Publisher!Cardinality, Cardinality

-------------------------------------------------------------------------------
(* Publications. *)

(* The first n files of a publication. *)
Staged(n, body) == {[name |-> Publisher!Order[i], body |-> body] : i \in 1 .. n}

(* Until a file is written the temporary directory is empty; it is renamed *)
(* when all are there.                                                     *)
StagingOK(p) ==
    /\ pc[p] \in {"idle", "check", "load", "exists"} => staging[p] = {}
    /\ pc[p] = "stage" =>
          \E n \in 0 .. 4 : staging[p] = Staged(n, request[p].body)
    /\ pc[p] = "rename" => staging[p] = Publisher!Directory(request[p].body)

(* Past the comparison a request is the report of the run, which passed.   *)
ComparedOK(p) == pc[p] \in {"exists", "stage", "rename"} => Publisher!SameArtifacts(p)

(* Only a process that has returned has a reply. *)
ReplyOK(p) == reply[p] # "none" => pc[p] \in {"returned", "dead"}

(* Only a report has a verdict. *)
VerdictOK == snapshot.verdict # "none" => snapshot.report > 0

PublisherInv ==
    /\ Publisher!TypeOK
    /\ VerdictOK
    /\ \A p \in Publisher!Process : StagingOK(p) /\ ComparedOK(p) /\ ReplyOK(p)
    /\ Publisher!DestinationIsWhole
    /\ Publisher!PublishedWasEvaluated
    /\ Publisher!OncePerRequest
    /\ Publisher!OkIsOnDisk

(* The files of a publication, in the order they are written in. *)
LEMMA FilesNames ==
  /\ DOMAIN Publisher!Order = 1 .. 5
  /\ \A i \in 1 .. 5 : Publisher!Order[i] \in Publisher!Files
  /\ \A i, j \in 1 .. 5 : Publisher!Order[i] = Publisher!Order[j] => i = j
  BY DEF Publisher!Files, Publisher!Order

LEMMA StagedSize ==
  ASSUME NEW n \in 0 .. 5, NEW body
  PROVE  Publisher!Cardinality(Staged(n, body)) = n
  <1> DEFINE f == [i \in 1 .. n |-> [name |-> Publisher!Order[i], body |-> body]]
  <1>1. Staged(n, body) = {f[i] : i \in 1 .. n}
    BY DEF Staged
  <1>2. \A i, j \in 1 .. n : f[i] = f[j] => i = j
    <2>1. ASSUME NEW i \in 1 .. n, NEW j \in 1 .. n, f[i] = f[j]
          PROVE  i = j
      <3>1. f[i].name = Publisher!Order[i] /\ f[j].name = Publisher!Order[j]
        OBVIOUS
      <3>2. i \in 1 .. 5 /\ j \in 1 .. 5
        OBVIOUS
      <3> QED
        BY <2>1, <3>1, <3>2, FilesNames
    <2> QED
      BY <2>1
  <1>3. f \in [1 .. n -> Staged(n, body)] /\ n \in Nat
    BY <1>1
  <1>4. \A t \in Staged(n, body) : \E i \in 1 .. n : f[i] = t
    BY <1>1
  <1> HIDE DEF f
  <1> QED
    BY <1>2, <1>3, <1>4, ListSize, SameCardinality

LEMMA StagedAll ==
  ASSUME NEW body
  PROVE  /\ Staged(5, body) = Publisher!Directory(body)
         /\ Publisher!Cardinality(Publisher!Files) = 5
         /\ Publisher!Directory(body) # {}
  <1>1. Publisher!Files = {Publisher!Order[i] : i \in 1 .. 5}
    BY FilesNames DEF Publisher!Files
  <1>2. Staged(5, body) = Publisher!Directory(body)
    BY <1>1 DEF Staged, Publisher!Directory
  <1>3. Publisher!Order[1] \in Publisher!Files
    BY FilesNames
  <1>4. Publisher!Directory(body) # {}
    BY <1>3 DEF Publisher!Directory
  <1>5. Cardinality(Publisher!Files) = 5
    <2>1. Publisher!Order \in [1 .. 5 -> Publisher!Files]
      BY FilesNames DEF Publisher!Order
    <2>2. \A t \in Publisher!Files : \E i \in 1 .. 5 : Publisher!Order[i] = t
      BY <1>1
    <2>3. 5 \in Nat /\ \A i, j \in 1 .. 5 : Publisher!Order[i] = Publisher!Order[j] => i = j
      BY FilesNames
    <2> QED
      BY <2>1, <2>2, <2>3, ListSize, Zenon
  <1> QED
    BY <1>1, <1>2, <1>4, <1>5, SameCardinality

(* What is published is undisturbed by a step that publishes nothing and   *)
(* moves the snapshot only before its report has passed.                   *)
LEMMA PublishedStays ==
  ASSUME PublisherInv, UNCHANGED destination,
         snapshot' = snapshot \/ snapshot.verdict # "passed",
         \A q \in Publisher!Process :
            reply'[q] = "ok" => reply[q] = "ok" /\ request'[q] = request[q],
         status' = "completed" => status = "completed" \/ destination[OwnId] # {}
  PROVE  /\ Publisher!DestinationIsWhole' /\ Publisher!PublishedWasEvaluated'
         /\ Publisher!OncePerRequest' /\ Publisher!OkIsOnDisk'
  <1>1. Publisher!DestinationIsWhole'
    BY DEF PublisherInv, Publisher!DestinationIsWhole
  <1>2. Publisher!PublishedWasEvaluated'
    BY DEF PublisherInv, Publisher!PublishedWasEvaluated
  <1>3. Publisher!OncePerRequest'
    BY DEF PublisherInv, Publisher!OncePerRequest
  <1>4. Publisher!OkIsOnDisk'
    BY DEF PublisherInv, Publisher!OkIsOnDisk
  <1> QED
    BY <1>1, <1>2, <1>3, <1>4

(* A step of p that leaves its request and the report as they are does not *)
(* disturb the other processes.                                            *)
LEMMA PublisherAlone ==
  ASSUME PublisherInv, NEW p \in Publisher!Process, UNCHANGED <<snapshot, request>>,
         \A q \in Publisher!Process \ {p} :
            pc'[q] = pc[q] /\ staging'[q] = staging[q] /\ reply'[q] = reply[q],
         NEW q \in Publisher!Process, q # p
  PROVE  (StagingOK(q) /\ ComparedOK(q) /\ ReplyOK(q))'
  BY DEF PublisherInv, StagingOK, ComparedOK, ReplyOK, Publisher!SameArtifacts,
         Publisher!Original

(* A step of p that only moves on or returns without having published.     *)
LEMMA MovesOn ==
  ASSUME PublisherInv, NEW p \in Publisher!Process, pc[p] \in {"check", "load", "exists"},
         UNCHANGED <<snapshot, request, staging, destination, status>>,
         NEW next \in {"load", "exists", "stage", "returned"}, pc' = [pc EXCEPT ![p] = next],
         NEW code \in {"none", "invalid_response", "artifact_mismatch"},
         reply' = [reply EXCEPT ![p] = code], code # "none" => next = "returned",
         next \in {"exists", "stage"} => Publisher!SameArtifacts(p)
  PROVE  PublisherInv'
  <1>1. Publisher!TypeOK'
    BY DEF PublisherInv, Publisher!TypeOK, Publisher!None
  <1>2. /\ pc'[p] = next /\ reply'[p] = code /\ staging[p] = {}
        /\ \A q \in Publisher!Process \ {p} : pc'[q] = pc[q] /\ reply'[q] = reply[q]
    BY DEF PublisherInv, Publisher!TypeOK, StagingOK
  <1>3. StagingOK(p)' /\ ComparedOK(p)' /\ ReplyOK(p)'
    <2>1. StagingOK(p)'
      <3>1. Staged(0, request[p].body) = {}
        BY DEF Staged
      <3> QED
        BY <1>2, <3>1 DEF StagingOK
    <2>2. ComparedOK(p)'
      BY <1>2 DEF ComparedOK, Publisher!SameArtifacts, Publisher!Original
    <2> QED
      BY <1>2, <2>1, <2>2 DEF ReplyOK
  <1>4. \A q \in Publisher!Process : StagingOK(q)' /\ ComparedOK(q)' /\ ReplyOK(q)'
    BY <1>2, <1>3, PublisherAlone
  <1>5. \A q \in Publisher!Process : reply'[q] = "ok" => reply[q] = "ok"
    BY <1>2
  <1> QED
    BY <1>1, <1>4, <1>5, PublishedStays DEF PublisherInv, VerdictOK

LEMMA CheckInv ==
  ASSUME PublisherInv, NEW p \in Publisher!Process,
         Publisher!Check(p) \/ Publisher!Load(p) \/ Publisher!Exists(p)
  PROVE  PublisherInv'
  <1>1. /\ pc[p] \in {"check", "load", "exists"}
        /\ UNCHANGED <<snapshot, request, staging, destination, status>>
        /\ reply[p] = "none"
    BY DEF Publisher!Check, Publisher!Load, Publisher!Exists, PublisherInv, ReplyOK
  <1>2. reply = [reply EXCEPT ![p] = "none"]
    BY <1>1 DEF PublisherInv, Publisher!TypeOK
  <1>3. CASE pc' = [pc EXCEPT ![p] = "load"] /\ UNCHANGED reply
    BY <1>1, <1>2, <1>3, MovesOn
  <1>4. CASE pc' = [pc EXCEPT ![p] = "exists"] /\ UNCHANGED reply /\ Publisher!SameArtifacts(p)
    BY <1>1, <1>2, <1>4, MovesOn
  <1>5. CASE pc' = [pc EXCEPT ![p] = "stage"] /\ UNCHANGED reply /\ pc[p] = "exists"
    <2>1. Publisher!SameArtifacts(p)
      BY <1>5 DEF PublisherInv, ComparedOK
    <2> QED
      BY <1>1, <1>2, <1>5, <2>1, MovesOn
  <1>6. ASSUME NEW code \in {"invalid_response", "artifact_mismatch"},
               pc' = [pc EXCEPT ![p] = "returned"], reply' = [reply EXCEPT ![p] = code]
        PROVE  PublisherInv'
    BY <1>1, <1>6, MovesOn
  <1> QED
    BY <1>3, <1>4, <1>5, <1>6
       DEF Publisher!Check, Publisher!Load, Publisher!Exists, Publisher!Goes, Publisher!Returns

(* Before a report has passed nobody is past the comparison. *)
LEMMA ReportInv ==
  ASSUME PublisherInv, Publisher!Write \/ Publisher!Evaluate
  PROVE  PublisherInv'
  <1>1. /\ UNCHANGED <<pc, request, staging, destination, reply, status>>
        /\ snapshot.verdict # "passed"
    BY DEF Publisher!Write, Publisher!Evaluate, Publisher!None
  <1>2. Publisher!TypeOK'
    <2>1. CASE Publisher!Write
      BY <1>1, <2>1, PublisherAssumption
         DEF PublisherInv, Publisher!TypeOK, Publisher!Write, Publisher!IdsAssumption
    <2>2. CASE Publisher!Evaluate
      BY <1>1, <2>2 DEF PublisherInv, Publisher!TypeOK, Publisher!Evaluate
    <2> QED
      BY <2>1, <2>2
  <1>3. ASSUME NEW q \in Publisher!Process
        PROVE  (StagingOK(q) /\ ComparedOK(q) /\ ReplyOK(q))'
    BY <1>1 DEF PublisherInv, StagingOK, ComparedOK, ReplyOK, Publisher!SameArtifacts
  <1>4. VerdictOK'
    BY DEF PublisherInv, VerdictOK, Publisher!TypeOK, Publisher!Write, Publisher!Evaluate,
           Publisher!None
  <1> QED
    BY <1>1, <1>2, <1>3, <1>4, PublishedStays DEF PublisherInv

(* A request is made by a process that has none. *)
LEMMA RequestInv ==
  ASSUME PublisherInv,
         Publisher!Call \/ \E p \in Publisher!Process : Publisher!ReadRequest(p)
  PROVE  PublisherInv'
  <1>1. PICK p \in Publisher!Process, r \in Publisher!Request :
           /\ pc[p] = "idle" /\ pc' = [pc EXCEPT ![p] = "check"]
           /\ request' = [request EXCEPT ![p] = r]
    <2>1. CASE Publisher!Call
      <3> DEFINE own == [id |-> OwnId, body |-> Publisher!Original(snapshot.report),
                         passed |-> TRUE]
      <3>1. snapshot.report \in 1 .. Reports
        BY <2>1 DEF PublisherInv, VerdictOK, Publisher!TypeOK, Publisher!Call
      <3>2. own \in Publisher!Request
        BY <3>1, PublisherAssumption
           DEF Publisher!Request, Publisher!Body, Publisher!Original, Publisher!IdsAssumption
      <3>3. Publisher!Supervisor \in Publisher!Process
        BY DEF Publisher!Process
      <3> QED
        BY <2>1, <3>2, <3>3 DEF Publisher!Call, Publisher!Goes
    <2>2. CASE \E p \in Publisher!Process : Publisher!ReadRequest(p)
      BY <2>2 DEF Publisher!ReadRequest, Publisher!Goes
    <2> QED
      BY <2>1, <2>2
  <1>2. UNCHANGED <<snapshot, staging, destination, reply, status>>
    BY DEF Publisher!Call, Publisher!ReadRequest
  <1>3. /\ pc'[p] = "check" /\ staging[p] = {} /\ reply[p] = "none"
        /\ \A q \in Publisher!Process \ {p} : pc'[q] = pc[q] /\ request'[q] = request[q]
    BY <1>1 DEF PublisherInv, Publisher!TypeOK, StagingOK, ReplyOK
  <1>4. Publisher!TypeOK'
    BY <1>1, <1>2 DEF PublisherInv, Publisher!TypeOK
  <1>5. ASSUME NEW q \in Publisher!Process
        PROVE  (StagingOK(q) /\ ComparedOK(q) /\ ReplyOK(q))'
    BY <1>2, <1>3 DEF PublisherInv, StagingOK, ComparedOK, ReplyOK, Publisher!SameArtifacts
  <1> QED
    BY <1>2, <1>3, <1>4, <1>5, PublishedStays DEF PublisherInv, VerdictOK

(* An exception removes the temporary directory and publishes nothing. *)
LEMMA RaisesInv ==
  ASSUME PublisherInv, NEW p \in Publisher!Process, pc[p] \in {"stage", "rename"},
         UNCHANGED <<snapshot, request, destination, status>>,
         staging' = [staging EXCEPT ![p] = {}], pc' = [pc EXCEPT ![p] = "returned"],
         reply' = [reply EXCEPT ![p] = "render_error"]
  PROVE  PublisherInv'
  <1>1. /\ pc'[p] = "returned" /\ staging'[p] = {} /\ reply'[p] = "render_error"
        /\ \A q \in Publisher!Process \ {p} :
              pc'[q] = pc[q] /\ staging'[q] = staging[q] /\ reply'[q] = reply[q]
    BY DEF PublisherInv, Publisher!TypeOK
  <1>2. Publisher!Cardinality({}) <= Publisher!Cardinality(Publisher!Files)
    <2>1. Publisher!Cardinality({}) = 0
      BY FS_EmptySet, SameCardinality
    <2> QED
      BY <2>1, StagedAll
  <1>3. Publisher!TypeOK'
    BY <1>1, <1>2 DEF PublisherInv, Publisher!TypeOK
  <1>4. StagingOK(p)' /\ ComparedOK(p)' /\ ReplyOK(p)'
    BY <1>1 DEF StagingOK, ComparedOK, ReplyOK
  <1>5. \A q \in Publisher!Process : StagingOK(q)' /\ ComparedOK(q)' /\ ReplyOK(q)'
    BY <1>1, <1>4, PublisherAlone
  <1> QED
    BY <1>1, <1>3, <1>5, PublishedStays DEF PublisherInv, VerdictOK

LEMMA StageInv ==
  ASSUME PublisherInv, NEW p \in Publisher!Process, Publisher!Stage(p)
  PROVE  PublisherInv'
  <1>1. pc[p] = "stage" /\ UNCHANGED <<snapshot, request, destination, status>>
    BY DEF Publisher!Stage
  <1>2. CASE /\ staging' = [staging EXCEPT ![p] = {}]
             /\ Publisher!Returns(p, "render_error")
    BY <1>1, <1>2, RaisesInv DEF Publisher!Returns, Publisher!Goes
  <1>3. CASE /\ staging' = [staging EXCEPT ![p] = @ \cup {Publisher!Following(p)}]
             /\ IF Publisher!Cardinality(staging'[p]) = Publisher!Cardinality(Publisher!Files)
                THEN Publisher!Goes(p, "rename") ELSE UNCHANGED pc
             /\ UNCHANGED reply
    <2> DEFINE body == request[p].body
    <2>1. PICK n \in 0 .. 4 : staging[p] = Staged(n, body)
      BY <1>1 DEF PublisherInv, StagingOK
    <2>2. Publisher!Cardinality(staging[p]) = n
      BY <2>1, StagedSize
    <2>3. staging'[p] = Staged(n + 1, body)
      <3>1. staging'[p] = staging[p] \cup {[name |-> Publisher!Order[n + 1], body |-> body]}
        BY <1>3, <2>2 DEF PublisherInv, Publisher!TypeOK, Publisher!Following
      <3>2. 1 .. n + 1 = (1 .. n) \cup {n + 1}
        OBVIOUS
      <3> QED
        BY <2>1, <3>1, <3>2 DEF Staged
    <2>4. n + 1 \in 0 .. 5 /\ Publisher!Cardinality(Publisher!Files) = 5
      BY StagedAll
    <2>5. Publisher!Cardinality(staging'[p]) = n + 1
      BY <2>3, <2>4, StagedSize
    <2>6. /\ n = 4 => pc' = [pc EXCEPT ![p] = "rename"]
          /\ n # 4 => pc' = pc
      BY <1>3, <2>4, <2>5 DEF Publisher!Goes
    <2>7. pc' = [pc EXCEPT ![p] = IF n = 4 THEN "rename" ELSE "stage"]
      BY <1>1, <2>6 DEF PublisherInv, Publisher!TypeOK
    <2>8. /\ pc'[p] = IF n = 4 THEN "rename" ELSE "stage"
          /\ \A q \in Publisher!Process \ {p} :
                pc'[q] = pc[q] /\ staging'[q] = staging[q] /\ reply'[q] = reply[q]
      BY <1>3, <2>7 DEF PublisherInv, Publisher!TypeOK
    <2>9. Publisher!TypeOK'
      <3>1. request[p] \in Publisher!Request
        BY DEF PublisherInv, Publisher!TypeOK
      <3>2. Publisher!Following(p) \in Publisher!File
        <4>1. body \in Publisher!Body
          BY <3>1 DEF Publisher!Request
        <4>2. Publisher!Order[n + 1] \in Publisher!Files
          BY <2>4, FilesNames
        <4> QED
          BY <2>2, <4>1, <4>2 DEF Publisher!File, Publisher!Following
      <3>3. staging' \in [Publisher!Process -> SUBSET Publisher!File]
        BY <1>3, <3>2 DEF PublisherInv, Publisher!TypeOK
      <3>4. \A q \in Publisher!Process :
               Publisher!Cardinality(staging'[q]) <= Publisher!Cardinality(Publisher!Files)
        BY <2>4, <2>5, <2>8 DEF PublisherInv, Publisher!TypeOK
      <3>5. pc' \in [Publisher!Process -> {"idle", "check", "load", "exists", "stage",
                                           "rename", "returned", "dead"}]
        BY <2>7 DEF PublisherInv, Publisher!TypeOK
      <3> QED
        BY <1>1, <1>3, <3>3, <3>4, <3>5 DEF PublisherInv, Publisher!TypeOK
    <2>10. StagingOK(p)'
      <3>1. CASE n = 4
        <4>1. pc'[p] = "rename" /\ staging'[p] = Publisher!Directory(request'[p].body)
          BY <1>1, <2>3, <2>8, <3>1, StagedAll
        <4> QED
          BY <4>1 DEF StagingOK, Publisher!Directory
      <3>2. CASE n # 4
        <4>1. pc'[p] = "stage" /\ staging'[p] = Staged(n + 1, request'[p].body) /\ n + 1 \in 0 .. 4
          BY <1>1, <2>3, <2>8, <3>2
        <4> QED
          BY <4>1 DEF StagingOK, Staged
      <3> QED
        BY <3>1, <3>2
    <2>11. ComparedOK(p)' /\ ReplyOK(p)'
      BY <1>1, <1>3
         DEF PublisherInv, ComparedOK, ReplyOK, Publisher!SameArtifacts, Publisher!Original
    <2>12. \A q \in Publisher!Process : StagingOK(q)' /\ ComparedOK(q)' /\ ReplyOK(q)'
      BY <1>1, <2>8, <2>10, <2>11, PublisherAlone
    <2> QED
      BY <1>1, <1>3, <2>9, <2>12, PublishedStays DEF PublisherInv, VerdictOK
  <1> QED
    BY <1>2, <1>3 DEF Publisher!Stage

(* A publication appears in one step, where there was none, with all files *)
(* of the report that passed.                                              *)
LEMMA RenameInv ==
  ASSUME PublisherInv, NEW p \in Publisher!Process, Publisher!Rename(p)
  PROVE  PublisherInv'
  <1> DEFINE id   == request[p].id
             body == request[p].body
  <1>1. /\ pc[p] = "rename" /\ UNCHANGED <<snapshot, request, status>>
        /\ staging' = [staging EXCEPT ![p] = {}]
    BY DEF Publisher!Rename
  <1>2. CASE UNCHANGED destination /\ Publisher!Returns(p, "render_error")
    BY <1>1, <1>2, RaisesInv DEF Publisher!Returns, Publisher!Goes
  <1>3. CASE /\ destination[id] = {}
             /\ destination' = [destination EXCEPT ![id] = staging[p]]
             /\ Publisher!Returns(p, "ok")
    <2>1. /\ pc' = [pc EXCEPT ![p] = "returned"]
          /\ reply' = [reply EXCEPT ![p] = "ok"]
      BY <1>3 DEF Publisher!Returns, Publisher!Goes
    <2>2. /\ pc'[p] = "returned" /\ staging'[p] = {} /\ reply'[p] = "ok"
          /\ \A q \in Publisher!Process \ {p} :
                pc'[q] = pc[q] /\ staging'[q] = staging[q] /\ reply'[q] = reply[q]
      BY <1>1, <2>1 DEF PublisherInv, Publisher!TypeOK
    <2>3. request[p] \in Publisher!Request
      BY DEF PublisherInv, Publisher!TypeOK
    <2>4. id \in Ids /\ body \in Publisher!Body
      BY <2>3 DEF Publisher!Request
    <2>5. staging[p] = Publisher!Directory(body) /\ Publisher!Directory(body) # {}
      BY <1>1, StagedAll DEF PublisherInv, StagingOK
    <2>6. /\ destination'[id] = Publisher!Directory(body)
          /\ \A i \in Ids \ {id} : destination'[i] = destination[i]
      BY <1>3, <2>4, <2>5 DEF PublisherInv, Publisher!TypeOK
    <2>7. Publisher!TypeOK'
      <3>1. Publisher!Cardinality({}) <= Publisher!Cardinality(Publisher!Files)
        <4>1. Publisher!Cardinality({}) = 0
          BY FS_EmptySet, SameCardinality
        <4> QED
          BY <4>1, StagedAll
      <3>2. destination' \in [Ids -> SUBSET Publisher!File]
        BY <1>3, <2>4 DEF PublisherInv, Publisher!TypeOK
      <3>3. \A q \in Publisher!Process :
               Publisher!Cardinality(staging'[q]) <= Publisher!Cardinality(Publisher!Files)
        BY <2>2, <3>1 DEF PublisherInv, Publisher!TypeOK
      <3> QED
        BY <1>1, <2>1, <3>2, <3>3 DEF PublisherInv, Publisher!TypeOK
    <2>8. \A q \in Publisher!Process : StagingOK(q)' /\ ComparedOK(q)' /\ ReplyOK(q)'
      <3>1. StagingOK(p)' /\ ComparedOK(p)' /\ ReplyOK(p)'
        BY <2>2 DEF StagingOK, ComparedOK, ReplyOK
      <3> QED
        BY <1>1, <2>2, <3>1, PublisherAlone
    <2>9. Publisher!DestinationIsWhole'
      BY <2>4, <2>6 DEF PublisherInv, Publisher!DestinationIsWhole, Publisher!Directory
    <2>10. Publisher!PublishedWasEvaluated'
      <3>1. Publisher!Original(snapshot.report) = body /\ snapshot.verdict = "passed"
        BY <1>1 DEF PublisherInv, ComparedOK, Publisher!SameArtifacts
      <3>2. \A f \in Publisher!Directory(body) : f.body = body
        BY DEF Publisher!Directory
      <3>3. ASSUME NEW i \in Ids, NEW f \in destination'[i]
            PROVE  f.body = Publisher!Original(snapshot.report) /\ snapshot.verdict = "passed"
        <4>1. CASE i = id
          BY <2>6, <3>1, <3>2, <3>3, <4>1
        <4>2. CASE i # id
          BY <2>6, <3>3, <4>2 DEF PublisherInv, Publisher!PublishedWasEvaluated
        <4> QED
          BY <4>1, <4>2
      <3> QED
        BY <1>1, <3>3 DEF Publisher!PublishedWasEvaluated, Publisher!Original
    <2>11. ASSUME NEW q \in Publisher!Process, q # p, reply[q] = "ok"
           PROVE  /\ request[q].id # id /\ request[q].id \in Ids
                  /\ destination'[request[q].id] = Publisher!Directory(request[q].body)
      <3>1. /\ destination[request[q].id] = Publisher!Directory(request[q].body)
            /\ Publisher!Directory(request[q].body) # {}
        BY <2>11, StagedAll DEF PublisherInv, Publisher!OkIsOnDisk
      <3>2. request[q] \in Publisher!Request
        BY DEF PublisherInv, Publisher!TypeOK
      <3>3. request[q].id \in Ids
        BY <3>2 DEF Publisher!Request
      <3> QED
        BY <1>3, <2>6, <3>1, <3>3
    <2>12. Publisher!OncePerRequest'
      BY <1>1, <2>2, <2>11 DEF PublisherInv, Publisher!OncePerRequest
    <2>13. Publisher!OkIsOnDisk'
      <3>1. ASSUME NEW q \in Publisher!Process, reply'[q] = "ok"
            PROVE  destination'[request[q].id] = Publisher!Directory(request[q].body)
        BY <2>2, <2>6, <2>11, <3>1
      <3>2. status' = "completed" => destination'[OwnId] # {}
        BY <1>1, <2>5, <2>6, PublisherAssumption
           DEF PublisherInv, Publisher!OkIsOnDisk, Publisher!IdsAssumption
      <3> QED
        BY <1>1, <3>1, <3>2 DEF Publisher!OkIsOnDisk, Publisher!Directory
    <2> QED
      BY <1>1, <2>7, <2>8, <2>9, <2>10, <2>12, <2>13 DEF PublisherInv, VerdictOK
  <1> QED
    BY <1>2, <1>3 DEF Publisher!Rename

LEMMA RecordInv ==
  ASSUME PublisherInv, Publisher!Record
  PROVE  PublisherInv'
  <1>1. /\ UNCHANGED <<snapshot, pc, request, staging, destination, reply>>
        /\ status' \in {"completed", "incomplete"}
    BY DEF Publisher!Record
  <1>2. Publisher!TypeOK'
    BY <1>1 DEF PublisherInv, Publisher!TypeOK
  <1>3. \A q \in Publisher!Process : StagingOK(q)' /\ ComparedOK(q)' /\ ReplyOK(q)'
    BY <1>1 DEF PublisherInv, StagingOK, ComparedOK, ReplyOK, Publisher!SameArtifacts,
                Publisher!Original
  <1>4. status' = "completed" => destination[OwnId] # {}
    BY StagedAll DEF Publisher!Record
  <1> QED
    BY <1>1, <1>2, <1>3, <1>4, PublishedStays DEF PublisherInv, VerdictOK

LEMMA PublisherCrashInv ==
  ASSUME PublisherInv, NEW p \in Publisher!Process, Publisher!Crash(p)
  PROVE  PublisherInv'
  <1>1. /\ UNCHANGED <<snapshot, request, staging, destination, reply>>
        /\ pc' = [pc EXCEPT ![p] = "dead"] /\ status' \in {status, "needs_attention"}
    BY DEF Publisher!Crash, Publisher!Goes
  <1>2. pc'[p] = "dead" /\ \A q \in Publisher!Process \ {p} : pc'[q] = pc[q]
    BY <1>1 DEF PublisherInv, Publisher!TypeOK
  <1>3. Publisher!TypeOK'
    BY <1>1 DEF PublisherInv, Publisher!TypeOK
  <1>4. StagingOK(p)' /\ ComparedOK(p)' /\ ReplyOK(p)'
    BY <1>2 DEF StagingOK, ComparedOK, ReplyOK
  <1>5. \A q \in Publisher!Process : StagingOK(q)' /\ ComparedOK(q)' /\ ReplyOK(q)'
    BY <1>1, <1>2, <1>4, PublisherAlone
  <1> QED
    BY <1>1, <1>3, <1>5, PublishedStays DEF PublisherInv, VerdictOK

LEMMA PublisherStep ==
  ASSUME PublisherInv, [Publisher!Next]_(Publisher!vars)
  PROVE  PublisherInv'
  <1>1. CASE UNCHANGED Publisher!vars
    <2>1. UNCHANGED <<snapshot, pc, request, staging, destination, reply, status>>
      BY <1>1 DEF Publisher!vars
    <2>2. Publisher!TypeOK'
      BY <2>1 DEF PublisherInv, Publisher!TypeOK
    <2>3. \A q \in Publisher!Process : StagingOK(q)' /\ ComparedOK(q)' /\ ReplyOK(q)'
      BY <2>1 DEF PublisherInv, StagingOK, ComparedOK, ReplyOK, Publisher!SameArtifacts,
                  Publisher!Original
    <2> QED
      BY <2>1, <2>2, <2>3, PublishedStays DEF PublisherInv, VerdictOK
  <1>2. CASE Publisher!Write \/ Publisher!Evaluate
    BY <1>2, ReportInv
  <1>3. CASE Publisher!Call
    BY <1>3, RequestInv
  <1>4. CASE Publisher!Record
    BY <1>4, RecordInv
  <1>5. ASSUME NEW p \in Publisher!Process,
               Publisher!ReadRequest(p) \/ Publisher!Publish(p) \/ Publisher!Crash(p)
        PROVE  PublisherInv'
    BY <1>5, RequestInv, CheckInv, StageInv, RenameInv, PublisherCrashInv
       DEF Publisher!Publish
  <1> QED
    BY <1>1, <1>2, <1>3, <1>4, <1>5 DEF Publisher!Next

LEMMA PublisherInit ==
  ASSUME Publisher!Init
  PROVE  PublisherInv
  <1>1. Publisher!Cardinality({}) <= Publisher!Cardinality(Publisher!Files)
    <2>1. Publisher!Cardinality({}) = 0
      BY FS_EmptySet, SameCardinality
    <2> QED
      BY <2>1, StagedAll
  <1>2. Publisher!NoRequest \in Publisher!Request
    BY PublisherAssumption
       DEF Publisher!NoRequest, Publisher!Request, Publisher!Body, Publisher!IdsAssumption
  <1>3. Publisher!TypeOK
    BY <1>1, <1>2, PublisherAssumption
       DEF Publisher!Init, Publisher!TypeOK, Publisher!None, Publisher!IdsAssumption
  <1>4. \A q \in Publisher!Process : StagingOK(q) /\ ComparedOK(q) /\ ReplyOK(q)
    BY DEF Publisher!Init, StagingOK, ComparedOK, ReplyOK, Publisher!None
  <1>5. VerdictOK
    BY DEF Publisher!Init, VerdictOK, Publisher!None
  <1>6. Publisher!DestinationIsWhole /\ Publisher!PublishedWasEvaluated
    BY DEF Publisher!Init, Publisher!DestinationIsWhole, Publisher!PublishedWasEvaluated
  <1>7. Publisher!OncePerRequest /\ Publisher!OkIsOnDisk
    BY DEF Publisher!Init, Publisher!OncePerRequest, Publisher!OkIsOnDisk, Publisher!None
  <1> QED
    BY <1>3, <1>4, <1>5, <1>6, <1>7 DEF PublisherInv

(* However many commands publish beside the Supervisor, and wherever they  *)
(* crash: what is published is whole, is the report that passed, stays and *)
(* was acknowledged to one process per request.                            *)
THEOREM PublicationCorrect == Spec => []PublicationIsSound
  <1> DEFINE Inv == part = "publisher" => PublisherInv
  <1>1. Init => Inv
    BY PublisherInit DEF Init
  <1>2. Inv /\ [Next]_all => Inv'
    <2> SUFFICES ASSUME Inv, [Next]_all, part' = "publisher" PROVE PublisherInv'
      OBVIOUS
    <2>1. part = "publisher" /\ [Publisher!Next]_(Publisher!vars)
      BY DEF Next, all, Publisher!vars
    <2> QED
      BY <2>1, PublisherStep
  <1>3. Inv => PublicationIsSound
    BY DEF PublicationIsSound, PublisherInv, Publisher!PublicationIsSound
  <1> QED
    BY <1>1, <1>2, <1>3, PTL DEF Spec

-------------------------------------------------------------------------------
(* Renderings. *)

(* While files are written neither record claims a success; those before   *)
(* the one at hand are written, all of them when the records are.          *)
WritingOK ==
    /\ \A i \in 1 .. 7 : pc \in {<<Renderer!Order[i], "open">>, <<Renderer!Order[i], "write">>} =>
          /\ \A r \in Renderer!Records : record[r] = Renderer!Started
          /\ \A j \in 1 .. i - 1 : file[Renderer!Order[j]] = current
    /\ pc[1] = "record" => \A f \in Renderer!Files : file[f] = current

(* The record written first has the verdict the second one will have. *)
RecordingOK ==
    /\ pc # <<"idle">> => answer = "none"
    /\ current = 0 => pc = <<"idle">>
    /\ pc = <<"pending">> => record["document_validation"] = Renderer!Started
    /\ pc = <<"record", "document_validation">> =>
          record["pdf_validation"] = Renderer!Generated(current)
    /\ pc = <<"failing">> => record["document_validation"] = Renderer!Failed

RendererInv ==
    /\ Renderer!TypeOK
    /\ WritingOK
    /\ RecordingOK
    /\ Renderer!RecordIsTrue
    /\ Renderer!RecordsAgree

(* The files of a directory, in the order they are written in. *)
LEMMA RenderedNames ==
  /\ DOMAIN Renderer!Order = 1 .. 7 /\ Len(Renderer!Order) = 7
  /\ Renderer!Files = {Renderer!Order[i] : i \in 1 .. 7}
  /\ \A i \in 1 .. 7 : Renderer!Order[i] \notin {"record", "idle", "pending", "failing"}
  /\ \A i, j \in 1 .. 7 : Renderer!Order[i] = Renderer!Order[j] => i = j
  /\ Renderer!Order[1] \notin Renderer!Atomic
  BY DEF Renderer!Files, Renderer!Order, Renderer!Atomic

(* The first step of a rendering keeps the invariant. *)
LEMMA BeginInv ==
  ASSUME RendererInv, Renderer!Begin
  PROVE  RendererInv'
  <1>1. /\ pc = <<"idle">> /\ pc' = <<"pending">> /\ file' = file /\ answer' = "none"
        /\ current' = current + 1 /\ current < Renderings /\ current \in 0 .. Renderings
        /\ record' = [record EXCEPT !["document_validation"] = Renderer!Started]
    BY DEF Renderer!Begin, Renderer!Goes, RendererInv, Renderer!TypeOK
  <1>2. /\ record'["document_validation"] = Renderer!Started
        /\ record'["pdf_validation"] = record["pdf_validation"]
    BY <1>1 DEF RendererInv, Renderer!TypeOK, Renderer!Records
  <1>3. Renderer!TypeOK'
    <2>1. current' \in 0 .. Renderings
      BY <1>1, RendererAssumption DEF Renderer!RenderingsAssumption
    <2>2. <<"pending">> \in {<<"idle">>, <<"pending">>, <<"failing">>}
      OBVIOUS
    <2> QED
      BY <1>1, <2>1, <2>2 DEF RendererInv, Renderer!TypeOK
  <1>4. WritingOK'
    BY <1>1 DEF WritingOK
  <1>5. RecordingOK'
    BY <1>1, <1>2 DEF RecordingOK, Renderer!Started
  <1>6. Renderer!RecordIsTrue'
    BY <1>1, <1>2 DEF RendererInv, Renderer!RecordIsTrue, Renderer!Started, Renderer!Records
  <1>7. Renderer!RecordsAgree'
    BY <1>1 DEF Renderer!RecordsAgree
  <1> QED
    BY <1>3, <1>4, <1>5, <1>6, <1>7 DEF RendererInv

LEMMA PendingInv ==
  ASSUME RendererInv, Renderer!Pending
  PROVE  RendererInv'
  <1>1. /\ pc = <<"pending">> /\ pc' = <<Renderer!Order[1], "open">>
        /\ UNCHANGED <<current, file, answer>>
        /\ record' = [record EXCEPT !["pdf_validation"] = Renderer!Started]
    BY DEF Renderer!Pending, Renderer!Goes
  <1>2. \A r \in Renderer!Records : record'[r] = Renderer!Started
    BY <1>1 DEF RendererInv, RecordingOK, Renderer!TypeOK, Renderer!Records
  <1>3. Renderer!TypeOK'
    <2>1. <<Renderer!Order[1], "open">> \in Renderer!Writes
      BY RenderedNames DEF Renderer!Writes
    <2> QED
      BY <1>1, <2>1 DEF RendererInv, Renderer!TypeOK
  <1>4. WritingOK'
    <2>1. ASSUME NEW i \in 1 .. 7,
                 pc' \in {<<Renderer!Order[i], "open">>, <<Renderer!Order[i], "write">>}
          PROVE  i = 1
      BY <1>1, <2>1, RenderedNames
    <2>2. pc'[1] # "record"
      BY <1>1, RenderedNames
    <2>3. \A j \in 1 .. 1 - 1 : file'[Renderer!Order[j]] = current'
      OBVIOUS
    <2> QED
      BY <1>2, <2>1, <2>2, <2>3 DEF WritingOK, Renderer!Started
  <1>5. RecordingOK'
    BY <1>1, RenderedNames DEF RendererInv, RecordingOK
  <1>6. Renderer!RecordIsTrue'
    BY <1>2 DEF Renderer!RecordIsTrue, Renderer!Started
  <1>7. Renderer!RecordsAgree'
    BY <1>1 DEF Renderer!RecordsAgree
  <1> QED
    BY <1>3, <1>4, <1>5, <1>6, <1>7 DEF RendererInv

(* The step at a file, after which the directory is at another place. *)
LEMMA OpenInv ==
  ASSUME RendererInv, NEW f \in Renderer!Files, Renderer!Open(f)
  PROVE  RendererInv'
  <1>1. /\ pc = <<f, "open">> /\ pc' = <<f, "write">> /\ UNCHANGED <<current, record, answer>>
        /\ file' = [file EXCEPT ![f] = Renderer!Torn]
    BY DEF Renderer!Open, Renderer!Goes
  <1>2. PICK k \in 1 .. 7 : Renderer!Order[k] = f
    BY RenderedNames
  <1>3. /\ \A r \in Renderer!Records : record[r] = Renderer!Started
        /\ \A j \in 1 .. k - 1 : file[Renderer!Order[j]] = current
    BY <1>1, <1>2 DEF RendererInv, WritingOK
  <1>4. Renderer!TypeOK'
    <2>1. <<f, "write">> \in Renderer!Writes
      BY DEF Renderer!Writes
    <2>2. Renderer!Torn \in Renderer!Torn .. Renderings
      BY RendererAssumption DEF Renderer!Torn, Renderer!RenderingsAssumption
    <2> QED
      BY <1>1, <2>1, <2>2 DEF RendererInv, Renderer!TypeOK
  <1>5. WritingOK'
    <2>1. ASSUME NEW i \in 1 .. 7,
                 pc' \in {<<Renderer!Order[i], "open">>, <<Renderer!Order[i], "write">>}
          PROVE  i = k
      BY <1>1, <1>2, <2>1, RenderedNames
    <2>2. pc'[1] # "record"
      BY <1>1, <1>2, RenderedNames
    <2>3. \A j \in 1 .. k - 1 : file'[Renderer!Order[j]] = current'
      BY <1>1, <1>2, <1>3, RenderedNames DEF RendererInv, Renderer!TypeOK
    <2> QED
      BY <1>1, <1>3, <2>1, <2>2, <2>3 DEF WritingOK, Renderer!Started
  <1>6. RecordingOK'
    BY <1>1, <1>2, RenderedNames DEF RendererInv, RecordingOK
  <1>7. Renderer!RecordIsTrue'
    BY <1>1, <1>3 DEF Renderer!RecordIsTrue, Renderer!Started
  <1>8. Renderer!RecordsAgree'
    BY <1>1 DEF Renderer!RecordsAgree
  <1> QED
    BY <1>4, <1>5, <1>6, <1>7, <1>8 DEF RendererInv

LEMMA WriteInv ==
  ASSUME RendererInv, NEW k \in 1 .. 7, Renderer!Write(k)
  PROVE  RendererInv'
  <1>1. /\ pc = <<Renderer!Order[k], "write">> /\ UNCHANGED <<current, record, answer>>
        /\ file' = [file EXCEPT ![Renderer!Order[k]] = current]
    BY DEF Renderer!Write
  <1>2. /\ \A r \in Renderer!Records : record[r] = Renderer!Started
        /\ \A j \in 1 .. k - 1 : file[Renderer!Order[j]] = current
    BY <1>1 DEF RendererInv, WritingOK
  <1>3. \A j \in 1 .. k : file'[Renderer!Order[j]] = current
    BY <1>1, <1>2, RenderedNames DEF RendererInv, Renderer!TypeOK
  <1>4. /\ k # 7 => pc' \in {<<Renderer!Order[k + 1], "write">>, <<Renderer!Order[k + 1], "open">>}
        /\ k = 7 => pc' = <<"record", "pdf_validation">>
    BY RenderedNames DEF Renderer!Write, Renderer!Goes
  <1>5. Renderer!TypeOK'
    <2>1. pc' \in Renderer!Writes \cup {<<"record", r>> : r \in Renderer!Records}
      <3>1. CASE k = 7
        BY <1>4, <3>1 DEF Renderer!Records
      <3>2. CASE k # 7
        <4>1. k + 1 \in 1 .. 7
          BY <3>2
        <4>2. Renderer!Order[k + 1] \in Renderer!Files
          BY <4>1, RenderedNames
        <4>3. pc' = <<Renderer!Order[k + 1],
                      IF Renderer!Order[k + 1] \in Renderer!Atomic THEN "write" ELSE "open">>
          BY <3>2, RenderedNames DEF Renderer!Write, Renderer!Goes
        <4> QED
          BY <4>2, <4>3 DEF Renderer!Writes
      <3> QED
        BY <3>1, <3>2
    <2>2. current \in Renderer!Torn .. Renderings
      BY DEF RendererInv, Renderer!TypeOK, Renderer!Torn
    <2> QED
      BY <1>1, <2>1, <2>2 DEF RendererInv, Renderer!TypeOK
  <1>6. WritingOK'
    <2>1. ASSUME NEW i \in 1 .. 7,
                 pc' \in {<<Renderer!Order[i], "open">>, <<Renderer!Order[i], "write">>}
          PROVE  i = k + 1
      <3>1. CASE k = 7
        BY <1>4, <2>1, <3>1, RenderedNames
      <3>2. CASE k # 7
        <4>1. k + 1 \in 1 .. 7 /\ Renderer!Order[i] = Renderer!Order[k + 1]
          BY <1>4, <2>1, <3>2
        <4> QED
          BY <4>1, RenderedNames
      <3> QED
        BY <3>1, <3>2
    <2>2. ASSUME pc'[1] = "record"
          PROVE  \A f \in Renderer!Files : file'[f] = current'
      <3>1. k = 7
        <4>1. ASSUME k # 7
              PROVE  FALSE
          <5>1. k + 1 \in 1 .. 7 /\ pc'[1] = Renderer!Order[k + 1]
            BY <1>4, <4>1
          <5> QED
            BY <2>2, <5>1, RenderedNames
        <4> QED
          BY <4>1
      <3> QED
        BY <1>1, <1>3, <3>1, RenderedNames
    <2>3. \A j \in 1 .. k + 1 - 1 : file'[Renderer!Order[j]] = current'
      BY <1>1, <1>3
    <2> QED
      BY <1>1, <1>2, <2>1, <2>2, <2>3 DEF WritingOK, Renderer!Started
  <1>7. RecordingOK'
    <2>1. pc # <<"idle">>
      BY <1>1
    <2>2. pc' \notin {<<"idle">>, <<"pending">>, <<"failing">>, <<"record", "document_validation">>}
      <3>1. CASE k = 7
        BY <1>4, <3>1
      <3>2. CASE k # 7
        <4>1. k + 1 \in 1 .. 7
          BY <3>2
        <4> QED
          BY <1>4, <3>2, <4>1, RenderedNames
      <3> QED
        BY <3>1, <3>2
    <2> QED
      BY <1>1, <2>1, <2>2 DEF RendererInv, RecordingOK
  <1>8. Renderer!RecordIsTrue'
    BY <1>1, <1>2 DEF Renderer!RecordIsTrue, Renderer!Started
  <1>9. Renderer!RecordsAgree'
    <2>1. answer' = "none"
      BY <1>1 DEF RendererInv, RecordingOK
    <2> QED
      BY <2>1 DEF Renderer!RecordsAgree
  <1> QED
    BY <1>5, <1>6, <1>7, <1>8, <1>9 DEF RendererInv

(* The records claim a success when every file shows it. *)
LEMMA RecordsInv ==
  ASSUME RendererInv, Renderer!RecordPdf \/ Renderer!RecordDocument
  PROVE  RendererInv'
  <1>1. /\ UNCHANGED <<current, file>> /\ current \in 1 .. Renderings
        /\ \A f \in Renderer!Files : file[f] = current
    BY DEF Renderer!RecordPdf, Renderer!RecordDocument, RendererInv, Renderer!TypeOK,
           WritingOK, RecordingOK
  <1>2. Renderer!Generated(current) \in {Renderer!Generated(n) : n \in 1 .. Renderings}
    BY <1>1
  <1>3. PICK r \in Renderer!Records :
           /\ record' = [record EXCEPT ![r] = Renderer!Generated(current)]
           /\ pc = <<"record", r>>
    BY DEF Renderer!RecordPdf, Renderer!RecordDocument, Renderer!Records
  <1>4. \A s \in Renderer!Records :
           record'[s] = IF s = r THEN Renderer!Generated(current) ELSE record[s]
    BY <1>3 DEF RendererInv, Renderer!TypeOK
  <1>5. Renderer!RecordIsTrue'
    BY <1>1, <1>4 DEF RendererInv, Renderer!RecordIsTrue, Renderer!Generated
  <1>6. record' \in [Renderer!Records -> {Renderer!Started, Renderer!Failed}
                        \cup {Renderer!Generated(n) : n \in 1 .. Renderings}]
    BY <1>2, <1>3 DEF RendererInv, Renderer!TypeOK
  <1>7. CASE /\ pc = <<"record", "pdf_validation">> /\ pc' = <<"record", "document_validation">>
             /\ answer' = answer
    <2>1. r = "pdf_validation" /\ answer = "none"
      BY <1>3, <1>7 DEF RendererInv, RecordingOK
    <2>2. Renderer!TypeOK'
      BY <1>1, <1>6, <1>7 DEF RendererInv, Renderer!TypeOK, Renderer!Records
    <2>3. WritingOK'
      BY <1>1, <1>7, RenderedNames DEF WritingOK
    <2>4. RecordingOK'
      BY <1>1, <1>4, <1>7, <2>1 DEF RecordingOK, Renderer!Records, Renderer!Generated
    <2>5. Renderer!RecordsAgree'
      BY <1>7 DEF Renderer!RecordsAgree
    <2> QED
      BY <1>5, <2>2, <2>3, <2>4, <2>5 DEF RendererInv
  <1>8. CASE /\ pc = <<"record", "document_validation">> /\ pc' = <<"idle">>
             /\ answer' = "paths"
    <2>1. \A s \in Renderer!Records : record'[s] = Renderer!Generated(current)
      <3>1. r = "document_validation" /\ record["pdf_validation"] = Renderer!Generated(current)
        BY <1>3, <1>8 DEF RendererInv, RecordingOK
      <3> QED
        BY <1>4, <3>1 DEF Renderer!Records
    <2>2. Renderer!TypeOK'
      BY <1>1, <1>6, <1>8 DEF RendererInv, Renderer!TypeOK
    <2>3. WritingOK' /\ RecordingOK'
      BY <1>1, <1>8 DEF WritingOK, RecordingOK
    <2>4. Renderer!RecordsAgree'
      BY <1>1, <1>8, <2>1 DEF Renderer!RecordsAgree, Renderer!Generated
    <2> QED
      BY <1>5, <2>2, <2>3, <2>4 DEF RendererInv
  <1> QED
    BY <1>7, <1>8 DEF Renderer!RecordPdf, Renderer!RecordDocument, Renderer!Goes

LEMMA FailInv ==
  ASSUME RendererInv, Renderer!Fail \/ Renderer!Failing \/ Renderer!Crash
  PROVE  RendererInv'
  <1>1. UNCHANGED <<current, file>> /\ pc # <<"idle">>
    <2>1. ASSUME NEW f \in Renderer!Files \cup {"record"}, NEW x
          PROVE  <<f, x>> # <<"idle">>
      OBVIOUS
    <2> QED
      BY <2>1 DEF Renderer!Fail, Renderer!Failing, Renderer!Crash, Renderer!Writes
  <1>2. CASE Renderer!Fail
    <2>1. /\ record' = [record EXCEPT !["document_validation"] = Renderer!Failed]
          /\ pc' = <<"failing">> /\ answer' = answer
      BY <1>2 DEF Renderer!Fail, Renderer!Goes
    <2>2. /\ record'["document_validation"] = Renderer!Failed
          /\ record'["pdf_validation"] = record["pdf_validation"]
      BY <2>1 DEF RendererInv, Renderer!TypeOK, Renderer!Records
    <2>3. Renderer!TypeOK'
      BY <1>1, <2>1 DEF RendererInv, Renderer!TypeOK
    <2>4. WritingOK' /\ RecordingOK'
      BY <1>1, <2>1, <2>2 DEF RendererInv, WritingOK, RecordingOK, Renderer!Failed
    <2>5. Renderer!RecordIsTrue'
      BY <1>1, <2>2 DEF RendererInv, Renderer!RecordIsTrue, Renderer!Failed, Renderer!Records
    <2>6. Renderer!RecordsAgree'
      BY <2>1 DEF Renderer!RecordsAgree
    <2> QED
      BY <2>3, <2>4, <2>5, <2>6 DEF RendererInv
  <1>3. CASE Renderer!Failing
    <2>1. /\ pc = <<"failing">> /\ pc' = <<"idle">> /\ answer' = "raised"
          /\ record' = [record EXCEPT !["pdf_validation"] = Renderer!Failed]
      BY <1>3 DEF Renderer!Failing, Renderer!Goes
    <2>2. \A r \in Renderer!Records : record'[r] = Renderer!Failed
      BY <2>1 DEF RendererInv, RecordingOK, Renderer!TypeOK, Renderer!Records
    <2>3. Renderer!TypeOK'
      BY <1>1, <2>1 DEF RendererInv, Renderer!TypeOK
    <2>4. WritingOK' /\ RecordingOK'
      BY <2>1 DEF WritingOK, RecordingOK
    <2>5. Renderer!RecordIsTrue'
      BY <2>2 DEF Renderer!RecordIsTrue, Renderer!Failed
    <2>6. Renderer!RecordsAgree'
      BY <2>1, <2>2 DEF Renderer!RecordsAgree, Renderer!Failed
    <2> QED
      BY <2>3, <2>4, <2>5, <2>6 DEF RendererInv
  <1>4. CASE Renderer!Crash
    <2>1. pc' = <<"idle">> /\ answer' = "crashed" /\ record' = record
      BY <1>4 DEF Renderer!Crash, Renderer!Goes
    <2>2. Renderer!TypeOK'
      BY <1>1, <2>1 DEF RendererInv, Renderer!TypeOK
    <2>3. WritingOK' /\ RecordingOK'
      BY <2>1 DEF WritingOK, RecordingOK
    <2>4. Renderer!RecordIsTrue' /\ Renderer!RecordsAgree'
      BY <1>1, <2>1 DEF RendererInv, Renderer!RecordIsTrue, Renderer!RecordsAgree
    <2> QED
      BY <2>2, <2>3, <2>4 DEF RendererInv
  <1> QED
    BY <1>2, <1>3, <1>4

LEMMA RendererStep ==
  ASSUME RendererInv, [Renderer!Next]_(Renderer!vars)
  PROVE  RendererInv'
  <1>1. CASE UNCHANGED Renderer!vars
    <2>1. UNCHANGED <<pc, current, file, record, answer>>
      BY <1>1 DEF Renderer!vars
    <2>2. Renderer!TypeOK'
      BY <2>1 DEF RendererInv, Renderer!TypeOK
    <2>3. WritingOK' /\ RecordingOK'
      BY <2>1 DEF RendererInv, WritingOK, RecordingOK, Renderer!Generated, Renderer!Started,
                  Renderer!Failed
    <2>4. Renderer!RecordIsTrue' /\ Renderer!RecordsAgree'
      BY <2>1 DEF RendererInv, Renderer!RecordIsTrue, Renderer!RecordsAgree,
                  Renderer!Generated, Renderer!Failed
    <2> QED
      BY <2>2, <2>3, <2>4 DEF RendererInv
  <1>2. CASE Renderer!Begin \/ Renderer!Pending
    BY <1>2, BeginInv, PendingInv
  <1>3. ASSUME NEW f \in Renderer!Files, Renderer!Open(f)
        PROVE  RendererInv'
    BY <1>3, OpenInv
  <1>4. ASSUME NEW i \in DOMAIN Renderer!Order, Renderer!Write(i)
        PROVE  RendererInv'
    BY <1>4, RenderedNames, WriteInv
  <1>5. CASE \/ Renderer!RecordPdf \/ Renderer!RecordDocument
             \/ Renderer!Fail \/ Renderer!Failing \/ Renderer!Crash
    BY <1>5, RecordsInv, FailInv
  <1> QED
    BY <1>1, <1>2, <1>3, <1>4, <1>5 DEF Renderer!Next

LEMMA RendererInit ==
  ASSUME Renderer!Init
  PROVE  RendererInv
  <1>1. /\ pc = <<"idle">> /\ current = 0 /\ answer = "none"
        /\ \A r \in Renderer!Records : record[r] = Renderer!Started
    BY DEF Renderer!Init
  <1>2. Renderer!TypeOK
    BY RendererAssumption
       DEF Renderer!Init, Renderer!TypeOK, Renderer!Torn, Renderer!RenderingsAssumption
  <1>3. WritingOK /\ RecordingOK
    BY <1>1 DEF WritingOK, RecordingOK
  <1>4. Renderer!RecordIsTrue /\ Renderer!RecordsAgree
    BY <1>1 DEF Renderer!RecordIsTrue, Renderer!RecordsAgree, Renderer!Started
  <1> QED
    BY <1>2, <1>3, <1>4 DEF RendererInv

(* However often a directory is rendered, and wherever a rendering fails   *)
(* or crashes: a record of success is true of every file, and the records  *)
(* agree whenever a rendering has returned.                                *)
THEOREM RenderingCorrect == Spec => []RenderingIsSound
  <1> DEFINE Inv == part = "renderer" => RendererInv
  <1>1. Init => Inv
    BY RendererInit DEF Init
  <1>2. Inv /\ [Next]_all => Inv'
    <2> SUFFICES ASSUME Inv, [Next]_all, part' = "renderer" PROVE RendererInv'
      OBVIOUS
    <2>1. part = "renderer" /\ [Renderer!Next]_(Renderer!vars)
      BY DEF Next, all, Renderer!vars
    <2> QED
      BY <2>1, RendererStep
  <1>3. Inv => RenderingIsSound
    BY DEF RenderingIsSound, RendererInv, Renderer!RenderingIsSound
  <1> QED
    BY <1>1, <1>2, <1>3, PTL DEF Spec

-------------------------------------------------------------------------------
(* Registered sources. *)

(* Only a process that has frozen its sources, or has ended, has read any. *)
SeenOK(p) == seen[p] # {} => pc[p] \in {"generating", "idle"}

(* What has been downloaded, and decoded. *)
FetchedOK(p) ==
    /\ pc[p] \in {"downloaded", "writing"} => fetched[p] \in Versions
    /\ pc[p] = "decoded" => fetched[p] \in Versions \ Undecodable

SourcesInv ==
    /\ Sources!TypeOK
    /\ \A p \in Processes : SeenOK(p) /\ FetchedOK(p)
    /\ Sources!ReadsItsIdentity
    /\ Sources!ForgedIsNeverUsed

Stations == {"idle", "prepare", "downloaded", "writing", "decoded", "fallback",
           "prepared", "freeze", "compare", "generating", "failed", "rejected"}

LEMMA HereType ==
  ASSUME SourcesInv, NEW p \in Processes
  PROVE  Sources!Here(p) \in Sources!Web /\ Len(Sites) \in Nat \ {0}
  BY SourcesAssumption
     DEF SourcesInv, Sources!TypeOK, Sources!Here, Sources!OrderAssumption

(* The loop goes on with the next source or ends. *)
LEMMA AdvanceType ==
  ASSUME SourcesInv, NEW p \in Processes, NEW again \in Stations, NEW after \in Stations,
         Sources!Advance(p, again, after)
  PROVE  /\ at' \in [Processes -> 1 .. Len(Sites)]
         /\ \E next \in {again, after} : pc' = [pc EXCEPT ![p] = next]
  <1>1. Len(Sites) \in Nat \ {0} /\ at \in [Processes -> 1 .. Len(Sites)]
    BY HereType DEF SourcesInv, Sources!TypeOK
  <1>2. CASE at[p] < Len(Sites)
    BY <1>1, <1>2 DEF Sources!Advance, Sources!Goes
  <1>3. CASE ~(at[p] < Len(Sites))
    BY <1>1, <1>3 DEF Sources!Advance, Sources!Goes
  <1> QED
    BY <1>2, <1>3

(* A step of p that reads nothing and registers nothing. *)
LEMMA SourcesMove ==
  ASSUME SourcesInv, Sources!TypeOK', NEW p \in Processes, UNCHANGED <<registry, seen>>,
         NEW next, pc' = [pc EXCEPT ![p] = next],
         \A q \in Processes \ {p} : fetched'[q] = fetched[q],
         FetchedOK(p)', seen[p] # {} => next \in {"generating", "idle"}
  PROVE  SourcesInv'
  <1>1. pc'[p] = next /\ \A q \in Processes \ {p} : pc'[q] = pc[q]
    BY DEF SourcesInv, Sources!TypeOK
  <1>2. ASSUME NEW q \in Processes
        PROVE  SeenOK(q)' /\ FetchedOK(q)'
    <2>1. CASE q = p
      BY <1>1, <2>1 DEF SeenOK
    <2>2. CASE q # p
      BY <1>1, <2>2 DEF SourcesInv, SeenOK, FetchedOK
    <2> QED
      BY <2>1, <2>2
  <1>3. Sources!ReadsItsIdentity' /\ Sources!ForgedIsNeverUsed'
    BY DEF SourcesInv, Sources!ReadsItsIdentity, Sources!ForgedIsNeverUsed, Sources!Forged
  <1> QED
    BY <1>2, <1>3 DEF SourcesInv

(* An entry is registered before anything is read. *)
LEMMA RegisterInv ==
  ASSUME SourcesInv, NEW p \in Processes, pc[p] \in {"prepare", "decoded", "fallback"},
         NEW entry \in Sources!Entry, entry.text # "forged", Sources!Register(p, entry),
         UNCHANGED <<raw, started, refresh, fetched, frozen, seen>>,
         snapshot' \in [Sources!Web -> Sources!Snapshot]
  PROVE  SourcesInv'
  <1>1. PICK next \in {"prepare", "prepared"} : pc' = [pc EXCEPT ![p] = next]
    BY AdvanceType DEF Sources!Register, Stations
  <1>2. at' \in [Processes -> 1 .. Len(Sites)]
    BY AdvanceType DEF Sources!Register, Stations
  <1>3. registry' = [registry EXCEPT ![p][Sources!Here(p)] = entry]
    BY DEF Sources!Register
  <1>4. Sources!Here(p) \in Sources!Web /\ seen[p] = {}
    BY HereType DEF SourcesInv, SeenOK
  <1>5. Sources!TypeOK'
    BY <1>1, <1>2, <1>3, <1>4 DEF SourcesInv, Sources!TypeOK
  <1>6. /\ pc'[p] = next /\ \A q \in Processes \ {p} : pc'[q] = pc[q] /\ registry'[q] = registry[q]
        /\ \A w \in Sources!Web : registry'[p][w] \in {registry[p][w], entry}
    BY <1>1, <1>3 DEF SourcesInv, Sources!TypeOK
  <1>7. ASSUME NEW q \in Processes
        PROVE  SeenOK(q)' /\ FetchedOK(q)'
    <2>1. CASE q = p
      BY <1>4, <1>6, <2>1 DEF SeenOK, FetchedOK
    <2>2. CASE q # p
      BY <1>6, <2>2 DEF SourcesInv, SeenOK, FetchedOK
    <2> QED
      BY <2>1, <2>2
  <1>8. Sources!ReadsItsIdentity'
    BY <1>4, <1>6 DEF SourcesInv, Sources!ReadsItsIdentity
  <1>9. Sources!ForgedIsNeverUsed'
    BY <1>6 DEF SourcesInv, Sources!ForgedIsNeverUsed, Sources!Forged
  <1> QED
    BY <1>5, <1>7, <1>8, <1>9 DEF SourcesInv

(* A snapshot that verifies is one of a download, and gives an entry. *)
LEMMA EntryOfType ==
  ASSUME NEW found_snapshot \in Sources!Snapshot, found_snapshot.verified,
         NEW origin \in {"cache", "download", "stale"}
  PROVE  /\ Sources!EntryOf(found_snapshot, origin) \in Sources!Entry
         /\ Sources!EntryOf(found_snapshot, origin).text # "forged"
  <1>1. PICK v \in Versions \ Undecodable :
           found_snapshot \in [text : {v}, raw : {v, Sources!None}, verified : {TRUE}]
    <2> DEFINE none   == {Sources!NoSnapshot}
               loaded == UNION {[text : {v}, raw : {v, Sources!None}, verified : {TRUE}] :
                                   v \in Versions \ Undecodable}
               edited == [text : {Sources!Forged}, raw : Versions \cup {Sources!None},
                          verified : {FALSE}]
    <2>1. found_snapshot \in none \cup edited \cup loaded
      BY DEF Sources!Snapshot
    <2>2. found_snapshot \notin none
      BY DEF Sources!NoSnapshot
    <2>3. found_snapshot \notin edited
      OBVIOUS
    <2> HIDE DEF none, loaded, edited
    <2>4. found_snapshot \in loaded
      BY <2>1, <2>2, <2>3
    <2> QED
      BY <2>4 DEF loaded
  <1>2. Sources!EntryOf(found_snapshot, origin)
          = [origin |-> origin, text |-> v, raw |-> found_snapshot.raw]
    BY <1>1 DEF Sources!EntryOf
  <1>3. found_snapshot.raw \in {v, Sources!None}
    BY <1>1
  <1>4. Sources!EntryOf(found_snapshot, origin)
          \in [origin : {"cache", "download", "stale"}, text : {v}, raw : {v, Sources!None}]
    BY <1>2, <1>3
  <1>5. v # "forged"
    BY SourcesAssumption DEF Sources!VersionAssumption, Sources!Forged
  <1> QED
    BY <1>2, <1>4, <1>5 DEF Sources!Entry

LEMMA SourcesStart ==
  ASSUME SourcesInv, NEW p \in Processes, Sources!Start(p)
  PROVE  SourcesInv'
  <1>1. /\ pc' = [pc EXCEPT ![p] = "prepare"] /\ UNCHANGED <<raw, snapshot, fetched>>
        /\ at' = [at EXCEPT ![p] = 1] /\ started' = started + 1 /\ started < Starts
        /\ registry' = [registry EXCEPT ![p] = [w \in Sources!Web |-> Sources!NoEntry]]
        /\ frozen' = [frozen EXCEPT ![p] = [w \in Sources!Web |-> Sources!None]]
        /\ seen' = [seen EXCEPT ![p] = {}]
        /\ \E b \in BOOLEAN : refresh' = [refresh EXCEPT ![p] = b]
    BY DEF Sources!Start, Sources!Goes, Sources!disk
  <1>2. Sources!TypeOK'
    <2>1. started' \in 0 .. Starts
      BY <1>1, SourcesAssumption DEF SourcesInv, Sources!TypeOK, Sources!VersionAssumption
    <2>2. at' \in [Processes -> 1 .. Len(Sites)]
      BY <1>1, HereType DEF SourcesInv, Sources!TypeOK
    <2>3. registry' \in [Processes -> [Sources!Web -> Sources!Entry]]
      <3>1. Sources!NoEntry \in Sources!Entry
        BY DEF Sources!Entry
      <3> QED
        BY <1>1, <3>1 DEF SourcesInv, Sources!TypeOK
    <2>4. refresh' \in [Processes -> BOOLEAN]
      BY <1>1 DEF SourcesInv, Sources!TypeOK
    <2> QED
      BY <1>1, <2>1, <2>2, <2>3, <2>4 DEF SourcesInv, Sources!TypeOK
  <1>3. /\ pc'[p] = "prepare" /\ seen'[p] = {}
        /\ registry'[p] = [w \in Sources!Web |-> Sources!NoEntry]
        /\ \A q \in Processes \ {p} :
              pc'[q] = pc[q] /\ registry'[q] = registry[q] /\ seen'[q] = seen[q]
    BY <1>1 DEF SourcesInv, Sources!TypeOK
  <1>4. ASSUME NEW q \in Processes
        PROVE  SeenOK(q)' /\ FetchedOK(q)'
    <2>1. CASE q = p
      BY <1>3, <2>1 DEF SeenOK, FetchedOK
    <2>2. CASE q # p
      BY <1>1, <1>3, <2>2 DEF SourcesInv, SeenOK, FetchedOK
    <2> QED
      BY <2>1, <2>2
  <1>5. Sources!ReadsItsIdentity'
    BY <1>3 DEF SourcesInv, Sources!ReadsItsIdentity
  <1>6. Sources!ForgedIsNeverUsed'
    BY <1>3 DEF SourcesInv, Sources!ForgedIsNeverUsed, Sources!NoEntry, Sources!None,
                Sources!Forged
  <1> QED
    BY <1>2, <1>4, <1>5, <1>6 DEF SourcesInv

LEMMA ReadCachedInv ==
  ASSUME SourcesInv, NEW p \in Processes, Sources!ReadCached(p)
  PROVE  SourcesInv'
  <1> DEFINE stored == snapshot[Sources!Here(p)]
  <1>1. /\ pc[p] = "prepare"
        /\ UNCHANGED <<raw, snapshot, started, refresh, fetched, frozen, seen>>
    BY DEF Sources!ReadCached, Sources!disk
  <1>2. stored \in Sources!Snapshot /\ snapshot' \in [Sources!Web -> Sources!Snapshot]
    BY <1>1, HereType DEF SourcesInv, Sources!TypeOK
  <1>3. CASE stored.verified /\ Sources!Register(p, Sources!EntryOf(stored, "cache"))
    <2>1. /\ Sources!EntryOf(stored, "cache") \in Sources!Entry
          /\ Sources!EntryOf(stored, "cache").text # "forged"
      BY <1>2, <1>3, EntryOfType
    <2> QED
      BY <1>1, <1>2, <1>3, <2>1, RegisterInv
  <1>4. CASE Sources!Goes(p, "failed") /\ UNCHANGED <<at, registry>>
    <2>1. pc' = [pc EXCEPT ![p] = "failed"]
      BY <1>4 DEF Sources!Goes
    <2>2. Sources!TypeOK'
      BY <1>1, <1>4, <2>1 DEF SourcesInv, Sources!TypeOK
    <2>3. pc'[p] = "failed" /\ seen[p] = {}
      BY <1>1, <2>1 DEF SourcesInv, Sources!TypeOK, SeenOK
    <2>4. FetchedOK(p)'
      BY <2>3 DEF FetchedOK
    <2> QED
      BY <1>1, <1>4, <2>1, <2>2, <2>3, <2>4, SourcesMove
  <1> QED
    BY <1>3, <1>4 DEF Sources!ReadCached

LEMMA DownloadInv ==
  ASSUME SourcesInv, NEW p \in Processes, Sources!Download(p)
  PROVE  SourcesInv'
  <1>1. /\ pc[p] = "prepare"
        /\ UNCHANGED <<raw, snapshot, started, at, refresh, registry, frozen, seen>>
    BY DEF Sources!Download, Sources!disk
  <1>2. seen[p] = {}
    BY <1>1 DEF SourcesInv, SeenOK
  <1>3. ASSUME NEW v \in Versions, fetched' = [fetched EXCEPT ![p] = v],
               Sources!Goes(p, "downloaded")
        PROVE  SourcesInv'
    <2>1. pc' = [pc EXCEPT ![p] = "downloaded"]
      BY <1>3 DEF Sources!Goes
    <2>2. Sources!TypeOK'
      BY <1>1, <1>3, <2>1 DEF SourcesInv, Sources!TypeOK
    <2>3. /\ pc'[p] = "downloaded" /\ fetched'[p] = v
          /\ \A q \in Processes \ {p} : fetched'[q] = fetched[q]
      BY <1>3, <2>1 DEF SourcesInv, Sources!TypeOK
    <2>4. FetchedOK(p)'
      BY <2>3 DEF FetchedOK
    <2> QED
      BY <1>1, <1>2, <2>1, <2>2, <2>3, <2>4, SourcesMove
  <1>4. CASE UNCHANGED fetched /\ Sources!Goes(p, "fallback")
    <2>1. pc' = [pc EXCEPT ![p] = "fallback"]
      BY <1>4 DEF Sources!Goes
    <2>2. Sources!TypeOK'
      BY <1>1, <1>4, <2>1 DEF SourcesInv, Sources!TypeOK
    <2>3. pc'[p] = "fallback"
      BY <2>1 DEF SourcesInv, Sources!TypeOK
    <2>4. FetchedOK(p)'
      BY <2>3 DEF FetchedOK
    <2> QED
      BY <1>1, <1>2, <1>4, <2>1, <2>2, <2>4, SourcesMove
  <1> QED
    BY <1>3, <1>4 DEF Sources!Download

LEMMA WriteRawInv ==
  ASSUME SourcesInv, NEW p \in Processes, Sources!OpenRaw(p) \/ Sources!CloseRaw(p)
  PROVE  SourcesInv'
  <1>1. /\ pc[p] \in {"downloaded", "writing"}
        /\ UNCHANGED <<snapshot, started, at, refresh, fetched, registry, frozen, seen>>
    BY DEF Sources!OpenRaw, Sources!CloseRaw
  <1>2. fetched[p] \in Versions /\ seen[p] = {}
    BY <1>1 DEF SourcesInv, FetchedOK, SeenOK
  <1>3. raw' \in [Sources!Web -> Versions \cup {Sources!None, Sources!Torn}]
    <2>1. ASSUME NEW v \in Versions \cup {Sources!Torn},
                 raw' = [raw EXCEPT ![Sources!Here(p)] = v]
          PROVE  raw' \in [Sources!Web -> Versions \cup {Sources!None, Sources!Torn}]
      BY <2>1 DEF SourcesInv, Sources!TypeOK
    <2> QED
      BY <1>2, <2>1 DEF Sources!OpenRaw, Sources!CloseRaw
  <1>4. PICK next \in {"writing", "fallback", "decoded"} :
           /\ pc' = [pc EXCEPT ![p] = next]
           /\ next = "decoded" => fetched[p] \notin Undecodable
    BY DEF Sources!OpenRaw, Sources!CloseRaw, Sources!Goes
  <1>5. Sources!TypeOK'
    BY <1>1, <1>3, <1>4 DEF SourcesInv, Sources!TypeOK
  <1>6. pc'[p] = next
    BY <1>4 DEF SourcesInv, Sources!TypeOK
  <1>7. FetchedOK(p)'
    BY <1>1, <1>2, <1>4, <1>6 DEF FetchedOK
  <1> QED
    BY <1>1, <1>2, <1>4, <1>5, <1>7, SourcesMove

LEMMA SaveSnapshotInv ==
  ASSUME SourcesInv, NEW p \in Processes, Sources!SaveSnapshot(p)
  PROVE  SourcesInv'
  <1> DEFINE saved == [text |-> fetched[p], raw |-> fetched[p], verified |-> TRUE]
  <1>1. /\ pc[p] = "decoded" /\ snapshot' = [snapshot EXCEPT ![Sources!Here(p)] = saved]
        /\ UNCHANGED <<raw, started, refresh, fetched, frozen, seen>>
        /\ Sources!Register(p, Sources!EntryOf(snapshot'[Sources!Here(p)], "download"))
    BY DEF Sources!SaveSnapshot
  <1>2. saved \in Sources!Snapshot
    <2>1. fetched[p] \in Versions \ Undecodable
      BY <1>1 DEF SourcesInv, FetchedOK
    <2>2. saved \in [text : {fetched[p]}, raw : {fetched[p], Sources!None}, verified : {TRUE}]
      OBVIOUS
    <2> DEFINE loaded == UNION {[text : {v}, raw : {v, Sources!None}, verified : {TRUE}] :
                                   v \in Versions \ Undecodable}
    <2>3. saved \in loaded
      BY <2>1, <2>2
    <2>4. loaded \subseteq Sources!Snapshot
      BY DEF Sources!Snapshot
    <2> QED
      BY <2>3, <2>4
  <1>3. snapshot'[Sources!Here(p)] = saved /\ snapshot' \in [Sources!Web -> Sources!Snapshot]
    BY <1>1, <1>2, HereType DEF SourcesInv, Sources!TypeOK
  <1>4. /\ Sources!EntryOf(saved, "download") \in Sources!Entry
        /\ Sources!EntryOf(saved, "download").text # "forged"
    BY <1>2, EntryOfType
  <1> HIDE DEF saved
  <1> QED
    BY <1>1, <1>3, <1>4, RegisterInv

LEMMA FallBackInv ==
  ASSUME SourcesInv, NEW p \in Processes, Sources!FallBack(p)
  PROVE  SourcesInv'
  <1> DEFINE stored == snapshot[Sources!Here(p)]
             gone   == [origin |-> "unavailable", text |-> Sources!None, raw |-> Sources!None]
  <1>1. /\ pc[p] = "fallback"
        /\ UNCHANGED <<raw, snapshot, started, refresh, fetched, frozen, seen>>
        /\ Sources!Register(p, IF stored.verified THEN Sources!EntryOf(stored, "stale") ELSE gone)
    BY DEF Sources!FallBack, Sources!disk
  <1>2. stored \in Sources!Snapshot /\ snapshot' \in [Sources!Web -> Sources!Snapshot]
    BY <1>1, HereType DEF SourcesInv, Sources!TypeOK
  <1>3. CASE stored.verified
    <2>1. /\ Sources!EntryOf(stored, "stale") \in Sources!Entry
          /\ Sources!EntryOf(stored, "stale").text # "forged"
      BY <1>2, <1>3, EntryOfType
    <2>2. Sources!Register(p, Sources!EntryOf(stored, "stale"))
      BY <1>1, <1>3
    <2> QED
      BY <1>1, <1>2, <2>1, <2>2, RegisterInv
  <1>4. CASE ~stored.verified
    <2>1. gone \in Sources!Entry /\ gone.text # "forged"
      BY DEF Sources!Entry, Sources!None
    <2>2. Sources!Register(p, gone)
      BY <1>1, <1>4
    <2> HIDE DEF gone
    <2> QED
      BY <1>1, <1>2, <2>1, <2>2, RegisterInv
  <1> QED
    BY <1>3, <1>4

LEMMA SnapshotText ==
  ASSUME NEW found_snapshot \in Sources!Snapshot
  PROVE  found_snapshot.text \in Versions \cup {Sources!None, Sources!Forged}
  <1> DEFINE none   == {Sources!NoSnapshot}
             loaded == UNION {[text : {v}, raw : {v, Sources!None}, verified : {TRUE}] :
                                 v \in Versions \ Undecodable}
             edited == [text : {Sources!Forged}, raw : Versions \cup {Sources!None},
                        verified : {FALSE}]
  <1>1. found_snapshot \in none \cup edited \cup loaded
    BY DEF Sources!Snapshot
  <1>2. CASE found_snapshot \in none
    BY <1>2 DEF Sources!NoSnapshot
  <1>3. CASE found_snapshot \in edited
    BY <1>3
  <1>4. CASE found_snapshot \in loaded
    <2>1. PICK v \in Versions : found_snapshot \in [text : {v}, raw : {v, Sources!None},
                                                      verified : {TRUE}]
      BY <1>4
    <2> QED
      BY <2>1
  <1> HIDE DEF none, loaded, edited
  <1> QED
    BY <1>1, <1>2, <1>3, <1>4

(* Freezing reads the registry and registers nothing. *)
LEMMA FreezeInv ==
  ASSUME SourcesInv, NEW p \in Processes, Sources!FreezeText(p) \/ Sources!FreezeRaw(p)
  PROVE  SourcesInv'
  <1>1. /\ pc[p] \in {"prepared", "freeze", "compare"} /\ seen[p] = {}
        /\ UNCHANGED <<raw, snapshot, started, refresh, fetched, registry, seen>>
    BY DEF Sources!FreezeText, Sources!FreezeRaw, Sources!disk, SourcesInv, SeenOK
  <1>2. frozen' \in [Processes -> [Sources!Web -> Versions \cup {Sources!None, Sources!Forged}]]
    <2>1. Sources!Here(p) \in Sources!Web /\ snapshot[Sources!Here(p)] \in Sources!Snapshot
      BY HereType DEF SourcesInv, Sources!TypeOK
    <2>2. snapshot[Sources!Here(p)].text \in Versions \cup {Sources!None, Sources!Forged}
      BY <2>1, SnapshotText
    <2>3. CASE UNCHANGED frozen
      BY <2>3 DEF SourcesInv, Sources!TypeOK
    <2>4. CASE frozen' = [frozen EXCEPT ![p][Sources!Here(p)] = snapshot[Sources!Here(p)].text]
      BY <2>1, <2>2, <2>4 DEF SourcesInv, Sources!TypeOK
    <2> QED
      BY <2>3, <2>4 DEF Sources!FreezeText, Sources!FreezeRaw
  <1>3. \/ Sources!Advance(p, "freeze", "generating")
        \/ UNCHANGED at /\ \E next \in {"rejected", "compare"} : Sources!Goes(p, next)
    BY DEF Sources!FreezeText, Sources!FreezeRaw
  <1>4. /\ at' \in [Processes -> 1 .. Len(Sites)]
        /\ \E next \in {"freeze", "generating", "rejected", "compare"} :
              pc' = [pc EXCEPT ![p] = next]
    <2>1. CASE Sources!Advance(p, "freeze", "generating")
      BY <2>1, AdvanceType DEF Stations
    <2>2. CASE UNCHANGED at /\ \E next \in {"rejected", "compare"} : Sources!Goes(p, next)
      BY <2>2 DEF Sources!Goes, SourcesInv, Sources!TypeOK
    <2> QED
      BY <1>3, <2>1, <2>2
  <1>5. PICK next \in {"freeze", "generating", "rejected", "compare"} :
           pc' = [pc EXCEPT ![p] = next]
    BY <1>4
  <1>6. Sources!TypeOK'
    BY <1>1, <1>2, <1>4, <1>5 DEF SourcesInv, Sources!TypeOK
  <1>7. FetchedOK(p)'
    <2>1. pc'[p] = next
      BY <1>5 DEF SourcesInv, Sources!TypeOK
    <2> QED
      BY <2>1 DEF FetchedOK
  <1> QED
    BY <1>1, <1>5, <1>6, <1>7, SourcesMove

(* A search returns the text that is registered. *)
LEMMA SearchFrozenInv ==
  ASSUME SourcesInv, NEW p \in Processes, Sources!Search(p)
  PROVE  SourcesInv'
  <1>1. /\ pc[p] = "generating"
        /\ UNCHANGED <<raw, snapshot, started, pc, at, refresh, fetched, registry, frozen>>
    BY DEF Sources!Search, Sources!disk
  <1>2. PICK w \in Sources!Web :
           /\ frozen[p][w] = registry[p][w].text
           /\ seen' = [seen EXCEPT ![p] = @ \cup {<<w, frozen[p][w]>>}]
    BY DEF Sources!Search
  <1>3. Sources!TypeOK'
    <2>1. frozen[p][w] \in Versions \cup {Sources!None, Sources!Forged}
      BY DEF SourcesInv, Sources!TypeOK
    <2> QED
      BY <1>1, <1>2, <2>1 DEF SourcesInv, Sources!TypeOK
  <1>4. /\ seen'[p] = seen[p] \cup {<<w, frozen[p][w]>>}
        /\ \A q \in Processes \ {p} : seen'[q] = seen[q]
    BY <1>2 DEF SourcesInv, Sources!TypeOK
  <1>5. \A q \in Processes : SeenOK(q)' /\ FetchedOK(q)'
    BY <1>1, <1>4 DEF SourcesInv, SeenOK, FetchedOK
  <1>6. Sources!ReadsItsIdentity'
    <2>1. <<w, frozen[p][w]>>[2] = registry[p][<<w, frozen[p][w]>>[1]].text
      BY <1>2
    <2> QED
      BY <1>1, <1>4, <2>1 DEF SourcesInv, Sources!ReadsItsIdentity
  <1>7. Sources!ForgedIsNeverUsed'
    BY <1>1 DEF SourcesInv, Sources!ForgedIsNeverUsed, Sources!Forged
  <1> QED
    BY <1>3, <1>5, <1>6, <1>7 DEF SourcesInv

LEMMA ExitInv ==
  ASSUME SourcesInv, NEW p \in Processes, Sources!Exit(p)
  PROVE  SourcesInv'
  <1>1. /\ pc' = [pc EXCEPT ![p] = "idle"]
        /\ UNCHANGED <<raw, snapshot, started, at, refresh, fetched, registry, frozen, seen>>
    BY DEF Sources!Exit, Sources!Goes, Sources!disk
  <1>2. Sources!TypeOK'
    BY <1>1 DEF SourcesInv, Sources!TypeOK
  <1>3. FetchedOK(p)'
    <2>1. pc'[p] = "idle"
      BY <1>1 DEF SourcesInv, Sources!TypeOK
    <2> QED
      BY <2>1 DEF FetchedOK
  <1> QED
    BY <1>1, <1>2, <1>3, SourcesMove

LEMMA SourcesStep ==
  ASSUME SourcesInv, [Sources!Next]_(Sources!vars)
  PROVE  SourcesInv'
  <1>1. CASE UNCHANGED Sources!vars
    <2>1. UNCHANGED <<raw, snapshot, started, pc, at, refresh, fetched, registry, frozen, seen>>
      BY <1>1 DEF Sources!vars
    <2>2. Sources!TypeOK'
      BY <2>1 DEF SourcesInv, Sources!TypeOK
    <2>3. \A p \in Processes : SeenOK(p)' /\ FetchedOK(p)'
      BY <2>1 DEF SourcesInv, SeenOK, FetchedOK
    <2>4. Sources!ReadsItsIdentity' /\ Sources!ForgedIsNeverUsed'
      BY <2>1 DEF SourcesInv, Sources!ReadsItsIdentity, Sources!ForgedIsNeverUsed,
                  Sources!Forged
    <2> QED
      BY <2>2, <2>3, <2>4 DEF SourcesInv
  <1>2. CASE Sources!Next
    <2>1. PICK p \in Processes :
             \/ Sources!Start(p) \/ Sources!ReadCached(p) \/ Sources!Download(p)
             \/ Sources!OpenRaw(p) \/ Sources!CloseRaw(p) \/ Sources!SaveSnapshot(p)
             \/ Sources!FallBack(p) \/ Sources!FreezeText(p) \/ Sources!FreezeRaw(p)
             \/ Sources!Search(p) \/ Sources!Exit(p)
      BY <1>2 DEF Sources!Next
    <2> QED
      BY <2>1, SourcesStart, ReadCachedInv, DownloadInv, WriteRawInv, SaveSnapshotInv,
         FallBackInv, FreezeInv, SearchFrozenInv, ExitInv
  <1> QED
    BY <1>1, <1>2

(* Every file the run may find is a download or an edit of one. *)
LEMMA SourcesInit ==
  ASSUME Sources!Init
  PROVE  SourcesInv
  <1>1. Sources!ReadsItsIdentity /\ Sources!ForgedIsNeverUsed
    BY DEF Sources!Init, Sources!ReadsItsIdentity, Sources!ForgedIsNeverUsed,
           Sources!NoEntry, Sources!None, Sources!Forged
  <1>2. \A p \in Processes : SeenOK(p) /\ FetchedOK(p)
    BY DEF Sources!Init, SeenOK, FetchedOK
  <1>3. PICK v \in Versions \ Undecodable : \E s : \E r \in {v, Sources!None} :
           /\ snapshot = [w \in Sources!Web |-> s]
           /\ raw = [w \in Sources!Web |-> r]
           /\ \/ s = Sources!NoSnapshot
              \/ s = [text |-> v, raw |-> v, verified |-> TRUE]
              \/ s = [text |-> v, raw |-> Sources!None, verified |-> TRUE]
              \/ s = [text |-> Sources!Forged, raw |-> v, verified |-> FALSE]
    BY DEF Sources!Init
  <1>4. PICK s : \E r \in {v, Sources!None} :
           /\ snapshot = [w \in Sources!Web |-> s]
           /\ raw = [w \in Sources!Web |-> r]
           /\ \/ s = Sources!NoSnapshot
              \/ s = [text |-> v, raw |-> v, verified |-> TRUE]
              \/ s = [text |-> v, raw |-> Sources!None, verified |-> TRUE]
              \/ s = [text |-> Sources!Forged, raw |-> v, verified |-> FALSE]
    BY <1>3
  <1>5. s \in Sources!Snapshot
    <2> DEFINE loaded == UNION {[text : {u}, raw : {u, Sources!None}, verified : {TRUE}] :
                                   u \in Versions \ Undecodable}
               edited == [text : {Sources!Forged}, raw : Versions \cup {Sources!None},
                          verified : {FALSE}]
    <2>1. {Sources!NoSnapshot} \cup edited \cup loaded \subseteq Sources!Snapshot
      BY DEF Sources!Snapshot
    <2>2. s = [text |-> Sources!Forged, raw |-> v, verified |-> FALSE] => s \in edited
      OBVIOUS
    <2>3. ASSUME NEW r \in {v, Sources!None}, s = [text |-> v, raw |-> r, verified |-> TRUE]
          PROVE  s \in loaded
      <3>1. s \in [text : {v}, raw : {v, Sources!None}, verified : {TRUE}]
        BY <2>3
      <3> QED
        BY <3>1
    <2> HIDE DEF loaded, edited
    <2> QED
      BY <1>4, <2>1, <2>2, <2>3
  <1>6. Sources!TypeOK
    <2>1. snapshot \in [Sources!Web -> Sources!Snapshot]
      BY <1>4, <1>5
    <2>2. raw \in [Sources!Web -> Versions \cup {Sources!None, Sources!Torn}]
      BY <1>4
    <2>3. started \in 0 .. Starts
      BY SourcesAssumption DEF Sources!Init, Sources!VersionAssumption
    <2>4. at \in [Processes -> 1 .. Len(Sites)]
      BY SourcesAssumption DEF Sources!Init, Sources!OrderAssumption
    <2>5. registry \in [Processes -> [Sources!Web -> Sources!Entry]]
      <3>1. Sources!NoEntry \in Sources!Entry
        BY DEF Sources!Entry
      <3> QED
        BY <3>1 DEF Sources!Init
    <2> QED
      BY <2>1, <2>2, <2>3, <2>4, <2>5 DEF Sources!Init, Sources!TypeOK
  <1> QED
    BY <1>1, <1>2, <1>6 DEF SourcesInv

(* Any number of processes, over any number of sources, whose files they   *)
(* all write and a user may have edited: what a run reads of a source is   *)
(* the one text it has registered, and that is never an edited one.        *)
THEOREM SourcesCorrect == Spec => []SourcesAreSound
  <1> DEFINE Inv == part = "sources" => SourcesInv
  <1>1. Init => Inv
    BY SourcesInit DEF Init
  <1>2. Inv /\ [Next]_all => Inv'
    <2> SUFFICES ASSUME Inv, [Next]_all, part' = "sources" PROVE SourcesInv'
      OBVIOUS
    <2>1. part = "sources" /\ [Sources!Next]_(Sources!vars)
      BY DEF Next, all, Sources!vars
    <2> QED
      BY <2>1, SourcesStep
  <1>3. Inv => SourcesAreSound
    BY DEF SourcesAreSound, SourcesInv, Sources!SourcesAreSound
  <1> QED
    BY <1>1, <1>2, <1>3, PTL DEF Spec

-------------------------------------------------------------------------------
(* Collections. *)

PageOnFile == [page : Bodies, final : Urls]

(* What a source comes with, what is being fetched or written, and where   *)
(* the pages found so far come from.                                       *)
GivenOK ==
    registered \in [Discovery!Source -> [raw : Bodies \cup {"none", "torn"},
                                         record : [page : Bodies \cup {"none"},
                                                   final : Urls \cup {"none"}]]]

(* The budget counts bytes and writes; the links in hand are pages. *)
CountedOK ==
    /\ used \in Nat /\ moved \in Nat
    /\ steady \in BOOLEAN
    /\ todo \in Seq(Urls)

(* What is fetched lies on an official page, fits one file, and is written *)
(* before its record is.                                                   *)
ItemOK ==
    /\ pc = "fetch" => item = Discovery!Here
    /\ pc = "link" => item \in visited
    /\ pc \in {"open", "write", "record"} =>
           /\ item = Discovery!Here \/ item \in visited
           /\ fetched \in PageOnFile
           /\ fetched.final \in Scopes[Discovery!Here]
           /\ Sizes[fetched.page] <= FileBytes
    /\ pc \in {"link", "open", "write", "record"} /\ item \in visited =>
           item \in Scopes[Discovery!Here] /\ item \notin Discovery!Found
    /\ pc = "record" => raw[item] = fetched.page

(* What is found has been visited. *)
VisitedOK == Discovery!Found \subseteq visited

(* What holds of a collection whatever was collected before. *)
CollectionInv ==
    /\ Discovery!TypeOK /\ GivenOK /\ CountedOK /\ ItemOK /\ VisitedOK
    /\ Discovery!BytesWithinBudget
    /\ Discovery!OfficialOnly
    /\ Discovery!CollectedIsWhole

(* The limits of a collection are positive. *)
LEMMA LimitsOf ==
  /\ LinksPerRoot \in Nat \ {0} /\ LinksInAll \in Nat \ {0} /\ FileBytes \in Nat \ {0}
  /\ AllBytes \in Nat \ {0} /\ Collections \in Nat \ {0}
  BY DiscoveryAssumption DEF Discovery!RootsAssumption

(* The configured sources are different ones, each with a home in scope. *)
LEMMA RootsOf ==
  /\ Roots \in Seq(Discovery!Source) /\ Len(Roots) \in Nat \ {0}
  /\ DOMAIN Roots = 1 .. Len(Roots)
  /\ \A i \in 1 .. Len(Roots) : Roots[i] \in Discovery!Source
  /\ \A i, j \in 1 .. Len(Roots) : Roots[i] = Roots[j] => i = j
  /\ Homes \in [Discovery!Source -> Urls] /\ Scopes \in [Discovery!Source -> SUBSET Urls]
  /\ \A s \in Discovery!Source : Homes[s] \in Scopes[s]
  <1>1. Roots \in Seq(Discovery!Source) /\ Roots # <<>>
    BY DiscoveryAssumption DEF Discovery!RootsAssumption
  <1>2. Len(Roots) \in Nat \ {0} /\ DOMAIN Roots = 1 .. Len(Roots)
    BY <1>1, LenProperties, EmptySeq
  <1> QED
    BY <1>1, <1>2, ElementOfSeq, DiscoveryAssumption DEF Discovery!RootsAssumption

(* Pages have a size, links, and an answer or none. *)
LEMMA PagesOf ==
  /\ Sizes \in [Bodies -> Nat] /\ Blanks \subseteq Bodies
  /\ "none" \notin Bodies \cup Urls /\ "torn" \notin Bodies \cup Urls
  /\ "none" \notin Discovery!Source /\ Discovery!Source \cap Urls = {}
  /\ LinksOf \in [Bodies -> [Urls -> Seq(Urls)]]
  /\ Answers \in [Urls -> SUBSET PageOnFile]
  BY DiscoveryAssumption DEF Discovery!PagesAssumption, PageOnFile, Discovery!None, Discovery!Torn

(* The smaller of two sizes. *)
LEMMA MinOf ==
  ASSUME NEW a \in Int, NEW b \in Int
  PROVE  /\ Discovery!Min({a, b}) \in {a, b}
         /\ Discovery!Min({a, b}) <= a /\ Discovery!Min({a, b}) <= b
  <1> DEFINE P(x) == x \in {a, b} /\ \A y \in {a, b} : x <= y
  <1>1. \E x : P(x)
    <2>1. CASE a <= b
      <3>1. P(a)
        BY <2>1
      <3> QED
        BY <3>1
    <2>2. CASE b <= a
      <3>1. P(b)
        BY <2>2
      <3> QED
        BY <3>1
    <2> QED
      BY <2>1, <2>2
  <1>2. P(CHOOSE x : P(x))
    BY <1>1
  <1>3. Discovery!Min({a, b}) = CHOOSE x : P(x)
    BY DEF Discovery!Min
  <1> HIDE DEF P
  <1>4. P(Discovery!Min({a, b}))
    BY <1>2, <1>3
  <1> QED
    BY <1>4 DEF P

(* What a page costs, within the two limits. *)
LEMMA FitsOf ==
  ASSUME CollectionInv, NEW page \in Bodies \cup {"torn"}
  PROVE  /\ Discovery!SizeOf(page) \in Nat
         /\ Discovery!FitsBudget(page) <=>
                /\ Discovery!SizeOf(page) <= FileBytes
                /\ used + Discovery!SizeOf(page) <= AllBytes
  <1>1. Discovery!SizeOf(page) \in Nat
    BY PagesOf DEF Discovery!SizeOf, Discovery!Torn
  <1>2. FileBytes \in Int /\ AllBytes - used \in Int
    BY LimitsOf DEF CollectionInv, CountedOK
  <1>3. /\ Discovery!Min({FileBytes, AllBytes - used}) \in {FileBytes, AllBytes - used}
        /\ Discovery!Min({FileBytes, AllBytes - used}) <= FileBytes
        /\ Discovery!Min({FileBytes, AllBytes - used}) <= AllBytes - used
    BY <1>2, MinOf
  <1> QED
    BY <1>1, <1>2, <1>3, LimitsOf DEF Discovery!FitsBudget, CollectionInv, CountedOK

(* What is left of the budget, and what a page needs of it. *)
LEMMA AllowanceOf ==
  ASSUME CollectionInv, AllBytes - used > 1
  PROVE  /\ Discovery!Allowance \in Nat
         /\ Discovery!Allowance <= FileBytes + 1 /\ used + Discovery!Allowance <= AllBytes
  <1>1. FileBytes + 1 \in Int /\ AllBytes - used \in Int
    BY LimitsOf DEF CollectionInv, CountedOK
  <1>2. /\ Discovery!Min({AllBytes - used, FileBytes + 1}) \in {AllBytes - used, FileBytes + 1}
        /\ Discovery!Min({AllBytes - used, FileBytes + 1}) <= FileBytes + 1
        /\ Discovery!Min({AllBytes - used, FileBytes + 1}) <= AllBytes - used
    BY <1>1, MinOf
  <1> QED
    BY <1>1, <1>2, LimitsOf DEF Discovery!Allowance, CollectionInv, CountedOK

(* The source in hand is a configured one. *)
LEMMA HereOf ==
  ASSUME CollectionInv
  PROVE  /\ Discovery!Here \in Discovery!Source /\ Discovery!Here = Roots[at]
         /\ at \in 1 .. Len(Roots) /\ Len(Roots) \in Nat
         /\ Homes[Discovery!Here] \in Urls /\ Scopes[Discovery!Here] \subseteq Urls
         /\ Discovery!Here \notin Urls
  BY RootsOf, PagesOf DEF CollectionInv, Discovery!TypeOK, Discovery!Here

(* The start page on file, if it fits its record. *)
LEMMA StartOf ==
  ASSUME CollectionInv, NEW s \in Discovery!Source
  PROVE  /\ Discovery!StartFile(s) \in Bodies \cup {"none", "torn"}
         /\ Discovery!StartRecord(s).page \in Bodies \cup {"none"}
         /\ Discovery!StartRecord(s).final \in Urls \cup {"none"}
  <1>1. /\ raw[s] \in Bodies \cup {"none", "torn"}
        /\ meta[s] \in PageOnFile \cup {[page |-> "none", final |-> "none"]}
    BY DEF CollectionInv, Discovery!TypeOK, PageOnFile, Discovery!None, Discovery!Torn,
           Discovery!Unknown, Discovery!Known
  <1>2. /\ registered[s].raw \in Bodies \cup {"none", "torn"}
        /\ registered[s].record.page \in Bodies \cup {"none"}
        /\ registered[s].record.final \in Urls \cup {"none"}
    BY DEF CollectionInv, GivenOK
  <1>3. meta[s].page \in Bodies \cup {"none"} /\ meta[s].final \in Urls \cup {"none"}
    BY <1>1 DEF PageOnFile
  <1> QED
    BY <1>1, <1>2, <1>3 DEF Discovery!StartFile, Discovery!StartRecord

(* The files of what has been found are left alone. *)
LEMMA FoundStays ==
  ASSUME CollectionInv, UNCHANGED <<found, raw, meta>>, pc # "idle"
  PROVE  Discovery!OfficialOnly' /\ Discovery!CollectedIsWhole' /\ Discovery!Found' = Discovery!Found
  BY DEF CollectionInv, Discovery!OfficialOnly, Discovery!CollectedIsWhole, Discovery!Found

(* The loop goes on with the next source or ends. *)
LEMMA NextSourceOf ==
  ASSUME CollectionInv, Discovery!NextSource
  PROVE  /\ pc' \in {"start", "done"} /\ at' \in 1 .. Len(Roots)
         /\ count' \in 0 .. LinksPerRoot /\ todo' \in Seq(Urls) /\ item' = "none"
         /\ fetched' = Discovery!Unknown
  <1>1. <<>> \in Seq(Urls)
    BY EmptySeq
  <1>2. at' \in 1 .. Len(Roots)
    BY HereOf DEF Discovery!NextSource
  <1> QED
    BY <1>1, <1>2, LimitsOf DEF Discovery!NextSource, Discovery!None

(* Nothing is being fetched or written, nothing found. *)
LEMMA BetweenItems ==
  ASSUME CollectionInv, pc # "idle", pc' \in {"start", "links", "done"},
         at' \in 1 .. Len(Roots), todo' \in Seq(Urls), count' \in 0 .. LinksPerRoot,
         item' \in Discovery!Source \cup Urls \cup {"none"},
         steady' \in BOOLEAN, used' \in Nat, moved' \in Nat, moved' <= used', used' <= AllBytes,
         UNCHANGED <<registered, raw, meta, collects, refresh, attempts, visited, found, kept>>
  PROVE  CollectionInv'
  <1>1. Discovery!TypeOK'
    BY DEF CollectionInv, Discovery!TypeOK, Discovery!None
  <1>2. GivenOK' /\ CountedOK' /\ ItemOK'
    BY DEF CollectionInv, GivenOK, CountedOK, ItemOK
  <1>3. Discovery!OfficialOnly' /\ Discovery!CollectedIsWhole' /\ Discovery!Found' = Discovery!Found
    BY FoundStays
  <1>4. VisitedOK' /\ Discovery!BytesWithinBudget'
    BY <1>3 DEF CollectionInv, VisitedOK, Discovery!BytesWithinBudget
  <1> QED
    BY <1>1, <1>2, <1>3, <1>4 DEF CollectionInv

(* Each step keeps the invariant of a collection. *)
LEMMA CollectBase ==
  ASSUME CollectionInv, Discovery!Collect
  PROVE  CollectionInv'
  <1>1. /\ collects < Collections /\ collects' = collects + 1 /\ refresh' \in BOOLEAN
        /\ pc' = "start" /\ at' = 1 /\ used' = 0 /\ moved' = 0 /\ attempts' = 0 /\ count' = 0
        /\ visited' = {Homes[s] : s \in Discovery!Source} /\ todo' = <<>> /\ item' = "none"
        /\ found' = [u \in Urls |-> Discovery!NotFound] /\ steady' = TRUE
        /\ kept' = (IF refresh' THEN {} ELSE kept)
        /\ UNCHANGED <<registered, raw, meta>>
    BY DEF Discovery!Collect, Discovery!disk, Discovery!None
  <1>2. visited' \subseteq Urls
    BY <1>1, RootsOf
  <1>3. <<>> \in Seq(Urls)
    BY EmptySeq
  <1>4. Discovery!TypeOK'
    <2>1. collects' \in 0 .. Collections
      BY <1>1, LimitsOf DEF CollectionInv, Discovery!TypeOK
    <2>2. attempts' \in 0 .. LinksInAll /\ count' \in 0 .. LinksPerRoot /\ at' \in 1 .. Len(Roots)
      BY <1>1, LimitsOf, RootsOf
    <2>3. kept' \subseteq Urls
      BY <1>1 DEF CollectionInv, Discovery!TypeOK
    <2> QED
      BY <1>1, <1>2, <2>1, <2>2, <2>3 DEF CollectionInv, Discovery!TypeOK, Discovery!None
  <1>5. Discovery!Found' = {}
    BY <1>1 DEF Discovery!Found
  <1>6. GivenOK' /\ CountedOK' /\ ItemOK'
    BY <1>1, <1>3 DEF CollectionInv, GivenOK, CountedOK, ItemOK
  <1>7. VisitedOK' /\ Discovery!BytesWithinBudget' /\ Discovery!OfficialOnly' /\ Discovery!CollectedIsWhole'
    BY <1>1, <1>5, LimitsOf
       DEF VisitedOK, Discovery!BytesWithinBudget, Discovery!OfficialOnly, Discovery!CollectedIsWhole
  <1> QED
    BY <1>4, <1>6, <1>7 DEF CollectionInv

LEMMA FollowOf ==
  ASSUME CollectionInv, NEW links \in Seq(Urls), Discovery!Follow(links)
  PROVE  pc' = "links" /\ todo' = links /\ todo' \in Seq(Urls)
         /\ steady' = (steady /\ links # <<>>) /\ steady' \in BOOLEAN
  BY Zenon DEF Discovery!Follow, CollectionInv, CountedOK

LEMMA ReadStartBase ==
  ASSUME CollectionInv, Discovery!ReadStart
  PROVE  CollectionInv'
  <1> DEFINE stored == Discovery!StartFile(Discovery!Here)
             noted == Discovery!StartRecord(Discovery!Here)
  <1>1. /\ pc = "start" /\ stored # "none" /\ Discovery!FitsBudget(stored)
        /\ used' = used + Discovery!SizeOf(stored) /\ moved' = moved + Discovery!SizeOf(stored)
        /\ UNCHANGED <<registered, raw, meta, collects, refresh, attempts, visited, found, kept>>
    BY DEF Discovery!ReadStart, Discovery!Count, Discovery!disk, Discovery!None
  <1>2. stored \in Bodies \cup {"torn"} /\ noted.page \in Bodies \cup {"none"}
        /\ noted.final \in Urls \cup {"none"}
    BY <1>1, HereOf, StartOf
  <1>3. used' \in Nat /\ moved' \in Nat /\ moved' <= used' /\ used' <= AllBytes
    BY <1>1, <1>2, FitsOf DEF CollectionInv, CountedOK, Discovery!BytesWithinBudget
  <1>4. CASE Discovery!SourceFails
    <2>1. Discovery!NextSource /\ steady' = FALSE
      BY <1>4 DEF Discovery!SourceFails
    <2> QED
      BY <1>1, <1>3, <2>1, NextSourceOf, BetweenItems
  <1>5. CASE ~ (noted.page # stored \/ (noted.final # "none" /\ noted.final \notin Scopes[Discovery!Here]))
    <2>1. /\ UNCHANGED <<at, count, fetched>>
          /\ \/ pc' = "fetch" /\ item' = Discovery!Here /\ UNCHANGED <<todo, steady>>
             \/ /\ noted.final # "none"
                /\ Discovery!Follow(LinksOf[stored][noted.final]) /\ UNCHANGED item
      BY <1>1, <1>5 DEF Discovery!ReadStart, Discovery!None
    <2>2. CASE pc' = "fetch" /\ item' = Discovery!Here /\ UNCHANGED <<todo, steady>>
      <3>1. Discovery!TypeOK'
        BY <1>1, <2>1, <2>2, HereOf DEF CollectionInv, Discovery!TypeOK
      <3>2. Discovery!Here' = Discovery!Here
        BY <2>1 DEF Discovery!Here
      <3>3. GivenOK' /\ CountedOK' /\ ItemOK'
        BY <1>1, <1>3, <2>1, <2>2, <3>2 DEF CollectionInv, GivenOK, CountedOK, ItemOK
      <3>4. Discovery!OfficialOnly' /\ Discovery!CollectedIsWhole' /\ Discovery!Found' = Discovery!Found
        BY <1>1, FoundStays
      <3>5. VisitedOK' /\ Discovery!BytesWithinBudget'
        BY <1>1, <1>3, <3>4 DEF CollectionInv, VisitedOK, Discovery!BytesWithinBudget
      <3> QED
        BY <3>1, <3>3, <3>4, <3>5 DEF CollectionInv
    <2>3. CASE noted.final # "none" /\ Discovery!Follow(LinksOf[stored][noted.final]) /\ UNCHANGED item
      <3>1. LinksOf[stored][noted.final] \in Seq(Urls)
        BY <1>2, <1>5, <2>3, PagesOf
      <3>2. pc' = "links" /\ todo' \in Seq(Urls) /\ steady' \in BOOLEAN
        BY <2>3, <3>1, FollowOf
      <3>3. /\ at' \in 1 .. Len(Roots) /\ count' \in 0 .. LinksPerRoot
            /\ item' \in Discovery!Source \cup Urls \cup {"none"}
        BY <2>1, <2>3 DEF CollectionInv, Discovery!TypeOK, Discovery!None
      <3> QED
        BY <1>1, <1>3, <3>2, <3>3, BetweenItems
    <2> QED
      BY <2>1, <2>2, <2>3
  <1> QED
    BY <1>4, <1>5 DEF Discovery!ReadStart, Discovery!None

LEMMA StartTooLargeBase ==
  ASSUME CollectionInv, Discovery!StartTooLarge
  PROVE  CollectionInv'
  <1>1. /\ pc = "start" /\ Discovery!NextSource /\ steady' = FALSE
        /\ UNCHANGED <<registered, raw, meta, collects, refresh, used, attempts, visited, found,
                       moved, kept>>
    BY DEF Discovery!StartTooLarge, Discovery!SourceFails, Discovery!disk
  <1>2. used' \in Nat /\ moved' \in Nat /\ moved' <= used' /\ used' <= AllBytes
    BY <1>1 DEF CollectionInv, CountedOK, Discovery!BytesWithinBudget
  <1> QED
    BY <1>1, <1>2, NextSourceOf, BetweenItems

LEMMA NoStartBase ==
  ASSUME CollectionInv, Discovery!NoStart
  PROVE  CollectionInv'
  <1>1. /\ pc = "start" /\ pc' = "fetch" /\ item' = Discovery!Here
        /\ UNCHANGED <<registered, raw, meta, collects, at, refresh, used, attempts, count, visited,
                       todo, fetched, found, moved, steady, kept>>
    BY DEF Discovery!NoStart, Discovery!disk, Discovery!history
  <1>2. Discovery!TypeOK'
    BY <1>1, HereOf DEF CollectionInv, Discovery!TypeOK
  <1>3. Discovery!Here' = Discovery!Here
    BY <1>1 DEF Discovery!Here
  <1>4. GivenOK' /\ CountedOK' /\ ItemOK'
    BY <1>1, <1>3 DEF CollectionInv, GivenOK, CountedOK, ItemOK
  <1>5. Discovery!OfficialOnly' /\ Discovery!CollectedIsWhole' /\ Discovery!Found' = Discovery!Found
    BY <1>1, FoundStays
  <1>6. VisitedOK' /\ Discovery!BytesWithinBudget'
    BY <1>1, <1>5 DEF CollectionInv, VisitedOK, Discovery!BytesWithinBudget
  <1> QED
    BY <1>2, <1>4, <1>5, <1>6 DEF CollectionInv

(* A fetch that fails, or has nothing to spend, stays within the budget. *)
LEMMA FailedFetch ==
  ASSUME CollectionInv, Discovery!FetchFails \/ Discovery!FetchExhausted
  PROVE  used' \in Nat /\ moved' \in Nat /\ moved' <= used' /\ used' <= AllBytes
  <1>1. CASE Discovery!FetchFails
    <2>1. PICK bytes \in {0, Discovery!Allowance} :
             /\ AllBytes - used > 1 /\ used' = used + Discovery!Allowance /\ moved' = moved + bytes
      BY <1>1 DEF Discovery!FetchFails
    <2>2. /\ Discovery!Allowance \in Nat
          /\ Discovery!Allowance <= FileBytes + 1 /\ used + Discovery!Allowance <= AllBytes
      BY <2>1, AllowanceOf
    <2> QED
      BY <2>1, <2>2 DEF CollectionInv, CountedOK, Discovery!BytesWithinBudget
  <1>2. CASE Discovery!FetchExhausted
    BY <1>2 DEF Discovery!FetchExhausted, CollectionInv, CountedOK, Discovery!BytesWithinBudget
  <1> QED
    BY <1>1, <1>2

(* An answer is a page served within the scope, that fits a file. *)
LEMMA FetchedOf ==
  ASSUME CollectionInv, NEW url \in Urls, NEW response \in Answers[url], Discovery!Fetched(url, response)
  PROVE  /\ used' \in Nat /\ moved' \in Nat /\ moved' <= used' /\ used' <= AllBytes
         /\ response \in PageOnFile /\ response.final \in Scopes[Discovery!Here]
         /\ Sizes[response.page] \in Nat /\ Sizes[response.page] <= FileBytes
         /\ used' = used + Sizes[response.page]
  <1>1. /\ AllBytes - used > 1 /\ Sizes[response.page] <= Discovery!Allowance - 1
        /\ response.final \in Scopes[Discovery!Here]
        /\ used' = used + Discovery!SizeOf(response.page)
        /\ moved' = moved + Discovery!SizeOf(response.page)
    BY DEF Discovery!Fetched, Discovery!Count
  <1>2. response \in PageOnFile
    BY PagesOf
  <1>3. response.page \in Bodies
    BY <1>2 DEF PageOnFile
  <1>4. Discovery!SizeOf(response.page) = Sizes[response.page] /\ Sizes[response.page] \in Nat
    BY <1>3, PagesOf DEF Discovery!SizeOf, Discovery!Torn
  <1>5. /\ Discovery!Allowance \in Nat
        /\ Discovery!Allowance <= FileBytes + 1 /\ used + Discovery!Allowance <= AllBytes
    BY <1>1, AllowanceOf
  <1> QED
    BY <1>1, <1>2, <1>4, <1>5, LimitsOf DEF CollectionInv, CountedOK, Discovery!BytesWithinBudget

LEMMA FetchStartBase ==
  ASSUME CollectionInv, Discovery!FetchStart
  PROVE  CollectionInv'
  <1>1. /\ pc = "fetch"
        /\ UNCHANGED <<registered, raw, meta, collects, refresh, attempts, visited, found, kept>>
        /\ \/ /\ Discovery!FetchFails \/ Discovery!FetchExhausted
              /\ Discovery!NextSource /\ steady' = FALSE
           \/ /\ \E response \in Answers[Homes[Discovery!Here]] :
                    Discovery!Fetched(Homes[Discovery!Here], response) /\ fetched' = response
              /\ pc' = "open" /\ UNCHANGED <<at, count, todo, item, steady>>
    BY DEF Discovery!FetchStart, Discovery!SourceFails, Discovery!disk
  <1>2. CASE /\ Discovery!FetchFails \/ Discovery!FetchExhausted
             /\ Discovery!NextSource /\ steady' = FALSE
    BY <1>1, <1>2, FailedFetch, NextSourceOf, BetweenItems
  <1>3. CASE /\ \E response \in Answers[Homes[Discovery!Here]] :
                   Discovery!Fetched(Homes[Discovery!Here], response) /\ fetched' = response
             /\ pc' = "open" /\ UNCHANGED <<at, count, todo, item, steady>>
    <2>1. Homes[Discovery!Here] \in Urls
      BY HereOf
    <2>2. /\ used' \in Nat /\ moved' \in Nat /\ moved' <= used' /\ used' <= AllBytes
          /\ fetched' \in PageOnFile /\ fetched'.final \in Scopes[Discovery!Here]
          /\ Sizes[fetched'.page] <= FileBytes
      BY <1>3, <2>1, FetchedOf
    <2>3. Discovery!Here' = Discovery!Here /\ item = Discovery!Here /\ item \notin visited
      BY <1>1, <1>3, HereOf DEF Discovery!Here, CollectionInv, ItemOK, Discovery!TypeOK
    <2>4. Discovery!TypeOK'
      BY <1>1, <1>3 DEF CollectionInv, Discovery!TypeOK
    <2>5. GivenOK' /\ CountedOK' /\ ItemOK'
      BY <1>1, <1>3, <2>2, <2>3 DEF CollectionInv, GivenOK, CountedOK, ItemOK
    <2>6. Discovery!OfficialOnly' /\ Discovery!CollectedIsWhole' /\ Discovery!Found' = Discovery!Found
      BY <1>1, FoundStays
    <2>7. VisitedOK' /\ Discovery!BytesWithinBudget'
      BY <1>1, <2>2, <2>6 DEF CollectionInv, VisitedOK, Discovery!BytesWithinBudget
    <2> QED
      BY <2>4, <2>5, <2>6, <2>7 DEF CollectionInv
  <1> QED
    BY <1>1, <1>2, <1>3

LEMMA TakeLinkBase ==
  ASSUME CollectionInv, Discovery!TakeLink
  PROVE  CollectionInv'
  <1>1. /\ pc = "links" /\ todo # <<>> /\ count < LinksPerRoot /\ attempts < LinksInAll
        /\ todo' = Tail(todo)
        /\ IF Head(todo) \in Scopes[Discovery!Here] \ visited
           THEN /\ visited' = visited \cup {Head(todo)}
                /\ count' = count + 1 /\ attempts' = attempts + 1
                /\ pc' = "link" /\ item' = Head(todo)
           ELSE UNCHANGED <<visited, count, attempts, pc, item>>
        /\ UNCHANGED <<registered, raw, meta, collects, at, refresh, used, fetched, found, moved,
                       steady, kept>>
    BY DEF Discovery!TakeLink, Discovery!disk, Discovery!history
  <1>2. Head(todo) \in Urls /\ todo' \in Seq(Urls)
    BY <1>1, HeadTailProperties DEF CollectionInv, CountedOK
  <1>3. visited \subseteq visited' /\ visited' \subseteq Urls
    BY <1>1, <1>2 DEF CollectionInv, Discovery!TypeOK
  <1>4. Discovery!TypeOK'
    <2>1. attempts' \in 0 .. LinksInAll /\ count' \in 0 .. LinksPerRoot
      BY <1>1, LimitsOf DEF CollectionInv, Discovery!TypeOK
    <2> QED
      BY <1>1, <1>2, <1>3, <2>1 DEF CollectionInv, Discovery!TypeOK
  <1>5. Discovery!OfficialOnly' /\ Discovery!CollectedIsWhole' /\ Discovery!Found' = Discovery!Found
    BY <1>1, FoundStays
  <1>6. Discovery!Here' = Discovery!Here
    BY <1>1 DEF Discovery!Here
  <1>7. ItemOK'
    <2>1. CASE Head(todo) \in Scopes[Discovery!Here] \ visited
      <3>1. item' \in Scopes[Discovery!Here] /\ item' \notin Discovery!Found /\ item' \in visited'
        BY <1>1, <2>1 DEF CollectionInv, VisitedOK
      <3> QED
        BY <1>1, <1>5, <1>6, <2>1, <3>1 DEF ItemOK
    <2>2. CASE Head(todo) \notin Scopes[Discovery!Here] \ visited
      BY <1>1, <2>2 DEF ItemOK
    <2> QED
      BY <2>1, <2>2
  <1>8. GivenOK' /\ CountedOK'
    BY <1>1, <1>2 DEF CollectionInv, GivenOK, CountedOK
  <1>9. VisitedOK' /\ Discovery!BytesWithinBudget'
    BY <1>1, <1>3, <1>5 DEF CollectionInv, VisitedOK, Discovery!BytesWithinBudget
  <1> QED
    BY <1>4, <1>5, <1>7, <1>8, <1>9 DEF CollectionInv

LEMMA EndLinksBase ==
  ASSUME CollectionInv, Discovery!EndLinks
  PROVE  CollectionInv'
  <1>1. /\ pc = "links" /\ Discovery!NextSource
        /\ UNCHANGED <<registered, raw, meta, collects, refresh, used, attempts, visited, found,
                       moved, steady, kept>>
    BY DEF Discovery!EndLinks, Discovery!disk, Discovery!history
  <1>2. used' \in Nat /\ moved' \in Nat /\ moved' <= used' /\ used' <= AllBytes /\ steady' \in BOOLEAN
    BY <1>1 DEF CollectionInv, CountedOK, Discovery!BytesWithinBudget
  <1> QED
    BY <1>1, <1>2, NextSourceOf, BetweenItems

(* A page that is found: its files agree, within the scope. *)
LEMMA FindsOf ==
  ASSUME CollectionInv, NEW response \in PageOnFile, Discovery!Finds(response),
         pc \in {"link", "record"}, item \in visited,
         response.final \in Scopes[Discovery!Here], raw'[item] = response.page, meta'[item] = response,
         \A u \in Urls \ {item} : raw'[u] = raw[u] /\ meta'[u] = meta[u],
         raw' \in [Discovery!Source \cup Urls -> Bodies \cup {"none", "torn"}],
         meta' \in [Discovery!Source \cup Urls -> PageOnFile \cup {Discovery!Unknown}],
         used' \in Nat, moved' \in Nat, moved' <= used', used' <= AllBytes,
         UNCHANGED <<registered, collects, at, refresh, attempts, count, visited, todo, kept>>
  PROVE  CollectionInv'
  <1> DEFINE page == [page |-> response.page, final |-> response.final, from |-> Discovery!Here]
  <1>1. /\ found' = [found EXCEPT ![item] = page]
        /\ pc' = "links" /\ item' = "none" /\ UNCHANGED steady
    BY DEF Discovery!Finds, Discovery!None
  <1>2. /\ item \in Urls /\ item \in Scopes[Discovery!Here] /\ item \notin Discovery!Found
        /\ found \in [Urls -> [page : Bodies, final : Urls, from : Discovery!Source]
                                 \cup {Discovery!NotFound}]
    BY DEF CollectionInv, ItemOK, Discovery!TypeOK
  <1>3. /\ page \in [page : Bodies, final : Urls, from : Discovery!Source]
        /\ page.page = response.page /\ page.final = response.final /\ page.from = Discovery!Here
    BY HereOf DEF PageOnFile
  <1>4. page # Discovery!NotFound
    BY PagesOf DEF PageOnFile, Discovery!NotFound, Discovery!None
  <1> HIDE DEF page
  <1>5. /\ found' \in [Urls -> [page : Bodies, final : Urls, from : Discovery!Source]
                                 \cup {Discovery!NotFound}]
        /\ found'[item] = page /\ \A u \in Urls \ {item} : found'[u] = found[u]
    BY <1>1, <1>2, <1>3
  <1>6. Discovery!Found' = Discovery!Found \cup {item}
    <2>1. ASSUME NEW u \in Urls PROVE u \in Discovery!Found' <=> u \in Discovery!Found \cup {item}
      <3>1. CASE u = item
        BY <1>4, <1>5, <3>1 DEF Discovery!Found
      <3>2. CASE u # item
        BY <1>5, <3>2 DEF Discovery!Found
      <3> QED
        BY <3>1, <3>2
    <2>2. Discovery!Found' \subseteq Urls /\ Discovery!Found \cup {item} \subseteq Urls
      BY <1>2 DEF Discovery!Found
    <2> QED
      BY <2>1, <2>2
  <1>7. Discovery!TypeOK'
    BY <1>1, <1>5 DEF CollectionInv, Discovery!TypeOK, PageOnFile, Discovery!None, Discovery!Torn
  <1>8. GivenOK' /\ CountedOK' /\ ItemOK'
    BY <1>1 DEF CollectionInv, GivenOK, CountedOK, ItemOK
  <1>9. VisitedOK' /\ Discovery!BytesWithinBudget'
    BY <1>6 DEF CollectionInv, VisitedOK, Discovery!BytesWithinBudget
  <1>10. ASSUME NEW u \in Discovery!Found'
         PROVE  /\ {u, found'[u].final} \subseteq Scopes[found'[u].from]
                /\ raw'[u] = found'[u].page
                /\ meta'[u] = Discovery!Known(found'[u].page, found'[u].final)
    <2>1. CASE u = item
      <3>1. response = Discovery!Known(response.page, response.final)
        BY DEF PageOnFile, Discovery!Known
      <3> QED
        BY <1>2, <1>3, <1>5, <2>1, <3>1
    <2>2. CASE u # item
      <3>1. u \in Discovery!Found /\ u \in Urls \ {item}
        BY <1>6, <2>2 DEF Discovery!Found
      <3>2. found'[u] = found[u] /\ raw'[u] = raw[u] /\ meta'[u] = meta[u]
        BY <1>5, <3>1
      <3> QED
        BY <3>1, <3>2 DEF CollectionInv, Discovery!OfficialOnly, Discovery!CollectedIsWhole
    <2> QED
      BY <2>1, <2>2
  <1>11. Discovery!OfficialOnly'
    BY <1>10 DEF Discovery!OfficialOnly
  <1>12. Discovery!CollectedIsWhole'
    BY <1>10 DEF Discovery!CollectedIsWhole
  <1> QED
    BY <1>7, <1>8, <1>9, <1>11, <1>12 DEF CollectionInv

(* What is on file is a page that was fetched, whole or torn. *)
LEMMA OnFile ==
  ASSUME CollectionInv
  PROVE  /\ raw \in [Discovery!Source \cup Urls -> Bodies \cup {"none", "torn"}]
         /\ meta \in [Discovery!Source \cup Urls -> PageOnFile \cup {Discovery!Unknown}]
  BY DEF CollectionInv, Discovery!TypeOK, PageOnFile, Discovery!None, Discovery!Torn

LEMMA ReadLinkBase ==
  ASSUME CollectionInv, Discovery!ReadLink
  PROVE  CollectionInv'
  <1>1. /\ pc = "link" /\ raw[item] # "none" /\ meta[item] # Discovery!Unknown
        /\ UNCHANGED <<registered, raw, meta, collects, at, refresh, attempts, count, visited,
                       todo, kept>>
        /\ \/ /\ Discovery!FitsBudget(raw[item])
              /\ used' = used + Discovery!SizeOf(raw[item])
              /\ moved' = moved + Discovery!SizeOf(raw[item])
           \/ UNCHANGED <<used, moved>>
        /\ \/ /\ meta[item].page = raw[item] /\ meta[item].final \in Scopes[Discovery!Here]
              /\ Discovery!Finds(meta[item])
           \/ Discovery!LinkFails /\ UNCHANGED found
    BY DEF Discovery!ReadLink, Discovery!Cached, Discovery!Count, Discovery!disk, Discovery!None
  <1>2. item \in visited /\ item \in Urls
    BY <1>1 DEF CollectionInv, ItemOK, Discovery!TypeOK
  <1>3. raw[item] \in Bodies \cup {"torn"} /\ meta[item] \in PageOnFile
    BY <1>1, <1>2, OnFile
  <1>4. used' \in Nat /\ moved' \in Nat /\ moved' <= used' /\ used' <= AllBytes
    BY <1>1, <1>3, FitsOf DEF CollectionInv, CountedOK, Discovery!BytesWithinBudget
  <1>5. CASE /\ meta[item].page = raw[item] /\ meta[item].final \in Scopes[Discovery!Here]
             /\ Discovery!Finds(meta[item])
    BY <1>1, <1>2, <1>3, <1>4, <1>5, OnFile, FindsOf
  <1>6. CASE Discovery!LinkFails /\ UNCHANGED found
    <2>1. pc' = "links" /\ item' = "none" /\ steady' = FALSE
      BY <1>6 DEF Discovery!LinkFails, Discovery!None
    <2>2. /\ at' \in 1 .. Len(Roots) /\ todo' \in Seq(Urls) /\ count' \in 0 .. LinksPerRoot
      BY <1>1 DEF CollectionInv, Discovery!TypeOK, CountedOK
    <2> QED
      BY <1>1, <1>4, <1>6, <2>1, <2>2, BetweenItems
  <1> QED
    BY <1>1, <1>5, <1>6

LEMMA FetchLinkBase ==
  ASSUME CollectionInv, Discovery!FetchLink
  PROVE  CollectionInv'
  <1>1. /\ pc = "link"
        /\ UNCHANGED <<registered, raw, meta, collects, at, refresh, attempts, count, visited,
                       todo, found, kept>>
        /\ \/ Discovery!FetchFails \/ Discovery!FetchExhausted
           \/ \E response \in Answers[item] : Discovery!Fetched(item, response)
        /\ \/ Discovery!LinkFails
           \/ /\ \E response \in Answers[item] : Discovery!Fetched(item, response) /\ fetched' = response
              /\ pc' = "open" /\ UNCHANGED <<item, steady>>
    BY DEF Discovery!FetchLink, Discovery!disk
  <1>2. item \in visited /\ item \in Urls
    BY <1>1 DEF CollectionInv, ItemOK, Discovery!TypeOK
  <1>3. used' \in Nat /\ moved' \in Nat /\ moved' <= used' /\ used' <= AllBytes
    BY <1>1, <1>2, FailedFetch, FetchedOf
  <1>4. CASE Discovery!LinkFails
    <2>1. pc' = "links" /\ item' = "none" /\ steady' = FALSE
      BY <1>4 DEF Discovery!LinkFails, Discovery!None
    <2>2. /\ at' \in 1 .. Len(Roots) /\ todo' \in Seq(Urls) /\ count' \in 0 .. LinksPerRoot
      BY <1>1 DEF CollectionInv, Discovery!TypeOK, CountedOK
    <2> QED
      BY <1>1, <1>3, <2>1, <2>2, BetweenItems
  <1>5. CASE /\ \E response \in Answers[item] : Discovery!Fetched(item, response) /\ fetched' = response
             /\ pc' = "open" /\ UNCHANGED <<item, steady>>
    <2>1. /\ fetched' \in PageOnFile /\ fetched'.final \in Scopes[Discovery!Here]
          /\ Sizes[fetched'.page] <= FileBytes
      BY <1>2, <1>5, FetchedOf
    <2>2. Discovery!Here' = Discovery!Here
      BY <1>1 DEF Discovery!Here
    <2>3. Discovery!TypeOK'
      BY <1>1, <1>5 DEF CollectionInv, Discovery!TypeOK
    <2>4. Discovery!OfficialOnly' /\ Discovery!CollectedIsWhole' /\ Discovery!Found' = Discovery!Found
      BY <1>1, FoundStays
    <2>5. GivenOK' /\ CountedOK' /\ ItemOK'
      BY <1>1, <1>2, <1>3, <1>5, <2>1, <2>2, <2>4 DEF CollectionInv, GivenOK, CountedOK, ItemOK
    <2>6. VisitedOK' /\ Discovery!BytesWithinBudget'
      BY <1>1, <1>3, <2>4 DEF CollectionInv, VisitedOK, Discovery!BytesWithinBudget
    <2> QED
      BY <2>3, <2>4, <2>5, <2>6 DEF CollectionInv
  <1> QED
    BY <1>1, <1>4, <1>5

(* What is being written is no page found before. *)
LEMMA WrittenItem ==
  ASSUME CollectionInv, pc \in {"open", "write", "record"}
  PROVE  /\ item \in Discovery!Source \cup Urls /\ item \notin Discovery!Found
         /\ item \notin Urls => item = Discovery!Here
         /\ item \in Urls => item \in visited
         /\ fetched \in PageOnFile /\ fetched.page \in Bodies /\ fetched.final \in Urls
         /\ fetched.final \in Scopes[Discovery!Here] /\ Sizes[fetched.page] <= FileBytes
  <1>1. /\ item = Discovery!Here \/ item \in visited
        /\ item \in visited => item \notin Discovery!Found
        /\ fetched \in PageOnFile
        /\ fetched.final \in Scopes[Discovery!Here] /\ Sizes[fetched.page] <= FileBytes
    BY DEF CollectionInv, ItemOK
  <1>2. visited \subseteq Urls
    BY DEF CollectionInv, Discovery!TypeOK
  <1> QED
    BY <1>1, <1>2, HereOf DEF Discovery!Found, PageOnFile

LEMMA WriteRawBase ==
  ASSUME CollectionInv, Discovery!OpenRaw \/ Discovery!WriteRaw
  PROVE  CollectionInv'
  <1>1. /\ pc \in {"open", "write"} /\ pc' \in {"write", "record"}
        /\ \E body \in Bodies \cup {"torn"} : raw' = [raw EXCEPT ![item] = body]
        /\ pc' = "record" => raw' = [raw EXCEPT ![item] = fetched.page]
        /\ UNCHANGED <<registered, meta, collects, at, refresh, used, attempts, count, visited,
                       todo, item, fetched, found, moved, steady, kept>>
    BY WrittenItem DEF Discovery!OpenRaw, Discovery!WriteRaw, Discovery!history, Discovery!Torn
  <1>2. PICK body \in Bodies \cup {"torn"} : raw' = [raw EXCEPT ![item] = body]
    BY <1>1
  <1>3. item \in Discovery!Source \cup Urls /\ item \notin Discovery!Found
    BY <1>1, WrittenItem
  <1>4. /\ raw' \in [Discovery!Source \cup Urls -> Bodies \cup {"none", "torn"}]
        /\ \A u \in Urls \ {item} : raw'[u] = raw[u]
        /\ pc' = "record" => raw'[item] = fetched.page
    BY <1>1, <1>2, <1>3, OnFile
  <1>5. Discovery!TypeOK'
    BY <1>1, <1>4 DEF CollectionInv, Discovery!TypeOK, Discovery!None, Discovery!Torn
  <1>6. Discovery!Here' = Discovery!Here /\ Discovery!Found' = Discovery!Found
    BY <1>1 DEF Discovery!Here, Discovery!Found
  <1>7. GivenOK' /\ CountedOK' /\ ItemOK'
    BY <1>1, <1>4, <1>6 DEF CollectionInv, GivenOK, CountedOK, ItemOK
  <1>8. VisitedOK' /\ Discovery!BytesWithinBudget' /\ Discovery!OfficialOnly'
    BY <1>1, <1>6 DEF CollectionInv, VisitedOK, Discovery!BytesWithinBudget, Discovery!OfficialOnly
  <1>9. Discovery!CollectedIsWhole'
    <2>1. \A u \in Discovery!Found : u \in Urls \ {item}
      BY <1>3 DEF Discovery!Found
    <2> QED
      BY <1>1, <1>4, <1>6, <2>1 DEF CollectionInv, Discovery!CollectedIsWhole
  <1> QED
    BY <1>5, <1>7, <1>8, <1>9 DEF CollectionInv

LEMMA WriteRecordBase ==
  ASSUME CollectionInv, Discovery!WriteRecord
  PROVE  CollectionInv'
  <1>1. /\ pc = "record" /\ meta' = [meta EXCEPT ![item] = fetched]
        /\ UNCHANGED <<registered, raw, collects, at, refresh, used, attempts, count, visited,
                       moved, kept>>
    BY DEF Discovery!WriteRecord
  <1>2. /\ item \in Discovery!Source \cup Urls /\ item \notin Discovery!Found
        /\ fetched \in PageOnFile /\ fetched.page \in Bodies /\ fetched.final \in Urls
        /\ fetched.final \in Scopes[Discovery!Here]
    BY <1>1, WrittenItem
  <1>3. /\ meta' \in [Discovery!Source \cup Urls -> PageOnFile \cup {Discovery!Unknown}]
        /\ meta'[item] = fetched /\ \A u \in Urls \ {item} : meta'[u] = meta[u]
        /\ raw[item] = fetched.page
    BY <1>1, <1>2, OnFile DEF CollectionInv, ItemOK
  <1>4. used' \in Nat /\ moved' \in Nat /\ moved' <= used' /\ used' <= AllBytes
    BY <1>1 DEF CollectionInv, CountedOK, Discovery!BytesWithinBudget
  <1>5. CASE item \in Discovery!Source
    <2>1. /\ Discovery!Follow(LinksOf[fetched.page][fetched.final])
          /\ item' = "none" /\ UNCHANGED found
      BY <1>5 DEF Discovery!WriteRecord, Discovery!None
    <2>2. LinksOf[fetched.page][fetched.final] \in Seq(Urls)
      BY <1>2, PagesOf
    <2>3. pc' = "links" /\ todo' \in Seq(Urls) /\ steady' \in BOOLEAN
      BY <2>1, <2>2, FollowOf
    <2>4. Discovery!TypeOK'
      BY <1>1, <1>3, <2>1, <2>3 DEF CollectionInv, Discovery!TypeOK, PageOnFile, Discovery!None
    <2>5. GivenOK' /\ CountedOK' /\ ItemOK'
      BY <1>1, <1>4, <2>1, <2>3 DEF CollectionInv, GivenOK, CountedOK, ItemOK
    <2>6. Discovery!Found' = Discovery!Found
      BY <2>1 DEF Discovery!Found
    <2>7. VisitedOK' /\ Discovery!BytesWithinBudget' /\ Discovery!OfficialOnly'
      BY <1>1, <2>1, <2>6 DEF CollectionInv, VisitedOK, Discovery!BytesWithinBudget, Discovery!OfficialOnly
    <2>8. Discovery!CollectedIsWhole'
      <3>1. \A u \in Discovery!Found : u \in Urls \ {item}
        BY <1>2 DEF Discovery!Found
      <3> QED
        BY <1>1, <1>3, <2>1, <2>6, <3>1 DEF CollectionInv, Discovery!CollectedIsWhole
    <2> QED
      BY <2>4, <2>5, <2>7, <2>8 DEF CollectionInv
  <1>6. CASE item \notin Discovery!Source
    <2>1. Discovery!Finds(fetched) /\ UNCHANGED todo
      BY <1>6 DEF Discovery!WriteRecord
    <2>2. item \in visited
      BY <1>1, <1>2, <1>6, WrittenItem
    <2>3. /\ raw' \in [Discovery!Source \cup Urls -> Bodies \cup {"none", "torn"}]
          /\ raw'[item] = fetched.page /\ \A u \in Urls \ {item} : raw'[u] = raw[u]
      BY <1>1, <1>3, OnFile
    <2> QED
      BY <1>1, <1>2, <1>3, <1>4, <2>1, <2>2, <2>3, FindsOf
  <1> QED
    BY <1>5, <1>6

LEMMA LeaveBase ==
  ASSUME CollectionInv, Discovery!Finish \/ Discovery!Crash
  PROVE  CollectionInv'
  <1>1. /\ pc' = "idle" /\ kept' \in {kept, Discovery!Found}
        /\ UNCHANGED <<registered, raw, meta, collects, at, refresh, used, attempts, count, visited,
                       todo, item, fetched, found, moved, steady>>
    BY DEF Discovery!Finish, Discovery!Crash, Discovery!disk, Discovery!history
  <1>2. kept' \subseteq Urls
    BY <1>1 DEF CollectionInv, Discovery!TypeOK, Discovery!Found
  <1>3. Discovery!TypeOK'
    BY <1>1, <1>2 DEF CollectionInv, Discovery!TypeOK
  <1>4. GivenOK' /\ CountedOK' /\ ItemOK'
    BY <1>1 DEF CollectionInv, GivenOK, CountedOK, ItemOK
  <1>5. Discovery!Found' = Discovery!Found
    BY <1>1 DEF Discovery!Found
  <1>6. VisitedOK' /\ Discovery!BytesWithinBudget' /\ Discovery!OfficialOnly' /\ Discovery!CollectedIsWhole'
    BY <1>1, <1>5 DEF CollectionInv, VisitedOK, Discovery!BytesWithinBudget, Discovery!OfficialOnly,
           Discovery!CollectedIsWhole
  <1> QED
    BY <1>3, <1>4, <1>6 DEF CollectionInv

LEMMA CollectionStep ==
  ASSUME CollectionInv, Discovery!Next
  PROVE  CollectionInv'
  BY CollectBase, ReadStartBase, StartTooLargeBase, NoStartBase, FetchStartBase, TakeLinkBase,
     EndLinksBase, ReadLinkBase, FetchLinkBase, WriteRawBase, WriteRecordBase, LeaveBase
     DEF Discovery!Next

LEMMA CollectionInit ==
  ASSUME Discovery!Init
  PROVE  CollectionInv
  <1> USE DEF Discovery!Init, Discovery!None, Discovery!Torn
  <1>1. Discovery!TypeOK
    <2>1. at \in 1 .. Len(Roots) /\ collects \in 0 .. Collections /\ attempts \in 0 .. LinksInAll
          /\ count \in 0 .. LinksPerRoot
      BY RootsOf, LimitsOf
    <2> QED
      BY <2>1 DEF Discovery!TypeOK
  <1>2. GivenOK
    <2>1. PICK given \in [Discovery!Source -> {"nothing", "legacy", "final", "spoilt"}], page \in Bodies :
             registered = [s \in Discovery!Source |->
                 CASE given[s] = "nothing" -> [raw |-> "none", record |-> Discovery!Unknown]
                   [] given[s] = "legacy"  -> [raw |-> page, record |-> Discovery!Known(page, "none")]
                   [] given[s] = "final"   -> [raw |-> page, record |-> Discovery!Known(page, Homes[s])]
                   [] given[s] = "spoilt"  -> [raw |-> "torn", record |-> Discovery!Known(page, "none")]]
      OBVIOUS
    <2>2. ASSUME NEW s \in Discovery!Source
          PROVE  registered[s] \in [raw : Bodies \cup {"none", "torn"},
                                    record : [page : Bodies \cup {"none"}, final : Urls \cup {"none"}]]
      <3>1. Homes[s] \in Urls
        BY RootsOf
      <3>2. given[s] \in {"nothing", "legacy", "final", "spoilt"}
        BY <2>1
      <3> QED
        BY <2>1, <3>1, <3>2 DEF Discovery!Known, Discovery!Unknown
    <2>3. registered = [s \in Discovery!Source |-> registered[s]]
      BY <2>1
    <2> QED
      BY <2>2, <2>3 DEF GivenOK
  <1>3. CountedOK /\ ItemOK
    <2>1. <<>> \in Seq(Urls)
      BY EmptySeq
    <2> QED
      BY <2>1 DEF CountedOK, ItemOK
  <1>4. Discovery!Found = {}
    BY DEF Discovery!Found
  <1>5. VisitedOK /\ Discovery!OfficialOnly /\ Discovery!CollectedIsWhole /\ Discovery!BytesWithinBudget
    BY <1>4, LimitsOf DEF VisitedOK, Discovery!OfficialOnly, Discovery!CollectedIsWhole,
       Discovery!BytesWithinBudget
  <1> QED
    BY <1>1, <1>2, <1>3, <1>5 DEF CollectionInv

(* What the loop of a collection depends on: a set of such stations, each  *)
(* followed by one of the set, is a collection that can be gone through    *)
(* again.  A station is a record of pc, at, attempts, count, visited,      *)
(* todo, item, found, used.                                                *)

(* What a collection reads first at a station. *)
FileOf(a) == Discovery!StartFile(Roots[a.at])

RecordOf(a) == Discovery!StartRecord(Roots[a.at])

(* The budget of a station reaches to a page. *)
Affords(a, page) ==
    /\ Discovery!SizeOf(page) <= FileBytes
    /\ a.used + Discovery!SizeOf(page) <= AllBytes

(* What has been found at a station. *)
FoundBy(a) == {u \in Urls : a.found[u] # Discovery!NotFound}

(* The start page and its record are good, and there are links to follow.  *)
ReadsRoot(a, b) ==
    /\ a.pc = "start"
    /\ FileOf(a) # "none" /\ Affords(a, FileOf(a))
    /\ RecordOf(a).page = FileOf(a)
    /\ RecordOf(a).final # "none" /\ RecordOf(a).final \in Scopes[Roots[a.at]]
    /\ LinksOf[FileOf(a)][RecordOf(a).final] # <<>>
    /\ b.pc = "links" /\ b.todo = LinksOf[FileOf(a)][RecordOf(a).final]
    /\ b.used = a.used + Discovery!SizeOf(FileOf(a))
    /\ b.at = a.at /\ b.attempts = a.attempts /\ b.count = a.count /\ b.visited = a.visited
    /\ b.found = a.found

(* From one station to the next along the links. *)
TakesLink(a, b) ==
    /\ a.pc = "links"
    /\ a.todo # <<>> /\ a.count < LinksPerRoot /\ a.attempts < LinksInAll
    /\ b.todo = Tail(a.todo)
    /\ IF Head(a.todo) \in Scopes[Roots[a.at]] \ a.visited
       THEN /\ b.visited = a.visited \cup {Head(a.todo)}
            /\ b.count = a.count + 1 /\ b.attempts = a.attempts + 1
            /\ b.pc = "link" /\ b.item = Head(a.todo)
       ELSE /\ b.visited = a.visited /\ b.count = a.count /\ b.attempts = a.attempts
            /\ b.pc = "links"
    /\ b.at = a.at /\ b.used = a.used /\ b.found = a.found

EndsLinks(a, b) ==
    /\ a.pc = "links"
    /\ a.todo = <<>> \/ a.count >= LinksPerRoot \/ a.attempts >= LinksInAll
    /\ IF a.at < Len(Roots) /\ a.attempts < LinksInAll
       THEN b.pc = "start" /\ b.at = a.at + 1
       ELSE b.pc = "done" /\ b.at = a.at
    /\ b.count = 0 /\ b.todo = <<>>
    /\ b.attempts = a.attempts /\ b.visited = a.visited /\ b.used = a.used /\ b.found = a.found

(* The files of the link are good.                                         *)
ReadsLink(a, b) ==
    /\ a.pc = "link"
    /\ raw[a.item] # "none" /\ meta[a.item] # Discovery!Unknown
    /\ Affords(a, raw[a.item])
    /\ meta[a.item].page = raw[a.item] /\ meta[a.item].final \in Scopes[Roots[a.at]]
    /\ b.pc = "links" /\ b.used = a.used + Discovery!SizeOf(raw[a.item])
    /\ b.found = [a.found EXCEPT ![a.item] =
                     [page |-> meta[a.item].page, final |-> meta[a.item].final,
                      from |-> Roots[a.at]]]
    /\ b.at = a.at /\ b.attempts = a.attempts /\ b.count = a.count /\ b.visited = a.visited
    /\ b.todo = a.todo

(* The ways from one station to the next that fetch and write nothing. *)
Reads(a, b) == ReadsRoot(a, b) \/ TakesLink(a, b) \/ EndsLinks(a, b) \/ ReadsLink(a, b)

(* Where a collection begins. *)
Begins(a) ==
    /\ a.pc = "start" /\ a.at = 1 /\ a.attempts = 0 /\ a.count = 0
    /\ a.visited = {Homes[s] : s \in Discovery!Source} /\ a.todo = <<>>
    /\ a.found = [u \in Urls |-> Discovery!NotFound] /\ a.used = 0

(* The station the present collection is at: it may fetch and write what   *)
(* one that comes after it will read, at no higher price.                  *)
Station ==
    IF pc \in {"open", "write", "record"} THEN IF item \in Urls THEN "link" ELSE "start"
    ELSE IF pc = "fetch" THEN "start" ELSE pc

(* The collection is at a station. *)
AtStation(c) ==
    /\ c.pc = Station
    /\ c.at = at /\ c.attempts = attempts /\ c.count = count /\ c.visited = visited
    /\ c.todo = todo /\ c.found = found
    /\ c.pc = "link" => c.item = item
    /\ c.used \in Nat /\ c.used <= used
    /\ pc \in {"open", "write", "record"} => c.used + Sizes[fetched.page] <= used

(* What the stations behind it have read is not written again. *)
Behind(a) ==
    /\ a.pc = "start" => a.at \in 1 .. at /\ (a.at = at => Station # "start")
    /\ a.pc = "link" => a.item \in visited /\ (Station = "link" => a.item # item)

(* A steady collection has left a trail: each station but the last, where  *)
(* it is, is followed by one of the trail.                                 *)
Trail(W, c) ==
    /\ c \in W /\ AtStation(c)
    /\ \E a \in W : Begins(a)
    /\ \A a \in W : a # c => Behind(a) /\ \E b \in W : Reads(a, b)

(* A collection without failures can be gone through again.                *)
TrailOK == steady /\ pc # "idle" => \E W : \E c \in W : Trail(W, c)

(* The same station, at the same price: the collection only reads.         *)
Repeats(c) ==
    /\ c.pc = pc /\ c.at = at /\ c.attempts = attempts /\ c.count = count
    /\ c.visited = visited /\ c.todo = todo /\ c.found = found /\ c.used = used
    /\ pc = "link" => c.item = item

(* A trail to the end, with all that a steady collection found. *)
Circuit(W) ==
    /\ \E a \in W : Begins(a)
    /\ \A a \in W : (a.pc = "done" /\ kept \subseteq FoundBy(a)) \/ \E b \in W : Reads(a, b)
    /\ pc # "idle" => \E c \in W : Repeats(c)

(* What is to be found again can be found again, and unless it is fetched  *)
(* anew the present collection does nothing but that.                      *)
CircuitOK == kept # {} => (pc # "idle" => ~refresh) /\ \E W : Circuit(W)

(* The invariant of collections: only with the trail behind it is it known *)
(* that what was found once is found again.                                *)
DiscoveryInv == CollectionInv /\ TrailOK /\ CircuitOK

(* Nothing is read differently while the files stay as they are. *)
LEMMA ReadsSame ==
  ASSUME UNCHANGED <<registered, raw, meta>>, NEW a, NEW b
  PROVE  Reads(a, b)' <=> Reads(a, b)
  <1>1. ReadsRoot(a, b)' <=> ReadsRoot(a, b)
    BY DEF ReadsRoot, FileOf, RecordOf, Affords, Discovery!StartFile, Discovery!StartRecord,
           Discovery!OwnsStart
  <1>2. ReadsLink(a, b)' <=> ReadsLink(a, b)
    BY DEF ReadsLink, Affords
  <1>3. (TakesLink(a, b)' <=> TakesLink(a, b)) /\ (EndsLinks(a, b)' <=> EndsLinks(a, b))
    BY DEF TakesLink, EndsLinks
  <1> QED
    BY <1>1, <1>2, <1>3 DEF Reads

(* Nor while another item is written. *)
LEMMA ReadsOther ==
  ASSUME CollectionInv, pc \in {"open", "write", "record"}, UNCHANGED registered,
         \A f \in (Discovery!Source \cup Urls) \ {item} : raw'[f] = raw[f] /\ meta'[f] = meta[f],
         NEW a, NEW b, Behind(a), Reads(a, b)
  PROVE  Reads(a, b)'
  <1>1. CASE ReadsRoot(a, b)
    <2>1. a.at \in 1 .. at /\ (a.at = at => Station # "start")
      BY <1>1 DEF ReadsRoot, Behind
    <2>2. at \in 1 .. Len(Roots) /\ a.at \in 1 .. Len(Roots) /\ Len(Roots) \in Nat
      BY <2>1, HereOf
    <2>3. Roots[a.at] \in Discovery!Source
      BY <2>2, RootsOf
    <2>4. Roots[a.at] # item
      <3>1. CASE a.at = at
        <4>1. item \in Urls
          BY <2>1, <3>1 DEF Station
        <4> QED
          BY <2>3, <4>1, PagesOf
      <3>2. CASE a.at # at
        <4>1. Roots[a.at] # Discovery!Here
          BY <2>2, <3>2, RootsOf DEF Discovery!Here
        <4>2. item = Discovery!Here \/ item \in Urls
          BY WrittenItem
        <4> QED
          BY <2>3, <4>1, <4>2, PagesOf
      <3> QED
        BY <3>1, <3>2
    <2>5. raw'[Roots[a.at]] = raw[Roots[a.at]] /\ meta'[Roots[a.at]] = meta[Roots[a.at]]
      BY <2>3, <2>4
    <2>6. FileOf(a)' = FileOf(a) /\ RecordOf(a)' = RecordOf(a)
      BY <2>5 DEF FileOf, RecordOf, Discovery!StartFile, Discovery!StartRecord, Discovery!OwnsStart
    <2>7. ReadsRoot(a, b)'
      BY <1>1, <2>6 DEF ReadsRoot, Affords
    <2> QED
      BY <2>7 DEF Reads
  <1>2. CASE ReadsLink(a, b)
    <2>1. a.item \in visited /\ (Station = "link" => a.item # item)
      BY <1>2 DEF ReadsLink, Behind
    <2>2. a.item \in Urls
      BY <2>1 DEF CollectionInv, Discovery!TypeOK
    <2>3. a.item # item
      BY <2>1, <2>2 DEF Station
    <2>4. raw'[a.item] = raw[a.item] /\ meta'[a.item] = meta[a.item]
      BY <2>2, <2>3
    <2>5. ReadsLink(a, b)'
      BY <1>2, <2>4 DEF ReadsLink, Affords
    <2> QED
      BY <2>5 DEF Reads
  <1>3. CASE TakesLink(a, b) \/ EndsLinks(a, b)
    BY <1>3 DEF Reads, TakesLink, EndsLinks
  <1> QED
    BY <1>1, <1>2, <1>3 DEF Reads

(* A trail is gone one station further. *)
LEMMA TrailGrows ==
  ASSUME NEW W, NEW c \in W, Trail(W, c), NEW d, AtStation(d)', Reads(c, d)', Behind(c)',
         \A a \in W \ {c} : Behind(a)' /\ \A b \in W : Reads(a, b) => Reads(a, b)'
  PROVE  TrailOK'
  <1>1. d \in W \cup {d} /\ \E a \in W \cup {d} : Begins(a)
    BY DEF Trail
  <1>2. ASSUME NEW a \in W \cup {d}, a # d
        PROVE  Behind(a)' /\ \E b \in W \cup {d} : Reads(a, b)'
    <2>1. CASE a = c
      BY <2>1
    <2>2. CASE a # c
      <3>1. PICK b \in W : Reads(a, b)
        BY <1>2, <2>2 DEF Trail
      <3> QED
        BY <1>2, <2>2, <3>1
    <2> QED
      BY <2>1, <2>2
  <1>3. Trail(W \cup {d}, d)'
    <2>1. \A a : Begins(a)' <=> Begins(a)
      BY DEF Begins
    <2> QED
      BY <1>1, <1>2, <2>1 DEF Trail
  <1> QED
    BY <1>1, <1>3 DEF TrailOK

(* Or stays where it is. *)
LEMMA TrailStays ==
  ASSUME NEW W, NEW c \in W, Trail(W, c), AtStation(c)',
         \A a \in W \ {c} : Behind(a)' /\ \A b \in W : Reads(a, b) => Reads(a, b)'
  PROVE  TrailOK'
  <1>1. Trail(W, c)'
    <2>1. \A a : Begins(a)' <=> Begins(a)
      BY DEF Begins
    <2>2. ASSUME NEW a \in W, a # c
          PROVE  Behind(a)' /\ \E b \in W : Reads(a, b)'
      BY <2>2 DEF Trail
    <2> QED
      BY <2>1, <2>2 DEF Trail
  <1> QED
    BY <1>1 DEF TrailOK

(* Each step of a steady collection extends the trail. *)
LEMMA TrailCollect ==
  ASSUME CollectionInv, Discovery!Collect
  PROVE  TrailOK'
  <1>1. /\ pc' = "start" /\ at' = 1 /\ used' = 0 /\ attempts' = 0 /\ count' = 0
        /\ visited' = {Homes[s] : s \in Discovery!Source} /\ todo' = <<>>
        /\ found' = [u \in Urls |-> Discovery!NotFound]
    BY DEF Discovery!Collect
  <1>2. PICK d : /\ d.pc = "start" /\ d.at = 1 /\ d.attempts = 0 /\ d.count = 0
                 /\ d.visited = {Homes[s] : s \in Discovery!Source} /\ d.todo = <<>>
                 /\ d.item = "none" /\ d.found = [u \in Urls |-> Discovery!NotFound] /\ d.used = 0
    <2> WITNESS [pc |-> "start", at |-> 1, attempts |-> 0,
                 count |-> 0, visited |-> {Homes[s] : s \in Discovery!Source},
                 todo |-> <<>>, item |-> "none",
                 found |-> [u \in Urls |-> Discovery!NotFound],
                 used |-> 0]
    <2> QED
      OBVIOUS
  <1>3. Begins(d)'
    BY <1>2 DEF Begins
  <1>4. AtStation(d)'
    BY <1>1, <1>2 DEF AtStation, Station
  <1>5. Trail({d}, d)'
    BY <1>3, <1>4 DEF Trail
  <1> QED
    BY <1>5 DEF TrailOK

(* A step of the collection that reads and writes no file of a link. *)
LEMMA BehindStays ==
  ASSUME CollectionInv, NEW a, Behind(a), visited \subseteq visited',
         at' = at /\ (Station = "start" \/ Station' # "start"),
         Station' = "link" => (a.pc = "link" => a.item # item')
  PROVE  Behind(a)'
  BY DEF Behind

LEMMA TrailReadStart ==
  ASSUME CollectionInv, TrailOK, Discovery!ReadStart
  PROVE  TrailOK'
  <1> DEFINE stored == Discovery!StartFile(Discovery!Here)
             noted == Discovery!StartRecord(Discovery!Here)
  <1> SUFFICES ASSUME steady' PROVE TrailOK'
    BY DEF TrailOK
  <1>1. /\ pc = "start" /\ stored # "none" /\ Discovery!FitsBudget(stored)
        /\ used' = used + Discovery!SizeOf(stored)
        /\ UNCHANGED <<registered, raw, meta, collects, refresh, attempts, visited, found, kept>>
    BY DEF Discovery!ReadStart, Discovery!Count, Discovery!disk, Discovery!None
  <1>2. /\ ~ (noted.page # stored \/ (noted.final # "none" /\ noted.final \notin Scopes[Discovery!Here]))
        /\ UNCHANGED <<at, count>>
        /\ \/ pc' = "fetch" /\ item' = Discovery!Here /\ UNCHANGED <<todo, steady>>
           \/ noted.final # "none" /\ Discovery!Follow(LinksOf[stored][noted.final])
    BY DEF Discovery!ReadStart, Discovery!None, Discovery!SourceFails
  <1>3. stored \in Bodies \cup {"torn"} /\ Discovery!Here = Roots[at]
    BY <1>1, HereOf, StartOf
  <1>4. /\ Discovery!SizeOf(stored) \in Nat /\ Discovery!SizeOf(stored) <= FileBytes
        /\ used + Discovery!SizeOf(stored) <= AllBytes /\ used \in Nat
    BY <1>1, <1>3, FitsOf DEF CollectionInv, CountedOK
  <1>5. Station = "start"
    BY <1>1 DEF Station
  <1>6. steady
    BY <1>2 DEF Discovery!Follow
  <1>7. PICK W : \E c \in W : Trail(W, c)
    BY <1>1, <1>6 DEF TrailOK
  <1>8. PICK c \in W : Trail(W, c)
    BY <1>7
  <1>9. /\ c.pc = "start" /\ c.at = at /\ c.attempts = attempts /\ c.count = count
        /\ c.visited = visited /\ c.todo = todo /\ c.found = found
        /\ c.used \in Nat /\ c.used <= used
    BY <1>5, <1>8 DEF Trail, AtStation
  <1>10. \A a \in W \ {c} : Behind(a) /\ \A b \in W : Reads(a, b) => Reads(a, b)'
    BY <1>1, <1>8, ReadsSame DEF Trail
  <1>11. CASE pc' = "fetch" /\ item' = Discovery!Here /\ UNCHANGED <<todo, steady>>
    <2>1. Station' = "start"
      BY <1>11 DEF Station
    <2>2. \A a \in W \ {c} : Behind(a)'
      BY <1>1, <1>2, <1>5, <1>10, <2>1, BehindStays
    <2>3. AtStation(c)'
      BY <1>1, <1>2, <1>4, <1>9, <1>11, <2>1 DEF AtStation
    <2> QED
      BY <1>8, <1>10, <2>2, <2>3, TrailStays
  <1>12. CASE noted.final # "none" /\ Discovery!Follow(LinksOf[stored][noted.final])
    <2>1. /\ pc' = "links" /\ todo' = LinksOf[stored][noted.final]
          /\ LinksOf[stored][noted.final] # <<>>
      BY <1>12 DEF Discovery!Follow
    <2>2. Station' = "links"
      BY <2>1 DEF Station
    <2>3. PICK d : /\ d.pc = "links" /\ d.at = at /\ d.attempts = attempts /\ d.count = count
                   /\ d.visited = visited /\ d.todo = LinksOf[stored][noted.final]
                   /\ d.item = "none" /\ d.found = found
                   /\ d.used = c.used + Discovery!SizeOf(stored)
      <3> WITNESS [pc |-> "links", at |-> at, attempts |-> attempts,
                   count |-> count, visited |-> visited,
                   todo |-> LinksOf[stored][noted.final], item |-> "none",
                   found |-> found,
                   used |-> c.used + Discovery!SizeOf(stored)]
      <3> QED
        OBVIOUS
    <2>4. AtStation(d)'
      BY <1>1, <1>2, <1>4, <1>9, <2>1, <2>2, <2>3 DEF AtStation
    <2>5. FileOf(c) = stored /\ RecordOf(c) = noted
      BY <1>3, <1>9 DEF FileOf, RecordOf
    <2>6. ReadsRoot(c, d)
      <3>1. Affords(c, stored)
        BY <1>4, <1>9, LimitsOf DEF Affords
      <3>2. Roots[c.at] = Discovery!Here
        BY <1>3, <1>9
      <3> HIDE DEF stored, noted
      <3> QED
        BY <1>1, <1>2, <1>9, <1>12, <2>1, <2>3, <2>5, <3>1, <3>2 DEF ReadsRoot
    <2>7. Reads(c, d)'
      BY <1>1, <2>6, ReadsSame DEF Reads
    <2>8. Behind(c)'
      BY <1>2, <1>9, <2>2, HereOf DEF Behind
    <2>9. \A a \in W \ {c} : Behind(a)'
      BY <1>1, <1>2, <1>5, <1>10, <2>2, BehindStays
    <2> QED
      BY <1>8, <1>10, <2>4, <2>7, <2>8, <2>9, TrailGrows
  <1> QED
    BY <1>2, <1>11, <1>12

LEMMA TrailNoStart ==
  ASSUME CollectionInv, TrailOK, Discovery!NoStart
  PROVE  TrailOK'
  <1> SUFFICES ASSUME steady' PROVE TrailOK'
    BY DEF TrailOK
  <1>1. /\ pc = "start" /\ pc' = "fetch"
        /\ UNCHANGED <<registered, raw, meta, at, used, attempts, count, visited, todo, found, steady>>
    BY DEF Discovery!NoStart, Discovery!disk, Discovery!history
  <1>2. PICK W : \E c \in W : Trail(W, c)
    BY <1>1 DEF TrailOK
  <1>3. PICK c \in W : Trail(W, c)
    BY <1>2
  <1>4. Station = "start" /\ Station' = "start"
    BY <1>1 DEF Station
  <1>5. \A a \in W \ {c} : Behind(a) /\ \A b \in W : Reads(a, b) => Reads(a, b)'
    BY <1>1, <1>3, ReadsSame DEF Trail
  <1>6. \A a \in W \ {c} : Behind(a)'
    BY <1>1, <1>4, <1>5, BehindStays
  <1>7. AtStation(c)'
    BY <1>1, <1>3, <1>4 DEF Trail, AtStation
  <1> QED
    BY <1>3, <1>5, <1>6, <1>7, TrailStays

LEMMA TrailFetch ==
  ASSUME CollectionInv, TrailOK, Discovery!FetchStart \/ Discovery!FetchLink
  PROVE  TrailOK'
  <1> SUFFICES ASSUME steady' PROVE TrailOK'
    BY DEF TrailOK
  <1>1. /\ pc \in {"fetch", "link"}
        /\ UNCHANGED <<registered, raw, meta, attempts, visited, found>>
        /\ pc' = "open" /\ UNCHANGED <<at, count, todo, item, steady>>
        /\ pc = "fetch" => item \in Discovery!Source
        /\ \E url \in Urls : \E response \in Answers[url] :
              Discovery!Fetched(url, response) /\ fetched' = response
    <2>1. CASE Discovery!FetchStart
      <3>1. Homes[Discovery!Here] \in Urls
        BY HereOf
      <3> QED
        BY <2>1, <3>1 DEF Discovery!FetchStart, Discovery!SourceFails, Discovery!disk
    <2>2. CASE Discovery!FetchLink
      <3>1. pc = "link" /\ item \in Urls
        BY <2>2 DEF Discovery!FetchLink, CollectionInv, ItemOK, Discovery!TypeOK
      <3> QED
        BY <2>2, <3>1 DEF Discovery!FetchLink, Discovery!LinkFails, Discovery!disk
    <2> QED
      BY <2>1, <2>2
  <1>2. PICK url \in Urls : \E response \in Answers[url] :
              Discovery!Fetched(url, response) /\ fetched' = response
    BY <1>1
  <1>3. Sizes[fetched'.page] \in Nat /\ used' = used + Sizes[fetched'.page] /\ used \in Nat
    BY <1>2, FetchedOf DEF CollectionInv, CountedOK
  <1>4. PICK W : \E c \in W : Trail(W, c)
    BY <1>1 DEF TrailOK
  <1>5. PICK c \in W : Trail(W, c)
    BY <1>4
  <1>6. pc = "link" => item \in Urls
    BY DEF CollectionInv, ItemOK, Discovery!TypeOK
  <1>7. Station' = Station
    BY <1>1, <1>6, PagesOf DEF Station
  <1>8. \A a \in W \ {c} : Behind(a) /\ \A b \in W : Reads(a, b) => Reads(a, b)'
    BY <1>1, <1>5, ReadsSame DEF Trail
  <1>9. \A a \in W \ {c} : Behind(a)'
    BY <1>1, <1>7, <1>8 DEF Behind
  <1>10. AtStation(c)'
    BY <1>1, <1>3, <1>5, <1>7 DEF Trail, AtStation
  <1> QED
    BY <1>5, <1>8, <1>9, <1>10, TrailStays

LEMMA TrailLinks ==
  ASSUME CollectionInv, TrailOK, Discovery!TakeLink \/ Discovery!EndLinks
  PROVE  TrailOK'
  <1> SUFFICES ASSUME steady' PROVE TrailOK'
    BY DEF TrailOK
  <1>1. /\ pc = "links"
        /\ UNCHANGED <<registered, raw, meta, used, found, steady>>
    BY DEF Discovery!TakeLink, Discovery!EndLinks, Discovery!disk, Discovery!history
  <1>2. PICK W : \E c \in W : Trail(W, c)
    BY <1>1 DEF TrailOK
  <1>3. PICK c \in W : Trail(W, c)
    BY <1>2
  <1>4. Station = "links"
    BY <1>1 DEF Station
  <1>5. /\ c.pc = "links" /\ c.at = at /\ c.attempts = attempts /\ c.count = count
        /\ c.visited = visited /\ c.todo = todo /\ c.found = found
        /\ c.used \in Nat /\ c.used <= used
    BY <1>3, <1>4 DEF Trail, AtStation
  <1>6. \A a \in W \ {c} : Behind(a) /\ \A b \in W : Reads(a, b) => Reads(a, b)'
    BY <1>1, <1>3, ReadsSame DEF Trail
  <1>7. PICK d : /\ d.pc = pc' /\ d.at = at' /\ d.attempts = attempts' /\ d.count = count'
                 /\ d.visited = visited' /\ d.todo = todo' /\ d.item = item' /\ d.found = found
                 /\ d.used = c.used
    <2> WITNESS [pc |-> pc', at |-> at', attempts |-> attempts',
                 count |-> count', visited |-> visited',
                 todo |-> todo', item |-> item',
                 found |-> found,
                 used |-> c.used]
    <2> QED
      OBVIOUS
  <1>8. CASE Discovery!TakeLink
    <2>1. /\ todo # <<>> /\ count < LinksPerRoot /\ attempts < LinksInAll
          /\ todo' = Tail(todo) /\ at' = at
          /\ IF Head(todo) \in Scopes[Discovery!Here] \ visited
             THEN /\ visited' = visited \cup {Head(todo)}
                  /\ count' = count + 1 /\ attempts' = attempts + 1
                  /\ pc' = "link" /\ item' = Head(todo)
             ELSE UNCHANGED <<visited, count, attempts, pc, item>>
      BY <1>8 DEF Discovery!TakeLink
    <2>2. Station' = pc' /\ Station' \in {"link", "links"}
      BY <1>1, <2>1 DEF Station
    <2>3. AtStation(d)'
      BY <1>1, <1>5, <1>7, <2>1, <2>2 DEF AtStation
    <2>4. TakesLink(c, d)
      BY <1>1, <1>5, <1>7, <2>1 DEF TakesLink, Discovery!Here
    <2>5. Reads(c, d)'
      BY <1>1, <2>4, ReadsSame DEF Reads
    <2>6. Behind(c)'
      BY <1>5 DEF Behind
    <2>7. ASSUME NEW a \in W \ {c} PROVE Behind(a)'
      <3>1. Station' = "link" => item' \notin visited
        BY <1>1, <2>1, <2>2
      <3>2. a.pc = "link" => a.item \in visited
        BY <1>6 DEF Behind
      <3>3. visited \subseteq visited'
        BY <2>1
      <3> QED
        BY <1>4, <1>6, <2>1, <2>2, <3>1, <3>2, <3>3 DEF Behind
    <2> QED
      BY <1>3, <1>6, <2>3, <2>5, <2>6, <2>7, TrailGrows
  <1>9. CASE Discovery!EndLinks
    <2>1. /\ todo = <<>> \/ count >= LinksPerRoot \/ attempts >= LinksInAll
          /\ IF at < Len(Roots) /\ attempts < LinksInAll
             THEN pc' = "start" /\ at' = at + 1
             ELSE pc' = "done" /\ at' = at
          /\ count' = 0 /\ todo' = <<>>
          /\ UNCHANGED <<attempts, visited>>
      BY <1>9 DEF Discovery!EndLinks, Discovery!NextSource
    <2>2. Station' = pc' /\ Station' \in {"start", "done"}
      BY <2>1 DEF Station
    <2>3. AtStation(d)'
      BY <1>1, <1>5, <1>7, <2>1, <2>2 DEF AtStation
    <2>4. EndsLinks(c, d)
      BY <1>1, <1>5, <1>7, <2>1 DEF EndsLinks
    <2>5. Reads(c, d)'
      BY <1>1, <2>4, ReadsSame DEF Reads
    <2>6. Behind(c)'
      BY <1>5 DEF Behind
    <2>7. ASSUME NEW a \in W \ {c} PROVE Behind(a)'
      <3>1. Behind(a)
        BY <1>6
      <3> QED
        BY <2>1, <2>2, <3>1, HereOf DEF Behind
    <2> QED
      BY <1>3, <1>6, <2>3, <2>5, <2>6, <2>7, TrailGrows
  <1> QED
    BY <1>8, <1>9

LEMMA TrailReadLink ==
  ASSUME CollectionInv, TrailOK, Discovery!ReadLink
  PROVE  TrailOK'
  <1> SUFFICES ASSUME steady' PROVE TrailOK'
    BY DEF TrailOK
  <1>1. /\ pc = "link" /\ raw[item] # "none" /\ meta[item] # Discovery!Unknown
        /\ UNCHANGED <<registered, raw, meta, at, attempts, count, visited, todo>>
        /\ Discovery!FitsBudget(raw[item])
        /\ used' = used + Discovery!SizeOf(raw[item])
        /\ meta[item].page = raw[item] /\ meta[item].final \in Scopes[Discovery!Here]
        /\ Discovery!Finds(meta[item])
    BY DEF Discovery!ReadLink, Discovery!LinkFails, Discovery!Cached, Discovery!Count,
           Discovery!disk, Discovery!None
  <1>2. /\ found' = [found EXCEPT ![item] = [page |-> meta[item].page, final |-> meta[item].final,
                                             from |-> Discovery!Here]]
        /\ pc' = "links" /\ UNCHANGED steady
    BY <1>1 DEF Discovery!Finds
  <1>3. item \in visited /\ item \in Urls
    BY <1>1 DEF CollectionInv, ItemOK, Discovery!TypeOK
  <1>4. raw[item] \in Bodies \cup {"torn"}
    BY <1>1, <1>3, OnFile
  <1>5. /\ Discovery!SizeOf(raw[item]) \in Nat /\ Discovery!SizeOf(raw[item]) <= FileBytes
        /\ used + Discovery!SizeOf(raw[item]) <= AllBytes /\ used \in Nat
    BY <1>1, <1>4, FitsOf DEF CollectionInv, CountedOK
  <1>6. PICK W : \E c \in W : Trail(W, c)
    BY <1>1, <1>2 DEF TrailOK
  <1>7. PICK c \in W : Trail(W, c)
    BY <1>6
  <1>8. Station = "link" /\ Station' = "links"
    BY <1>1, <1>2 DEF Station
  <1>9. /\ c.pc = "link" /\ c.at = at /\ c.attempts = attempts /\ c.count = count
        /\ c.visited = visited /\ c.todo = todo /\ c.found = found /\ c.item = item
        /\ c.used \in Nat /\ c.used <= used
    BY <1>7, <1>8 DEF Trail, AtStation
  <1>10. \A a \in W \ {c} : Behind(a) /\ \A b \in W : Reads(a, b) => Reads(a, b)'
    BY <1>1, <1>7, ReadsSame DEF Trail
  <1>11. PICK d : /\ d.pc = "links" /\ d.at = at /\ d.attempts = attempts /\ d.count = count
                  /\ d.visited = visited /\ d.todo = todo /\ d.item = "none" /\ d.found = found'
                  /\ d.used = c.used + Discovery!SizeOf(raw[item])
    <2> WITNESS [pc |-> "links", at |-> at, attempts |-> attempts,
                 count |-> count, visited |-> visited,
                 todo |-> todo, item |-> "none",
                 found |-> found',
                 used |-> c.used + Discovery!SizeOf(raw[item])]
    <2> QED
      OBVIOUS
  <1>12. AtStation(d)'
    BY <1>1, <1>2, <1>5, <1>8, <1>9, <1>11 DEF AtStation
  <1>13. ReadsLink(c, d)
    <2>1. Affords(c, raw[item])
      BY <1>5, <1>9, LimitsOf DEF Affords
    <2> QED
      BY <1>1, <1>2, <1>9, <1>11, <2>1 DEF ReadsLink, Discovery!Here
  <1>14. Reads(c, d)'
    BY <1>1, <1>13, ReadsSame DEF Reads
  <1>15. Behind(c)'
    BY <1>1, <1>3, <1>8, <1>9 DEF Behind
  <1>16. \A a \in W \ {c} : Behind(a)'
    BY <1>1, <1>8, <1>10 DEF Behind
  <1> QED
    BY <1>7, <1>10, <1>12, <1>14, <1>15, <1>16, TrailGrows

LEMMA TrailWriteRaw ==
  ASSUME CollectionInv, TrailOK, Discovery!OpenRaw \/ Discovery!WriteRaw
  PROVE  TrailOK'
  <1> SUFFICES ASSUME steady' PROVE TrailOK'
    BY DEF TrailOK
  <1>1. /\ pc \in {"open", "write"} /\ pc' \in {"write", "record"}
        /\ \E body : raw' = [raw EXCEPT ![item] = body]
        /\ UNCHANGED <<registered, meta, at, used, attempts, count, visited, todo, item, fetched,
                       found, steady>>
    BY DEF Discovery!OpenRaw, Discovery!WriteRaw, Discovery!history
  <1>2. \A f \in (Discovery!Source \cup Urls) \ {item} : raw'[f] = raw[f] /\ meta'[f] = meta[f]
    BY <1>1, OnFile
  <1>3. PICK W : \E c \in W : Trail(W, c)
    BY <1>1 DEF TrailOK
  <1>4. PICK c \in W : Trail(W, c)
    BY <1>3
  <1>5. Station' = Station
    BY <1>1 DEF Station
  <1>6. \A a \in W \ {c} : Behind(a) /\ \A b \in W : Reads(a, b) => Reads(a, b)'
    BY <1>1, <1>2, <1>4, ReadsOther DEF Trail
  <1>7. \A a \in W \ {c} : Behind(a)'
    BY <1>1, <1>5, <1>6 DEF Behind
  <1>8. AtStation(c)'
    BY <1>1, <1>4, <1>5 DEF Trail, AtStation
  <1> QED
    BY <1>4, <1>6, <1>7, <1>8, TrailStays

LEMMA TrailWriteRecord ==
  ASSUME CollectionInv, TrailOK, Discovery!WriteRecord
  PROVE  TrailOK'
  <1> SUFFICES ASSUME steady' PROVE TrailOK'
    BY DEF TrailOK
  <1>1. /\ pc = "record" /\ meta' = [meta EXCEPT ![item] = fetched]
        /\ UNCHANGED <<registered, raw, at, used, attempts, count, visited>>
        /\ IF item \in Discovery!Source
           THEN /\ Discovery!Follow(LinksOf[fetched.page][fetched.final]) /\ UNCHANGED found
           ELSE Discovery!Finds(fetched) /\ UNCHANGED todo
    BY DEF Discovery!WriteRecord
  <1>2. /\ item \in Discovery!Source \cup Urls
        /\ item \notin Urls => item = Discovery!Here
        /\ item \in Urls => item \in visited
        /\ fetched \in PageOnFile /\ fetched.page \in Bodies /\ fetched.final \in Urls
        /\ fetched.final \in Scopes[Discovery!Here] /\ Sizes[fetched.page] <= FileBytes
    BY <1>1, WrittenItem
  <1>3. /\ meta'[item] = fetched /\ raw'[item] = fetched.page
        /\ \A f \in (Discovery!Source \cup Urls) \ {item} : raw'[f] = raw[f] /\ meta'[f] = meta[f]
    BY <1>1, <1>2, OnFile DEF CollectionInv, ItemOK
  <1>4. steady /\ pc' = "links"
    BY <1>1 DEF Discovery!Follow, Discovery!Finds
  <1>5. PICK W : \E c \in W : Trail(W, c)
    BY <1>1, <1>4 DEF TrailOK
  <1>6. PICK c \in W : Trail(W, c)
    BY <1>5
  <1>7. Station' = "links" /\ Station = IF item \in Urls THEN "link" ELSE "start"
    BY <1>1, <1>4 DEF Station
  <1>8. /\ c.pc = Station /\ c.at = at /\ c.attempts = attempts /\ c.count = count
        /\ c.visited = visited /\ c.todo = todo /\ c.found = found
        /\ c.pc = "link" => c.item = item
        /\ c.used \in Nat /\ c.used <= used /\ c.used + Sizes[fetched.page] <= used
    BY <1>1, <1>6 DEF Trail, AtStation
  <1>9. \A a \in W \ {c} : Behind(a) /\ \A b \in W : Reads(a, b) => Reads(a, b)'
    BY <1>1, <1>3, <1>6, ReadsOther DEF Trail
  <1>10. \A a \in W \ {c} : Behind(a)'
    BY <1>1, <1>7, <1>9 DEF Behind
  <1>11. Behind(c)'
    BY <1>1, <1>2, <1>7, <1>8, HereOf DEF Behind
  <1>12. /\ Discovery!SizeOf(fetched.page) = Sizes[fetched.page] /\ Sizes[fetched.page] \in Nat
         /\ fetched.page # "none" /\ fetched.final # "none"
         /\ fetched # Discovery!Unknown
    <2>1. fetched.page # "none" /\ fetched.final # "none" /\ fetched.page # "torn"
      BY <1>2, PagesOf
    <2>2. Discovery!Unknown.page = "none"
      BY DEF Discovery!Unknown, Discovery!Known, Discovery!None
    <2>3. Discovery!SizeOf(fetched.page) = Sizes[fetched.page] /\ Sizes[fetched.page] \in Nat
      BY <1>2, <2>1, PagesOf DEF Discovery!SizeOf, Discovery!Torn
    <2> QED
      BY <2>1, <2>2, <2>3
  <1>13. PICK d : /\ d.pc = "links" /\ d.at = at /\ d.attempts = attempts /\ d.count = count
                  /\ d.visited = visited /\ d.todo = todo' /\ d.item = "none" /\ d.found = found'
                  /\ d.used = c.used + Sizes[fetched.page]
    <2> WITNESS [pc |-> "links", at |-> at, attempts |-> attempts,
                 count |-> count, visited |-> visited,
                 todo |-> todo', item |-> "none",
                 found |-> found',
                 used |-> c.used + Sizes[fetched.page]]
    <2> QED
      OBVIOUS
  <1>14. AtStation(d)'
    BY <1>1, <1>4, <1>7, <1>8, <1>12, <1>13 DEF AtStation
  <1>15. used \in Nat /\ used <= AllBytes
    BY DEF CollectionInv, CountedOK, Discovery!BytesWithinBudget
  <1>16. Affords(c, fetched.page)
    BY <1>2, <1>8, <1>12, <1>15, LimitsOf DEF Affords
  <1>17. CASE item \in Urls
    <2>1. item \notin Discovery!Source
      BY <1>17, PagesOf
    <2>2. /\ found' = [found EXCEPT ![item] = [page |-> fetched.page, final |-> fetched.final,
                                               from |-> Discovery!Here]]
          /\ todo' = todo
      BY <1>1, <2>1 DEF Discovery!Finds
    <2>3. c.pc = "link" /\ c.item = item
      BY <1>7, <1>8, <1>17
    <2>4. Roots[c.at] = Discovery!Here
      BY <1>8 DEF Discovery!Here
    <2>5. ReadsLink(c, d)'
      <3>1. raw'[c.item] = fetched.page /\ meta'[c.item] = fetched
        BY <1>3, <2>3
      <3>2. Affords(c, raw[c.item])'
        BY <1>16, <3>1 DEF Affords
      <3>3. d.found = [c.found EXCEPT ![c.item] = [page |-> fetched.page, final |-> fetched.final,
                                                   from |-> Roots[c.at]]]
        BY <1>8, <1>13, <2>2, <2>3, <2>4
      <3> QED
        BY <1>2, <1>8, <1>12, <1>13, <2>2, <2>3, <2>4, <3>1, <3>2, <3>3
           DEF ReadsLink, Discovery!Unknown, Discovery!Known
    <2> QED
      BY <1>6, <1>9, <1>10, <1>11, <1>14, <2>5, TrailGrows DEF Reads
  <1>18. CASE item \notin Urls
    <2>1. item = Discovery!Here /\ item \in Discovery!Source
      BY <1>2, <1>18
    <2>2. /\ todo' = LinksOf[fetched.page][fetched.final] /\ found' = found
          /\ LinksOf[fetched.page][fetched.final] # <<>>
      BY <1>1, <2>1 DEF Discovery!Follow
    <2>3. c.pc = "start" /\ Roots[c.at] = item
      BY <1>7, <1>8, <1>18, <2>1 DEF Discovery!Here
    <2>4. FileOf(c)' = fetched.page /\ RecordOf(c)' = fetched
      BY <1>3, <1>12, <2>3 DEF FileOf, RecordOf, Discovery!StartFile, Discovery!StartRecord,
         Discovery!OwnsStart, Discovery!None
    <2>5. ReadsRoot(c, d)'
      BY <1>2, <1>8, <1>12, <1>13, <1>16, <2>1, <2>2, <2>3, <2>4 DEF ReadsRoot, Affords
    <2> QED
      BY <1>6, <1>9, <1>10, <1>11, <1>14, <2>5, TrailGrows DEF Reads
  <1> QED
    BY <1>17, <1>18

LEMMA TrailStep ==
  ASSUME CollectionInv, TrailOK, Discovery!Next
  PROVE  TrailOK'
  <1>1. CASE Discovery!StartTooLarge \/ Discovery!Finish \/ Discovery!Crash
    BY <1>1 DEF TrailOK, Discovery!StartTooLarge, Discovery!SourceFails, Discovery!Finish,
                Discovery!Crash
  <1> QED
    BY <1>1, TrailCollect, TrailReadStart, TrailNoStart, TrailFetch, TrailLinks, TrailReadLink,
       TrailWriteRaw, TrailWriteRecord DEF Discovery!Next

(* Whoever repeats a collection goes from station to station. *)
LEMMA CircuitMoves ==
  ASSUME NEW W, Circuit(W), NEW d \in W, Repeats(d)', ~ refresh',
         UNCHANGED <<registered, raw, meta, kept>>
  PROVE  CircuitOK'
  <1>1. \E a \in W : Begins(a)'
    BY DEF Circuit, Begins
  <1>2. ASSUME NEW a \in W
        PROVE  (a.pc = "done" /\ kept' \subseteq FoundBy(a)) \/ \E b \in W : Reads(a, b)'
    BY ReadsSame DEF Circuit
  <1>4. Circuit(W)'
    BY <1>1, <1>2 DEF Circuit, FoundBy
  <1> QED
    BY <1>4 DEF CircuitOK

(* Or it is over. *)
LEMMA CircuitRests ==
  ASSUME CircuitOK, pc' = "idle", UNCHANGED <<registered, raw, meta, kept>>
  PROVE  CircuitOK'
  <1> SUFFICES ASSUME kept # {} PROVE \E W : Circuit(W)'
    BY DEF CircuitOK
  <1>1. PICK W : Circuit(W)
    BY DEF CircuitOK
  <1>2. \E a \in W : Begins(a)'
    BY <1>1 DEF Circuit, Begins
  <1>3. ASSUME NEW a \in W
        PROVE  (a.pc = "done" /\ kept' \subseteq FoundBy(a)) \/ \E b \in W : Reads(a, b)'
    BY <1>1, ReadsSame DEF Circuit
  <1>4. Circuit(W)'
    BY <1>2, <1>3 DEF Circuit, FoundBy
  <1> QED
    BY <1>4

(* Each step of a later one goes on to the next station of it. *)
LEMMA CircuitCollect ==
  ASSUME CircuitOK, Discovery!Collect
  PROVE  CircuitOK'
  <1>1. /\ pc = "idle" /\ pc' = "start" /\ at' = 1 /\ used' = 0 /\ attempts' = 0 /\ count' = 0
        /\ visited' = {Homes[s] : s \in Discovery!Source} /\ todo' = <<>>
        /\ found' = [u \in Urls |-> Discovery!NotFound]
        /\ refresh' \in BOOLEAN /\ kept' = (IF refresh' THEN {} ELSE kept)
        /\ UNCHANGED <<registered, raw, meta>>
    BY DEF Discovery!Collect, Discovery!disk
  <1> SUFFICES ASSUME kept' # {} PROVE CircuitOK'
    BY DEF CircuitOK
  <1>2. ~ refresh' /\ kept' = kept
    BY <1>1
  <1>3. PICK W : Circuit(W)
    BY <1>2 DEF CircuitOK
  <1>4. PICK a \in W : Begins(a)
    BY <1>3 DEF Circuit
  <1>5. Repeats(a)'
    BY <1>1, <1>4 DEF Begins, Repeats
  <1> QED
    BY <1>1, <1>2, <1>3, <1>4, <1>5, CircuitMoves

(* In a collection that repeats another one. *)
LEMMA Repeating ==
  ASSUME CircuitOK, kept # {}, pc # "idle"
  PROVE  /\ ~ refresh
         /\ \E W : /\ Circuit(W)
                   /\ \E c \in W : /\ Repeats(c)
                                   /\ \/ pc = "done" /\ kept \subseteq Discovery!Found
                                      \/ \E b \in W : Reads(c, b)
  <1>1. PICK W : Circuit(W) /\ ~ refresh
    BY DEF CircuitOK
  <1>2. PICK c \in W : Repeats(c)
    BY <1>1 DEF Circuit
  <1>3. (pc = "done" /\ kept \subseteq Discovery!Found) \/ \E b \in W : Reads(c, b)
    BY <1>1, <1>2 DEF Circuit, Repeats, FoundBy, Discovery!Found
  <1> QED
    BY <1>1, <1>2, <1>3

LEMMA CircuitStart ==
  ASSUME CollectionInv, CircuitOK,
         Discovery!ReadStart \/ Discovery!StartTooLarge \/ Discovery!NoStart
  PROVE  CircuitOK'
  <1> DEFINE stored == Discovery!StartFile(Discovery!Here)
             noted == Discovery!StartRecord(Discovery!Here)
  <1>1. pc = "start" /\ UNCHANGED <<registered, raw, meta, refresh, attempts, visited, found, kept>>
    BY DEF Discovery!ReadStart, Discovery!StartTooLarge, Discovery!NoStart, Discovery!disk,
           Discovery!history
  <1> SUFFICES ASSUME kept # {} PROVE CircuitOK'
    BY <1>1 DEF CircuitOK
  <1>2. PICK W : ~ refresh /\ Circuit(W) /\ \E c \in W : Repeats(c) /\ \E b \in W : Reads(c, b)
    BY <1>1, Repeating
  <1>3. PICK c \in W : Repeats(c) /\ \E b \in W : Reads(c, b)
    BY <1>2
  <1>4. PICK b \in W : Reads(c, b)
    BY <1>3
  <1>5. /\ c.pc = "start" /\ c.at = at /\ c.attempts = attempts /\ c.count = count
        /\ c.visited = visited /\ c.todo = todo /\ c.found = found /\ c.used = used
    BY <1>1, <1>3 DEF Repeats
  <1>6. ReadsRoot(c, b)
    BY <1>4, <1>5 DEF Reads, TakesLink, EndsLinks, ReadsLink
  <1>7. FileOf(c) = stored /\ RecordOf(c) = noted /\ Roots[c.at] = Discovery!Here
    BY <1>5 DEF FileOf, RecordOf, Discovery!Here
  <1> HIDE DEF stored, noted
  <1>8. /\ stored # "none" /\ Affords(c, stored) /\ noted.page = stored
        /\ noted.final # "none" /\ noted.final \in Scopes[Discovery!Here]
        /\ LinksOf[stored][noted.final] # <<>>
        /\ b.pc = "links" /\ b.todo = LinksOf[stored][noted.final]
        /\ b.used = used + Discovery!SizeOf(stored)
        /\ b.at = at /\ b.attempts = attempts /\ b.count = count /\ b.visited = visited
        /\ b.found = found
    BY <1>5, <1>6, <1>7 DEF ReadsRoot
  <1>9. Discovery!FitsBudget(stored)
    <2>1. stored \in Bodies \cup {"torn"}
      BY <1>8, HereOf, StartOf DEF stored
    <2> QED
      BY <1>5, <1>8, <2>1, FitsOf DEF Affords
  <1>10. /\ used' = used + Discovery!SizeOf(stored)
         /\ pc' = "links" /\ todo' = LinksOf[stored][noted.final]
         /\ UNCHANGED <<at, count>>
    <2>1. Discovery!ReadStart
      BY <1>8, <1>9 DEF Discovery!StartTooLarge, Discovery!NoStart, Discovery!None, stored
    <2>2. Discovery!Follow(LinksOf[stored][noted.final]) /\ UNCHANGED <<at, count>>
      BY <1>2, <1>8, <2>1 DEF Discovery!ReadStart, Discovery!None, stored, noted
    <2> QED
      BY <2>1, <2>2 DEF Discovery!ReadStart, Discovery!Follow, Discovery!Count, stored
  <1>11. Repeats(b)'
    BY <1>1, <1>8, <1>10 DEF Repeats
  <1> QED
    BY <1>1, <1>2, <1>11, CircuitMoves

(* It fetches and writes nothing. *)
LEMMA CircuitFetch ==
  ASSUME CollectionInv, CircuitOK,
         \/ Discovery!FetchStart \/ Discovery!FetchLink
         \/ Discovery!OpenRaw \/ Discovery!WriteRaw \/ Discovery!WriteRecord
  PROVE  CircuitOK'
  <1>1. /\ kept' = kept
        /\ pc \in {"fetch", "open", "write", "record"} \/ (pc = "link" /\ ~ Discovery!Cached(item))
    BY DEF Discovery!FetchStart, Discovery!FetchLink, Discovery!OpenRaw, Discovery!WriteRaw,
           Discovery!WriteRecord, Discovery!history
  <1> SUFFICES ASSUME kept # {} PROVE FALSE
    BY <1>1 DEF CircuitOK
  <1>2. PICK W : ~ refresh /\ Circuit(W) /\ \E c \in W : Repeats(c) /\ \E b \in W : Reads(c, b)
    BY <1>1, Repeating
  <1>3. PICK c \in W : Repeats(c) /\ \E b \in W : Reads(c, b)
    BY <1>2
  <1>4. PICK b \in W : Reads(c, b)
    BY <1>3
  <1>5. c.pc = pc /\ (pc = "link" => c.item = item)
    BY <1>3 DEF Repeats
  <1>6. pc = "link" /\ ReadsLink(c, b)
    BY <1>1, <1>4, <1>5 DEF Reads, ReadsRoot, TakesLink, EndsLinks, ReadsLink
  <1>7. Discovery!Cached(item)
    BY <1>2, <1>5, <1>6 DEF ReadsLink, Discovery!Cached, Discovery!None
  <1> QED
    BY <1>1, <1>6, <1>7

LEMMA CircuitLinks ==
  ASSUME CollectionInv, CircuitOK, Discovery!TakeLink \/ Discovery!EndLinks
  PROVE  CircuitOK'
  <1>1. /\ pc = "links"
        /\ UNCHANGED <<registered, raw, meta, refresh, used, found, kept>>
    BY DEF Discovery!TakeLink, Discovery!EndLinks, Discovery!disk, Discovery!history
  <1> SUFFICES ASSUME kept # {} PROVE CircuitOK'
    BY <1>1 DEF CircuitOK
  <1>2. PICK W : ~ refresh /\ Circuit(W) /\ \E c \in W : Repeats(c) /\ \E b \in W : Reads(c, b)
    BY <1>1, Repeating
  <1>3. PICK c \in W : Repeats(c) /\ \E b \in W : Reads(c, b)
    BY <1>2
  <1>4. PICK b \in W : Reads(c, b)
    BY <1>3
  <1>5. /\ c.pc = "links" /\ c.at = at /\ c.attempts = attempts /\ c.count = count
        /\ c.visited = visited /\ c.todo = todo /\ c.found = found /\ c.used = used
    BY <1>1, <1>3 DEF Repeats
  <1>6. attempts \in Nat /\ count \in Nat /\ LinksPerRoot \in Nat /\ LinksInAll \in Nat
    BY LimitsOf DEF CollectionInv, Discovery!TypeOK
  <1>7. CASE Discovery!TakeLink
    <2>1. /\ todo # <<>> /\ count < LinksPerRoot /\ attempts < LinksInAll
          /\ todo' = Tail(todo) /\ at' = at
          /\ IF Head(todo) \in Scopes[Discovery!Here] \ visited
             THEN /\ visited' = visited \cup {Head(todo)}
                  /\ count' = count + 1 /\ attempts' = attempts + 1
                  /\ pc' = "link" /\ item' = Head(todo)
             ELSE UNCHANGED <<visited, count, attempts, pc, item>>
      BY <1>7 DEF Discovery!TakeLink
    <2>2. TakesLink(c, b)
      BY <1>4, <1>5, <1>6, <2>1 DEF Reads, ReadsRoot, EndsLinks, ReadsLink
    <2>3. Repeats(b)'
      BY <1>1, <1>5, <2>1, <2>2 DEF TakesLink, Repeats, Discovery!Here
    <2> QED
      BY <1>1, <1>2, <2>3, CircuitMoves
  <1>8. CASE Discovery!EndLinks
    <2>1. /\ todo = <<>> \/ count >= LinksPerRoot \/ attempts >= LinksInAll
          /\ IF at < Len(Roots) /\ attempts < LinksInAll
             THEN pc' = "start" /\ at' = at + 1
             ELSE pc' = "done" /\ at' = at
          /\ count' = 0 /\ todo' = <<>>
          /\ UNCHANGED <<attempts, visited>>
      BY <1>8 DEF Discovery!EndLinks, Discovery!NextSource
    <2>2. EndsLinks(c, b)
      BY <1>4, <1>5, <1>6, <2>1 DEF Reads, ReadsRoot, TakesLink, ReadsLink
    <2>3. Repeats(b)'
      BY <1>1, <1>5, <2>1, <2>2 DEF EndsLinks, Repeats
    <2> QED
      BY <1>1, <1>2, <2>3, CircuitMoves
  <1> QED
    BY <1>7, <1>8

LEMMA CircuitReadLink ==
  ASSUME CollectionInv, CircuitOK, Discovery!ReadLink
  PROVE  CircuitOK'
  <1>1. /\ pc = "link"
        /\ UNCHANGED <<registered, raw, meta, at, refresh, attempts, count, visited, todo, kept>>
    BY DEF Discovery!ReadLink, Discovery!disk
  <1> SUFFICES ASSUME kept # {} PROVE CircuitOK'
    BY <1>1 DEF CircuitOK
  <1>2. PICK W : ~ refresh /\ Circuit(W) /\ \E c \in W : Repeats(c) /\ \E b \in W : Reads(c, b)
    BY <1>1, Repeating
  <1>3. PICK c \in W : Repeats(c) /\ \E b \in W : Reads(c, b)
    BY <1>2
  <1>4. PICK b \in W : Reads(c, b)
    BY <1>3
  <1>5. /\ c.pc = "link" /\ c.at = at /\ c.attempts = attempts /\ c.count = count
        /\ c.visited = visited /\ c.todo = todo /\ c.found = found /\ c.used = used
        /\ c.item = item
    BY <1>1, <1>3 DEF Repeats
  <1>6. ReadsLink(c, b)
    BY <1>4, <1>5 DEF Reads, ReadsRoot, TakesLink, EndsLinks
  <1>7. item \in Urls
    BY <1>1 DEF CollectionInv, ItemOK, Discovery!TypeOK
  <1>8. raw[item] # "none" /\ raw[item] \in Bodies \cup {"torn"} /\ Affords(c, raw[item])
    BY <1>5, <1>6, <1>7, OnFile DEF ReadsLink
  <1>9. Discovery!FitsBudget(raw[item])
    BY <1>5, <1>8, FitsOf DEF Affords
  <1>10. meta[item].page = raw[item] /\ meta[item].final \in Scopes[Discovery!Here]
    BY <1>5, <1>6 DEF ReadsLink, Discovery!Here
  <1>11. used' = used + Discovery!SizeOf(raw[item]) /\ Discovery!Finds(meta[item])
    BY <1>9, <1>10 DEF Discovery!ReadLink, Discovery!Count
  <1>12. /\ pc' = "links"
         /\ found' = [found EXCEPT ![item] = [page |-> meta[item].page, final |-> meta[item].final,
                                              from |-> Discovery!Here]]
    BY <1>11 DEF Discovery!Finds
  <1>13. b.found = found'
    BY <1>5, <1>6, <1>12 DEF ReadsLink, Discovery!Here
  <1>14. Repeats(b)'
    BY <1>1, <1>5, <1>6, <1>11, <1>12, <1>13 DEF ReadsLink, Repeats
  <1> QED
    BY <1>1, <1>2, <1>14, CircuitMoves

(* A collection without failures becomes the one to be repeated. *)
LEMMA CircuitFinish ==
  ASSUME CollectionInv, TrailOK, CircuitOK, Discovery!Finish
  PROVE  CircuitOK'
  <1>1. /\ pc = "done" /\ pc' = "idle" /\ kept' = (IF steady THEN Discovery!Found ELSE kept)
        /\ UNCHANGED <<registered, raw, meta>>
    BY DEF Discovery!Finish, Discovery!disk
  <1>2. CASE steady
    <2>1. PICK W : \E c \in W : Trail(W, c)
      BY <1>1, <1>2 DEF TrailOK
    <2>2. PICK c \in W : Trail(W, c)
      BY <2>1
    <2>3. c.pc = "done" /\ c.found = found
      BY <1>1, <2>2 DEF Trail, AtStation, Station
    <2>4. kept' = FoundBy(c)
      BY <1>1, <1>2, <2>3 DEF FoundBy, Discovery!Found
    <2>5. ASSUME NEW a \in W
          PROVE  (a.pc = "done" /\ kept' \subseteq FoundBy(a)) \/ \E b \in W : Reads(a, b)'
      <3>1. CASE a = c
        BY <2>3, <2>4, <3>1
      <3>2. CASE a # c
        BY <1>1, <2>2, <3>2, ReadsSame DEF Trail
      <3> QED
        BY <3>1, <3>2
    <2>6. \E a \in W : Begins(a)'
      BY <2>2 DEF Trail, Begins
    <2>7. Circuit(W)'
      BY <1>1, <2>5, <2>6 DEF Circuit, FoundBy
    <2> QED
      BY <1>1, <2>7 DEF CircuitOK
  <1>3. CASE ~ steady
    BY <1>1, <1>3, CircuitRests
  <1> QED
    BY <1>2, <1>3 DEF CollectionInv, CountedOK

LEMMA CircuitStep ==
  ASSUME CollectionInv, TrailOK, CircuitOK, Discovery!Next
  PROVE  CircuitOK'
  <1>1. CASE Discovery!Crash
    BY <1>1, CircuitRests DEF Discovery!Crash, Discovery!disk, Discovery!history
  <1> QED
    BY <1>1, CircuitCollect, CircuitStart, CircuitFetch, CircuitLinks, CircuitReadLink,
       CircuitFinish DEF Discovery!Next

(* The invariant of collections holds after every step. *)
LEMMA DiscoveryStep ==
  ASSUME DiscoveryInv, [Discovery!Next]_(Discovery!vars)
  PROVE  DiscoveryInv'
  <1>1. CASE UNCHANGED Discovery!vars
    <2>1. UNCHANGED <<registered, raw, meta, collects, pc, at, refresh, used, attempts, count,
                      visited, todo, item, fetched, found, moved, steady, kept>>
      BY <1>1 DEF Discovery!vars, Discovery!disk, Discovery!history
    <2>2. CollectionInv'
      <3>1. Discovery!Here' = Discovery!Here /\ Discovery!Found' = Discovery!Found
        BY <2>1 DEF Discovery!Here, Discovery!Found
      <3>2. Discovery!TypeOK'
        BY <2>1 DEF DiscoveryInv, CollectionInv, Discovery!TypeOK
      <3>3. GivenOK' /\ CountedOK' /\ ItemOK' /\ VisitedOK'
        BY <2>1, <3>1 DEF DiscoveryInv, CollectionInv, GivenOK, CountedOK, ItemOK, VisitedOK
      <3> QED
        BY <2>1, <3>1, <3>2, <3>3 DEF DiscoveryInv, CollectionInv, Discovery!BytesWithinBudget,
           Discovery!OfficialOnly, Discovery!CollectedIsWhole
    <2>3. \A a, b : Reads(a, b)' <=> Reads(a, b)
      BY <2>1, ReadsSame
    <2>4. Station' = Station
      BY <2>1 DEF Station
    <2>5. TrailOK'
      <3> SUFFICES ASSUME steady, pc # "idle" PROVE TrailOK'
        BY <2>1 DEF TrailOK
      <3>1. PICK W : \E c \in W : Trail(W, c)
        BY DEF DiscoveryInv, TrailOK
      <3>2. PICK c \in W : Trail(W, c)
        BY <3>1
      <3>3. AtStation(c)' /\ \A a \in W \ {c} : Behind(a)'
        BY <2>1, <2>4, <3>2 DEF Trail, AtStation, Behind
      <3> QED
        BY <2>3, <3>2, <3>3, TrailStays
    <2>6. CircuitOK'
      <3> SUFFICES ASSUME kept # {} PROVE CircuitOK'
        BY <2>1 DEF CircuitOK
      <3>1. CASE pc = "idle"
        BY <2>1, <3>1, CircuitRests DEF DiscoveryInv
      <3>2. CASE pc # "idle"
        <4>1. PICK W : ~ refresh /\ Circuit(W) /\ \E c \in W : Repeats(c)
          BY <3>2, Repeating DEF DiscoveryInv
        <4>2. PICK c \in W : Repeats(c)
          BY <4>1
        <4>3. Repeats(c)'
          BY <2>1, <4>2 DEF Repeats
        <4> QED
          BY <2>1, <4>1, <4>3, CircuitMoves
      <3> QED
        BY <3>1, <3>2
    <2> QED
      BY <2>2, <2>5, <2>6 DEF DiscoveryInv
  <1>2. CASE Discovery!Next
    BY <1>2, CollectionStep, TrailStep, CircuitStep DEF DiscoveryInv
  <1> QED
    BY <1>1, <1>2

(* It holds before the first one. *)
LEMMA DiscoveryInit ==
  ASSUME Discovery!Init
  PROVE  DiscoveryInv
  <1>1. pc = "idle" /\ kept = {}
    BY DEF Discovery!Init
  <1> QED
    BY <1>1, CollectionInit DEF DiscoveryInv, TrailOK, CircuitOK

(* It is all that was promised of a collection. *)
LEMMA DiscoveryInvSuffices ==
  ASSUME DiscoveryInv
  PROVE  Discovery!DiscoveryIsSound
  <1>1. Discovery!FoundAgain
    <2> SUFFICES ASSUME pc = "done", kept # {} PROVE kept \subseteq Discovery!Found
      BY DEF Discovery!FoundAgain
    <2>1. PICK W : \E c \in W : /\ Repeats(c)
                                /\ \/ pc = "done" /\ kept \subseteq Discovery!Found
                                   \/ \E b \in W : Reads(c, b)
      BY Repeating DEF DiscoveryInv
    <2> QED
      BY <2>1 DEF Repeats, Reads, ReadsRoot, TakesLink, EndsLinks, ReadsLink
  <1> QED
    BY <1>1 DEF DiscoveryInv, CollectionInv, Discovery!DiscoveryIsSound

(* Collections of rag/source_discovery.py: no collection counts more bytes *)
(* than it is allowed, what it finds is on an official page within the     *)
(* scope of its source and whole on disk, and what one collection found    *)
(* without a failure is found again by every later one, however earlier    *)
(* ones crashed, and whatever the web answers then.                        *)
THEOREM DiscoveryCorrect == Spec => []DiscoveryIsSound
  <1> DEFINE Inv == part = "discovery" => DiscoveryInv
  <1>1. Init => Inv
    BY DiscoveryInit DEF Init
  <1>2. Inv /\ [Next]_all => Inv'
    <2> SUFFICES ASSUME Inv, [Next]_all, part' = "discovery" PROVE DiscoveryInv'
      OBVIOUS
    <2>1. part = "discovery" /\ [Discovery!Next]_(Discovery!vars)
      BY DEF Next, all, Discovery!vars, Discovery!disk, Discovery!history
    <2> QED
      BY <2>1, DiscoveryStep
  <1>3. Inv => DiscoveryIsSound
    BY DiscoveryInvSuffices DEF DiscoveryIsSound
  <1> QED
    BY <1>1, <1>2, <1>3, PTL DEF Spec

-------------------------------------------------------------------------------
(* A set of numbers that is not empty has a least, which well-foundedness  *)
(* gives.                                                                  *)
LEMMA Smallest ==
  ASSUME NEW T, T \subseteq Nat, T # {}
  PROVE  \E n \in T : \A m \in T : n <= m
  <1>1. \E n \in T : \A m \in T : ~ (<<m, n>> \in OpToRel(<, Nat))
    BY NatLessThanWellFounded, WFMin, Zenon
  <1>2. \E n \in T : \A m \in T : ~ (m < n)
    BY <1>1 DEF OpToRel
  <1> QED
    BY <1>2

(* A set with 0 and every successor has all the numbers.                   *)
LEMMA SetInduction ==
  ASSUME NEW S, 0 \in S, \A n \in Nat : n \in S => n + 1 \in S
  PROVE  \A n \in Nat : n \in S
  <1>1. SUFFICES ASSUME Nat \ S # {} PROVE FALSE
    OBVIOUS
  <1>2. PICK n \in Nat \ S : \A m \in Nat \ S : n <= m
    BY <1>1, Smallest
  <1> QED
    BY <1>2

(* The same, up to a bound.                                                *)
LEMMA UpTo ==
  ASSUME NEW n \in Nat, NEW S, 0 \in S, \A i \in 1 .. n : i - 1 \in S => i \in S
  PROVE  \A i \in 0 .. n : i \in S
  <1> DEFINE T == {i \in Nat : i <= n => i \in S}
  <1>1. 0 \in T
    OBVIOUS
  <1>2. ASSUME NEW i \in Nat, i \in T
        PROVE  i + 1 \in T
    <2>1. SUFFICES ASSUME i + 1 <= n PROVE i + 1 \in S
      OBVIOUS
    <2>2. i + 1 \in 1 .. n /\ (i + 1) - 1 = i /\ i \in S
      BY <1>2, <2>1
    <2> QED
      BY <2>2
  <1> HIDE DEF T
  <1>3. \A i \in Nat : i \in T
    BY <1>1, <1>2, SetInduction
  <1> QED
    BY <1>3 DEF T

(* And one below a bound has a greatest, the maximum of the library.       *)
LEMMA Greatest ==
  ASSUME NEW n \in Nat, NEW s, s \subseteq 1 .. n, s # {}
  PROVE  Context!Max(s) \in s /\ \A i \in s : i <= Context!Max(s)
  <1> DEFINE T == {n - i : i \in s}
  <1>1. T \subseteq Nat /\ T # {}
    <2>1. \A i \in s : n - i \in Nat
      OBVIOUS
    <2>2. PICK i \in s : TRUE
      OBVIOUS
    <2>3. n - i \in T
      OBVIOUS
    <2> QED
      BY <2>1, <2>3
  <1>2. PICK m \in T : \A k \in T : m <= k
    BY <1>1, Smallest
  <1>3. PICK j \in s : m = n - j
    OBVIOUS
  <1>4. \A i \in s : j >= i
    BY <1>2, <1>3
  <1> QED
    BY <1>4 DEF Context!Max

(* A fold over a sequence of length n, whose step is given as a function   *)
(* of position and intermediate result: it exists, on all the positions    *)
(* that FoldLeft may be left with.                                         *)
FoldsTo(it, n, base, step) ==
    \A s \in SUBSET (1 .. n) :
        it[s] = IF s = {} THEN base
                ELSE step[<<Context!Max(s), it[s \ {Context!Max(s)}]>>]

(* The recursion has a solution, so the CHOOSE of the fold has one.        *)
LEMMA FoldExists ==
  ASSUME NEW A, NEW base \in A, NEW n \in Nat, NEW step \in [(1 .. n) \X A -> A]
  PROVE  \E it \in [SUBSET (1 .. n) -> A] : FoldsTo(it, n, base, step)
  <1> DEFINE S == {m \in 0 .. n : \E it \in [SUBSET (1 .. m) -> A] : FoldsTo(it, m, base, step)}
  <1>1. 0 \in S
    <2> DEFINE it == [s \in SUBSET (1 .. 0) |-> base]
    <2>1. \A s \in SUBSET (1 .. 0) : s = {}
      OBVIOUS
    <2>2. it \in [SUBSET (1 .. 0) -> A] /\ FoldsTo(it, 0, base, step)
      BY <2>1 DEF FoldsTo
    <2> QED
      BY <2>2
  <1>2. ASSUME NEW m \in 1 .. n, m - 1 \in S
        PROVE  m \in S
    <2>1. PICK old \in [SUBSET (1 .. m - 1) -> A] : FoldsTo(old, m - 1, base, step)
      BY <1>2
    <2> DEFINE it == [s \in SUBSET (1 .. m) |->
                         IF m \in s THEN step[<<m, old[s \ {m}]>>] ELSE old[s]]
    <2>2. ASSUME NEW s \in SUBSET (1 .. m), m \in s
          PROVE  /\ s \ {m} \in SUBSET (1 .. m - 1) /\ Context!Max(s) = m /\ s # {}
                 /\ it[s] = step[<<m, it[s \ {m}]>>] /\ it[s] \in A
      <3>1. s \ {m} \in SUBSET (1 .. m - 1)
        OBVIOUS
      <3>2. Context!Max(s) = m
        <4>1. m \in Nat /\ s \subseteq 1 .. m /\ s # {}
          BY <2>2
        <4>2. Context!Max(s) \in s /\ \A i \in s : i <= Context!Max(s)
          BY <4>1, Greatest
        <4>3. PICK k : k = Context!Max(s)
          OBVIOUS
        <4>4. k \in 1 .. m /\ m <= k
          BY <2>2, <4>1, <4>2, <4>3
        <4>5. k = m
          BY <4>4
        <4> QED
          BY <4>3, <4>5
      <3>3. it[s \ {m}] = old[s \ {m}] /\ old[s \ {m}] \in A
        BY <3>1
      <3>4. it[s] = step[<<m, old[s \ {m}]>>]
        BY <2>2
      <3>5. <<m, old[s \ {m}]>> \in (1 .. n) \X A
        BY <3>3
      <3> QED
        BY <2>2, <3>1, <3>2, <3>3, <3>4, <3>5
    <2>3. ASSUME NEW s \in SUBSET (1 .. m), m \notin s
          PROVE  /\ s \in SUBSET (1 .. m - 1) /\ it[s] = old[s] /\ it[s] \in A
                 /\ s # {} => it[s \ {Context!Max(s)}] = old[s \ {Context!Max(s)}]
      <3>1. s \in SUBSET (1 .. m - 1)
        BY <2>3
      <3> QED
        BY <2>3, <3>1
    <2>4. it \in [SUBSET (1 .. m) -> A]
      BY <2>2, <2>3
    <2> HIDE DEF it
    <2>5. FoldsTo(it, m, base, step)
      <3>1. ASSUME NEW s \in SUBSET (1 .. m)
            PROVE  it[s] = IF s = {} THEN base
                           ELSE step[<<Context!Max(s), it[s \ {Context!Max(s)}]>>]
        <4>1. CASE m \in s
          BY <2>2, <4>1
        <4>2. CASE m \notin s
          BY <2>1, <2>3, <4>2 DEF FoldsTo
        <4> QED
          BY <4>1, <4>2
      <3> QED
        BY <3>1 DEF FoldsTo
    <2> QED
      BY <2>4, <2>5
  <1> HIDE DEF S
  <1>3. \A m \in 0 .. n : m \in S
    BY <1>1, <1>2, UpTo
  <1>4. n \in S
    BY <1>3
  <1> QED
    BY <1>4 DEF S

(* What the recursion of a fold makes of it, as long as it stays in A, and *)
(* the row of values it goes through, each from the one before.            *)
Recurs(it, n, A, base, step) ==
    \A s \in SUBSET (1 .. n) :
        /\ s = {} => it[s] = base
        /\ s # {} /\ it[s \ {Context!Max(s)}] \in A =>
              it[s] = step[<<Context!Max(s), it[s \ {Context!Max(s)}]>>]

(* A step takes a position and a result in A to a result in A. *)
IsStep(step, n, A) == step \in [(1 .. n) \X A -> A]

(* The values a fold goes through, each from the one before. *)
Row(f, n, A, base, step) ==
    /\ f \in [0 .. n -> A]
    /\ f[0] = base
    /\ \A i \in 1 .. n : f[i - 1] \in A /\ f[i] = step[<<i, f[i - 1]>>]

(* Every fold over a sequence goes through its row. *)
LEMMA FoldRow ==
  ASSUME NEW A, NEW base, NEW n, NEW step, NEW it,
         base \in A, n \in Nat, IsStep(step, n, A), Recurs(it, n, A, base, step)
  PROVE  \E f : Row(f, n, A, base, step) /\ f[n] = it[1 .. n]
  <1> DEFINE f == [i \in 0 .. n |-> it[1 .. i]]
             T == {i \in 0 .. n : f[i] \in A}
  <1>1. f[0] = base /\ f[n] = it[1 .. n]
    <2>1. 1 .. 0 = {} /\ 0 \in 0 .. n /\ n \in 0 .. n
      OBVIOUS
    <2> QED
      BY <2>1 DEF Recurs
  <1>2. ASSUME NEW i \in 1 .. n, f[i - 1] \in A
        PROVE  f[i] = step[<<i, f[i - 1]>>]
    <2>1. /\ 1 .. i \subseteq 1 .. n /\ i \in 1 .. i /\ i \in Nat
          /\ i - 1 \in 0 .. n /\ i \in 0 .. n
      OBVIOUS
    <2>2. Context!Max(1 .. i) = i
      <3>1. Context!Max(1 .. i) \in 1 .. i /\ \A k \in 1 .. i : k <= Context!Max(1 .. i)
        BY <2>1, Greatest
      <3> QED
        BY <2>1, <3>1
    <2>3. (1 .. i) \ {i} = 1 .. i - 1
      OBVIOUS
    <2>4. it[1 .. i - 1] \in A
      BY <1>2, <2>1
    <2>5. it[1 .. i] = step[<<i, it[1 .. i - 1]>>]
      BY <2>1, <2>2, <2>3, <2>4 DEF Recurs
    <2> QED
      BY <2>1, <2>5
  <1> HIDE DEF f
  <1>3. \A i \in 0 .. n : i \in T
    <2>1. 0 \in T
      BY <1>1
    <2>2. ASSUME NEW i \in 1 .. n, i - 1 \in T
          PROVE  i \in T
      <3>1. f[i - 1] \in A /\ <<i, f[i - 1]>> \in (1 .. n) \X A /\ i \in 0 .. n
        BY <2>2
      <3>2. f[i] \in A
        BY <1>2, <3>1 DEF IsStep
      <3> QED
        BY <3>1, <3>2
    <2> HIDE DEF T
    <2> QED
      BY <2>1, <2>2, UpTo
  <1>4. f \in [0 .. n -> A]
    BY <1>3 DEF f
  <1>5. \A i \in 1 .. n : f[i - 1] \in A /\ f[i] = step[<<i, f[i - 1]>>]
    <2> TAKE i \in 1 .. n
    <2>1. i - 1 \in 0 .. n
      OBVIOUS
    <2> QED
      BY <1>2, <1>4, <2>1
  <1> QED
    BY <1>1, <1>4, <1>5 DEF Row

(* Two rows that begin alike and go on alike end alike.                    *)
LEMMA SameRow ==
  ASSUME NEW n \in Nat, NEW f, NEW g, f[0] = g[0],
         \A i \in 1 .. n : f[i - 1] = g[i - 1] => f[i] = g[i]
  PROVE  f[n] = g[n]
  <1> DEFINE T == {i \in 0 .. n : f[i] = g[i]}
  <1>1. 0 \in T
    OBVIOUS
  <1>2. \A i \in 1 .. n : i - 1 \in T => i \in T
    OBVIOUS
  <1> HIDE DEF T
  <1>3. \A i \in 0 .. n : i \in T
    BY <1>1, <1>2, UpTo
  <1> QED
    BY <1>3 DEF T

(* A set of sequences with the empty one, and with every continuation of   *)
(* one of them, has all.                                                   *)
LEMMA SeqInduction ==
  ASSUME NEW X, NEW P, <<>> \in P,
         \A s \in Seq(X), c \in X : s \in P => Append(s, c) \in P
  PROVE  \A s \in Seq(X) : s \in P
  <1> DEFINE T == {n \in Nat : \A s \in Seq(X) : Len(s) = n => s \in P}
  <1>1. 0 \in T
    BY EmptySeq
  <1>2. ASSUME NEW n \in Nat, n \in T
        PROVE  n + 1 \in T
    <2>1. SUFFICES ASSUME NEW s \in Seq(X), Len(s) = n + 1 PROVE s \in P
      OBVIOUS
    <2>2. s # <<>>
      BY <2>1, EmptySeq
    <2>3. PICK t \in Seq(X), c \in X : s = Append(t, c)
      BY <2>2, SequenceEmptyOrAppend
    <2>4. Len(t) \in Nat /\ Len(s) = Len(t) + 1
      BY <2>3, LenProperties, AppendProperties
    <2>5. t \in P
      BY <1>2, <2>1, <2>4
    <2> QED
      BY <2>3, <2>5
  <1> HIDE DEF T
  <1>3. \A n \in Nat : n \in T
    BY <1>1, <1>2, SetInduction
  <1>4. TAKE s \in Seq(X)
  <1>5. Len(s) \in Nat
    BY LenProperties
  <1> QED
    BY <1>3, <1>5 DEF T

(* The elements of a sequence, and of one with one more. *)
LEMMA RangeOf ==
  /\ Context!Range(<<>>) = {}
  /\ \A X : \A s \in Seq(X), c \in X :
        /\ Context!Range(s) \subseteq X
        /\ Context!Range(Append(s, c)) = Context!Range(s) \cup {c}
  <1>1. Context!Range(<<>>) = {}
    BY DEF Context!Range
  <1>2. ASSUME NEW X, NEW s \in Seq(X), NEW c \in X
        PROVE  /\ Context!Range(s) \subseteq X
               /\ Context!Range(Append(s, c)) = Context!Range(s) \cup {c}
    <2>1. /\ Len(s) \in Nat /\ DOMAIN s = 1 .. Len(s)
          /\ DOMAIN Append(s, c) = 1 .. Len(s) + 1
          /\ \A i \in 1 .. Len(s) : Append(s, c)[i] = s[i] /\ s[i] \in X
          /\ Append(s, c)[Len(s) + 1] = c
      BY LenProperties, AppendProperties, ElementOfSeq
    <2>2. \A i \in 1 .. Len(s) + 1 : i \in 1 .. Len(s) \/ i = Len(s) + 1
      BY <2>1
    <2>3. Context!Range(s) \subseteq X
      BY <2>1 DEF Context!Range
    <2>4. Context!Range(Append(s, c)) \subseteq Context!Range(s) \cup {c}
      BY <2>1, <2>2 DEF Context!Range
    <2>5. Context!Range(s) \cup {c} \subseteq Context!Range(Append(s, c))
      <3>1. \A i \in 1 .. Len(s) : i \in 1 .. Len(s) + 1
        BY <2>1
      <3>2. Len(s) + 1 \in 1 .. Len(s) + 1
        BY <2>1
      <3> QED
        BY <2>1, <3>1, <3>2 DEF Context!Range
    <2> QED
      BY <2>3, <2>4, <2>5
  <1> QED
    BY <1>1, <1>2

(* A sequence names an element once if it does so without the last, and    *)
(* that is new.                                                            *)
LEMMA InjectiveOf ==
  /\ Context!IsInjective(<<>>)
  /\ \A X : \A s \in Seq(X), c \in X :
        Context!IsInjective(Append(s, c)) <=> Context!IsInjective(s) /\ c \notin Context!Range(s)
  <1>1. Context!IsInjective(<<>>)
    BY DEF Context!IsInjective
  <1>2. ASSUME NEW X, NEW s \in Seq(X), NEW c \in X
        PROVE  Context!IsInjective(Append(s, c)) <=>
                  Context!IsInjective(s) /\ c \notin Context!Range(s)
    <2>1. /\ Len(s) \in Nat /\ DOMAIN s = 1 .. Len(s)
          /\ DOMAIN Append(s, c) = 1 .. Len(s) + 1
          /\ \A i \in 1 .. Len(s) : Append(s, c)[i] = s[i]
          /\ Append(s, c)[Len(s) + 1] = c
      BY LenProperties, AppendProperties
    <2>2. /\ \A i \in 1 .. Len(s) + 1 : i \in 1 .. Len(s) \/ i = Len(s) + 1
          /\ \A i \in 1 .. Len(s) : i \in 1 .. Len(s) + 1 /\ i # Len(s) + 1
          /\ Len(s) + 1 \in 1 .. Len(s) + 1
      BY <2>1
    <2>3. ASSUME Context!IsInjective(Append(s, c))
          PROVE  Context!IsInjective(s) /\ c \notin Context!Range(s)
      BY <2>1, <2>2, <2>3 DEF Context!IsInjective, Context!Range
    <2>4. ASSUME Context!IsInjective(s), c \notin Context!Range(s)
          PROVE  Context!IsInjective(Append(s, c))
      BY <2>1, <2>2, <2>4 DEF Context!IsInjective, Context!Range
    <2> QED
      BY <2>3, <2>4
  <1> QED
    BY <1>1, <1>2

(* What the folds of a prompt are made of, with the costs as a parameter.  *)
Packs == [taken : Seq(Context!Chunk), used : Nat, spent : Nat]

(* One chunk offered to _pack. *)
TakeStep(k, limit, a, c) ==
    IF c \in Context!Range(a.taken) \/ a.used + k[c] > Tokens \/ a.spent + k[c] > limit THEN a
    ELSE [a EXCEPT !.taken = Append(@, c), !.used = @ + k[c], !.spent = @ + k[c]]

(* Chunks offered in turn, from a selection, within a limit of their own. *)
TakeOf(k, acc, seq, limit) ==
    Context!FoldLeft(LAMBDA a, c : TakeStep(k, limit, a, c), [acc EXCEPT !.spent = 0], seq)

(* The tokens of a sequence of chunks. *)
TotalOf(k, seq) == Context!FoldLeft(LAMBDA sum, c : sum + k[c], 0, seq)

(* What token_context has selected so far. *)
Selections == [selected : Seq(Context!Chunk), used : Nat, consumed : Nat, limit : Int]

(* One chunk offered to token_context. *)
ConsumeStep(k, a, c) ==
    IF \/ \E i \in DOMAIN a.selected : a.selected[i] = c
       \/ a.consumed + k[c] > a.limit
       \/ a.used + k[c] > Tokens
    THEN a
    ELSE [a EXCEPT !.selected = Append(@, c), !.used = @ + k[c], !.consumed = @ + k[c]]

(* Chunks offered to it in turn. *)
ConsumeOf(k, acc, seq) == Context!FoldLeft(LAMBDA a, c : ConsumeStep(k, a, c), acc, seq)

(* What is left of a selection, and how many chunks have made room. *)
Yields == [kept : Seq(Context!Chunk), removed : Nat]

(* One chunk asked to make room for the additions. *)
YieldStep(additions, a, c) ==
    IF \/ Context!Total(a.kept) + Context!Total(additions) <= Tokens
       \/ c \in Context!Range(hits)
       \/ a.removed = 3
    THEN a
    ELSE [kept |-> Context!InOrder(a.kept, Context!Chunk \ {c}), removed |-> a.removed + 1]

(* One chunk of a sequence, which is of the part or not. *)
InOrderStep(S, seq, c) == IF c \in S THEN Append(seq, c) ELSE seq

(* A part of a sequence, chunk after chunk. *)
InOrderRun(X, S, f, seq) ==
    /\ f \in [0 .. Len(seq) -> Seq(X)]
    /\ f[0] = <<>>
    /\ \A i \in 1 .. Len(seq) : f[i - 1] \in Seq(X) /\ f[i] = InOrderStep(S, f[i - 1], seq[i])

(* The fold goes through such a row. *)
LEMMA InOrderRow ==
  ASSUME NEW X, NEW S,
         NEW seq \in Seq(X)
  PROVE  \E f : InOrderRun(X, S, f, seq) /\ Context!InOrder(seq, S) = f[Len(seq)]
  <1>1. PICK n \in Nat : n = Len(seq) /\ DOMAIN seq = 1 .. n /\ \A i \in 1 .. n : seq[i] \in X
    BY LenProperties, ElementOfSeq
  <1> DEFINE base == <<>>
             Step(i, a) == InOrderStep(S, a, seq[i])
             step == [p \in (1 .. n) \X Seq(X) |-> Step(p[1], p[2])]
             Body(it) == [s \in SUBSET (1 .. n) |->
                             IF s = {} THEN base
                             ELSE Step(Context!Max(s), it[s \ {Context!Max(s)}])]
             it == CHOOSE it : it = Body(it)
  <1>2. base \in Seq(X) /\ \A i \in 1 .. n, a \in Seq(X) : Step(i, a) \in Seq(X)
    <2>1. base \in Seq(X)
      BY EmptySeq
    <2> QED
      BY <1>1, <2>1, AppendProperties DEF InOrderStep
  <1>3. Context!InOrder(seq, S) = it[1 .. n]
    BY <1>1, Zenon DEF Context!InOrder, InOrderStep, Context!FoldLeft, Context!MapThenFoldSet
  <1> HIDE DEF base, Step
  <1>4. /\ step \in [(1 .. n) \X Seq(X) -> Seq(X)]
        /\ \A i \in 1 .. n, a \in Seq(X) : step[<<i, a>>] = Step(i, a)
    BY <1>2
  <1> HIDE DEF step
  <1>5. PICK g \in [SUBSET (1 .. n) -> Seq(X)] : FoldsTo(g, n, base, step)
    BY <1>1, <1>2, <1>4, FoldExists
  <1>6. ASSUME NEW s \in SUBSET (1 .. n)
        PROVE  g[s] = IF s = {} THEN base
                      ELSE Step(Context!Max(s), g[s \ {Context!Max(s)}])
    <2>1. CASE s # {}
      <3>1. Context!Max(s) \in s
        BY <1>1, <2>1, Greatest
      <3>2. Context!Max(s) \in 1 .. n /\ g[s \ {Context!Max(s)}] \in Seq(X)
        BY <3>1
      <3> QED
        BY <1>4, <1>5, <2>1, <3>2 DEF FoldsTo
    <2> QED
      BY <1>5, <2>1 DEF FoldsTo
  <1>7. it = Body(it)
    <2>1. g = Body(g)
      BY <1>6
    <2> QED
      BY <2>1
  <1> HIDE DEF it
  <1>8. \A s \in SUBSET (1 .. n) :
           it[s] = IF s = {} THEN base ELSE Step(Context!Max(s), it[s \ {Context!Max(s)}])
    BY <1>7
  <1>9. Recurs(it, n, Seq(X), base, step)
    <2>1. ASSUME NEW s \in SUBSET (1 .. n), s # {}, it[s \ {Context!Max(s)}] \in Seq(X)
          PROVE  it[s] = step[<<Context!Max(s), it[s \ {Context!Max(s)}]>>]
      <3>1. Context!Max(s) \in s
        BY <1>1, <2>1, Greatest
      <3> QED
        BY <1>4, <1>8, <2>1, <3>1
    <2> QED
      BY <1>8, <2>1 DEF Recurs
  <1>10. PICK f : Row(f, n, Seq(X), base, step) /\ f[n] = it[1 .. n]
    <2>1. IsStep(step, n, Seq(X))
      BY <1>4 DEF IsStep
    <2> QED
      BY <1>2, <1>9, <2>1, FoldRow
  <1>11. InOrderRun(X, S, f, seq)
    <2>1. \A i \in 1 .. n : f[i - 1] \in Seq(X) /\ f[i] = Step(i, f[i - 1])
      BY <1>4, <1>10 DEF Row
    <2> QED
      BY <1>1, <1>10, <2>1 DEF Row, InOrderRun, base, Step
  <1> QED
    BY <1>1, <1>3, <1>10, <1>11

(* The two equations of a part of a sequence. *)
LEMMA InOrderAlong ==
  ASSUME NEW X, NEW S
  PROVE  /\ Context!InOrder(<<>>, S) = <<>>
         /\ \A seq \in Seq(X) : Context!InOrder(seq, S) \in Seq(X)
         /\ \A seq \in Seq(X), c \in X :
               Context!InOrder(Append(seq, c), S) =
                  InOrderStep(S, Context!InOrder(seq, S), c)
  <1>1. Context!InOrder(<<>>, S) = <<>>
    <2>1. <<>> \in Seq(X) /\ Len(<<>>) = 0
      BY EmptySeq
    <2>2. PICK f : InOrderRun(X, S, f, <<>>) /\ Context!InOrder(<<>>, S) = f[Len(<<>>)]
      BY <2>1, InOrderRow
    <2> QED
      BY <2>1, <2>2 DEF InOrderRun
  <1>2. ASSUME NEW seq \in Seq(X)
        PROVE  Context!InOrder(seq, S) \in Seq(X)
    <2>1. PICK f : InOrderRun(X, S, f, seq) /\ Context!InOrder(seq, S) = f[Len(seq)]
      BY InOrderRow
    <2> QED
      BY <2>1, LenProperties DEF InOrderRun
  <1>3. ASSUME NEW seq \in Seq(X), NEW c \in X
        PROVE  Context!InOrder(Append(seq, c), S) =
                  InOrderStep(S, Context!InOrder(seq, S), c)
    <2>1. PICK n \in Nat : n = Len(seq)
      BY LenProperties
    <2>2. PICK longer : longer = Append(seq, c)
      OBVIOUS
    <2>3. /\ longer \in Seq(X) /\ Len(longer) = n + 1
          /\ \A i \in 1 .. n : longer[i] = seq[i]
          /\ longer[n + 1] = c
      BY <2>1, <2>2, AppendProperties
    <2>4. PICK f : InOrderRun(X, S, f, seq) /\ Context!InOrder(seq, S) = f[Len(seq)]
      BY InOrderRow
    <2>5. PICK g : InOrderRun(X, S, g, longer) /\ Context!InOrder(longer, S) = g[Len(longer)]
      BY <2>3, InOrderRow
    <2>6. f[n] = g[n]
      <3>1. f[0] = g[0]
        BY <2>4, <2>5 DEF InOrderRun
      <3>2. ASSUME NEW i \in 1 .. n, f[i - 1] = g[i - 1]
            PROVE  f[i] = g[i]
        <4>1. i \in 1 .. n + 1 /\ longer[i] = seq[i]
          BY <2>3
        <4>2. f[i] = InOrderStep(S, f[i - 1], seq[i])
          BY <2>1, <2>4 DEF InOrderRun
        <4>3. g[i] = InOrderStep(S, g[i - 1], longer[i])
          BY <2>3, <2>5, <4>1 DEF InOrderRun
        <4> QED
          BY <3>2, <4>1, <4>2, <4>3
      <3> QED
        BY <3>1, <3>2, SameRow
    <2>7. g[n + 1] = InOrderStep(S, g[n], c)
      <3>1. n + 1 \in 1 .. n + 1 /\ (n + 1) - 1 = n
        OBVIOUS
      <3>2. g[n + 1] = InOrderStep(S, g[(n + 1) - 1], longer[n + 1])
        BY <2>3, <2>5, <3>1 DEF InOrderRun
      <3> QED
        BY <2>3, <3>1, <3>2
    <2> QED
      BY <2>1, <2>2, <2>3, <2>4, <2>5, <2>6, <2>7
  <1> QED
    BY <1>1, <1>2, <1>3

(* A total, chunk after chunk. *)
TotalRun(k, f, seq) ==
    /\ f \in [0 .. Len(seq) -> Nat]
    /\ f[0] = 0
    /\ \A i \in 1 .. Len(seq) : f[i - 1] \in Nat /\ f[i] = f[i - 1] + k[seq[i]]

(* The fold goes through such a row. *)
LEMMA TotalRow ==
  ASSUME NEW k \in [Context!Chunk -> Nat],
         NEW seq \in Seq(Context!Chunk)
  PROVE  \E f : TotalRun(k, f, seq) /\ TotalOf(k, seq) = f[Len(seq)]
  <1>1. PICK n \in Nat : n = Len(seq) /\ DOMAIN seq = 1 .. n /\ \A i \in 1 .. n : seq[i] \in Context!Chunk
    BY LenProperties, ElementOfSeq
  <1> DEFINE base == 0
             Step(i, a) == a + k[seq[i]]
             step == [p \in (1 .. n) \X Nat |-> Step(p[1], p[2])]
             Body(it) == [s \in SUBSET (1 .. n) |->
                             IF s = {} THEN base
                             ELSE Step(Context!Max(s), it[s \ {Context!Max(s)}])]
             it == CHOOSE it : it = Body(it)
  <1>2. base \in Nat /\ \A i \in 1 .. n, a \in Nat : Step(i, a) \in Nat
    BY <1>1
  <1>3. TotalOf(k, seq) = it[1 .. n]
    BY <1>1, Zenon DEF TotalOf, Context!FoldLeft, Context!MapThenFoldSet
  <1> HIDE DEF base, Step
  <1>4. /\ step \in [(1 .. n) \X Nat -> Nat]
        /\ \A i \in 1 .. n, a \in Nat : step[<<i, a>>] = Step(i, a)
    BY <1>2
  <1> HIDE DEF step
  <1>5. PICK g \in [SUBSET (1 .. n) -> Nat] : FoldsTo(g, n, base, step)
    BY <1>1, <1>2, <1>4, FoldExists
  <1>6. ASSUME NEW s \in SUBSET (1 .. n)
        PROVE  g[s] = IF s = {} THEN base
                      ELSE Step(Context!Max(s), g[s \ {Context!Max(s)}])
    <2>1. CASE s # {}
      <3>1. Context!Max(s) \in s
        BY <1>1, <2>1, Greatest
      <3>2. Context!Max(s) \in 1 .. n /\ g[s \ {Context!Max(s)}] \in Nat
        BY <3>1
      <3> QED
        BY <1>4, <1>5, <2>1, <3>2 DEF FoldsTo
    <2> QED
      BY <1>5, <2>1 DEF FoldsTo
  <1>7. it = Body(it)
    <2>1. g = Body(g)
      BY <1>6
    <2> QED
      BY <2>1
  <1> HIDE DEF it
  <1>8. \A s \in SUBSET (1 .. n) :
           it[s] = IF s = {} THEN base ELSE Step(Context!Max(s), it[s \ {Context!Max(s)}])
    BY <1>7
  <1>9. Recurs(it, n, Nat, base, step)
    <2>1. ASSUME NEW s \in SUBSET (1 .. n), s # {}, it[s \ {Context!Max(s)}] \in Nat
          PROVE  it[s] = step[<<Context!Max(s), it[s \ {Context!Max(s)}]>>]
      <3>1. Context!Max(s) \in s
        BY <1>1, <2>1, Greatest
      <3> QED
        BY <1>4, <1>8, <2>1, <3>1
    <2> QED
      BY <1>8, <2>1 DEF Recurs
  <1>10. PICK f : Row(f, n, Nat, base, step) /\ f[n] = it[1 .. n]
    <2>1. PICK A : A = Nat
      OBVIOUS
    <2>2. base \in A /\ IsStep(step, n, A) /\ Recurs(it, n, A, base, step)
      BY <1>2, <1>4, <1>9, <2>1 DEF IsStep
    <2>3. \E f : Row(f, n, A, base, step) /\ f[n] = it[1 .. n]
      BY <2>2, FoldRow
    <2> QED
      BY <2>1, <2>3
  <1>11. TotalRun(k, f, seq)
    <2>1. \A i \in 1 .. n : f[i - 1] \in Nat /\ f[i] = Step(i, f[i - 1])
      BY <1>4, <1>10 DEF Row
    <2> QED
      BY <1>1, <1>10, <2>1 DEF Row, TotalRun, base, Step
  <1> QED
    BY <1>1, <1>3, <1>10, <1>11

(* The two equations of a total. *)
LEMMA TotalAlong ==
  ASSUME NEW k \in [Context!Chunk -> Nat]
  PROVE  /\ TotalOf(k, <<>>) = 0
         /\ \A seq \in Seq(Context!Chunk) : TotalOf(k, seq) \in Nat
         /\ \A seq \in Seq(Context!Chunk), c \in Context!Chunk :
               TotalOf(k, Append(seq, c)) =
                  TotalOf(k, seq) + k[c]
  <1>1. TotalOf(k, <<>>) = 0
    <2>1. <<>> \in Seq(Context!Chunk) /\ Len(<<>>) = 0
      BY EmptySeq
    <2>2. PICK f : TotalRun(k, f, <<>>) /\ TotalOf(k, <<>>) = f[Len(<<>>)]
      BY <2>1, TotalRow
    <2> QED
      BY <2>1, <2>2 DEF TotalRun
  <1>2. ASSUME NEW seq \in Seq(Context!Chunk)
        PROVE  TotalOf(k, seq) \in Nat
    <2>1. PICK f : TotalRun(k, f, seq) /\ TotalOf(k, seq) = f[Len(seq)]
      BY TotalRow
    <2> QED
      BY <2>1, LenProperties DEF TotalRun
  <1>3. ASSUME NEW seq \in Seq(Context!Chunk), NEW c \in Context!Chunk
        PROVE  TotalOf(k, Append(seq, c)) =
                  TotalOf(k, seq) + k[c]
    <2>1. PICK n \in Nat : n = Len(seq)
      BY LenProperties
    <2>2. PICK longer : longer = Append(seq, c)
      OBVIOUS
    <2>3. /\ longer \in Seq(Context!Chunk) /\ Len(longer) = n + 1
          /\ \A i \in 1 .. n : longer[i] = seq[i]
          /\ longer[n + 1] = c
      BY <2>1, <2>2, AppendProperties
    <2>4. PICK f : TotalRun(k, f, seq) /\ TotalOf(k, seq) = f[Len(seq)]
      BY TotalRow
    <2>5. PICK g : TotalRun(k, g, longer) /\ TotalOf(k, longer) = g[Len(longer)]
      BY <2>3, TotalRow
    <2>6. f[n] = g[n]
      <3>1. f[0] = g[0]
        BY <2>4, <2>5 DEF TotalRun
      <3>2. ASSUME NEW i \in 1 .. n, f[i - 1] = g[i - 1]
            PROVE  f[i] = g[i]
        <4>1. i \in 1 .. n + 1 /\ longer[i] = seq[i]
          BY <2>3
        <4>2. f[i] = f[i - 1] + k[seq[i]]
          BY <2>1, <2>4 DEF TotalRun
        <4>3. g[i] = g[i - 1] + k[longer[i]]
          BY <2>3, <2>5, <4>1 DEF TotalRun
        <4> QED
          BY <3>2, <4>1, <4>2, <4>3
      <3> QED
        BY <3>1, <3>2, SameRow
    <2>7. g[n + 1] = g[n] + k[c]
      <3>1. n + 1 \in 1 .. n + 1 /\ (n + 1) - 1 = n
        OBVIOUS
      <3>2. g[n + 1] = g[(n + 1) - 1] + k[longer[n + 1]]
        BY <2>3, <2>5, <3>1 DEF TotalRun
      <3> QED
        BY <2>3, <3>1, <3>2
    <2> QED
      BY <2>1, <2>2, <2>3, <2>4, <2>5, <2>6, <2>7
  <1> QED
    BY <1>1, <1>2, <1>3

(* A selection, chunk after chunk. *)
TakeRun(k, acc, limit, f, seq) ==
    /\ f \in [0 .. Len(seq) -> Packs]
    /\ f[0] = [acc EXCEPT !.spent = 0]
    /\ \A i \in 1 .. Len(seq) : f[i - 1] \in Packs /\ f[i] = TakeStep(k, limit, f[i - 1], seq[i])

(* The fold goes through such a row. *)
LEMMA TakeRow ==
  ASSUME NEW k \in [Context!Chunk -> Nat], NEW acc \in Packs, NEW limit \in Int,
         NEW seq \in Seq(Context!Chunk)
  PROVE  \E f : TakeRun(k, acc, limit, f, seq) /\ TakeOf(k, acc, seq, limit) = f[Len(seq)]
  <1>1. PICK n \in Nat : n = Len(seq) /\ DOMAIN seq = 1 .. n /\ \A i \in 1 .. n : seq[i] \in Context!Chunk
    BY LenProperties, ElementOfSeq
  <1> DEFINE base == [acc EXCEPT !.spent = 0]
             Step(i, a) == TakeStep(k, limit, a, seq[i])
             step == [p \in (1 .. n) \X Packs |-> Step(p[1], p[2])]
             Body(it) == [s \in SUBSET (1 .. n) |->
                             IF s = {} THEN base
                             ELSE Step(Context!Max(s), it[s \ {Context!Max(s)}])]
             it == CHOOSE it : it = Body(it)
  <1>2. base \in Packs /\ \A i \in 1 .. n, a \in Packs : Step(i, a) \in Packs
    <2>1. base \in Packs
      BY DEF Packs
    <2>2. ASSUME NEW i \in 1 .. n, NEW a \in Packs
          PROVE  Step(i, a) \in Packs
      <3>1. k[seq[i]] \in Nat /\ Append(a.taken, seq[i]) \in Seq(Context!Chunk)
        BY <1>1, AppendProperties DEF Packs
      <3>2. PICK b \in BOOLEAN : b = (\/ seq[i] \in Context!Range(a.taken)
                                     \/ a.used + k[seq[i]] > Tokens
                                     \/ a.spent + k[seq[i]] > limit)
        OBVIOUS
      <3>3. Step(i, a) = IF b THEN a
                         ELSE [a EXCEPT !.taken = Append(a.taken, seq[i]),
                                        !.used = a.used + k[seq[i]], !.spent = a.spent + k[seq[i]]]
        BY <3>2 DEF TakeStep
      <3>4. a.used + k[seq[i]] \in Nat /\ a.spent + k[seq[i]] \in Nat
        BY <3>1 DEF Packs
      <3> QED
        BY <3>1, <3>3, <3>4 DEF Packs
    <2> QED
      BY <2>1, <2>2
  <1>3. TakeOf(k, acc, seq, limit) = it[1 .. n]
    BY <1>1, Zenon DEF TakeOf, Context!FoldLeft, Context!MapThenFoldSet
  <1> HIDE DEF base, Step
  <1>4. /\ step \in [(1 .. n) \X Packs -> Packs]
        /\ \A i \in 1 .. n, a \in Packs : step[<<i, a>>] = Step(i, a)
    BY <1>2
  <1> HIDE DEF step
  <1>5. PICK g \in [SUBSET (1 .. n) -> Packs] : FoldsTo(g, n, base, step)
    BY <1>1, <1>2, <1>4, FoldExists
  <1>6. ASSUME NEW s \in SUBSET (1 .. n)
        PROVE  g[s] = IF s = {} THEN base
                      ELSE Step(Context!Max(s), g[s \ {Context!Max(s)}])
    <2>1. CASE s # {}
      <3>1. Context!Max(s) \in s
        BY <1>1, <2>1, Greatest
      <3>2. Context!Max(s) \in 1 .. n /\ g[s \ {Context!Max(s)}] \in Packs
        BY <3>1
      <3> QED
        BY <1>4, <1>5, <2>1, <3>2 DEF FoldsTo
    <2> QED
      BY <1>5, <2>1 DEF FoldsTo
  <1>7. it = Body(it)
    <2>1. g = Body(g)
      BY <1>6
    <2> QED
      BY <2>1
  <1> HIDE DEF it
  <1>8. \A s \in SUBSET (1 .. n) :
           it[s] = IF s = {} THEN base ELSE Step(Context!Max(s), it[s \ {Context!Max(s)}])
    BY <1>7
  <1>9. Recurs(it, n, Packs, base, step)
    <2>1. ASSUME NEW s \in SUBSET (1 .. n), s # {}, it[s \ {Context!Max(s)}] \in Packs
          PROVE  it[s] = step[<<Context!Max(s), it[s \ {Context!Max(s)}]>>]
      <3>1. Context!Max(s) \in s
        BY <1>1, <2>1, Greatest
      <3> QED
        BY <1>4, <1>8, <2>1, <3>1
    <2> QED
      BY <1>8, <2>1 DEF Recurs
  <1>10. PICK f : Row(f, n, Packs, base, step) /\ f[n] = it[1 .. n]
    <2>1. IsStep(step, n, Packs)
      BY <1>4 DEF IsStep
    <2> QED
      BY <1>2, <1>9, <2>1, FoldRow
  <1>11. TakeRun(k, acc, limit, f, seq)
    <2>1. \A i \in 1 .. n : f[i - 1] \in Packs /\ f[i] = Step(i, f[i - 1])
      BY <1>4, <1>10 DEF Row
    <2> QED
      BY <1>1, <1>10, <2>1 DEF Row, TakeRun, base, Step
  <1> QED
    BY <1>1, <1>3, <1>10, <1>11

(* The two equations of what _pack selects. *)
LEMMA TakeAlong ==
  ASSUME NEW k \in [Context!Chunk -> Nat], NEW acc \in Packs, NEW limit \in Int
  PROVE  /\ TakeOf(k, acc, <<>>, limit) = [acc EXCEPT !.spent = 0]
         /\ \A seq \in Seq(Context!Chunk) : TakeOf(k, acc, seq, limit) \in Packs
         /\ \A seq \in Seq(Context!Chunk), c \in Context!Chunk :
               TakeOf(k, acc, Append(seq, c), limit) =
                  TakeStep(k, limit, TakeOf(k, acc, seq, limit), c)
  <1>1. TakeOf(k, acc, <<>>, limit) = [acc EXCEPT !.spent = 0]
    <2>1. <<>> \in Seq(Context!Chunk) /\ Len(<<>>) = 0
      BY EmptySeq
    <2>2. PICK f : TakeRun(k, acc, limit, f, <<>>) /\ TakeOf(k, acc, <<>>, limit) = f[Len(<<>>)]
      BY <2>1, TakeRow
    <2> QED
      BY <2>1, <2>2 DEF TakeRun
  <1>2. ASSUME NEW seq \in Seq(Context!Chunk)
        PROVE  TakeOf(k, acc, seq, limit) \in Packs
    <2>1. PICK f : TakeRun(k, acc, limit, f, seq) /\ TakeOf(k, acc, seq, limit) = f[Len(seq)]
      BY TakeRow
    <2> QED
      BY <2>1, LenProperties DEF TakeRun
  <1>3. ASSUME NEW seq \in Seq(Context!Chunk), NEW c \in Context!Chunk
        PROVE  TakeOf(k, acc, Append(seq, c), limit) =
                  TakeStep(k, limit, TakeOf(k, acc, seq, limit), c)
    <2>1. PICK n \in Nat : n = Len(seq)
      BY LenProperties
    <2>2. PICK longer : longer = Append(seq, c)
      OBVIOUS
    <2>3. /\ longer \in Seq(Context!Chunk) /\ Len(longer) = n + 1
          /\ \A i \in 1 .. n : longer[i] = seq[i]
          /\ longer[n + 1] = c
      BY <2>1, <2>2, AppendProperties
    <2>4. PICK f : TakeRun(k, acc, limit, f, seq) /\ TakeOf(k, acc, seq, limit) = f[Len(seq)]
      BY TakeRow
    <2>5. PICK g : TakeRun(k, acc, limit, g, longer) /\ TakeOf(k, acc, longer, limit) = g[Len(longer)]
      BY <2>3, TakeRow
    <2>6. f[n] = g[n]
      <3>1. f[0] = g[0]
        BY <2>4, <2>5 DEF TakeRun
      <3>2. ASSUME NEW i \in 1 .. n, f[i - 1] = g[i - 1]
            PROVE  f[i] = g[i]
        <4>1. i \in 1 .. n + 1 /\ longer[i] = seq[i]
          BY <2>3
        <4>2. f[i] = TakeStep(k, limit, f[i - 1], seq[i])
          BY <2>1, <2>4 DEF TakeRun
        <4>3. g[i] = TakeStep(k, limit, g[i - 1], longer[i])
          BY <2>3, <2>5, <4>1 DEF TakeRun
        <4> QED
          BY <3>2, <4>1, <4>2, <4>3
      <3> QED
        BY <3>1, <3>2, SameRow
    <2>7. g[n + 1] = TakeStep(k, limit, g[n], c)
      <3>1. n + 1 \in 1 .. n + 1 /\ (n + 1) - 1 = n
        OBVIOUS
      <3>2. g[n + 1] = TakeStep(k, limit, g[(n + 1) - 1], longer[n + 1])
        BY <2>3, <2>5, <3>1 DEF TakeRun
      <3> QED
        BY <2>3, <3>1, <3>2
    <2> QED
      BY <2>1, <2>2, <2>3, <2>4, <2>5, <2>6, <2>7
  <1> QED
    BY <1>1, <1>2, <1>3

(* A legacy selection, chunk after chunk. *)
ConsumeRun(k, acc, f, seq) ==
    /\ f \in [0 .. Len(seq) -> Selections]
    /\ f[0] = acc
    /\ \A i \in 1 .. Len(seq) : f[i - 1] \in Selections /\ f[i] = ConsumeStep(k, f[i - 1], seq[i])

(* The fold goes through such a row. *)
LEMMA ConsumeRow ==
  ASSUME NEW k \in [Context!Chunk -> Nat], NEW acc \in Selections,
         NEW seq \in Seq(Context!Chunk)
  PROVE  \E f : ConsumeRun(k, acc, f, seq) /\ ConsumeOf(k, acc, seq) = f[Len(seq)]
  <1>1. PICK n \in Nat : n = Len(seq) /\ DOMAIN seq = 1 .. n /\ \A i \in 1 .. n : seq[i] \in Context!Chunk
    BY LenProperties, ElementOfSeq
  <1> DEFINE base == acc
             Step(i, a) == ConsumeStep(k, a, seq[i])
             step == [p \in (1 .. n) \X Selections |-> Step(p[1], p[2])]
             Body(it) == [s \in SUBSET (1 .. n) |->
                             IF s = {} THEN base
                             ELSE Step(Context!Max(s), it[s \ {Context!Max(s)}])]
             it == CHOOSE it : it = Body(it)
  <1>2. base \in Selections /\ \A i \in 1 .. n, a \in Selections : Step(i, a) \in Selections
    <2>1. ASSUME NEW i \in 1 .. n, NEW a \in Selections
          PROVE  Step(i, a) \in Selections
      <3>1. k[seq[i]] \in Nat /\ Append(a.selected, seq[i]) \in Seq(Context!Chunk)
        BY <1>1, AppendProperties DEF Selections
      <3>2. PICK b \in BOOLEAN : b = (\/ \E j \in DOMAIN a.selected : a.selected[j] = seq[i]
                                     \/ a.consumed + k[seq[i]] > a.limit
                                     \/ a.used + k[seq[i]] > Tokens)
        OBVIOUS
      <3>3. Step(i, a) = IF b THEN a
                         ELSE [a EXCEPT !.selected = Append(a.selected, seq[i]),
                                        !.used = a.used + k[seq[i]],
                                        !.consumed = a.consumed + k[seq[i]]]
        BY <3>2 DEF ConsumeStep
      <3>4. a.used + k[seq[i]] \in Nat /\ a.consumed + k[seq[i]] \in Nat
        BY <3>1 DEF Selections
      <3> QED
        BY <3>1, <3>3, <3>4 DEF Selections
    <2> QED
      BY <2>1
  <1>3. ConsumeOf(k, acc, seq) = it[1 .. n]
    BY <1>1, Zenon DEF ConsumeOf, Context!FoldLeft, Context!MapThenFoldSet
  <1> HIDE DEF base, Step
  <1>4. /\ step \in [(1 .. n) \X Selections -> Selections]
        /\ \A i \in 1 .. n, a \in Selections : step[<<i, a>>] = Step(i, a)
    BY <1>2
  <1> HIDE DEF step
  <1>5. PICK g \in [SUBSET (1 .. n) -> Selections] : FoldsTo(g, n, base, step)
    BY <1>1, <1>2, <1>4, FoldExists
  <1>6. ASSUME NEW s \in SUBSET (1 .. n)
        PROVE  g[s] = IF s = {} THEN base
                      ELSE Step(Context!Max(s), g[s \ {Context!Max(s)}])
    <2>1. CASE s # {}
      <3>1. Context!Max(s) \in s
        BY <1>1, <2>1, Greatest
      <3>2. Context!Max(s) \in 1 .. n /\ g[s \ {Context!Max(s)}] \in Selections
        BY <3>1
      <3> QED
        BY <1>4, <1>5, <2>1, <3>2 DEF FoldsTo
    <2> QED
      BY <1>5, <2>1 DEF FoldsTo
  <1>7. it = Body(it)
    <2>1. g = Body(g)
      BY <1>6
    <2> QED
      BY <2>1
  <1> HIDE DEF it
  <1>8. \A s \in SUBSET (1 .. n) :
           it[s] = IF s = {} THEN base ELSE Step(Context!Max(s), it[s \ {Context!Max(s)}])
    BY <1>7
  <1>9. Recurs(it, n, Selections, base, step)
    <2>1. ASSUME NEW s \in SUBSET (1 .. n), s # {}, it[s \ {Context!Max(s)}] \in Selections
          PROVE  it[s] = step[<<Context!Max(s), it[s \ {Context!Max(s)}]>>]
      <3>1. Context!Max(s) \in s
        BY <1>1, <2>1, Greatest
      <3> QED
        BY <1>4, <1>8, <2>1, <3>1
    <2> QED
      BY <1>8, <2>1 DEF Recurs
  <1>10. PICK f : Row(f, n, Selections, base, step) /\ f[n] = it[1 .. n]
    <2>1. IsStep(step, n, Selections)
      BY <1>4 DEF IsStep
    <2> QED
      BY <1>2, <1>9, <2>1, FoldRow
  <1>11. ConsumeRun(k, acc, f, seq)
    <2>1. \A i \in 1 .. n : f[i - 1] \in Selections /\ f[i] = Step(i, f[i - 1])
      BY <1>4, <1>10 DEF Row
    <2> QED
      BY <1>1, <1>10, <2>1 DEF Row, ConsumeRun, base, Step
  <1> QED
    BY <1>1, <1>3, <1>10, <1>11

(* The two equations of what token_context selects. *)
LEMMA ConsumeAlong ==
  ASSUME NEW k \in [Context!Chunk -> Nat], NEW acc \in Selections
  PROVE  /\ ConsumeOf(k, acc, <<>>) = acc
         /\ \A seq \in Seq(Context!Chunk) : ConsumeOf(k, acc, seq) \in Selections
         /\ \A seq \in Seq(Context!Chunk), c \in Context!Chunk :
               ConsumeOf(k, acc, Append(seq, c)) =
                  ConsumeStep(k, ConsumeOf(k, acc, seq), c)
  <1>1. ConsumeOf(k, acc, <<>>) = acc
    <2>1. <<>> \in Seq(Context!Chunk) /\ Len(<<>>) = 0
      BY EmptySeq
    <2>2. PICK f : ConsumeRun(k, acc, f, <<>>) /\ ConsumeOf(k, acc, <<>>) = f[Len(<<>>)]
      BY <2>1, ConsumeRow
    <2> QED
      BY <2>1, <2>2 DEF ConsumeRun
  <1>2. ASSUME NEW seq \in Seq(Context!Chunk)
        PROVE  ConsumeOf(k, acc, seq) \in Selections
    <2>1. PICK f : ConsumeRun(k, acc, f, seq) /\ ConsumeOf(k, acc, seq) = f[Len(seq)]
      BY ConsumeRow
    <2> QED
      BY <2>1, LenProperties DEF ConsumeRun
  <1>3. ASSUME NEW seq \in Seq(Context!Chunk), NEW c \in Context!Chunk
        PROVE  ConsumeOf(k, acc, Append(seq, c)) =
                  ConsumeStep(k, ConsumeOf(k, acc, seq), c)
    <2>1. PICK n \in Nat : n = Len(seq)
      BY LenProperties
    <2>2. PICK longer : longer = Append(seq, c)
      OBVIOUS
    <2>3. /\ longer \in Seq(Context!Chunk) /\ Len(longer) = n + 1
          /\ \A i \in 1 .. n : longer[i] = seq[i]
          /\ longer[n + 1] = c
      BY <2>1, <2>2, AppendProperties
    <2>4. PICK f : ConsumeRun(k, acc, f, seq) /\ ConsumeOf(k, acc, seq) = f[Len(seq)]
      BY ConsumeRow
    <2>5. PICK g : ConsumeRun(k, acc, g, longer) /\ ConsumeOf(k, acc, longer) = g[Len(longer)]
      BY <2>3, ConsumeRow
    <2>6. f[n] = g[n]
      <3>1. f[0] = g[0]
        BY <2>4, <2>5 DEF ConsumeRun
      <3>2. ASSUME NEW i \in 1 .. n, f[i - 1] = g[i - 1]
            PROVE  f[i] = g[i]
        <4>1. i \in 1 .. n + 1 /\ longer[i] = seq[i]
          BY <2>3
        <4>2. f[i] = ConsumeStep(k, f[i - 1], seq[i])
          BY <2>1, <2>4 DEF ConsumeRun
        <4>3. g[i] = ConsumeStep(k, g[i - 1], longer[i])
          BY <2>3, <2>5, <4>1 DEF ConsumeRun
        <4> QED
          BY <3>2, <4>1, <4>2, <4>3
      <3> QED
        BY <3>1, <3>2, SameRow
    <2>7. g[n + 1] = ConsumeStep(k, g[n], c)
      <3>1. n + 1 \in 1 .. n + 1 /\ (n + 1) - 1 = n
        OBVIOUS
      <3>2. g[n + 1] = ConsumeStep(k, g[(n + 1) - 1], longer[n + 1])
        BY <2>3, <2>5, <3>1 DEF ConsumeRun
      <3> QED
        BY <2>3, <3>1, <3>2
    <2> QED
      BY <2>1, <2>2, <2>3, <2>4, <2>5, <2>6, <2>7
  <1> QED
    BY <1>1, <1>2, <1>3

(* What is left, chunk after chunk. *)
YieldRun(additions, f, seq) ==
    /\ f \in [0 .. Len(seq) -> Yields]
    /\ f[0] = [kept |-> baseline, removed |-> 0]
    /\ \A i \in 1 .. Len(seq) : f[i - 1] \in Yields /\ f[i] = YieldStep(additions, f[i - 1], seq[i])

(* The fold goes through such a row. *)
LEMMA YieldRow ==
  ASSUME NEW additions, baseline \in Seq(Context!Chunk),
         NEW seq \in Seq(Context!Chunk)
  PROVE  \E f : YieldRun(additions, f, seq) /\ Context!Yielding(additions, seq) = f[Len(seq)]
  <1>1. PICK n \in Nat : n = Len(seq) /\ DOMAIN seq = 1 .. n /\ \A i \in 1 .. n : seq[i] \in Context!Chunk
    BY LenProperties, ElementOfSeq
  <1> DEFINE base == [kept |-> baseline, removed |-> 0]
             Step(i, a) == YieldStep(additions, a, seq[i])
             step == [p \in (1 .. n) \X Yields |-> Step(p[1], p[2])]
             Body(it) == [s \in SUBSET (1 .. n) |->
                             IF s = {} THEN base
                             ELSE Step(Context!Max(s), it[s \ {Context!Max(s)}])]
             it == CHOOSE it : it = Body(it)
  <1>2. base \in Yields /\ \A i \in 1 .. n, a \in Yields : Step(i, a) \in Yields
    <2>1. ASSUME NEW i \in 1 .. n, NEW a \in Yields
          PROVE  Step(i, a) \in Yields
      <3>1. Context!InOrder(a.kept, Context!Chunk \ {seq[i]}) \in Seq(Context!Chunk)
        BY InOrderAlong DEF Yields
      <3> QED
        BY <3>1 DEF Yields, YieldStep
    <2> QED
      BY <2>1 DEF Yields
  <1>3. Context!Yielding(additions, seq) = it[1 .. n]
    BY <1>1, Zenon DEF Context!Yielding, YieldStep, Context!FoldLeft, Context!MapThenFoldSet
  <1> HIDE DEF base, Step
  <1>4. /\ step \in [(1 .. n) \X Yields -> Yields]
        /\ \A i \in 1 .. n, a \in Yields : step[<<i, a>>] = Step(i, a)
    BY <1>2
  <1> HIDE DEF step
  <1>5. PICK g \in [SUBSET (1 .. n) -> Yields] : FoldsTo(g, n, base, step)
    BY <1>1, <1>2, <1>4, FoldExists
  <1>6. ASSUME NEW s \in SUBSET (1 .. n)
        PROVE  g[s] = IF s = {} THEN base
                      ELSE Step(Context!Max(s), g[s \ {Context!Max(s)}])
    <2>1. CASE s # {}
      <3>1. Context!Max(s) \in s
        BY <1>1, <2>1, Greatest
      <3>2. Context!Max(s) \in 1 .. n /\ g[s \ {Context!Max(s)}] \in Yields
        BY <3>1
      <3> QED
        BY <1>4, <1>5, <2>1, <3>2 DEF FoldsTo
    <2> QED
      BY <1>5, <2>1 DEF FoldsTo
  <1>7. it = Body(it)
    <2>1. g = Body(g)
      BY <1>6
    <2> QED
      BY <2>1
  <1> HIDE DEF it
  <1>8. \A s \in SUBSET (1 .. n) :
           it[s] = IF s = {} THEN base ELSE Step(Context!Max(s), it[s \ {Context!Max(s)}])
    BY <1>7
  <1>9. Recurs(it, n, Yields, base, step)
    <2>1. ASSUME NEW s \in SUBSET (1 .. n), s # {}, it[s \ {Context!Max(s)}] \in Yields
          PROVE  it[s] = step[<<Context!Max(s), it[s \ {Context!Max(s)}]>>]
      <3>1. Context!Max(s) \in s
        BY <1>1, <2>1, Greatest
      <3> QED
        BY <1>4, <1>8, <2>1, <3>1
    <2> QED
      BY <1>8, <2>1 DEF Recurs
  <1>10. PICK f : Row(f, n, Yields, base, step) /\ f[n] = it[1 .. n]
    <2>1. IsStep(step, n, Yields)
      BY <1>4 DEF IsStep
    <2> QED
      BY <1>2, <1>9, <2>1, FoldRow
  <1>11. YieldRun(additions, f, seq)
    <2>1. \A i \in 1 .. n : f[i - 1] \in Yields /\ f[i] = Step(i, f[i - 1])
      BY <1>4, <1>10 DEF Row
    <2> QED
      BY <1>1, <1>10, <2>1 DEF Row, YieldRun, base, Step
  <1> QED
    BY <1>1, <1>3, <1>10, <1>11

(* The two equations of what is left. *)
LEMMA YieldAlong ==
  ASSUME NEW additions, baseline \in Seq(Context!Chunk)
  PROVE  /\ Context!Yielding(additions, <<>>) = [kept |-> baseline, removed |-> 0]
         /\ \A seq \in Seq(Context!Chunk) : Context!Yielding(additions, seq) \in Yields
         /\ \A seq \in Seq(Context!Chunk), c \in Context!Chunk :
               Context!Yielding(additions, Append(seq, c)) =
                  YieldStep(additions, Context!Yielding(additions, seq), c)
  <1>1. Context!Yielding(additions, <<>>) = [kept |-> baseline, removed |-> 0]
    <2>1. <<>> \in Seq(Context!Chunk) /\ Len(<<>>) = 0
      BY EmptySeq
    <2>2. PICK f : YieldRun(additions, f, <<>>) /\ Context!Yielding(additions, <<>>) = f[Len(<<>>)]
      BY <2>1, YieldRow
    <2> QED
      BY <2>1, <2>2 DEF YieldRun
  <1>2. ASSUME NEW seq \in Seq(Context!Chunk)
        PROVE  Context!Yielding(additions, seq) \in Yields
    <2>1. PICK f : YieldRun(additions, f, seq) /\ Context!Yielding(additions, seq) = f[Len(seq)]
      BY YieldRow
    <2> QED
      BY <2>1, LenProperties DEF YieldRun
  <1>3. ASSUME NEW seq \in Seq(Context!Chunk), NEW c \in Context!Chunk
        PROVE  Context!Yielding(additions, Append(seq, c)) =
                  YieldStep(additions, Context!Yielding(additions, seq), c)
    <2>1. PICK n \in Nat : n = Len(seq)
      BY LenProperties
    <2>2. PICK longer : longer = Append(seq, c)
      OBVIOUS
    <2>3. /\ longer \in Seq(Context!Chunk) /\ Len(longer) = n + 1
          /\ \A i \in 1 .. n : longer[i] = seq[i]
          /\ longer[n + 1] = c
      BY <2>1, <2>2, AppendProperties
    <2>4. PICK f : YieldRun(additions, f, seq) /\ Context!Yielding(additions, seq) = f[Len(seq)]
      BY YieldRow
    <2>5. PICK g : YieldRun(additions, g, longer) /\ Context!Yielding(additions, longer) = g[Len(longer)]
      BY <2>3, YieldRow
    <2>6. f[n] = g[n]
      <3>1. f[0] = g[0]
        BY <2>4, <2>5 DEF YieldRun
      <3>2. ASSUME NEW i \in 1 .. n, f[i - 1] = g[i - 1]
            PROVE  f[i] = g[i]
        <4>1. i \in 1 .. n + 1 /\ longer[i] = seq[i]
          BY <2>3
        <4>2. f[i] = YieldStep(additions, f[i - 1], seq[i])
          BY <2>1, <2>4 DEF YieldRun
        <4>3. g[i] = YieldStep(additions, g[i - 1], longer[i])
          BY <2>3, <2>5, <4>1 DEF YieldRun
        <4> QED
          BY <3>2, <4>1, <4>2, <4>3
      <3> QED
        BY <3>1, <3>2, SameRow
    <2>7. g[n + 1] = YieldStep(additions, g[n], c)
      <3>1. n + 1 \in 1 .. n + 1 /\ (n + 1) - 1 = n
        OBVIOUS
      <3>2. g[n + 1] = YieldStep(additions, g[(n + 1) - 1], longer[n + 1])
        BY <2>3, <2>5, <3>1 DEF YieldRun
      <3> QED
        BY <2>3, <3>1, <3>2
    <2> QED
      BY <2>1, <2>2, <2>3, <2>4, <2>5, <2>6, <2>7
  <1> QED
    BY <1>1, <1>2, <1>3

(* The constants of a prompt. *)
LEMMA ContextConstants ==
  /\ Tokens \in Nat \ {0} /\ NeighbourShare \in 0 .. Tokens /\ Prices \subseteq Nat
  /\ \A order \in ChunkOrders \cup {Chunks} :
        order \in Seq(Context!Chunk) /\ Context!IsInjective(order)
  BY ContextAssumption DEF Context!ChunksAssumption, Context!BudgetAssumption

(* A part of a sequence, in its order: the elements that were asked for,   *)
(* each as often as before.                                                *)
LEMMA InOrderOf ==
  ASSUME NEW X, NEW S
  PROVE  \A s \in Seq(X) :
            /\ Context!InOrder(s, S) \in Seq(X)
            /\ Context!Range(Context!InOrder(s, S)) = Context!Range(s) \cap S
            /\ Context!IsInjective(s) => Context!IsInjective(Context!InOrder(s, S))
  <1> DEFINE P == {s \in Seq(X) :
                     /\ Context!Range(Context!InOrder(s, S)) = Context!Range(s) \cap S
                     /\ Context!IsInjective(s) => Context!IsInjective(Context!InOrder(s, S))}
  <1>1. <<>> \in P
    BY EmptySeq, InOrderAlong, RangeOf, InjectiveOf
  <1>2. ASSUME NEW s \in Seq(X), NEW c \in X, s \in P
        PROVE  Append(s, c) \in P
    <2>1. PICK t : t = Context!InOrder(s, S)
      OBVIOUS
    <2>2. t \in Seq(X)
      BY <2>1, InOrderAlong
    <2>3. PICK u : u = Append(s, c)
      OBVIOUS
    <2>4. /\ u \in Seq(X) /\ Context!Range(u) = Context!Range(s) \cup {c}
          /\ Context!IsInjective(u) <=> Context!IsInjective(s) /\ c \notin Context!Range(s)
      BY <2>3, AppendProperties, RangeOf, InjectiveOf
    <2>5. Context!InOrder(u, S) = IF c \in S THEN Append(t, c) ELSE t
      <3>1. \A q \in Seq(X), d \in X :
               Context!InOrder(Append(q, d), S) = InOrderStep(S, Context!InOrder(q, S), d)
        BY InOrderAlong
      <3> QED
        BY <2>1, <2>3, <3>1 DEF InOrderStep
    <2>6. /\ Context!Range(Append(t, c)) = Context!Range(t) \cup {c}
          /\ Context!IsInjective(Append(t, c)) <=> Context!IsInjective(t) /\ c \notin Context!Range(t)
      BY <2>2, RangeOf, InjectiveOf
    <2>7. /\ Context!Range(t) = Context!Range(s) \cap S
          /\ Context!IsInjective(s) => Context!IsInjective(t)
      BY <1>2, <2>1
    <2>8. Context!Range(Context!InOrder(u, S)) = Context!Range(u) \cap S
      BY <2>4, <2>5, <2>6, <2>7
    <2>9. Context!IsInjective(u) => Context!IsInjective(Context!InOrder(u, S))
      BY <2>4, <2>5, <2>6, <2>7
    <2> QED
      BY <2>3, <2>4, <2>8, <2>9
  <1> HIDE DEF P
  <1>3. \A s \in Seq(X) : s \in P
    BY <1>1, <1>2, SeqInduction
  <1> QED
    BY <1>3, InOrderAlong DEF P

(* A part of a part that has all of it. *)
LEMMA InOrderTwice ==
  ASSUME NEW X, NEW S, NEW T, S \cap X \subseteq T
  PROVE  \A s \in Seq(X) : Context!InOrder(Context!InOrder(s, T), S) = Context!InOrder(s, S)
  <1> DEFINE P == {s \in Seq(X) : Context!InOrder(Context!InOrder(s, T), S) = Context!InOrder(s, S)}
  <1>1. <<>> \in P
    BY EmptySeq, InOrderAlong
  <1>2. ASSUME NEW s \in Seq(X), NEW c \in X, s \in P
        PROVE  Append(s, c) \in P
    <2>1. PICK t : t = Context!InOrder(s, T)
      OBVIOUS
    <2>2. t \in Seq(X) /\ Context!InOrder(t, S) = Context!InOrder(s, S)
      BY <1>2, <2>1, InOrderAlong
    <2>3. PICK u : u = Append(s, c)
      OBVIOUS
    <2>4. u \in Seq(X)
      BY <2>3, AppendProperties
    <2>5. Context!InOrder(u, T) = IF c \in T THEN Append(t, c) ELSE t
      BY <2>1, <2>3, InOrderAlong DEF InOrderStep
    <2>6. Context!InOrder(u, S) = IF c \in S THEN Append(Context!InOrder(s, S), c)
                                  ELSE Context!InOrder(s, S)
      <3>1. \A q \in Seq(X), d \in X :
               Context!InOrder(Append(q, d), S) = InOrderStep(S, Context!InOrder(q, S), d)
        BY InOrderAlong
      <3> QED
        BY <2>3, <3>1 DEF InOrderStep
    <2>7. Context!InOrder(Append(t, c), S) = IF c \in S THEN Append(Context!InOrder(t, S), c)
                                             ELSE Context!InOrder(t, S)
      BY <2>2, InOrderAlong DEF InOrderStep
    <2>8. Context!InOrder(Context!InOrder(u, T), S) = Context!InOrder(u, S)
      BY <2>2, <2>5, <2>6, <2>7
    <2> QED
      BY <2>3, <2>4, <2>8
  <1> HIDE DEF P
  <1>3. \A s \in Seq(X) : s \in P
    BY <1>1, <1>2, SeqInduction
  <1> QED
    BY <1>3 DEF P

(* A selection names a chunk once, has counted its cost, and is within the *)
(* budget.                                                                 *)
PackOK(k, a) ==
    /\ a \in Packs
    /\ Context!IsInjective(a.taken)
    /\ a.used = TotalOf(k, a.taken) /\ a.used <= Tokens

(* A step of _pack leaves the selection alone or adds a new chunk. *)
LEMMA TakesOne ==
  ASSUME NEW k \in [Context!Chunk -> Nat], NEW a \in Packs, NEW limit \in Int,
         NEW c \in Context!Chunk
  PROVE  \/ TakeStep(k, limit, a, c) = a
         \/ /\ TakeStep(k, limit, a, c) \in Packs
            /\ TakeStep(k, limit, a, c).taken = Append(a.taken, c)
            /\ TakeStep(k, limit, a, c).used = a.used + k[c]
            /\ TakeStep(k, limit, a, c).spent = a.spent + k[c]
            /\ c \notin Context!Range(a.taken) /\ a.used + k[c] <= Tokens
  <1>1. a.taken \in Seq(Context!Chunk) /\ a.used \in Nat /\ a.spent \in Nat /\ k[c] \in Nat
        /\ Tokens \in Nat
    BY ContextConstants DEF Packs
  <1>2. Append(a.taken, c) \in Seq(Context!Chunk)
    BY <1>1, AppendProperties
  <1>3. PICK b : b = [a EXCEPT !.taken = Append(a.taken, c), !.used = a.used + k[c],
                               !.spent = a.spent + k[c]]
    OBVIOUS
  <1>4. /\ b \in Packs /\ b.taken = Append(a.taken, c)
        /\ b.used = a.used + k[c] /\ b.spent = a.spent + k[c]
    <2>1. b = [taken |-> Append(a.taken, c), used |-> a.used + k[c], spent |-> a.spent + k[c]]
      BY <1>3 DEF Packs
    <2>2. a.used + k[c] \in Nat /\ a.spent + k[c] \in Nat
      BY <1>1
    <2> QED
      BY <1>2, <2>1, <2>2 DEF Packs
  <1>5. CASE c \in Context!Range(a.taken) \/ a.used + k[c] > Tokens \/ a.spent + k[c] > limit
    BY <1>5 DEF TakeStep
  <1>6. CASE ~ (c \in Context!Range(a.taken) \/ a.used + k[c] > Tokens \/ a.spent + k[c] > limit)
    <2>1. TakeStep(k, limit, a, c) = b
      BY <1>3, <1>6 DEF TakeStep
    <2>2. c \notin Context!Range(a.taken) /\ a.used + k[c] <= Tokens
      BY <1>1, <1>6
    <2> QED
      BY <1>4, <2>1, <2>2
  <1> QED
    BY <1>5, <1>6

(* Whatever is offered, the selection stays within the budget. *)
LEMMA TakeOK ==
  ASSUME NEW k \in [Context!Chunk -> Nat], NEW acc, NEW limit \in Int, PackOK(k, acc)
  PROVE  \A s \in Seq(Context!Chunk) : PackOK(k, TakeOf(k, acc, s, limit))
  <1> DEFINE P == {s \in Seq(Context!Chunk) : PackOK(k, TakeOf(k, acc, s, limit))}
  <1>0. acc \in Packs
    BY DEF PackOK
  <1>1. <<>> \in P
    <2>1. PICK a : a = [acc EXCEPT !.spent = 0]
      OBVIOUS
    <2>2. a \in Packs /\ a.taken = acc.taken /\ a.used = acc.used
      BY <1>0, <2>1 DEF Packs
    <2>3. PackOK(k, a)
      BY <2>2 DEF PackOK
    <2> QED
      BY <1>0, <2>1, <2>3, EmptySeq, TakeAlong
  <1>2. ASSUME NEW s \in Seq(Context!Chunk), NEW c \in Context!Chunk, s \in P
        PROVE  Append(s, c) \in P
    <2>1. PICK a : a = TakeOf(k, acc, s, limit)
      OBVIOUS
    <2>2. PICK b : b = TakeStep(k, limit, a, c)
      OBVIOUS
    <2>3. TakeOf(k, acc, Append(s, c), limit) = b
      BY <1>0, <2>1, <2>2, TakeAlong
    <2>4. PackOK(k, a)
      BY <1>2, <2>1
    <2>5. a \in Packs /\ a.taken \in Seq(Context!Chunk)
      BY <2>4 DEF PackOK, Packs
    <2>6. PackOK(k, b)
      <3>1. CASE b = a
        BY <2>4, <3>1
      <3>2. CASE /\ b \in Packs /\ b.taken = Append(a.taken, c) /\ b.used = a.used + k[c]
                 /\ c \notin Context!Range(a.taken) /\ a.used + k[c] <= Tokens
        <4>1. Context!IsInjective(b.taken)
          BY <2>4, <2>5, <3>2, InjectiveOf DEF PackOK
        <4>2. TotalOf(k, b.taken) = TotalOf(k, a.taken) + k[c]
          BY <2>5, <3>2, TotalAlong
        <4> QED
          BY <2>4, <3>2, <4>1, <4>2 DEF PackOK
      <3> QED
        BY <2>2, <2>5, <3>1, <3>2, TakesOne
    <2> QED
      BY <2>3, <2>6, AppendProperties
  <1> HIDE DEF P
  <1>3. \A s \in Seq(Context!Chunk) : s \in P
    BY <1>1, <1>2, SeqInduction
  <1> QED
    BY <1>3 DEF P

(* What has been taken stays, where it is.                                 *)
LEMMA TakeKeeps ==
  ASSUME NEW k \in [Context!Chunk -> Nat], NEW acc \in Packs, NEW limit \in Int
  PROVE  \A s \in Seq(Context!Chunk) :
            /\ Context!Range(acc.taken) \subseteq Context!Range(TakeOf(k, acc, s, limit).taken)
            /\ \A S \in SUBSET Context!Range(acc.taken) :
                  Context!InOrder(TakeOf(k, acc, s, limit).taken, S) = Context!InOrder(acc.taken, S)
  <1> DEFINE Keeps(a) ==
                /\ Context!Range(acc.taken) \subseteq Context!Range(a.taken)
                /\ \A S \in SUBSET Context!Range(acc.taken) :
                      Context!InOrder(a.taken, S) = Context!InOrder(acc.taken, S)
             P == {s \in Seq(Context!Chunk) : Keeps(TakeOf(k, acc, s, limit))}
  <1>1. <<>> \in P
    <2>1. PICK a : a = [acc EXCEPT !.spent = 0]
      OBVIOUS
    <2>2. a.taken = acc.taken
      BY <2>1 DEF Packs
    <2>3. TakeOf(k, acc, <<>>, limit) = a
      BY <2>1, TakeAlong
    <2> QED
      BY <2>2, <2>3, EmptySeq
  <1>2. ASSUME NEW s \in Seq(Context!Chunk), NEW c \in Context!Chunk, s \in P
        PROVE  Append(s, c) \in P
    <2>1. PICK a : a = TakeOf(k, acc, s, limit)
      OBVIOUS
    <2>2. PICK b : b = TakeStep(k, limit, a, c)
      OBVIOUS
    <2>3. TakeOf(k, acc, Append(s, c), limit) = b
      BY <2>1, <2>2, TakeAlong
    <2>4. a \in Packs /\ Keeps(a)
      BY <1>2, <2>1, TakeAlong
    <2>5. Keeps(b)
      <3>1. CASE b = a
        BY <2>4, <3>1
      <3>2. CASE b.taken = Append(a.taken, c) /\ c \notin Context!Range(a.taken)
        <4>1. a.taken \in Seq(Context!Chunk)
          BY <2>4 DEF Packs
        <4>2. Context!Range(b.taken) = Context!Range(a.taken) \cup {c}
          BY <3>2, <4>1, RangeOf
        <4>3. ASSUME NEW S \in SUBSET Context!Range(acc.taken)
              PROVE  Context!InOrder(b.taken, S) = Context!InOrder(acc.taken, S)
          <5>1. c \notin S
            BY <2>4, <3>2
          <5>2. Context!InOrder(b.taken, S) = Context!InOrder(a.taken, S)
            BY <3>2, <4>1, <5>1, InOrderAlong DEF InOrderStep
          <5> QED
            BY <2>4, <5>2
        <4> QED
          BY <2>4, <4>2, <4>3
      <3> QED
        BY <2>2, <2>4, <3>1, <3>2, TakesOne
    <2> QED
      BY <2>3, <2>5, AppendProperties
  <1> HIDE DEF P
  <1>3. \A s \in Seq(Context!Chunk) : s \in P
    BY <1>1, <1>2, SeqInduction
  <1> QED
    BY <1>3 DEF P

(* Nothing is selected. *)
Nothing == [taken |-> <<>>, used |-> 0, spent |-> 0]

(* That is a selection within any budget. *)
LEMMA NothingOK ==
  ASSUME NEW k \in [Context!Chunk -> Nat]
  PROVE  /\ PackOK(k, Nothing) /\ Nothing.taken = <<>>
         /\ [Nothing EXCEPT !.spent = 0] = Nothing
  <1>1. <<>> \in Seq(Context!Chunk) /\ Context!IsInjective(<<>>) /\ TotalOf(k, <<>>) = 0
    BY EmptySeq, InjectiveOf, TotalAlong
  <1> QED
    BY <1>1, ContextConstants DEF PackOK, Packs, Nothing

(* What the budget has room for is taken whole. *)
LEMMA TakeWhole ==
  ASSUME NEW k \in [Context!Chunk -> Nat]
  PROVE  \A s \in Seq(Context!Chunk) :
            Context!IsInjective(s) /\ TotalOf(k, s) <= Tokens =>
               LET a == TakeOf(k, Nothing, s, Tokens)
               IN  a.taken = s /\ a.used = TotalOf(k, s) /\ a.spent = TotalOf(k, s)
  <1> DEFINE Whole(s, a) == a.taken = s /\ a.used = TotalOf(k, s) /\ a.spent = TotalOf(k, s)
             P == {s \in Seq(Context!Chunk) :
                     Context!IsInjective(s) /\ TotalOf(k, s) <= Tokens =>
                        Whole(s, TakeOf(k, Nothing, s, Tokens))}
  <1>0. Nothing \in Packs /\ Tokens \in Int /\ Tokens \in Nat
    BY NothingOK, ContextConstants DEF PackOK
  <1>1. <<>> \in P
    <2>1. TakeOf(k, Nothing, <<>>, Tokens) = Nothing
      BY <1>0, NothingOK, TakeAlong
    <2>2. TotalOf(k, <<>>) = 0
      BY TotalAlong
    <2> QED
      BY <2>1, <2>2, EmptySeq DEF Nothing
  <1>2. ASSUME NEW s \in Seq(Context!Chunk), NEW c \in Context!Chunk, s \in P
        PROVE  Append(s, c) \in P
    <2>1. PICK u \in Seq(Context!Chunk) : u = Append(s, c)
      BY AppendProperties
    <2>2. SUFFICES ASSUME Context!IsInjective(u), TotalOf(k, u) <= Tokens
                   PROVE  Whole(u, TakeOf(k, Nothing, u, Tokens))
      BY <2>1
    <2>3. Context!IsInjective(s) /\ c \notin Context!Range(s)
      BY <2>1, <2>2, InjectiveOf
    <2>4. TotalOf(k, u) = TotalOf(k, s) + k[c] /\ TotalOf(k, s) \in Nat /\ k[c] \in Nat
      BY <2>1, TotalAlong
    <2>5. PICK a : a = TakeOf(k, Nothing, s, Tokens)
      OBVIOUS
    <2>6. Whole(s, a) /\ a \in Packs
      <3>1. TotalOf(k, s) <= Tokens
        BY <1>0, <2>2, <2>4
      <3> QED
        BY <1>0, <1>2, <2>3, <2>5, <3>1, TakeAlong
    <2>7. TakeOf(k, Nothing, u, Tokens) = TakeStep(k, Tokens, a, c)
      BY <1>0, <2>1, <2>5, TakeAlong
    <2>8. ~ (c \in Context!Range(a.taken) \/ a.used + k[c] > Tokens \/ a.spent + k[c] > Tokens)
      BY <1>0, <2>2, <2>3, <2>4, <2>6
    <2>9. TakeStep(k, Tokens, a, c) = [a EXCEPT !.taken = Append(a.taken, c),
                                                !.used = a.used + k[c], !.spent = a.spent + k[c]]
      BY <2>8 DEF TakeStep
    <2> QED
      BY <2>1, <2>4, <2>6, <2>7, <2>9 DEF Packs
  <1> HIDE DEF P
  <1>3. \A s \in Seq(Context!Chunk) : s \in P
    BY <1>1, <1>2, SeqInduction
  <1> QED
    BY <1>3 DEF P

(* And if all of it is there, it is there in its order. *)
LEMMA TakeAll ==
  ASSUME NEW k \in [Context!Chunk -> Nat]
  PROVE  \A s \in Seq(Context!Chunk) :
            LET a == TakeOf(k, Nothing, s, Tokens)
            IN  /\ Context!Range(a.taken) \subseteq Context!Range(s)
                /\ Context!IsInjective(s) /\ Context!Range(s) \subseteq Context!Range(a.taken) =>
                      a.taken = s
  <1> DEFINE All(s, a) ==
                /\ Context!Range(a.taken) \subseteq Context!Range(s)
                /\ Context!IsInjective(s) /\ Context!Range(s) \subseteq Context!Range(a.taken) =>
                      a.taken = s
             P == {s \in Seq(Context!Chunk) : All(s, TakeOf(k, Nothing, s, Tokens))}
  <1>0. Nothing \in Packs /\ Tokens \in Int
    BY NothingOK, ContextConstants DEF PackOK
  <1>1. <<>> \in P
    <2>1. TakeOf(k, Nothing, <<>>, Tokens) = Nothing
      BY <1>0, NothingOK, TakeAlong
    <2> QED
      BY <2>1, EmptySeq, RangeOf DEF Nothing
  <1>2. ASSUME NEW s \in Seq(Context!Chunk), NEW c \in Context!Chunk, s \in P
        PROVE  Append(s, c) \in P
    <2>1. PICK u \in Seq(Context!Chunk) : u = Append(s, c)
      BY AppendProperties
    <2>2. PICK a : a = TakeOf(k, Nothing, s, Tokens)
      OBVIOUS
    <2>3. PICK b : b = TakeStep(k, Tokens, a, c)
      OBVIOUS
    <2>4. TakeOf(k, Nothing, u, Tokens) = b
      BY <1>0, <2>1, <2>2, <2>3, TakeAlong
    <2>5. All(s, a) /\ a \in Packs /\ a.taken \in Seq(Context!Chunk)
      BY <1>0, <1>2, <2>2, TakeAlong DEF Packs
    <2>6. /\ Context!Range(u) = Context!Range(s) \cup {c}
          /\ Context!IsInjective(u) => Context!IsInjective(s) /\ c \notin Context!Range(s)
      BY <2>1, RangeOf, InjectiveOf
    <2>7. All(u, b)
      <3>1. CASE b = a
        BY <2>5, <2>6, <3>1
      <3>2. CASE b.taken = Append(a.taken, c)
        <4>1. Context!Range(b.taken) = Context!Range(a.taken) \cup {c}
          BY <2>5, <3>2, RangeOf
        <4> QED
          BY <2>1, <2>5, <2>6, <3>2, <4>1
      <3> QED
        <4>1. PICK l \in Int : l = Tokens
          BY <1>0
        <4>2. \/ TakeStep(k, l, a, c) = a
              \/ TakeStep(k, l, a, c).taken = Append(a.taken, c)
          BY <2>5, TakesOne
        <4>3. b = a \/ b.taken = Append(a.taken, c)
          BY <2>3, <4>1, <4>2
        <4> HIDE DEF All
        <4> QED
          BY <3>1, <3>2, <4>3
    <2> QED
      BY <2>1, <2>4, <2>7
  <1> HIDE DEF P
  <1>3. \A s \in Seq(Context!Chunk) : s \in P
    BY <1>1, <1>2, SeqInduction
  <1> QED
    BY <1>3 DEF P

(* _pack in its three parts. *)
Kept(k, required) == TakeOf(k, Nothing, required, Tokens)

(* With the offered chunks, *)
Extended(k, required, offered, limit) ==
    TakeOf(k, Kept(k, required), offered, Context!Least(limit, Tokens - Kept(k, required).used))

(* and with the ranked ones. *)
Full(k, required, offered, ranked, limit) ==
    TakeOf(k, Extended(k, required, offered, limit), ranked,
           Tokens - Extended(k, required, offered, limit).used)

(* The result: whether all that is required is there, and what is. *)
PackOf(k, required, offered, ranked, limit) ==
    [fits  |-> Context!Range(required) \subseteq Context!Range(Kept(k, required).taken),
     taken |-> Full(k, required, offered, ranked, limit).taken]

(* They are _pack, with the costs of the moment. *)
LEMMA PackParts ==
  ASSUME NEW required, NEW offered, NEW ranked, NEW limit
  PROVE  Context!Pack(required, offered, ranked, limit) = PackOf(cost, required, offered, ranked, limit)
  BY Zenon DEF Context!Pack, Context!Take, PackOf, Full, Extended, Kept, TakeOf, TakeStep, Nothing

(* And the total of the moment. *)
LEMMA TotalIs ==
  ASSUME NEW seq
  PROVE  Context!Total(seq) = TotalOf(cost, seq)
  BY Zenon DEF Context!Total, TotalOf

(* _pack never reorders what it was required to take: the chunks of any    *)
(* set come in the order they were required in.                            *)
KeepsOrder(required, taken) ==
    \A S \in SUBSET Context!Range(required) :
        Context!InOrder(taken, S) = Context!InOrder(required, S)

(* What a prompt is packed with. *)
LEMMA PackIs ==
  ASSUME NEW k \in [Context!Chunk -> Nat], NEW required \in Seq(Context!Chunk),
         NEW offered \in Seq(Context!Chunk), NEW ranked \in Seq(Context!Chunk), NEW limit \in Int,
         NEW p, p = PackOf(k, required, offered, ranked, limit)
  PROVE  /\ p.taken \in Seq(Context!Chunk) /\ Context!IsInjective(p.taken)
         /\ TotalOf(k, p.taken) <= Tokens
         /\ p.fits /\ Context!IsInjective(required) =>
               /\ Context!Range(required) \subseteq Context!Range(p.taken)
               /\ KeepsOrder(required, p.taken)
         /\ Context!IsInjective(required) /\ TotalOf(k, required) <= Tokens => p.fits
  <1>1. PICK a : a = Kept(k, required)
    OBVIOUS
  <1>2. PICK b : b = Extended(k, required, offered, limit)
    OBVIOUS
  <1>3. PICK c : c = Full(k, required, offered, ranked, limit)
    OBVIOUS
  <1>4. Tokens \in Int /\ Nothing \in Packs
    BY ContextConstants, NothingOK DEF PackOK
  <1>5. a = TakeOf(k, Nothing, required, Tokens) /\ PackOK(k, a)
    <2>1. PackOK(k, TakeOf(k, Nothing, required, Tokens))
      BY <1>4, NothingOK, TakeOK
    <2> QED
      BY <1>1, <2>1 DEF Kept
  <1>6. PICK l \in Int : l = Context!Least(limit, Tokens - a.used)
    BY <1>4, <1>5 DEF Context!Least, PackOK, Packs
  <1>7. b = TakeOf(k, a, offered, l) /\ PackOK(k, b)
    BY <1>1, <1>2, <1>5, <1>6, TakeOK DEF Extended
  <1>8. PICK m \in Int : m = Tokens - b.used
    BY <1>4, <1>7 DEF PackOK, Packs
  <1>9. c = TakeOf(k, b, ranked, m) /\ PackOK(k, c)
    BY <1>2, <1>3, <1>7, <1>8, TakeOK DEF Full
  <1>10. /\ p.taken = c.taken
         /\ p.fits <=> Context!Range(required) \subseteq Context!Range(a.taken)
    BY <1>1, <1>3 DEF PackOf
  <1>11. /\ Context!Range(a.taken) \subseteq Context!Range(b.taken)
         /\ \A S \in SUBSET Context!Range(a.taken) :
               Context!InOrder(b.taken, S) = Context!InOrder(a.taken, S)
    <2>1. a \in Packs
      BY <1>5, <1>7 DEF PackOK
    <2>2. \A s \in Seq(Context!Chunk) :
             /\ Context!Range(a.taken) \subseteq Context!Range(TakeOf(k, a, s, l).taken)
             /\ \A S \in SUBSET Context!Range(a.taken) :
                   Context!InOrder(TakeOf(k, a, s, l).taken, S) = Context!InOrder(a.taken, S)
      BY <2>1, TakeKeeps
    <2> QED
      BY <2>2, <1>5, <1>7
  <1>12. /\ Context!Range(b.taken) \subseteq Context!Range(c.taken)
         /\ \A S \in SUBSET Context!Range(b.taken) :
               Context!InOrder(c.taken, S) = Context!InOrder(b.taken, S)
    <2>1. b \in Packs
      BY <1>7, <1>9 DEF PackOK
    <2>2. \A s \in Seq(Context!Chunk) :
             /\ Context!Range(b.taken) \subseteq Context!Range(TakeOf(k, b, s, m).taken)
             /\ \A S \in SUBSET Context!Range(b.taken) :
                   Context!InOrder(TakeOf(k, b, s, m).taken, S) = Context!InOrder(b.taken, S)
      BY <2>1, TakeKeeps
    <2> QED
      BY <2>2, <1>7, <1>9
  <1>13. ASSUME p.fits, Context!IsInjective(required)
         PROVE  /\ Context!Range(required) \subseteq Context!Range(p.taken)
                /\ KeepsOrder(required, p.taken)
    <2>1. a.taken = required
      BY <1>5, <1>10, <1>13, TakeAll
    <2> QED
      BY <1>10, <1>11, <1>12, <2>1 DEF KeepsOrder
  <1>14. ASSUME Context!IsInjective(required), TotalOf(k, required) <= Tokens
         PROVE  p.fits
    <2>1. a.taken = required
      BY <1>5, <1>14, TakeWhole
    <2> QED
      BY <1>10, <2>1
  <1>15. /\ p.taken \in Seq(Context!Chunk) /\ Context!IsInjective(p.taken)
         /\ TotalOf(k, p.taken) <= Tokens
    BY <1>9, <1>10 DEF PackOK, Packs
  <1> QED
    BY <1>13, <1>14, <1>15

(* token_context, with the costs as a parameter. *)
FirstOf(k, neighbours) ==
    ConsumeOf(k, [selected |-> <<>>, used |-> 0, consumed |-> 0,
                  limit |-> Context!Least(NeighbourShare, Tokens)], neighbours)

(* And then the ranked ones within what is left. *)
TokenContextOf(k, ranked, neighbours) ==
    ConsumeOf(k, [FirstOf(k, neighbours) EXCEPT !.consumed = 0,
                                                !.limit = Tokens - FirstOf(k, neighbours).used],
              ranked).selected

(* It is token_context, with the costs of the moment. *)
LEMMA TokenContextParts ==
  ASSUME NEW ranked, NEW neighbours
  PROVE  Context!TokenContext(ranked, neighbours) = TokenContextOf(cost, ranked, neighbours)
  BY Zenon DEF Context!TokenContext, Context!Consume, TokenContextOf, FirstOf, ConsumeOf, ConsumeStep

(* It goes in step with _pack.                                             *)
InStep(a, b, limit) ==
    /\ b.selected = a.taken /\ b.used = a.used /\ b.consumed = a.spent
    /\ b.limit = limit

(* Offered the same, from the same selection, both select the same. *)
LEMMA StepsAlike ==
  ASSUME NEW k \in [Context!Chunk -> Nat], NEW acc \in Packs, NEW sel \in Selections,
         NEW limit \in Int,
         sel.selected = acc.taken, sel.used = acc.used, sel.consumed = 0, sel.limit = limit
  PROVE  \A s \in Seq(Context!Chunk) :
            InStep(TakeOf(k, acc, s, limit), ConsumeOf(k, sel, s), limit)
  <1> DEFINE P == {s \in Seq(Context!Chunk) :
                     InStep(TakeOf(k, acc, s, limit), ConsumeOf(k, sel, s), limit)}
  <1>1. <<>> \in P
    <2>1. PICK a : a = [acc EXCEPT !.spent = 0]
      OBVIOUS
    <2>2. a.taken = acc.taken /\ a.used = acc.used /\ a.spent = 0
      BY <2>1 DEF Packs
    <2>3. TakeOf(k, acc, <<>>, limit) = a /\ ConsumeOf(k, sel, <<>>) = sel
      BY <2>1, TakeAlong, ConsumeAlong
    <2> QED
      BY <2>2, <2>3, EmptySeq DEF InStep
  <1>2. ASSUME NEW s \in Seq(Context!Chunk), NEW c \in Context!Chunk, s \in P
        PROVE  Append(s, c) \in P
    <2>1. PICK u \in Seq(Context!Chunk) : u = Append(s, c)
      BY AppendProperties
    <2>2. PICK a \in Packs : a = TakeOf(k, acc, s, limit)
      BY TakeAlong
    <2>3. PICK b \in Selections : b = ConsumeOf(k, sel, s)
      BY ConsumeAlong
    <2>4. InStep(a, b, limit)
      BY <1>2, <2>2, <2>3
    <2>5. TakeOf(k, acc, u, limit) = TakeStep(k, limit, a, c)
      BY <2>1, <2>2, TakeAlong
    <2>6. ConsumeOf(k, sel, u) = ConsumeStep(k, b, c)
      BY <2>1, <2>3, ConsumeAlong
    <2>7. (\E i \in DOMAIN b.selected : b.selected[i] = c) <=> c \in Context!Range(a.taken)
      BY <2>4 DEF InStep, Context!Range
    <2>8. InStep(TakeStep(k, limit, a, c), ConsumeStep(k, b, c), limit)
      <3>1. CASE c \in Context!Range(a.taken) \/ a.used + k[c] > Tokens \/ a.spent + k[c] > limit
        <4>1. TakeStep(k, limit, a, c) = a
          BY <3>1 DEF TakeStep
        <4>2. ConsumeStep(k, b, c) = b
          BY <2>4, <2>7, <3>1 DEF ConsumeStep, InStep
        <4> QED
          BY <2>4, <4>1, <4>2
      <3>2. CASE ~ (c \in Context!Range(a.taken) \/ a.used + k[c] > Tokens \/ a.spent + k[c] > limit)
        <4>1. TakeStep(k, limit, a, c) =
                 [a EXCEPT !.taken = Append(a.taken, c), !.used = a.used + k[c],
                           !.spent = a.spent + k[c]]
          BY <3>2 DEF TakeStep
        <4>2. ConsumeStep(k, b, c) =
                 [b EXCEPT !.selected = Append(b.selected, c), !.used = b.used + k[c],
                           !.consumed = b.consumed + k[c]]
          BY <2>4, <2>7, <3>2 DEF ConsumeStep, InStep
        <4> QED
          BY <2>4, <4>1, <4>2 DEF InStep, Packs, Selections
      <3> QED
        BY <3>1, <3>2
    <2> QED
      BY <2>1, <2>5, <2>6, <2>8
  <1> HIDE DEF P
  <1>3. \A s \in Seq(Context!Chunk) : s \in P
    BY <1>1, <1>2, SeqInduction
  <1> QED
    BY <1>3 DEF P

(* The two implementations of the selection agree.                         *)
LEMMA LegacyAgrees ==
  ASSUME NEW k \in [Context!Chunk -> Nat], NEW ranked \in Seq(Context!Chunk),
         NEW neighbours \in Seq(Context!Chunk)
  PROVE  PackOf(k, <<>>, neighbours, ranked, NeighbourShare).taken
            = TokenContextOf(k, ranked, neighbours)
  <1>1. PICK l \in Int : l = Context!Least(NeighbourShare, Tokens)
    BY ContextConstants DEF Context!Least
  <1>2. Kept(k, <<>>) = Nothing /\ Nothing \in Packs
    <2>1. Nothing \in Packs /\ [Nothing EXCEPT !.spent = 0] = Nothing
      <3>1. PackOK(k, Nothing) /\ [Nothing EXCEPT !.spent = 0] = Nothing
        BY NothingOK
      <3> QED
        BY <3>1 DEF PackOK
    <2>2. PICK t \in Int : t = Tokens
      BY ContextConstants
    <2>3. TakeOf(k, Nothing, <<>>, t) = [Nothing EXCEPT !.spent = 0]
      <3>1. \A acc \in Packs : TakeOf(k, acc, <<>>, t) = [acc EXCEPT !.spent = 0]
        BY TakeAlong
      <3> QED
        BY <2>1, <3>1
    <2> QED
      BY <2>1, <2>2, <2>3 DEF Kept
  <1>3. PICK b : b = Extended(k, <<>>, neighbours, NeighbourShare)
    OBVIOUS
  <1>4. b = TakeOf(k, Nothing, neighbours, l)
    <2>1. Tokens - Nothing.used = Tokens
      BY ContextConstants DEF Nothing
    <2> QED
      BY <1>1, <1>2, <1>3, <2>1 DEF Extended
  <1>5. PICK start : start = [selected |-> <<>>, used |-> 0, consumed |-> 0, limit |-> l]
    OBVIOUS
  <1>6. /\ start \in Selections /\ start.selected = Nothing.taken /\ start.used = Nothing.used
        /\ start.consumed = 0 /\ start.limit = l
    BY <1>5, EmptySeq DEF Selections, Nothing
  <1>7. PICK d : d = ConsumeOf(k, start, neighbours)
    OBVIOUS
  <1>8. InStep(b, d, l) /\ b \in Packs /\ d \in Selections
    BY <1>2, <1>4, <1>6, <1>7, StepsAlike, TakeAlong, ConsumeAlong
  <1>9. d = FirstOf(k, neighbours)
    BY <1>1, <1>5, <1>7 DEF FirstOf
  <1>10. PICK m \in Int : m = Tokens - b.used
    BY <1>8, ContextConstants DEF Packs
  <1>11. PICK e : e = [d EXCEPT !.consumed = 0, !.limit = m]
    OBVIOUS
  <1>12. /\ e \in Selections /\ e.selected = b.taken /\ e.used = b.used
         /\ e.consumed = 0 /\ e.limit = m
    <2>1. e = [selected |-> d.selected, used |-> d.used, consumed |-> 0, limit |-> m]
      BY <1>8, <1>11 DEF Selections
    <2> QED
      BY <1>8, <2>1 DEF Selections, InStep
  <1>13. InStep(TakeOf(k, b, ranked, m), ConsumeOf(k, e, ranked), m)
    BY <1>8, <1>12, StepsAlike
  <1>14. TokenContextOf(k, ranked, neighbours) = ConsumeOf(k, e, ranked).selected
    <2>1. b.used = d.used
      BY <1>8 DEF InStep
    <2> QED
      BY <1>9, <1>10, <1>11, <2>1 DEF TokenContextOf
  <1>15. PackOf(k, <<>>, neighbours, ranked, NeighbourShare).taken = TakeOf(k, b, ranked, m).taken
    BY <1>3, <1>10 DEF PackOf, Full
  <1> QED
    BY <1>13, <1>14, <1>15 DEF InStep

(* The hits that were selected, and what of the selection a sequence has   *)
(* given up.                                                               *)
Ranked == Context!Range(hits) \cap Context!Range(baseline)

(* What a sequence has given up of the selection, *)
Lost(seq) == Context!Range(baseline) \ Context!Range(seq)

(* and that it is no more than n chunks. *)
LostAtMost(seq, n) == IsFiniteSet(Lost(seq)) /\ Cardinality(Lost(seq)) <= n

(* What remains after some chunks have yielded. *)
YieldOK(a) ==
    /\ a \in Yields /\ a.removed \in 0 .. 3
    /\ Context!IsInjective(a.kept)
    /\ Context!InOrder(a.kept, Ranked) = Context!InOrder(baseline, Ranked)
    /\ LostAtMost(a.kept, a.removed)

(* A chunk that makes room leaves all that must stay. *)
LEMMA YieldsOne ==
  ASSUME NEW additions, NEW a, NEW c \in Context!Chunk, YieldOK(a)
  PROVE  YieldOK(YieldStep(additions, a, c))
  <1>1. PICK b \in BOOLEAN : b = (\/ Context!Total(a.kept) + Context!Total(additions) <= Tokens
                                 \/ c \in Context!Range(hits)
                                 \/ a.removed = 3)
    OBVIOUS
  <1>2. PICK kept1 : kept1 = Context!InOrder(a.kept, Context!Chunk \ {c})
    OBVIOUS
  <1>3. YieldStep(additions, a, c) = IF b THEN a ELSE [kept |-> kept1, removed |-> a.removed + 1]
    BY <1>1, <1>2 DEF YieldStep
  <1>4. SUFFICES ASSUME ~ b PROVE YieldOK([kept |-> kept1, removed |-> a.removed + 1])
    BY <1>3
  <1>5. c \notin Context!Range(hits) /\ a.removed # 3
    BY <1>1, <1>4
  <1>6. a.kept \in Seq(Context!Chunk) /\ a.removed \in 0 .. 3 /\ a.removed \in Nat
    BY DEF YieldOK, Yields
  <1>7. /\ kept1 \in Seq(Context!Chunk) /\ Context!IsInjective(kept1)
        /\ Context!Range(kept1) = Context!Range(a.kept) \cap (Context!Chunk \ {c})
    BY <1>2, <1>6, InOrderOf DEF YieldOK
  <1>8. Context!InOrder(kept1, Ranked) = Context!InOrder(baseline, Ranked)
    <2>1. Ranked \cap Context!Chunk \subseteq Context!Chunk \ {c}
      BY <1>5 DEF Ranked
    <2>2. Context!InOrder(kept1, Ranked) = Context!InOrder(a.kept, Ranked)
      BY <1>2, <1>6, <2>1, InOrderTwice
    <2> QED
      BY <2>2 DEF YieldOK
  <1>9. LostAtMost(kept1, a.removed + 1)
    <2>1. IsFiniteSet(Lost(a.kept)) /\ Cardinality(Lost(a.kept)) <= a.removed
      BY DEF YieldOK, LostAtMost
    <2>2. PICK D : D = Lost(a.kept) \cup {c}
      OBVIOUS
    <2>3. IsFiniteSet(D) /\ Cardinality(D) <= a.removed + 1 /\ Cardinality(D) \in Nat
      <3>1. /\ IsFiniteSet(D)
            /\ Cardinality(D) = IF c \in Lost(a.kept) THEN Cardinality(Lost(a.kept))
                                ELSE Cardinality(Lost(a.kept)) + 1
        BY <2>1, <2>2, FS_AddElement
      <3>2. Cardinality(Lost(a.kept)) \in Nat
        BY <2>1, FS_CardinalityType
      <3> QED
        BY <1>6, <2>1, <3>1, <3>2
    <2>4. Lost(kept1) \subseteq D
      <3>1. \A x \in Context!Range(a.kept) : x \in Context!Chunk
        BY <1>6, RangeOf
      <3> QED
        BY <1>7, <2>2, <3>1 DEF Lost
    <2>5. IsFiniteSet(Lost(kept1)) /\ Cardinality(Lost(kept1)) <= Cardinality(D)
          /\ Cardinality(Lost(kept1)) \in Nat
      BY <2>3, <2>4, FS_Subset, FS_CardinalityType
    <2> QED
      BY <1>6, <2>3, <2>5 DEF LostAtMost
  <1> QED
    BY <1>5, <1>6, <1>7, <1>8, <1>9 DEF YieldOK, Yields

(* And so do all of the selection, asked from its end. *)
LEMMA YieldIs ==
  ASSUME NEW additions, baseline \in Seq(Context!Chunk), Context!IsInjective(baseline)
  PROVE  YieldOK(Context!Yielding(additions, Context!Reverse(baseline)))
  <1> DEFINE P == {s \in Seq(Context!Chunk) : YieldOK(Context!Yielding(additions, s))}
  <1>1. <<>> \in P
    <2>1. PICK a : a = [kept |-> baseline, removed |-> 0]
      OBVIOUS
    <2>2. a \in Yields /\ a.kept = baseline /\ a.removed = 0
      BY <2>1 DEF Yields
    <2>3. LostAtMost(baseline, 0)
      <3>1. Lost(baseline) = {}
        BY DEF Lost
      <3> QED
        BY <3>1, FS_EmptySet DEF LostAtMost
    <2>4. YieldOK(a)
      BY <2>2, <2>3 DEF YieldOK
    <2>5. Context!Yielding(additions, <<>>) = a
      BY <2>1, YieldAlong
    <2> QED
      BY <2>4, <2>5, EmptySeq
  <1>2. ASSUME NEW s \in Seq(Context!Chunk), NEW c \in Context!Chunk, s \in P
        PROVE  Append(s, c) \in P
    <2>1. PICK a : a = Context!Yielding(additions, s)
      OBVIOUS
    <2>2. Context!Yielding(additions, Append(s, c)) = YieldStep(additions, a, c)
      BY <2>1, YieldAlong
    <2>3. YieldOK(YieldStep(additions, a, c))
      BY <1>2, <2>1, YieldsOne
    <2> QED
      BY <2>2, <2>3, AppendProperties
  <1> HIDE DEF P
  <1>3. \A s \in Seq(Context!Chunk) : s \in P
    BY <1>1, <1>2, SeqInduction
  <1>4. Context!Reverse(baseline) \in Seq(Context!Chunk)
    <2>1. PICK n \in Nat : n = Len(baseline)
      BY LenProperties
    <2>2. \A i \in 1 .. n : (n - i) + 1 \in 1 .. n /\ baseline[(n - i) + 1] \in Context!Chunk
      BY <2>1, ElementOfSeq
    <2> QED
      BY <2>1, <2>2 DEF Context!Reverse
  <1> QED
    BY <1>3, <1>4 DEF P

(* The invariant: what is kept of a selection and what is packed, with the *)
(* budgets.                                                                *)
BaselineOK ==
    mode = "research" /\ pc # "baseline" =>
        baseline = PackOf(cost, <<>>, adjacent, hits, NeighbourShare).taken

(* Both selections are within the budget. *)
BudgetOK == TotalOf(cost, baseline) <= Tokens /\ TotalOf(cost, context) <= Tokens

(* What is retained names every selected hit, in order, and has given up *)
(* three chunks at most.                                                   *)
RetainedOK ==
    mode = "research" /\ pc \in {"pack", "done"} =>
        /\ Context!InOrder(retained, Ranked) = Context!InOrder(baseline, Ranked)
        /\ LostAtMost(retained, 3)

(* So does the prompt. *)
PackedOK ==
    pc = "done" /\ mode = "research" =>
        /\ Context!InOrder(context, Ranked) = Context!InOrder(baseline, Ranked)
        /\ LostAtMost(context, 3)

(* An assessment has all that was cited, or one of it is absent, or it does *)
(* not fit.                                                                 *)
CitedOK ==
    mode = "assessment" =>
        /\ pc \in {"baseline", "done", "rejected"} /\ baseline = <<>>
        /\ cited \cap Context!Chunk \subseteq Context!Range(hits)
        /\ pc = "done" => /\ cited \subseteq Context!Range(hits)
                         /\ Context!Range(hits) \subseteq Context!Range(context)
        /\ pc = "rejected" => cited \cap Strangers # {} \/ TotalOf(cost, hits) > Tokens

(* The invariant of prompts. *)
ContextInv ==
    Context!TypeOK /\ BaselineOK /\ BudgetOK /\ RetainedOK /\ PackedOK /\ CitedOK

(* It holds at first. *)
LEMMA ContextInit ==
  ASSUME Context!Init
  PROVE  ContextInv
  <1>1. /\ pc = "baseline" /\ mode \in {"research", "assessment"} /\ cost \in [Context!Chunk -> Prices]
        /\ cited = {} /\ hits = <<>> /\ adjacent = <<>> /\ baseline = <<>>
        /\ companions = <<>> /\ retained = <<>> /\ context = <<>>
    BY DEF Context!Init
  <1>2. <<>> \in Seq(Context!Chunk) /\ Context!IsInjective(<<>>)
    BY EmptySeq, InjectiveOf
  <1>3. cost \in [Context!Chunk -> Nat]
    BY <1>1, ContextConstants
  <1>4. TotalOf(cost, <<>>) = 0
    BY <1>3, TotalAlong
  <1>5. Context!TypeOK
    BY <1>1, <1>2 DEF Context!TypeOK
  <1> QED
    BY <1>1, <1>4, <1>5, ContextConstants
       DEF ContextInv, BaselineOK, BudgetOK, RetainedOK, PackedOK, CitedOK

(* What is offered is a selection. *)
LEMMA OffersOf ==
  ASSUME NEW S, NEW offer \in Context!Offers(S)
  PROVE  offer \in Seq(Context!Chunk) /\ Context!IsInjective(offer)
  <1>1. PICK order \in ChunkOrders : offer = Context!InOrder(order, S)
    BY DEF Context!Offers
  <1>2. order \in Seq(Context!Chunk) /\ Context!IsInjective(order)
    BY ContextConstants
  <1> QED
    BY <1>1, <1>2, InOrderOf

(* Every selection names a chunk once. *)
LEMMA TypesOf ==
  ASSUME Context!TypeOK
  PROVE  /\ cost \in [Context!Chunk -> Nat]
         /\ \A seq \in {hits, adjacent, baseline, companions, retained, context} :
               seq \in Seq(Context!Chunk) /\ Context!IsInjective(seq)
  BY ContextConstants DEF Context!TypeOK

(* The selection is that of _pack. *)
LEMMA BaselineStep ==
  ASSUME ContextInv, Context!Baseline
  PROVE  ContextInv'
  <1>1. /\ pc = "baseline" /\ pc' = "replace" /\ mode = "research"
        /\ \E S \in SUBSET Context!Chunk :
              hits' \in Context!Offers(S) /\ adjacent' \in Context!Offers(Context!OnNextPage(S))
        /\ baseline' = Context!Pack(<<>>, adjacent', hits', NeighbourShare).taken
        /\ UNCHANGED <<cost, mode, cited, companions, retained, context>>
    BY DEF Context!Baseline
  <1>2. /\ hits' \in Seq(Context!Chunk) /\ Context!IsInjective(hits')
        /\ adjacent' \in Seq(Context!Chunk) /\ Context!IsInjective(adjacent')
    BY <1>1, OffersOf
  <1>3. cost \in [Context!Chunk -> Nat] /\ <<>> \in Seq(Context!Chunk) /\ NeighbourShare \in Int
    BY TypesOf, EmptySeq, ContextConstants DEF ContextInv
  <1>4. PICK p : p = PackOf(cost, <<>>, adjacent', hits', NeighbourShare)
    OBVIOUS
  <1>5. baseline' = p.taken
    BY <1>1, <1>4, PackParts
  <1>6. p.taken \in Seq(Context!Chunk) /\ Context!IsInjective(p.taken) /\ TotalOf(cost, p.taken) <= Tokens
    BY <1>2, <1>3, <1>4, PackIs
  <1>7. Context!TypeOK'
    BY <1>1, <1>2, <1>5, <1>6 DEF ContextInv, Context!TypeOK
  <1>8. BaselineOK' /\ BudgetOK'
    BY <1>1, <1>4, <1>5, <1>6 DEF ContextInv, BaselineOK, BudgetOK
  <1> QED
    BY <1>1, <1>7, <1>8 DEF ContextInv, RetainedOK, PackedOK, CitedOK

(* Three chunks at most make room, none of them a hit. *)
LEMMA ReplaceStep ==
  ASSUME ContextInv, Context!Replace
  PROVE  ContextInv'
  <1>1. /\ pc = "replace" /\ pc' = "pack"
        /\ companions' \in Context!Offers(Context!Companions(Context!Range(hits) \cup Context!Range(baseline)))
        /\ \E additions : retained' = Context!Yield(additions)
        /\ UNCHANGED <<cost, mode, cited, hits, adjacent, baseline, context>>
    BY DEF Context!Replace
  <1>2. companions' \in Seq(Context!Chunk) /\ Context!IsInjective(companions')
    BY <1>1, OffersOf
  <1>3. PICK additions : retained' = Context!Yield(additions)
    BY <1>1
  <1>4. PICK a : a = Context!Yielding(additions, Context!Reverse(baseline))
    OBVIOUS
  <1>5. YieldOK(a) /\ retained' = a.kept
    BY <1>3, <1>4, YieldIs, TypesOf DEF ContextInv, Context!Yield
  <1>6. retained' \in Seq(Context!Chunk) /\ Context!IsInjective(retained')
    BY <1>5 DEF YieldOK, Yields
  <1>7. Context!TypeOK'
    BY <1>1, <1>2, <1>6 DEF ContextInv, Context!TypeOK
  <1>8. /\ Context!InOrder(retained', Ranked) = Context!InOrder(baseline, Ranked)
        /\ IsFiniteSet(Lost(retained')) /\ Cardinality(Lost(retained')) <= 3
    <2>1. /\ IsFiniteSet(Lost(a.kept)) /\ Cardinality(Lost(a.kept)) <= a.removed
          /\ a.removed \in 0 .. 3
      BY <1>5 DEF YieldOK, LostAtMost
    <2>2. Cardinality(Lost(a.kept)) \in Nat
      BY <2>1, FS_CardinalityType
    <2>3. Cardinality(Lost(a.kept)) <= 3
      BY <2>1, <2>2
    <2> QED
      BY <1>5, <2>1, <2>3 DEF YieldOK
  <1>9. RetainedOK'
    <2>1. Ranked' = Ranked /\ Context!Range(baseline)' = Context!Range(baseline)
      BY <1>1 DEF Ranked
    <2> QED
      BY <1>1, <1>8, <2>1 DEF RetainedOK, LostAtMost, Lost
  <1> QED
    BY <1>1, <1>7, <1>9 DEF ContextInv, BaselineOK, BudgetOK, PackedOK, CitedOK

(* What was retained is taken first, in order. *)
LEMMA FillStep ==
  ASSUME ContextInv, Context!Fill
  PROVE  ContextInv'
  <1>1. PICK p : p = PackOf(cost, retained, companions, <<>>, Tokens)
    OBVIOUS
  <1>2. /\ pc = "pack"
        /\ IF p.fits THEN pc' = "done" /\ context' = p.taken
                     ELSE pc' = "rejected" /\ UNCHANGED context
        /\ UNCHANGED <<cost, mode, cited, hits, adjacent, baseline, companions, retained>>
    BY <1>1, PackParts DEF Context!Fill
  <1>3. /\ cost \in [Context!Chunk -> Nat] /\ <<>> \in Seq(Context!Chunk) /\ Tokens \in Int
        /\ retained \in Seq(Context!Chunk) /\ Context!IsInjective(retained)
        /\ companions \in Seq(Context!Chunk) /\ baseline \in Seq(Context!Chunk)
    BY TypesOf, EmptySeq, ContextConstants DEF ContextInv
  <1>4. /\ p.taken \in Seq(Context!Chunk) /\ Context!IsInjective(p.taken)
        /\ TotalOf(cost, p.taken) <= Tokens
        /\ p.fits =>
               /\ Context!Range(retained) \subseteq Context!Range(p.taken)
               /\ \A S \in SUBSET Context!Range(retained) :
                     Context!InOrder(p.taken, S) = Context!InOrder(retained, S)
    <2>1. PICK l \in Int : l = Tokens
      BY <1>3
    <2>2. PICK k \in [Context!Chunk -> Nat] : k = cost
      BY <1>3
    <2>3. PICK r \in Seq(Context!Chunk) : r = retained
      BY <1>3
    <2>4. PICK o \in Seq(Context!Chunk) : o = companions
      BY <1>3
    <2>5. PICK none \in Seq(Context!Chunk) : none = <<>>
      BY <1>3
    <2>6. p = PackOf(k, r, o, none, l) /\ Context!IsInjective(r)
      BY <1>1, <1>3, <2>1, <2>2, <2>3, <2>4, <2>5
    <2>7. /\ p.taken \in Seq(Context!Chunk) /\ Context!IsInjective(p.taken)
          /\ TotalOf(k, p.taken) <= Tokens
          /\ p.fits =>
                 /\ Context!Range(r) \subseteq Context!Range(p.taken)
                 /\ KeepsOrder(r, p.taken)
      BY <2>6, PackIs
    <2> QED
      BY <2>2, <2>3, <2>6, <2>7 DEF KeepsOrder
  <1>5. Context!TypeOK'
    BY <1>2, <1>4 DEF ContextInv, Context!TypeOK
  <1>6. BudgetOK' /\ BaselineOK'
    BY <1>2, <1>4 DEF ContextInv, BudgetOK, BaselineOK
  <1>7. Ranked' = Ranked
    BY <1>2 DEF Ranked
  <1>8. RetainedOK'
    BY <1>2, <1>7 DEF ContextInv, RetainedOK, LostAtMost, Lost
  <1>9. PackedOK'
    <2> SUFFICES ASSUME p.fits, mode = "research" PROVE PackedOK'
      BY <1>2 DEF PackedOK
    <2>1. /\ Context!InOrder(retained, Ranked) = Context!InOrder(baseline, Ranked)
          /\ IsFiniteSet(Lost(retained)) /\ Cardinality(Lost(retained)) <= 3
      BY <1>2 DEF ContextInv, RetainedOK, LostAtMost
    <2>2. Ranked \subseteq Context!Range(retained)
      <3>1. Context!Range(Context!InOrder(retained, Ranked)) = Context!Range(retained) \cap Ranked
        BY <1>3, InOrderOf
      <3>2. Context!Range(Context!InOrder(baseline, Ranked)) = Context!Range(baseline) \cap Ranked
        BY <1>3, InOrderOf
      <3> QED
        BY <2>1, <3>1, <3>2 DEF Ranked
    <2>3. Context!InOrder(p.taken, Ranked) = Context!InOrder(baseline, Ranked)
      BY <1>4, <2>1, <2>2
    <2>4. Lost(p.taken) \subseteq Lost(retained)
      BY <1>4 DEF Lost
    <2>5. IsFiniteSet(Lost(p.taken)) /\ Cardinality(Lost(p.taken)) <= 3
      <3>1. /\ IsFiniteSet(Lost(p.taken)) /\ Cardinality(Lost(p.taken)) <= Cardinality(Lost(retained))
            /\ Cardinality(Lost(p.taken)) \in Nat /\ Cardinality(Lost(retained)) \in Nat
        BY <2>1, <2>4, FS_Subset, FS_CardinalityType
      <3> QED
        BY <2>1, <3>1
    <2> QED
      BY <1>2, <1>7, <2>3, <2>5 DEF PackedOK, LostAtMost, Lost
  <1>10. CitedOK'
    BY <1>2 DEF ContextInv, CitedOK
  <1> QED
    BY <1>5, <1>6, <1>8, <1>9, <1>10 DEF ContextInv

(* What was cited is taken first, or the prompt is refused. *)
LEMMA AssessStep ==
  ASSUME ContextInv, Context!Assess
  PROVE  ContextInv'
  <1>1. /\ pc = "baseline" /\ mode = "assessment"
        /\ cited' \subseteq Context!Chunk \cup Strangers
        /\ hits' = Context!InOrder(Chunks, cited')
        /\ UNCHANGED <<cost, mode, adjacent, baseline, retained>>
    BY DEF Context!Assess
  <1>2. /\ hits' \in Seq(Context!Chunk) /\ Context!IsInjective(hits')
        /\ Context!Range(hits') = Context!Chunk \cap cited'
    <2>1. /\ Chunks \in Seq(Context!Chunk) /\ Context!IsInjective(Chunks)
          /\ Context!Range(Chunks) = Context!Chunk
      BY ContextConstants DEF Context!Chunk
    <2>2. PICK S : S = cited'
      OBVIOUS
    <2>3. /\ hits' \in Seq(Context!Chunk) /\ Context!IsInjective(hits')
          /\ Context!Range(hits') = Context!Chunk \cap S
      BY <1>1, <2>1, <2>2, InOrderOf
    <2> QED
      BY <2>2, <2>3
  <1>3. CASE /\ cited' \ Context!Range(hits') # {}
             /\ pc' = "rejected"
             /\ UNCHANGED <<companions, context>>
    <2>1. cited' \cap Strangers # {}
      BY <1>1, <1>2, <1>3
    <2>2. Context!TypeOK'
      BY <1>1, <1>2, <1>3 DEF ContextInv, Context!TypeOK
    <2>3. BudgetOK' /\ CitedOK'
      BY <1>1, <1>2, <1>3, <2>1 DEF ContextInv, BudgetOK, CitedOK
    <2> QED
      BY <1>1, <1>3, <2>2, <2>3 DEF ContextInv, BaselineOK, RetainedOK, PackedOK
  <1>4. CASE /\ cited' \subseteq Context!Range(hits')
             /\ companions' \in Context!Offers(Context!Companions(Context!Range(hits')))
             /\ LET packed == Context!Pack(hits', companions', <<>>, NeighbourShare)
                IN  IF packed.fits
                    THEN pc' = "done" /\ context' = packed.taken
                    ELSE pc' = "rejected" /\ UNCHANGED context
    <2>1. PICK p : p = PackOf(cost, hits', companions', <<>>, NeighbourShare)
      OBVIOUS
    <2>2. IF p.fits THEN pc' = "done" /\ context' = p.taken
                    ELSE pc' = "rejected" /\ UNCHANGED context
      BY <1>4, <2>1, PackParts
    <2>3. companions' \in Seq(Context!Chunk) /\ Context!IsInjective(companions')
      BY <1>4, OffersOf
    <2>4. cost \in [Context!Chunk -> Nat] /\ <<>> \in Seq(Context!Chunk) /\ NeighbourShare \in Int
      BY TypesOf, EmptySeq, ContextConstants DEF ContextInv
    <2>5. /\ p.taken \in Seq(Context!Chunk) /\ Context!IsInjective(p.taken)
          /\ TotalOf(cost, p.taken) <= Tokens
          /\ p.fits => Context!Range(hits') \subseteq Context!Range(p.taken)
          /\ TotalOf(cost, hits') <= Tokens => p.fits
      BY <1>2, <2>1, <2>3, <2>4, PackIs
    <2>6. TotalOf(cost, hits') \in Nat /\ Tokens \in Nat
      BY <1>2, <2>4, TotalAlong, ContextConstants
    <2>7. Context!TypeOK'
      BY <1>1, <1>2, <2>2, <2>3, <2>5 DEF ContextInv, Context!TypeOK
    <2>8. BudgetOK'
      BY <1>1, <2>2, <2>5 DEF ContextInv, BudgetOK
    <2>9. CitedOK'
      BY <1>1, <1>2, <1>4, <2>2, <2>5, <2>6 DEF ContextInv, CitedOK
    <2> QED
      BY <1>1, <2>2, <2>7, <2>8, <2>9 DEF ContextInv, BaselineOK, RetainedOK, PackedOK
  <1> QED
    BY <1>3, <1>4 DEF Context!Assess

(* The invariant of prompts holds after every step. *)
LEMMA ContextStep ==
  ASSUME ContextInv, [Context!Next]_(Context!vars)
  PROVE  ContextInv'
  <1>1. CASE UNCHANGED Context!vars
    <2>1. UNCHANGED <<cost, mode, pc, cited, hits, adjacent, baseline, companions, retained,
                      context>>
      BY <1>1 DEF Context!vars
    <2> QED
      BY <2>1 DEF ContextInv, Context!TypeOK, BaselineOK, BudgetOK, RetainedOK, PackedOK, CitedOK,
                  Ranked, LostAtMost, Lost
  <1> QED
    BY <1>1, BaselineStep, ReplaceStep, FillStep, AssessStep DEF Context!Next

(* It is all that was promised of a prompt. *)
LEMMA ContextInvSuffices ==
  ASSUME ContextInv
  PROVE  Context!ContextIsSound
  <1>1. Context!WithinBudget
    BY TotalIs DEF ContextInv, BudgetOK, Context!WithinBudget
  <1>2. Context!RankedAreKept
    BY DEF ContextInv, PackedOK, Ranked, Context!RankedAreKept
  <1>3. Context!CitedAreComplete
    BY TotalIs DEF ContextInv, CitedOK, Context!CitedAreComplete
  <1>4. Context!BaselineIsLegacy
    <2> SUFFICES ASSUME mode = "research", pc # "baseline"
                 PROVE  baseline = Context!TokenContext(hits, adjacent)
      BY DEF Context!BaselineIsLegacy
    <2>1. baseline = PackOf(cost, <<>>, adjacent, hits, NeighbourShare).taken
      BY DEF ContextInv, BaselineOK
    <2>2. baseline = TokenContextOf(cost, hits, adjacent)
      BY <2>1, LegacyAgrees, TypesOf DEF ContextInv
    <2> QED
      BY <2>2, TokenContextParts
  <1>5. Context!ThreeYieldAtMost
    <2> SUFFICES ASSUME pc = "done" PROVE Cardinality(Lost(context)) <= 3
      BY DEF Context!ThreeYieldAtMost, Context!GivenUp, Lost, Context!Cardinality, Cardinality
    <2>1. CASE mode = "research"
      BY <2>1 DEF ContextInv, PackedOK, LostAtMost
    <2>2. CASE mode = "assessment"
      <3>1. Lost(context) = {}
        BY <2>2, RangeOf DEF ContextInv, CitedOK, Lost
      <3> QED
        BY <3>1, FS_EmptySet
    <2> QED
      BY <2>1, <2>2 DEF ContextInv, Context!TypeOK
  <1> QED
    BY <1>1, <1>2, <1>3, <1>4, <1>5 DEF ContextInv, Context!ContextIsSound

(* Prompts of rag/context.py: a prompt stays within its budget; it names   *)
(* every ranked chunk the legacy selection named, in the same order, and   *)
(* has given up at most three of its neighbours; the legacy selection is   *)
(* the one token_context makes; an assessment shows every cited chunk, or  *)
(* is refused because one is not in the corpus or they do not fit.         *)
THEOREM ContextCorrect == Spec => []ContextIsSound
  <1> DEFINE Inv == part = "context" => ContextInv
  <1>1. Init => Inv
    BY ContextInit DEF Init
  <1>2. Inv /\ [Next]_all => Inv'
    <2> SUFFICES ASSUME Inv, [Next]_all, part' = "context" PROVE ContextInv'
      OBVIOUS
    <2>1. part = "context" /\ [Context!Next]_(Context!vars)
      BY DEF Next, all, Context!vars
    <2> QED
      BY <2>1, ContextStep
  <1>3. Inv => ContextIsSound
    BY ContextInvSuffices DEF ContextIsSound
  <1> QED
    BY <1>1, <1>2, <1>3, PTL DEF Spec
===============================================================================
