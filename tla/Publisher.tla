------------------------------- MODULE Publisher ------------------------------
(***************************************************************************)
(* publish() of rag/render.py, which turns an evaluated report into files. *)
(* The Supervisor calls it under the run lock; the command                 *)
(* --agent-publish-request of app.py calls it with a request read from a   *)
(* file and takes no lock, so several processes may publish while the      *)
(* Supervisor is still moving the snapshot on.  Any of them may crash.     *)
(*                                                                         *)
(* Reports are numbered; a request carries a report, edited or not, and    *)
(* the verdict it claims for it.  Files are known by the report they show. *)
(***************************************************************************)
EXTENDS Integers, FiniteSets

CONSTANTS
    Command,        \* processes publishing a request file
    Id,             \* request ids
    SupervisorId,   \* the id of the Supervisor's own publish request
    MaxReport       \* reports the writer is allowed

IdsAssumption ==
    /\ SupervisorId \in Id
    /\ MaxReport \in Nat \ {0}

Supervisor == "supervisor"

Process == Command \cup {Supervisor}

None == "none"

VARIABLES
    snapshot,   \* snapshot.json: the current report and the verdict on it
    pc,         \* where each process is in publish()
    request,    \* its request, once made
    staging,    \* files in its temporary directory
    destination,\* per request id, the files of report/<id>; {} if absent
    reply,      \* what publish() returned to each process
    status      \* the Supervisor's run

vars == <<snapshot, pc, request, staging, destination, reply, status>>

Order == <<"pdf", "markdown", "citation_review", "gap_review", "conflict_review">>

Files == {Order[i] : i \in DOMAIN Order}

Body == [report : 1 .. MaxReport, edited : BOOLEAN]

File == [name : Files, body : Body]

Request == [id : Id, body : Body, passed : BOOLEAN]

NoRequest == [id |-> SupervisorId, body |-> [report |-> 1, edited |-> FALSE], passed |-> FALSE]

Original(n) == [report |-> n, edited |-> FALSE]

Directory(body) == {[name |-> f, body |-> body] : f \in Files}

Goes(p, next) == pc' = [pc EXCEPT ![p] = next]

Returns(p, code) ==
    /\ Goes(p, "returned")
    /\ reply' = [reply EXCEPT ![p] = code]

-------------------------------------------------------------------------------
(* The Supervisor moves the snapshot. *)

(* A new report clears the verdict; there is none after a passed one. *)
Write ==
    /\ status = "running"
    /\ pc[Supervisor] = "idle"
    /\ snapshot.verdict # "passed"
    /\ snapshot.report < MaxReport
    /\ snapshot' = [report |-> snapshot.report + 1, verdict |-> None]
    /\ UNCHANGED <<pc, request, staging, destination, reply, status>>

Evaluate ==
    /\ status = "running"
    /\ pc[Supervisor] = "idle"
    /\ snapshot.report > 0
    /\ snapshot.verdict = None
    /\ \E verdict \in {"passed", "revision"} : snapshot' = [snapshot EXCEPT !.verdict = verdict]
    /\ UNCHANGED <<pc, request, staging, destination, reply, status>>

-------------------------------------------------------------------------------
(* publish(): requests. *)

(* Supervisor.publish: the pending call is saved, then publish() runs. *)
Call ==
    /\ status = "running"
    /\ pc[Supervisor] = "idle"
    /\ snapshot.verdict = "passed"
    /\ request' = [request EXCEPT ![Supervisor] =
                      [id |-> SupervisorId, body |-> Original(snapshot.report), passed |-> TRUE]]
    /\ Goes(Supervisor, "check")
    /\ UNCHANGED <<snapshot, staging, destination, reply, status>>

(* app.py: a request file, with whatever report and verdict are in it. *)
ReadRequest(p) ==
    /\ p \in Command
    /\ pc[p] = "idle"
    /\ \E r \in Request : request' = [request EXCEPT ![p] = r]
    /\ Goes(p, "check")
    /\ UNCHANGED <<snapshot, staging, destination, reply, status>>

(* Identities, verdict, chapters, links and the canonical Markdown. *)
Check(p) ==
    /\ pc[p] = "check"
    /\ IF request[p].passed
       THEN Goes(p, "load") /\ UNCHANGED reply
       ELSE Returns(p, "invalid_response")
    /\ UNCHANGED <<snapshot, request, staging, destination, status>>

(* Variant: the ids of the report and the verdict are compared. *)
SameIds(p) ==
    /\ snapshot.report = request[p].body.report
    /\ snapshot.verdict = "passed"

(* "Both payloads must equal the current, hash-verified artifacts." *)
SameArtifacts(p) ==
    /\ Original(snapshot.report) = request[p].body
    /\ snapshot.verdict = "passed"

Load(p) ==
    /\ pc[p] = "load"
    /\ IF SameArtifacts(p)
       THEN Goes(p, "exists") /\ UNCHANGED reply
       ELSE Returns(p, "artifact_mismatch")
    /\ UNCHANGED <<snapshot, request, staging, destination, status>>

Exists(p) ==
    /\ pc[p] = "exists"
    /\ IF destination[request[p].id] = {}
       THEN Goes(p, "stage") /\ UNCHANGED reply
       ELSE Returns(p, "artifact_mismatch")
    /\ UNCHANGED <<snapshot, request, staging, destination, status>>

-------------------------------------------------------------------------------
(* publish(): files. *)

(* The file to be written next. *)
Following(p) == [name |-> Order[Cardinality(staging[p]) + 1], body |-> request[p].body]

(* Each file is written to the temporary directory, which an exception     *)
(* removes: fonts, layout, more than ten pages, disk.                      *)
Stage(p) ==
    /\ pc[p] = "stage"
    /\ \/ /\ staging' = [staging EXCEPT ![p] = @ \cup {Following(p)}]
          /\ IF Cardinality(staging'[p]) = Cardinality(Files) THEN Goes(p, "rename")
             ELSE UNCHANGED pc
          /\ UNCHANGED reply
       \/ /\ staging' = [staging EXCEPT ![p] = {}]
          /\ Returns(p, "render_error")
    /\ UNCHANGED <<snapshot, request, destination, status>>

(* A directory is renamed in one step, and not over one with files in it. *)
Rename(p) ==
    /\ pc[p] = "rename"
    /\ staging' = [staging EXCEPT ![p] = {}]
    /\ IF destination[request[p].id] = {}
       THEN /\ destination' = [destination EXCEPT ![request[p].id] = staging[p]]
            /\ Returns(p, "ok")
       ELSE /\ UNCHANGED destination
            /\ Returns(p, "render_error")
    /\ UNCHANGED <<snapshot, request, status>>

(* The Supervisor verifies both files before it records the publication. *)
Record ==
    /\ status = "running"
    /\ pc[Supervisor] = "returned"
    /\ status' = IF reply[Supervisor] = "ok" /\
                    destination[SupervisorId] = Directory(Original(snapshot.report))
                 THEN "completed" ELSE "incomplete"
    /\ UNCHANGED <<snapshot, pc, request, staging, destination, reply>>

(* A process dies; its temporary directory stays.  A publication whose     *)
(* outcome is unknown leaves the run with its pending call.                *)
Crash(p) ==
    /\ \/ pc[p] \in {"check", "load", "exists", "stage", "rename"}
       \/ p = Supervisor /\ pc[p] = "returned" /\ status = "running"
    /\ Goes(p, "dead")
    /\ status' = IF p = Supervisor THEN "needs_attention" ELSE status
    /\ UNCHANGED <<snapshot, request, staging, destination, reply>>

-------------------------------------------------------------------------------

Init ==
    /\ snapshot = [report |-> 0, verdict |-> None]
    /\ pc = [p \in Process |-> "idle"]
    /\ request = [p \in Process |-> NoRequest]
    /\ staging = [p \in Process |-> {}]
    /\ destination = [i \in Id |-> {}]
    /\ reply = [p \in Process |-> None]
    /\ status = "running"

Publish(p) == Check(p) \/ Load(p) \/ Exists(p) \/ Stage(p) \/ Rename(p)

Next ==
    \/ Write \/ Evaluate \/ Call \/ Record
    \/ \E p \in Process : ReadRequest(p) \/ Publish(p) \/ Crash(p)

Spec == Init /\ [][Next]_vars

-------------------------------------------------------------------------------
(* Properties. *)

(* Every variable has its type. *)
TypeOK ==
    /\ snapshot \in [report : 0 .. MaxReport, verdict : {None, "passed", "revision"}]
    /\ pc \in [Process -> {"idle", "check", "load", "exists", "stage", "rename", "returned", "dead"}]
    /\ request \in [Process -> Request]
    /\ staging \in [Process -> SUBSET File]
    /\ \A p \in Process : Cardinality(staging[p]) <= Cardinality(Files)
    /\ destination \in [Id -> SUBSET File]
    /\ reply \in [Process -> {None, "ok", "invalid_response", "artifact_mismatch", "render_error"}]
    /\ status \in {"running", "completed", "incomplete", "needs_attention"}

(* "Intermediate files are no success": a publication is there with all of *)
(* its files, of one report, or not at all, wherever a publisher crashes.  *)
DestinationIsWhole ==
    \A i \in Id :
        destination[i] # {} => \E body \in Body : destination[i] = Directory(body)

(* What is published is the current report of the run, as it was evaluated *)
(* and passed, also while the Supervisor goes on and whatever a request    *)
(* file says ("a request ID alone cannot prove which body was evaluated"). *)
PublishedWasEvaluated ==
    \A i \in Id : \A f \in destination[i] :
        f.body = Original(snapshot.report) /\ snapshot.verdict = "passed"

(* Of all the processes that publish one request id at a time, at most one *)
(* is told that it did.                                                    *)
OncePerRequest ==
    \A p, q \in Process :
        reply[p] = "ok" /\ reply[q] = "ok" /\ p # q => request[p].id # request[q].id

(* What a process was told is published stays published, for resume checks *)
(* the files of a completed run again.                                     *)
OkIsOnDisk ==
    /\ \A p \in Process :
          reply[p] = "ok" => destination[request[p].id] = Directory(request[p].body)
    /\ status = "completed" => destination[SupervisorId] # {}

(* What can be found in report/<id>, and what was said of it.              *)
PublicationIsSound ==
    /\ TypeOK
    /\ DestinationIsWhole
    /\ PublishedWasEvaluated
    /\ OncePerRequest
    /\ OkIsOnDisk

===============================================================================
