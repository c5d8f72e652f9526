---------------------------- MODULE AtMostOnceRun -----------------------------
(***************************************************************************)
(* What a team run promises to whoever pays for it, as seen on disk: each  *)
(* request is issued at most once, one at a time, only while the run is    *)
(* running, and never while the outcome of an earlier one is unknown; a    *)
(* request of unknown outcome is followed by nothing but needs_attention;  *)
(* and a run ends once.                                                    *)
(***************************************************************************)

VARIABLES
    status,     \* of the run, on disk
    issued,     \* the requests issued so far
    open        \* the issued requests whose outcome is not known

vars == <<status, issued, open>>

Init ==
    /\ status = "absent"
    /\ issued = {}
    /\ open = {}

Create ==
    /\ status = "absent"
    /\ status' = "running"
    /\ UNCHANGED <<issued, open>>

(* A request that was never issued before. *)
Issue ==
    /\ status = "running"
    /\ open = {}
    /\ \E r \in issued' \ issued :
          /\ issued' = issued \cup {r}
          /\ open' = {r}
    /\ UNCHANGED status

(* The outcome of the open request, if any, is recorded; the run goes on   *)
(* or ends.                                                                *)
Conclude ==
    /\ status = "running"
    /\ status' \in {"running", "incomplete", "completed"}
    /\ open' = {}
    /\ UNCHANGED issued

(* The run is given up to its user, with whatever is open left open. *)
Abandon ==
    /\ status = "running"
    /\ status' = "needs_attention"
    /\ UNCHANGED <<issued, open>>

Next ==
    \/ Create
    \/ Issue
    \/ Conclude
    \/ Abandon

Spec == Init /\ [][Next]_vars

===============================================================================
