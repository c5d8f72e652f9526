----------------------------- MODULE ResearchAgent ----------------------------
(***************************************************************************)
(* ResearchAgent.research of agents/researchers/agent.py for one request:  *)
(* the files result.json, error.json and the exclusive .in_progress claim  *)
(* in the directory of the request, and the callers that race for it.      *)
(* What the runner of the view does in between is one step here.           *)
(***************************************************************************)
EXTENDS Naturals, FiniteSets

CONSTANT Caller     \* invocations of research() with this request

VARIABLES
    result,     \* status in result.json, "none" if there is no file
    error,      \* error.json exists
    claim,      \* .in_progress exists
    pc,         \* where each invocation is
    value,      \* the status of the result it built
    executed    \* history: invocations that ran the view

vars == <<result, error, claim, pc, value, executed>>

Statuses == {"ok", "insufficient", "failed"}

Goto(c, where) == pc' = [pc EXCEPT ![c] = where]

(* An existing result is refused before the claim is tried. *)
CheckResult(c) ==
    /\ pc[c] = "called"
    /\ Goto(c, IF result # "none" THEN "refused" ELSE "checked")
    /\ UNCHANGED <<result, error, claim, value, executed>>

(* Variants: the claim is not exclusive; a held claim is waited for. *)
TakeClaimShared(c) ==
    /\ pc[c] = "checked"
    /\ claim' = TRUE
    /\ executed' = executed \cup {c}
    /\ Goto(c, "running")
    /\ UNCHANGED <<result, error, value>>

TakeClaimBlocking(c) ==
    /\ pc[c] = "checked" /\ ~claim
    /\ claim' = TRUE
    /\ executed' = executed \cup {c}
    /\ Goto(c, "running")
    /\ UNCHANGED <<result, error, value>>

(* open with O_CREAT and O_EXCL. *)
TakeClaim(c) ==
    /\ pc[c] = "checked"
    /\ claim' = TRUE
    /\ IF claim
       THEN Goto(c, "refused") /\ UNCHANGED executed
       ELSE Goto(c, "running") /\ executed' = executed \cup {c}
    /\ UNCHANGED <<result, error, value>>

(* The runner and build_result end, with failures mapped to a failed       *)
(* result where node_error knows them.                                     *)
RunView(c) ==
    /\ pc[c] = "running"
    /\ \/ /\ \E status \in Statuses : value' = [value EXCEPT ![c] = status]
          /\ Goto(c, "saving")
       \/ /\ Goto(c, "raising")
          /\ UNCHANGED value
    /\ UNCHANGED <<result, error, claim, executed>>

(* error.json of a failed result is written first, then result.json. *)
SaveResult(c) ==
    /\ pc[c] = "saving"
    /\ result' = value[c]
    /\ error' = (error \/ value[c] = "failed")
    /\ Goto(c, "saved")
    /\ UNCHANGED <<claim, value, executed>>

(* Only an invocation that saved its result removes the claim. *)
RemoveClaim(c) ==
    /\ pc[c] = "saved"
    /\ claim' = FALSE
    /\ Goto(c, "returned")
    /\ UNCHANGED <<result, error, value, executed>>

(* Variant: the claim is removed on every way out. *)
RaiseAndRemove(c) ==
    /\ pc[c] = "raising"
    /\ error' = TRUE
    /\ claim' = FALSE
    /\ Goto(c, "raised")
    /\ UNCHANGED <<result, value, executed>>

(* An unmapped exception: a safe error file; the claim stays. *)
Raise(c) ==
    /\ pc[c] = "raising"
    /\ error' = TRUE
    /\ Goto(c, "raised")
    /\ UNCHANGED <<result, claim, value, executed>>

Crash(c) ==
    /\ pc[c] \in {"checked", "running", "saving", "raising", "saved"}
    /\ Goto(c, "dead")
    /\ UNCHANGED <<result, error, claim, value, executed>>

-------------------------------------------------------------------------------

Init ==
    /\ result = "none"
    /\ error = FALSE
    /\ claim = FALSE
    /\ pc = [c \in Caller |-> "called"]
    /\ value = [c \in Caller |-> "none"]
    /\ executed = {}

Invocation(c) ==
    \/ CheckResult(c) \/ TakeClaim(c) \/ RunView(c)
    \/ SaveResult(c) \/ RemoveClaim(c) \/ Raise(c)

Next == \E c \in Caller : Invocation(c) \/ Crash(c)

Spec == Init /\ [][Next]_vars

FairSpec == Spec /\ \A c \in Caller : WF_vars(Invocation(c))

-------------------------------------------------------------------------------
(* Properties. *)

(* Every variable has its type; only the statuses of the contract are      *)
(* ever written to result.json.                                            *)
TypeOK ==
    /\ result \in Statuses \cup {"none"}
    /\ error \in BOOLEAN
    /\ claim \in BOOLEAN
    /\ pc \in [Caller -> {"called", "checked", "running", "saving", "saved",
                          "raising", "returned", "raised", "refused", "dead"}]
    /\ value \in [Caller -> Statuses \cup {"none"}]
    /\ executed \subseteq Caller

(* The view of one request is never run by two invocations at a time: the  *)
(* claim is held from before the run until after its result is saved.      *)
ExecutionIsExclusive ==
    \A c, d \in Caller :
        /\ {pc[c], pc[d]} \subseteq {"running", "saving", "raising", "saved"}
        => c = d

(* An execution that died or raised blocks the request for good: the claim *)
(* it leaves behind refuses every later invocation, so that a paid run of  *)
(* unknown completion is not replayed.                                     *)
InterruptedIsNotReplayed ==
    (\E c \in executed : pc[c] \in {"dead", "raised"})
        => claim /\ \A d \in Caller : pc[d] \notin {"running", "saving", "saved"}

(* Every invocation returns, raises or is refused, unless its process dies. *)
InvocationEnds ==
    \A c \in Caller : <>(pc[c] \in {"returned", "raised", "refused", "dead"})

(* A request that already has a result is not executed again.  The check   *)
(* for result.json comes before the claim, and a finished invocation       *)
(* removes its claim: an invocation that checked early can still claim.    *)
ResultIsFinal == [][result # "none" => executed' = executed]_vars

(* What the claim of a request protects.                                   *)
ClaimIsSound == TypeOK /\ ExecutionIsExclusive /\ InterruptedIsNotReplayed

===============================================================================
