-------------------------- MODULE ResearchAgentProofs -------------------------
(***************************************************************************)
(* Proofs about the claim of a research request, for every set of callers. *)
(***************************************************************************)
EXTENDS ResearchAgent, TLAPS

(* Where an invocation that took the claim is until it returns. *)
Holding == {"running", "saving", "raising", "saved"}

(* The claim exists as long as an invocation holds it.                     *)
HeldIsClaimed == \A c \in Caller : pc[c] \in Holding => claim

(* Only an invocation that took the claim has executed the view.           *)
EarlyHasNotRun ==
    \A c \in executed : pc[c] \notin {"called", "checked", "refused"}

(* An interrupted execution leaves the claim, and nobody who holds it.     *)
InterruptedBlocks ==
    \A c \in executed : pc[c] \in {"dead", "raised"} =>
        claim /\ \A d \in Caller : pc[d] \notin Holding

IInv ==
    /\ TypeOK
    /\ ExecutionIsExclusive
    /\ HeldIsClaimed
    /\ EarlyHasNotRun
    /\ InterruptedBlocks

-------------------------------------------------------------------------------

(* The invariant holds before the first call. *)
LEMMA InitInv == Init => IInv
  BY DEF Init, IInv, TypeOK, Statuses, ExecutionIsExclusive, HeldIsClaimed,
         EarlyHasNotRun, InterruptedBlocks, Holding

(* The result check moves an invocation that holds nothing. *)
LEMMA CheckResultInv ==
  ASSUME IInv, NEW c \in Caller, CheckResult(c)
  PROVE  IInv'
  <1>1. /\ pc[c] = "called"
        /\ \E where \in {"refused", "checked"} : pc' = [pc EXCEPT ![c] = where]
        /\ UNCHANGED <<result, error, claim, value, executed>>
    BY DEF CheckResult, Goto
  <1>2. TypeOK'
    BY <1>1 DEF IInv, TypeOK
  <1>3. \A d \in Caller : pc'[d] \in Holding => pc[d] \in Holding /\ pc'[d] = pc[d]
    BY <1>1 DEF IInv, TypeOK, Holding
  <1>4. c \notin executed
    BY <1>1 DEF IInv, EarlyHasNotRun
  <1>5. \A d \in executed : pc'[d] = pc[d]
    BY <1>1, <1>4 DEF IInv, TypeOK
  <1> QED
    BY <1>1, <1>2, <1>3, <1>5
    DEF IInv, ExecutionIsExclusive, HeldIsClaimed, EarlyHasNotRun, InterruptedBlocks, Holding

(* The claim is taken when nobody holds it and nothing was interrupted. *)
LEMMA TakeClaimInv ==
  ASSUME IInv, NEW c \in Caller, TakeClaim(c)
  PROVE  IInv'
  <1>1. pc[c] = "checked" /\ claim' = TRUE /\ UNCHANGED <<result, error, value>>
    BY DEF TakeClaim
  <1>2. c \notin executed
    BY <1>1 DEF IInv, EarlyHasNotRun
  <1>3. CASE claim
    <2>1. pc' = [pc EXCEPT ![c] = "refused"] /\ executed' = executed
      BY <1>3 DEF TakeClaim, Goto
    <2>2. TypeOK'
      BY <1>1, <2>1 DEF IInv, TypeOK
    <2>3. \A d \in Caller : pc'[d] \in Holding => pc[d] \in Holding /\ pc'[d] = pc[d]
      BY <2>1 DEF IInv, TypeOK, Holding
    <2>4. \A d \in executed : pc'[d] = pc[d]
      BY <1>2, <2>1 DEF IInv, TypeOK
    <2> QED
      BY <1>1, <1>3, <2>1, <2>2, <2>3, <2>4
      DEF IInv, ExecutionIsExclusive, HeldIsClaimed, EarlyHasNotRun, InterruptedBlocks, Holding
  <1>4. CASE ~claim
    <2>1. pc' = [pc EXCEPT ![c] = "running"] /\ executed' = executed \cup {c}
      BY <1>4 DEF TakeClaim, Goto
    <2>2. TypeOK'
      BY <1>1, <2>1 DEF IInv, TypeOK
    <2>3. \A d \in Caller : pc[d] \notin Holding
      BY <1>4 DEF IInv, HeldIsClaimed
    <2>4. \A d \in Caller : pc'[d] \in Holding => d = c
      BY <2>1, <2>3 DEF IInv, TypeOK
    <2>5. \A d \in executed : pc'[d] = pc[d] /\ pc[d] \notin {"dead", "raised"}
      BY <1>2, <1>4, <2>1 DEF IInv, TypeOK, InterruptedBlocks
    <2>6. pc'[c] = "running"
      BY <2>1 DEF IInv, TypeOK
    <2> QED
      BY <1>1, <2>1, <2>2, <2>4, <2>5, <2>6
      DEF IInv, ExecutionIsExclusive, HeldIsClaimed, EarlyHasNotRun, InterruptedBlocks, Holding
  <1> QED
    BY <1>3, <1>4

(* A holder that goes on to hold disturbs nobody. *)
LEMMA StillHoldingInv ==
  ASSUME IInv, TypeOK', NEW c \in Caller, pc[c] \in Holding, NEW where \in Holding,
         pc' = [pc EXCEPT ![c] = where], UNCHANGED <<claim, executed>>
  PROVE  IInv'
  <1>1. \A d \in Caller : pc'[d] \in Holding <=> pc[d] \in Holding
    BY DEF IInv, TypeOK
  <1>2. \A d \in executed : d \in Caller /\ (d # c => pc'[d] = pc[d])
    BY DEF IInv, TypeOK
  <1>3. pc'[c] \notin {"called", "checked", "refused", "dead", "raised"}
    BY DEF IInv, TypeOK, Holding
  <1> QED
    BY <1>1, <1>2, <1>3
    DEF IInv, ExecutionIsExclusive, HeldIsClaimed, EarlyHasNotRun, InterruptedBlocks, Holding

(* The run of the view, and the saving of what it returned. *)
LEMMA RunViewInv ==
  ASSUME IInv, NEW c \in Caller, RunView(c) \/ SaveResult(c)
  PROVE  IInv'
  <1>1. TypeOK'
    BY DEF IInv, TypeOK, RunView, SaveResult, Goto
  <1>2. CASE RunView(c)
    BY <1>1, <1>2, StillHoldingInv DEF RunView, Goto, Holding
  <1>3. CASE SaveResult(c)
    BY <1>1, <1>3, StillHoldingInv DEF SaveResult, Goto, Holding
  <1> QED
    BY <1>2, <1>3

(* A holder that stops leaves nobody who holds the claim. *)
LEMMA LastHolder ==
  ASSUME IInv, NEW c \in Caller, pc[c] \in Holding, NEW where,
         where \notin Holding, pc' = [pc EXCEPT ![c] = where]
  PROVE  \A d \in Caller : pc'[d] \notin Holding
  BY DEF IInv, TypeOK, ExecutionIsExclusive, Holding

(* The claim is removed by its only holder, so nothing was interrupted. *)
LEMMA RemoveClaimInv ==
  ASSUME IInv, NEW c \in Caller, RemoveClaim(c)
  PROVE  IInv'
  <1>1. /\ pc[c] = "saved" /\ pc' = [pc EXCEPT ![c] = "returned"]
        /\ UNCHANGED <<result, error, value, executed>> /\ claim' = FALSE
    BY DEF RemoveClaim, Goto
  <1>2. TypeOK'
    BY <1>1 DEF IInv, TypeOK
  <1>3. \A d \in Caller : pc'[d] \notin Holding
    BY <1>1, LastHolder DEF Holding
  <1>4. \A d \in executed : pc[d] \notin {"dead", "raised"}
    BY <1>1 DEF IInv, InterruptedBlocks, Holding
  <1>5. \A d \in executed : pc'[d] = pc[d] \/ pc'[d] = "returned"
    BY <1>1 DEF IInv, TypeOK
  <1> QED
    BY <1>1, <1>2, <1>3, <1>4, <1>5
    DEF IInv, ExecutionIsExclusive, HeldIsClaimed, EarlyHasNotRun, InterruptedBlocks, Holding

(* An unmapped exception leaves the claim it found. *)
LEMMA RaiseInv ==
  ASSUME IInv, NEW c \in Caller, Raise(c)
  PROVE  IInv'
  <1>1. /\ pc[c] = "raising" /\ pc' = [pc EXCEPT ![c] = "raised"]
        /\ UNCHANGED <<result, claim, value, executed>> /\ error' = TRUE
    BY DEF Raise, Goto
  <1>2. TypeOK'
    BY <1>1 DEF IInv, TypeOK
  <1>3. claim' /\ \A d \in Caller : pc'[d] \notin Holding
    BY <1>1, LastHolder DEF IInv, HeldIsClaimed, Holding
  <1>4. \A d \in executed : pc'[d] = pc[d] \/ pc'[d] = "raised"
    BY <1>1 DEF IInv, TypeOK
  <1> QED
    BY <1>1, <1>2, <1>3, <1>4
    DEF IInv, ExecutionIsExclusive, HeldIsClaimed, EarlyHasNotRun, InterruptedBlocks, Holding

(* A process dies: before its claim it has not executed, with it the claim *)
(* stays.                                                                  *)
LEMMA CrashInv ==
  ASSUME IInv, NEW c \in Caller, Crash(c)
  PROVE  IInv'
  <1>1. /\ pc[c] \in {"checked"} \cup Holding
        /\ pc' = [pc EXCEPT ![c] = "dead"]
        /\ UNCHANGED <<result, error, claim, value, executed>>
    BY DEF Crash, Goto, Holding
  <1>2. TypeOK'
    BY <1>1 DEF IInv, TypeOK
  <1>3. \A d \in Caller : pc'[d] \in Holding => pc[d] \in Holding /\ pc'[d] = pc[d]
    BY <1>1 DEF IInv, TypeOK, Holding
  <1>4. \A d \in executed : pc'[d] = pc[d] \/ pc'[d] = "dead"
    BY <1>1 DEF IInv, TypeOK
  <1>5. CASE pc[c] = "checked"
    <2>1. \A d \in executed : pc'[d] = pc[d]
      BY <1>1, <1>5 DEF IInv, TypeOK, EarlyHasNotRun
    <2> QED
      BY <1>1, <1>2, <1>3, <2>1
      DEF IInv, ExecutionIsExclusive, HeldIsClaimed, EarlyHasNotRun, InterruptedBlocks, Holding
  <1>6. CASE pc[c] \in Holding
    <2>1. claim' /\ \A d \in Caller : pc'[d] \notin Holding
      BY <1>1, <1>6, LastHolder DEF IInv, HeldIsClaimed, Holding
    <2> QED
      BY <1>1, <1>2, <1>4, <2>1
      DEF IInv, ExecutionIsExclusive, HeldIsClaimed, EarlyHasNotRun, InterruptedBlocks, Holding
  <1> QED
    BY <1>1, <1>5, <1>6

-------------------------------------------------------------------------------

(* Every reachable state of a request satisfies the invariant: the files   *)
(* and the invocations of agents/researchers/agent.py research() agree.    *)
THEOREM Invariance == Spec => []IInv
  <1>1. IInv /\ [Next]_vars => IInv'
    <2> SUFFICES ASSUME IInv, [Next]_vars PROVE IInv'
      OBVIOUS
    <2>1. CASE UNCHANGED vars
      BY <2>1 DEF vars, IInv, TypeOK, ExecutionIsExclusive, HeldIsClaimed,
                  EarlyHasNotRun, InterruptedBlocks
    <2>2. CASE Next
      <3>1. PICK c \in Caller : Invocation(c) \/ Crash(c)
        BY <2>2 DEF Next
      <3> QED
        BY <3>1, CheckResultInv, TakeClaimInv, RunViewInv, RemoveClaimInv, RaiseInv, CrashInv
        DEF Invocation
    <2> QED
      BY <2>1, <2>2
  <1> QED
    BY InitInv, <1>1, PTL DEF Spec

(* However many callers race for a request, its view is executed by one at *)
(* a time, and an execution that died or raised blocks it for good.        *)
THEOREM ClaimCorrect == Spec => []ClaimIsSound
  <1>1. IInv => ClaimIsSound
    <2> SUFFICES ASSUME IInv PROVE InterruptedIsNotReplayed
      BY DEF IInv, ClaimIsSound
    <2> QED
      BY DEF IInv, InterruptedBlocks, InterruptedIsNotReplayed, Holding
  <1> QED
    BY Invariance, <1>1, PTL

===============================================================================
