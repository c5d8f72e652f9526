---------------------------- MODULE MaturityProofs ----------------------------
(***************************************************************************)
(* Proofs about the research view, for every list of technologies and      *)
(* every size of the thread pool.                                          *)
(***************************************************************************)
EXTENDS Maturity, TLAPS

-------------------------------------------------------------------------------
(* The inductive invariant. *)

(* The request carries an earlier result for every technology or for none. *)
PreviousOK ==
    \/ \A t \in Technology : previous[t] = "none"
    \/ \A t \in Technology : previous[t] # "none"

(* Nothing is done for the technologies that are not targets. *)
OthersIdle ==
    \A t \in Technology \ targets : worker[t] = "idle" /\ calls[t] = 0

(* While the queries are planned. *)
PlanOK ==
    phase = "plan" =>
        /\ outcome = NoOutcome /\ lost = {}
        /\ \A t \in Technology :
              worker[t] = "idle" /\ calls[t] = IF t \in planned THEN 1 ELSE 0

(* While the threads work: a call is lost only by a thread that failed. *)
PoolOK ==
    phase = "pool" =>
        /\ outcome = NoOutcome
        /\ \A x \in lost : x \in targets /\ worker[x] = "failed"

(* The calls before the pool starts. *)
Base == IF FeedbackMode THEN 1 ELSE 0

(* What a thread has spent on t when it is about to do its next step. *)
SpentOK(t) ==
    /\ calls[t] <= Base + 4
    /\ worker[t] = "idle" => calls[t] <= Base /\ round[t] = 0
    /\ worker[t] \in {"search", "review"} => calls[t] <= Base + 2 * round[t]
    /\ worker[t] = "rewrite" => round[t] = 0 /\ calls[t] <= Base + 1
    /\ worker[t] = "assess" => calls[t] <= Base + 2 * round[t] + 1

(* A thread that failed left its exception for the coordinator. *)
FailureOK == \A t \in Technology : worker[t] = "failed" => failure[t] \in Failures

IInv ==
    /\ TypeOK
    /\ PreviousOK
    /\ OthersIdle
    /\ PlanOK
    /\ PoolOK
    /\ FailureOK
    /\ NoThreadOutlivesRequest
    /\ SufficientMeansAll
    /\ \A t \in Technology : SpentOK(t)

(* As long as the request is the same, so are the targets. *)
LEMMA SameTargets ==
  ASSUME UNCHANGED previous
  PROVE  /\ targets' = targets /\ FeedbackMode' = FeedbackMode /\ Base' = Base
         /\ PreviousOK' = PreviousOK
  BY DEF targets, FeedbackMode, Base, PreviousOK

LEMMA TargetsType ==
  /\ targets \subseteq Technology
  /\ Base \in {0, 1} /\ (FeedbackMode => Base = 1) /\ (~FeedbackMode => Base = 0)
  BY DEF targets, Base

-------------------------------------------------------------------------------
(* The steps of the threads. *)

(* A thread that works does so for a target, while the pool is open.       *)
LEMMA ActivePool ==
  ASSUME IInv, NEW t \in Technology, worker[t] \in Active
  PROVE  phase = "pool" /\ t \in targets
  BY DEF IInv, TypeOK, PlanOK, NoThreadOutlivesRequest, OthersIdle, Active

(* A step of the thread of t, after which it does state next. *)
LEMMA ThreadStep ==
  ASSUME IInv, NEW t \in Technology, worker[t] \in Active, TypeOK',
         NEW state \in Active \cup Done,
         worker' = [worker EXCEPT ![t] = state],
         UNCHANGED <<previous, phase, planned, outcome>>,
         \A u \in Technology \ {t} : calls'[u] = calls[u] /\ round'[u] = round[u],
         lost' = lost \/ (state = "failed" /\ lost' = lost \cup {t}),
         \A u \in Technology \ {t} : failure'[u] = failure[u],
         state = "failed" => failure'[t] \in Failures,
         SpentOK(t)'
  PROVE  IInv'
  <1>1. phase = "pool" /\ t \in targets
    BY ActivePool
  <1>2. targets' = targets /\ Base' = Base /\ PreviousOK' = PreviousOK
    BY SameTargets
  <1>3. /\ worker'[t] = state
        /\ \A u \in Technology \ {t} : worker'[u] = worker[u]
    BY DEF IInv, TypeOK
  <1>4. OthersIdle'
    BY <1>1, <1>2, <1>3 DEF IInv, OthersIdle
  <1>5. PoolOK'
    <2>1. ASSUME NEW x \in lost'
          PROVE  x \in targets /\ worker'[x] = "failed"
      <3>1. CASE x = t /\ state = "failed"
        BY <1>1, <1>3, <3>1
      <3>2. CASE x \in lost
        <4>1. x \in targets /\ worker[x] = "failed"
          BY <1>1, <3>2 DEF IInv, PoolOK
        <4>2. x # t /\ x \in Technology
          BY <4>1, TargetsType DEF Active
        <4> QED
          BY <1>3, <4>1, <4>2
      <3> QED
        BY <2>1, <3>1, <3>2
    <2> QED
      BY <1>1, <1>2, <2>1 DEF IInv, PoolOK
  <1>9. FailureOK'
    BY <1>3 DEF IInv, FailureOK
  <1>6. PlanOK' /\ NoThreadOutlivesRequest'
    BY <1>1 DEF PlanOK, NoThreadOutlivesRequest
  <1>7. SufficientMeansAll'
    BY <1>1 DEF IInv, PoolOK, NoOutcome, SufficientMeansAll
  <1>8. ASSUME NEW u \in Technology
        PROVE  SpentOK(u)'
    <2>1. CASE u = t
      BY <2>1
    <2>2. CASE u # t
      BY <1>2, <1>3, <2>2 DEF IInv, SpentOK
    <2> QED
      BY <2>1, <2>2
  <1> QED
    BY <1>2, <1>4, <1>5, <1>6, <1>7, <1>8, <1>9 DEF IInv

(* A thread whose call raises has failed; the call is lost if it may have  *)
(* been completed.                                                         *)
LEMMA RaisesStep ==
  ASSUME IInv, NEW t \in Technology, worker[t] \in {"review", "rewrite", "assess"},
         StructuredRaises(t), Counted(t), UNCHANGED <<previous, phase, planned, outcome>>
  PROVE  IInv'
  <1>1. PICK kind \in Failures : Raises(t, kind) /\ Lose(kind, t)
    BY DEF StructuredRaises
  <1>2. /\ worker' = [worker EXCEPT ![t] = "failed"]
        /\ failure' = [failure EXCEPT ![t] = kind] /\ round' = round
        /\ calls' = [calls EXCEPT ![t] = @ + 1]
        /\ lost' = lost \/ lost' = lost \cup {t}
    BY <1>1 DEF Raises, Become, Lose, Counted
  <1>3. TypeOK'
    BY <1>2 DEF IInv, TypeOK, Done, Failures
  <1>4. SpentOK(t)'
    <2>1. Base' = Base /\ Base \in {0, 1}
      BY SameTargets, TargetsType
    <2>2. calls[t] \in Nat /\ round[t] \in 0 .. 1 /\ SpentOK(t)
      BY DEF IInv, TypeOK
    <2>3. calls'[t] = calls[t] + 1 /\ worker'[t] = "failed"
      BY <1>2 DEF IInv, TypeOK
    <2>4. calls[t] <= Base + 3
      BY <2>1, <2>2 DEF SpentOK
    <2> QED
      BY <2>1, <2>2, <2>3, <2>4 DEF SpentOK
  <1>5. worker[t] \in Active /\ "failed" \in Active \cup Done
    BY DEF Active, Done
  <1>6. /\ \A u \in Technology \ {t} : calls'[u] = calls[u] /\ round'[u] = round[u]
        /\ \A u \in Technology \ {t} : failure'[u] = failure[u]
        /\ failure'[t] \in Failures
    BY <1>2 DEF IInv, TypeOK
  <1> QED
    BY <1>2, <1>3, <1>4, <1>5, <1>6, ThreadStep

LEMMA SearchInv ==
  ASSUME IInv, NEW t \in Technology, Search(t)
  PROVE  IInv'
  <1>1. /\ worker[t] = "search" /\ worker[t] \in Active
        /\ UNCHANGED <<previous, phase, planned, outcome, calls, lost, round>>
    BY DEF Search, Raises, Active
  <1>2. PICK state \in {"review", "insufficient", "failed"} :
             worker' = [worker EXCEPT ![t] = state]
    BY DEF Search, Raises, Become
  <1>3. TypeOK'
    BY <1>1, <1>2 DEF IInv, TypeOK, Search, Raises, Active, Done, Failures
  <1>4. SpentOK(t)'
    <2>1. Base' = Base
      BY <1>1, SameTargets
    <2>2. worker'[t] = state /\ SpentOK(t)
      BY <1>2 DEF IInv, TypeOK
    <2> QED
      BY <1>1, <1>2, <2>1, <2>2 DEF SpentOK
  <1>5. state \in Active \cup Done
    BY <1>2 DEF Active, Done
  <1>6. \A u \in Technology \ {t} : failure'[u] = failure[u]
    BY DEF IInv, TypeOK, Search, Raises
  <1>7. state = "failed" => failure'[t] \in Failures
    <2>1. worker'[t] = state
      BY <1>2 DEF IInv, TypeOK
    <2>2. Raises(t, "definite") => failure'[t] \in Failures
      BY DEF Raises, Failures, IInv, TypeOK
    <2>3. ASSUME NEW other \in {"review", "insufficient"}, Become(t, other)
          PROVE  state # "failed"
      BY <2>1, <2>3 DEF Become, IInv, TypeOK
    <2> QED
      BY <2>2, <2>3 DEF Search
  <1> QED
    BY <1>1, <1>2, <1>3, <1>4, <1>5, <1>6, <1>7, ThreadStep

LEMMA ReviewInv ==
  ASSUME IInv, NEW t \in Technology, Review(t)
  PROVE  IInv'
  <1>1. /\ worker[t] = "review" /\ worker[t] \in Active /\ Counted(t)
        /\ UNCHANGED <<previous, phase, planned, outcome>>
    BY DEF Review, Active
  <1>2. CASE StructuredRaises(t)
    BY <1>1, <1>2, RaisesStep
  <1>3. ASSUME NEW state \in {"assess", AfterDeficient(t)}, Become(t, state),
               UNCHANGED <<round, failure, lost>>
        PROVE  IInv'
    <2>1. worker' = [worker EXCEPT ![t] = state] /\ calls' = [calls EXCEPT ![t] = @ + 1]
      BY <1>1, <1>3 DEF Become, Counted
    <2>2. state \in Active \cup Done
      BY <1>3 DEF AfterDeficient, Active, Done
    <2>3. TypeOK'
      BY <1>1, <1>3, <2>1, <2>2 DEF IInv, TypeOK
    <2>4. SpentOK(t)'
      <3>1. Base' = Base /\ Base \in {0, 1}
        BY <1>1, SameTargets, TargetsType
      <3>2. calls[t] \in Nat /\ round[t] \in 0 .. 1 /\ calls[t] <= Base + 2 * round[t]
        BY <1>1 DEF IInv, TypeOK, SpentOK
      <3>3. calls'[t] = calls[t] + 1 /\ worker'[t] = state /\ round'[t] = round[t]
        BY <1>3, <2>1 DEF IInv, TypeOK
      <3>4. state \in {"assess", "insufficient"} \/ (state = "rewrite" /\ round[t] = 0)
        BY <1>3 DEF AfterDeficient
      <3> QED
        BY <3>1, <3>2, <3>3, <3>4 DEF SpentOK
    <2>5. \A u \in Technology \ {t} : calls'[u] = calls[u] /\ round'[u] = round[u]
      BY <1>3, <2>1 DEF IInv, TypeOK
    <2>6. state # "failed"
      BY <1>3 DEF AfterDeficient
    <2> QED
      BY <1>1, <1>3, <2>1, <2>2, <2>3, <2>4, <2>5, <2>6, ThreadStep
  <1> QED
    BY <1>2, <1>3 DEF Review

LEMMA RewriteInv ==
  ASSUME IInv, NEW t \in Technology, Rewrite(t)
  PROVE  IInv'
  <1>1. /\ worker[t] = "rewrite" /\ worker[t] \in Active /\ Counted(t)
        /\ UNCHANGED <<previous, phase, planned, outcome>>
    BY DEF Rewrite, Active
  <1>2. CASE StructuredRaises(t)
    BY <1>1, <1>2, RaisesStep
  <1>3. CASE /\ Become(t, "search")
             /\ round' = [round EXCEPT ![t] = @ + 1]
             /\ UNCHANGED <<failure, lost>>
    <2>1. /\ worker' = [worker EXCEPT ![t] = "search"]
          /\ calls' = [calls EXCEPT ![t] = @ + 1]
      BY <1>1, <1>3 DEF Become, Counted
    <2>2. /\ calls[t] \in Nat /\ round \in [Technology -> 0 .. 1]
          /\ round[t] = 0 /\ calls[t] <= Base + 1
      BY <1>1 DEF IInv, TypeOK, SpentOK
    <2>3. /\ calls'[t] = calls[t] + 1 /\ round'[t] = 1 /\ worker'[t] = "search"
          /\ \A u \in Technology \ {t} : calls'[u] = calls[u] /\ round'[u] = round[u]
      BY <1>3, <2>1, <2>2 DEF IInv, TypeOK
    <2>4. round' \in [Technology -> 0 .. 1]
      BY <1>3, <2>2
    <2>5. TypeOK'
      BY <1>1, <1>3, <2>1, <2>4 DEF IInv, TypeOK, Active
    <2>6. SpentOK(t)'
      <3>1. Base' = Base /\ Base \in {0, 1}
        BY <1>1, SameTargets, TargetsType
      <3> QED
        BY <2>2, <2>3, <3>1 DEF SpentOK
    <2>7. "search" \in Active \cup Done
      BY DEF Active
    <2> QED
      BY <1>1, <1>3, <2>1, <2>3, <2>5, <2>6, <2>7, ThreadStep
  <1> QED
    BY <1>2, <1>3 DEF Rewrite

LEMMA AssessInv ==
  ASSUME IInv, NEW t \in Technology, Assess(t)
  PROVE  IInv'
  <1>1. /\ worker[t] = "assess" /\ worker[t] \in Active /\ Counted(t)
        /\ UNCHANGED <<previous, phase, planned, outcome>>
    BY DEF Assess, Active
  <1>2. CASE StructuredRaises(t)
    BY <1>1, <1>2, RaisesStep
  <1>3. ASSUME NEW state \in {"ok", "insufficient", "invalid"}, Become(t, state),
               UNCHANGED <<round, failure, lost>>
        PROVE  IInv'
    <2>1. worker' = [worker EXCEPT ![t] = state] /\ calls' = [calls EXCEPT ![t] = @ + 1]
      BY <1>1, <1>3 DEF Become, Counted
    <2>2. state \in Active \cup Done
      BY DEF Done
    <2>3. TypeOK'
      BY <1>1, <1>3, <2>1, <2>2 DEF IInv, TypeOK
    <2>4. SpentOK(t)'
      <3>1. Base' = Base /\ Base \in {0, 1}
        BY <1>1, SameTargets, TargetsType
      <3>2. calls[t] \in Nat /\ round[t] \in 0 .. 1 /\ calls[t] <= Base + 2 * round[t] + 1
        BY <1>1 DEF IInv, TypeOK, SpentOK
      <3>3. calls'[t] = calls[t] + 1 /\ worker'[t] = state
        BY <2>1 DEF IInv, TypeOK
      <3>4. calls'[t] <= Base + 4
        BY <3>1, <3>2, <3>3
      <3> QED
        BY <3>1, <3>3, <3>4 DEF SpentOK
    <2>5. \A u \in Technology \ {t} : calls'[u] = calls[u] /\ round'[u] = round[u]
      BY <1>3, <2>1 DEF IInv, TypeOK
    <2> QED
      BY <1>1, <1>3, <2>1, <2>2, <2>3, <2>4, <2>5, ThreadStep
  <1> QED
    BY <1>2, <1>3 DEF Assess

-------------------------------------------------------------------------------
(* The steps of the coordinator. *)

(* The request ends before the pool was opened. *)
LEMMA PlanEnds ==
  ASSUME IInv, phase = "plan", NEW kind \in Failures, Fails(kind), TypeOK',
         UNCHANGED <<previous, worker, round, failure>>,
         \A t \in Technology : calls'[t] \in {calls[t], Base}, OthersIdle'
  PROVE  IInv'
  <1>1. \A t \in Technology : worker[t] = "idle"
    BY DEF IInv, PlanOK
  <1>2. Base' = Base /\ PreviousOK' = PreviousOK /\ Base \in {0, 1}
    BY SameTargets, TargetsType
  <1>3. /\ phase' = "ended" /\ outcome'.status # "ok"
    BY DEF Fails
  <1>4. ASSUME NEW t \in Technology
        PROVE  SpentOK(t)'
    <2>1. worker'[t] = "idle" /\ round'[t] = 0
      BY <1>1 DEF IInv, SpentOK
    <2>2. calls'[t] <= Base
      BY <1>1, <1>2 DEF IInv, TypeOK, SpentOK
    <2>3. calls'[t] \in Nat
      BY DEF TypeOK
    <2> QED
      BY <1>2, <2>1, <2>2, <2>3 DEF SpentOK
  <1>5. NoThreadOutlivesRequest'
    BY <1>1 DEF NoThreadOutlivesRequest, Active
  <1>6. FailureOK'
    BY DEF IInv, FailureOK
  <1> QED
    BY <1>2, <1>3, <1>4, <1>5, <1>6 DEF IInv, PlanOK, PoolOK, SufficientMeansAll

LEMMA FailsType ==
  ASSUME NEW kind \in Failures, Fails(kind)
  PROVE  /\ phase' = "ended"
         /\ outcome' \in [status : {"none", "ok", "insufficient", "failed", "raised"},
                          code : Failures \cup {"none"}]
  BY DEF Fails

LEMMA PlanInv ==
  ASSUME IInv, Plan
  PROVE  IInv'
  <1>1. /\ phase = "plan" /\ UNCHANGED <<previous, worker, round, failure, calls>>
    BY DEF Plan
  <1>2. CASE phase' = "pool" /\ UNCHANGED <<planned, outcome, lost>>
    <2>1. targets' = targets /\ Base' = Base /\ PreviousOK' = PreviousOK
      BY <1>1, SameTargets
    <2>2. TypeOK'
      BY <1>1, <1>2 DEF IInv, TypeOK
    <2>3. OthersIdle' /\ \A t \in Technology : SpentOK(t)'
      BY <1>1, <1>2, <2>1 DEF IInv, OthersIdle, SpentOK
    <2>4. PlanOK' /\ PoolOK' /\ NoThreadOutlivesRequest' /\ SufficientMeansAll'
      BY <1>1, <1>2 DEF IInv, PlanOK, PoolOK, NoThreadOutlivesRequest,
                        SufficientMeansAll, NoOutcome
    <2>5. FailureOK'
      BY <1>1 DEF IInv, FailureOK
    <2> QED
      BY <2>1, <2>2, <2>3, <2>4, <2>5 DEF IInv
  <1>3. CASE PlanRaises("plan")
    <2>1. PICK kind \in Failures : Fails(kind) /\ Lose(kind, "plan")
      BY <1>3 DEF PlanRaises
    <2>2. lost' \subseteq lost \cup {"plan"} /\ planned' = planned
      BY <1>3, <2>1 DEF PlanRaises, Lose
    <2>3. TypeOK'
      BY <1>1, <2>1, <2>2, FailsType DEF IInv, TypeOK
    <2>4. OthersIdle'
      BY <1>1, SameTargets DEF IInv, OthersIdle
    <2> QED
      BY <1>1, <2>1, <2>3, <2>4, PlanEnds
  <1> QED
    BY <1>2, <1>3 DEF Plan

LEMMA RewriteFeedbackInv ==
  ASSUME IInv, RewriteFeedback
  PROVE  IInv'
  <1>1. /\ phase = "plan" /\ FeedbackMode /\ UNCHANGED <<previous, worker, round, failure>>
    BY DEF RewriteFeedback
  <1>2. PICK t \in Technology :
          /\ First(t, targets \ planned)
          /\ calls' = [calls EXCEPT ![t] = @ + 1]
          /\ \/ /\ planned' = planned \cup {t}
                /\ phase' = IF planned' = targets THEN "pool" ELSE "plan"
                /\ UNCHANGED <<outcome, lost>>
             \/ PlanRaises(t)
    BY DEF RewriteFeedback
  <1>3. /\ t \in targets /\ t \notin planned /\ calls[t] = 0
        /\ \A u \in Technology : worker[u] = "idle"
        /\ \A u \in Technology : calls[u] = IF u \in planned THEN 1 ELSE 0
        /\ outcome = NoOutcome /\ lost = {}
    BY <1>1, <1>2 DEF First, IInv, PlanOK
  <1>4. calls'[t] = 1 /\ \A u \in Technology \ {t} : calls'[u] = calls[u]
    BY <1>2, <1>3 DEF IInv, TypeOK
  <1>5. /\ targets' = targets /\ Base' = Base /\ PreviousOK' = PreviousOK /\ Base = 1
    BY <1>1, SameTargets, TargetsType
  <1>6. calls' \in [Technology -> Nat]
    BY <1>2, <1>3 DEF IInv, TypeOK
  <1>7. OthersIdle'
    BY <1>1, <1>3, <1>4, <1>5 DEF IInv, OthersIdle
  <1>8. CASE /\ planned' = planned \cup {t} /\ phase' \in {"plan", "pool"}
             /\ UNCHANGED <<outcome, lost>>
    <2>1. TypeOK'
      BY <1>1, <1>6, <1>8 DEF IInv, TypeOK
    <2>2. PlanOK'
      BY <1>1, <1>3, <1>4, <1>8 DEF PlanOK
    <2>3. PoolOK' /\ NoThreadOutlivesRequest' /\ SufficientMeansAll'
      BY <1>1, <1>3, <1>8 DEF PoolOK, NoThreadOutlivesRequest, SufficientMeansAll, NoOutcome
    <2>4. ASSUME NEW u \in Technology
          PROVE  SpentOK(u)'
      <3>1. calls'[u] \in {0, 1}
        BY <1>3, <1>4
      <3> QED
        BY <1>1, <1>3, <1>5, <3>1 DEF IInv, SpentOK
    <2>5. FailureOK'
      BY <1>1 DEF IInv, FailureOK
    <2> QED
      BY <1>5, <1>7, <2>1, <2>2, <2>3, <2>4, <2>5 DEF IInv
  <1>9. CASE PlanRaises(t)
    <2>1. PICK kind \in Failures : Fails(kind) /\ Lose(kind, t)
      BY <1>9 DEF PlanRaises
    <2>2. lost' \subseteq lost \cup {t} /\ planned' = planned
      BY <1>9, <2>1 DEF PlanRaises, Lose
    <2>3. TypeOK'
      BY <1>1, <1>6, <2>1, <2>2, FailsType DEF IInv, TypeOK
    <2> QED
      BY <1>1, <1>4, <1>5, <1>7, <2>1, <2>3, PlanEnds
  <1> QED
    BY <1>2, <1>8, <1>9

LEMMA StartWorkerInv ==
  ASSUME IInv, StartWorker
  PROVE  IInv'
  <1>1. /\ phase = "pool"
        /\ UNCHANGED <<previous, phase, planned, round, failure, outcome, calls, lost>>
    BY DEF StartWorker
  <1>2. PICK t \in Technology : /\ First(t, {u \in targets : worker[u] = "idle"})
                                /\ worker' = [worker EXCEPT ![t] = "search"]
    BY DEF StartWorker
  <1>3. t \in targets /\ worker[t] = "idle"
    BY <1>2 DEF First
  <1>4. /\ worker'[t] = "search" /\ \A u \in Technology \ {t} : worker'[u] = worker[u]
    BY <1>2 DEF IInv, TypeOK
  <1>5. targets' = targets /\ Base' = Base /\ PreviousOK' = PreviousOK /\ Base \in {0, 1}
    BY <1>1, SameTargets, TargetsType
  <1>6. TypeOK'
    BY <1>1, <1>2 DEF IInv, TypeOK, Active
  <1>7. OthersIdle'
    BY <1>1, <1>3, <1>4, <1>5 DEF IInv, OthersIdle
  <1>8. PoolOK'
    BY <1>1, <1>3, <1>4, <1>5, TargetsType DEF IInv, PoolOK
  <1>9. PlanOK' /\ NoThreadOutlivesRequest' /\ SufficientMeansAll'
    BY <1>1 DEF IInv, PlanOK, PoolOK, NoThreadOutlivesRequest, SufficientMeansAll, NoOutcome
  <1>10. ASSUME NEW u \in Technology
         PROVE  SpentOK(u)'
    <2>1. SpentOK(u) /\ calls[u] \in Nat
      BY DEF IInv, TypeOK
    <2>2. CASE u = t
      BY <1>1, <1>3, <1>4, <1>5, <2>1, <2>2 DEF SpentOK
    <2>3. CASE u # t
      BY <1>1, <1>4, <1>5, <2>1, <2>3 DEF SpentOK
    <2> QED
      BY <2>2, <2>3
  <1>11. FailureOK'
    BY <1>1, <1>4 DEF IInv, FailureOK
  <1> QED
    BY <1>5, <1>6, <1>7, <1>8, <1>9, <1>10, <1>11 DEF IInv

(* The coordinator ends only when no target is at work; it reports success *)
(* only if every target ended sufficient, and then no call was lost.       *)
LEMMA ConcludeInv ==
  ASSUME IInv, Conclude
  PROVE  IInv'
  <1>1. /\ phase = "pool" /\ Drained /\ phase' = "ended"
        /\ UNCHANGED <<previous, planned, worker, round, failure, calls, lost>>
    BY DEF Conclude, Fails
  <1>2. targets' = targets /\ Base' = Base /\ PreviousOK' = PreviousOK
    BY <1>1, SameTargets
  <1>3. \A t \in Technology : worker[t] \notin Active
    BY <1>1 DEF IInv, OthersIdle, Drained, Done, Active
  <1>4. \A t \in Technology : SpentOK(t)'
    BY <1>1, <1>2 DEF IInv, SpentOK
  <1>5. OthersIdle' /\ PlanOK' /\ PoolOK' /\ FailureOK' /\ NoThreadOutlivesRequest'
    BY <1>1, <1>2, <1>3
       DEF IInv, OthersIdle, PlanOK, PoolOK, FailureOK, NoThreadOutlivesRequest
  <1>6. CASE /\ Failed = {}
             /\ outcome' = [status |-> ResultStatus, code |-> "none"]
    <2>1. TypeOK'
      BY <1>1, <1>6 DEF IInv, TypeOK, ResultStatus
    <2>2. ASSUME outcome'.status = "ok"
          PROVE  /\ lost = {}
                 /\ \A t \in Technology :
                       worker[t] = "ok" \/ (worker[t] = "idle" /\ previous[t] = "ok")
      <3>1. \A t \in Technology : FinalStatus(t) = "ok"
        BY <1>6, <2>2 DEF ResultStatus
      <3>2. \A x \in lost : x \in Failed
        BY <1>1 DEF IInv, PoolOK, Failed
      <3>3. ASSUME NEW t \in Technology
            PROVE  worker[t] = "ok" \/ (worker[t] = "idle" /\ previous[t] = "ok")
        <4>1. CASE t \in targets
          BY <3>1, <4>1 DEF FinalStatus
        <4>2. CASE t \notin targets
          BY <3>1, <4>2 DEF FinalStatus, IInv, OthersIdle
        <4> QED
          BY <4>1, <4>2
      <3> QED
        BY <1>6, <3>2, <3>3
    <2>3. SufficientMeansAll'
      BY <1>1, <2>2 DEF SufficientMeansAll
    <2> QED
      BY <1>2, <1>4, <1>5, <2>1, <2>3 DEF IInv
  <1>7. ASSUME NEW kind \in Failures, Fails(kind)
        PROVE  IInv'
    <2>1. TypeOK'
      BY <1>1, <1>7, FailsType DEF IInv, TypeOK
    <2>2. SufficientMeansAll'
      BY <1>7 DEF Fails, SufficientMeansAll
    <2> QED
      BY <1>2, <1>4, <1>5, <2>1, <2>2 DEF IInv
  <1>8. ASSUME NEW t \in Technology, First(t, Failed), Fails(failure[t])
        PROVE  IInv'
    <2>1. failure[t] \in Failures
      BY <1>8 DEF First, Failed, IInv, FailureOK
    <2> QED
      BY <1>7, <1>8, <2>1
  <1> QED
    BY <1>6, <1>7, <1>8 DEF Conclude, Failures

-------------------------------------------------------------------------------

LEMMA StepInv ==
  ASSUME IInv, [Next]_vars
  PROVE  IInv'
  <1>1. CASE UNCHANGED vars
    <2>1. UNCHANGED <<previous, phase, planned, worker, round, failure, outcome, calls, lost>>
      BY <1>1 DEF vars
    <2>2. targets' = targets /\ Base' = Base /\ PreviousOK' = PreviousOK
      BY <2>1, SameTargets
    <2> QED
      BY <2>1, <2>2 DEF IInv, TypeOK, OthersIdle, PlanOK, PoolOK, FailureOK,
                        NoThreadOutlivesRequest, SufficientMeansAll, SpentOK
  <1>2. CASE Coordinator
    BY <1>2, PlanInv, RewriteFeedbackInv, StartWorkerInv, ConcludeInv DEF Coordinator
  <1>3. ASSUME NEW t \in Technology, Thread(t)
        PROVE  IInv'
    BY <1>3, SearchInv, ReviewInv, RewriteInv, AssessInv DEF Thread
  <1> QED
    BY <1>1, <1>2, <1>3 DEF Next

LEMMA InitInv ==
  ASSUME Init
  PROVE  IInv
  <1>1. PreviousOK
    BY DEF Init, PreviousOK
  <1>2. TypeOK
    BY DEF Init, TypeOK, NoOutcome
  <1>3. OthersIdle /\ PlanOK /\ PoolOK /\ FailureOK
    BY DEF Init, OthersIdle, PlanOK, PoolOK, FailureOK
  <1>4. NoThreadOutlivesRequest /\ SufficientMeansAll
    BY DEF Init, NoThreadOutlivesRequest, SufficientMeansAll, NoOutcome
  <1>5. \A t \in Technology : SpentOK(t)
    BY TargetsType DEF Init, SpentOK
  <1> QED
    BY <1>1, <1>2, <1>3, <1>4, <1>5 DEF IInv

(* In every state the view can reach the inductive invariant holds: what a *)
(* thread has spent is explained by the step it does next, what is not a   *)
(* target is untouched, and a lost call belongs to a thread that failed.   *)
THEOREM Invariance == Spec => []IInv
  <1>1. Init => IInv
    BY InitInv
  <1>2. IInv /\ [Next]_vars => IInv'
    BY StepInv
  <1> QED
    BY <1>1, <1>2, PTL DEF Spec

(* Whatever the technologies, the pool and the failures of the calls: the  *)
(* view ends only after every thread, reports success only if nothing was  *)
(* lost and every technology is sufficient, spends nothing on those that   *)
(* already were, and pays for at most five calls per technology.           *)
THEOREM ViewCorrect == Spec => []ViewIsSound
  <1>1. ASSUME IInv
        PROVE  ViewIsSound
    <2>1. ASSUME NEW t \in Technology, previous[t] = "ok",
                 NEW u \in Technology, previous[u] # "ok"
          PROVE  worker[t] = "idle" /\ calls[t] = 0
      <3>1. FeedbackMode
        BY <1>1, <2>1 DEF IInv, PreviousOK, FeedbackMode
      <3>2. t \notin targets
        BY <2>1, <3>1 DEF targets
      <3> QED
        BY <1>1, <3>2 DEF IInv, OthersIdle
    <2>2. SufficientIsNotRepeated
      BY <2>1 DEF SufficientIsNotRepeated
    <2>3. CallsAreBounded
      <3>1. ASSUME NEW t \in Technology
            PROVE  calls[t] <= IF FeedbackMode THEN 5 ELSE 4
        <4>1. calls[t] \in Nat /\ calls[t] <= Base + 4
          BY <1>1 DEF IInv, TypeOK, SpentOK
        <4> QED
          BY <4>1, TargetsType
      <3> QED
        BY <3>1 DEF CallsAreBounded
    <2> QED
      BY <1>1, <2>2, <2>3 DEF IInv, ViewIsSound
  <1> QED
    BY <1>1, Invariance, PTL

===============================================================================
