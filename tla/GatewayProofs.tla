----------------------------- MODULE GatewayProofs ----------------------------
(***************************************************************************)
(* Proofs about the paid calls and their ledger, for every set of runs and *)
(* calls, every price, bill and limit.                                     *)
(***************************************************************************)
EXTENDS Gateway, FiniteSetTheorems, TLAPS

(* The phases of an attempt that has not reserved, or not sent, yet; those *)
(* that hold an open reservation; and those whose request was sent.        *)
Unreserved == {"new", "queued", "slotted"}
Unsent     == Unreserved \cup {"reserving", "reserved"}
Open       == {"reserving", "reserved", "inflight", "answered"}
Awaiting   == {"inflight", "answered"}

IdsUnique ==
    /\ \A d, e \in ledger : d.id = e.id => d = e
    /\ \A s, t \in sent : s.id = t.id => s = t

(* A thread at work belongs to a process that is executing.                *)
RunsAlive(c) == pc[c] \in Slotted \cup {"queued", "backoff"} => RunOf[c] \in alive

(* Reservations and requests are made for the attempts up to the current   *)
(* one, and for that one only when its phase is reached.                   *)
AttemptsOK(c) ==
    /\ \A e \in ledger : e.id.call = c =>
           /\ e.id.attempt <= attempt[c]
           /\ pc[c] \in Unreserved => e.id.attempt < attempt[c]
    /\ \A s \in sent : s.id.call = c =>
           /\ s.id.attempt <= attempt[c]
           /\ pc[c] \in Unsent => s.id.attempt < attempt[c]

(* Before the current attempt, and when it is about to be left behind,     *)
(* every request was refused.                                              *)
RefusedOK(c) ==
    /\ \A s \in sent :
           s.id.call = c /\ s.id.attempt < attempt[c] => s.id \in refused
    /\ pc[c] = "backoff" => id(c) \in refused

(* The current attempt has an open entry until it is settled.              *)
OpenOK(c) ==
    /\ pc[c] \in Open => \E e \in ledger : e.id = id(c) /\ e.state = "reserved"
    /\ pc[c] \in Awaiting => \E s \in sent : s.id = id(c)

Holders(r) == {c \in Call : RunOf[c] = r /\ pc[c] \in Slotted}

IInv ==
    /\ TypeOK
    /\ IsFiniteSet(ledger)
    /\ IdsUnique
    /\ \A c \in Call : RunsAlive(c) /\ AttemptsOK(c) /\ RefusedOK(c) /\ OpenOK(c)
    /\ \A r \in alive : IsFiniteSet(Holders(r))
    /\ LedgerCoversBills
    /\ HistoryAgrees
    /\ LimitsHold

-------------------------------------------------------------------------------
(* The sum of the ledger. *)

Won(e)   == {e} \X (1 .. charge(e))
Units(S) == UNION {Won(e) : e \in S}

(* An entry counts for a natural number of won. *)
LEMMA WonSize ==
  ASSUME NEW e \in Entry
  PROVE  charge(e) \in Nat /\ IsFiniteSet(Won(e)) /\ Cardinality(Won(e)) = charge(e)
  <1>1. charge(e) \in Nat
    BY DEF Entry, charge
  <1>2. IsFiniteSet(1 .. charge(e)) /\ Cardinality(1 .. charge(e)) = charge(e)
    BY <1>1, FS_Interval
  <1>3. IsFiniteSet({e}) /\ Cardinality({e}) = 1
    BY FS_Singleton
  <1> QED
    BY <1>1, <1>2, <1>3, FS_Product DEF Won

LEMMA UnitsFinite ==
  ASSUME NEW S \in SUBSET Entry, IsFiniteSet(S)
  PROVE  IsFiniteSet(Units(S))
  <1> DEFINE T == {Won(e) : e \in S}
             f == [e \in S |-> Won(e)]
  <1>1. f \in Surjection(S, T)
    BY DEF Surjection
  <1>2. IsFiniteSet(T)
    BY <1>1, FS_Surjection
  <1>3. \A U \in T : IsFiniteSet(U)
    BY WonSize
  <1> QED
    BY <1>2, <1>3, FS_UNION DEF Units

(* Another entry adds what it counts for. *)
LEMMA TotalAdd ==
  ASSUME NEW S \in SUBSET Entry, IsFiniteSet(S), NEW e \in Entry, e \notin S
  PROVE  total(S) \in Nat /\ total(S \cup {e}) = total(S) + charge(e)
  <1>1. IsFiniteSet(Units(S)) /\ IsFiniteSet(Won(e)) /\ Cardinality(Won(e)) = charge(e)
        /\ charge(e) \in Nat
    BY UnitsFinite, WonSize
  <1>2. Units(S \cup {e}) = Units(S) \cup Won(e)
    BY DEF Units
  <1>3. Units(S) \cap Won(e) = {}
    <2>1. ASSUME NEW u \in Units(S), u \in Won(e)
          PROVE  FALSE
      <3>1. PICK d \in S : u \in Won(d)
        BY DEF Units
      <3>2. u[1] = d /\ u[1] = e
        BY <2>1, <3>1 DEF Won
      <3> QED
        BY <3>2
    <2> QED
      BY <2>1
  <1>4. Cardinality(Units(S) \cap Won(e)) = 0
    BY <1>3, FS_EmptySet
  <1>5. Cardinality(Units(S) \cup Won(e)) = Cardinality(Units(S)) + charge(e)
    <2>1. Cardinality(Units(S) \cup Won(e)) =
              Cardinality(Units(S)) + Cardinality(Won(e)) - Cardinality(Units(S) \cap Won(e))
      BY <1>1, FS_Union
    <2>2. Cardinality(Units(S)) \in Nat
      BY <1>1, FS_CardinalityType
    <2> QED
      BY <1>1, <1>4, <2>1, <2>2
  <1>6. total(S) = Cardinality(Units(S)) /\ total(S \cup {e}) = Cardinality(Units(S \cup {e}))
    BY DEF total, Units, Won
  <1> QED
    BY <1>1, <1>2, <1>5, <1>6, FS_CardinalityType

LEMMA TotalType ==
  ASSUME NEW S \in SUBSET Entry, IsFiniteSet(S)
  PROVE  total(S) \in Nat
  <1>1. total(S) = Cardinality(Units(S))
    BY DEF total, Units, Won
  <1> QED
    BY <1>1, UnitsFinite, FS_CardinalityType

(* Replacing an entry changes the sum by the difference. *)
LEMMA TotalReplace ==
  ASSUME NEW S \in SUBSET Entry, IsFiniteSet(S), NEW e \in S, NEW d \in Entry,
         d \notin S \ {e}, charge(d) <= charge(e)
  PROVE  total((S \ {e}) \cup {d}) <= total(S)
  <1> DEFINE R == S \ {e}
  <1>1. R \in SUBSET Entry /\ IsFiniteSet(R) /\ e \in Entry /\ e \notin R /\ R \cup {e} = S
    BY FS_RemoveElement
  <1> HIDE DEF R
  <1>2. total(R \cup {d}) = total(R) + charge(d) /\ total(R) \in Nat
    BY <1>1, TotalAdd DEF R
  <1>3. total(S) = total(R) + charge(e)
    BY <1>1, TotalAdd
  <1>4. charge(d) \in Nat /\ charge(e) \in Nat
    BY <1>1, WonSize
  <1> QED
    BY <1>2, <1>3, <1>4 DEF R


-------------------------------------------------------------------------------

LEMMA InitInv ==
  ASSUME CallsAssumption, LimitsAssumption, Init
  PROVE  IInv
  <1>1. TypeOK
    BY DEF Init, TypeOK, CallsAssumption, LimitsAssumption, Phases
  <1>2. \A r \in Run : CallsOf(r, {}) = {}
    BY DEF CallsOf
  <1>3. UNION {{e} \X (1 .. charge(e)) : e \in {}} = {}
    OBVIOUS
  <1>4. SpendWithinLimit
    BY <1>3, FS_EmptySet DEF Init, SpendWithinLimit, total, LimitsAssumption
  <1>5. CallsWithinLimit
    BY <1>2, FS_EmptySet DEF Init, CallsWithinLimit, LimitsAssumption
  <1>6. IsFiniteSet(ledger) /\ alive = {}
    BY FS_EmptySet DEF Init
  <1>7. \A c \in Call : RunsAlive(c) /\ AttemptsOK(c) /\ RefusedOK(c) /\ OpenOK(c)
    BY DEF Init, RunsAlive, AttemptsOK, RefusedOK, OpenOK, Slotted, Open, Awaiting
  <1> QED
    BY <1>1, <1>4, <1>5, <1>6, <1>7
       DEF Init, IInv, IdsUnique, LedgerCoversBills, HistoryAgrees, Agrees,
           LimitsHold, SlotsConserved

(* A call that enters or leaves the semaphore takes or returns one slot of *)
(* its process, and the slots of every process add up as before.           *)
SlotMove(c, phase) ==
    \/ (phase \in Slotted <=> pc[c] \in Slotted) /\ free' = free
    \/ /\ pc[c] \in Slotted /\ phase \notin Slotted
       /\ free' = [free EXCEPT ![RunOf[c]] = @ + 1]
    \/ /\ pc[c] \notin Slotted /\ phase \in Slotted
       /\ free[RunOf[c]] > 0
       /\ free' = [free EXCEPT ![RunOf[c]] = @ - 1]

LEMMA SlotsMove ==
  ASSUME CallsAssumption, LimitsAssumption, IInv,
         NEW c \in Call, NEW phase \in Phases, RunOf[c] \in alive,
         Goto(c, phase), alive' = alive, SlotMove(c, phase)
  PROVE  /\ free' \in [Run -> Nat]
         /\ \A r \in alive' : IsFiniteSet(Holders(r)')
         /\ SlotsConserved'
  <1>1. /\ pc \in [Call -> Phases] /\ free \in [Run -> Nat] /\ alive \subseteq Run
        /\ \A r \in alive : IsFiniteSet(Holders(r))
                            /\ free[r] + Cardinality(Holders(r)) = Slots
    BY DEF IInv, TypeOK, LimitsHold, SlotsConserved, Holders
  <1>2. free' \in [Run -> Nat]
    BY <1>1 DEF SlotMove
  <1>3. ASSUME NEW r \in alive
        PROVE  IsFiniteSet(Holders(r)') /\ free'[r] + Cardinality(Holders(r)') = Slots
    <2>1. CASE RunOf[c] # r \/ (phase \in Slotted <=> pc[c] \in Slotted)
      <3>1. Holders(r)' = Holders(r)
        BY <1>1, <2>1 DEF Holders, Goto
      <3>2. free'[r] = free[r]
        BY <1>1, <2>1 DEF SlotMove
      <3> QED
        BY <1>1, <3>1, <3>2
    <2>2. CASE RunOf[c] = r /\ pc[c] \in Slotted /\ phase \notin Slotted
      <3>1. Holders(r)' = Holders(r) \ {c} /\ c \in Holders(r)
        BY <1>1, <2>2 DEF Holders, Goto
      <3>2. free'[r] = free[r] + 1
        BY <1>1, <2>2 DEF SlotMove
      <3>3. /\ IsFiniteSet(Holders(r)')
            /\ Cardinality(Holders(r)') = Cardinality(Holders(r)) - 1
        BY <1>1, <3>1, FS_RemoveElement
      <3>4. Cardinality(Holders(r)) \in Nat /\ free[r] \in Nat
        BY <1>1, FS_CardinalityType
      <3> QED
        BY <1>1, <3>2, <3>3, <3>4
    <2>3. CASE RunOf[c] = r /\ pc[c] \notin Slotted /\ phase \in Slotted
      <3>1. Holders(r)' = Holders(r) \cup {c} /\ c \notin Holders(r)
        BY <1>1, <2>3 DEF Holders, Goto
      <3>2. free'[r] = free[r] - 1
        BY <1>1, <2>3 DEF SlotMove
      <3>3. /\ IsFiniteSet(Holders(r)')
            /\ Cardinality(Holders(r)') = Cardinality(Holders(r)) + 1
        BY <1>1, <3>1, FS_AddElement
      <3>4. Cardinality(Holders(r)) \in Nat /\ free[r] \in Nat
        BY <1>1, FS_CardinalityType
      <3> QED
        BY <1>1, <3>2, <3>3, <3>4
    <2> QED
      BY <2>1, <2>2, <2>3
  <1> QED
    BY <1>2, <1>3 DEF SlotsConserved, Holders

(* A step that moves one call on, and may bring a history up to date, but  *)
(* touches no entry and no request.                                        *)
LEMMA QuietStep ==
  ASSUME CallsAssumption, LimitsAssumption, IInv,
         NEW c \in Call, NEW phase \in Phases, RunOf[c] \in alive,
         Goto(c, phase), alive' = alive, SlotMove(c, phase),
         UNCHANGED <<ledger, sent, attempt>>, lock' \subseteq Call,
         refused \subseteq refused', refused' \subseteq Ids,
         history' \in [Run -> SUBSET Entry],
         \A r \in Run : history'[r] \in {history[r], ledger},
         phase \in Unreserved => pc[c] \in Unreserved,
         phase \in Unsent => pc[c] \in Unsent,
         phase \in Open => pc[c] \in Open,
         phase \in Awaiting => pc[c] \in Awaiting,
         phase = "backoff" => id(c) \in refused'
  PROVE  IInv'
  <1>1. /\ free' \in [Run -> Nat]
        /\ \A r \in alive' : IsFiniteSet(Holders(r)')
        /\ SlotsConserved'
    BY SlotsMove
  <1>2. TypeOK'
    BY <1>1 DEF IInv, TypeOK, Goto
  <1>3. ASSUME NEW d \in Call
        PROVE  (RunsAlive(d) /\ AttemptsOK(d) /\ RefusedOK(d) /\ OpenOK(d))'
    <2>1. RunsAlive(d) /\ AttemptsOK(d) /\ RefusedOK(d) /\ OpenOK(d)
      BY DEF IInv
    <2>2. pc'[d] = IF d = c THEN phase ELSE pc[d]
      BY DEF IInv, TypeOK, Goto
    <2>3. id(d)' = id(d)
      BY DEF id
    <2>4. RunsAlive(d)'
      BY <2>1, <2>2 DEF RunsAlive
    <2>5. AttemptsOK(d)'
      BY <2>1, <2>2 DEF AttemptsOK
    <2>6. RefusedOK(d)'
      BY <2>1, <2>2, <2>3 DEF RefusedOK
    <2>7. OpenOK(d)'
      BY <2>1, <2>2, <2>3 DEF OpenOK
    <2> QED
      BY <2>4, <2>5, <2>6, <2>7
  <1>4. ASSUME NEW r \in Run
        PROVE  Agrees(ledger, history'[r])
    <2>1. Agrees(ledger, history[r])
      BY DEF IInv, HistoryAgrees
    <2>2. Agrees(ledger, ledger)
      BY DEF Agrees
    <2> QED
      BY <2>1, <2>2
  <1>5. HistoryAgrees'
    BY <1>4 DEF HistoryAgrees
  <1>6. (IsFiniteSet(ledger) /\ IdsUnique /\ LedgerCoversBills
         /\ SpendWithinLimit /\ CallsWithinLimit)'
    BY DEF IInv, IdsUnique, LedgerCoversBills, LimitsHold, SpendWithinLimit, CallsWithinLimit
  <1> QED
    BY <1>1, <1>2, <1>3, <1>5, <1>6 DEF IInv, LimitsHold

-------------------------------------------------------------------------------
(* The steps of the runs. *)

LEMMA LaunchInv ==
  ASSUME CallsAssumption, LimitsAssumption, IInv, NEW r \in Run, Launch(r)
  PROVE  IInv'
  <1>1. TypeOK'
    BY DEF IInv, TypeOK, Launch, LimitsAssumption
  <1>2. ASSUME NEW c \in Call
        PROVE  (RunsAlive(c) /\ AttemptsOK(c) /\ RefusedOK(c) /\ OpenOK(c))'
    BY DEF IInv, Launch, RunsAlive, AttemptsOK, RefusedOK, OpenOK, id
  <1>3. ASSUME NEW q \in Run
        PROVE  Agrees(ledger', history'[q])
    <2>1. Agrees(ledger, history[q]) /\ Agrees(ledger, ledger)
      BY DEF IInv, HistoryAgrees, Agrees
    <2>2. history'[q] \in {history[q], ledger} /\ ledger' = ledger
      BY DEF IInv, TypeOK, Launch
    <2> QED
      BY <2>1, <2>2
  <1>4. ASSUME NEW q \in alive'
        PROVE  IsFiniteSet(Holders(q)') /\ free'[q] + Cardinality(Holders(q)') = Slots
    <2>1. Holders(q)' = Holders(q)
      BY DEF Holders, Launch
    <2>2. CASE q = r
      <3>1. Holders(q) = {}
        BY <2>2 DEF IInv, Launch, RunsAlive, Holders
      <3>2. free'[q] = Slots
        BY <2>2 DEF IInv, TypeOK, Launch
      <3> QED
        BY <2>1, <3>1, <3>2, FS_EmptySet DEF LimitsAssumption
    <2>3. CASE q # r
      <3>1. q \in alive /\ free'[q] = free[q]
        BY <2>3 DEF IInv, TypeOK, Launch
      <3> QED
        BY <2>1, <3>1 DEF IInv, LimitsHold, SlotsConserved, Holders
    <2> QED
      BY <2>2, <2>3
  <1>5. (IsFiniteSet(ledger) /\ IdsUnique /\ LedgerCoversBills
         /\ SpendWithinLimit /\ CallsWithinLimit)'
    BY DEF Launch, IInv, IdsUnique, LedgerCoversBills, LimitsHold, SpendWithinLimit,
           CallsWithinLimit
  <1> QED
    BY <1>1, <1>2, <1>3, <1>4, <1>5
       DEF IInv, LimitsHold, SlotsConserved, Holders, HistoryAgrees

LEMMA CrashInv ==
  ASSUME CallsAssumption, LimitsAssumption, IInv, NEW r \in Run, Crash(r)
  PROVE  IInv'
  <1>1. \A c \in Call : pc'[c] = IF RunOf[c] = r /\ pc[c] \notin Ended \cup {"new"}
                                 THEN "dead" ELSE pc[c]
    BY DEF Crash
  <1>2. TypeOK'
    BY DEF IInv, TypeOK, Crash, Phases
  <1>3. ASSUME NEW c \in Call
        PROVE  (RunsAlive(c) /\ AttemptsOK(c) /\ RefusedOK(c) /\ OpenOK(c))'
    <2>1. RunsAlive(c) /\ AttemptsOK(c) /\ RefusedOK(c) /\ OpenOK(c)
      BY DEF IInv
    <2>2. pc'[c] = pc[c] \/ pc'[c] = "dead"
      BY <1>1
    <2>3. id(c)' = id(c)
      BY DEF id, Crash
    <2>4. RunsAlive(c)'
      BY <1>1, <2>1 DEF RunsAlive, Crash, Slotted, Ended
    <2>5. AttemptsOK(c)'
      BY <2>1, <2>2 DEF AttemptsOK, Crash, Unsent, Unreserved
    <2>6. RefusedOK(c)'
      BY <2>1, <2>2, <2>3 DEF RefusedOK, Crash
    <2>7. OpenOK(c)'
      BY <2>1, <2>2, <2>3 DEF OpenOK, Crash, Open, Awaiting
    <2> QED
      BY <2>4, <2>5, <2>6, <2>7
  <1>4. ASSUME NEW q \in alive'
        PROVE  IsFiniteSet(Holders(q)') /\ free'[q] + Cardinality(Holders(q)') = Slots
    <2>1. q # r /\ q \in alive /\ free' = free
      BY DEF Crash
    <2>2. Holders(q)' = Holders(q)
      BY <1>1, <2>1 DEF Holders
    <2> QED
      BY <2>1, <2>2 DEF IInv, LimitsHold, SlotsConserved, Holders
  <1>5. (IsFiniteSet(ledger) /\ IdsUnique /\ LedgerCoversBills /\ HistoryAgrees
         /\ SpendWithinLimit /\ CallsWithinLimit)'
    BY DEF Crash, IInv, IdsUnique, LedgerCoversBills, HistoryAgrees, LimitsHold,
           SpendWithinLimit, CallsWithinLimit
  <1> QED
    BY <1>2, <1>3, <1>4, <1>5 DEF IInv, LimitsHold, SlotsConserved, Holders

-------------------------------------------------------------------------------
(* The steps of a call that change no entry and send nothing. *)

LEMMA QuietInv ==
  ASSUME CallsAssumption, LimitsAssumption, IInv, NEW c \in Call,
         \/ Reuse(c) \/ Preflight(c) \/ Acquire(c) \/ WriteHistory(c)
         \/ Refuse(c) \/ Fail(c) \/ Answer(c) \/ Unsettled(c) \/ Receipt(c)
         \/ Reserve(c) /\ ~(Agrees(ledger, history[RunOf[c]]) /\ Affordable(c))
  PROVE  IInv'
  <1> USE DEF Release, SlotMove, Phases, Slotted, Unsent, Unreserved, Open, Awaiting
  <1>1. /\ pc[c] \in Phases /\ refused \subseteq Ids /\ lock \subseteq Call
        /\ history \in [Run -> SUBSET Entry] /\ ledger \subseteq Entry
        /\ RunsAlive(c) /\ c \in Call /\ RunOf[c] \in Run
    BY DEF IInv, TypeOK, CallsAssumption
  <1>2. /\ id(c) \in Ids
        /\ Agrees(ledger, ledger)
    BY DEF IInv, TypeOK, id, Ids, Agrees
  <1>3. CASE Reuse(c)
    BY <1>1, <1>3, QuietStep DEF Reuse
  <1>4. CASE Preflight(c)
    BY <1>1, <1>4, QuietStep DEF Preflight
  <1>5. CASE Acquire(c)
    BY <1>1, <1>5, QuietStep DEF Acquire, RunsAlive
  <1>6. CASE WriteHistory(c)
    <2>1. /\ history' \in [Run -> SUBSET Entry]
          /\ \A r \in Run : history'[r] \in {history[r], ledger}
          /\ lock' \subseteq Call /\ RunOf[c] \in alive
      BY <1>1, <1>6 DEF WriteHistory, RunsAlive
    <2> QED
      BY <1>1, <1>6, <2>1, QuietStep DEF WriteHistory
  <1>7. CASE Refuse(c)
    BY <1>1, <1>2, <1>7, QuietStep DEF Refuse, RunsAlive
  <1>8. CASE Fail(c)
    BY <1>1, <1>8, QuietStep DEF Fail, RunsAlive
  <1>9. CASE Answer(c)
    BY <1>1, <1>9, QuietStep DEF Answer, RunsAlive
  <1>10. CASE Unsettled(c)
    BY <1>1, <1>10, QuietStep DEF Unsettled, RunsAlive
  <1>11. CASE Receipt(c)
    BY <1>1, <1>11, QuietStep DEF Receipt, RunsAlive
  <1>12. CASE Reserve(c) /\ ~(Agrees(ledger, history[RunOf[c]]) /\ Affordable(c))
    BY <1>1, <1>12, QuietStep DEF Reserve, RunsAlive
  <1> QED
    BY <1>3, <1>4, <1>5, <1>6, <1>7, <1>8, <1>9, <1>10, <1>11, <1>12

-------------------------------------------------------------------------------
(* The steps of a call that change the ledger or what was sent. *)

(* Another call of the same ledger is not concerned by entries and         *)
(* requests of call c, nor by its phase and attempt.                       *)
LEMMA OthersKeep ==
  ASSUME IInv, NEW c \in Call, NEW d \in Call, d # c, alive' = alive,
         pc'[d] = pc[d], attempt'[d] = attempt[d], refused' = refused,
         \A e \in ledger' : e \in ledger \/ e.id.call = c,
         \A e \in ledger : e \in ledger' \/ e.id.call = c,
         \A s \in sent' : s \in sent \/ s.id.call = c,
         sent \subseteq sent'
  PROVE  (RunsAlive(d) /\ AttemptsOK(d) /\ RefusedOK(d) /\ OpenOK(d))'
  <1>1. RunsAlive(d) /\ AttemptsOK(d) /\ RefusedOK(d) /\ OpenOK(d)
    BY DEF IInv
  <1>2. id(d)' = id(d) /\ id(d).call = d
    BY DEF id
  <1>3. RunsAlive(d)'
    BY <1>1 DEF RunsAlive
  <1>4. AttemptsOK(d)'
    BY <1>1 DEF AttemptsOK
  <1>5. RefusedOK(d)'
    BY <1>1, <1>2 DEF RefusedOK
  <1>6. OpenOK(d)'
    BY <1>1, <1>2 DEF OpenOK
  <1> QED
    BY <1>3, <1>4, <1>5, <1>6

(* What a call has reserved or sent under its current attempt. *)
LEMMA IdOfCall ==
  ASSUME IInv, NEW c \in Call
  PROVE  /\ id(c) \in Ids /\ id(c).call = c /\ id(c).attempt = attempt[c] /\ attempt[c] \in Nat
         /\ \A i \in Ids : i.call = c /\ i.attempt = attempt[c] => i = id(c)
         /\ \A e \in ledger : e.id \in Ids
         /\ \A s \in sent : s.id \in Ids
  BY DEF IInv, TypeOK, id, Ids, Entry

LEMMA ReserveInv ==
  ASSUME CallsAssumption, LimitsAssumption, IInv, NEW c \in Call, Reserve(c),
         Affordable(c), Agrees(ledger, history[RunOf[c]])
  PROVE  IInv'
  <1> DEFINE e == [id |-> id(c), reserved |-> Price[c], state |-> "reserved", charged |-> 0]
  <1>1. /\ pc[c] = "slotted" /\ Goto(c, "reserving") /\ ledger' = ledger \cup {e}
        /\ lock' = {c} /\ UNCHANGED <<free, history, alive, attempt, sent, refused>>
    BY DEF Reserve
  <1>2. e \in Entry /\ e.id = id(c) /\ e.state = "reserved" /\ charge(e) = Price[c]
    BY IdOfCall DEF Entry, CallsAssumption, charge
  <1>3. \A d \in ledger : d.id # id(c)
    BY <1>1, IdOfCall DEF IInv, AttemptsOK, Unreserved
  <1>4. pc' = [pc EXCEPT ![c] = "reserving"] /\ "reserving" \in Phases
    BY <1>1 DEF Goto, Phases
  <1> HIDE DEF e
  <1>5. TypeOK'
    BY <1>1, <1>2, <1>4 DEF IInv, TypeOK
  <1>6. IsFiniteSet(ledger)'
    BY <1>1, FS_AddElement DEF IInv
  <1>7. IdsUnique'
    BY <1>1, <1>2, <1>3 DEF IInv, IdsUnique
  <1>8. ASSUME NEW d \in Call
        PROVE  (RunsAlive(d) /\ AttemptsOK(d) /\ RefusedOK(d) /\ OpenOK(d))'
    <2>1. CASE d # c
      BY <1>1, <1>2, <1>4, <2>1, IdOfCall, OthersKeep DEF IInv, TypeOK
    <2>2. CASE d = c
      <3>1. RunsAlive(c) /\ AttemptsOK(c) /\ RefusedOK(c)
        BY DEF IInv
      <3>2. pc'[c] = "reserving" /\ id(c)' = id(c)
        BY <1>1, <1>4 DEF IInv, TypeOK, id
      <3>3. RunsAlive(c)'
        BY <1>1, <3>1, <3>2 DEF RunsAlive, Slotted
      <3>4. AttemptsOK(c)'
        BY <1>1, <1>2, <3>1, <3>2, IdOfCall DEF AttemptsOK, Unsent, Unreserved
      <3>5. RefusedOK(c)'
        BY <1>1, <3>1, <3>2 DEF RefusedOK
      <3>6. OpenOK(c)'
        BY <1>1, <1>2, <3>2 DEF OpenOK, Open, Awaiting
      <3> QED
        BY <2>2, <3>3, <3>4, <3>5, <3>6
    <2> QED
      BY <2>1, <2>2
  <1>9. (\A r \in alive : IsFiniteSet(Holders(r)))' /\ SlotsConserved'
    <2>1. \A r : Holders(r)' = Holders(r)
      BY <1>1, <1>4 DEF Holders, Slotted, IInv, TypeOK
    <2> QED
      BY <1>1, <2>1 DEF IInv, LimitsHold, SlotsConserved, Holders
  <1>10. LedgerCoversBills'
    BY <1>1 DEF IInv, LedgerCoversBills
  <1>11. HistoryAgrees'
    BY <1>1 DEF IInv, HistoryAgrees, Agrees
  <1>12. SpendWithinLimit'
    <2>1. total(ledger') = total(ledger) + charge(e)
      BY <1>1, <1>2, <1>3, TotalAdd DEF IInv, TypeOK
    <2>2. total(ledger') <= SpendLimit
      BY <1>2, <2>1 DEF Affordable
    <2> QED
      BY <2>2 DEF SpendWithinLimit
  <1>13. CallsWithinLimit'
    <2>1. ASSUME NEW r \in Run
          PROVE  Cardinality(CallsOf(r, ledger')) <= CallLimit
      <3>1. IsFiniteSet(CallsOf(r, ledger)) /\ Cardinality(CallsOf(r, ledger)) <= CallLimit
        BY FS_Subset DEF CallsOf, IInv, LimitsHold, CallsWithinLimit
      <3>2. CASE r = RunOf[c]
        <4>1. CallsOf(r, ledger') = CallsOf(r, ledger) \cup {e} /\ e \notin CallsOf(r, ledger)
          BY <1>1, <1>2, <1>3, <3>2, IdOfCall DEF CallsOf
        <4>2. Cardinality(CallsOf(r, ledger')) = Cardinality(CallsOf(r, ledger)) + 1
          BY <3>1, <4>1, FS_AddElement
        <4>3. Cardinality(CallsOf(r, ledger)) < CallLimit
          BY <3>2 DEF Affordable
        <4> QED
          BY <3>1, <4>2, <4>3, FS_CardinalityType DEF LimitsAssumption
      <3>3. CASE r # RunOf[c]
        <4>1. CallsOf(r, ledger') = CallsOf(r, ledger)
          BY <1>1, <1>2, <3>3, IdOfCall DEF CallsOf
        <4> QED
          BY <3>1, <4>1
      <3> QED
        BY <3>2, <3>3
    <2> QED
      BY <2>1 DEF CallsWithinLimit
  <1> QED
    BY <1>5, <1>6, <1>7, <1>8, <1>9, <1>10, <1>11, <1>12, <1>13 DEF IInv, LimitsHold

LEMMA RetryInv ==
  ASSUME CallsAssumption, LimitsAssumption, IInv, NEW c \in Call, Retry(c)
  PROVE  IInv'
  <1>1. /\ pc[c] = "backoff" /\ pc' = [pc EXCEPT ![c] = "queued"]
        /\ attempt' = [attempt EXCEPT ![c] = @ + 1]
        /\ UNCHANGED <<ledger, history, lock, alive, free, sent, refused>>
    BY DEF Retry, Goto
  <1>2. TypeOK'
    BY <1>1 DEF IInv, TypeOK, Phases
  <1>3. ASSUME NEW d \in Call
        PROVE  (RunsAlive(d) /\ AttemptsOK(d) /\ RefusedOK(d) /\ OpenOK(d))'
    <2>1. CASE d # c
      <3>1. pc'[d] = pc[d] /\ attempt'[d] = attempt[d]
        BY <1>1, <2>1 DEF IInv, TypeOK
      <3> QED
        BY <1>1, <2>1, <3>1, OthersKeep
    <2>2. CASE d = c
      <3>1. RunsAlive(c) /\ AttemptsOK(c) /\ RefusedOK(c)
        BY DEF IInv
      <3>2. pc'[c] = "queued" /\ attempt'[c] = attempt[c] + 1 /\ attempt[c] \in Nat
        BY <1>1 DEF IInv, TypeOK
      <3>3. RunsAlive(c)'
        BY <1>1, <3>1, <3>2 DEF RunsAlive
      <3>4. \A e \in ledger : e.id.call = c =>
                e.id.attempt \in Nat /\ e.id.attempt <= attempt[c]
        BY <3>1, IdOfCall DEF AttemptsOK, Ids
      <3>5. \A s \in sent : s.id.call = c =>
                s.id.attempt \in Nat /\ s.id.attempt <= attempt[c]
        BY <3>1, IdOfCall DEF AttemptsOK, Ids
      <3>6. AttemptsOK(c)'
        BY <1>1, <3>2, <3>4, <3>5 DEF AttemptsOK
      <3>7. ASSUME NEW s \in sent, s.id.call = c
            PROVE  s.id \in refused
        <4>1. CASE s.id.attempt < attempt[c]
          BY <3>1, <3>7, <4>1 DEF RefusedOK
        <4>2. CASE s.id.attempt = attempt[c]
          BY <1>1, <3>1, <3>7, <4>2, IdOfCall DEF RefusedOK
        <4> QED
          BY <3>2, <3>5, <3>7, <4>1, <4>2
      <3>8. RefusedOK(c)'
        BY <1>1, <3>2, <3>7 DEF RefusedOK
      <3>9. OpenOK(c)'
        BY <3>2 DEF OpenOK, Open, Awaiting
      <3> QED
        BY <2>2, <3>3, <3>6, <3>8, <3>9
    <2> QED
      BY <2>1, <2>2
  <1>4. (\A r \in alive : IsFiniteSet(Holders(r)))' /\ SlotsConserved'
    <2>1. \A r : Holders(r)' = Holders(r)
      BY <1>1 DEF Holders, Slotted, IInv, TypeOK
    <2> QED
      BY <1>1, <2>1 DEF IInv, LimitsHold, SlotsConserved, Holders
  <1>5. (IsFiniteSet(ledger) /\ IdsUnique /\ LedgerCoversBills /\ HistoryAgrees
         /\ SpendWithinLimit /\ CallsWithinLimit)'
    BY <1>1 DEF IInv, IdsUnique, LedgerCoversBills, HistoryAgrees, LimitsHold,
                SpendWithinLimit, CallsWithinLimit
  <1> QED
    BY <1>2, <1>3, <1>4, <1>5 DEF IInv, LimitsHold

LEMMA SendInv ==
  ASSUME CallsAssumption, LimitsAssumption, IInv, NEW c \in Call, Send(c)
  PROVE  IInv'
  <1>1. PICK bill \in 0 .. MaxBill : sent' = sent \cup {[id |-> id(c), bill |-> bill]}
    BY DEF Send
  <1> DEFINE s == [id |-> id(c), bill |-> bill]
  <1>2. /\ pc[c] = "reserved" /\ pc' = [pc EXCEPT ![c] = "inflight"]
        /\ UNCHANGED <<ledger, history, lock, alive, attempt, free, refused>>
    BY DEF Send, Goto
  <1>3. /\ s \in [id : Ids, bill : Nat] /\ s.id = id(c) /\ s.bill = bill
        /\ sent' = sent \cup {s}
    BY <1>1, IdOfCall DEF CallsAssumption
  <1> HIDE DEF s
  <1>4. \A t \in sent : t.id # id(c)
    BY <1>2, IdOfCall DEF IInv, AttemptsOK, Unsent, Unreserved
  <1>5. TypeOK'
    BY <1>2, <1>3 DEF IInv, TypeOK, Phases
  <1>6. IdsUnique'
    BY <1>2, <1>3, <1>4 DEF IInv, IdsUnique
  <1>7. PICK e \in ledger : e.id = id(c) /\ e.state = "reserved"
    BY <1>2 DEF IInv, OpenOK, Open
  <1>8. ASSUME NEW d \in Call
        PROVE  (RunsAlive(d) /\ AttemptsOK(d) /\ RefusedOK(d) /\ OpenOK(d))'
    <2>1. CASE d # c
      <3>1. pc'[d] = pc[d] /\ attempt'[d] = attempt[d]
        BY <1>2, <2>1 DEF IInv, TypeOK
      <3> QED
        BY <1>2, <1>3, <2>1, <3>1, IdOfCall, OthersKeep
    <2>2. CASE d = c
      <3>1. RunsAlive(c) /\ AttemptsOK(c) /\ RefusedOK(c)
        BY DEF IInv
      <3>2. pc'[c] = "inflight" /\ id(c)' = id(c)
        BY <1>2 DEF IInv, TypeOK, id
      <3>3. RunsAlive(c)'
        BY <1>2, <3>1, <3>2 DEF RunsAlive, Slotted
      <3>4. AttemptsOK(c)'
        BY <1>2, <1>3, <3>1, <3>2, IdOfCall DEF AttemptsOK, Unsent, Unreserved
      <3>5. RefusedOK(c)'
        BY <1>2, <1>3, <3>1, <3>2, IdOfCall DEF RefusedOK
      <3>6. OpenOK(c)'
        BY <1>2, <1>3, <1>7, <3>2 DEF OpenOK
      <3> QED
        BY <2>2, <3>3, <3>4, <3>5, <3>6
    <2> QED
      BY <2>1, <2>2
  <1>9. (\A r \in alive : IsFiniteSet(Holders(r)))' /\ SlotsConserved'
    <2>1. \A r : Holders(r)' = Holders(r)
      BY <1>2 DEF Holders, Slotted, IInv, TypeOK
    <2> QED
      BY <1>2, <2>1 DEF IInv, LimitsHold, SlotsConserved, Holders
  <1>10. LedgerCoversBills'
    <2>1. charge(e) = e.reserved /\ e.reserved \in Nat /\ bill \in Nat
      BY <1>7 DEF charge, IInv, TypeOK, Entry, CallsAssumption
    <2>2. e.id = s.id /\ (s.bill <= charge(e) \/ (s.bill > e.reserved /\ e.state # "settled"))
      BY <1>3, <1>7, <2>1
    <2>3. LedgerCoversBills
      BY DEF IInv
    <2> QED
      BY <1>2, <1>3, <2>2, <2>3 DEF LedgerCoversBills
  <1>11. (IsFiniteSet(ledger) /\ HistoryAgrees /\ SpendWithinLimit /\ CallsWithinLimit)'
    BY <1>2 DEF IInv, HistoryAgrees, LimitsHold, SpendWithinLimit, CallsWithinLimit
  <1> QED
    BY <1>5, <1>6, <1>8, <1>9, <1>10, <1>11 DEF IInv, LimitsHold

(* The bill of the current attempt is the one that was sent. *)
LEMMA BillSent ==
  ASSUME IInv, NEW c \in Call, pc[c] \in Awaiting
  PROVE  Bill(c) \in Nat /\ \A s \in sent : s.id = id(c) => s.bill = Bill(c)
  <1>1. \E s \in sent : s.id = id(c)
    BY DEF IInv, OpenOK
  <1>2. \A s, t \in sent : s.id = t.id => s = t
    BY DEF IInv, IdsUnique
  <1>3. \A s \in sent : s.bill \in Nat
    BY DEF IInv, TypeOK
  <1> QED
    BY <1>1, <1>2, <1>3 DEF Bill

LEMMA SettleInv ==
  ASSUME CallsAssumption, LimitsAssumption, IInv, NEW c \in Call, Settle(c)
  PROVE  IInv'
  <1>1. PICK e \in ledger, over \in BOOLEAN :
            /\ e.id = id(c)
            /\ Bill(c) > e.reserved => over
            /\ ledger' = (ledger \ {e}) \cup {Settlement(e, Bill(c), over)}
            /\ Goto(c, IF over THEN "violating" ELSE "settling")
    BY DEF Settle
  <1> DEFINE v == Settlement(e, Bill(c), over)
             phase == IF over THEN "violating" ELSE "settling"
  <1>2. /\ pc[c] = "answered" /\ lock' = {c}
        /\ UNCHANGED <<history, alive, attempt, free, sent, refused>>
    BY DEF Settle
  <1>3. phase \in {"violating", "settling"} /\ pc' = [pc EXCEPT ![c] = phase]
        /\ ledger' = (ledger \ {e}) \cup {v}
    BY <1>1 DEF Goto
  <1>4. Bill(c) \in Nat /\ \A s \in sent : s.id = id(c) => s.bill = Bill(c)
    BY <1>2, BillSent DEF Awaiting
  <1>5. e \in Entry /\ e.state = "reserved" /\ charge(e) = e.reserved /\ e.reserved \in Nat
    BY <1>1, <1>2 DEF IInv, OpenOK, Open, IdsUnique, TypeOK, Entry, charge
  <1>6. /\ v \in Entry /\ v.id = id(c) /\ v.reserved = e.reserved /\ v.charged = Bill(c)
        /\ v.state = IF over THEN "limit_violation" ELSE "settled"
    BY <1>1, <1>4, <1>5 DEF Settlement, Entry
  <1>7. charge(v) = Bill(c)
    BY <1>6 DEF charge
  <1>8. \A d \in ledger : d.id = id(c) => d = e
    BY <1>1 DEF IInv, IdsUnique
  <1> HIDE DEF v, phase
  <1>9. TypeOK'
    BY <1>2, <1>3, <1>6 DEF IInv, TypeOK, Phases
  <1>10. IsFiniteSet(ledger)'
    BY <1>3, FS_AddElement, FS_RemoveElement DEF IInv
  <1>11. IdsUnique'
    BY <1>2, <1>3, <1>6, <1>8 DEF IInv, IdsUnique
  <1>12. ASSUME NEW d \in Call
         PROVE  (RunsAlive(d) /\ AttemptsOK(d) /\ RefusedOK(d) /\ OpenOK(d))'
    <2>1. CASE d # c
      <3>1. pc'[d] = pc[d] /\ attempt'[d] = attempt[d]
        BY <1>2, <1>3, <2>1 DEF IInv, TypeOK
      <3>2. \A f \in ledger' : f \in ledger \/ f.id.call = c
        BY <1>3, <1>6, IdOfCall
      <3>3. \A f \in ledger : f \in ledger' \/ f.id.call = c
        BY <1>1, <1>3, IdOfCall
      <3> QED
        BY <1>2, <2>1, <3>1, <3>2, <3>3, OthersKeep
    <2>2. CASE d = c
      <3>1. RunsAlive(c) /\ AttemptsOK(c) /\ RefusedOK(c)
        BY DEF IInv
      <3>2. pc'[c] = phase /\ id(c)' = id(c) /\ phase \notin Unsent \cup Open \cup {"backoff"}
        BY <1>2, <1>3 DEF IInv, TypeOK, id, Unsent, Unreserved, Open
      <3>3. RunsAlive(c)'
        BY <1>2, <3>1, <3>2 DEF RunsAlive, Slotted
      <3>4. AttemptsOK(c)'
        BY <1>2, <1>3, <1>6, <3>1, <3>2, IdOfCall DEF AttemptsOK, Unsent, Unreserved
      <3>5. RefusedOK(c)'
        BY <1>2, <3>1, <3>2 DEF RefusedOK
      <3>6. OpenOK(c)'
        BY <3>2 DEF OpenOK, Open, Awaiting
      <3> QED
        BY <2>2, <3>3, <3>4, <3>5, <3>6
    <2> QED
      BY <2>1, <2>2
  <1>13. (\A r \in alive : IsFiniteSet(Holders(r)))' /\ SlotsConserved'
    <2>1. \A r : Holders(r)' = Holders(r)
      BY <1>2, <1>3 DEF Holders, Slotted, IInv, TypeOK
    <2> QED
      BY <1>2, <2>1 DEF IInv, LimitsHold, SlotsConserved, Holders
  <1>14. LedgerCoversBills'
    <2>1. ASSUME NEW s \in sent
          PROVE  \E d \in ledger' :
                     /\ d.id = s.id
                     /\ s.bill <= charge(d) \/ (s.bill > d.reserved /\ d.state # "settled")
      <3>1. CASE s.id = id(c)
        <4>1. s.bill <= charge(v) /\ v \in ledger'
          BY <1>3, <1>4, <1>7, <3>1
        <4> QED
          BY <1>6, <3>1, <4>1
      <3>2. CASE s.id # id(c)
        <4>1. PICK d \in ledger :
                  /\ d.id = s.id
                  /\ s.bill <= charge(d) \/ (s.bill > d.reserved /\ d.state # "settled")
          BY DEF IInv, LedgerCoversBills
        <4>2. d \in ledger'
          BY <1>1, <1>3, <3>2, <4>1
        <4> QED
          BY <4>1, <4>2
      <3> QED
        BY <3>1, <3>2
    <2> QED
      BY <1>2, <2>1 DEF LedgerCoversBills
  <1>15. HistoryAgrees'
    <2>1. ASSUME NEW r \in Run, NEW h \in history[r]
          PROVE  \E d \in ledger' :
                     /\ d.id = h.id /\ d.reserved = h.reserved
                     /\ h.state # "reserved" => d = h
      <3>1. PICK d \in ledger : /\ d.id = h.id /\ d.reserved = h.reserved
                                /\ h.state # "reserved" => d = h
        BY DEF IInv, HistoryAgrees, Agrees
      <3>2. CASE d = e
        BY <1>1, <1>3, <1>5, <1>6, <3>1, <3>2
      <3>3. CASE d # e
        BY <1>3, <3>1, <3>3
      <3> QED
        BY <3>2, <3>3
    <2> QED
      BY <1>2, <2>1 DEF HistoryAgrees, Agrees
  <1>16. SpendWithinLimit'
    <2>1. CASE over
      BY <1>3, <1>6, <2>1 DEF SpendWithinLimit, Violation
    <2>2. CASE ~over
      <3>1. charge(v) <= charge(e)
        BY <1>1, <1>4, <1>5, <1>7, <2>2
      <3>2. v \notin ledger \ {e}
        BY <1>6, <1>8
      <3>3. total(ledger') <= total(ledger) /\ total(ledger) \in Nat /\ total(ledger') \in Nat
        <4>1. ledger \in SUBSET Entry /\ IsFiniteSet(ledger)
          BY DEF IInv, TypeOK
        <4>2. total(ledger') <= total(ledger)
          BY <1>3, <1>6, <3>1, <3>2, <4>1, TotalReplace
        <4> QED
          BY <1>9, <1>10, <4>1, <4>2, TotalType DEF TypeOK
      <3>4. Violation(ledger) => Violation(ledger')
        BY <1>3, <1>5 DEF Violation
      <3> QED
        BY <3>3, <3>4 DEF IInv, LimitsHold, SpendWithinLimit, LimitsAssumption
    <2> QED
      BY <2>1, <2>2
  <1>17. CallsWithinLimit'
    <2>1. ASSUME NEW r \in Run
          PROVE  Cardinality(CallsOf(r, ledger')) <= CallLimit
      <3>1. IsFiniteSet(CallsOf(r, ledger)) /\ Cardinality(CallsOf(r, ledger)) <= CallLimit
        BY FS_Subset DEF CallsOf, IInv, LimitsHold, CallsWithinLimit
      <3>2. CASE r = RunOf[c]
        <4> DEFINE R == CallsOf(r, ledger) \ {e}
        <4>1. CallsOf(r, ledger') = R \cup {v} /\ v \notin R /\ e \in CallsOf(r, ledger)
          BY <1>1, <1>3, <1>6, <1>8, <3>2, IdOfCall DEF CallsOf
        <4>2. IsFiniteSet(R) /\ Cardinality(R) = Cardinality(CallsOf(r, ledger)) - 1
          BY <3>1, <4>1, FS_RemoveElement
        <4> HIDE DEF R
        <4>3. Cardinality(R \cup {v}) = Cardinality(R) + 1
          BY <4>1, <4>2, FS_AddElement
        <4> QED
          BY <3>1, <4>1, <4>2, <4>3, FS_CardinalityType
      <3>3. CASE r # RunOf[c]
        <4>1. CallsOf(r, ledger') = CallsOf(r, ledger)
          BY <1>1, <1>3, <1>6, <3>3, IdOfCall DEF CallsOf
        <4> QED
          BY <3>1, <4>1
      <3> QED
        BY <3>2, <3>3
    <2> QED
      BY <2>1 DEF CallsWithinLimit
  <1> QED
    BY <1>9, <1>10, <1>11, <1>12, <1>13, <1>14, <1>15, <1>16, <1>17 DEF IInv, LimitsHold

-------------------------------------------------------------------------------

LEMMA StepInv ==
  ASSUME CallsAssumption, LimitsAssumption, IInv, [Next]_vars
  PROVE  IInv'
  <1>1. CASE UNCHANGED vars
    BY <1>1 DEF vars, IInv, TypeOK, IdsUnique, RunsAlive, AttemptsOK, RefusedOK, OpenOK, id,
                Holders, LedgerCoversBills, HistoryAgrees, LimitsHold, SpendWithinLimit,
                CallsWithinLimit, SlotsConserved
  <1>2. ASSUME NEW r \in Run, Launch(r) \/ Crash(r)
        PROVE  IInv'
    BY <1>2, LaunchInv, CrashInv
  <1>3. ASSUME NEW c \in Call, Reuse(c) \/ Preflight(c) \/ Thread(c)
        PROVE  IInv'
    <2>1. CASE Reserve(c)
      BY <2>1, QuietInv, ReserveInv
    <2>2. CASE Reuse(c) \/ Preflight(c) \/ Acquire(c) \/ WriteHistory(c) \/ Refuse(c)
               \/ Fail(c) \/ Answer(c) \/ Unsettled(c) \/ Receipt(c)
      BY <2>2, QuietInv
    <2>3. CASE Retry(c)
      BY <2>3, RetryInv
    <2>4. CASE Send(c)
      BY <2>4, SendInv
    <2>5. CASE Settle(c)
      BY <2>5, SettleInv
    <2> QED
      BY <1>3, <2>1, <2>2, <2>3, <2>4, <2>5 DEF Thread
  <1> QED
    BY <1>1, <1>2, <1>3 DEF Next

-------------------------------------------------------------------------------
(* The results. *)

(* Every state of the paid calls satisfies the inductive invariant. *)
THEOREM Invariance == Spec => []IInv
  <1>1. Init => IInv
    BY InitInv, CallsAssumption, LimitsAssumption
  <1>2. IInv /\ [Next]_vars => IInv'
    BY StepInv, CallsAssumption, LimitsAssumption
  <1> QED
    BY <1>1, <1>2, PTL DEF Spec

(* The variables keep their types: in particular no slot count is negative *)
(* and the ledger holds well-formed entries only.                          *)
THEOREM TypeCorrect == Spec => []TypeOK
  <1>1. IInv => TypeOK
    BY DEF IInv
  <1> QED
    BY <1>1, Invariance, PTL

(* Whatever crashes, times out or is answered without usage, every request *)
(* that reached the provider is covered by an entry of the ledger.         *)
THEOREM BillsCovered == Spec => []LedgerCoversBills
  <1>1. IInv => LedgerCoversBills
    BY DEF IInv
  <1> QED
    BY <1>1, Invariance, PTL

(* The project's spending limit, the call limit of a run and the slots of  *)
(* a process hold for any number of concurrent processes and threads.      *)
THEOREM LimitsCorrect == Spec => []LimitsHold
  <1>1. IInv => LimitsHold
    BY DEF IInv
  <1> QED
    BY <1>1, Invariance, PTL

(* No crash or interleaving of the two file writes makes the history of a  *)
(* run contradict the ledger: a run is never locked out by the check.      *)
THEOREM HistoryCorrect == Spec => []HistoryAgrees
  <1>1. IInv => HistoryAgrees
    BY DEF IInv
  <1> QED
    BY <1>1, Invariance, PTL

(* A call sends another request only after the provider refused the        *)
(* previous ones.                                                          *)
THEOREM RepeatsCorrect == Spec => []OnlyRefusedIsRepeated
  <1>1. ASSUME IInv
        PROVE  OnlyRefusedIsRepeated
    <2>1. ASSUME NEW s \in sent, NEW t \in sent,
                 s.id.call = t.id.call, s.id.attempt < t.id.attempt
          PROVE  s.id \in refused
      <3> DEFINE c == s.id.call
      <3>1. s.id \in Ids /\ t.id \in Ids
        BY <1>1 DEF IInv, TypeOK
      <3>2. c \in Call /\ s.id.attempt \in Nat /\ t.id.attempt \in Nat
        BY <3>1 DEF Ids
      <3>3. AttemptsOK(c) /\ RefusedOK(c) /\ attempt[c] \in Nat
        BY <1>1, <3>2 DEF IInv, TypeOK
      <3>4. t.id.attempt <= attempt[c]
        BY <2>1, <3>3 DEF AttemptsOK
      <3>5. s.id.attempt < attempt[c]
        BY <2>1, <3>2, <3>3, <3>4
      <3> QED
        BY <3>3, <3>5 DEF RefusedOK
    <2> QED
      BY <2>1 DEF OnlyRefusedIsRepeated
  <1> QED
    BY <1>1, Invariance, PTL

(* Once a usage violation is on record no step of any process reserves for *)
(* a request, nor removes a reservation.                                   *)
THEOREM ViolationCorrect == Spec => ViolationStopsReservations
  <1>1. ASSUME IInv, [Next]_vars, Violation(ledger)
        PROVE  {e.id : e \in ledger'} = {e.id : e \in ledger}
    <2>1. CASE ledger' = ledger
      BY <2>1
    <2>2. ASSUME NEW c \in Call, Reserve(c), Affordable(c)
          PROVE  FALSE
      BY <1>1, <2>2 DEF Affordable
    <2>3. ASSUME NEW c \in Call, Settle(c)
          PROVE  {e.id : e \in ledger'} = {e.id : e \in ledger}
      <3>1. PICK e \in ledger, over \in BOOLEAN :
                ledger' = (ledger \ {e}) \cup {Settlement(e, Bill(c), over)}
        BY <2>3 DEF Settle
      <3>2. Settlement(e, Bill(c), over).id = e.id
        BY <1>1 DEF Settlement, IInv, TypeOK, Entry
      <3> QED
        BY <3>1, <3>2
    <2>4. \/ ledger' = ledger
          \/ \E c \in Call : Reserve(c) /\ Affordable(c)
          \/ \E c \in Call : Settle(c)
      BY <1>1 DEF Next, Thread, vars, Launch, Crash, Reuse, Preflight, Acquire, Reserve,
                  WriteHistory, Send, Refuse, Retry, Fail, Answer, Unsettled, Receipt
    <2> QED
      BY <2>1, <2>2, <2>3, <2>4
  <1>2. IInv /\ [Next]_vars
            => [Violation(ledger) => {e.id : e \in ledger'} = {e.id : e \in ledger}]_vars
    BY <1>1
  <1> QED
    BY <1>2, Invariance, PTL DEF Spec, ViolationStopsReservations

===============================================================================
