-------------------------------- MODULE Gateway -------------------------------
(***************************************************************************)
(* Paid model calls: Gateway.generate of rag/llm.py on the cross-process   *)
(* ledger of rag/budget.py.  Runs are processes that share one ledger file *)
(* and keep their own history copy of it; calls are generate() invocations *)
(* by the threads of a run.  A run may crash at any step.                  *)
(*                                                                         *)
(* A request to the provider is one attempt of a call.  Its reservation    *)
(* costs Price[c], the cost of the token limits of the call; what the      *)
(* provider will bill for it is decided when it is sent and is at most     *)
(* MaxBill, so a provider that ignores the limits is included.             *)
(***************************************************************************)
EXTENDS Integers, FiniteSets

CONSTANTS
    Run,            \* processes, each with its own run_id
    Call,           \* generate() invocations
    RunOf,          \* the run whose thread makes the call
    Price,          \* cost(limit_in, limit_out) of the call
    MaxBill,        \* the largest amount the provider may bill for a request
    Cached,         \* calls whose completed receipt an earlier run left
    Slots,          \* RAG_MAX_CONCURRENCY
    Retries,        \* OPENAI_MAX_RETRIES
    CallLimit,      \* RAG_MAX_API_CALLS_PER_RUN
    SpendLimit      \* PROJECT_SPEND_LIMIT_KRW

ASSUME CallsAssumption ==
    /\ RunOf \in [Call -> Run]
    /\ Price \in [Call -> Nat]
    /\ MaxBill \in Nat
    /\ Cached \subseteq Call

ASSUME LimitsAssumption ==
    /\ Slots \in Nat \ {0}
    /\ Retries \in Nat
    /\ CallLimit \in Nat
    /\ SpendLimit \in Nat

VARIABLES
    ledger,     \* the entries of usage.json
    history,    \* the entries of each run's history file
    lock,       \* the call that holds the ledger lock, if any
    alive,      \* the runs whose process is executing
    pc,         \* where each call is
    attempt,    \* the attempt each call is at
    free,       \* free generation slots of each run's process
    sent,       \* history: requests that reached the provider, and their bill
    refused     \* history: requests the provider answered with HTTP 429

vars == <<ledger, history, lock, alive, pc, attempt, free, sent, refused>>

Phases ==
    {"new", "queued", "slotted", "reserving", "reserved", "inflight",
     "answered", "settling", "violating", "settled", "backoff",
     "returned", "raised", "dead"}

Ended == {"returned", "raised", "dead"}

(* Phases in which a thread is inside the semaphore's with block. *)
Slotted ==
    {"slotted", "reserving", "reserved", "inflight", "answered", "settling",
     "violating", "settled"}

Ids   == [call : Call, attempt : Nat]
Entry == [id : Ids, reserved : Nat,
          state : {"reserved", "settled", "limit_violation"}, charged : Nat]

id(c) == [call |-> c, attempt |-> attempt[c]]

(* What an entry counts for: its reservation until usage is known. *)
charge(e) == IF e.state = "reserved" THEN e.reserved ELSE e.charged

(* The sum of the charges: the number of the won that are counted. *)
total(entries) == Cardinality(UNION {{e} \X (1 .. charge(e)) : e \in entries})

Violation(entries) == \E e \in entries : e.state = "limit_violation"

CallsOf(r, entries) == {e \in entries : RunOf[e.id.call] = r}

(* _validate_history: entries are never removed, the fields fixed at       *)
(* reservation never change, and a settled entry never changes.            *)
Agrees(current, previous) ==
    \A e \in previous : \E v \in current :
        /\ v.id = e.id /\ v.reserved = e.reserved
        /\ e.state # "reserved" => v = e

-------------------------------------------------------------------------------
(* Runs. *)

(* Variant: the ledger is reset when a run is launched. *)
LaunchReset(r) ==
    /\ r \notin alive /\ lock = {}
    /\ alive' = alive \cup {r}
    /\ ledger' = {}
    /\ history' = [history EXCEPT ![r] = {}]
    /\ free' = [free EXCEPT ![r] = Slots]
    /\ UNCHANGED <<lock, pc, attempt, sent, refused>>

(* bind_history under the ledger lock, when a run starts or resumes. *)
Launch(r) ==
    /\ r \notin alive
    /\ lock = {}
    /\ Agrees(ledger, history[r])
    /\ alive' = alive \cup {r}
    /\ history' = [history EXCEPT ![r] = ledger]
    /\ free' = [free EXCEPT ![r] = Slots]
    /\ UNCHANGED <<ledger, lock, pc, attempt, sent, refused>>

(* The process dies with its threads; the system releases its locks. *)
Crash(r) ==
    /\ r \in alive
    /\ alive' = alive \ {r}
    /\ lock' = {c \in lock : RunOf[c] # r}
    /\ pc' = [c \in Call |->
                IF RunOf[c] = r /\ pc[c] \notin Ended \cup {"new"} THEN "dead"
                                                                  ELSE pc[c]]
    /\ UNCHANGED <<ledger, history, attempt, free, sent, refused>>

-------------------------------------------------------------------------------
(* One call. *)

Goto(c, phase) == pc' = [pc EXCEPT ![c] = phase]

(* Variant: the slot is not given back when the call raises. *)
ReleaseOnSuccess(c, phase) ==
    /\ Goto(c, phase)
    /\ free' = [free EXCEPT ![RunOf[c]] = IF phase = "raised" THEN @ ELSE @ + 1]

(* Leave the semaphore's with block for the given phase. *)
Release(c, phase) ==
    /\ Goto(c, phase)
    /\ free' = [free EXCEPT ![RunOf[c]] = @ + 1]

(* A completed receipt with this request hash is reused without a request. *)
Reuse(c) ==
    /\ pc[c] = "new" /\ RunOf[c] \in alive
    /\ c \in Cached
    /\ Goto(c, "returned")
    /\ UNCHANGED <<ledger, history, lock, alive, attempt, free, sent, refused>>

(* preflight: the exact input count fits, or the call ends unsent. *)
Preflight(c) ==
    /\ pc[c] = "new" /\ RunOf[c] \in alive
    /\ c \notin Cached
    /\ \/ Goto(c, "queued")
       \/ Goto(c, "raised")
    /\ UNCHANGED <<ledger, history, lock, alive, attempt, free, sent, refused>>

(* The semaphore of the run's process. *)
Acquire(c) ==
    /\ pc[c] = "queued" /\ free[RunOf[c]] > 0
    /\ Goto(c, "slotted")
    /\ free' = [free EXCEPT ![RunOf[c]] = @ - 1]
    /\ UNCHANGED <<ledger, history, lock, alive, attempt, sent, refused>>

(* Variants: only settled calls count; a violation does not block. *)
AffordableCountingSettled(c) ==
    /\ ~Violation(ledger)
    /\ Cardinality({e \in CallsOf(RunOf[c], ledger) : e.state = "settled"}) < CallLimit
    /\ total(ledger) + Price[c] <= SpendLimit

AffordableAfterViolation(c) ==
    /\ Cardinality(CallsOf(RunOf[c], ledger)) < CallLimit
    /\ total(ledger) + Price[c] <= SpendLimit

(* The checks of Budget.reserve, each of them under the ledger lock. *)
Affordable(c) ==
    /\ ~Violation(ledger)
    /\ Cardinality(CallsOf(RunOf[c], ledger)) < CallLimit
    /\ total(ledger) + Price[c] <= SpendLimit

(* Budget.reserve: an entry is appended and the ledger file replaced, with *)
(* the lock still held; or BudgetExceeded is raised and nothing written.   *)
Reserve(c) ==
    /\ pc[c] = "slotted" /\ lock = {}
    /\ IF Agrees(ledger, history[RunOf[c]]) /\ Affordable(c)
       THEN /\ ledger' = ledger \cup {[id |-> id(c), reserved |-> Price[c],
                                       state |-> "reserved", charged |-> 0]}
            /\ lock' = {c}
            /\ Goto(c, "reserving")
            /\ UNCHANGED free
       ELSE /\ Release(c, "raised")
            /\ UNCHANGED <<ledger, lock>>
    /\ UNCHANGED <<history, alive, attempt, sent, refused>>

(* locked: the history file is written after the ledger, then the lock is  *)
(* released; a call is sent, or a settlement accepted, only after that.    *)
WriteHistory(c) ==
    /\ lock = {c}
    /\ history' = [history EXCEPT ![RunOf[c]] = ledger]
    /\ lock' = {}
    /\ \/ /\ pc[c] = "reserving"
          /\ Goto(c, "reserved")
          /\ UNCHANGED free
       \/ /\ pc[c] = "settling"
          /\ Goto(c, "settled")
          /\ UNCHANGED free
       \/ /\ pc[c] = "violating"
          /\ Release(c, "raised")
    /\ UNCHANGED <<ledger, alive, attempt, sent, refused>>

Send(c) ==
    /\ pc[c] = "reserved"
    /\ \E bill \in 0 .. MaxBill : sent' = sent \cup {[id |-> id(c), bill |-> bill]}
    /\ Goto(c, "inflight")
    /\ UNCHANGED <<ledger, history, lock, alive, attempt, free, refused>>

Bill(c) == (CHOOSE s \in sent : s.id = id(c)).bill

(* Only HTTP 429 is retried, after a pause outside the semaphore and with  *)
(* a new reservation; the old one is retained.                             *)
Refuse(c) ==
    /\ pc[c] = "inflight" /\ Bill(c) = 0
    /\ refused' = refused \cup {id(c)}
    /\ Release(c, IF attempt[c] < Retries THEN "backoff" ELSE "raised")
    /\ UNCHANGED <<ledger, history, lock, alive, attempt, sent>>

Retry(c) ==
    /\ pc[c] = "backoff"
    /\ attempt' = [attempt EXCEPT ![c] = @ + 1]
    /\ Goto(c, "queued")
    /\ UNCHANGED <<ledger, history, lock, alive, free, sent, refused>>

(* Variant: transport failures are retried like a refusal. *)
FailAndRetry(c) ==
    /\ pc[c] = "inflight"
    /\ Release(c, IF attempt[c] < Retries THEN "backoff" ELSE "raised")
    /\ UNCHANGED <<ledger, history, lock, alive, attempt, sent, refused>>

(* A timeout, a transport failure or a server error: the reservation is    *)
(* retained, and the provider may still generate and bill.                 *)
Fail(c) ==
    /\ pc[c] = "inflight"
    /\ Release(c, "raised")
    /\ UNCHANGED <<ledger, history, lock, alive, attempt, sent, refused>>

Answer(c) ==
    /\ pc[c] = "inflight"
    /\ Goto(c, "answered")
    /\ UNCHANGED <<ledger, history, lock, alive, attempt, free, sent, refused>>

(* Variant: the entry records the correction of its reservation. *)
SettlementDifference(e, bill, over) ==
    [e EXCEPT !.state = IF over THEN "limit_violation" ELSE "settled",
              !.charged = bill - e.reserved]

(* The entry that settle writes; over: a token limit was exceeded. *)
Settlement(e, bill, over) ==
    [e EXCEPT !.state = IF over THEN "limit_violation" ELSE "settled",
              !.charged = bill]

(* Budget.settle with usable usage data.  A bill above the reservation     *)
(* means that at least one of the two token limits was exceeded.           *)
Settle(c) ==
    /\ pc[c] = "answered" /\ lock = {}
    /\ Agrees(ledger, history[RunOf[c]])
    /\ \E e \in ledger : \E over \in BOOLEAN :
          /\ e.id = id(c)
          /\ Bill(c) > e.reserved => over
          /\ ledger' = (ledger \ {e}) \cup {Settlement(e, Bill(c), over)}
          /\ Goto(c, IF over THEN "violating" ELSE "settling")
    /\ lock' = {c}
    /\ UNCHANGED <<history, alive, attempt, free, sent, refused>>

(* Variant: an answer without usage gives its reservation back. *)
UnsettledRefund(c) ==
    /\ pc[c] = "answered" /\ lock = {}
    /\ Release(c, "raised")
    /\ ledger' = {e \in ledger : e.id # id(c)}
    /\ UNCHANGED <<history, lock, alive, attempt, sent, refused>>

(* Missing or invalid usage, or another processing tier: settle raises     *)
(* inside the lock, so the ledger file keeps the full reservation.         *)
Unsettled(c) ==
    /\ pc[c] = "answered" /\ lock = {}
    /\ Release(c, "raised")
    /\ UNCHANGED <<ledger, history, lock, alive, attempt, sent, refused>>

(* The receipt is written; an incomplete generation is an error. *)
Receipt(c) ==
    /\ pc[c] = "settled"
    /\ \/ Release(c, "returned")
       \/ Release(c, "raised")
    /\ UNCHANGED <<ledger, history, lock, alive, attempt, sent, refused>>

-------------------------------------------------------------------------------

Init ==
    /\ ledger = {}
    /\ history = [r \in Run |-> {}]
    /\ lock = {}
    /\ alive = {}
    /\ pc = [c \in Call |-> "new"]
    /\ attempt = [c \in Call |-> 0]
    /\ free = [r \in Run |-> Slots]
    /\ sent = {}
    /\ refused = {}

(* The steps of a thread once its call was made, the provider's included. *)
Thread(c) ==
    \/ Acquire(c) \/ Reserve(c) \/ WriteHistory(c) \/ Send(c)
    \/ Refuse(c) \/ Retry(c) \/ Fail(c) \/ Answer(c)
    \/ Settle(c) \/ Unsettled(c) \/ Receipt(c)

Next ==
    \/ \E r \in Run : Launch(r) \/ Crash(r)
    \/ \E c \in Call : Reuse(c) \/ Preflight(c) \/ Thread(c)

Spec == Init /\ [][Next]_vars

(* Threads are scheduled, the provider client has a timeout, and flock and *)
(* the semaphore are only held across steps that end.                      *)
FairSpec == Spec /\ \A c \in Call : WF_vars(Thread(c))

-------------------------------------------------------------------------------
(* Properties. *)

TypeOK ==
    /\ ledger \subseteq Entry
    /\ history \in [Run -> SUBSET Entry]
    /\ lock \subseteq Call
    /\ alive \subseteq Run
    /\ pc \in [Call -> Phases]
    /\ attempt \in [Call -> Nat]
    /\ free \in [Run -> Nat]
    /\ sent \subseteq [id : Ids, bill : Nat]
    /\ refused \subseteq Ids

(* The ledger covers the provider's bill, after any crash, timeout, retry  *)
(* or missing usage: every request that reached the provider was reserved  *)
(* first, and its entry counts for at least what it is billed, unless the  *)
(* provider overran the reservation of that request.                       *)
LedgerCoversBills ==
    \A s \in sent : \E e \in ledger :
        /\ e.id = s.id
        /\ s.bill <= charge(e) \/ (s.bill > e.reserved /\ e.state # "settled")

(* Concurrent reservations by threads and processes never take the project *)
(* over its spending limit: what the ledger counts stays within it as long *)
(* as no provider usage violation is on record.                            *)
SpendWithinLimit == ~Violation(ledger) => total(ledger) <= SpendLimit

(* The per-run call limit counts every reservation, refused, failed and    *)
(* crashed ones included, over all restarts of the run.                    *)
CallsWithinLimit ==
    \A r \in Run : Cardinality(CallsOf(r, ledger)) <= CallLimit

(* The history check of locked() never rejects an honest ledger: a crash   *)
(* between the two file writes, or another run's later settlements, leave  *)
(* a history that is shorter or older, never contradictory.                *)
HistoryAgrees == \A r \in Run : Agrees(ledger, history[r])

(* Nothing is sent twice unless the provider refused it: of the requests   *)
(* of one call, all but the latest were answered with HTTP 429, so at most *)
(* one of them can be generating and billed.                               *)
OnlyRefusedIsRepeated ==
    \A s, t \in sent :
        s.id.call = t.id.call /\ s.id.attempt < t.id.attempt => s.id \in refused

(* Every way out of the with block gives its slot back, also errors of     *)
(* reserve and settle: slots are neither lost nor duplicated.              *)
SlotsConserved ==
    \A r \in alive :
        free[r] + Cardinality({c \in Call : RunOf[c] = r /\ pc[c] \in Slotted}) = Slots

(* After a usage violation is on record no run reserves anything, whatever *)
(* its threads had already checked.                                        *)
ViolationStopsReservations ==
    [][Violation(ledger) => {e.id : e \in ledger'} = {e.id : e \in ledger}]_vars

(* Every call that was made ends with a text or an error, or dies with its *)
(* process: slots, the ledger lock and the retries cannot block it.        *)
CallsEnd == \A c \in Call : pc[c] = "queued" ~> pc[c] \in Ended

(* The limits of a run hold: what it may spend, how often it may call, and *)
(* how many of its calls are under way.                                    *)
LimitsHold == SpendWithinLimit /\ CallsWithinLimit /\ SlotsConserved

===============================================================================
