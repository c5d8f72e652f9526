------------------------------ MODULE Preflight -------------------------------
(***************************************************************************)
(* Gateway.preflight of rag/llm.py as the threads of a run use it: every   *)
(* request is counted exactly by the provider before it may be generated,  *)
(* identical payloads are counted once, under a lock of their own, and a   *)
(* count is accepted only if it leaves room for what may follow it.        *)
(*                                                                         *)
(* A thread executes a program of steps: "plan" is a preflight with a      *)
(* reserve, "generate" a generate() call, which preflights with reserve 0  *)
(* and then sends.  A preflight that raises ends the program.  Slots,      *)
(* reservation and the answer are module Gateway.                          *)
(***************************************************************************)
EXTENDS Integers, Sequences

CONSTANTS
    Thread,
    Payload,
    Program,    \* per thread, a sequence of [payload, reserve, send]
    Tokens,     \* per payload, the exact count the provider gives
    Limit,      \* LLM_MAX_INPUT_TOKENS less PROTOCOL_MARGIN
    Reusable,   \* payloads with a completed receipt of an earlier run
    TooLong     \* payloads over the byte bound

Call == [payload : Payload, reserve : Nat, send : BOOLEAN]

NotCounted == -1

None == "none"

ProgramAssumption ==
    /\ None \notin Thread
    /\ \A t \in Thread : Program[t] \in Seq(Call) /\ Len(Program[t]) > 0
TokensAssumption == Tokens \in [Payload -> Nat] /\ Limit \in Nat

VARIABLES
    step,       \* where each thread is in its program
    pc,         \* where it is in preflight
    holder,     \* per payload, the thread holding its count lock
    counts,     \* input_counts
    reserves,   \* input_reserves
    asked,      \* history: count requests answered per payload
    sent        \* history: payloads generated, and the reserve of their plan

vars == <<step, pc, holder, counts, reserves, asked, sent>>

At(t) == Program[t][step[t]]

Running(t) == pc[t] # "ended"

(* The next step of the program, or its end. *)
Advance(t) ==
    /\ step' = [step EXCEPT ![t] = IF @ = Len(Program[t]) THEN @ ELSE @ + 1]
    /\ pc' = [pc EXCEPT ![t] = IF step[t] = Len(Program[t]) THEN "ended" ELSE "call"]

Ends(t) ==
    /\ pc' = [pc EXCEPT ![t] = "ended"]
    /\ UNCHANGED step

Goes(t, next) ==
    /\ pc' = [pc EXCEPT ![t] = next]
    /\ UNCHANGED step

Release(t) == holder' = [holder EXCEPT ![At(t).payload] = None]

(* The largest reserve the thread planned this payload with. *)
Planned(t, p) ==
    {Program[t][i].reserve : i \in {j \in 1 .. step[t] : Program[t][j].payload = p}}

Sends(t) ==
    IF At(t).send THEN sent' = sent \cup {[payload |-> At(t).payload, reserve |-> r] :
                                             r \in Planned(t, At(t).payload)}
    ELSE UNCHANGED sent

-------------------------------------------------------------------------------

(* A receipt of an earlier run bypasses the count and is not sent again.   *)
Reuse(t) ==
    /\ pc[t] = "call"
    /\ At(t).payload \in Reusable
    /\ Advance(t)
    /\ UNCHANGED <<holder, counts, reserves, asked, sent>>

(* The byte bound is checked without a count. *)
RefuseLong(t) ==
    /\ pc[t] = "call"
    /\ At(t).payload \in TooLong \ Reusable
    /\ Ends(t)
    /\ UNCHANGED <<holder, counts, reserves, asked, sent>>

(* Variant: every call locks for itself. *)
LockOwn(t) ==
    /\ pc[t] = "call"
    /\ At(t).payload \notin Reusable \cup TooLong
    /\ holder' = [holder EXCEPT ![At(t).payload] = t]
    /\ Goes(t, IF counts[At(t).payload] = NotCounted THEN "counting" ELSE "enforce")
    /\ UNCHANGED <<counts, reserves, asked, sent>>

(* The lock of this payload, found or created under _count_lock. *)
Lock(t) ==
    /\ pc[t] = "call"
    /\ At(t).payload \notin Reusable \cup TooLong
    /\ holder[At(t).payload] = None
    /\ holder' = [holder EXCEPT ![At(t).payload] = t]
    /\ Goes(t, IF counts[At(t).payload] = NotCounted THEN "counting" ELSE "enforce")
    /\ UNCHANGED <<counts, reserves, asked, sent>>

(* Variant: the lock stays with a thread whose count failed. *)
CountKeepsLock(t) ==
    /\ pc[t] = "counting"
    /\ LET p == At(t).payload
       IN  \/ /\ counts' = [counts EXCEPT ![p] = Tokens[p]]
              /\ asked' = [asked EXCEPT ![p] = @ + 1]
              /\ Goes(t, "enforce")
           \/ Ends(t) /\ UNCHANGED <<counts, asked>>
    /\ UNCHANGED <<holder, reserves, sent>>

(* The provider counts the payload; a failed or malformed count raises and *)
(* leaves nothing behind.                                                  *)
Count(t) ==
    /\ pc[t] = "counting"
    /\ LET p == At(t).payload
       IN  \/ /\ counts' = [counts EXCEPT ![p] = Tokens[p]]
              /\ asked' = [asked EXCEPT ![p] = @ + 1]
              /\ Goes(t, "enforce")
              /\ UNCHANGED holder
           \/ /\ Ends(t)
              /\ Release(t)
              /\ UNCHANGED <<counts, asked>>
    /\ UNCHANGED <<reserves, sent>>

(* enforce_input_budget. *)
Fits(t) == counts[At(t).payload] + At(t).reserve <= Limit

ReserveMax(t) ==
    IF At(t).reserve > reserves[At(t).payload] THEN At(t).reserve ELSE reserves[At(t).payload]

(* An accepted count records the largest reserve; then the lock is freed.  *)
Enforce(t) ==
    /\ pc[t] = "enforce"
    /\ Release(t)
    /\ \/ /\ Fits(t)
          /\ reserves' = [reserves EXCEPT ![At(t).payload] = ReserveMax(t)]
          /\ Sends(t)
          /\ Advance(t)
       \/ /\ ~Fits(t)
          /\ Ends(t)
          /\ UNCHANGED <<reserves, sent>>
    /\ UNCHANGED <<counts, asked>>

-------------------------------------------------------------------------------

Init ==
    /\ step = [t \in Thread |-> 1]
    /\ pc = [t \in Thread |-> "call"]
    /\ holder = [p \in Payload |-> None]
    /\ counts = [p \in Payload |-> NotCounted]
    /\ reserves = [p \in Payload |-> 0]
    /\ asked = [p \in Payload |-> 0]
    /\ sent = {}

Step(t) == Reuse(t) \/ RefuseLong(t) \/ Lock(t) \/ Count(t) \/ Enforce(t)

Next == \E t \in Thread : Step(t)

Spec == Init /\ [][Next]_vars

(* Threads are scheduled and count requests have a time limit; a waiter    *)
(* retries the lock only as often as other threads of the payload take it. *)
FairSpec == Spec /\ \A t \in Thread : WF_vars(Step(t))

-------------------------------------------------------------------------------
(* Properties. *)

(* Every variable has its type. *)
TypeOK ==
    /\ step \in [Thread -> Nat]
    /\ \A t \in Thread : step[t] \in DOMAIN Program[t]
    /\ pc \in [Thread -> {"call", "counting", "enforce", "ended"}]
    /\ holder \in [Payload -> Thread \cup {None}]
    /\ counts \in [Payload -> Int]
    /\ \A p \in Payload : counts[p] \in {NotCounted, Tokens[p]}
    /\ reserves \in [Payload -> Nat]
    /\ asked \in [Payload -> Nat]
    /\ sent \subseteq [payload : Payload, reserve : Nat]

(* "planning and execution therefore do not count identical input twice":  *)
(* however many threads plan and generate a payload, and whatever fails on *)
(* the way, the provider answers one count for it.                         *)
CountedOnce == \A p \in Payload : asked[p] <= 1

(* Nothing is generated beyond the limit: the room that is on record for a *)
(* generated payload is no less than what its thread planned with, however *)
(* many plans and generations, these with reserve 0, are admitted in       *)
(* between, and its exact count leaves that room.                          *)
GenerationFits ==
    \A s \in sent :
        /\ counts[s.payload] = Tokens[s.payload]
        /\ s.reserve <= reserves[s.payload]
        /\ Tokens[s.payload] + reserves[s.payload] <= Limit

(* Every thread gets through its program or raises; a failed count blocks  *)
(* nobody else.                                                            *)
Over == \A t \in Thread : ~Running(t)

EveryThreadEnds == <>Over

(* What enforce_input_budget admits: counted once, and with room to spare. *)
AdmissionIsSound == TypeOK /\ CountedOnce /\ GenerationFits

===============================================================================
