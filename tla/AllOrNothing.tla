----------------------------- MODULE AllOrNothing -----------------------------
(***************************************************************************)
(* What splitting a paid request into units promises, whoever splits it:   *)
(* Pipeline.structured of rag/graph.py splits one correction into patches, *)
(* reassess_facets of rag/reassessment.py splits one reassessment into     *)
(* facets.  No unit is paid before every unit is known to fit its input    *)
(* budget, no unit is paid twice, and a result is delivered only when      *)
(* every unit was paid for; otherwise the request fails as a whole.        *)
(***************************************************************************)
CONSTANT Unit   \* the units a request can be split into

VARIABLES
    plan,       \* the units the request was split into
    counted,    \* those whose exact input count was accepted
    paid,       \* those that were sent to the model
    result      \* "none", "delivered" or "failed"

vars == <<plan, counted, paid, result>>

TypeOK ==
    /\ plan \subseteq Unit
    /\ counted \subseteq plan
    /\ paid \subseteq plan
    /\ result \in {"none", "delivered", "failed"}

Init ==
    /\ plan = {}
    /\ counted = {}
    /\ paid = {}
    /\ result = "none"

Partition ==
    /\ result = "none"
    /\ plan = {}
    /\ plan' \in SUBSET Unit
    /\ UNCHANGED <<counted, paid, result>>

Count(u) ==
    /\ result = "none"
    /\ paid = {}
    /\ u \in plan \ counted
    /\ counted' = counted \cup {u}
    /\ UNCHANGED <<plan, paid, result>>

(* A unit that was paid for may fail, and the request with it. *)
Pay(u) ==
    /\ result = "none"
    /\ counted = plan
    /\ u \in plan \ paid
    /\ paid' = paid \cup {u}
    /\ result' \in {"none", "failed"}
    /\ UNCHANGED <<plan, counted>>

Deliver ==
    /\ result = "none"
    /\ paid = plan
    /\ result' = "delivered"
    /\ UNCHANGED <<plan, counted, paid>>

Fail ==
    /\ result = "none"
    /\ result' = "failed"
    /\ UNCHANGED <<plan, counted, paid>>

Next ==
    \/ Partition \/ Deliver \/ Fail
    \/ \E u \in Unit : Count(u) \/ Pay(u)

Spec == Init /\ [][Next]_vars

===============================================================================
