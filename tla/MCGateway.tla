------------------------------- MODULE MCGateway ------------------------------
(* Two runs on one ledger: two threads of run r1, one of run r2. *)
EXTENDS Gateway

CONSTANTS r1, r2, a1, a2, b1

MCRun    == {r1, r2}
MCCall   == {a1, a2, b1}
MCRunOf  == [c \in MCCall |-> IF c = b1 THEN r2 ELSE r1]
MCPrice  == [c \in MCCall |-> IF c = a2 THEN 2 ELSE 1]
MCCached == {b1}
===============================================================================
