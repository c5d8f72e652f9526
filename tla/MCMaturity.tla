------------------------------ MODULE MCMaturity ------------------------------
(* The technology pair the contract fixes. *)
EXTENDS Maturity

MCOrder == <<"KIVI", "InfiniGen">>
===============================================================================
