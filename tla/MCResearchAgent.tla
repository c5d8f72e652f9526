---------------------------- MODULE MCResearchAgent ---------------------------
(* Three racing invocations of one research request. *)
EXTENDS ResearchAgent
===============================================================================
