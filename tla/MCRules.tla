------------------------------- MODULE MCRules -------------------------------
(* Logs about one credential and two tools. *)
EXTENDS LogRules

CONSTANTS i1, t1, p1

MCTaskOf == [i \in {i1} |-> t1]
MCPrincipalOf == [i \in {i1} |-> p1]
=============================================================================
