------------------------------- MODULE MCAudit -------------------------------
(* Audit with one credential and one tool, which it does not tell apart. *)
EXTENDS Audit

CONSTANTS i1, t1, p1

MCTaskOf == [i \in {i1} |-> t1]
MCPrincipalOf == [i \in {i1} |-> p1]

\* Either keys change, leak and are revoked, or the store is used, over one key
\* and time that passes.
Affordable ==
    \/ /\ stored = {} /\ deeds["store"] = 0 /\ now = 0
       /\ LET changes == deeds["copy"] + deeds["file"]
          IN changes <= 2 /\ changes + Cardinality(revs) <= 3
    \/ Used = {FirstKid} /\ revs = {} /\ Len(log) <= 2 /\ \A w \in Where : deeds[w] <= 1

MCNext == Next /\ Affordable'

MCSpec == Init /\ [][MCNext]_vars
=============================================================================
