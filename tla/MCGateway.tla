----------------------------- MODULE MCGateway ------------------------------
(***************************************************************************)
(* Small instances of the gateway.  Two agents work for alice on one task; *)
(* read is allowed, send needs approval and is denied once the task is     *)
(* tainted.                                                                *)
(***************************************************************************)
EXTENDS GatewayInvariant, TLC

CONSTANTS t1, alice, bob, i1, read, send

MCTaskOf == [i \in Ident |-> t1]
MCPrincipalOf == [i \in Ident |-> alice]
MCCedar ==
    [ x \in Question |->
        IF x[3] = read \/ (x[1] = "call" /\ x[4] = {}) THEN "permit" ELSE "forbid" ]
MCProposal == {i1} \X Tool
MCCredUntil == [i \in Ident |-> MaxTime]

Symmetry == Permutations(Worker)
=============================================================================
