----------------------------- MODULE SignedChain -----------------------------
(***************************************************************************)
(* What the receipt store promises an auditor who only ever sees the       *)
(* exported log (ADR-0016): one chain that only grows, in time order, and  *)
(* one key at a time that signs it, until that key itself hands over.      *)
(***************************************************************************)
EXTENDS Naturals, Sequences

CONSTANTS Kid, NoKid, Time

VARIABLES
    chain,      \* the receipts: who signed, when, and to whom it hands over
    signer      \* the key that signs the next receipt

CInit == chain = <<>> /\ signer = NoKid

\* The first key names itself when the store is created.
Found ==
    /\ signer = NoKid
    /\ signer' \in Kid
    /\ UNCHANGED chain

InOrder(ts) == chain # <<>> => chain[Len(chain)].ts <= ts

Sign(ts, to) ==
    /\ signer # NoKid
    /\ InOrder(ts)
    /\ chain' = Append(chain, [kid |-> signer, ts |-> ts, to |-> to])

Record == \E ts \in Time : Sign(ts, NoKid) /\ UNCHANGED signer

HandOver == \E ts \in Time, to \in Kid : Sign(ts, to) /\ signer' = to

CNext == Found \/ Record \/ HandOver

CSpec == CInit /\ [][CNext]_<<chain, signer>>
=============================================================================
