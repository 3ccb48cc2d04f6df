------------------------------ MODULE MCRotation -----------------------------
(***************************************************************************)
(* Small instances of warden rotate-key beside warden serve.               *)
(***************************************************************************)
EXTENDS KeyRotation, TLC

Symmetry == Permutations(Proc) \cup Permutations(Kid \ {Genesis})
=============================================================================
