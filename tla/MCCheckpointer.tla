---------------------------- MODULE MCCheckpointer ---------------------------
(***************************************************************************)
(* Small instances of the checkpointer.                                    *)
(***************************************************************************)
EXTENDS Checkpointer
=============================================================================
