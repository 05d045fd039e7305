------------------------------ MODULE MCCapVM ------------------------------
(***************************************************************************)
(* A directory and one below it; messages are left to Registry's own runs. *)
(***************************************************************************)
EXTENDS CapVM

CONSTANTS ws, sub
MCChild == {<<ws, sub>>}
MCGrantOps == {{"Read"}}
=============================================================================
