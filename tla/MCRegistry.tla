----------------------------- MODULE MCRegistry -----------------------------
(***************************************************************************)
(* A workspace with one secret subdirectory, and one secret file name.     *)
(* The control plane grants directories for listing; whoever reads them    *)
(* has the workspace root or a read-only derivation.                       *)
(***************************************************************************)
EXTENDS Registry

CONSTANTS ws, vault
MCChild == {<<ws, vault>>}
MCGrantOps == {{"List"}}
=============================================================================
