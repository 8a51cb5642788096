------------------------------- MODULE MCPmm --------------------------------
(***************************************************************************)
(* Every machine of up to four pages of three bytes, and every range on it *)
(* and a little beyond.                                                    *)
(***************************************************************************)
EXTENDS Pmm
=============================================================================
