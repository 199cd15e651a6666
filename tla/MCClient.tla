------------------------------ MODULE MCClient ------------------------------
(***************************************************************************)
(* Constants for model-checking Client.                                    *)
(***************************************************************************)
EXTENDS Client

CONSTANTS x1, x2, x3, x4, m1
=============================================================================
