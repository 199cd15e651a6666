---------------------------- MODULE MCGroupChat ----------------------------
(***************************************************************************)
(* Constants for model-checking GroupChat.                                 *)
(***************************************************************************)
EXTENDS GroupChat

CONSTANTS alice, bob
=============================================================================
