----------------------------- MODULE MCConnPool -----------------------------
(* Instances of ConnPool for TLC. *)
EXTENDS ConnPool

CONSTANTS t1, t2, t3, t4
=============================================================================
