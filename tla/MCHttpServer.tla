---------------------------- MODULE MCHttpServer ----------------------------
(***************************************************************************)
(* Constants for model-checking HttpServer.                                *)
(***************************************************************************)
EXTENDS HttpServer

CONSTANTS alice, bob, s1, s2, k1

\* A friend named by either side, and two in one request.
SomeLists ==
    {<<<<alice, bob>>>>, <<<<alice, bob>>, <<bob, alice>>>>}
=============================================================================
