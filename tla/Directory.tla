----------------------------- MODULE Directory -----------------------------
(***************************************************************************)
(* What the access servers promise the rest of the system: a directory of  *)
(* the users that are signed in, and on which connections.  A connection   *)
(* enters it under one user, leaves it alone, or goes with all the         *)
(* connections of a broker that fails.                                     *)
(***************************************************************************)
EXTENDS Naturals

CONSTANTS Conns, Brokers, BrokerOf, Clients

VARIABLES
    signedIn,   \* pairs of a connection and its user
    failures    \* brokers that failed so far

vars == <<signedIn, failures>>

Init == signedIn = {} /\ failures = 0

SignIn(c, x) ==
    /\ \A p \in signedIn : p[1] = c => p[2] = x
    /\ signedIn' = signedIn \cup {<<c, x>>}
    /\ UNCHANGED failures

SignOut(c) ==
    /\ signedIn' = {p \in signedIn : p[1] # c}
    /\ UNCHANGED failures

Fail(b) ==
    /\ signedIn' = {p \in signedIn : BrokerOf[p[1]] # b}
    /\ failures' = failures + 1

Next ==
    \/ \E c \in Conns, x \in Clients : SignIn(c, x)
    \/ \E c \in Conns : SignOut(c)
    \/ \E b \in Brokers : Fail(b)

Spec == Init /\ [][Next]_vars
=============================================================================
