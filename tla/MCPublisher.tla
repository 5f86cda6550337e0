---------------------------- MODULE MCPublisher ----------------------------
(***************************************************************************)
(* Instances of Publisher: two versions of the rules and two tasks.        *)
(***************************************************************************)
EXTENDS Publisher

CONSTANTS t1, t2, old, new
=============================================================================
