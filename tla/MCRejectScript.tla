--------------------------- MODULE MCRejectScript ---------------------------
(***************************************************************************)
(* Instances of RejectScript: two children and two rooms; a child may be   *)
(* named twice, on the command line and in the configuration.              *)
(***************************************************************************)
EXTENDS RejectScript

CONSTANTS kid, pal, lobby, den

MCUserLists == {<<kid, pal>>, <<kid, kid>>}
=============================================================================
