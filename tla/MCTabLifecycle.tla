---------------------------- MODULE MCTabLifecycle ----------------------------
(***************************************************************************)
(* Bounded instances of TabLifecycle.                                      *)
(***************************************************************************)
EXTENDS TabLifecycle
=============================================================================
