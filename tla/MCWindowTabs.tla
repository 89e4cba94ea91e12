----------------------------- MODULE MCWindowTabs -----------------------------
(***************************************************************************)
(* Bounded instances of WindowTabs.                                        *)
(***************************************************************************)
EXTENDS WindowTabs
=============================================================================
