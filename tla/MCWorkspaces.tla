----------------------------- MODULE MCWorkspaces -----------------------------
(* Two workspace names; the first, alphabetically, is the default one. *)
EXTENDS Workspaces
MCName == 1 .. 2
===============================================================================
