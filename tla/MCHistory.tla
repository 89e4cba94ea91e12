----------------------------- MODULE MCHistory -----------------------------
(* Two tabs whose files rotate twice. *)
EXTENDS History

CONSTANTS s1, s2

\* Sessions are interchangeable; no liveness is checked.
Interchangeable == Permutations(Session)
=============================================================================
