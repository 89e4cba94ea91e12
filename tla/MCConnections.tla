--------------------------- MODULE MCConnections ---------------------------
(* Two ways to write one server, a password server behind three private keys. *)
EXTENDS Connections

CONSTANTS localhost, loopback, bob

MCKey == {[host |-> localhost, user |-> bob], [host |-> loopback, user |-> bob]}

MCStrictMode == (localhost :> "ask") @@ (loopback :> "no")

Private(agent, dsa, cert, rsa) ==
    [agent |-> agent, dsa |-> dsa, cert |-> cert, rsa |-> rsa, loads |-> TRUE]

\* Five tries: a DSA key of the agent is skipped, an RSA file counts three times,
\* an Ed25519 key with a certificate twice. The password is the sixth.
MCOffered == <<Private(TRUE, TRUE, FALSE, FALSE), Private(FALSE, FALSE, FALSE, TRUE),
               Private(FALSE, FALSE, TRUE, FALSE)>>

MCAccepts == {{Method("password", "right")}, {Method("key", 3)}}
\* Tasks are interchangeable; no liveness is checked with this.
Interchangeable == Permutations(Task)
=============================================================================
