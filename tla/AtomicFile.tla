----------------------------- MODULE AtomicFile -----------------------------
(***************************************************************************)
(* What the state sync takes shared.json for: a register.  A write puts a  *)
(* whole version there at one instant, a read returns what was there at    *)
(* one instant, and the file, once written, is never missing.  A server    *)
(* on which that cannot be had promises nothing.                           *)
(***************************************************************************)
CONSTANTS
    Device,
    Version,   \* what may be written
    None,      \* the file does not exist
    Unread,    \* a device is not at a read, or between it and the end of its flush
    Damaged    \* neither missing nor a whole version

VARIABLES
    value,     \* what the file holds
    got,       \* what the read each device works with has returned
    keeps      \* the server replaces files atomically

vars == <<value, got, keeps>>

Anything == Version \cup {None, Damaged}

Init ==
    /\ value = None
    /\ got = [d \in Device |-> Unread]
    /\ keeps \in BOOLEAN

Read(d) == keeps /\ got' = [got EXCEPT ![d] = value] /\ UNCHANGED <<value, keeps>>

Forget(d) == keeps /\ got' = [got EXCEPT ![d] = Unread] /\ UNCHANGED <<value, keeps>>

\* The write ends the flush.
Write(d, v) ==
    /\ keeps /\ value' = v /\ got' = [got EXCEPT ![d] = Unread]
    /\ UNCHANGED keeps

Unreliable ==
    /\ ~keeps
    /\ value' \in Anything /\ got' \in [Device -> Anything \cup {Unread}]
    /\ UNCHANGED keeps

Next ==
    \/ \E d \in Device : Read(d) \/ Forget(d) \/ \E v \in Version : Write(d, v)
    \/ Unreliable

Spec == Init /\ [][Next]_vars
=============================================================================
