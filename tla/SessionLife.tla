----------------------------- MODULE SessionLife -----------------------------
(***************************************************************************)
(* What becomes of the tmux sessions shellkeep manages: they keep running  *)
(* until a user closes the tab or leaves the shell, or shellkeep discards  *)
(* the session of a tab it takes for a placeholder.  Losing a connection,  *)
(* crashing, hiding and merging never end one.                             *)
(***************************************************************************)
CONSTANT Session

VARIABLES
    live,       \* the sessions running on the server
    ended,      \* the sessions some user has ended
    discarded   \* the sessions shellkeep has discarded

\* Sessions of earlier days may be running.
Init == live \subseteq Session /\ ended = {} /\ discarded = {}

Start(s) == live' = live \union {s} /\ UNCHANGED <<ended, discarded>>

\* A user ends sessions; they stop now or when the server hears of it.
UserEnds(ss) ==
    /\ ended' = ended \union ss
    /\ live' \in {live, live \ ss}
    /\ UNCHANGED discarded

Discard(ss) ==
    /\ discarded' = discarded \union ss
    /\ UNCHANGED <<live, ended>>

Stop(s) ==
    /\ s \in ended \union discarded
    /\ live' = live \ {s}
    /\ UNCHANGED <<ended, discarded>>

Next ==
    \/ \E s \in Session : Start(s) \/ Stop(s)
    \/ \E ss \in SUBSET Session : UserEnds(ss) \/ Discard(ss)

Spec == Init /\ [][Next]_<<live, ended, discarded>>
=============================================================================
