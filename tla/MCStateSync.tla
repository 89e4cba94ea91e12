----------------------------- MODULE MCStateSync -----------------------------
(***************************************************************************)
(* Bounded instances of StateSync.                                         *)
(***************************************************************************)
EXTENDS StateSync

CONSTANTS a, b    \* two devices

(***************************************************************************)
(* The state in which device a has connected to an empty server, opened    *)
(* its first tab, and everything in flight has arrived: reached from Init  *)
(* by Connect .. ServerConnected, the two flush tasks, AttachTab and the   *)
(* watcher.  Device b has not been started.                                *)
(***************************************************************************)
FirstTab == [uuid |-> 1, tmux |-> 1]

SettledInit ==
    /\ shared = [ver |-> 2, ws |-> 1, tabs |-> {FirstTab}]
    /\ devfile = [d \in Device |-> [there |-> d = a, hidden |-> {}]]
    /\ live = {1}
    /\ named = [s \in Session |-> IF s = 1 THEN 1 ELSE 0]
    /\ conn = [d \in Device |-> IF d = a THEN "on" ELSE "off"]
    /\ pending = [d \in Device |-> NoAttempt]
    /\ tabs = [d \in Device |-> IF d = a THEN {FirstTab} ELSE {}]
    /\ hidden = [d \in Device |-> {}]
    /\ cache = [d \in Device |-> IF d = a THEN shared ELSE NoDoc]
    /\ dirty = [d \in Device |-> FALSE]
    /\ recent = [d \in Device |-> FALSE]
    /\ mail = [d \in Device |-> {}]
    /\ emitted = [d \in Device |-> IF d = a THEN 2 ELSE 0]
    /\ tasks = {}
    /\ opening = {}
    /\ waiting = {}
    /\ dead = {}
    /\ exits = {}
    /\ kills = {}
    /\ next = [uuid |-> 2, session |-> 2, ver |-> 3, ops |-> 0]
    /\ ended = {}
    /\ putaway = [d \in Device |-> {}]
    /\ found = [d \in Device |-> {}]
    /\ missed = [d \in Device |-> {}]
    /\ discarded = [d \in Device |-> {}]

SettledSpec == SettledInit /\ [][Next]_vars

SettledFairSpec == SettledSpec /\ Fairness
=============================================================================
