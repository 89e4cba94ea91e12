---------------------------- MODULE DeviceRegistry ----------------------------
(***************************************************************************)
(* The registry of connected devices (src/ssh/lock.rs): a JSON list in an  *)
(* environment variable of the tmux session shellkeep-lock-<workspace>.    *)
(* Devices change it with a read and a later write (join, heartbeat,       *)
(* leave); the last one to leave kills the session.                        *)
(*                                                                         *)
(* One workspace.  Time is counted in ticks, of which Keepalive make one   *)
(* keepalive interval; an entry is its age, the ticks since the time it    *)
(* is stamped with.  Only ages up to the first orphaned one (Old) differ,  *)
(* and Absent, "not listed", counts as older than any age.                 *)
(***************************************************************************)
EXTENDS Integers, FiniteSets

CONSTANTS
    Device,      \* the client ids
    Keepalive,   \* keepalive_interval, in ticks
    MaxDelay,    \* what a device spawns is done after this many ticks
    MaxMisses,   \* bound: heartbeats missed between two writes of an entry
    MaxOps,      \* bound: user operations and crashes
    Faults       \* "read": a read may fail; "write": a write may

ASSUME KeepaliveAssumption == Keepalive \in Nat \ {0}
ASSUME BoundsAssumption == MaxDelay \in Nat /\ MaxMisses \in Nat /\ MaxOps \in Nat

VARIABLES
    there,     \* the tmux session of the registry exists
    age,       \* per device: the age of its entry, or Absent
    conn,      \* per device: "off", "joining" or "on"
    wanted,    \* per device: operations spawned that wait for the SSH handle
    op,        \* per device: the operation that holds the handle
    pc,        \* per device: its next remote command
    seen,      \* per device: the list it has read, as ages
    stamp,     \* per device: the age of the time it will write
    timer,     \* per device: ticks since the heartbeat timer fired
    lag,       \* per device: ticks since it first had something to do
    misses,    \* per device: heartbeats missed since its entry was last written
    ops,       \* user operations so far
    \* History, read by properties only:
    since,     \* per device: ticks since it last took the time for a stamp
    stale,     \* per device: another one changed the registry during its operation
    raced      \* an operation has acted on a stale or failed read

regVars  == <<there, age>>
opVars   == <<wanted, op, pc, seen, stamp, lag>>
hist     == <<since, stale, raced>>
vars == <<regVars, conn, opVars, timer, misses, ops, hist>>

Interval == 2 * Keepalive      \* of the heartbeat timer
Limit    == 3 * Keepalive      \* LOCK_ORPHAN_MULTIPLIER
Old      == Limit + 1
Absent   == Old + 1
Age      == 0 .. Old
Entries  == [Device -> 0 .. Absent]
Kind     == {"join", "beat", "leave"}

Nobody == [d \in Device |-> Absent]

TypeOK ==
    /\ there \in BOOLEAN
    /\ age \in Entries
    /\ conn \in [Device -> {"off", "joining", "on"}]
    /\ wanted \in [Device -> SUBSET Kind]
    /\ op \in [Device -> Kind \union {"none"}]
    /\ pc \in [Device -> {"check", "create", "read", "write"}]
    /\ seen \in [Device -> Entries]
    /\ stamp \in [Device -> Age]
    /\ timer \in [Device -> 0 .. Interval]
    /\ lag \in [Device -> 0 .. MaxDelay]
    /\ misses \in [Device -> 0 .. MaxMisses]
    /\ ops \in 0 .. MaxOps
    /\ since \in [Device -> Age]
    /\ stale \in [Device -> BOOLEAN]
    /\ raced \in BOOLEAN
    \* Without its session the registry lists nobody.
    /\ ~there => age = Nobody
    \* Only joins look for the session.
    /\ \A d \in Device : pc[d] \in {"check", "create"} => op[d] = "join"

Init ==
    /\ there = FALSE
    /\ age = Nobody
    /\ conn = [d \in Device |-> "off"]
    /\ wanted = [d \in Device |-> {}]
    /\ op = [d \in Device |-> "none"]
    /\ pc = [d \in Device |-> "read"]
    /\ seen = [d \in Device |-> Nobody]
    /\ stamp = [d \in Device |-> 0]
    /\ timer = [d \in Device |-> 0]
    /\ lag = [d \in Device |-> 0]
    /\ misses = [d \in Device |-> 0]
    /\ ops = 0
    /\ since = [d \in Device |-> Old]
    /\ stale = [d \in Device |-> FALSE]
    /\ raced = FALSE

-----------------------------------------------------------------------------
(***************************************************************************)
(* What the user and the timers ask for.                                   *)
(***************************************************************************)
Want(d, kind) == wanted' = [wanted EXCEPT ![d] = @ \union {kind}]

UserOp == ops < MaxOps /\ ops' = ops + 1

Connect(d) ==
    /\ conn[d] = "off"
    /\ UserOp
    /\ conn' = [conn EXCEPT ![d] = "joining"]
    /\ Want(d, "join")
    /\ UNCHANGED <<regVars, op, pc, seen, stamp, timer, lag, misses, hist>>

\* connect_server runs for every tab that is opened, and joins each time.
OpenTab(d) ==
    /\ conn[d] = "on"
    /\ UserOp
    /\ Want(d, "join")
    /\ UNCHANGED <<regVars, conn, op, pc, seen, stamp, timer, lag, misses, hist>>

\* The task that leaves does nothing if no connection is cached (any more).
Disconnect(d) ==
    /\ conn[d] # "off"
    /\ UserOp
    /\ conn' = [conn EXCEPT ![d] = "off"]
    /\ Want(d, "leave") \/ UNCHANGED wanted
    /\ UNCHANGED <<regVars, op, pc, seen, stamp, timer, lag, misses, hist>>

HeartbeatTick(d) ==
    /\ conn[d] = "on"
    /\ timer[d] = Interval
    /\ timer' = [timer EXCEPT ![d] = 0]
    /\ Want(d, "beat")
    /\ UNCHANGED <<regVars, conn, op, pc, seen, stamp, lag, misses, hist, ops>>

\* No connection is cached when the timer fires (or no tab is open, and then
\* the timer does not run): the heartbeat is skipped.
HeartbeatMissed(d) ==
    /\ conn[d] = "on"
    /\ timer[d] = Interval
    /\ misses[d] < MaxMisses
    /\ timer' = [timer EXCEPT ![d] = 0]
    /\ misses' = [misses EXCEPT ![d] = @ + 1]
    /\ UNCHANGED <<regVars, conn, opVars, hist, ops>>

(***************************************************************************)
(* Time passes, except past a heartbeat that is due or past MaxDelay of    *)
(* an operation that is underway.                                          *)
(***************************************************************************)
Busy(d) == op[d] # "none" \/ wanted[d] # {}

Older(a) == IF a < Old THEN a + 1 ELSE a

Tick ==
    /\ \A d \in Device : /\ conn[d] = "on" => timer[d] < Interval
                         /\ Busy(d) => lag[d] < MaxDelay
    /\ age' = [d \in Device |-> Older(age[d])]
    /\ seen' = [d \in Device |-> [e \in Device |-> Older(seen[d][e])]]
    /\ stamp' = [d \in Device |-> IF op[d] = "none" THEN 0 ELSE Older(stamp[d])]
    /\ since' = [d \in Device |-> Older(since[d])]
    /\ timer' = [d \in Device |-> IF conn[d] = "on" THEN timer[d] + 1 ELSE 0]
    /\ lag' = [d \in Device |-> IF Busy(d) THEN lag[d] + 1 ELSE 0]
    /\ UNCHANGED <<there, conn, wanted, op, pc, misses, ops, stale, raced>>

-----------------------------------------------------------------------------
(***************************************************************************)
(* join_workspace, heartbeat and leave_workspace, command by command.  The *)
(* SSH handle is held for a whole operation, so a device runs one at a     *)
(* time, but nothing orders the ones that wait for it.                     *)
(***************************************************************************)
Start(d, kind) ==
    /\ op[d] = "none"
    /\ kind \in wanted[d]
    /\ op' = [op EXCEPT ![d] = kind]
    /\ pc' = [pc EXCEPT ![d] = IF kind = "join" THEN "check" ELSE "read"]
    /\ wanted' = [wanted EXCEPT ![d] = @ \ {kind}]
    /\ stamp' = [stamp EXCEPT ![d] = 0]
    /\ since' = [since EXCEPT ![d] = IF kind = "leave" THEN @ ELSE 0]
    /\ stale' = [stale EXCEPT ![d] = FALSE]
    \* A leave that comes after the connect that followed it leaves too late.
    /\ raced' = (raced \/ (kind = "leave" /\ conn[d] # "off"))
    /\ UNCHANGED <<regVars, conn, seen, timer, lag, misses, ops>>

JoinCheck(d) ==
    /\ op[d] # "none"
    /\ pc[d] = "check"
    /\ pc' = [pc EXCEPT ![d] = IF there THEN "read" ELSE "create"]
    /\ UNCHANGED <<regVars, conn, wanted, op, seen, stamp, timer, lag, misses, hist, ops>>

\* new-session; it fails if another device was faster, which is only logged.
JoinCreate(d) ==
    /\ op[d] # "none"
    /\ pc[d] = "create"
    /\ there' = TRUE
    /\ pc' = [pc EXCEPT ![d] = "read"]
    /\ UNCHANGED <<age, conn, wanted, op, seen, stamp, timer, lag, misses, hist, ops>>

\* Mutant: one keepalive interval, not three.
OrphanAgeSingle(a) == a > Keepalive

OrphanAge(a) == a > Limit

\* A join drops orphaned entries and its own; a leave drops its own.
Pruned(d, list) ==
    [e \in Device |-> IF \/ op[d] = "join" /\ OrphanAge(list[e])
                         \/ op[d] # "beat" /\ e = d
                      THEN Absent ELSE list[e]]

ReadDevices(d) ==
    /\ op[d] # "none"
    /\ pc[d] = "read"
    /\ seen' = [seen EXCEPT ![d] = Pruned(d, age)]
    /\ pc' = [pc EXCEPT ![d] = "write"]
    /\ UNCHANGED <<regVars, conn, wanted, op, stamp, timer, lag, misses, hist, ops>>

\* read_devices returns the empty list, not an error.
ReadFails(d) ==
    /\ "read" \in Faults
    /\ op[d] # "none"
    /\ pc[d] = "read"
    /\ seen' = [seen EXCEPT ![d] = Nobody]
    /\ pc' = [pc EXCEPT ![d] = "write"]
    /\ stale' = [stale EXCEPT ![d] = TRUE]
    /\ UNCHANGED <<regVars, conn, wanted, op, stamp, timer, lag, misses, since,
                   raced, ops>>

\* The locals of the operation are gone.
Finish(d) ==
    /\ op' = [op EXCEPT ![d] = "none"]
    /\ pc' = [pc EXCEPT ![d] = "read"]
    /\ seen' = [seen EXCEPT ![d] = Nobody]
    /\ stamp' = [stamp EXCEPT ![d] = 0]
    /\ lag' = [lag EXCEPT ![d] = 0]

\* What the others have read is no longer so; nor is the session there that a
\* join has found and somebody kills.
MarkStale(d) ==
    stale' = [e \in Device |->
                e # d /\ (\/ stale[e]
                          \/ op[e] # "none" /\ pc[e] = "write"
                          \/ op[e] = "join" /\ pc[e] = "read" /\ ~there')]

\* Mutant: the whole list is stamped.
WrittenStampsAll(d) ==
    [e \in Device |-> IF e = d \/ seen[d][e] # Absent THEN stamp[d] ELSE Absent]

\* Mutant: a heartbeat that misses its entry does not add it again.
WrittenIfListed(d) ==
    IF op[d] = "beat" /\ seen[d][d] = Absent THEN seen[d]
    ELSE [seen[d] EXCEPT ![d] = stamp[d]]

\* A heartbeat that misses its entry adds it again.
Written(d) == [seen[d] EXCEPT ![d] = stamp[d]]

\* Mutant: the list comes into being with the write.
SetEnvironmentAlways(list) == age' = list

\* set-environment changes nothing if the session has been killed.
SetEnvironment(list) == age' = IF there THEN list ELSE age

WriteDevices(d) ==
    /\ op[d] \in {"join", "beat"}
    /\ pc[d] = "write"
    /\ SetEnvironment(Written(d))
    /\ conn' = [conn EXCEPT ![d] = IF op[d] = "join" /\ @ = "joining"
                                   THEN "on" ELSE @]
    /\ timer' = [timer EXCEPT ![d] = IF conn[d] = "on" THEN @ ELSE 0]
    /\ misses' = [misses EXCEPT ![d] = IF there THEN 0 ELSE @]
    /\ raced' = (raced \/ stale[d])
    /\ UNCHANGED <<there, wanted, since, ops>>
    /\ Finish(d)
    /\ MarkStale(d)

\* The write fails: a heartbeat is only logged, a first join fails to connect.
WriteFails(d) ==
    /\ "write" \in Faults
    /\ op[d] # "none"
    /\ pc[d] = "write"
    /\ conn' = [conn EXCEPT ![d] = IF op[d] = "join" /\ @ = "joining"
                                   THEN "off" ELSE @]
    /\ stale' = [stale EXCEPT ![d] = FALSE]
    /\ raced' = TRUE
    /\ UNCHANGED <<regVars, wanted, timer, misses, since, ops>>
    /\ Finish(d)

\* Mutant: the session is killed whoever is left.
LastToLeaveAnyone(d) == TRUE

LastToLeave(d) == seen[d] = Nobody

\* The rest of the list is written back, or the session killed if it is empty.
LeaveWrite(d) ==
    /\ op[d] = "leave"
    /\ pc[d] = "write"
    /\ there' = (there /\ ~LastToLeave(d))
    /\ SetEnvironment(IF LastToLeave(d) THEN Nobody ELSE seen[d])
    /\ raced' = (raced \/ stale[d])
    /\ UNCHANGED <<conn, wanted, timer, misses, since, ops>>
    /\ Finish(d)
    /\ MarkStale(d)

\* The process dies; its entry stays.
Crash(d) ==
    /\ conn[d] # "off"
    /\ UserOp
    /\ conn' = [conn EXCEPT ![d] = "off"]
    /\ wanted' = [wanted EXCEPT ![d] = {}]
    /\ stale' = [stale EXCEPT ![d] = FALSE]
    /\ UNCHANGED <<regVars, timer, misses, since, raced>>
    /\ Finish(d)

-----------------------------------------------------------------------------
UserStep(d) == Connect(d) \/ OpenTab(d) \/ Disconnect(d) \/ Crash(d)

Command(d) ==
    \/ JoinCheck(d) \/ JoinCreate(d) \/ ReadDevices(d) \/ ReadFails(d)
    \/ WriteDevices(d) \/ WriteFails(d) \/ LeaveWrite(d)

Next ==
    \/ Tick
    \/ \E d \in Device :
          \/ UserStep(d) \/ Command(d)
          \/ HeartbeatTick(d) \/ HeartbeatMissed(d)
          \/ \E kind \in Kind : Start(d, kind)

Spec == Init /\ [][Next]_vars

(***************************************************************************)
(* Time goes on, timers fire and what was spawned runs.                    *)
(***************************************************************************)
Fairness ==
    /\ WF_vars(Tick)
    /\ \A d \in Device :
          /\ WF_vars(HeartbeatTick(d))
          /\ WF_vars(\E kind \in Kind : Start(d, kind))
          /\ WF_vars(JoinCheck(d) \/ JoinCreate(d) \/ ReadDevices(d)
                        \/ WriteDevices(d) \/ LeaveWrite(d))

FairSpec == Spec /\ Fairness

-----------------------------------------------------------------------------
(***************************************************************************)
(* Properties.                                                             *)
(***************************************************************************)
Listed(d) == age[d] # Absent

(***************************************************************************)
(* Nobody vouches for somebody else: whatever reads and writes interleave, *)
(* the entry of a device, in the registry or in a list that is yet to be   *)
(* written, is at least as old as the last time that device itself took    *)
(* the time.  Without it the entry of a crashed device would never orphan. *)
(***************************************************************************)
AgesHonest ==
    \A d \in Device : /\ age[d] >= since[d]
                      /\ \A e \in Device : seen[e][d] >= since[d]

(***************************************************************************)
(* While no two operations have raced, no call has failed and no heartbeat *)
(* was skipped, the registry is exact: the session is there and lists      *)
(* every connected device, also when others leave, crash, come back and    *)
(* are pruned.                                                             *)
(***************************************************************************)
SerialRegistryExact ==
    ~raced => \A d \in Device :
        (conn[d] = "on" /\ misses[d] = 0) => there /\ Listed(d)

(***************************************************************************)
(* The heartbeats of a device keep it from being taken for an orphan, as   *)
(* long as none is skipped and nothing raced or failed.                    *)
(***************************************************************************)
EntriesStayFresh ==
    ~raced => \A d \in Device :
        (conn[d] = "on" /\ misses[d] = 0) => ~OrphanAge(age[d])

(***************************************************************************)
(* The race of two joins heals: a device that stays connected is listed    *)
(* for good once the others have stopped changing the registry, its        *)
(* session is there, and its own writes get through.                       *)
(***************************************************************************)
QuietFor(d) == conn[d] = "on" /\ \A e \in Device \ {d} : conn[e] = "off" /\ ~Busy(e)

HealsAlone ==
    \A d \in Device :
        \/ []<>~(QuietFor(d) /\ there)
        \/ []<><<WriteFails(d)>>_vars
        \/ <>[]Listed(d)

(***************************************************************************)
(* Claims of comments in lock.rs that the code does not keep, each the one *)
(* property of a run that shows a counterexample.                          *)
(***************************************************************************)

(***************************************************************************)
(* "Set to 3 (not 2) to tolerate one missed heartbeat without pruning".    *)
(***************************************************************************)
OneMissTolerated ==
    ~raced => \A d \in Device :
        (conn[d] = "on" /\ misses[d] <= 1) => ~OrphanAge(age[d])

(***************************************************************************)
(* "The heartbeat self-heals this by re-adding the device if its entry is  *)
(* missing", which needs the session that a race may have killed.          *)
(***************************************************************************)
HeartbeatsHeal ==
    \A d \in Device :
        \/ []<>~QuietFor(d)
        \/ []<><<WriteFails(d)>>_vars
        \/ <>[]Listed(d)
=============================================================================
