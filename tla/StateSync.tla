------------------------------ MODULE StateSync ------------------------------
(***************************************************************************)
(* Multi-device state sync (src/app/mod.rs, src/app/update.rs,             *)
(* src/app/state_watcher.rs): devices that keep tabs on tmux sessions of   *)
(* one server, write their layout to the server's shared.json by           *)
(* read-merge-write tasks, and follow each other's writes with a watcher.  *)
(*                                                                         *)
(* One workspace name, one server.  A tab is [uuid, tmux]: session_uuid and *)
(* tmux session.  Titles, timestamps, order and windows are the subject of *)
(* TabMerge; here a document is a set of tabs.  A version stands for a     *)
(* version_uuid, 0 for one that no file ever carried.  The workspace has a *)
(* uuid too (ws), which the device that finds no file makes up and which   *)
(* the names of its tmux sessions carry; the number of that device's first *)
(* version stands for it.                                                  *)
(***************************************************************************)
EXTENDS Integers, FiniteSets, TabMerge

CONSTANTS
    Device,       \* the client ids
    MaxUuid,      \* bound: tab uuids handed out
    MaxSession,   \* bound: tmux sessions created for new tabs
    MaxVersion,   \* bound: flush tasks started
    MaxFlight,    \* bound: flush tasks in flight at a time, of all devices
    MaxOps,       \* bound: user operations, crashes, attaches that fail, channels
                  \* that are lost, debounce windows that end
    UserOps,      \* the user operations a run explores
    Faults        \* what may fail in a run

ASSUME BoundsAssumption ==
    /\ MaxUuid \in Nat
    /\ MaxSession \in Nat
    /\ MaxVersion \in Nat
    /\ MaxFlight \in Nat
    /\ MaxOps \in Nat

VARIABLES
    shared,     \* shared.json on the server: [ver, ws, tabs]; ver 0 is no file
    devfile,    \* clients/<id>.json of each device: [there, hidden]
    live,       \* the tmux sessions running on the server
    named,      \* the workspace uuid in the name of each session, 0 before it has one
    conn,       \* per device: "off", "connecting" or "on"
    pending,    \* per device: the connection attempt in flight
    tabs,       \* per device: the open tabs
    hidden,     \* per device: hidden_sessions
    cache,      \* per device: cached_shared_state, [ver, ws, tabs]
    dirty,      \* per device: state_dirty
    recent,     \* per device: the last flush is less than 2 seconds ago
    mail,       \* per device: a RemoteStateChanged message not yet handled
    emitted,    \* per device: the version the watcher script emitted last
    tasks,      \* the flush tasks in flight, of all devices
    opening,    \* tabs whose attach to their tmux session is in flight
    waiting,    \* tabs whose attach failed and will be tried again
    dead,       \* tabs shown dead: their attach failed for good
    exits,      \* "session exited" messages not yet handled
    kills,      \* kill-session commands not yet executed
    next,       \* counters: [uuid, session, ver, ops]
    \* History, read by properties only:
    ended,      \* sessions a user closed or exited from
    putaway,    \* per device: tabs its user closed, hid or left behind, or that
                \* closed themselves because their session had ended
    found,      \* per device: sessions it listed when it connected
    missed,     \* per device: sessions of saved tabs it took over without listing
    discarded   \* per device: sessions of tabs it removed as placeholders

fileVars   == <<shared, devfile>>
deviceVars == <<conn, pending, tabs, hidden, cache, dirty, recent>>
watchVars  == <<mail, emitted>>
remoteVars == <<live, named, opening, waiting, dead, exits, kills>>
history    == <<ended, putaway, found, missed, discarded>>
vars == <<fileVars, deviceVars, watchVars, remoteVars, tasks, next, history>>

-----------------------------------------------------------------------------
Uuid    == 1 .. MaxUuid
Session == 1 .. MaxSession
Version == 0 .. MaxVersion
Tab     == [uuid : Uuid, tmux : Session]
Doc     == [ver : Version, ws : Version, tabs : SUBSET Tab]
Channel == [dev : Device, uuid : Uuid, tmux : Session]
Task    == [dev : Device, ver : Version, base : Version, ws : Version,
            tabs : SUBSET Tab, hid : SUBSET Uuid, seen : SUBSET Tab,
            phase : {"read", "list", "write", "device"}]
DeviceFile == [there : BOOLEAN, hidden : SUBSET Uuid]
Attempt == [phase : {"none", "list", "read", "done"}, sessions : SUBSET Session,
            shared : Doc, file : DeviceFile]

NoDoc     == [ver |-> 0, ws |-> 0, tabs |-> {}]
NoFile    == [there |-> FALSE, hidden |-> {}]
NoAttempt == [phase |-> "none", sessions |-> {}, shared |-> NoDoc, file |-> NoFile]

UuidsIn(ts)    == {t.uuid : t \in ts}
SessionsIn(ts) == {t.tmux : t \in ts}

TypeOK ==
    /\ shared \in Doc
    /\ devfile \in [Device -> DeviceFile]
    /\ live \subseteq Session
    /\ named \in [Session -> Version]
    /\ conn \in [Device -> {"off", "connecting", "on"}]
    /\ pending \in [Device -> Attempt]
    /\ tabs \in [Device -> SUBSET Tab]
    /\ hidden \in [Device -> SUBSET Uuid]
    /\ cache \in [Device -> Doc]
    /\ dirty \in [Device -> BOOLEAN]
    /\ recent \in [Device -> BOOLEAN]
    /\ mail \in [Device -> SUBSET Doc]
    /\ emitted \in [Device -> Version]
    /\ tasks \subseteq Task
    /\ opening \subseteq Channel
    /\ waiting \subseteq Channel
    /\ dead \subseteq Channel
    /\ exits \subseteq [dev : Device, uuid : Uuid]
    /\ kills \subseteq [dev : Device, tmux : Session]
    /\ next \in [uuid : 1 .. MaxUuid + 1, session : 1 .. MaxSession + 1,
                 ver : 1 .. MaxVersion + 1, ops : 0 .. MaxOps]
    /\ ended \subseteq Session
    /\ putaway \in [Device -> SUBSET Tab]
    /\ found \in [Device -> SUBSET Session]
    /\ missed \in [Device -> SUBSET Session]
    /\ discarded \in [Device -> SUBSET Session]

Init ==
    /\ shared = NoDoc
    /\ devfile = [d \in Device |-> NoFile]
    /\ live = {}
    /\ named = [s \in Session |-> 0]
    /\ conn = [d \in Device |-> "off"]
    /\ pending = [d \in Device |-> NoAttempt]
    /\ tabs = [d \in Device |-> {}]
    /\ hidden = [d \in Device |-> {}]
    /\ cache = [d \in Device |-> NoDoc]
    /\ dirty = [d \in Device |-> FALSE]
    /\ recent = [d \in Device |-> FALSE]
    /\ mail = [d \in Device |-> {}]
    /\ emitted = [d \in Device |-> 0]
    /\ tasks = {}
    /\ opening = {}
    /\ waiting = {}
    /\ dead = {}
    /\ exits = {}
    /\ kills = {}
    /\ next = [uuid |-> 1, session |-> 1, ver |-> 1, ops |-> 0]
    /\ ended = {}
    /\ putaway = [d \in Device |-> {}]
    /\ found = [d \in Device |-> {}]
    /\ missed = [d \in Device |-> {}]
    /\ discarded = [d \in Device |-> {}]

-----------------------------------------------------------------------------
(***************************************************************************)
(* save_state and flush_state.                                             *)
(***************************************************************************)
\* Hands out u uuids, s sessions and v versions and counts o user operations.
Take(u, s, v, o) ==
    /\ next.uuid + u <= MaxUuid + 1
    /\ next.session + s <= MaxSession + 1
    /\ next.ver + v <= MaxVersion + 1
    /\ v > 0 => Cardinality(tasks) + v <= MaxFlight
    /\ next.ops + o <= MaxOps
    /\ next' = [uuid |-> next.uuid + u, session |-> next.session + s,
                ver |-> next.ver + v, ops |-> next.ops + o]

UserOp(op) == op \in UserOps

\* Mutant: the snapshot goes out under the version it was made from.
FlushTaskKeepsVersion(d, ver, ts, hid) ==
    [dev |-> d, ver |-> cache[d].ver, base |-> cache[d].ver, ws |-> cache[d].ws,
     tabs |-> ts, hid |-> hid, seen |-> {}, phase |-> "read"]

\* The task flush_state spawns: a snapshot of the windows with a fresh
\* version, and the version the cache held when it was taken.
FlushTask(d, ver, ts, hid) ==
    [dev |-> d, ver |-> ver, base |-> cache[d].ver, ws |-> cache[d].ws,
     tabs |-> ts, hid |-> hid, seen |-> {}, phase |-> "read"]

\* Without a syncer (not connected) a flush only updates memory.
Spawned(d) == IF conn[d] = "on" THEN 1 ELSE 0

SpawnedTasks(d, ts, hid) ==
    IF conn[d] = "on" THEN {FlushTask(d, next.ver, ts, hid)} ELSE {}

\* The cache takes the new content and keeps its version.
FlushState(d, ts, hid) ==
    /\ dirty' = [dirty EXCEPT ![d] = FALSE]
    /\ recent' = [recent EXCEPT ![d] = TRUE]
    /\ cache' = [cache EXCEPT ![d].tabs = ts]
    /\ tasks' = tasks \union SpawnedTasks(d, ts, hid)

\* save_state: within 2 seconds of the last flush it only marks the state.
SaveState(d, ts, hid) ==
    \/ /\ recent[d]
       /\ dirty' = [dirty EXCEPT ![d] = TRUE]
       /\ UNCHANGED <<recent, cache, tasks>>
    \/ /\ ~recent[d]
       /\ FlushState(d, ts, hid)

SaveSpawned(d) == IF recent[d] THEN 0 ELSE Spawned(d)

\* The FlushState timer runs while the state is dirty.
FlushTimer(d) ==
    /\ dirty[d]
    /\ FlushState(d, tabs[d], hidden[d])
    /\ Take(0, 0, Spawned(d), 0)
    /\ UNCHANGED <<fileVars, conn, pending, tabs, hidden, watchVars, remoteVars,
                   history>>

\* Two seconds pass without a flush.
DebounceOver(d) ==
    /\ recent[d]
    /\ recent' = [recent EXCEPT ![d] = FALSE]
    /\ Take(0, 0, 0, 1)
    /\ UNCHANGED <<fileVars, conn, pending, tabs, hidden, cache, dirty, watchVars,
                   remoteVars, tasks, history>>

(***************************************************************************)
(* Flush tasks: read shared.json, merge if another version than the cached *)
(* one is found, write shared.json, write the device file.  Several tasks  *)
(* may be in flight; nothing orders them.                                  *)
(***************************************************************************)
Advance(k, next_k) == tasks' = (tasks \ {k}) \union {next_k}

\* Mutant: the file is never looked at, the last writer wins.
ConflictNever(k) == FALSE

\* A foreign version was found where the cached one was expected.
Conflict(k) == shared.ver # 0 /\ shared.ver # k.base

FlushRead(k) ==
    /\ k.phase = "read"
    /\ Advance(k, IF Conflict(k)
                  THEN [k EXCEPT !.phase = "list", !.seen = shared.tabs]
                  ELSE [k EXCEPT !.phase = "write"])
    /\ UNCHANGED <<fileVars, deviceVars, watchVars, remoteVars, next, history>>

\* The file could not be read: the snapshot is written as it is.
FlushReadFails(k) ==
    /\ "read" \in Faults
    /\ k.phase = "read"
    /\ Advance(k, [k EXCEPT !.phase = "write"])
    /\ UNCHANGED <<fileVars, deviceVars, watchVars, remoteVars, next, history>>

FlushMerge(k) ==
    /\ k.phase = "list"
    /\ Advance(k, [k EXCEPT !.phase = "write", !.seen = {},
                            !.tabs = MergeTabSets(k.tabs, k.seen, live)])
    /\ UNCHANGED <<fileVars, deviceVars, watchVars, remoteVars, next, history>>

\* No connection is cached any more: no merge, the snapshot is written.
FlushMergeSkipped(k) ==
    /\ "handle" \in Faults
    /\ k.phase = "list"
    /\ Advance(k, [k EXCEPT !.phase = "write", !.seen = {}])
    /\ UNCHANGED <<fileVars, deviceVars, watchVars, remoteVars, next, history>>

\* Listing the sessions fails: it returns the empty list, not an error.
FlushListFails(k) ==
    /\ "list" \in Faults
    /\ k.phase = "list"
    /\ Advance(k, [k EXCEPT !.phase = "write", !.seen = {},
                            !.tabs = MergeTabSets(k.tabs, k.seen, {})])
    /\ UNCHANGED <<fileVars, deviceVars, watchVars, remoteVars, next, history>>

FlushWrite(k) ==
    /\ k.phase = "write"
    /\ shared' = [ver |-> k.ver, ws |-> k.ws, tabs |-> k.tabs]
    /\ Advance(k, [k EXCEPT !.phase = "device"])
    /\ UNCHANGED <<devfile, deviceVars, watchVars, remoteVars, next, history>>

\* A failed write is logged; the device file is still attempted.
FlushWriteFails(k) ==
    /\ "write" \in Faults
    /\ k.phase = "write"
    /\ Advance(k, [k EXCEPT !.phase = "device"])
    /\ UNCHANGED <<fileVars, deviceVars, watchVars, remoteVars, next, history>>

FlushDevice(k) ==
    /\ k.phase = "device"
    /\ devfile' = [devfile EXCEPT ![k.dev] = [there |-> TRUE, hidden |-> k.hid]]
    /\ tasks' = tasks \ {k}
    /\ UNCHANGED <<shared, deviceVars, watchVars, remoteVars, next, history>>

FlushDeviceFails(k) ==
    /\ "write" \in Faults
    /\ k.phase = "device"
    /\ tasks' = tasks \ {k}
    /\ UNCHANGED <<fileVars, deviceVars, watchVars, remoteVars, next, history>>

FlushStep(k) ==
    \/ FlushRead(k) \/ FlushReadFails(k)
    \/ FlushMerge(k) \/ FlushMergeSkipped(k) \/ FlushListFails(k)
    \/ FlushWrite(k) \/ FlushWriteFails(k)
    \/ FlushDevice(k) \/ FlushDeviceFails(k)

-----------------------------------------------------------------------------
(***************************************************************************)
(* Tabs and their tmux sessions.                                           *)
(***************************************************************************)
Opening(d, t) == [dev |-> d, uuid |-> t.uuid, tmux |-> t.tmux]

\* The tabs without a channel: being attached, waiting for it, or dead.
Detached == opening \union waiting \union dead

\* The tabs whose channel is attached to session s.
AttachedTo(s) ==
    {e \in [dev : Device, uuid : Uuid] :
        \E t \in tabs[e.dev] :
            /\ t.uuid = e.uuid
            /\ t.tmux = s
            /\ Opening(e.dev, t) \notin Detached}

\* Tabs that go take their state of connection with them.
Forget(d, gone) ==
    /\ waiting' = waiting \ {Opening(d, t) : t \in gone}
    /\ dead' = dead \ {Opening(d, t) : t \in gone}

\* Mutant: the session is named by the uuid of its tab.
AttachTabByUuid(o) ==
    /\ o \in opening
    /\ opening' = opening \ {o}
    /\ live' = live \union {o.uuid}
    /\ UNCHANGED <<fileVars, deviceVars, watchVars, named, waiting, dead, exits, kills,
                   tasks, next, history>>

\* The connect task of a tab ends well: tmux new-session -A attaches to the
\* session and creates it if it is not there, also when the tab is closed by now.
AttachTab(o) ==
    /\ o \in opening
    /\ opening' = opening \ {o}
    /\ live' = live \union {o.tmux}
    /\ UNCHANGED <<fileVars, deviceVars, watchVars, named, waiting, dead, exits, kills,
                   tasks, next, history>>

\* Mutant: a tab whose attach failed is neither retried nor shown dead.
AttachFailsSilently(o) ==
    /\ "attach" \in Faults
    /\ o \in opening
    /\ opening' = opening \ {o}
    /\ Take(0, 0, 0, 1)
    /\ UNCHANGED <<fileVars, deviceVars, watchVars, live, named, waiting, dead, exits,
                   kills, tasks, history>>

\* It ends with an error, before or after the session was created.  A tab that is
\* still there waits for a retry, or is dead if the error is a permanent one.
AttachFails(o) ==
    /\ "attach" \in Faults
    /\ o \in opening
    /\ opening' = opening \ {o}
    /\ live' \in {live, live \union {o.tmux}}
    /\ \/ /\ o.uuid \in UuidsIn(tabs[o.dev])
          /\ waiting' = waiting \union {o}
          /\ UNCHANGED dead
       \/ /\ o.uuid \in UuidsIn(tabs[o.dev])
          /\ dead' = dead \union {o}
          /\ UNCHANGED waiting
       \/ /\ o.uuid \notin UuidsIn(tabs[o.dev])
          /\ UNCHANGED <<waiting, dead>>
    /\ Take(0, 0, 0, 1)
    /\ UNCHANGED <<fileVars, deviceVars, watchVars, named, exits, kills, tasks,
                   history>>

\* The reconnect tick starts the next attempt of a waiting tab.
RetryAttach(o) ==
    /\ o \in waiting
    /\ waiting' = waiting \ {o}
    /\ opening' = opening \union {o}
    /\ UNCHANGED <<fileVars, deviceVars, watchVars, live, named, dead, exits, kills,
                   tasks, next, history>>

\* The channel of an attached tab breaks while its session may go on.  The tab is
\* attached again behind its overlay, or is dead if no attempt is left.
LoseChannel(d, t) ==
    LET o == Opening(d, t)
    IN  /\ "channel" \in Faults
        /\ [dev |-> d, uuid |-> t.uuid] \in AttachedTo(t.tmux)
        /\ [dev |-> d, uuid |-> t.uuid] \notin exits
        /\ \/ opening' = opening \union {o} /\ UNCHANGED dead
           \/ dead' = dead \union {o} /\ UNCHANGED opening
        /\ Take(0, 0, 0, 1)
        /\ UNCHANGED <<fileVars, deviceVars, watchVars, live, named, waiting, exits,
                       kills, tasks, history>>

\* ReconnectTab: the button on a dead tab.
ReconnectDead(d, t) ==
    /\ UserOp("reconnect")
    /\ Opening(d, t) \in dead
    /\ dead' = dead \ {Opening(d, t)}
    /\ opening' = opening \union {Opening(d, t)}
    /\ Take(0, 0, 0, 1)
    /\ UNCHANGED <<fileVars, deviceVars, watchVars, live, named, waiting, exits, kills,
                   tasks, history>>

\* Mutant: the channels end without a message.
EndSessionUnheard(s) ==
    /\ live' = live \ {s}
    /\ UNCHANGED exits

\* A session ends and every channel attached to it sees the end; a detached tab
\* hears nothing.
EndSession(s) ==
    /\ live' = live \ {s}
    /\ exits' = exits \union AttachedTo(s)

\* Mutant: every session of the server is killed.
ExecuteKillAll(k) ==
    /\ k \in kills
    /\ kills' = kills \ {k}
    /\ live' = {}
    /\ UNCHANGED <<fileVars, deviceVars, watchVars, named, opening, waiting, dead,
                   exits, tasks, next, history>>

\* kill-session reaches the server; there may be nothing left to kill.
ExecuteKill(k) ==
    /\ k \in kills
    /\ kills' = kills \ {k}
    /\ IF k.tmux \in live THEN EndSession(k.tmux) ELSE UNCHANGED <<live, exits>>
    /\ UNCHANGED <<fileVars, deviceVars, watchVars, named, opening, waiting, dead,
                   tasks, next, history>>

\* No connection can be had for it: the kill is logged and forgotten.
KillFails(k) ==
    /\ "handle" \in Faults
    /\ k \in kills
    /\ kills' = kills \ {k}
    /\ UNCHANGED <<fileVars, deviceVars, watchVars, live, named, opening, waiting,
                   dead, exits, tasks, next, history>>

\* Somebody leaves the shell: the session ends by itself.
ShellExit(s) ==
    /\ UserOp("exit")
    /\ s \in live
    /\ EndSession(s)
    /\ ended' = ended \union {s}
    /\ Take(0, 0, 0, 1)
    /\ UNCHANGED <<fileVars, deviceVars, watchVars, named, opening, waiting, dead,
                   kills, tasks, putaway, found, missed, discarded>>

\* close_tab_in_window: the tab goes, the state is flushed at once (no
\* debounce), and a task of its own kills the tmux session.
CloseTab(d, t) ==
    /\ t \in tabs[d]
    /\ tabs' = [tabs EXCEPT ![d] = @ \ {t}]
    /\ FlushState(d, tabs'[d], hidden[d])
    /\ kills' = kills \union {[dev |-> d, tmux |-> t.tmux]}
    /\ putaway' = [putaway EXCEPT ![d] = @ \union {t}]
    /\ Forget(d, {t})
    /\ UNCHANGED <<fileVars, conn, pending, hidden, watchVars, live, named, opening,
                   found, missed, discarded>>

UserCloses(d, t) ==
    /\ UserOp("close")
    /\ CloseTab(d, t)
    /\ ended' = ended \union {t.tmux}
    /\ Take(0, 0, Spawned(d), 1)
    /\ UNCHANGED exits

\* SshDisconnected("session exited"): the tab closes itself, if it is there.
SessionExited(e) ==
    /\ e \in exits
    /\ exits' = exits \ {e}
    /\ \/ \E t \in tabs[e.dev] :
             /\ t.uuid = e.uuid
             /\ CloseTab(e.dev, t)
             /\ Take(0, 0, Spawned(e.dev), 0)
             /\ UNCHANGED ended
       \/ /\ e.uuid \notin UuidsIn(tabs[e.dev])
          /\ UNCHANGED <<fileVars, deviceVars, watchVars, live, named, opening,
                         waiting, dead, kills, tasks, next, history>>

\* NewTab asks for connection parameters, not for an established connection:
\* "+ New window" on the server's card works while it is being connected.
NewTab(d) ==
    /\ UserOp(IF conn[d] = "on" THEN "new" ELSE "early")
    /\ conn[d] # "off"
    /\ LET t == [uuid |-> next.uuid, tmux |-> next.session]
       IN  /\ tabs' = [tabs EXCEPT ![d] = @ \union {t}]
           /\ opening' = opening \union {Opening(d, t)}
    /\ SaveState(d, tabs'[d], hidden[d])
    /\ Take(1, 1, SaveSpawned(d), 1)
    /\ named' = [named EXCEPT ![next.session] = cache[d].ws]
    /\ UNCHANGED <<fileVars, conn, pending, hidden, watchVars, live, waiting, dead,
                   exits, kills, history>>

\* A rename, a moved window: the state is saved, the set of tabs is the same.
TouchTabs(d) ==
    /\ UserOp("touch")
    /\ tabs[d] # {}
    /\ SaveState(d, tabs[d], hidden[d])
    /\ Take(0, 0, SaveSpawned(d), 1)
    /\ UNCHANGED <<fileVars, conn, pending, tabs, hidden, watchVars, remoteVars,
                   history>>

HideTab(d, t) ==
    /\ UserOp("hide")
    /\ t \in tabs[d]
    /\ tabs' = [tabs EXCEPT ![d] = @ \ {t}]
    /\ hidden' = [hidden EXCEPT ![d] = @ \union {t.uuid}]
    /\ SaveState(d, tabs'[d], hidden'[d])
    /\ putaway' = [putaway EXCEPT ![d] = @ \union {t}]
    /\ Forget(d, {t})
    /\ Take(0, 0, SaveSpawned(d), 1)
    /\ UNCHANGED <<fileVars, conn, pending, watchVars, live, named, opening, exits,
                   kills, ended, found, missed, discarded>>

\* RestoreHiddenSession looks the session up in the cached state.  The first
\* save_state comes before the tab is opened, the second is within 2 seconds.
RestoreHidden(d, u) ==
    /\ UserOp("restore")
    /\ conn[d] # "off"
    /\ u \in hidden[d]
    /\ hidden' = [hidden EXCEPT ![d] = @ \ {u}]
    /\ \/ \E saved \in cache[d].tabs :
             /\ saved.uuid = u
             /\ LET t == [uuid |-> next.uuid, tmux |-> saved.tmux]
                IN  /\ tabs' = [tabs EXCEPT ![d] = @ \union {t}]
                    /\ opening' = opening \union {Opening(d, t)}
             /\ IF recent[d] THEN UNCHANGED <<recent, cache, tasks>>
                ELSE /\ recent' = [recent EXCEPT ![d] = TRUE]
                     /\ cache' = [cache EXCEPT ![d].tabs = tabs[d]]
                     /\ tasks' = tasks \union SpawnedTasks(d, tabs[d], hidden'[d])
             /\ dirty' = [dirty EXCEPT ![d] = TRUE]
             /\ Take(1, 0, SaveSpawned(d), 1)
       \/ /\ u \notin UuidsIn(cache[d].tabs)
          /\ SaveState(d, tabs[d], hidden'[d])
          /\ Take(0, 0, SaveSpawned(d), 1)
          /\ UNCHANGED <<tabs, opening>>
    /\ UNCHANGED <<fileVars, conn, pending, watchVars, live, named, waiting, dead,
                   exits, kills, history>>

-----------------------------------------------------------------------------
(***************************************************************************)
(* Connecting: launch_server_connect lists the sessions and then reads the *)
(* state files; ServerConnected restores the tabs from what it brought.    *)
(***************************************************************************)
\* Connect has no guard: the server form connects a connected server again.
Connect(d) ==
    /\ conn[d] = "on" => UserOp("again")
    /\ pending[d].phase = "none"
    /\ conn' = [conn EXCEPT ![d] = IF @ = "on" THEN "on" ELSE "connecting"]
    /\ pending' = [pending EXCEPT ![d].phase = "list"]
    /\ Take(0, 0, 0, 1)
    /\ UNCHANGED <<fileVars, tabs, hidden, cache, dirty, recent, watchVars,
                   remoteVars, tasks, history>>

ConnectList(d) ==
    /\ pending[d].phase = "list"
    /\ \E listed \in {live} \union (IF "list" \in Faults THEN {{}} ELSE {}) :
          pending' = [pending EXCEPT ![d].phase = "read", ![d].sessions = listed]
    /\ UNCHANGED <<fileVars, conn, tabs, hidden, cache, dirty, recent, watchVars,
                   remoteVars, tasks, next, history>>

ConnectRead(d) ==
    /\ pending[d].phase = "read"
    /\ pending' = [pending EXCEPT ![d].phase = "done", ![d].shared = shared,
                                  ![d].file = devfile[d]]
    /\ UNCHANGED <<fileVars, conn, tabs, hidden, cache, dirty, recent, watchVars,
                   remoteVars, tasks, next, history>>

\* The attempt fails; current_conn stays set and the user may try again.
ConnectFails(d) ==
    /\ "connect" \in Faults
    /\ pending[d].phase # "none"
    /\ pending' = [pending EXCEPT ![d] = NoAttempt]
    /\ UNCHANGED <<fileVars, conn, tabs, hidden, cache, dirty, recent, watchVars,
                   remoteVars, tasks, next, history>>

\* The user disconnected while the attempt was in flight.
ConnectDiscarded(d) ==
    /\ pending[d].phase = "done"
    /\ conn[d] = "off"
    /\ pending' = [pending EXCEPT ![d] = NoAttempt]
    /\ UNCHANGED <<fileVars, conn, tabs, hidden, cache, dirty, recent, watchVars,
                   remoteVars, tasks, next, history>>

\* hidden_sessions comes from the device file, without the uuids the saved
\* state no longer has (if it has any).
LoadedHidden(d, p) ==
    LET h == IF p.file.there THEN p.file.hidden ELSE hidden[d]
    IN  IF p.shared.tabs # {} THEN h \intersect UuidsIn(p.shared.tabs) ELSE h

SavedOn(p, s) == {t \in p.shared.tabs : t.tmux = s}

\* Without a file the device starts a workspace of its own.
WorkspaceOf(p) == IF p.shared.ver = 0 THEN next.ver ELSE p.shared.ws

\* The listed sessions of the workspace that no open tab has.
Candidates(d, p) ==
    {s \in p.sessions \ SessionsIn(tabs[d]) :
        SavedOn(p, s) # {} \/ named[s] = WorkspaceOf(p)}

\* Mutant: a session that no saved tab knows is left alone.
RestorableSavedOnly(d, p) ==
    {{s \in Candidates(d, p) :
        \E t \in SavedOn(p, s) : t.uuid \notin LoadedHidden(d, p)}}

\* A session is restored unless the first saved tab on it is a hidden one;
\* which of several saved tabs comes first is left open.  An orphan, on which
\* no tab is saved, is restored.
Restorable(d, p) ==
    LET Hid(s)   == \E t \in SavedOn(p, s) : t.uuid \in LoadedHidden(d, p)
        Shown(s) == \E t \in SavedOn(p, s) : t.uuid \notin LoadedHidden(d, p)
    IN  {r \in SUBSET Candidates(d, p) : \A s \in Candidates(d, p) :
            IF s \in r THEN Shown(s) \/ ~Hid(s) ELSE Hid(s)}

\* Fresh tabs on a set of sessions, numbered in session order.
FreshTabs(first, ss) ==
    {[uuid |-> first + Cardinality({r \in ss : r < s}), tmux |-> s] : s \in ss}

\* What is left of the open tabs when something is restored: those whose
\* session the saved state knows; the others count as placeholders.
KeptTabs(d, p, restored) ==
    IF restored = {} THEN tabs[d]
    ELSE {t \in tabs[d] : t.tmux \in SessionsIn(p.shared.tabs)}

\* Waiting tabs of the saved state whose session is not on the list are given up.
Vanished(d, p) ==
    {o \in waiting : /\ o.dev = d
                     /\ o.uuid \in UuidsIn(p.shared.tabs)
                     /\ o.tmux \notin p.sessions}

\* reconcile_sessions, from the choice of what to restore on.  Opening the first
\* restored tab saves the state (a flush unless one was less than 2 seconds
\* ago), and the handler that calls it ends with a flush of its own.
Reconcile(d, p, restored) ==
    LET kept   == KeptTabs(d, p, restored)
        opened == FreshTabs(next.uuid, restored)
        fresh  == IF kept \union opened = {}
                  THEN {[uuid |-> next.uuid, tmux |-> next.session]}
                  ELSE {}
        all    == kept \union opened \union fresh
        first  == {t \in opened \union fresh : t.uuid = next.uuid}
        early  == IF first # {} /\ ~recent[d] THEN 1 ELSE 0
        hid    == LoadedHidden(d, p)
        gone   == {Opening(d, t) : t \in tabs[d] \ kept}
        Task_(ver, ts) == [FlushTask(d, ver, ts, hid) EXCEPT
                                  !.base = p.shared.ver, !.ws = WorkspaceOf(p)]
    IN  /\ tabs' = [tabs EXCEPT ![d] = all]
        /\ hidden' = [hidden EXCEPT ![d] = hid]
        /\ cache' = [cache EXCEPT ![d] =
                          [ver |-> p.shared.ver, ws |-> WorkspaceOf(p), tabs |-> all]]
        /\ tasks' = tasks
              \union {Task_(next.ver, kept \union first) : x \in 1 .. early}
              \union {Task_(next.ver + early, all)}
        /\ opening' = opening \union {Opening(d, t) : t \in opened \union fresh}
        /\ waiting' = waiting \ (Vanished(d, p) \union gone)
        /\ dead' = (dead \union Vanished(d, p)) \ gone
        /\ kills' = kills \union {[dev |-> d, tmux |-> t.tmux] : t \in tabs[d] \ kept}
        /\ named' = [s \in Session |-> IF s \in SessionsIn(fresh)
                                      THEN WorkspaceOf(p) ELSE named[s]]
        /\ Take(Cardinality(restored) + Cardinality(fresh),
                Cardinality(fresh), early + 1, 0)
        /\ discarded' = [discarded EXCEPT ![d] = @ \union SessionsIn(tabs[d] \ kept)]
        /\ missed' = [missed EXCEPT ![d] =
                          @ \union (SessionsIn(p.shared.tabs)
                                        \ (p.sessions \union SessionsIn(tabs[d])))]

ServerConnected(d) ==
    /\ pending[d].phase = "done"
    /\ conn[d] # "off"
    /\ \E restored \in Restorable(d, pending[d]) : Reconcile(d, pending[d], restored)
    /\ found' = [found EXCEPT ![d] = Candidates(d, pending[d]) \union SessionsIn(tabs[d])]
    /\ conn' = [conn EXCEPT ![d] = "on"]
    /\ pending' = [pending EXCEPT ![d] = NoAttempt]
    /\ dirty' = [dirty EXCEPT ![d] = FALSE]
    /\ recent' = [recent EXCEPT ![d] = TRUE]
    /\ mail' = [mail EXCEPT ![d] = {}]
    /\ emitted' = [emitted EXCEPT ![d] = 0]
    /\ UNCHANGED <<fileVars, live, exits, ended, putaway>>

\* DisconnectServer: windows close, every tab is hidden in memory, the sessions
\* stay.  The save_state at its end finds no syncer and writes nothing.
Disconnect(d) ==
    /\ UserOp("disconnect")
    /\ conn[d] # "off"
    /\ conn' = [conn EXCEPT ![d] = "off"]
    /\ hidden' = [hidden EXCEPT ![d] = @ \union UuidsIn(tabs[d])]
    /\ putaway' = [putaway EXCEPT ![d] = @ \union tabs[d]]
    /\ tabs' = [tabs EXCEPT ![d] = {}]
    /\ cache' = [cache EXCEPT ![d] = NoDoc]
    /\ dirty' = [dirty EXCEPT ![d] = recent[d]]
    /\ recent' = [recent EXCEPT ![d] = TRUE]
    /\ mail' = [mail EXCEPT ![d] = {}]
    /\ emitted' = [emitted EXCEPT ![d] = 0]
    /\ found' = [found EXCEPT ![d] = {}]
    /\ Forget(d, tabs[d])
    /\ Take(0, 0, 0, 1)
    /\ UNCHANGED <<fileVars, pending, live, named, opening, exits, kills, tasks, ended,
                   missed, discarded>>

\* The process dies: memory and everything in flight from it is gone.
Crash(d) ==
    /\ UserOp("crash")
    /\ conn' = [conn EXCEPT ![d] = "off"]
    /\ pending' = [pending EXCEPT ![d] = NoAttempt]
    /\ tabs' = [tabs EXCEPT ![d] = {}]
    /\ hidden' = [hidden EXCEPT ![d] = {}]
    /\ cache' = [cache EXCEPT ![d] = NoDoc]
    /\ dirty' = [dirty EXCEPT ![d] = FALSE]
    /\ recent' = [recent EXCEPT ![d] = FALSE]
    /\ mail' = [mail EXCEPT ![d] = {}]
    /\ emitted' = [emitted EXCEPT ![d] = 0]
    /\ tasks' = {k \in tasks : k.dev # d}
    /\ opening' = {o \in opening : o.dev # d}
    /\ waiting' = {o \in waiting : o.dev # d}
    /\ dead' = {o \in dead : o.dev # d}
    /\ exits' = {e \in exits : e.dev # d}
    /\ kills' = {k \in kills : k.dev # d}
    \* What its user has hidden stays hidden if the device file says so.
    /\ putaway' = [putaway EXCEPT ![d] = {t \in @ : t.uuid \in devfile[d].hidden}]
    /\ found' = [found EXCEPT ![d] = {}]
    /\ missed' = [missed EXCEPT ![d] = {}]
    /\ Take(0, 0, 0, 1)
    /\ UNCHANGED <<fileVars, live, named, ended, discarded>>

-----------------------------------------------------------------------------
(***************************************************************************)
(* The state watcher: a script on the server prints shared.json after      *)
(* every change of it, and the device handles what it prints in order.     *)
(***************************************************************************)
\* Mutant: what the file holds within 2 seconds of a flush is taken for the
\* device's own write and dropped.
WatchEmitDropsEchoes(d) ==
    /\ conn[d] = "on"
    /\ mail[d] = {}
    /\ shared.ver \notin {0, emitted[d]}
    /\ mail' = [mail EXCEPT ![d] = IF recent[d] THEN {} ELSE {shared}]
    /\ emitted' = [emitted EXCEPT ![d] = shared.ver]
    /\ UNCHANGED <<fileVars, deviceVars, remoteVars, tasks, next, history>>

WatchEmit(d) ==
    /\ conn[d] = "on"
    /\ mail[d] = {}
    /\ shared.ver \notin {0, emitted[d]}
    /\ mail' = [mail EXCEPT ![d] = {shared}]
    /\ emitted' = [emitted EXCEPT ![d] = shared.ver]
    /\ UNCHANGED <<fileVars, deviceVars, remoteVars, tasks, next, history>>

\* The tabs of a document that this device neither has open nor has hidden.
RemoteOnly(d, doc) ==
    {t \in doc.tabs : t.uuid \notin UuidsIn(tabs[d]) \union hidden[d]}

\* Every adopted entry is opened as a new tab, with a uuid of its own.
AdoptedTabs(first, news) ==
    {[uuid |-> first + Cardinality({r \in news : r.uuid < t.uuid}), tmux |-> t.tmux] :
        t \in news}

\* A document of another version.  The tabs are opened one by one; the first
\* save_state may flush, and does so before the cache takes the new version.
AdoptRemote(d, doc) ==
    LET news   == RemoteOnly(d, doc)
        opened == AdoptedTabs(next.uuid, news)
        flush  == news # {} /\ ~recent[d]
    IN  /\ doc.ver # cache[d].ver
        /\ tabs' = [tabs EXCEPT ![d] = @ \union opened]
        /\ opening' = opening \union {Opening(d, t) : t \in opened}
        /\ \/ /\ flush
              /\ \E t \in opened :
                    tasks' = tasks \union
                        SpawnedTasks(d, tabs[d] \union {t}, hidden[d])
              /\ dirty' = [dirty EXCEPT ![d] = Cardinality(news) > 1]
              /\ recent' = [recent EXCEPT ![d] = TRUE]
           \/ /\ ~flush
              /\ dirty' = [dirty EXCEPT ![d] = @ \/ news # {}]
              /\ UNCHANGED <<recent, tasks>>
        /\ Take(Cardinality(news), 0, IF flush THEN 1 ELSE 0, 0)
        /\ cache' = [cache EXCEPT ![d] = doc]

RemoteStateChanged(d) ==
    \E doc \in mail[d] :
    /\ mail' = [mail EXCEPT ![d] = {}]
    /\ \/ /\ doc.ver = cache[d].ver
          /\ UNCHANGED <<tabs, cache, dirty, recent, tasks, opening, next>>
       \/ AdoptRemote(d, doc)
    /\ UNCHANGED <<fileVars, conn, pending, hidden, emitted, live, named, waiting,
                   dead, exits, kills, history>>

-----------------------------------------------------------------------------
DeviceStep(d) ==
    \/ Connect(d) \/ ConnectList(d) \/ ConnectRead(d) \/ ConnectFails(d)
    \/ ConnectDiscarded(d) \/ ServerConnected(d)
    \/ Disconnect(d) \/ Crash(d)
    \/ NewTab(d) \/ TouchTabs(d)
    \/ FlushTimer(d) \/ DebounceOver(d)
    \/ WatchEmit(d) \/ RemoteStateChanged(d)
    \/ \E t \in tabs[d] : UserCloses(d, t) \/ HideTab(d, t)
    \/ \E t \in tabs[d] : LoseChannel(d, t) \/ ReconnectDead(d, t)
    \/ \E u \in hidden[d] : RestoreHidden(d, u)

ServerStep ==
    \/ \E k \in tasks : FlushStep(k)
    \/ \E o \in opening : AttachTab(o) \/ AttachFails(o)
    \/ \E o \in waiting : RetryAttach(o)
    \/ \E e \in exits : SessionExited(e)
    \/ \E k \in kills : ExecuteKill(k) \/ KillFails(k)
    \/ \E s \in live : ShellExit(s)

Next == ServerStep \/ \E d \in Device : DeviceStep(d)

Spec == Init /\ [][Next]_vars

(***************************************************************************)
(* What the runtime owes: spawned tasks are polled until they end, timers  *)
(* and the watcher's stream deliver, and the update loop handles every     *)
(* message.  Users, failures and the passing of time owe nothing.          *)
(***************************************************************************)
Fairness ==
    /\ WF_vars(\E k \in tasks :
                    FlushRead(k) \/ FlushMerge(k) \/ FlushWrite(k) \/ FlushDevice(k))
    /\ WF_vars(\E o \in opening : AttachTab(o) \/ AttachFails(o))
    /\ WF_vars(\E o \in waiting : RetryAttach(o))
    /\ WF_vars(\E e \in exits : SessionExited(e))
    /\ WF_vars(\E k \in kills : ExecuteKill(k))
    /\ \A d \in Device :
          /\ WF_vars(ConnectList(d))
          /\ WF_vars(ConnectRead(d))
          /\ WF_vars(ServerConnected(d))
          /\ WF_vars(ConnectDiscarded(d))
          /\ WF_vars(FlushTimer(d))
          /\ WF_vars(WatchEmit(d))
          /\ WF_vars(RemoteStateChanged(d))

FairSpec == Spec /\ Fairness

-----------------------------------------------------------------------------
(***************************************************************************)
(* Properties.                                                             *)
(***************************************************************************)

\* The sessions a device has open, and those it once had open and that its user
\* closed, hid or left behind, or whose end closed the tab.
Accounted(d) == SessionsIn(tabs[d]) \union SessionsIn(putaway[d])

(***************************************************************************)
(* A flush that finds the version its device has cached overwrites the     *)
(* file without merging.  What the device drops from the file that way is  *)
(* only what it has closed or put away, with two exceptions, both of the   *)
(* code's own making: a session whose tab it removed as a placeholder, and *)
(* a session it took the file over with although its list, made before the *)
(* file was read, did not have it.                                         *)
(***************************************************************************)
NoUnseenOverwrite ==
    \A k \in tasks :
        (k.phase = "read" /\ shared.ver # 0 /\ ~Conflict(k)) =>
            SessionsIn(shared.tabs) \subseteq
                Accounted(k.dev) \union missed[k.dev] \union discarded[k.dev]

(***************************************************************************)
(* Without the exceptions, for sessions that run (README, section 4): a    *)
(* tab another device adds between the list and the read is lost.          *)
(***************************************************************************)
NothingOverwrittenUnseen ==
    \A k \in tasks :
        (k.phase = "read" /\ shared.ver # 0 /\ ~Conflict(k)) =>
            SessionsIn(shared.tabs) \intersect live \subseteq Accounted(k.dev)

(***************************************************************************)
(* A tab that looks alive stands for something: its session runs, or an    *)
(* attach that will create it is in flight or due, or the message that     *)
(* closes the tab is underway.  Only a tab shown dead may have nothing.    *)
(***************************************************************************)
TabsAreBacked ==
    \A d \in Device : \A t \in tabs[d] :
        \/ t.tmux \in live
        \/ Opening(d, t) \in Detached
        \/ [dev |-> d, uuid |-> t.uuid] \in exits

(***************************************************************************)
(* A connected device keeps showing every session of its workspace that it *)
(* listed when it connected - saved in shared.json, or named after the     *)
(* workspace uuid it goes by - whatever the watcher reported since, until  *)
(* its user puts the session away or it ends.  The exception is a tab the  *)
(* device removed as a placeholder.                                        *)
(***************************************************************************)
FoundSessionsStayOpen ==
    \A d \in Device : conn[d] = "on" =>
        found[d] \subseteq Accounted(d) \union discarded[d]

(***************************************************************************)
(* "This could be from another device whose state was overwritten, or from *)
(* a crash.  Either way, restore it" (README, section 4): connecting opens *)
(* every listed session that nobody put away.  After a crash before the    *)
(* first shared.json no device knows the workspace uuid in their names.    *)
(***************************************************************************)
OrphansRestored ==
    [][\A d \in Device :
        ServerConnected(d) => pending[d].sessions \subseteq
            (Accounted(d) \union discarded[d])']_vars

(***************************************************************************)
(* One version, one content: two places that hold the same version hold    *)
(* the same document, which is what makes comparing versions enough.       *)
(***************************************************************************)
DocsInUse == {shared} \union {pending[d].shared : d \in Device}
                      \union UNION {mail[d] : d \in Device}

VersionsNameContent ==
    \A a, b \in DocsInUse : a.ver = b.ver => a.tabs = b.tabs

\* The bounds may stop a step that the code would take: nothing is claimed
\* of what must happen after that.
Spent ==
    \/ next.uuid >= MaxUuid
    \/ next.ver >= MaxVersion
    \/ next.session > MaxSession

(***************************************************************************)
(* The watcher keeps up: again and again every connected device has the    *)
(* version of the file cached.  Without it a device would merge           *)
(* against every write, its own included, for as long as it runs.          *)
(***************************************************************************)
CachesCatchUp ==
    \A d \in Device :
        []<>(conn[d] = "on" /\ shared.ver # 0 /\ ~Spent =>
                cache[d].ver = shared.ver)

(***************************************************************************)
(* A tab does not outlive its session: once the session is gone the tab    *)
(* closes itself, or attaching it brings the session back, or the tab is   *)
(* shown dead.                                                             *)
(***************************************************************************)
TabsFollowSessions ==
    \A d \in Device :
        []<>(~Spent => \A t \in tabs[d] :
                t.tmux \in live \/ Opening(d, t) \in dead)

(***************************************************************************)
(* tmux sessions end only when a user ended them, or when a device removed *)
(* their tab as a placeholder (see SessionLife).                           *)
(***************************************************************************)
Discarded == UNION {discarded[d] : d \in Device}

Sessions == INSTANCE SessionLife WITH discarded <- Discarded

OnlyUsersOrDiscardsEndSessions == Sessions!Spec

(***************************************************************************)
(* Without the placeholders (README, section 4): connecting can kill the   *)
(* session of a tab its user has just opened.                              *)
(***************************************************************************)
UserSessions == INSTANCE SessionLife WITH discarded <- {}

OnlyUsersEndSessions == UserSessions!Spec

(***************************************************************************)
(* Claims of comments in the source that the code does not keep.  Each is  *)
(* the one property of a run that shows a counterexample.                  *)
(***************************************************************************)

(***************************************************************************)
(* "close_tab kills tmux immediately.  Any shellkeep tmux session still    *)
(* alive was never explicitly closed": once the kills and the attaches in  *)
(* flight are done, no closed session runs.                                *)
(***************************************************************************)
ClosedSessionsGone == kills = {} /\ opening = {} => ended \intersect live = {}

(***************************************************************************)
(* "The tab dedup below (local_uuids check) prevents duplicates": a device *)
(* never has two tabs on one session.                                      *)
(***************************************************************************)
NoDuplicateTabs ==
    \A d \in Device : \A t, u \in tabs[d] : t.tmux = u.tmux => t = u

(***************************************************************************)
(* "Adds the session UUID to hidden_sessions so it won't be auto-restored":*)
(* connecting again with a device file that lists all hidden sessions does *)
(* not open a tab on a session the user hid.                               *)
(***************************************************************************)
HiddenNotRestored ==
    [][\A d \in Device :
        (ServerConnected(d) /\ hidden[d] \subseteq pending[d].file.hidden) =>
            SessionsIn(tabs'[d] \ tabs[d]) \intersect SessionsIn(putaway[d]) = {}]_vars
=============================================================================
