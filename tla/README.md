# shellkeep in TLA+

shellkeep keeps terminal tabs alive on an SSH server: every tab is attached to
a tmux session there, several devices may use the same server at once, and the
layout (which tabs, in which windows and workspaces) lives in JSON files on the
server that the devices merge, watch and rewrite. This directory holds TLA+
models of the parts of shellkeep whose correctness depends on the order of
things: TLC model-checks them on small instances, and TLAPS proves theorems
about them for every instance. Paths below are relative to the repository
(`src/...`).

Contents: [1 inventory](#1-inventory) · [2 modules](#2-modules) ·
[3 runs](#3-runs) · [4 what the code does not keep](#4-what-the-code-does-not-keep) ·
[5 proofs](#5-proofs) · [6 bounds and fairness](#6-bounds-abstractions-fairness) ·
[7 plan](#7-plan) · [8 not modelled](#8-not-modelled)

## 1. Inventory

One process is one device: an iced application with a single update loop
(`app/update.rs`). Handlers run to completion one at a time; everything slow is
a task spawned on tokio, or a subscription, that talks to the server over SSH
and answers with a message. Between two handlers anything may have happened:
that, and several devices writing the same files, is where the difficulty is.

| Component | State | Operations | Talks to |
|---|---|---|---|
| Merge-on-flush `state/merge.rs` | none (pure) | `merge_shared_states`, `merge_workspace`, `merge_tab`, `filter_workspace` | called by the flush task |
| State sync `app/mod.rs`, `app/update.rs`, `app/state_watcher.rs` | windows and tabs, `hidden_sessions`, `cached_shared_state`, `state_dirty`, `last_state_save`; on the server `shared.json`, `clients/<id>.json` | `save_state`, `flush_state` and the task it spawns, opening / closing / hiding / restoring tabs, connect, `reconcile_sessions`, disconnect, `handle_remote_state_change` | files by SFTP, tmux by exec, the watcher by its channel |
| Device registry `ssh/lock.rs` | the list of connected devices, in an environment variable of a tmux session | `join_workspace`, `heartbeat`, `leave_workspace` | tmux by exec; called when connecting, by a timer, when disconnecting |
| tmux commands `ssh/tmux.rs` | the sessions on the server | list, create, kill, rename | exec |
| Tab lifecycle `app/tab.rs`, `app/session.rs`, `app/update.rs` | per tab: connection state, holder of the channel, attempt count, terminal; the password dialog's tab | start, answer, stream, disconnected, auto-reconnect tick, cancel, password, network change | attempts (tasks), streams (subscriptions), SSH channels |
| Windows and dialogs `app/mod.rs`, `app/update.rs`, `app/view/*` | windows, their tabs and `active_tab`, `window_order`, `focused_window`, `hidden_windows`, the close dialog | open, close, hide, move and restore tabs and windows; focus; reports of the window system | state sync, tab lifecycle |
| Connections `ssh/manager.rs`, `ssh/connection.rs`, `ssh/known_hosts.rs`, `app/session.rs` | cached SSH handles by key, server identities, `known_hosts`, a mutex | get or connect, health check, evict, host-key check, authentication, channels | everything remote |
| Remote files `ssh/sftp.rs`, `app/state_watcher.rs` | `shared.json` and its temporaries, the watcher script and stream | `write_file_atomic` over SFTP and over the shell, read, watch, restart | state sync |
| Workspaces `app/update.rs`, `state/workspace.rs` | `current_workspace`, `workspace_list`, workspaces in `shared.json` and in the cache, hidden windows | create, rename, remove, new window, restore, connect, clear | state sync, windows |
| History `state/history.rs` | per session a JSONL file, per tab a writer | append, rotate, total limit, clean-up, read back | tabs |
| The rest | see [section 8](#8-not-modelled) | | |

How the core works. `flush_state` takes a snapshot of all tabs under a fresh
version uuid, remembers the cached version, and spawns a task: read
`shared.json`; if its version is not the cached one, list the live sessions and
merge; write the file; write the device's own file. A watcher on the server
reports every change of the file, and the handler of that message opens tabs
for entries the device does not have, and caches the document. Connecting reads
sessions and files, and `reconcile_sessions` rebuilds the tabs: from the saved
entries whose session is alive, from the live sessions no entry mentions
("orphans"), and without the placeholder tabs. tmux sessions must survive all
of it: only a user ends one, apart from those of the placeholder tabs.

**Hard behaviours** (each with its line under `hazards` in `PROJECT.json`):
several flush tasks in flight, of one device or of two, nothing ordering them;
the version they compare against is the one cached when they were spawned; the
listing, the connection, a read or a write failing in the middle; the process
dying between the two writes, or before the first; a kill racing the attach
that creates the session again; a device hearing its own write; read-modify-
write of the registry by two devices, its session killed meanwhile; timers
against thresholds; indices kept across messages that change the list; windows
that are closed, reported closed and focused by different parties; tasks that
check, evict and dial one server at once; a file replaced in several steps under
readers and watchers; names of workspaces that windows, cache, list and file hold
at the same time; a log that is cut short.

**What makes each component correct.** *Merge*: no live tab is lost or doubled,
the newest edit wins, two devices merging the same pair get the same entries,
merging one's own merge changes nothing. *State sync*: a file is overwritten
without a merge only if the device has seen what it holds; an open tab has a
session, an attach or a close underway, or is shown dead; what a device finds of its
workspace at connect stays open until its user puts it away; one version never names two
contents; caches catch up with the file; a tab follows its session. *tmux sessions*: they
end only after a user ended them or a connect discarded their tab. What the code itself
puts between it and these aims is named in the properties, and shown in section 4. *Registry*: while nothing races, every connected device is
listed, and never taken for an orphan; no device vouches for another; races
heal. *Tab lifecycle*: no tab waits for an answer that never comes or is
connected to a channel nobody reads; late answers and stale reports leave a
working connection alone; a prompt never tears one down; cut-off tabs come back.
*Windows*: whatever is closed, hidden or restored, a session stays within its
user's reach, unless it is restored when the cache no longer lists it; an answered dialog closes what it asked about; the focus is on a
window that is there. *Connections*: one entry per server, one pinned key per
host. *Files*: a reader never sees half a document, a
watcher misses nothing it can tell that stays. *Workspaces*: with one device, no session gets lost between
names, unless its workspace is removed without listing it or its name is given to another; the list follows the file. *History*: what is read back was printed, in
that order; an append cut short between two characters costs a line or two.

## 2. Modules

| Module | Models | Kind |
|---|---|---|
| `TabMerge` | `state/merge.rs`, whole | operators |
| `StateSync` | save, flush, tab operations, connect, reconcile, disconnect, crash, watcher | state machine; EXTENDS `TabMerge` |
| `SessionLife` | what is promised of tmux sessions | abstract specification, implemented by `StateSync` |
| `DeviceRegistry` | `ssh/lock.rs`, its heartbeat timer and the connects and disconnects that call it | state machine |
| `TabLifecycle` | attempts, answers, streams, reconnect timer, password prompt of one device's tabs | state machine |
| `WindowTabs` | windows, tabs in them, indices, dialogs, focus of one device | state machine |
| `Connections` | connection manager, host keys, authentication, the tasks that connect | state machine |
| `RemoteFile` | reading, replacing and watching `shared.json`, step by step | state machine |
| `AtomicFile` | the register that `StateSync` takes `shared.json` for | abstract specification, implemented by `RemoteFile` |
| `Workspaces` | named workspaces on one server, their dialogs, flushes, windows | state machine |
| `History` | the local record of what sessions print | state machine |
| `StateSync_proofs` | in three parts: types and the numbering of tabs; tabs and sessions (`TabsAreBacked`, the refinement of `SessionLife`, versions, overwriting unmerged, sessions found); what merging does, for documents of any length (EXTENDS `MCTabMerge` too) | TLAPS |
| `DeviceRegistry_proofs`, `TabLifecycle_proofs`, `WindowTabs_proofs`, `RemoteFile_proofs`, `Connections_proofs`, `Workspaces_proofs`, `History_proofs` | theorems of the module they are named for | TLAPS |
| `MCTabMerge`, `MCStateSync`, `MCDeviceRegistry`, `MCTabLifecycle`, `MCWindowTabs`, `MCConnections`, `MCRemoteFile`, `MCWorkspaces`, `MCHistory` | bounded instances | TLC |

### TabMerge

A document is a record of workspaces, hidden windows and tabs with uuid, tmux
session, title, update time and position. Operators carry the names of the Rust
functions. The loops are written as what they compute: local tabs that are
alive, in local order, each merged with the remote tab of the same uuid
(`MergedLocals`), then the remote-only alive tabs in remote order, then positions
renumbered. A filter is given by the *places* it keeps (`AliveAt`, `AdoptedAt`, the
first of each id in `FirstOfEachId`), and `SubSeqAt` is the subsequence at these
places: about `SelectSeq` and folds, which are recursive, nothing can be proved here.
`MergeTabSets` is the same merge when only the set of tabs matters; `StateSync`
uses it, and `LiveTabsSurviveOnce` checks over all small documents that it is the
image of the full one.

### StateSync

| Variable | In the code |
|---|---|
| `shared`, `devfile` | `shared.json`, `clients/<id>.json` on the server |
| `live`, `named` | tmux sessions; the workspace uuid in their names |
| `conn`, `pending` | `current_conn`, and the `launch_server_connect` future |
| `tabs`, `hidden`, `cache`, `dirty`, `recent` | the tabs of all windows, `hidden_sessions`, `cached_shared_state`, `state_dirty`, whether `last_state_save` is less than 2 s ago |
| `mail`, `emitted` | a `RemoteStateChanged` not yet handled; what the watcher sent last |
| `tasks` | spawned flush tasks, each at one of four points: before the read, the listing, the write of `shared.json`, the write of the device file |
| `opening`, `waiting`, `dead` | tabs whose attach is in flight; whose attach failed and will be tried again; that are shown dead |
| `exits`, `kills` | "session exited" messages, spawned kills |
| `ended`, `putaway`, `found` | history, for properties: sessions users ended; per device, the tabs its user closed, hid or left behind (disconnecting) or that closed themselves, of which a crash keeps those the device file says are hidden, and the sessions it listed at connect |
| `missed`, `discarded` | history, for what the code itself does: per device, sessions of saved tabs it took the file over with although its list had not got them; sessions of tabs it removed as placeholders |

One action is one handler, run to completion with all it calls (a close closes
the tab, saves, maybe flushes, and spawns the kill), or one remote call of a
task. Flush: `FlushRead`, `FlushMerge` (listing and merging), `FlushWrite`,
`FlushDevice`, each with the action of its failure. `SaveState` is
`save_state`: flush now, or mark dirty and let `FlushTimer` do it. Connect:
`Connect`, `ConnectList`, `ConnectRead`, then `ServerConnected`, which contains
the parse of the state, `reconcile_sessions` (`Restorable`, `KeptTabs` and, from
the choice of what to restore on, `Reconcile`), the opening of tabs and the
flush. `putaway` remembers what was once put away; restoring it does not make it
forgotten. An attach may fail (`AttachFails`), before or after it made the session, for now
(`RetryAttach` tries again) or for good; the channel of an attached tab may break
(`LoseChannel`); a dead tab has a button (`ReconnectDead`). Only attached tabs hear their
session end (`EndSession`). How attempts go on inside, prompts and cancelling
(`CancelConnect`) are in `TabLifecycle`, what the welcome window opens in `WindowTabs`.
`RemoteStateChanged` is `handle_remote_state_change`; its part for a
document of another version is `AdoptRemote`. `Crash` empties one device and drops its tasks,
attaches and messages; what it had written or created stays.

### SessionLife

`live`, `ended` and `discarded` only: a session starts at any time and stops only after
some user ended it, or the program discarded it. `OnlyUsersOrDiscardsEndSessions` is its
`Spec`, instantiated with the variables of `StateSync` (`discarded` is that of all
devices). The user *ends* a session by closing its tab or leaving its shell; the code
*discards* those of the tabs it takes for placeholders at connect (`KeptTabs`). What
would break it is a kill that follows neither. `OnlyUsersEndSessions` is the same with
nothing discarded, and does not hold (section 4).

### DeviceRegistry

A list of devices is a function from devices to the age of their entry, in
ticks; `Absent` for those not listed. An operation waits in `wanted` until the
device's SSH handle is free (a mutex, so one operation per device at a time),
takes the time and issues one remote command per step, at `pc`: a join asks for
the session, may create it, reads, writes; heartbeat and leave read and write;
`LeaveWrite` writes the others or kills the session. `SetEnvironment` changes
nothing when the session is not there, as tmux does. The heartbeat timer fires
every `2 * Keepalive` ticks; entries orphan after `3 * Keepalive`. `raced`
records that an operation wrote from a list another one had changed since, that
a call failed or a heartbeat was skipped under a connected device.

### TabLifecycle

| Variable | In the code |
|---|---|
| `tabs` | per `Tab`: `conn_state`, its holder (`pending_channel` or `channel`), `attempt` of `Reconnecting`, whether `terminal` is there |
| `slots` | attempts: the spawned task of `start_ssh_connection`, and the `ChannelHolder` (an `Arc`) it shares with the tab |
| `streams` | the subscription `ssh_channel_stream` of each Connected tab |
| `inbox` | `SshConnected` and `SshDisconnected` messages, in the order of posting |
| `prompt` | `password_target_tab` while `show_password_dialog` |
| `reach` | which tabs' connections the network carries at the moment |
| `overtaken` | history: tabs that once had two unanswered attempts |

`Start` is `start_ssh_connection`: a task and a new holder, the tab Connecting.
The task ends with `AttemptSucceeds` or `AttemptFails`, which post a message
that names the tab, not the attempt; `SshConnectedOk`, `SshConnectedErr` and
`SshConnectedRefused` are the three ways `handle_ssh_connected` takes it. A tab
that becomes Connected gets a stream (`Track` is what iced makes of
`subscription`, after every handler), which finds the channel in the holder, or
finds the holder empty and waits for ever (`"parked"`), and in the end posts its
reason: `SessionExited`, `SshDisconnected`. `AutoReconnectTick`,
`NetworkChanged`, `MarkGone` (the part of `reconcile_sessions` about open tabs),
the buttons and the password dialog are the rest. Every handler ends in
`Update`, which also frees holders nobody refers to (`Sweep`).

Attempts of one tab *can* overlap: a user cancels and reconnects before the first
attempt has ended; a report of an old stream arrives during a new attempt. Then
the answer of the first connects the tab on the empty holder of the second, and
the stream parks: the tab looks connected and is dead. The channel of the second
attempt, when it comes, is read by nobody. A cancelled tab is brought back to
reconnecting by the late failure of its attempt. The properties below therefore
speak of tabs outside `overtaken`, and of every tab where they can.

### WindowTabs

| Variable | In the code |
|---|---|
| `win` | `windows`: kind, tabs and `active_tab` of each `AppWindow` (indices from 1) |
| `order`, `focus`, `control` | `window_order`, `focused_window`, `control_window_id` |
| `tab` | what a tab shows (terminal, spinner, dead banner) and its session |
| `hidden`, `hiddenWins` | `hidden_sessions`, `hidden_windows` |
| `dialog` | `pending_close_tabs`, its window, and (history) the tabs its user saw |
| `events` | windows the program closed itself and that are not reported `Closed` yet |
| `within`, `dropped` | history: sessions a window showed and that nobody put away for good; those of them that `RestoreHiddenSession` took off the list without showing them |

Nearly every handler asks for "the active window" when its message is handled:
`ActiveId` is the focused one, else the first of the order. `HasTab` is what the
tab bar draws, `Neighbours` what the menu offers. `CloseTabIn` is
`close_tab_in_window`, which drops an emptied session window but leaves it in
the order and focused until its `Closed` event (`ClosedReported`);
`SessionWindowClosed` is the user closing a window, which becomes a hidden one.
A tab's connection state changes freely (`ConnectionChanges`): how is the matter
of `TabLifecycle`. The two loops, `retain` (`Among`) and closing several tabs from the
last index (`CloseTabsIn`), are functions of how far they have come, since theorems
are proved about them.

### Connections

A task is one of the async functions that want a connection (`connect_server`,
`establish_ssh_session`, a kill, a heartbeat); `task[t].pc` is the await it is at.
`Get` … `Finish` is `connect_server` with `open_tab_channel`: cached handle, a
channel as health check, eviction, dial, duplicate check, use. `GetOrConnect`
holds `mutex` from the lookup to the end of the dial, as the code does.
`HostKeyStatus`, `KeyAccepted`, `AddHostKey` are `known_hosts` and
`check_server_key`; `KeyTries` and `Tries` count what every private key, the agent
and the password use of the server's `MaxAuthTries`: a user with keys for six tries of
six is refused although the password is right, which is arithmetic and needs no run. The
machine behind all names
is one, may be installed anew (`NewHostKey`), ends channels and connections.

### RemoteFile and AtomicFile

A file is an inode of two blocks, so that half a write can be seen. A flush
opens, reads, creates the temporary, writes twice, renames, and takes each
fallback of `write_file_atomic`: unlink and rename again, remove the temporary and
write in place. The shell path is `cat` and `mv` without a test between them
(`DiskFull`). The watcher is its script (`OpenFile`, `Emit`, `Arm`, `ReadEvent`,
`Poll`) on the connection it was started on, and the stream that reads and
restarts it. `Servers` chooses what the server can do. `Register` maps this to
`AtomicFile`: the value is what the name leads to, a read happens when the file is
opened, and a write when the rename replaces it; where the server cannot replace
(`keeps`) nothing is promised.

### Workspaces

The flush of `StateSync` in one step, but with names: `Layout` puts *all* open
tabs into the current workspace of the cached document, as `flush_state` does,
whatever workspace their windows belong to. `list` is `workspace_list`, by which
the dialogs judge names; `Cards` the workspaces of the cache, for which the
control window draws buttons. `NewWindowForWorkspace` and `RestoreHiddenWindows`
change the current name while they run, and a flush in that time uses it.
`ServerConnected` repeats the order of the code: windows are restored under the
name before the device file is read, sessions under the one in it.

### History

A chunk of output is its number; a line of a file holds one, or several when a
line was appended to one without its newline. Every tab has a fresh `session_uuid`
(`app/mod.rs:786`) and so a file of its own; nothing is appended to it once the tab
or the program is gone. `writer` tells whether the handle still leads to the file's
name: `Rotate` renames a new file over it, removals unlink it. `AppendRefused` is a
full disk (it may leave a part of the line, the whole line without its newline, or
a cut character, after which the file is no text), `Crash` a death between text and
newline, `OpenTabFails` an open refused.

## 3. Runs

Passing:

| Run | Asks | States |
|---|---|---|
| `merge` | merging, over every pair of documents with up to 2 tabs of 3 uuids, 3 times, any live set | 99 thousand |
| `sync` | two devices, all user operations, crashes and reconnects, attaches that fail and channels that break | 740 thousand |
| `solo` | one device whose connects, listings, reads, writes, kills and attaches may each fail, whose channels may break; liveness | 403 thousand |
| `registry` | two devices, reads and writes that fail, a skipped heartbeat; liveness | 536 thousand |
| `tabs` | two tabs: attempts, cancels, refusals, prompts, network down and up; liveness | 373 thousand |
| `windows` | three windows, three tabs, all handlers and all reports of the window system | 461 thousand |
| `connections` | two names of one machine, two tasks, three private keys and a password, host keys that change | 1.3 million |
| `files` | two devices flush over five kinds of server, one watches; refinement and liveness | 535 thousand |
| `workspaces` | one device, four operations on tabs, windows and workspaces, renames onto taken names among them, restarts | 1.4 million |
| `remote_workspaces` | three operations, among them a second device's; liveness | 162 thousand |
| `history` | two tabs that print seven chunks, files rotating after three, three faults | 1.4 million |

What they show:

* **LiveTabsSurviveOnce, NewestEditWins, DevicesAgree,
  MergingAgainChangesNothing** – the merge is a
  last-writer-wins union of what is alive. `DevicesAgree` is about the tab
  entries with different times: at equal times the flushing device wins, so
  only there may the two sides differ.
* **NoUnseenOverwrite** – writing without a merge happens when the cached
  version equals the file's, and then the device shows all sessions of the file, or
  its user has closed or put them away. It depends on the handler opening every
  remote tab *before* caching its document. Connecting breaks it in two ways, which are
  named as exceptions: a session that comes into the file after the list was made is
  taken over without being opened (`missed`), and tabs are removed as placeholders
  (`discarded`). Without them: `NothingOverwrittenUnseen`, section 4.
* **TabsAreBacked** – no tab that looks alive stays open over a session nobody will
  bring back, whatever attaches fail and channels break.
* **FoundSessionsStayOpen** – what a connecting device lists of its workspace, saved or
  only named after the uuid it goes by (the orphan rule), it opens and keeps, whatever
  the watcher reports since, until its user puts it away; a placeholder is the exception.
  Of sessions whose workspace uuid no file knows nothing is claimed (`OrphansRestored`,
  section 4).
* **VersionsNameContent** – the comparison by version is as good as comparing
  documents, also when tasks overtake one another.
* **OnlyUsersOrDiscardsEndSessions** – the refinement of `SessionLife`.
* **CachesCatchUp, TabsFollowSessions** – liveness: the device's picture of the file
  is right again and again; a tab whose session is gone closes, or brings it back, or is
  shown dead.
* **AgesHonest, SerialRegistryExact, EntriesStayFresh, HealsAlone** – the
  registry is exact as long as operations do not race; when they do, a device
  that stays gets listed, provided the session of the registry still runs.

* **ConnectingIsUnderway** – a spinner always stands for an attempt of the tab
  still to be answered, also after any overlap: an answer, even of another
  attempt, takes the tab out of Connecting.
* **ConnectedIsServed, WorkingTabsStay** – as long as its attempts never
  overlapped, a connected tab finds its own channel in its own holder, is read,
  and is not disturbed by what is still underway; in particular the report of an
  old stream is handled before the next connection.
* **PromptedTabWaits** – the tab the password dialog speaks of is idle, so that
  submitting starts its only attempt, although ticks, answers for other tabs and
  network changes go on behind the dialog.
* **ReconnectsLimited** – the limit counts tabs by the terminal they show, not by
  who started the attempt, and still bounds the tabs the timer is connecting; attempts
  that a cancelled or closed tab left behind are outside the count.
* **TabsComeBack** – liveness: once the network is back for all tabs, every tab
  that was connecting or waiting is connected, refused, or gone. For all tabs, and
  only if the server in the end decides on each (`ServedSpec`), however often a channel, a
  pty or tmux fails first: the tick takes the first reconnecting tab, so one that fails
  for ever keeps those behind it waiting (`NoTabStarves`, section 4).

* **SessionsWithinReach** – a session that a window once showed stays in a window
  or in `hidden_sessions` until its user ends it, leaves its shell, or lets go of a
  dead tab; over every mixture of closing, hiding, disconnecting, restoring. One
  handler loses sessions and is named as the exception (`dropped`): asked to restore
  a hidden session that the cached state does not list, it takes it off the list.
* **ChosenTabsClose** – closing several tabs by index from the last to the first
  closes those the dialog was opened for, if the window's tabs are as they were.
* **FocusRecovers** – keys never go to a window that is gone for longer than until
  the report of its closing; the closed control window is the one exception.
* `TypeOK` of `WindowTabs` holds that the selection is a tab of its window and that
  `window_order` misses no window.
* **OneEntryPerServer** – the duplicate check after the dial, with eviction and
  disconnect around it, never leaves two entries on one machine and user.
* **PinsAgree** – `known_hosts` never gets a second key for a host, with two tasks
  that both find it unknown and a machine installed anew in between: the mutex
  around the dial is what it rests on.
* **ReplacedAtomically** – the refinement of `AtomicFile`: on a server that replaces
  files, a flush is one read and one write at one instant each.
* **WatchersCatchUp** – liveness: what the file holds when a watcher starts, and
  every later version that the watcher can tell and that stays, is handed on, for
  inotify and for polling with clock ticks of a second. Two kinds it cannot tell, once its
  script has opened the file: with inotify a change before the watch is set, and
  when polling a second write in the second reported last (`missed`, section 4).
* **SessionsKept** (`Workspaces`) – for a device that is alone on the server, creating,
  renaming, hiding, restarting and reconnecting under another name, in whatever state
  flushes and merges are, lead to no running session that the user cannot find again;
  nor does removing a workspace, as far as other workspaces' sessions go. Two
  losses of the code are named as exceptions: sessions named after the removed
  workspace that its cached entry does not list are neither killed nor found again
  (`leftover`; what `RemovalEndsWindows` says is wrong), and so are those of a
  workspace whose name is given to another (`replaced`, shown by `overwrite`).
  A second device makes a third (`two_devices`).
* **ListFollows** – liveness: the list that dialogs judge names by returns to the
  workspaces of the file, which may be changed by another device.
* **ReadsInOrder** – glued lines, rotations, removals and restarts never reorder or
  double what is read back.
* **FaultsCostLittle** – in a file that was not rotated or removed, an append cut
  short between two characters costs itself and the line glued to it. One that ends
  within a character costs the whole file: see `cut` in section 4.

`EntriesStayFresh` needs calls to end in time: an entry written at the last
moment and the next one delayed by `MaxDelay` are `2 * Keepalive + 2 * MaxDelay`
apart, and must not exceed `3 * Keepalive`. `registry` runs with `MaxDelay = 0`;
the tight case `Keepalive = 2, MaxDelay = 1` passes as well (16 million states,
safety only, too long to be a regular run).

Every property is paired with a mutant (`mutants` in `PROJECT.json`; the
definitions marked *Mutant* in the modules): a plausible slip in the code under
which TLC finds it violated.

**Further configurations.** These ask narrower questions, and are not among the
runs of `PROJECT.json`. Passing: `order`
(`MCTabMerge`: a merge keeps local order; hidden windows are united),
`cold` (`MCStateSync`: `TabsAreBacked`, `FoundSessionsStayOpen`,
`VersionsNameContent` from an empty server, with failing calls and crashes, 2.7 million
states), `moves`
(`MCWindowTabs`: reordering tabs leaves the selected one selected). The others end
in a counterexample, next section.

## 4. What the code does not keep

Each of these states what a comment, a dialog or a document of the repository
says; TLC shows that the code does otherwise. `deleted` is a run of
`PROJECT.json`, the others are further configurations.

* `deleted` (`MCWorkspaces`) – "All sessions will be terminated and windows closed"
  (`src/app/view/welcome.rs:962`). `ConfirmDeleteWorkspace` selects windows by the
  prefix `<name>--shellkeep-`, which no session name has had since names carry
  uuids: no window is closed, and only sessions that the cached file lists are
  killed. The tabs left over are then flushed into another workspace.
* `overwrite` (`MCWorkspaces`, `NothingLeftBehind`: `SessionsKept` without its exceptions) – a workspace may be renamed to a name
  that is taken. The one that had it is dropped from the document with its tabs;
  their sessions run on, carry a workspace uuid no file knows, and nothing shows
  them any more.
* `two_devices` (`MCWorkspaces`, `SessionsKept`) – two devices create a workspace of one
  name before either hears of the other's. The documents merge by name and the
  local uuid stays (`merge_workspace`), so the uuid in the names of the other
  device's sessions is that of no workspace; they are found by their entries only. Once this
  device has adopted and hidden them, restoring writes the first restored tab alone;
  if the program ends within the two seconds before the next flush, what is
  not the first tab runs on and is listed nowhere. The attempt to prove
  `SessionsKept` found this.
* `retry` (`MCRemoteFile`) – "state watcher disconnected, will retry"
  (`src/app/update.rs:210`). The restarted stream that finds no connection in the
  manager, because a reconnecting tab has just evicted it, waits on `pending()`
  for ever; reconnecting tabs do not start it again. The syncer is not made anew
  either: nothing sends `StateSyncerReady`.
* `missed` (`MCRemoteFile`) – "On each change: STATE_BEGIN\n<json>\nSTATE_END"
  (`src/app/state_watcher.rs:48`). A write in the second that a polling watcher has
  just reported has the same modification time; a write after the first `cat` and
  before `inotifywait` has its watch raises no event. The device keeps the older
  document until the file changes again.
* `shared` (`MCConnections`) – "Multiple tabs to the same server share one TCP
  connection" (`src/ssh/manager.rs:31`). A task that found a handle dead evicts
  whatever is there when it gets the mutex, a living successor too; a server at
  its `MaxSessions` refuses the channel that is the health check, and its living
  connection is taken for dead.
* `in_use` (`MCConnections`) – "Use the existing entry or disconnect it first", the
  text of a refusal as duplicate. Disconnecting leaves the handle cached, so the
  other name of the machine is still refused.
* `asked` (`MCWindowTabs`) – closing a session with a terminal asks first
  (FR-SESSION-10a, `src/app/update.rs:885`). The dialog keeps indices: a tab that
  closes itself meanwhile shifts them, and another tab is closed unasked.
* `rotated` (`MCHistory`) – "Each session's terminal output is stored as one .jsonl
  file per session UUID" (`src/state/history.rs:8`). After a rotation the writer's
  handle is of the file that was replaced: what the session prints from then on,
  until its tab is closed, goes to a file without a name, which grows unseen.
* `cut` (`MCHistory`) – "read JSONL file, discarding invalid/truncated lines"
  (`src/state/history.rs:60`). The file is read as a string: an append that a full
  disk ends within a character makes reading fail, and nothing of the file is shown.
* `sync.cfg` or `solo.cfg` with `NothingOverwrittenUnseen` in place of the other
  properties – "If another device wrote shared.json since our last read, we merge"
  (`src/app/mod.rs:1356`) is to keep what other devices add. But a connecting device lists
  the sessions first and then reads the file. A tab another device adds in between
  (`sync`), or any tab when the list fails and counts as empty (`solo`), is in the
  document whose version the device caches and not among the tabs it opens; its next flush
  finds the cached version and writes the file without them.
* `sync.cfg` with `OnlyUsersEndSessions` in place of its properties – "This tab's tmux
  session is not in saved state — it was auto-created as a placeholder and is now
  redundant" (`src/app/update.rs:668`). A tab its user opens while a connection attempt is
  in flight is not in the saved state that attempt has read either; if the attempt
  restores anything, the tab is removed and its session killed.
* `cold.cfg` with `OrphansRestored` in place of its invariants – "This could be from another device whose
  state was overwritten, or from a crash. Either way, restore it"
  (`src/app/update.rs:618`). A device that crashes before the first `shared.json` is
  written leaves sessions named after a workspace uuid no file has; the next connect makes
  up another one, and does not take them for its own.
* `closed` – "close_tab kills tmux immediately. Any shellkeep tmux session still
  alive was never explicitly closed" (`src/app/update.rs:585`). The attach of a
  new tab runs `tmux new-session -A`; if the user closes the tab before it runs,
  the kill comes first and the attach creates the session for good.
* `duplicates` – "The tab dedup below (local_uuids check) prevents duplicates"
  (`src/app/update.rs:757`). The tab opened for a remote entry gets a fresh
  uuid, and so is not recognised when the other device's copy of it comes back.
  Two connected devices may copy one session back and forth; only the bounds of
  the model stop them.
* `hidden` – "Adds the session UUID to hidden_sessions so it won't be
  auto-restored" (`src/app/mod.rs:1019`). It leaves `shared.json` with the next
  flush, and the orphan rule, which does not ask `hidden_sessions`, restores it.
* `windows.cfg` with `HiddenSessionsReturn` in place of `SessionsWithinReach` – "keep
  the tmux session alive on the server" (`src/app/mod.rs:1019`), for later. After a
  flush the cached state does not list a hidden tab; `RestoreHiddenSession` then only
  takes it off the list, and until the next connect nothing shows it.
* `missed_beat` – "Set to 3 (not 2) to tolerate one missed heartbeat without
  pruning" (`src/ssh/lock.rs:26`). The heartbeat interval is two keepalive
  intervals, so one miss makes four.
* `lost_registry` – "The heartbeat self-heals this by re-adding the device"
  (`src/ssh/lock.rs:79`). A racing leave may have killed the session of the
  registry, and no heartbeat creates it.

* `limit` – "Max reconnection attempts" (`src/config.rs:78`), "After max
  attempts, tab shows dead state" (`docs/ARCHITECTURE.md:156`). The count is
  part of Reconnecting; the tick turns the tab to Connecting and loses it, the
  failure sets it to 1, and `handle_ssh_connected` never looks at the limit. For
  the same reason the backoff delay, set and dropped in one handler, never delays
  anything: a tab is tried again at every tick.

* `tabs.cfg` with `FairSpec` and `NoTabStarves` in place of `ServedSpec` and its
  properties – the "auto-reconnect timer" (`src/app/mod.rs:1573`) is for every
  reconnecting tab; each tick tries the first (`src/app/update.rs:2494`), and a tab
  whose channel is refused each time keeps the tabs behind it waiting for ever.

Seen while reading, without a configuration: removing a tab to the left moves the
selection by one (the test at `src/app/update.rs:4030` asserts it); a `ServerConnected` that
comes late is accepted although its user has meanwhile chosen another server
(`:3124`); on a first connect no window draws the password dialog, and submitting
without a target does nothing; `StrictHostKeyChecking ask` accepts unknown keys
without asking; a password for one tab makes a new connection and evicts the one the
other tabs share; the manager's mutex is held over a dial;
rotation of a history file drops the last newline, so that the next line is glued to the last one kept;
`NewWindowForWorkspace` and `RestoreWorkspaceHiddenWindows` flush *all* tabs under
the other name, and a removal makes the next workspace current, whose listed tabs the
flush replaces by those open; a removal or rename soon after a flush is undone by the
merge with the device's own file (two names with one uuid, against
`docs/STATE-FORMAT.md:50`); hidden windows of a workspace whose name is gone have no
card to restore them from; devices whose clocks differ by three heartbeats take each
other for orphans; `SwitchWorkspace`, `ShowWorkspaceDialog` and `LockTakeOver` are
raised by nothing. Further: `src/state/merge.rs:20` announces that
orphaned tmux sessions produce new tabs, which the function does not do (the
connect does); `src/state/state_file.rs:208` has `updated_at` change on reorder
and move, which `TabMoveLeft`/`TabMoveRight` do not; `src/ssh/sftp.rs:84` calls
removing the target "safe because" of a lock that guards nothing. The comment at
`src/app/mod.rs:1361` that the watcher makes a lost write "self-healing" is not
claimed here: see `VersionsNameContent` for what is.

## 5. Proofs

`StateSync_proofs`, its first two parts, for any set of devices, any bounds
(`BoundsAssumption`: they are natural numbers), any user operations and any
failing calls:

* **TypeCorrect**: `Spec => []TypeOK`. `TypeOK` is inductive.
  The work is in the numbers: the tabs that reconciling or adopting opens are
  numbered from `next.uuid` by the rank of their session or entry, and
  `FreshTabsNumbered` and `AdoptedTabsNumbered` show that they get distinct uuids
  within what `Take` paid for, from facts about cardinalities (`Ranks`).
* **TabsBacked**: `Spec => []TabsAreBacked`, with attaches that fail and channels that
  break. Alone it is not inductive: handling
  "session exited" takes a message away that another tab may rest on, and closes
  one tab. `SafetyInv` adds three parts. `UuidsNameTabs`: wherever entries lie, in
  windows, the file, watcher messages or flush tasks, one uuid means one tab, and
  uuids from `next.uuid` on mean none; so the message closes the very tab that
  rests on it. `ExitsOwed`: a message that closes a tab is about a session that is `Over`:
  ended by a user or discarded. `KillsOwed`: a kill underway is of such a session. The lemmas
  `NamesKept`, `TabsLeft`, `TabsChanged` and `SessionEnds` say what a step must do
  to keep each part, and `SafeFlush` … `SafeRestore` apply them action by action.
* **SessionsKept**: `Spec => OnlyUsersOrDiscardsEndSessions`, the refinement of
  `SessionLife`. `SessionStep` maps every step: an attach, failing ones included, may start
  a session; closing a tab and leaving a shell end one, connecting discards some; an
  executed kill stops one that was ended or discarded before, by `KillsOwed`; every other
  step stutters, flushes, merges, crashes and failures among them. A tab that closes
  itself also issues a kill, and that one is owed because of `ExitsOwed` and
  `UuidsNameTabs`.

`DeviceRegistry_proofs`, for any set of devices, any `Keepalive >= 1`, any
`MaxDelay`, `MaxMisses` and `MaxOps` (the named assumptions of
`DeviceRegistry`), and whatever calls fail:

* **TypeCorrect**: `Spec => []TypeOK`. Besides types, `TypeOK` holds the two
  facts that later steps rest on: a registry whose session is gone lists nobody,
  and only a join is ever at the commands that look for the session. With them
  it is inductive as it stands. The proof has one step per action; arithmetic on
  ages is in the lemmas `Limits` and `OlderKeeps`, lists in `PrunedIsList` and
  `NobodyIsList`.
* **EntriesHonest**: `Spec => []AgesHonest`. `AgesHonest` alone is not
  inductive: an operation writes a stamp it took earlier, so that stamp too must
  be no younger than its device's last look at the clock. The strengthened
  invariant adds `stamp[d] >= since[d]`; each action copies entries, drops
  them, ages all of them together, or takes the time anew, which lowers
  `since[d]` to 0 first. So a crashed device's entry does become an orphan,
  however the others' reads and writes interleave.

`TabLifecycle_proofs`, for any finite sets of tabs and of attempts in memory, any
limits, and any way the network comes and goes: **TypeCorrect**,
**ConnectingHasAttempt**, **ConnectedHasStream**, **PromptIsSafe**,
**WorkingLeftAlone** and **LimitHolds**, which are all safety properties of the
`tabs` run. None of them is inductive alone; `AttemptsInv` joins them with four
parts. `TabsNamed`: attempts, messages and holders belong to opened tabs, and a
holder to the tab that keeps it. `AnswersOwed`: a posted answer is the only one of
an attempt that waits for it, and a good one has filled the holder. `OneAtATime`:
outside `overtaken` there is one attempt at most, and none behind a connection.
`ReportsInTime`: reports of an old stream lie before the answer of a new attempt,
and none is left when it connects. The actions fall into six kinds of steps
(`QuietStep`, the start of an attempt, its end, its answer, the start and the end
of a stream), one lemma each, and `AttemptsStep` puts every action under its
kind. `ReconnectsLimited` needs `AutoHasTerminal` besides: what the timer
started is counted by `InProgress`. `FirstIs`, that the tick's first tab exists,
is from the well-foundedness of the numbers.

`StateSync_proofs` has further, on top of `SafetyInv`: **VersionsExact**
(`VersionsNameContent`), **OverwritesSeen** (`NoUnseenOverwrite`) and
**FoundAccounted** (`FoundSessionsStayOpen`), for any devices, bounds, user
operations and failing calls. `NoUnseenOverwrite` speaks of the moment of the merge;
what carries it there is `BasesAccounted`: whenever a document anywhere (file,
message, connection attempt) has a version the device may compare with, in its cache
or in one of its flushes, the device knows every session of the document (`Known`: open, put
away, or one of the two exceptions). That rests on `VersionsOK` (a version is new until the one flush that carries it has
written it, so a compared version is never about to be given to another content),
on `RememberedByUuid` and on `HiddenPutAway`: a uuid the device takes for hidden, now
or by what it has written, is that of a tab its user put away. A step of one device
is an `OwnStep`, which states what it may learn, spawn and drop; writes, merges and
other devices' steps have lemmas of their own. The proof found the model wrong: a
crash forgot everything put away, though the device file, read at the next connect,
still hides it. Since then a crash keeps in `putaway` what that file keeps.

The last part of `StateSync_proofs`, of `MergeSpec` in `MCTabMerge`, for any `Uuids`, `MaxTabs`, `MaxTime` and any
live set: **EntriesSurvive** (`LiveTabsSurviveOnce`),
**LastWriterWins** (`NewestEditWins`), **SameEverywhere** (`DevicesAgree`),
**RetryHarmless** (`MergingAgainChangesNothing`), and, of the further configuration
`order`, **OrderIsLocal** (`LocalOrderKept`) and **HiddenSurvive**
(`HiddenWindowsUnited`). The lemmas are about operators and hold for sequences of any
length with distinct uuids (`Mergeable`); `InputsMergeable` shows that all documents
the specification starts from are such. `EnumerationExists` orders any set of places,
and `SubSeqIs` gives the subsequence there, which replaces the induction over a loop.
`MergedFrom` says of each entry of a merge that it *stays* (a local one, with what
the remote one of its uuid adds) or *comes* (remote only); from it follow the set of
tabs (`MergedKeys`: it is `MergeTabSets`, so that `StateSync` rests on the full
merge), the newest edit (`MergedNewest`), and that both sides agree where times
differ (`SourcesAgree`). A merge's own result is `Settled`: it holds all that its
inputs could add, and merging it again `Absorbs` it. Workspace by workspace this gives
the document, and `FirstOfEachId` its hidden windows.

`DeviceRegistry_proofs` also proves **SerialIsExact** (`SerialRegistryExact`) and
**HeartbeatsInTime** (`EntriesStayFresh`), both from the hypothesis
`2 * MaxDelay <= Keepalive`: a heartbeat is due after two keepalive
intervals, an entry is an orphan after three (`LOCK_ORPHAN_MULTIPLIER`), and the delay
of the last write and of the next one must fit in the third. `registry` satisfies it.
`SerialInv` adds to the types that a stamp is no older than the call that took it
(`StampsRecent`) and, while nothing has raced, that what an operation read is what the
server still has (`ReadsCurrent`), only devices that are off leave, and the entry of a
connected device is no older than its timer and its operation underway allow
(`EntriesOnTime`, with the bound `Due`).

`RemoteFile_proofs`, for any devices, any kinds of server, any number of versions,
breaks, connects and clock ticks (at least one, `BoundAssumption`): **TypeCorrect** (`TypeOK`), and **RegisterImplemented**
(`ReplacedAtomically`), the refinement of `AtomicFile`. `RegisterInv`: versions of
flushes differ, so the temporary a flush writes is its own (`OwnFile`); an inode
under the name, or opened by a reader, is *settled*: it is whole and no flush that is
yet to write has its version. Then opening is the abstract read and renaming the
abstract write; every other step stutters. `SettledKept` is the lemma all actions use.

`Connections_proofs`, for any keys, tasks, host keys and limits:
**TypeCorrect**, **OneEntry** (`OneEntryPerServer`) and **PinsNeverContradict**
(`PinsAgree`). `ConnInv`: a task holds the mutex exactly while it dials or waits
under it, and the key it dials for has no handle meanwhile; a handle belongs to the
key it is filed under, and the fingerprint it reached leads back to that key in
`names`. Two handles on one machine would share a fingerprint, hence the key. For
pins, the mutex keeps what the dial found unknown unknown until it is added.

`WindowTabs_proofs`, for any number of windows and tabs ever opened: **TypeCorrect**
(`TypeOK`), **SessionsStayInReach** (`SessionsWithinReach`, with its exception), **FocusIsRecovered**
(`FocusRecovers`), **ChosenTabsOnly** (`ChosenTabsClose`) and **TabInFrontStays**
(`FrontTabStays`: every other step leaves the tabs of a window as they are or shows
another set of them, `SameOrOther`). `WindowInv` has three parts. `TabsInv`: a tab is in one place of one window only (`Once`), a window that
is gone has none (`Sound`), what windows and hidden lists name has been opened
(`TabsKnown`), in the order of the numbers (`NumberedTabs`, so that the tabs of a
restored window are new). `LayoutInv`: a window of the order is there or about to be
reported closed, and one about to be reported is gone; so focus that leaves a window
for the first of the order finds one that `FocusRecovers` allows. `DialogInv`: the
indices of the dialog ascend, and are of the tabs it was opened on. Loops are
recursive functions, and `Inductive` (from the well-foundedness of the numbers) is
induction for what a set of numbers says: `AmongIs` for what `retain` keeps,
`CloseTabsLess` for closing tabs at *any* indices, as the dialog may when its window
has changed, and `CloseTabsChosen` for closing at ascending ones: each removal leaves
the tabs before it where they are, so the last-to-first order closes what was chosen.
The steps are of a few kinds (`CloseStep`, `RearrangeStep`, `OpenHereStep`,
`OpenThereStep`, the windows closed in `ClosedLayout`), and every action has a lemma
that puts it under one.

`Workspaces_proofs`, for any names, any bounds and any user operations:
**TypeCorrect** (`TypeOK`), inductive as `Typed`, which adds what the numbers that
are still to be handed out are. The lemmas with names in `...Typed` go action by action;
`SortedNamesAscend`, `ReplaceFirstTyped` and `ListWithoutAscends` are about the
loops over names, which are recursive functions: `Inductive`, again from the
well-foundedness of the numbers, gives `LoopEnds` (a loop of `n` rounds has a
function) and `LoopStays` (what each round keeps holds after the last).
**SessionsStayInReach** is `SessionsKept` for any names and bounds and all operations
but one, its hypothesis: no other device creates a workspace (`"other"`). With one
the invariant is false, as `two_devices` shows (section 4). `SessionsKept` says that a session can be found in one of four ways, and none
of them alone is kept: listings come and go with flushes. What is kept is the fourth,
the uuid in the session's name. `Kept`: every running session that no kill was made
for, no removal left running and no rename deprived of its workspace (`Exempt`) is named after a workspace, of the cache while connected and of the file
otherwise (`Carried`). For the one to become the other when the connection
ends, the file must have every workspace of the cache under the same uuid
(`InStep`), and for the next connection to start sessions under a uuid that stays,
the device file must name a workspace of the file (`DeviceKnows`). `WrittenUuids` is
the step that needs this: a merge takes the uuid of the local entry, so a write
drops the uuid the file has whenever the two differ. Renaming moves the uuid to the
new name, and drops the one that had it (`KeptByRename`); the sessions that carry
the uuid of a removed workspace are killed or left running (`KeptByDelete`, `KeptByClear`).

`History_proofs`, for any sessions, limits and faults: **ReadInOrder**
(`ReadsInOrder`) and **CutsBounded** (`FaultsCostLittle`). `Recorded` is inductive and
speaks of whole lines, readable or not. `Sound`: lines are not empty, no chunk in
the file was printed after the last, and every chunk of a line was printed before
every chunk of a later one; it
survives gluing, rotating and removing (`AppendCosts`, `RotatedSound`,
`NothingSound`). `Appended` says what one append writes, `Accounted` what then holds. `Kept` adds the account: `Balance` is the number of entries less
what the next line may still cost (`Owed`: a file that ends without a newline owes
that line, and its last entry if that is one), and what was printed exceeds the
balance by two chunks a fault at most. An append that succeeds raises both sides by
one, pays for what was owed, and owes nothing; a cut one loses one chunk and lowers the balance by
one at most. A file that was rotated or removed, or has no writer that reaches it, is
not `whole`, and nothing is claimed; `FaultsCostLittle` claims nothing either of a file that is no text. `EntriesRead` takes this from lines to what
`read_history` returns: as many entries as there are, in the order of the lines.

Three theorems have a hypothesis on constants besides the named assumptions:
`SerialIsExact`, `HeartbeatsInTime` and `SessionsStayInReach`; each is
given above with the reason, and the runs of these properties satisfy it.

Only model-checked, because out of the prover's reach: the liveness properties
(`CachesCatchUp`, `TabsFollowSessions`, `HealsAlone`, `TabsComeBack`, `WatchersCatchUp`,
`ListFollows`).

## 6. Bounds, abstractions, fairness

**Bounds.** `MaxUuid`, `MaxSession`, `MaxVersion` limit what is handed out,
`MaxFlight` the flush tasks in flight at a time, `MaxOps` user operations, crashes,
attaches that fail, channels that break and two-second windows that end; `CHECK_DEADLOCK FALSE` because a model at its bounds stops, the program
does not. Two tasks in flight are enough for every race of two writers (a
third sees the file as one of the two left it); two sessions and two user
operations after a settled start reach closing against restoring, hiding
against reconnecting, a crash with a write underway. `SettledInit` (in
`MCStateSync`) is the state after one device's first connect and saves the dozen
steps to it; `cold.cfg` starts at `Init` and covers those. In the registry, ages
stop at the first orphaned one, since older entries are treated alike, and
`MaxMisses = 1` gives both the skipped beat and its consequence. In `tabs`,
`Slots` has two elements: a tab can have two attempts at once, or two tabs one
each; an open or a tick waits for a free one. `MaxReconnects` is 1 for the code's 5,
so that two tabs meet the limit, `MaxAttempts` 2, and `Reaches` lets the network
carry both tabs or none, any number of times; nothing counts user actions, and
what the run explores is the whole state space.
In `windows` three windows (one may be the control window opened again) and three
tabs let two tabs stand beside a third that moves, closes itself or is restored; no
counter limits what is done with them, and what is explored is everything up to
three tabs ever opened. In `connections` two keys and two tasks are what a duplicate
takes; two connections can be made, one channel is open at a time, so that the
server's limit is met, and the private keys use five of six tries, which leaves one for the password. In `files` two
versions (each flush is one), one break and two connects: a reader overlapping a
writer, two writers overlapping, and a watcher losing its connection in every phase;
files are two blocks. `workspaces` has two names, three workspace uuids and windows, two
sessions (one that a loss leaves out of reach, one that keeps the connection in use), and
four operations, counting disconnects, restarts and ends of the two-second window. In `history` three chunks fill a file, seven make it rotate twice, and a
directory of three makes the limit remove the other file; three faults glue, cut, and
glue to what was cut.

**Abstractions.** One server, and one workspace except in `Workspaces`. In `StateSync` a tab is its uuid
and its session: titles, order, times and windows are in `TabMerge`. A version
stands for a version uuid; the version a merge result carries is the task's own
fresh one, where the code makes yet another fresh one. The watcher of `StateSync` is the
inotify mode (`RemoteFile` has both): a change is reported when the file has a version not sent before,
and of several unhandled reports the newest is kept. One connection attempt is
in flight at a time. The workspace uuid, which session names carry, is the
number of the first version of the device that made it up. When there is no
device file at connect, `hidden_sessions` in memory is kept. Undecodable files
do not occur. In the registry there is one clock. In `TabLifecycle` subscriptions
follow every message, where iced may handle a few first; all tabs are in one
window; an attempt that does not reach the server fails in the way that is retried, one that
reaches it in any way.

**Fairness.** Weak fairness of spawned tasks, of attaches (which end well or badly) and
the retries of those that failed, of kills and messages,
of the timers and of the watcher: the tokio runtime polls every spawned task,
the update loop handles every message in its queue, and both timers are iced
subscriptions. None for users, crashes, failures or the server's shells.
`Spent` weakens the liveness properties of `StateSync` where a bound has
stopped the program. `HealsAlone` asks nothing of a device whose own writes keep
failing, that does not stay connected, or while other devices change the
registry. In `TabLifecycle`: attempts end (`connect_timeout`, and the keepalive for
what follows it), messages are handled, new streams are polled, and the timer
ticks as long as a tab waits; not that a connection ends, the network changes or
a user acts. `ServedSpec` adds what is the server's and not the code's: asked for a
channel again and again by a tab that reaches it, it gives one in the end, or refuses for
good (strong fairness of `Decided`); it may refuse any number of times before.
`TabsComeBack` supposes that from some time on the network is up and
users start, cancel and submit nothing; without the latter a user
could keep the few reconnects that may go on at a time busy with another tab.

In `RemoteFile`: the server and the streams get on with reads, writes and reports,
and a tab that reconnects keeps dialling; no flush, break or connect is promised. In
`Workspaces`: the two-second timer fires while the state is dirty, and the watcher's
report of a new version is handled; both are subscriptions of the update loop. The
bounds may stop a step the code would take, so `ListFollows` claims nothing once they
are `Spent`. `WindowTabs`, `Connections` and `History` have safety properties only.

## 7. Plan

Modelled: `TabMerge`, `StateSync` with `SessionLife`, `DeviceRegistry`,
`TabLifecycle`, `WindowTabs`, `Connections`, `RemoteFile` with `AtomicFile`,
`Workspaces`, `History`. Proved: the theorems of section 5.

Every safety property the runs check is proved. Left:
`SessionsKept` with a second device, under the condition that names do not collide,
which needs that both devices' files carry one uuid per name; and the attach of
a closed tab (`closed`) and the restarted watcher (`retry`), which need a change of the
code before there is something to prove.

## 8. Not modelled

* `ssh_config.rs`, `proxy.rs`, `validate.rs`: parsing and checks of input; no state
  that interleaves. Of `connection.rs` the handshake is library code, and the
  system-`ssh` control master is not in `Connections`.
* `recent.rs`, `server.rs`, `permissions.rs`, `client_id.rs`, `config.rs`, `instance.rs`:
  local files read or written in one go.
* In `History`, the capture on the server (`pipe_pane_command`): a command this
  program sends and never reads back.
* In `WindowTabs`: renaming by index, geometry, toasts, fonts, the start with tabs from
  the command line. In `Workspaces`: positions and geometry of windows, the messages
  nothing raises.
* `tray.rs`, `i18n.rs`, `theme.rs`, `app/view/*`, `cli.rs`, `main.rs`, `crash.rs`,
  `network.rs`, `crates/iced_term`: drawing, start-up and
  operating-system glue; of the views, which buttons are offered is in `WindowTabs` and
  `Workspaces`.
* In `ssh/lock.rs`: `list_devices` (used by tests only), `release_lock` and the
  forced take-over (nothing raises their dialog), `cleanup_legacy_lock` (sessions of
  older versions). In `app/update.rs`: the messages nothing sends.
* In `TabLifecycle`: tabs over the system `ssh` (their terminal runs the process,
  no attempt or stream is involved), the terminal's contents and size, and the
  input side of a stream. A tab connected after a password prompt has no terminal
  to show (`PasswordSubmit` keeps what the failed attempt left); `terminal` records
  it, and no comment says what it should be, so no property is stated.

## Running

In this directory: `tlc -config sync.cfg MCStateSync` (the module of each run is
in `PROJECT.json`, or named with the configuration in sections 3 and 4; `closed`,
`duplicates` and `hidden` are of `MCStateSync`, `missed_beat` and `lost_registry` of
`MCDeviceRegistry`, `limit` of `MCTabLifecycle`). `tlapm <module>.tla` checks the
proofs of `StateSync_proofs` (some minutes), `DeviceRegistry_proofs`,
`TabLifecycle_proofs`, `WindowTabs_proofs`, `RemoteFile_proofs`, `Connections_proofs`,
`Workspaces_proofs` and `History_proofs`.
