------------------------------ MODULE Workspaces ------------------------------
(***************************************************************************)
(* Named workspaces on one server, as one device of a user handles them    *)
(* (src/app/update.rs, src/app/mod.rs, src/state/state_file.rs,            *)
(* src/state/merge.rs): the workspaces of the cached shared state, the     *)
(* current one, under which every flush writes all open tabs, the windows  *)
(* and hidden windows that carry a workspace name, the dialogs of the      *)
(* control window that create, rename and remove workspaces, and what a    *)
(* disconnect, a restart and a new connection make of all this.            *)
(*                                                                         *)
(* A flush reads, merges and writes shared.json in one step, and a tab's   *)
(* session runs from the moment the tab opens: the tasks in between are    *)
(* the subject of StateSync.  A name is a number, in alphabetical order.   *)
(* The position and the geometry of windows are left out.                  *)
(***************************************************************************)
EXTENDS Naturals, FiniteSets, Sequences, SequencesExt

CONSTANTS
    Name,         \* the workspace names the user gives
    Default,      \* "Default"
    MaxUuid,      \* bound: tab uuids handed out
    MaxSession,   \* bound: tmux sessions created
    MaxWorkspace, \* bound: workspace uuids handed out
    MaxWindow,    \* bound: window ids handed out
    MaxOps,       \* bound: user operations, restarts and debounce windows that end
    UserOps       \* the operations a run explores

ASSUME NameAssumption == Name \subseteq Nat \ {0} /\ Default \in Name

ASSUME BoundAssumption ==
    /\ MaxUuid \in Nat /\ MaxSession \in Nat /\ MaxWorkspace \in Nat
    /\ MaxWindow \in Nat /\ MaxOps \in Nat

VARIABLES
    conn,          \* a server is connected: current_conn, the syncer, the cache are there
    current,       \* current_workspace
    list,          \* dialogs.workspace_list
    cached,        \* cached_shared_state.workspaces: name -> [uuid, tabs]
    seen,          \* the cache holds the version of shared.json
    dirty, recent, \* state_dirty; the last flush is less than 2 seconds ago
    windows,       \* the session windows: [id, env, tabs]
    hiddenWindows, \* hidden_windows, of the same form
    hidden,        \* hidden_sessions: tab uuids
    dialog,        \* the workspace dialog of the control window
    file,          \* shared.json: [there, ws, hidden]
    devfile,       \* clients/<id>.json: [there, hidden, last]
    live,          \* the tmux sessions running on the server
    named,         \* the workspace uuid in the name of each session
    kills,         \* sessions whose kill-session has not reached the server
    ended,         \* history: the sessions a kill-session was made for
    leftover,      \* history: those that a removal of their workspace left running
    replaced,      \* history: those whose workspace lost its name to another
    next           \* counters: [uuid, session, ws, win, ops]

cacheVars == <<cached, seen, dirty, recent>>
fileVars  == <<file, devfile>>
winVars   == <<windows, hiddenWindows, hidden>>
ghostVars == <<ended, leftover, replaced>>
liveVars  == <<live, named, kills, ghostVars>>
vars == <<conn, current, list, cacheVars, winVars, dialog, fileVars, liveVars, next>>

-----------------------------------------------------------------------------
Session == 1 .. MaxSession
Tab   == [uuid : 1 .. MaxUuid, tmux : Session]
Saved == [uuid : 1 .. MaxUuid, tmux : Session, win : 0 .. MaxWindow]
Entry == [uuid : 0 .. MaxWorkspace, tabs : SUBSET Saved]
Window == [id : 0 .. MaxWindow, env : Name \cup {0}, tabs : SUBSET Tab]

NoEntry      == [uuid |-> 0, tabs |-> {}]
NoWorkspaces == [n \in Name |-> NoEntry]
NoFile       == [there |-> FALSE, ws |-> NoWorkspaces, hidden |-> {}]
NoDevFile    == [there |-> FALSE, hidden |-> {}, last |-> Default]
NoDialog     == [kind |-> "none", name |-> Default]

Uuids(ts)     == {t.uuid : t \in ts}
Sessions(ts)  == {t.tmux : t \in ts}
TabsOf(wins)  == UNION {w.tabs : w \in wins}
Names(ws)     == {n \in Name : ws[n].uuid # 0}

\* A sorted list with one more name; sort(), which puts in name after name.
Inserted(s, n) ==
    [i \in 1 .. Len(s) + 1 |->
        IF i <= Len(s) /\ s[i] <= n THEN s[i]
        ELSE IF i = 1 \/ s[i - 1] <= n THEN n ELSE s[i - 1]]

Sorted(s) ==
    LET sorted[i \in 0 .. Len(s)] ==
            IF i = 0 THEN <<>> ELSE Inserted(sorted[i - 1], s[i]) IN
    sorted[Len(s)]

SortedNames(ws) == Sorted(SetToSeq(Names(ws)))

Init ==
    /\ conn = FALSE /\ current = Default /\ list = <<>>
    /\ cached = NoWorkspaces /\ seen = FALSE /\ dirty = FALSE /\ recent = FALSE
    /\ windows = {} /\ hiddenWindows = {} /\ hidden = {}
    /\ dialog = NoDialog
    /\ file = NoFile /\ devfile = NoDevFile
    /\ live = {} /\ named = [s \in Session |-> 0] /\ kills = {}
    /\ ended = {} /\ leftover = {} /\ replaced = {}
    /\ next = [uuid |-> 1, session |-> 1, ws |-> 1, win |-> 1, ops |-> 0]

Take(uuids, sessions, ws, wins, ops) ==
    /\ next' = [uuid |-> next.uuid + uuids, session |-> next.session + sessions,
                ws |-> next.ws + ws, win |-> next.win + wins, ops |-> next.ops + ops]
    /\ next'.uuid <= MaxUuid + 1 /\ next'.session <= MaxSession + 1
    /\ next'.ws <= MaxWorkspace + 1 /\ next'.win <= MaxWindow + 1
    /\ next'.ops <= MaxOps

-----------------------------------------------------------------------------
(* flush_state and save_state *)

\* A workspace that is not cached is written under a new uuid.
UuidOf(ws, n) == IF ws[n].uuid # 0 THEN ws[n].uuid ELSE next.ws

NewUuids(ws, n) == IF ws[n].uuid # 0 THEN 0 ELSE 1

SavedTabs(wins) ==
    UNION {{[uuid |-> t.uuid, tmux |-> t.tmux, win |-> w.id] : t \in w.tabs} : w \in wins}

\* Mutant: the other workspaces of the cache are not preserved.
LayoutCurrentOnly(ws, cur, wins) ==
    [NoWorkspaces EXCEPT ![cur] = [uuid |-> UuidOf(ws, cur), tabs |-> SavedTabs(wins)]]

\* All open tabs, of every window, go to the current workspace.
Layout(ws, cur, wins) ==
    [ws EXCEPT ![cur] = [uuid |-> UuidOf(ws, cur), tabs |-> SavedTabs(wins)]]

Alive(entry) == [entry EXCEPT !.tabs = {t \in @ : t.tmux \in live}]

MergeEntry(local, remote) ==
    LET mine == Alive(local) IN
    IF local.uuid = 0 THEN Alive(remote)
    ELSE [mine EXCEPT !.tabs = @ \cup
              {t \in Alive(remote).tabs : t.uuid \notin Uuids(mine.tabs)}]

MergeWorkspaces(local, remote) ==
    [n \in Name |-> MergeEntry(local[n], remote[n])]

MergeHidden(local, remote) ==
    local \cup {h \in remote : h.id \notin {l.id : l \in local}}

\* Another version than the cached one in the file is a conflict; the device's
\* own last write is one too until the watcher has reported it.
Conflict == file.there /\ ~seen

Write(ws, cur, wins, hiddenWins, hid) ==
    LET doc == Layout(ws, cur, wins) IN
    /\ cached' = doc
    /\ file' = [there |-> TRUE,
                ws |-> IF Conflict THEN MergeWorkspaces(doc, file.ws) ELSE doc,
                hidden |-> IF Conflict THEN MergeHidden(hiddenWins, file.hidden)
                           ELSE hiddenWins]
    /\ devfile' = [there |-> TRUE, hidden |-> hid, last |-> cur]
    /\ seen' = FALSE

Flush(ws, cur, wins, hiddenWins, hid) ==
    /\ Write(ws, cur, wins, hiddenWins, hid)
    /\ dirty' = FALSE
    /\ recent' = TRUE

\* save_state: the new uuids a flush takes, if there is one.
SaveUuids(ws, cur) == IF recent THEN 0 ELSE NewUuids(ws, cur)

SaveState(ws, cur, wins, hiddenWins, hid) ==
    \/ ~recent /\ Flush(ws, cur, wins, hiddenWins, hid)
    \/ /\ recent
       /\ cached' = ws /\ dirty' = TRUE
       /\ UNCHANGED <<seen, recent, fileVars>>

FlushTimer ==
    /\ conn /\ dirty
    /\ Flush(cached, current, windows, hiddenWindows, hidden)
    /\ Take(0, 0, NewUuids(cached, current), 0, 0)
    /\ UNCHANGED <<conn, current, list, winVars, dialog, liveVars>>

DebounceOver ==
    /\ conn /\ recent
    /\ recent' = FALSE
    /\ Take(0, 0, 0, 0, 1)
    /\ UNCHANGED <<conn, current, list, cached, seen, dirty, winVars, dialog, fileVars, liveVars>>

-----------------------------------------------------------------------------
(* Tabs and windows *)

Op(name) == conn /\ dialog = NoDialog /\ name \in UserOps

FreshTab == [uuid |-> next.uuid, tmux |-> next.session]

\* next_tmux_session: the name of a new session carries the uuid of workspace n,
\* or one that nothing else has (0) when n is not cached.
StartSession(n) ==
    /\ live' = live \cup {next.session}
    /\ named' = [named EXCEPT ![next.session] = cached[n].uuid]
    /\ UNCHANGED <<kills, ghostVars>>

\* The control window draws a card for every workspace of the cache, with the
\* buttons for its windows, its name and its removal.
Cards == Names(cached)

Replace(w, new) == (windows \ {w}) \cup {new}

NewTab(w) ==
    /\ Op("tab")
    /\ Take(1, 1, SaveUuids(cached, current), 0, 1)
    /\ windows' = Replace(w, [w EXCEPT !.tabs = @ \cup {FreshTab}])
    /\ StartSession(current)
    /\ SaveState(cached, current, windows', hiddenWindows, hidden)
    /\ UNCHANGED <<conn, current, list, hiddenWindows, hidden, dialog>>

\* The window belongs to the workspace of the focused one, its tab to the current.
NewWindow ==
    /\ Op("window")
    /\ Take(1, 1, SaveUuids(cached, current), 1, 1)
    /\ \E env \in {current} \cup ({w.env : w \in windows} \cap Name) :
         windows' = windows \cup {[id |-> next.win, env |-> env, tabs |-> {FreshTab}]}
    /\ StartSession(current)
    /\ SaveState(cached, current, windows', hiddenWindows, hidden)
    /\ UNCHANGED <<conn, current, list, hiddenWindows, hidden, dialog>>

\* n is the current workspace while the handler runs, for the flush in it too.
NewWindowForWorkspace(n) ==
    /\ Op("window") /\ n \in Cards
    /\ Take(1, 1, SaveUuids(cached, n), 1, 1)
    /\ windows' = windows \cup {[id |-> next.win, env |-> n, tabs |-> {FreshTab}]}
    /\ StartSession(n)
    /\ SaveState(cached, n, windows', hiddenWindows, hidden)
    /\ UNCHANGED <<conn, current, list, hiddenWindows, hidden, dialog>>

\* close_tab_in_window, of the user or of a session that has ended: the flush,
\* then the kill. An empty window goes.
CloseTab(w, t) ==
    LET rest == [w EXCEPT !.tabs = @ \ {t}] IN
    /\ t \in w.tabs
    /\ t.tmux \in live => Op("close")
    /\ conn
    /\ windows' = IF rest.tabs = {} /\ w.id # 0 THEN windows \ {w} ELSE Replace(w, rest)
    /\ Flush(cached, current, Replace(w, rest), hiddenWindows, hidden)
    /\ kills' = kills \cup {t.tmux}
    /\ ended' = ended \cup {t.tmux}
    /\ Take(0, 0, NewUuids(cached, current), 0, IF t.tmux \in live THEN 1 ELSE 0)
    /\ UNCHANGED <<conn, current, list, hiddenWindows, hidden, dialog, live, named, leftover, replaced>>

ExecuteKill(s) ==
    /\ s \in kills
    /\ kills' = kills \ {s}
    /\ live' = live \ {s}
    /\ UNCHANGED <<conn, current, list, cacheVars, winVars, dialog, fileVars, named, ghostVars, next>>

\* A session window that is closed becomes a hidden window.
CloseWindow(w) ==
    /\ Op("hide") /\ w.id # 0
    /\ windows' = windows \ {w}
    /\ hiddenWindows' = IF w.tabs = {} THEN hiddenWindows ELSE hiddenWindows \cup {w}
    /\ hidden' = hidden \cup Uuids(w.tabs)
    /\ Flush(cached, current, windows', hiddenWindows', hidden')
    /\ Take(0, 0, NewUuids(cached, current), 0, 1)
    /\ UNCHANGED <<conn, current, list, dialog, liveVars>>

\* Some of the tabs in all, each with the fresh uuid it gets.
Reopened(ts, all) ==
    {[uuid |-> next.uuid + Cardinality({u \in all : u.uuid < t.uuid}), tmux |-> t.tmux] :
        t \in ts}

\* All hidden windows of workspace n, which is current meanwhile: a flush of the
\* first tab is written under n. The save_state at the end comes within 2 seconds
\* of that flush.
RestoreHiddenWindows(n) ==
    LET restored == {h \in hiddenWindows : h.env = n}
        all == TabsOf(restored)
    IN
    /\ Op("restore") /\ n \in Cards /\ restored # {}
    /\ hiddenWindows' = hiddenWindows \ restored
    /\ hidden' = hidden \ Uuids(all)
    /\ windows' = windows \cup {[h EXCEPT !.tabs = Reopened(@, all)] : h \in restored}
    /\ \/ recent /\ UNCHANGED <<cached, seen, fileVars>>
       \/ ~recent /\ \E h \in restored : \E t \in Reopened(h.tabs, all) :
            Write(cached, n, windows \cup {[h EXCEPT !.tabs = {t}]}, hiddenWindows',
                  hidden \ Uuids(h.tabs))
    /\ dirty' = TRUE /\ recent' = TRUE
    /\ Take(Cardinality(all), 0, 0, 0, 1)
    /\ UNCHANGED <<conn, current, list, dialog, liveVars>>

-----------------------------------------------------------------------------
(* The workspace dialogs of the control window *)

ShowDialog(kind, n) ==
    /\ Op(kind)
    /\ kind = "create" \/ n \in Cards
    /\ dialog' = [kind |-> kind, name |-> n]
    /\ UNCHANGED <<conn, current, list, cacheVars, winVars, fileVars, liveVars, next>>

CancelDialog ==
    /\ dialog # NoDialog
    /\ dialog' = NoDialog
    /\ UNCHANGED <<conn, current, list, cacheVars, winVars, fileVars, liveVars, next>>

Confirm(kind) == conn /\ dialog.kind = kind /\ dialog' = NoDialog

\* Mutant: the new name stays at the end.
WithNameLast(new) == Append(list, new)

WithName(new) == Sorted(Append(list, new))

ConfirmNewWorkspace(new) ==
    /\ Confirm("create")
    /\ \/ /\ new \in Range(list)
          /\ UNCHANGED <<current, list, cacheVars, fileVars, next>>
       \/ /\ new \notin Range(list)
          /\ list' = WithName(new)
          /\ current' = new
          /\ Flush(cached, new, windows, hiddenWindows, hidden)
          /\ Take(0, 0, NewUuids(cached, new), 0, 1)
    /\ UNCHANGED <<conn, winVars, liveVars>>

\* The first entry of that name in the list.
ReplaceFirst(old, new) ==
    LET at == {i \in DOMAIN list : list[i] = old /\ \A j \in 1..(i - 1) : list[j] # old}
    IN [i \in DOMAIN list |-> IF i \in at THEN new ELSE list[i]]

RenamedIn(wins, old, new) ==
    {IF w.env = old THEN [w EXCEPT !.env = new] ELSE w : w \in wins}

\* The running sessions whose name carries the uuid of workspace n.
NamedAfter(n) == {s \in live : named[s] = UuidOf(cached, n)}

\* Nothing asks whether the new name is taken: the workspace that had it is
\* replaced.
RenamedEntry(old, new) ==
    IF cached[old].uuid = 0 THEN cached
    ELSE [cached EXCEPT ![new] = cached[old], ![old] = NoEntry]

ConfirmRenameWorkspace(new) ==
    LET old == dialog.name IN
    /\ Confirm("rename")
    /\ \/ /\ new = old
          /\ UNCHANGED <<current, list, cacheVars, windows, hiddenWindows, fileVars, replaced, next>>
       \/ /\ new # old
          /\ list' = Sorted(ReplaceFirst(old, new))
          /\ current' = IF current = old THEN new ELSE current
          /\ windows' = RenamedIn(windows, old, new)
          /\ hiddenWindows' = RenamedIn(hiddenWindows, old, new)
          /\ Flush(RenamedEntry(old, new), current', windows', hiddenWindows', hidden)
          /\ replaced' = replaced \cup (IF cached[old].uuid = 0 THEN {} ELSE NamedAfter(new))
          /\ Take(0, 0, NewUuids(RenamedEntry(old, new), current'), 0, 1)
    /\ UNCHANGED <<conn, hidden, live, named, kills, ended, leftover>>

\* What retain leaves of the list.
ListWithout(old) ==
    LET left[i \in 0 .. Len(list)] ==
            IF i = 0 THEN <<>>
            ELSE IF list[i] = old THEN left[i - 1] ELSE Append(left[i - 1], list[i]) IN
    left[Len(list)]

Fallback(names) == IF names = <<>> THEN Default ELSE names[1]

\* The sessions listed in the workspace are killed. No window matches the prefix
\* "<name>--shellkeep-" (sessions are named shellkeep--<uuid>--<uuid>), so none is
\* closed, and what is named after the workspace but not listed runs on.
ConfirmDeleteWorkspace ==
    LET old == dialog.name
        rest == [cached EXCEPT ![old] = NoEntry]
    IN
    /\ Confirm("remove")
    /\ list' = ListWithout(old)
    /\ current' = IF current = old THEN Fallback(list') ELSE current
    /\ hidden' = hidden \ Uuids(cached[old].tabs)
    /\ kills' = kills \cup Sessions(cached[old].tabs)
    /\ ended' = ended \cup Sessions(cached[old].tabs)
    /\ leftover' = leftover \cup (NamedAfter(old) \ Sessions(cached[old].tabs))
    /\ Flush(rest, current', windows, hiddenWindows, hidden')
    /\ Take(0, 0, NewUuids(rest, current'), 0, 1)
    /\ UNCHANGED <<conn, windows, hiddenWindows, live, named, replaced>>

\* What the dialog goes by: at most one name in the list.
IsLast == Len(list) <= 1

\* "Clear & disconnect", offered for the last workspace.
ClearAndDisconnect ==
    /\ Confirm("remove") /\ IsLast
    /\ live' = live \ Sessions(cached[dialog.name].tabs)
    /\ file' = NoFile
    /\ devfile' = NoDevFile
    /\ conn' = FALSE
    /\ current' = Default
    /\ list' = <<>>
    /\ cached' = NoWorkspaces
    /\ windows' = {}
    /\ hidden' = {}
    /\ Take(0, 0, 0, 0, 1)
    /\ ended' = ended \cup Sessions(cached[dialog.name].tabs)
    /\ leftover' = leftover \cup live'
    /\ UNCHANGED <<seen, dirty, recent, hiddenWindows, named, kills, replaced>>

-----------------------------------------------------------------------------
(* The connection *)

\* The windows of the saved tabs of the workspace that is current before the
\* device file is looked at; one new window when there is none.
RestoredWindows(saved) ==
    LET ids == IF saved = {} THEN {next.win} ELSE {t.win : t \in saved}
    IN {[id |-> i, env |-> current, tabs |-> {}] : i \in ids}

\* reconcile_sessions: the listed sessions of the workspace, unless hidden, and
\* the sessions that carry its uuid and are not listed.
Restorable(entry, hid) ==
    {s \in live :
        IF s \in Sessions(entry.tabs)
        THEN \E t \in entry.tabs : t.tmux = s /\ t.uuid \notin hid
        ELSE entry.uuid # 0 /\ named[s] = entry.uuid}

\* A tab goes to the window it was saved in, else to the focused one.
RestoredIn(w, focused, wins, entry, restored) ==
    {s \in restored :
        LET homes == {t.win : t \in {u \in entry.tabs : u.tmux = s}} \cap {v.id : v \in wins}
        IN IF homes = {} THEN w = focused ELSE w.id = Max(homes)}

ServerConnected ==
    LET ws == IF file.there THEN file.ws
              ELSE [NoWorkspaces EXCEPT ![current].uuid = next.ws]
        wins == RestoredWindows(ws[current].tabs)
        cur == IF devfile.there THEN devfile.last ELSE current
        entry == ws[cur]
        loaded == IF devfile.there THEN devfile.hidden ELSE hidden
        hid == IF entry.tabs = {} THEN loaded ELSE loaded \cap Uuids(entry.tabs)
        restored == Restorable(entry, hid)
        hws == IF file.there THEN file.hidden ELSE hiddenWindows
        Fresh(s) == [uuid |-> next.uuid + Cardinality({r \in restored : r < s}), tmux |-> s]
    IN
    /\ ~conn
    /\ Take(IF restored = {} THEN 1 ELSE Cardinality(restored),
            IF restored = {} THEN 1 ELSE 0,
            IF file.there THEN NewUuids(ws, cur) ELSE 1,
            IF ws[current].tabs = {} THEN 1 ELSE 0, 0)
    /\ conn' = TRUE
    /\ current' = cur
    /\ list' = SortedNames(ws)
    /\ hidden' = hid
    /\ hiddenWindows' = hws
    /\ \E focused \in wins :
         windows' = {[w EXCEPT !.tabs =
             IF restored # {}
             THEN {Fresh(s) : s \in RestoredIn(w, focused, wins, entry, restored)}
             ELSE IF w = focused THEN {FreshTab} ELSE {}] : w \in wins}
    /\ IF restored = {}
       THEN /\ live' = live \cup {next.session}
            /\ named' = [named EXCEPT ![next.session] = entry.uuid]
       ELSE UNCHANGED <<live, named>>
    /\ LET doc == Layout(ws, cur, windows') IN
       /\ cached' = doc
       /\ file' = [there |-> TRUE, ws |-> doc, hidden |-> hws]
       /\ devfile' = [there |-> TRUE, hidden |-> hid, last |-> cur]
    /\ seen' = FALSE /\ dirty' = FALSE /\ recent' = TRUE
    /\ UNCHANGED <<dialog, kills, ghostVars>>

\* DisconnectServer: the windows close, their tabs count as hidden, what was not
\* flushed is not written any more.
DisconnectServer ==
    /\ Op("disconnect")
    /\ conn' = FALSE
    /\ hidden' = hidden \cup Uuids(TabsOf(windows))
    /\ windows' = {}
    /\ cached' = NoWorkspaces
    /\ Take(0, 0, 0, 0, 1)
    /\ UNCHANGED <<current, list, seen, dirty, recent, hiddenWindows, dialog, fileVars, liveVars>>

\* The program ends, or dies, and is started again.
Restart ==
    /\ "restart" \in UserOps
    /\ conn' = FALSE /\ current' = Default /\ list' = <<>>
    /\ cached' = NoWorkspaces /\ seen' = FALSE /\ dirty' = FALSE /\ recent' = FALSE
    /\ windows' = {} /\ hiddenWindows' = {} /\ hidden' = {}
    /\ dialog' = NoDialog
    /\ kills' = {}
    /\ Take(0, 0, 0, 0, 1)
    /\ UNCHANGED <<fileVars, live, named, ghostVars>>

\* Another device, in step with the file, creates a workspace with a session.
OtherDeviceCreates(n) ==
    /\ "other" \in UserOps
    /\ file.there /\ n \notin Names(file.ws)
    /\ Take(1, 1, 1, 1, 1)
    /\ file' = [file EXCEPT !.ws[n] =
           [uuid |-> next.ws,
            tabs |-> {[uuid |-> next.uuid, tmux |-> next.session, win |-> next.win]}]]
    /\ seen' = FALSE
    /\ live' = live \cup {next.session}
    /\ named' = [named EXCEPT ![next.session] = next.ws]
    /\ UNCHANGED <<conn, current, list, cached, dirty, recent, winVars, dialog, devfile, kills, ghostVars>>

\* The control window shows the tabs that find no session window.
ControlWindow == [id |-> 0, env |-> 0, tabs |-> {}]

\* Mutant: the list the dialogs look at is left as it is.
ListAfterUnchanged(ws) == list

ListAfter(ws) == SortedNames(ws)

\* handle_remote_state_change: the tabs of the current workspace that are neither
\* open nor hidden are opened (the first may flush, against the old cache), the
\* list and the cache are those of the file.
RemoteStateChanged ==
    LET news == {t \in file.ws[current].tabs :
                   t.uuid \notin Uuids(TabsOf(windows)) \cup hidden}
        wins == IF windows = {} THEN {ControlWindow} ELSE windows
        In(w, focused) ==
            {t \in news : IF t.win \in {v.id : v \in wins} THEN w.id = t.win ELSE w = focused}
        Opened(ts) == {[w EXCEPT !.tabs = @ \cup Reopened(In(w, ts.focused) \cap ts.tabs, news)] : w \in wins}
    IN
    /\ conn /\ file.there /\ ~seen
    /\ list' = ListAfter(file.ws)
    /\ cached' = file.ws
    /\ IF news = {}
       THEN /\ seen' = TRUE
            /\ UNCHANGED <<windows, dirty, recent, fileVars>>
       ELSE \E focused \in wins :
            /\ windows' = Opened([focused |-> focused, tabs |-> news])
            /\ \/ /\ recent
                  /\ seen' = TRUE /\ dirty' = TRUE
                  /\ UNCHANGED <<recent, fileVars>>
               \/ /\ ~recent
                  /\ \E t \in news :
                       LET doc == Layout(cached, current, Opened([focused |-> focused, tabs |-> {t}])) IN
                       /\ file' = [there |-> TRUE, ws |-> MergeWorkspaces(doc, file.ws),
                                   hidden |-> MergeHidden(hiddenWindows, file.hidden)]
                       /\ devfile' = [there |-> TRUE, hidden |-> hidden, last |-> current]
                  /\ seen' = FALSE /\ recent' = TRUE
                  /\ dirty' = (Cardinality(news) > 1)
    /\ Take(Cardinality(news), 0, IF news = {} \/ recent THEN 0 ELSE NewUuids(cached, current), 0, 0)
    /\ UNCHANGED <<conn, current, hiddenWindows, hidden, dialog, liveVars>>

-----------------------------------------------------------------------------
Next ==
    \/ ServerConnected \/ DisconnectServer \/ Restart
    \/ NewWindow \/ \E w \in windows : NewTab(w) \/ CloseWindow(w) \/ \E t \in w.tabs : CloseTab(w, t)
    \/ \E n \in Name : NewWindowForWorkspace(n) \/ RestoreHiddenWindows(n)
    \/ \E s \in kills : ExecuteKill(s)
    \/ \E kind \in {"create", "rename", "remove"}, n \in Name : ShowDialog(kind, n)
    \/ CancelDialog
    \/ \E n \in Name : ConfirmNewWorkspace(n) \/ ConfirmRenameWorkspace(n)
    \/ ConfirmDeleteWorkspace \/ ClearAndDisconnect
    \/ FlushTimer \/ DebounceOver
    \/ RemoteStateChanged
    \/ \E n \in Name : OtherDeviceCreates(n)

Spec == Init /\ [][Next]_vars

\* The update loop handles what the watcher and the timer send it.
FairSpec == Spec /\ WF_vars(FlushTimer) /\ WF_vars(RemoteStateChanged)

-----------------------------------------------------------------------------
(* Properties *)

\* Every variable has its type; the current workspace and every name in the
\* list are names a workspace can have, and the list is sorted.
TypeOK ==
    /\ conn \in BOOLEAN /\ seen \in BOOLEAN /\ dirty \in BOOLEAN /\ recent \in BOOLEAN
    /\ current \in Name /\ list \in Seq(Name)
    /\ \A i, j \in DOMAIN list : i < j => list[i] <= list[j]
    /\ cached \in [Name -> Entry]
    /\ windows \subseteq Window /\ hiddenWindows \subseteq Window
    /\ hidden \subseteq 1 .. MaxUuid
    /\ dialog \in [kind : {"none", "create", "rename", "remove"}, name : Name]
    /\ file.there \in BOOLEAN /\ file.ws \in [Name -> Entry] /\ file.hidden \subseteq Window
    /\ devfile.there \in BOOLEAN /\ devfile.hidden \subseteq 1 .. MaxUuid /\ devfile.last \in Name
    /\ live \subseteq Session /\ kills \subseteq Session
    /\ ended \subseteq Session /\ leftover \subseteq Session /\ replaced \subseteq Session
    /\ named \in [Session -> 0 .. MaxWorkspace]

Known == {cached[n] : n \in Names(cached)} \cup {file.ws[n] : n \in Names(file.ws)}

\* The user can get at a session: a window shows it, a hidden window of a
\* workspace that has a card brings it back, a workspace lists it, or connecting
\* will find it because its name carries the uuid of a workspace.
Reachable(s) ==
    \/ s \in Sessions(TabsOf(windows))
    \/ s \in Sessions(TabsOf({h \in hiddenWindows \cup file.hidden :
                              h.env \in Names(cached) \cup Names(file.ws)}))
    \/ \E entry \in Known : s \in Sessions(entry.tabs) \/ named[s] = entry.uuid

\* Whatever the user of a single device does with workspaces, windows and
\* connections, a session stays where he can find it until he ends it, but for two
\* operations: removing its workspace when the cached document does not list the
\* session, which then runs on (leftover), and giving another workspace the name
\* of its own (replaced).
SessionsKept == \A s \in live \ (ended \cup leftover \cup replaced) : Reachable(s)

\* The same without the two exceptions.
NothingLeftBehind == \A s \in live \ ended : Reachable(s)

\* view/welcome.rs:962 "All sessions will be terminated and windows closed.":
\* removing a workspace ends every session of its windows, and closes them.
RemovalEndsWindows ==
    [][ConfirmDeleteWorkspace =>
         \A w \in windows \cup hiddenWindows :
            w.env = dialog.name => w \notin windows' /\ Sessions(w.tabs) \subseteq kills']_vars

\* The bounds may stop a step that the code would take: nothing is claimed of
\* what must happen after that.
Spent == next.uuid + 3 > MaxUuid \/ next.ws > MaxWorkspace

\* Again and again the list the dialogs go by names the workspaces whose cards
\* the control window draws, and those are the workspaces of the file.
ListFollows ==
    []<>(conn /\ ~Spent => list = SetToSortSeq(Cards, <) /\ Cards = Names(file.ws))
=============================================================================
