------------------------------ MODULE WindowTabs ------------------------------
(***************************************************************************)
(* The windows of one device and the tabs in them: AppWindow and the       *)
(* window helpers of app/mod.rs, and the handlers of app/update.rs that    *)
(* open, close, hide, move and restore tabs and windows.                   *)
(*                                                                         *)
(* Buttons, menus and dialogs name a tab by its place in the window, and   *)
(* most handlers act on "the active window" when their message is handled. *)
(* Between the click and the handler the window may have lost tabs, and the *)
(* window system's own events (closed, opened, focused) come when they     *)
(* come.                                                                   *)
(*                                                                         *)
(* Left out: titles, geometry, toasts, fonts; what is written to the server *)
(* (StateSync) and the connections of the tabs (TabLifecycle), of which    *)
(* only the kind is kept: "live" (a terminal is shown), "waiting" (none,   *)
(* but not given up) or "dead".  The menu of a tab, which names it by its  *)
(* place too: what it asks for may come for any place.  A click comes from *)
(* the active window: the window system reports the focus before the click. *)
(***************************************************************************)
EXTENDS Naturals, FiniteSets, SequencesExt

CONSTANTS
    MaxWindow,   \* bound: windows ever opened
    MaxTab       \* bound: tabs ever opened

ASSUME BoundsAssumption == MaxWindow \in Nat \ {0} /\ MaxTab \in Nat

VARIABLES
    win,        \* per window id: kind, tabs, active_tab
    order,      \* window_order
    focus,      \* focused_window
    control,    \* control_window_id
    tab,        \* per tab id: how it is connected, and its tmux session
    hidden,     \* hidden_sessions, as the tabs whose uuids they are
    hiddenWins, \* hidden_windows: the tabs of each
    dialog,     \* pending_close_tabs and its window, and what the user saw
    events,     \* windows that are gone, and not reported closed yet
    conn,       \* current_conn is set
    within,     \* history: sessions shown in a session window, neither put away
                \* for good by the user since, nor dropped
    dropped     \* history: hidden sessions taken off the list without being shown

vars == <<win, order, focus, control, tab, hidden, hiddenWins, dialog, events,
          conn, within, dropped>>

-----------------------------------------------------------------------------
Windows == 1 .. MaxWindow
Tabs    == 1 .. MaxTab

\* Indices count from 1, and 0 is None.
Window  == [kind : {"unborn", "control", "session", "gone"}, tabs : Seq(Tabs),
            active : Nat]
NoWindow(kind) == [kind |-> kind, tabs |-> <<>>, active |-> 1]

\* What a tab shows: nothing yet, its terminal, a spinner or a note in its place,
\* the banner of a dead tab, or nothing any more.
TabState == {"unborn", "live", "waiting", "dead", "gone"}

NoDialog == [window |-> 0, indices |-> <<>>, seen |-> <<>>]
Unopened == [state |-> "unborn", session |-> 0]

Open(ws, kind) == {w \in Windows : ws[w].kind = kind}
Exists(w)      == w \in Windows /\ win[w].kind \in {"control", "session"}
Shown(ws)      == UNION {ToSet(ws[w].tabs) : w \in Open(ws, "session")}
Session(T)     == {tab[t].session : t \in T}
In(state)      == {t \in Tabs : tab[t].state = state}

ActiveId == IF focus # 0 THEN focus ELSE IF order # <<>> THEN Head(order) ELSE 0

\* The active window is an open session window, and has a tab number i.  The
\* control window shows no tabs.
HasTab(i) == /\ ActiveId # 0 /\ win[ActiveId].kind = "session"
             /\ i \in DOMAIN win[ActiveId].tabs

TypeOK ==
    /\ win \in [Windows -> Window]
    /\ order \in Seq(Windows) /\ IsInjective(order)
    /\ focus \in Windows \union {0}
    /\ control \in Windows
    /\ tab \in [Tabs -> [state : TabState, session : Nat]]
    /\ hidden \subseteq Tabs
    /\ hiddenWins \in Seq(Seq(Tabs))
    /\ dialog \in [window : Windows \union {0}, indices : Seq(Nat \ {0}), seen : Seq(Tabs)]
    /\ events \subseteq Windows
    /\ conn \in BOOLEAN
    \* The selection is a tab of the window, as far as the window has tabs.
    /\ \A w \in Windows : win[w].tabs # <<>> => win[w].active \in DOMAIN win[w].tabs
    \* The layout is saved in window_order: no window may be missing there.
    /\ Open(win, "control") \union Open(win, "session") \subseteq ToSet(order)
    /\ Open(win, "control") \subseteq {control}

Init ==
    /\ win = [w \in Windows |-> NoWindow(IF w = 1 THEN "control" ELSE "unborn")]
    /\ order = <<1>>
    /\ focus = 1
    /\ control = 1
    /\ tab = [t \in Tabs |-> Unopened]
    /\ hidden = {} /\ hiddenWins = <<>>
    /\ dialog = NoDialog
    /\ events = {}
    /\ conn = FALSE
    /\ within = {} /\ dropped = {}

-----------------------------------------------------------------------------
(***************************************************************************)
(* Helpers.                                                                *)
(***************************************************************************)
\* What retain and filter leave of a list: its elements that are in T, in order.
Among(s, T) ==
    LET kept[i \in 0 .. Len(s)] ==
            IF i = 0 THEN <<>>
            ELSE IF s[i] \in T THEN Append(kept[i - 1], s[i]) ELSE kept[i - 1] IN
    kept[Len(s)]

\* Mutant: The selection is not moved when the last tab goes.
ActiveTabAfterRemovalStays(active, before, removed) == active

\* active_tab_after_removal: removing to the left of the selection moves it.
ActiveTabAfterRemoval(active, before, removed) ==
    IF before = 1 THEN 1
    ELSE IF active > before - 1 THEN active - 1 ELSE active

Without(window, i) ==
    [window EXCEPT !.tabs = RemoveAt(window.tabs, i),
                   !.active = ActiveTabAfterRemoval(window.active, Len(window.tabs), i)]

\* close_tab_in_window, on the windows ws.  A session window without tabs goes.
CloseTabIn(ws, w, i) ==
    IF i \notin DOMAIN ws[w].tabs THEN ws
    ELSE LET left == Without(ws[w], i) IN
         [ws EXCEPT ![w] = IF left.tabs = <<>> /\ left.kind = "session"
                           THEN NoWindow("gone") ELSE left]

\* Several tabs, from the last index to the first.
CloseTabsIn(ws, w, indices) ==
    LET n == Len(indices)
        left[k \in 0 .. n] ==
            IF k = 0 THEN ws ELSE CloseTabIn(left[k - 1], w, indices[n + 1 - k]) IN
    left[n]

Gone(ws) == {w \in Windows : Exists(w) /\ ws[w].kind = "gone"}

\* The tabs T are not shown any more.
Leave(T) == tab' = [t \in Tabs |-> IF t \in T THEN [tab[t] EXCEPT !.state = "gone"] ELSE tab[t]]

\* The windows are now ws: those that went are reported closed later on, and
\* stay in the order, and focused, until then.
SetWindows(ws) ==
    /\ win' = ws
    /\ events' = events \union Gone(ws)
    /\ Leave(Shown(win) \ Shown(ws))

\* What no window shows any more, and no list of hidden tabs holds, was put
\* away for good.
PutAway(ws) ==
    /\ within' = within \ Session(Shown(win) \ Shown(ws))
    /\ dropped' = dropped \ Session(Shown(win) \ Shown(ws))

NextWindow == {w \in Windows : win[w].kind = "unborn" /\ \A v \in 1 .. w - 1 : win[v].kind # "unborn"}
NextTab    == {t \in Tabs : tab[t].state = "unborn" /\ \A u \in 1 .. t - 1 : tab[u].state # "unborn"}

\* open_tab_russh_in_window: the tab t goes to window w, selected; if there is no
\* such window it is dropped.
OpenTabIn(ws, w, t) ==
    IF w \in Windows /\ ws[w].kind \in {"control", "session"}
    THEN [ws EXCEPT ![w].tabs = Append(@, t), ![w].active = Len(ws[w].tabs) + 1]
    ELSE ws

\* What opening a tab of the session changes besides the windows.
Opens(t, session, ws) ==
    /\ tab' = [tab EXCEPT ![t] = [state |-> "live", session |-> session]]
    /\ within' = within \union (IF t \in Shown(ws) THEN {session} ELSE {})
    /\ dropped' = dropped \ (IF t \in Shown(ws) THEN {session} ELSE {})

\* A new session window, focused, and last in the order.
OpenWindow(w) ==
    /\ order' = Append(order, w)
    /\ focus' = w
    /\ UNCHANGED events

Rest == <<hidden, hiddenWins, conn>>

-----------------------------------------------------------------------------
(***************************************************************************)
(* Closing tabs.                                                           *)
(***************************************************************************)
\* The tab shows a terminal and is not given up: closing it asks first.
Asks(i) == tab[win[ActiveId].tabs[i]].state = "live"

AskFor(indices) ==
    dialog' = [window |-> ActiveId, indices |-> indices, seen |-> win[ActiveId].tabs]

\* CloseTab, CloseOtherTabs and CloseTabsToRight: at once, or by the dialog.
CloseOrAsk(indices, ws) ==
    /\ IF \E k \in DOMAIN indices : Asks(indices[k])
       THEN AskFor(indices) /\ UNCHANGED <<win, tab, events, within, dropped>>
       ELSE /\ SetWindows(ws)
            /\ PutAway(ws)
            /\ UNCHANGED dialog
    /\ UNCHANGED <<order, focus, control>> /\ UNCHANGED Rest

CloseTab(i) ==
    /\ HasTab(i)
    /\ CloseOrAsk(<<i>>, CloseTabIn(win, ActiveId, i))

\* The indices up to n, but for i; and those to the right of i.
IndicesWithout(i, n) == [k \in 1 .. n - 1 |-> IF k < i THEN k ELSE k + 1]
IndicesAfter(i, n)   == [k \in 1 .. n - i |-> i + k]

\* The selection goes to the one tab that is left.
CloseOtherTabs(i) ==
    LET others == IndicesWithout(i, Len(win[ActiveId].tabs)) IN
    /\ HasTab(i)
    /\ CloseOrAsk(others, [CloseTabsIn(win, ActiveId, others) EXCEPT ![ActiveId].active = 1])

CloseTabsToRight(i) ==
    LET right == IndicesAfter(i, Len(win[ActiveId].tabs)) IN
    /\ HasTab(i)
    /\ CloseOrAsk(right, CloseTabsIn(win, ActiveId, right))

\* "Terminate" and "Cancel", or Enter and Escape in whatever window.
AnswerDialog == dialog # NoDialog /\ dialog' = NoDialog

\* Mutant: The tabs are closed from the first index on.
ConfirmCloseTabsForward ==
    /\ AnswerDialog
    /\ LET ws == CloseTabsIn(win, dialog.window, Reverse(dialog.indices)) IN
        SetWindows(ws) /\ PutAway(ws)
    /\ UNCHANGED <<order, focus, control>> /\ UNCHANGED Rest

\* The window may have changed since the dialog was opened, or be gone.
ConfirmCloseTabs ==
    /\ AnswerDialog
    /\ LET ws == CloseTabsIn(win, dialog.window, dialog.indices) IN
        SetWindows(ws) /\ PutAway(ws)
    /\ UNCHANGED <<order, focus, control>> /\ UNCHANGED Rest

CancelCloseTabs ==
    /\ AnswerDialog
    /\ UNCHANGED <<win, order, focus, control, tab, events, within, dropped>> /\ UNCHANGED Rest

\* The menu, or the dialog's "hide instead".  The window stays, if empty too.
HideTab(i) ==
    /\ HasTab(i)
    /\ win' = [win EXCEPT ![ActiveId] = Without(@, i)]
    /\ hidden' = hidden \union {win[ActiveId].tabs[i]}
    /\ dialog' = NoDialog
    /\ Leave({win[ActiveId].tabs[i]})
    /\ UNCHANGED <<order, focus, control, hiddenWins, events, conn, within, dropped>>

\* SshDisconnected "session exited": the tab is found by its id.
SessionExited(t) ==
    /\ tab[t].state = "live"
    /\ \E w \in Windows : \E i \in DOMAIN win[w].tabs :
        /\ win[w].tabs[i] = t
        /\ LET ws == CloseTabIn(win, w, i) IN
            SetWindows(ws) /\ PutAway(ws)
    /\ UNCHANGED <<order, focus, control, dialog>> /\ UNCHANGED Rest

\* What TabLifecycle does with the tabs, for what matters here.
ConnectionChanges(t, state) ==
    /\ \E w \in Windows : t \in ToSet(win[w].tabs)
    /\ state \in {"live", "waiting", "dead"} \ {tab[t].state}
    /\ tab' = [tab EXCEPT ![t].state = state]
    /\ UNCHANGED <<win, order, focus, control, dialog, events, within, dropped>> /\ UNCHANGED Rest

-----------------------------------------------------------------------------
(***************************************************************************)
(* Selecting, moving and naming tabs.                                      *)
(***************************************************************************)
SetActive(window) ==
    /\ win' = [win EXCEPT ![ActiveId] = window]
    /\ UNCHANGED <<order, focus, control, tab, dialog, events, within, dropped>> /\ UNCHANGED Rest

SelectTab(i) ==
    /\ HasTab(i) /\ dialog.window # ActiveId
    /\ SetActive([win[ActiveId] EXCEPT !.active = i])

\* Ctrl+Tab and Ctrl+Shift+Tab.
CycleTab(step) ==
    LET window == win[ActiveId]
        n      == Len(window.tabs) IN
    /\ HasTab(1)
    /\ SetActive([window EXCEPT
            !.active = (((@ - 1) + (IF step = "next" THEN 1 ELSE n - 1)) % n) + 1])

\* The tab to be named is selected; the name is left out.
StartRename(i) ==
    /\ HasTab(i)
    /\ SetActive([win[ActiveId] EXCEPT !.active = i])

Swapped(s, i, k) == [s EXCEPT ![i] = s[k], ![k] = s[i]]

\* The menu offers to move the tab to where there is a neighbour.
Neighbours(i, k) == HasTab(i) /\ HasTab(k)

\* Mutant: The selection stays at its place when its tab is moved.
TabMoveKeepsIndex(i, k) ==
    /\ Neighbours(i, k)
    /\ SetActive([win[ActiveId] EXCEPT !.tabs = Swapped(@, i, k)])

\* TabMoveLeft and TabMoveRight: the selected tab stays the same.
TabMove(i, k) ==
    /\ Neighbours(i, k)
    /\ SetActive([win[ActiveId] EXCEPT
            !.tabs = Swapped(@, i, k),
            !.active = IF @ = i THEN k ELSE IF @ = k THEN i ELSE @])

-----------------------------------------------------------------------------
(***************************************************************************)
(* Opening tabs and windows.                                               *)
(***************************************************************************)
\* The windows ws, and a window w besides: at once NewWindow, ServerConnected
\* (one window; without the tabs it finds) and the command line's.
WithWindow(w) == [win EXCEPT ![w] = NoWindow("session")]

\* NewTab from the control window goes to a session window, or opens one.
NewTab ==
    \E t \in NextTab :
        /\ conn /\ Exists(ActiveId)
        /\ win[ActiveId].kind = "control" => Open(win, "session") # {}
        /\ \E w \in IF win[ActiveId].kind = "control" THEN Open(win, "session") ELSE {ActiveId} :
            /\ win' = OpenTabIn(win, w, t)
            /\ focus' = IF win[ActiveId].kind = "control" THEN w ELSE focus
        /\ Opens(t, t, win')
        /\ UNCHANGED <<order, control, dialog, events>> /\ UNCHANGED Rest

\* Without a connection the window has no tab.
NewWindow ==
    \E w \in NextWindow :
        /\ IF conn
           THEN \E t \in NextTab :
                    /\ win' = OpenTabIn(WithWindow(w), w, t)
                    /\ Opens(t, t, win')
           ELSE /\ Exists(ActiveId) /\ win[ActiveId].kind = "session"
                /\ win' = WithWindow(w)
                /\ UNCHANGED <<tab, within, dropped>>
        /\ OpenWindow(w)
        /\ UNCHANGED <<control, dialog>> /\ UNCHANGED Rest

\* ServerConnected: a session window if there is none, a tab if there is none.
\* Tabs it restores come from StateSync; here it opens a new one.
ServerConnected ==
    /\ ~conn /\ conn' = TRUE
    /\ IF Open(win, "session") = {}
       THEN \E w \in NextWindow, t \in NextTab :
                /\ win' = OpenTabIn(WithWindow(w), w, t)
                /\ OpenWindow(w)
                /\ Opens(t, t, win')
       ELSE \E t \in NextTab :
                /\ win' = OpenTabIn(win, ActiveId, t)
                /\ Opens(t, t, win')
                /\ UNCHANGED <<order, focus, events>>
    /\ UNCHANGED <<control, hidden, hiddenWins, dialog>>

\* The button of a dead tab: a new session takes its place.
CreateNewSession(i) ==
    \E t \in NextTab :
        LET window == win[ActiveId] IN
        /\ HasTab(i) /\ conn /\ window.active = i /\ tab[window.tabs[i]].state = "dead"
        /\ dialog.window # ActiveId
        /\ win' = [win EXCEPT ![ActiveId].tabs[i] = t]
        /\ tab' = [tab EXCEPT ![t] = [state |-> "live", session |-> t],
                              ![window.tabs[i]].state = "gone"]
        /\ within' = (within \ Session({window.tabs[i]})) \union {t}
        /\ dropped' = dropped \ Session({window.tabs[i]})
        /\ UNCHANGED <<order, focus, control, dialog, events>> /\ UNCHANGED Rest

\* handle_remote_state_change finds a tab of another device.  It goes to the
\* window that the entry names, if it is open here, and to the active one if not.
RemoteTab ==
    \E t \in NextTab, w \in Open(win, "session") \union {ActiveId} :
        /\ conn
        /\ win' = OpenTabIn(win, w, t)
        /\ Opens(t, t, win')
        /\ UNCHANGED <<order, focus, control, hidden, hiddenWins, dialog, events, conn>>

\* RestoreHiddenSession: a new tab on the session; or the cached state does not
\* list it any more, as after any flush, and it is only taken off the list.
RestoreHiddenSession(h) ==
    /\ h \in hidden /\ Exists(ActiveId) /\ win[ActiveId].kind = "session"
    /\ hidden' = hidden \ {h}
    /\ \/ \E t \in NextTab :
            /\ win' = OpenTabIn(win, ActiveId, t)
            /\ Opens(t, tab[h].session, win')
       \/ /\ within' = within \ Session({h})
          /\ dropped' = dropped \union (within \intersect Session({h}))
          /\ UNCHANGED <<win, tab>>
    /\ UNCHANGED <<order, focus, control, hiddenWins, dialog, events, conn>>

\* RestoreWorkspaceHiddenWindows, for one hidden window: a window, and a tab for
\* each of its tabs, in order.
RestoreHiddenWindow ==
    /\ hiddenWins # <<>> /\ conn
    /\ LET olds == Head(hiddenWins)
           used == Cardinality({t \in Tabs : tab[t].state # "unborn"})
           New(k) == used + k IN
        \E w \in NextWindow :
            /\ used + Len(olds) <= MaxTab
            /\ win' = [win EXCEPT ![w] =
                        [NoWindow("session") EXCEPT
                            !.tabs = [k \in DOMAIN olds |-> New(k)], !.active = Len(olds)]]
            /\ OpenWindow(w)
            /\ hidden' = hidden \ ToSet(olds)
            /\ tab' = [t \in Tabs |->
                        IF t > used /\ t - used \in DOMAIN olds
                        THEN [state |-> "live", session |-> tab[olds[t - used]].session]
                        ELSE tab[t]]
            /\ within' = within \union Session(ToSet(olds))
            /\ dropped' = dropped \ Session(ToSet(olds))
    /\ hiddenWins' = Tail(hiddenWins)
    /\ UNCHANGED <<control, dialog, conn>>

-----------------------------------------------------------------------------
(***************************************************************************)
(* Windows: closed by the window system or the user, focus, disconnecting. *)
(***************************************************************************)
Unlisted(W) == Among(order, Windows \ W)

\* Focus leaves the windows W for the first of those left.
Refocus(W) ==
    LET left == Unlisted(W) IN
    focus' = IF focus \notin W THEN focus ELSE IF left = <<>> THEN 0 ELSE Head(left)

\* The control window.  The program ends when nothing is left; else the focus
\* stays where it was.
ControlClosed(w) ==
    /\ win[w].kind = "control"
    /\ Open(win, "session") # {} \/ hiddenWins # <<>>
    /\ win' = [win EXCEPT ![w] = NoWindow("gone")]
    /\ order' = Unlisted({w})
    /\ UNCHANGED <<focus, control, tab, dialog, events, within, dropped>> /\ UNCHANGED Rest

\* Mutant: The tabs of a closed window go to hidden_windows only if they are live.
SessionWindowClosedLiveOnly(w) ==
    /\ win[w].kind = "session"
    /\ LET kept == Among(win[w].tabs, In("live")) IN
        /\ hidden' = hidden \union ToSet(kept)
        /\ hiddenWins' = IF kept = <<>> THEN hiddenWins ELSE Append(hiddenWins, kept)
        /\ within' = within \ Session(ToSet(win[w].tabs) \intersect In("dead"))
        /\ dropped' = dropped \ Session(ToSet(win[w].tabs) \intersect In("dead"))
    /\ win' = [win EXCEPT ![w] = NoWindow("gone")]
    /\ order' = Unlisted({w})
    /\ Refocus({w})
    /\ Leave(ToSet(win[w].tabs))
    /\ UNCHANGED <<control, dialog, events, conn>>

\* A session window closed by the user becomes a hidden window.
SessionWindowClosed(w) ==
    /\ win[w].kind = "session"
    /\ LET kept == Among(win[w].tabs, Tabs \ In("dead")) IN
        /\ hidden' = hidden \union ToSet(kept)
        /\ hiddenWins' = IF kept = <<>> THEN hiddenWins ELSE Append(hiddenWins, kept)
        /\ within' = within \ Session(ToSet(win[w].tabs) \intersect In("dead"))
        /\ dropped' = dropped \ Session(ToSet(win[w].tabs) \intersect In("dead"))
    /\ win' = [win EXCEPT ![w] = NoWindow("gone")]
    /\ order' = Unlisted({w})
    /\ Refocus({w})
    /\ Leave(ToSet(win[w].tabs))
    /\ UNCHANGED <<control, dialog, events, conn>>

\* Mutant: The report about a window that the program closed itself is ignored.
ClosedReportedIgnored(w) ==
    /\ w \in events
    /\ events' = events \ {w}
    /\ UNCHANGED <<win, order, focus, control, tab, dialog, within, dropped>> /\ UNCHANGED Rest

\* WindowCloseRequested for a window that the program has closed itself.
ClosedReported(w) ==
    /\ w \in events
    /\ events' = events \ {w}
    /\ order' = Unlisted({w})
    /\ Refocus({w})
    /\ UNCHANGED <<win, control, tab, dialog, within, dropped>> /\ UNCHANGED Rest

\* WindowFocused; or WindowOpened and WindowMoved, which do not look whether the
\* window is gone.
WindowFocused(w) ==
    /\ Exists(w) \/ w \in events
    /\ focus # w /\ focus' = w
    /\ UNCHANGED <<win, order, control, tab, dialog, events, within, dropped>> /\ UNCHANGED Rest

\* From the tray.
ShowControlWindow ==
    /\ IF Exists(control)
       THEN /\ focus' = control
            /\ UNCHANGED <<win, order, control>>
       ELSE \E w \in NextWindow :
            /\ win' = [win EXCEPT ![w] = NoWindow("control")]
            /\ order' = Append(order, w)
            /\ control' = w /\ focus' = w
    /\ UNCHANGED <<tab, dialog, events, within, dropped>> /\ UNCHANGED Rest

Sessions == Open(win, "session")

\* DisconnectServer hides all tabs, dead ones too, and closes their windows.
DisconnectServer ==
    /\ conn /\ conn' = FALSE
    /\ hidden' = hidden \union Shown(win)
    /\ SetWindows([w \in Windows |-> IF w \in Sessions THEN NoWindow("gone") ELSE win[w]])
    /\ order' = Unlisted(Sessions)
    /\ Refocus(Sessions)
    /\ UNCHANGED <<control, hiddenWins, dialog, within, dropped>>

\* ConfirmCloseServer ends all sessions; windows that were empty stay.
ConfirmCloseServer ==
    LET ws == [w \in Windows |-> IF w \in Sessions /\ win[w].tabs # <<>>
                                 THEN NoWindow("gone") ELSE win[w]] IN
    /\ conn /\ conn' = FALSE
    /\ SetWindows(ws) /\ PutAway(ws)
    /\ UNCHANGED <<order, focus, control, hidden, hiddenWins, dialog>>

Next ==
    \/ \E i \in Tabs : \/ CloseTab(i) \/ CloseOtherTabs(i) \/ CloseTabsToRight(i)
                       \/ HideTab(i) \/ SelectTab(i) \/ StartRename(i)
                       \/ CreateNewSession(i)
                       \/ TabMove(i, i + 1) \/ TabMove(i + 1, i)
    \/ ConfirmCloseTabs \/ CancelCloseTabs
    \/ \E t \in Tabs : \/ SessionExited(t) \/ RestoreHiddenSession(t)
                       \/ \E state \in {"live", "waiting", "dead"} : ConnectionChanges(t, state)
    \/ \E step \in {"next", "previous"} : CycleTab(step)
    \/ NewTab \/ NewWindow \/ RemoteTab \/ RestoreHiddenWindow
    \/ ServerConnected \/ DisconnectServer \/ ConfirmCloseServer
    \/ \E w \in Windows : \/ ControlClosed(w) \/ SessionWindowClosed(w)
                          \/ ClosedReported(w) \/ WindowFocused(w)
    \/ ShowControlWindow

Spec == Init /\ [][Next]_vars

-----------------------------------------------------------------------------
(***************************************************************************)
(* Properties.                                                             *)
(***************************************************************************)
\* Sessions that a window once showed, and whose user neither ended them nor left
\* their shell nor let go of their dead tab since.
Owned == within \union dropped

\* They are within reach: a window shows them, or the list of hidden sessions has
\* them, whatever windows were closed, hidden or restored.  Excepted are those that
\* RestoreHiddenSession was asked for and did not find in the cached state.
SessionsWithinReach ==
    \A s \in Owned : s \in Session(Shown(win) \union hidden) \/ s \in dropped

\* Without that exception a session hidden to be kept (mod.rs:1019 "keep the tmux
\* session alive on the server") could always be shown again.
HiddenSessionsReturn == Owned \subseteq Session(Shown(win) \union hidden)

\* Confirming the close dialog closes the tabs it was opened for and no others,
\* however many they are, if the tabs of its window are as they were.
ChosenTabsClose ==
    [][dialog # NoDialog /\ ConfirmCloseTabs /\ win[dialog.window].tabs = dialog.seen =>
        Shown(win') = Shown(win) \ {dialog.seen[i] : i \in ToSet(dialog.indices)}]_vars

\* Keys and new tabs go to a window: one that is gone is focused only until the
\* report of its closing, except for the control window, until another is focused.
FocusRecovers ==
    focus # 0 /\ ~Exists(focus) => focus = control \/ focus \in events

\* Reordering the tabs of a window leaves the tab in front as it is.
TabInFront(window) == window.tabs[window.active]
FrontTabStays ==
    [][\A w \in Windows :
        (win'[w].tabs # win[w].tabs /\ ToSet(win'[w].tabs) = ToSet(win[w].tabs))
            => TabInFront(win'[w]) = TabInFront(win[w])]_vars

\* update.rs, FR-SESSION-10a: a session with a terminal is only closed after its
\* user was asked about it.
AskedFirst ==
    [][dialog # NoDialog /\ dialog' = NoDialog /\ ConfirmCloseTabs =>
        \A t \in Shown(win) \ Shown(win') :
            tab[t].state = "live" => \E i \in ToSet(dialog.indices) : dialog.seen[i] = t]_vars
=============================================================================
