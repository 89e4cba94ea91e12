----------------------------- MODULE TabLifecycle -----------------------------
(***************************************************************************)
(* The connections of the tabs of one device: app/tab.rs, the attempts of  *)
(* app/session.rs, and the handlers of app/update.rs and app/mod.rs that   *)
(* start them, take their answers and start them again.                    *)
(*                                                                         *)
(* An attempt is a task: it ends on its own, some time later, and posts an *)
(* SshConnected message that names the tab, not the attempt.  Its channel  *)
(* goes into a holder, an Arc that the tab shares with it; the tab keeps   *)
(* the holder of the attempt that was started last.  While a tab is        *)
(* Connected, a stream (an iced subscription, one per tab id) takes the    *)
(* channel out of the holder, reads it, and posts one SshDisconnected when *)
(* it ends.  Messages are handled in the order in which they are posted.   *)
(*                                                                         *)
(* Left out: the text and size of the terminal, and the input side of a    *)
(* stream (writer_rx, resize_rx), renewed with the terminal and taken with *)
(* the channel.  The delay of the backoff is left out because nothing ever *)
(* reads it: handle_auto_reconnect sets it on a Reconnecting tab and turns *)
(* that tab to Connecting, without a delay, in the same handler.           *)
(* Subscriptions are evaluated after every message.  (iced may handle a    *)
(* batch first; that differs only if a tab stops and starts being          *)
(* Connected within one batch, which takes an overtaken attempt.)          *)
(***************************************************************************)
EXTENDS Naturals, FiniteSets, Sequences

CONSTANTS
    TabIds,         \* ids of tabs, given out in ascending order, never reused
    Slots,          \* bound: attempts (and their holders) in memory at a time
    MaxAttempts,    \* config: reconnect_max_attempts
    MaxReconnects,  \* handle_auto_reconnect: the literal 5
    Reaches,        \* bound: which sets of tabs the network lets through at a time
    None

ASSUME TabIdsAssumption == TabIds \subseteq Nat /\ IsFiniteSet(TabIds)
ASSUME SlotsAssumption == Slots \subseteq Nat /\ IsFiniteSet(Slots)
ASSUME LimitsAssumption == MaxAttempts \in Nat /\ MaxReconnects \in Nat \ {0}
ASSUME ReachesAssumption == Reaches \subseteq SUBSET TabIds
ASSUME NoneAssumption == None \notin TabIds /\ None \notin Slots

VARIABLES
    tabs,       \* per tab: state, holder (pending or connected), attempt, terminal
    slots,      \* per slot: the attempt, and the channel in its holder
    streams,    \* per tab: the stream that has its holder
    inbox,      \* the SshConnected and SshDisconnected messages not yet handled
    prompt,     \* the tab the password dialog is open for (password_target_tab)
    reach,      \* the tabs whose session can be reached over the network now
    overtaken   \* history: tabs that had two attempts unanswered at once

vars == <<tabs, slots, streams, inbox, prompt, reach, overtaken>>

-----------------------------------------------------------------------------
State  == {"Connecting", "Connected", "Reconnecting", "Disconnected"}
Unborn == [state |-> "unborn", holder |-> None, attempt |-> 0, terminal |-> FALSE]
Closed == [Unborn EXCEPT !.state = "closed"]
Idle   == [tab |-> None, stage |-> "over", channel |-> "empty", auto |-> FALSE]

Tab == [state : State \union {"unborn", "closed"}, holder : Slots \union {None},
        attempt : Nat, terminal : BOOLEAN]

\* Who starts an attempt, the timer ("auto") or the user, is history.  It is
\* "running", then "posted" until its message is handled.
Slot == [tab : TabIds \union {None}, stage : {"running", "posted", "over"},
         channel : {"empty", "full", "taken"}, auto : BOOLEAN]

Failure == {"error", "permanent", "auth"}
Answer  == {"ok"} \union Failure
Reason  == {"session exited", "channel closed"}
Message == [tab : TabIds, slot : Slots, what : Answer \union Reason]

IsOpen(t)     == tabs[t].state \in State
In(state)     == {t \in TabIds : tabs[t].state = state}
Unanswered(t) == {s \in Slots : slots[s].tab = t /\ slots[s].stage # "over"}
First(S)      == CHOOSE x \in S : \A y \in S : x <= y

\* Nothing refers to the slot: no task, tab or message.
FreeSlots == {s \in Slots : /\ slots[s].stage = "over"
                            /\ \A t \in TabIds : tabs[t].holder # s
                            /\ \A i \in DOMAIN inbox : inbox[i].slot # s}

TypeOK ==
    /\ tabs \in [TabIds -> Tab]
    /\ slots \in [Slots -> Slot]
    /\ streams \in [TabIds -> {"none", "starting", "reading", "ended", "parked"}]
    /\ inbox \in Seq(Message)
    /\ prompt \in TabIds \union {None}
    /\ reach \subseteq TabIds
    /\ overtaken \subseteq TabIds
    \* What the variants of ConnectionState carry; one stream per Connected tab.
    /\ \A t \in TabIds :
        /\ tabs[t].holder # None <=> tabs[t].state \in {"Connecting", "Connected"}
        /\ tabs[t].attempt # 0 => tabs[t].state = "Reconnecting"
        /\ streams[t] # "none" <=> tabs[t].state = "Connected"
    \* No two tabs share a holder.
    /\ \A t, u \in TabIds :
        tabs[t].holder = tabs[u].holder => t = u \/ tabs[t].holder = None

Init ==
    /\ tabs = [t \in TabIds |-> Unborn]
    /\ slots = [s \in Slots |-> Idle]
    /\ streams = [t \in TabIds |-> "none"]
    /\ inbox = <<>>
    /\ prompt = None
    /\ reach = TabIds
    /\ overtaken = {}

-----------------------------------------------------------------------------
(***************************************************************************)
(* The transitions of Tab, and what follows every handler.                 *)
(***************************************************************************)
Connecting(s, terminal) ==
    [state |-> "Connecting", holder |-> s, attempt |-> 0, terminal |-> terminal]
Reconnecting(n, terminal) ==
    [state |-> "Reconnecting", holder |-> None, attempt |-> n, terminal |-> terminal]

\* Mutant: The holder stays when a tab is disconnected.
DisconnectedKeepsHolder(terminal) ==
    [state |-> "Disconnected", holder |-> First(Slots), attempt |-> 0, terminal |-> terminal]

Disconnected(terminal) ==
    [state |-> "Disconnected", holder |-> None, attempt |-> 0, terminal |-> terminal]

\* subscription() lists the Connected tabs.  A stream is known by its tab's id
\* alone: one is started where none is running, and dropped when its tab is no
\* longer Connected.
Track(ts) ==
    [t \in TabIds |-> IF ts[t].state # "Connected" THEN "none"
                      ELSE IF streams[t] = "none" THEN "starting" ELSE streams[t]]

\* The last reference to a holder drops it, with the channel in it.
Sweep(sl, ts) ==
    [s \in Slots |-> IF sl[s].stage = "over" /\ \A t \in TabIds : ts[t].holder # s
                     THEN Idle ELSE sl[s]]

Update(ts, sl) == tabs' = ts /\ streams' = Track(ts) /\ slots' = Sweep(sl, ts)

SetTab(t, tab, sl) == Update([tabs EXCEPT ![t] = tab], sl)

\* start_ssh_connection: a new task, which shares a new holder with the tab.
Start(t, s, terminal, auto) ==
    /\ SetTab(t, Connecting(s, terminal),
              [slots EXCEPT ![s] = [tab |-> t, stage |-> "running",
                                    channel |-> "empty", auto |-> auto]])
    /\ overtaken' = IF Unanswered(t) = {} THEN overtaken ELSE overtaken \union {t}

StartFresh(t, terminal, auto) ==
    FreeSlots # {} /\ Start(t, First(FreeSlots), terminal, auto)

\* reconnect_tab_in_window makes a new terminal first.
ReconnectTabInWindow(t, auto) == StartFresh(t, TRUE, auto)

-----------------------------------------------------------------------------
(***************************************************************************)
(* The user.  Buttons are those the view shows; the password dialog covers *)
(* everything but the keyboard shortcuts.                                  *)
(***************************************************************************)
OpenTab(t) ==
    /\ tabs[t].state = "unborn"
    /\ \A u \in TabIds : u < t => tabs[u].state # "unborn"
    /\ ReconnectTabInWindow(t, FALSE)
    /\ UNCHANGED <<inbox, prompt, reach>>

\* Closing or hiding a tab drops it with its holder; its attempt runs on.
RemoveTab(t) ==
    /\ IsOpen(t)
    /\ SetTab(t, Closed, slots)
    /\ UNCHANGED <<inbox, prompt, reach, overtaken>>

ReconnectTab(t) ==
    /\ tabs[t].state = "Disconnected"
    /\ prompt = None
    /\ ReconnectTabInWindow(t, FALSE)
    /\ UNCHANGED <<inbox, prompt, reach>>

CancelConnect(t) ==
    /\ tabs[t].state = "Connecting" /\ tabs[t].terminal
    /\ prompt = None
    /\ SetTab(t, Disconnected(FALSE), slots)
    /\ UNCHANGED <<inbox, prompt, reach, overtaken>>

\* The tab keeps the terminal it has, which the failed attempt has taken away.
PasswordSubmit ==
    /\ prompt # None
    /\ prompt' = None
    /\ IF IsOpen(prompt)
       THEN StartFresh(prompt, tabs[prompt].terminal, FALSE)
       ELSE UNCHANGED <<tabs, streams, slots, overtaken>>
    /\ UNCHANGED <<inbox, reach>>

PasswordCancel ==
    /\ prompt # None
    /\ prompt' = None
    /\ IF IsOpen(prompt)
       THEN SetTab(prompt, Disconnected(tabs[prompt].terminal), slots)
       ELSE UNCHANGED <<tabs, streams, slots>>
    /\ UNCHANGED <<inbox, reach, overtaken>>

-----------------------------------------------------------------------------
(***************************************************************************)
(* Attempts: establish_ssh_session, then the message it posts.             *)
(***************************************************************************)
Post(t, s, what) == inbox' = Append(inbox, [tab |-> t, slot |-> s, what |-> what])

AttemptSucceeds(s) ==
    /\ slots[s].stage = "running" /\ slots[s].tab \in reach
    /\ slots' = [slots EXCEPT ![s].stage = "posted", ![s].channel = "full"]
    /\ Post(slots[s].tab, s, "ok")
    /\ UNCHANGED <<tabs, streams, prompt, reach, overtaken>>

\* A server that is reached may still refuse: its host key, a password, and, which
\* is retried, the channel, the pty, tmux.  One that is not fails in the last way.
AttemptFails(s, why) ==
    /\ slots[s].stage = "running"
    /\ why # "error" => slots[s].tab \in reach
    /\ slots' = [slots EXCEPT ![s].stage = "posted"]
    /\ Post(slots[s].tab, s, why)
    /\ UNCHANGED <<tabs, streams, prompt, reach, overtaken>>

\* The next message is one of these; what an answer makes of its tab.
Take(what) ==
    inbox # <<>> /\ Head(inbox).what \in what /\ inbox' = Tail(inbox)

Answered(tab) ==
    LET m == Head(inbox) IN
    SetTab(m.tab, IF IsOpen(m.tab) THEN tab ELSE tabs[m.tab],
           [slots EXCEPT ![m.slot].stage = "over"])

\* The pending channel that is taken is the tab's, whichever attempt answers.  A
\* Reconnecting tab never has one.
SshConnectedOk ==
    /\ Take({"ok"})
    /\ LET t == Head(inbox).tab IN
        Answered(IF tabs[t].state = "Connecting"
                 THEN [tabs[t] EXCEPT !.state = "Connected"] ELSE tabs[t])
    /\ UNCHANGED <<prompt, reach, overtaken>>

\* A failure that counts as transient is retried, whatever the count.
SshConnectedErr ==
    /\ Take({"error"})
    /\ Answered(Reconnecting(tabs[Head(inbox).tab].attempt + 1, FALSE))
    /\ UNCHANGED <<prompt, reach, overtaken>>

\* Mutant: A refusal while the dialog is open for another tab is only shown.
SshConnectedRefusedBusy ==
    /\ Take({"permanent", "auth"})
    /\ Answered(IF prompt = None THEN Disconnected(FALSE) ELSE tabs[Head(inbox).tab])
    /\ prompt' = IF Head(inbox).what = "auth" /\ prompt = None
                 THEN Head(inbox).tab ELSE prompt
    /\ UNCHANGED <<reach, overtaken>>

\* Mutant: The dialog opens while the tab goes on reconnecting.
SshConnectedRefusedRetried ==
    /\ Take({"permanent", "auth"})
    /\ Answered(IF Head(inbox).what = "auth" THEN Reconnecting(1, FALSE)
                ELSE Disconnected(FALSE))
    /\ prompt' = IF Head(inbox).what = "auth" /\ prompt = None
                 THEN Head(inbox).tab ELSE prompt
    /\ UNCHANGED <<reach, overtaken>>

\* A refused key opens the password dialog unless it is open already.
SshConnectedRefused ==
    /\ Take({"permanent", "auth"})
    /\ Answered(Disconnected(FALSE))
    /\ prompt' = IF Head(inbox).what = "auth" /\ prompt = None
                 THEN Head(inbox).tab ELSE prompt
    /\ UNCHANGED <<reach, overtaken>>

-----------------------------------------------------------------------------
(***************************************************************************)
(* Streams: ssh_channel_stream, then the message it posts.                 *)
(***************************************************************************)
\* An empty holder is taken for one whose stream is running already.
StreamStarts(t) ==
    /\ streams[t] = "starting"
    /\ LET s == tabs[t].holder IN
        IF slots[s].channel = "full"
        THEN /\ streams' = [streams EXCEPT ![t] = "reading"]
             /\ slots' = [slots EXCEPT ![s].channel = "taken"]
        ELSE /\ streams' = [streams EXCEPT ![t] = "parked"]
             /\ UNCHANGED slots
    /\ UNCHANGED <<tabs, inbox, prompt, reach, overtaken>>

\* Mutant: The loop is left without a message when the connection breaks.
StreamEndsSilently(t, reason) ==
    /\ streams[t] = "reading"
    /\ t \in reach <=> reason = "session exited"
    /\ streams' = [streams EXCEPT ![t] = "ended"]
    /\ IF reason = "channel closed" THEN UNCHANGED inbox
       ELSE Post(t, tabs[t].holder, reason)
    /\ UNCHANGED <<tabs, slots, prompt, reach, overtaken>>

\* The shell exits, or the connection breaks.
StreamEnds(t, reason) ==
    /\ streams[t] = "reading"
    /\ t \in reach <=> reason = "session exited"
    /\ streams' = [streams EXCEPT ![t] = "ended"]
    /\ Post(t, tabs[t].holder, reason)
    /\ UNCHANGED <<tabs, slots, prompt, reach, overtaken>>

SessionExited ==
    /\ Take({"session exited"})
    /\ LET t == Head(inbox).tab IN SetTab(t, IF IsOpen(t) THEN Closed ELSE tabs[t], slots)
    /\ UNCHANGED <<prompt, reach, overtaken>>

SshDisconnected ==
    /\ Take({"channel closed"})
    /\ LET t   == Head(inbox).tab
           tab == tabs[t] IN
        SetTab(t, IF ~IsOpen(t) THEN tab
                  ELSE IF tab.state # "Disconnected" /\ tab.attempt < MaxAttempts
                  THEN Reconnecting(tab.attempt + 1, tab.terminal)
                  ELSE Disconnected(FALSE), slots)
    /\ UNCHANGED <<prompt, reach, overtaken>>

-----------------------------------------------------------------------------
(***************************************************************************)
(* Timers, the network, and the sessions listed at a connect.              *)
(***************************************************************************)
\* Mutant: Every tab without a channel counts as a reconnect in progress.
InProgressAll == {t \in In("Connecting") \union In("Reconnecting") : TRUE}

\* The connects in progress that handle_auto_reconnect counts.
InProgress == {t \in In("Connecting") : tabs[t].terminal}

\* Mutant: The limit is compared with >.
AutoReconnectTickOneMore ==
    /\ In("Reconnecting") # {}
    /\ Cardinality(InProgress) <= MaxReconnects
    /\ ReconnectTabInWindow(First(In("Reconnecting")), TRUE)
    /\ UNCHANGED <<inbox, prompt, reach>>

\* The timer runs while a tab is Reconnecting; each tick starts one attempt, for
\* the first such tab: the tabs are in one window, in the order they were opened.
AutoReconnectTick ==
    /\ In("Reconnecting") # {}
    /\ Cardinality(InProgress) < MaxReconnects
    /\ ReconnectTabInWindow(First(In("Reconnecting")), TRUE)
    /\ UNCHANGED <<inbox, prompt, reach>>

\* Mutant: A new gateway makes every live tab reconnect.
NetworkChangedAll ==
    /\ \E t \in In("Reconnecting") : tabs[t].attempt # 0
    /\ Update([t \in TabIds |-> IF t \in In("Reconnecting") \union In("Connected")
                                THEN Reconnecting(0, tabs[t].terminal) ELSE tabs[t]],
              slots)
    /\ UNCHANGED <<inbox, prompt, reach, overtaken>>

NetworkChanged ==
    /\ \E t \in In("Reconnecting") : tabs[t].attempt # 0
    /\ Update([t \in TabIds |-> IF t \in In("Reconnecting")
                                THEN [tabs[t] EXCEPT !.attempt = 0] ELSE tabs[t]],
              slots)
    /\ UNCHANGED <<inbox, prompt, reach, overtaken>>

\* reconcile_sessions finds the tab's session gone from the list.
MarkGone(t) ==
    /\ IsOpen(t) /\ tabs[t].state # "Disconnected" /\ ~tabs[t].terminal
    /\ SetTab(t, Disconnected(FALSE), slots)
    /\ UNCHANGED <<inbox, prompt, reach, overtaken>>

ReachChanges ==
    /\ reach' \in Reaches
    /\ UNCHANGED <<tabs, slots, streams, inbox, prompt, overtaken>>

HandleMessage ==
    \/ SshConnectedOk \/ SshConnectedErr \/ SshConnectedRefused
    \/ SessionExited \/ SshDisconnected

AttemptEnds(s) == AttemptSucceeds(s) \/ \E why \in Failure : AttemptFails(s, why)

Next ==
    \/ \E t \in TabIds : \/ OpenTab(t) \/ RemoveTab(t) \/ ReconnectTab(t)
                         \/ CancelConnect(t) \/ StreamStarts(t) \/ MarkGone(t)
                         \/ \E reason \in Reason : StreamEnds(t, reason)
    \/ \E s \in Slots : AttemptEnds(s)
    \/ HandleMessage
    \/ PasswordSubmit \/ PasswordCancel
    \/ AutoReconnectTick \/ NetworkChanged \/ ReachChanges

Spec == Init /\ [][Next]_vars

\* Tasks end (connect_timeout, and the keepalive for what follows), posted
\* messages are handled, streams are polled, and the timer ticks.
Fairness ==
    /\ \A s \in Slots : WF_vars(AttemptEnds(s))
    /\ WF_vars(HandleMessage)
    /\ \A t \in TabIds : WF_vars(StreamStarts(t))
    /\ WF_vars(AutoReconnectTick)

\* The server: asked again and again by a tab that reaches it, it gives a channel
\* in the end, or refuses for good.
Decided(t) ==
    \E s \in Slots :
        slots[s].tab = t /\ (AttemptSucceeds(s) \/ \E why \in {"permanent", "auth"} : AttemptFails(s, why))

FairSpec == Spec /\ Fairness

ServedSpec == FairSpec /\ \A t \in TabIds : SF_vars(Decided(t))

-----------------------------------------------------------------------------
(***************************************************************************)
(* Properties.                                                             *)
(***************************************************************************)
\* No tab waits for an answer that will never come: a Connecting tab has an
\* attempt of its own, on the holder it keeps, still to be answered.
ConnectingIsUnderway ==
    \A t \in In("Connecting") : tabs[t].holder \in Unanswered(t)

\* A Connected tab is alive: as long as no two of its attempts overlapped, its
\* channel is about to be picked up or is being read, or its end is reported.
ConnectedIsServed ==
    \A t \in In("Connected") \ overtaken :
        \/ streams[t] = "starting" /\ slots[tabs[t].holder].channel = "full"
        \/ streams[t] = "reading"
        \/ /\ streams[t] = "ended"
           /\ \E i \in DOMAIN inbox : /\ inbox[i].tab = t /\ inbox[i].what \in Reason
                                      /\ inbox[i].slot = tabs[t].holder

\* While the password dialog is open its tab waits for it: submitting never
\* tears down a connection, or overlaps one being made.
PromptedTabWaits ==
    prompt # None /\ prompt \notin overtaken =>
        tabs[prompt].state \in {"Disconnected", "closed"} /\ Unanswered(prompt) = {}

\* FR-RECONNECT-05: at most MaxReconnects automatic reconnects are going on.
ReconnectsLimited ==
    Cardinality({t \in In("Connecting") : slots[tabs[t].holder].auto}) <= MaxReconnects

\* A connection that works is left alone: no late answer, stale report, timer
\* or network change takes a tab from a stream that is reading.
WorkingTabsStay ==
    [][\A t \in In("Connected") \ overtaken' :
        streams[t] = "reading" /\ tabs[t].terminal =>
            tabs'[t].state \in {"Connected", "closed"}]_vars

\* When the network is back for good and the user lets it work, every tab that
\* was cut off or was connecting is connected, refused by its server, or gone,
\* however often channels are refused before, if each tab is let in in the end.
UserActs == \/ PasswordSubmit
            \/ \E t \in TabIds : OpenTab(t) \/ ReconnectTab(t) \/ CancelConnect(t)

TabsComeBack ==
    <>[](reach = TabIds) /\ <>[][~UserActs]_vars =>
        \A t \in TabIds : tabs[t].state \in {"Reconnecting", "Connecting"}
                       ~> tabs[t].state \in {"Connected", "Disconnected", "closed"}

\* What the user of one tab expects, whatever the server makes of the others: it
\* comes back if only its own attempts end in a channel or a refusal for good.
\* Under FairSpec the others are tried for ever before it.
NoTabStarves ==
    <>[](reach = TabIds) /\ <>[][~UserActs]_vars =>
        \A t \in TabIds :
            <>[][\A s \in Slots : slots[s].tab = t => ~AttemptFails(s, "error")]_vars =>
                (tabs[t].state \in {"Reconnecting", "Connecting"}
                    ~> tabs[t].state \in {"Connected", "Disconnected", "closed"})

\* config.rs: reconnect_max_attempts.  A tab that cannot be reached is not
\* tried forever: now and then, or in the end, it rests.
AttemptsEnd ==
    \A t \in TabIds : <>[](t \notin reach) =>
        []<>(tabs[t].state \notin {"Reconnecting", "Connecting"})
=============================================================================
