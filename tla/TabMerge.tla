------------------------------- MODULE TabMerge -------------------------------
(***************************************************************************)
(* merge-on-flush (src/state/merge.rs): how two versions of shared.json    *)
(* become one.  Pure operators; nothing here changes state.                *)
(*                                                                         *)
(* A tab is a record [uuid, tmux, title, win, at, pos]: session_uuid,      *)
(* tmux_session_name, title, server_window_id, updated_at, position.       *)
(* A timestamp is a natural; 0 stands for the empty string the code uses   *)
(* for "never edited", which compares below every real timestamp.          *)
(* A document is [workspaces, hiddenWindows]; a workspace is               *)
(* [name, uuid, tabs, at] and its tabs are a sequence, whose order is the  *)
(* order of the tab bar.                                                   *)
(***************************************************************************)
EXTENDS Naturals, FiniteSets, Sequences, SequencesExt

UuidsOf(tabs) == {t.uuid : t \in ToSet(tabs)}

\* The entries of s at the places I, in their order: what a loop over s keeps.
SubSeqAt(s, I) ==
    [k \in 1 .. Cardinality(I) |->
        s[CHOOSE i \in I : Cardinality({j \in I : j <= i}) = k]]

\* Mutant: the session list is ignored, dead tabs stay.
AliveAtEverywhere(tabs, live) == DOMAIN tabs

\* Where the tabs are whose tmux session is still running on the server.
AliveAt(tabs, live) == {i \in DOMAIN tabs : tabs[i].tmux \in live}

AliveTabs(tabs, live) == SubSeqAt(tabs, AliveAt(tabs, live))

\* Mutant: the positions of the two inputs are written as they were.
ReindexForgotten(tabs) == tabs

\* Positions are 0-based and follow the order of the sequence.
Reindex(tabs) == [i \in DOMAIN tabs |-> [tabs[i] EXCEPT !.pos = i - 1]]

NewerThan(a, b) == a # 0 /\ a > b

\* Mutant: the newer title is taken without its timestamp.
MergeTabTimeLost(local, remote) ==
    IF NewerThan(remote.at, local.at)
    THEN [local EXCEPT !.title = remote.title, !.win = remote.win]
    ELSE local

\* Mutant: timestamps are not compared, the flushing device always wins.
MergeTabLocalWins(local, remote) == local

(***************************************************************************)
(* Two versions of one tab: the metadata with the newer timestamp wins, a  *)
(* tie (two empty timestamps included) is won by the local version.        *)
(***************************************************************************)
MergeTab(local, remote) ==
    IF NewerThan(remote.at, local.at)
    THEN [local EXCEPT !.title = remote.title, !.win = remote.win,
                       !.at = remote.at]
    ELSE local

\* The hash map from uuid to remote tab keeps the last entry of a uuid.
RemoteByUuid(remote, u) ==
    remote[CHOOSE i \in DOMAIN remote :
              /\ remote[i].uuid = u
              /\ \A j \in DOMAIN remote : remote[j].uuid = u => j <= i]

\* A live remote tab is adopted unless its uuid has been seen, among the local
\* tabs or the remote ones before it.
AdoptedAt(mine, remote, live) ==
    {i \in AliveAt(remote, live) :
        /\ remote[i].uuid \notin UuidsOf(mine)
        /\ \A j \in AliveAt(remote, live) : remote[j].uuid = remote[i].uuid => i <= j}

\* Each local tab merged with its remote version.
MergedLocals(mine, remote) ==
    [i \in DOMAIN mine |-> IF mine[i].uuid \in UuidsOf(remote)
                           THEN MergeTab(mine[i], RemoteByUuid(remote, mine[i].uuid))
                           ELSE mine[i]]

\* Live local tabs first, in their order, then the adopted ones.
MergeTabs(local, remote, live) ==
    LET mine == AliveTabs(local, live) IN
    Reindex(MergedLocals(mine, remote) \o SubSeqAt(remote, AdoptedAt(mine, remote, live)))

MergeWorkspace(l, r, live) ==
    [name |-> IF NewerThan(r.at, l.at) THEN r.name ELSE l.name,
     uuid |-> l.uuid,
     tabs |-> MergeTabs(l.tabs, r.tabs, live),
     at   |-> IF r.at > l.at THEN r.at ELSE l.at]

\* A workspace only one side knows keeps its live tabs.
FilterWorkspace(ws, live) ==
    [ws EXCEPT !.tabs = Reindex(AliveTabs(ws.tabs, live))]

\* Mutant: the two lists are joined without looking at the ids.
MergeHiddenWindowsJoined(local, remote) == local \o remote

\* The first entry of each id.
FirstOfEachId(ws) ==
    SubSeqAt(ws, {i \in DOMAIN ws : \A j \in DOMAIN ws : ws[j].id = ws[i].id => i <= j})

\* Hidden windows are united by their id, the local snapshot first.
MergeHiddenWindows(local, remote) == FirstOfEachId(local \o remote)

\* Workspaces are matched by the name they are stored under.
MergeSharedStates(local, remote, live) ==
    LET lw == local.workspaces
        rw == remote.workspaces
    IN  [workspaces |->
            [n \in DOMAIN lw \union DOMAIN rw |->
                IF n \in DOMAIN lw \intersect DOMAIN rw
                THEN MergeWorkspace(lw[n], rw[n], live)
                ELSE FilterWorkspace(IF n \in DOMAIN lw THEN lw[n] ELSE rw[n],
                                     live)],
         hiddenWindows |->
            MergeHiddenWindows(local.hiddenWindows, remote.hiddenWindows)]

\* Mutant: the session list is applied to the device's own tabs only.
MergeTabSetsRemoteDead(local, remote, live) ==
    LET mine == {t \in local : t.tmux \in live}
    IN  mine \union {t \in remote : \A m \in mine : m.uuid # t.uuid}

(***************************************************************************)
(* What the merge does to the set of tabs, without order or metadata: the  *)
(* view of it that the state-sync model (StateSync) works with.            *)
(***************************************************************************)
MergeTabSets(local, remote, live) ==
    LET mine == {t \in local : t.tmux \in live}
    IN  mine \union {t \in remote : /\ t.tmux \in live
                                    /\ \A m \in mine : m.uuid # t.uuid}
=============================================================================
