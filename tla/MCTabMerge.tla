------------------------------ MODULE MCTabMerge ------------------------------
(***************************************************************************)
(* Bounded check of TabMerge: every pair of documents built from a few     *)
(* tabs, workspaces and hidden windows is merged on both devices, and a    *)
(* flush that finds its own earlier merge on the server merges again.      *)
(***************************************************************************)
EXTENDS TabMerge

CONSTANTS
    Uuids,      \* tab uuids, naturals
    MaxTabs,    \* tabs a document holds at most
    MaxTime     \* timestamps are 0 .. MaxTime

ASSUME InputsAssumption == MaxTabs \in Nat /\ MaxTime \in Nat

VARIABLES
    local,      \* the document the flushing device built from its windows
    remote,     \* the document it found on the server
    alive,      \* the tmux sessions running on the server
    merged,     \* {} or {the document the device writes}
    mirrored,   \* {} or {what the other device writes from the same two}
    retried     \* {} or {what a second flush of the device writes}

mergeVars == <<local, remote, alive, merged, mirrored, retried>>

(***************************************************************************)
(* Inputs.  Uuids 1 and 3 are two tabs on the tmux session 1, which        *)
(* devices produce when each opens a tab of its own for one session.  The  *)
(* titles tell which side an entry came from, and an entry both sides hold *)
(* with the same timestamp has the same title.                             *)
(***************************************************************************)
Tmux(u) == IF u = 3 THEN 1 ELSE u

TabEntry(u, at, side) ==
    [uuid |-> u, tmux |-> Tmux(u), title |-> <<side, at>>, win |-> <<side, at>>,
     at |-> at, pos |-> 0]

TabSeqs(side) ==
    LET orders == {s \in UNION {[1 .. n -> Uuids] : n \in 0 .. MaxTabs} :
                        Cardinality(ToSet(s)) = Len(s)}
    IN  UNION {{[i \in DOMAIN o |-> TabEntry(o[i], ats[i], side)] :
                    ats \in [DOMAIN o -> 0 .. MaxTime]} : o \in orders}

Document(name, uuid, at, tabs, windows) ==
    [workspaces |-> [n \in {"main"} |-> [name |-> name, uuid |-> uuid, at |-> at,
                                          tabs |-> tabs]],
     hiddenWindows |-> windows]

Window(i, side) == [id |-> i, name |-> side]

WindowSeqs(side) ==
    {<<>>, <<Window(1, side)>>, <<Window(2, side), Window(1, side)>>}

\* Two documents whose tabs differ in every way.
InitTabs ==
    /\ alive \in SUBSET {Tmux(u) : u \in Uuids}
    /\ \E lt \in TabSeqs("l"), rt \in TabSeqs("r") :
          /\ local  = Document("main", 1, 0, lt, <<>>)
          /\ remote = Document("main", 1, 0, rt, <<>>)

\* Two documents that differ in workspace metadata, in the workspaces they
\* have and in hidden windows.
InitWorkspaces ==
    /\ alive = {1}
    /\ \E lat, rat \in 0 .. MaxTime, lw \in WindowSeqs("l"),
          rw \in WindowSeqs("r"), extra \in BOOLEAN :
          LET tabs == <<TabEntry(1, 1, "r"), TabEntry(2, 0, "r")>>
              other == [name |-> "other", uuid |-> 9, at |-> 0, tabs |-> tabs]
              r     == Document("right", 2, rat, tabs, rw)
          IN  /\ local  = Document("left", 1, lat, <<TabEntry(1, 0, "l")>>, lw)
              /\ remote = IF extra
                          THEN [r EXCEPT !.workspaces = [n \in {"main", "x"} |->
                                            IF n = "x" THEN other ELSE @[n]]]
                          ELSE r

MergeInit ==
    /\ InitTabs \/ InitWorkspaces
    /\ merged = {}
    /\ mirrored = {}
    /\ retried = {}

\* The device finds a foreign version and writes the merge.
MergeHere ==
    /\ merged = {}
    /\ merged' = {MergeSharedStates(local, remote, alive)}
    /\ UNCHANGED <<local, remote, alive, mirrored, retried>>

\* The other device, whose document is the remote one, does the same.
MergeThere ==
    /\ mirrored = {}
    /\ mirrored' = {MergeSharedStates(remote, local, alive)}
    /\ UNCHANGED <<local, remote, alive, merged, retried>>

\* A second flush of unchanged windows meets the first one's result.
MergeAgain ==
    /\ merged # {}
    /\ retried = {}
    /\ retried' = {MergeSharedStates(local, m, alive) : m \in merged}
    /\ UNCHANGED <<local, remote, alive, merged, mirrored>>

MergeNext == MergeHere \/ MergeThere \/ MergeAgain

MergeSpec == MergeInit /\ [][MergeNext]_mergeVars

-----------------------------------------------------------------------------
TabsOf(doc, n) ==
    IF n \in DOMAIN doc.workspaces THEN doc.workspaces[n].tabs ELSE <<>>

EntriesOf(doc, n, u) == {t \in ToSet(TabsOf(doc, n)) : t.uuid = u}

\* An entry without its place in the order.
Content(t) == [uuid |-> t.uuid, title |-> t.title, win |-> t.win, at |-> t.at]

Contents(doc, n) == {Content(t) : t \in ToSet(TabsOf(doc, n))}

(***************************************************************************)
(* No live tab of either device is lost by a merge, no dead one survives,  *)
(* and no uuid comes out twice: StateSync may take its merge of sets of    *)
(* tabs for this one.                                                      *)
(***************************************************************************)
Key(t) == [uuid |-> t.uuid, tmux |-> t.tmux]

TabKeys(doc, n) == {Key(t) : t \in ToSet(TabsOf(doc, n))}

LiveTabsSurviveOnce ==
    \A m \in merged : \A n \in DOMAIN m.workspaces :
        LET before == TabKeys(local, n) \union TabKeys(remote, n)
            after  == TabsOf(m, n)
        IN  /\ UuidsOf(after) = {t.uuid : t \in {b \in before : b.tmux \in alive}}
            /\ Cardinality(UuidsOf(after)) = Len(after)
            /\ TabKeys(m, n) = MergeTabSets(TabKeys(local, n), TabKeys(remote, n), alive)

(***************************************************************************)
(* Last writer wins: no entry the merge writes is older than either of the *)
(* entries it came from, and its title and window are those of the entry   *)
(* its timestamp came from.                                                *)
(***************************************************************************)
NewestEditWins ==
    \A m \in merged : \A n \in DOMAIN m.workspaces :
        \A t \in ToSet(TabsOf(m, n)) :
            LET from == EntriesOf(local, n, t.uuid) \union EntriesOf(remote, n, t.uuid)
            IN  /\ \A f \in from : f.at <= t.at
                /\ Content(t) \in {Content(f) : f \in from}

(***************************************************************************)
(* The tab bar of the flushing device keeps its order: positions count up  *)
(* from 0, its own tabs stay in their order and come before adopted ones.  *)
(***************************************************************************)
LocalOrderKept ==
    \A m \in merged : \A n \in DOMAIN m.workspaces :
        LET after == TabsOf(m, n)
            own   == UuidsOf(TabsOf(local, n))
            Uuid(t) == t.uuid
            Seq1(s) == [i \in DOMAIN s |-> Uuid(s[i])]
            aliveOwn == Seq1(AliveTabs(TabsOf(local, n), alive))
        IN  /\ \A i \in DOMAIN after : after[i].pos = i - 1
            /\ IsPrefix(aliveOwn, Seq1(after))

(***************************************************************************)
(* The two devices agree: whichever of them merges, the same entries with  *)
(* the same metadata come out, unless both edited a tab in the same second *)
(* (a tie each resolves for itself).                                       *)
(***************************************************************************)
Tied(n) ==
    \E l \in ToSet(TabsOf(local, n)), r \in ToSet(TabsOf(remote, n)) :
        /\ l.uuid = r.uuid
        /\ l.at = r.at
        /\ l.title # r.title \/ l.win # r.win

DevicesAgree ==
    \A m \in merged, o \in mirrored :
        /\ DOMAIN m.workspaces = DOMAIN o.workspaces
        /\ \A n \in DOMAIN m.workspaces :
              /\ ~Tied(n) => Contents(m, n) = Contents(o, n)
              /\ m.workspaces[n].at = o.workspaces[n].at

(***************************************************************************)
(* A flush that meets its own merge (its cached version is older, because  *)
(* the watcher has not reported the write yet) writes the same document.   *)
(***************************************************************************)
MergingAgainChangesNothing == retried # {} => retried = merged

(***************************************************************************)
(* Hidden windows of both devices survive, each id once, and the local     *)
(* snapshot of a window both hid is the one kept.                          *)
(***************************************************************************)
HiddenWindowsUnited ==
    \A m \in merged :
        LET ids(s) == {w.id : w \in ToSet(s)}
            out    == m.hiddenWindows
        IN  /\ ids(out) = ids(local.hiddenWindows) \union ids(remote.hiddenWindows)
            /\ Cardinality(ids(out)) = Len(out)
            /\ ToSet(local.hiddenWindows) \subseteq ToSet(out)
=============================================================================
