--------------------------- MODULE StateSync_proofs ---------------------------
(***************************************************************************)
(* Theorems of StateSync, for any devices, bounds, user operations and     *)
(* failing calls: numbering and types first, then what tabs and sessions   *)
(* have to do with each other and what a file that is overwritten without  *)
(* a merge held.  Last the merge itself: what MCTabMerge checks for two    *)
(* documents of a few tabs holds for documents of any length.              *)
(***************************************************************************)
EXTENDS StateSync, MCTabMerge, FiniteSetTheorems, TLAPS

(***************************************************************************)
(* Numbering: the tabs opened together get consecutive uuids.              *)
(***************************************************************************)
\* Sessions and tabs are finite sets, so any of them can be counted.
LEMMA FinitePools ==
    /\ \A ss \in SUBSET Session : IsFiniteSet(ss)
    /\ \A ts \in SUBSET Tab : IsFiniteSet(ts)
<1>1. IsFiniteSet(Session) /\ IsFiniteSet(Uuid)
  BY BoundsAssumption, FS_Interval DEF Session, Uuid
<1>2. IsFiniteSet(Uuid \X Session)
  BY <1>1, FS_Product
<1>3. IsFiniteSet(Tab)
  <2> DEFINE f == [p \in Uuid \X Session |-> [uuid |-> p[1], tmux |-> p[2]]]
  <2>1. ASSUME NEW t \in Tab PROVE \E p \in Uuid \X Session : f[p] = t
    <3>1. <<t.uuid, t.tmux>> \in Uuid \X Session
      BY DEF Tab
    <3>2. f[<<t.uuid, t.tmux>>] = t
      BY <3>1 DEF Tab
    <3> QED
      BY <3>1, <3>2
  <2>2. f \in [Uuid \X Session -> Tab]
    BY DEF Tab
  <2>3. f \in Surjection(Uuid \X Session, Tab)
    BY <2>1, <2>2 DEF Surjection
  <2> QED
    BY <1>2, <2>3, FS_Surjection
<1> QED
  BY <1>1, <1>3, FS_Subset

\* What comes before an element of a finite set is fewer than the set, and
\* more than what comes before an earlier element.
LEMMA Ranks ==
    ASSUME NEW S, IsFiniteSet(S), NEW Before,
           \A x \in S : Before[x] \subseteq S \ {x}
    PROVE  /\ Cardinality(S) \in Nat
           /\ \A x \in S : Cardinality(Before[x]) \in 0 .. Cardinality(S) - 1
           /\ \A x, y \in S : Before[x] \union {x} \subseteq Before[y] =>
                    Cardinality(Before[x]) < Cardinality(Before[y])
<1>1. Cardinality(S) \in Nat
  BY FS_CardinalityType
<1>2. ASSUME NEW x \in S
      PROVE  /\ IsFiniteSet(Before[x])
             /\ Cardinality(Before[x]) \in 0 .. Cardinality(S) - 1
  <2>1. /\ IsFiniteSet(S \ {x})
        /\ Cardinality(S \ {x}) = Cardinality(S) - 1
    BY FS_RemoveElement
  <2>2. /\ IsFiniteSet(Before[x])
        /\ Cardinality(Before[x]) <= Cardinality(S \ {x})
    BY <2>1, FS_Subset
  <2>3. Cardinality(Before[x]) \in Nat
    BY <2>2, FS_CardinalityType
  <2> QED
    BY <1>1, <2>1, <2>2, <2>3
<1>3. ASSUME NEW x \in S, NEW y \in S, Before[x] \union {x} \subseteq Before[y]
      PROVE  Cardinality(Before[x]) < Cardinality(Before[y])
  <2>1. /\ IsFiniteSet(Before[x] \union {x})
        /\ Cardinality(Before[x] \union {x}) = Cardinality(Before[x]) + 1
    BY <1>2, FS_AddElement
  <2>2. Cardinality(Before[x] \union {x}) <= Cardinality(Before[y])
    BY <1>2, <1>3, FS_Subset
  <2>3. Cardinality(Before[x]) \in Int /\ Cardinality(Before[y]) \in Int
    BY <1>2
  <2> QED
    BY <2>1, <2>2, <2>3
<1> QED
  BY <1>1, <1>2, <1>3

\* Fresh tabs are on the given sessions, one each, with uuids of their own.
LEMMA FreshTabsNumbered ==
    ASSUME NEW first \in Nat, NEW ss \in SUBSET Session
    PROVE  LET new == FreshTabs(first, ss)
           IN  /\ Cardinality(ss) \in Nat
               /\ SessionsIn(new) = ss
               /\ \A t \in new : /\ t = [uuid |-> t.uuid, tmux |-> t.tmux]
                                 /\ t.uuid \in first .. first + Cardinality(ss) - 1
                                 /\ t.tmux \in ss
               /\ \A t, u \in new : t.uuid = u.uuid => t = u
<1> DEFINE Before == [s \in ss |-> {r \in ss : r < s}]
           Rank(s) == Cardinality(Before[s])
<1>1. IsFiniteSet(ss) /\ \A s \in ss : s \in Int
  BY FinitePools DEF Session
<1>2. \A s \in ss : Before[s] \subseteq ss \ {s}
  BY <1>1
<1>3. \A s, u \in ss : s < u => Before[s] \union {s} \subseteq Before[u]
  BY <1>1
<1>4. FreshTabs(first, ss) = {[uuid |-> first + Rank(s), tmux |-> s] : s \in ss}
  BY Zenon DEF FreshTabs
<1> HIDE DEF Before
<1>5. /\ Cardinality(ss) \in Nat
      /\ \A s \in ss : Rank(s) \in 0 .. Cardinality(ss) - 1
      /\ \A s, u \in ss : Before[s] \union {s} \subseteq Before[u] =>
                Rank(s) < Rank(u)
  BY <1>1, <1>2, Ranks
<1> HIDE DEF Rank
<1>6. \A s, u \in ss : first + Rank(s) = first + Rank(u) => s = u
  BY <1>1, <1>3, <1>5
<1>7. SessionsIn(FreshTabs(first, ss)) = ss
  <2>1. ASSUME NEW s \in ss PROVE \E t \in FreshTabs(first, ss) : t.tmux = s
    <3> DEFINE new == [uuid |-> first + Rank(s), tmux |-> s]
    <3>1. new \in FreshTabs(first, ss)
      BY <1>4
    <3> QED
      BY <3>1
  <2>2. \A t \in FreshTabs(first, ss) : t.tmux \in ss
    BY <1>4
  <2> QED
    BY <2>1, <2>2 DEF SessionsIn
<1> QED
  BY <1>4, <1>5, <1>6, <1>7

\* So are adopted tabs, as long as no two of the entries share a uuid.
LEMMA AdoptedTabsNumbered ==
    ASSUME NEW first \in Nat, NEW news \in SUBSET Tab
    PROVE  LET new == AdoptedTabs(first, news)
           IN  /\ Cardinality(news) \in Nat
               /\ SessionsIn(new) = SessionsIn(news)
               /\ \A t \in new : /\ t = [uuid |-> t.uuid, tmux |-> t.tmux]
                                 /\ t.uuid \in first .. first + Cardinality(news) - 1
                                 /\ t.tmux \in SessionsIn(news)
               /\ (\A t, u \in news : t.uuid = u.uuid => t = u) =>
                        \A t, u \in new : t.uuid = u.uuid => t = u
<1> DEFINE Before == [t \in news |-> {r \in news : r.uuid < t.uuid}]
           Rank(t) == Cardinality(Before[t])
<1>1. IsFiniteSet(news) /\ \A t \in news : t.uuid \in Int
  BY FinitePools DEF Tab, Uuid
<1>2. \A t \in news : Before[t] \subseteq news \ {t}
  BY <1>1
<1>3. \A t, u \in news : t.uuid < u.uuid => Before[t] \union {t} \subseteq Before[u]
  BY <1>1
<1>4. AdoptedTabs(first, news)
        = {[uuid |-> first + Rank(t), tmux |-> t.tmux] : t \in news}
  BY Zenon DEF AdoptedTabs
<1> HIDE DEF Before
<1>5. /\ Cardinality(news) \in Nat
      /\ \A t \in news : Rank(t) \in 0 .. Cardinality(news) - 1
      /\ \A t, u \in news : Before[t] \union {t} \subseteq Before[u] =>
                Rank(t) < Rank(u)
  BY <1>1, <1>2, Ranks
<1> HIDE DEF Rank
<1>6. \A t, u \in news : first + Rank(t) = first + Rank(u) => t.uuid = u.uuid
  BY <1>1, <1>3, <1>5
<1>7. SessionsIn(AdoptedTabs(first, news)) = SessionsIn(news)
  <2>1. ASSUME NEW n \in news
        PROVE  \E t \in AdoptedTabs(first, news) : t.tmux = n.tmux
    <3> DEFINE new == [uuid |-> first + Rank(n), tmux |-> n.tmux]
    <3>1. new \in AdoptedTabs(first, news)
      BY <1>4
    <3> QED
      BY <3>1
  <2>2. \A t \in AdoptedTabs(first, news) : \E n \in news : t.tmux = n.tmux
    BY <1>4
  <2> QED
    BY <2>1, <2>2 DEF SessionsIn
<1> QED
  BY <1>4, <1>5, <1>6, <1>7 DEF SessionsIn

(***************************************************************************)
(* Type correctness.  First the parts of actions that several share.       *)
(***************************************************************************)
Counters == [uuid : 1 .. MaxUuid + 1, session : 1 .. MaxSession + 1,
             ver : 1 .. MaxVersion + 1, ops : 0 .. MaxOps]

\* Numbers are handed out only while there are some, so they are in range.
LEMMA TakeType ==
    ASSUME TypeOK, NEW u \in Nat, NEW s \in Nat, NEW v \in Nat, NEW o \in Nat,
           Take(u, s, v, o)
    PROVE  /\ next' \in Counters
           /\ u > 0 => next.uuid .. next.uuid + u - 1 \subseteq Uuid
           /\ s > 0 => next.session \in Session
           /\ v > 0 => next.ver \in Version
           /\ v > 1 => next.ver + 1 \in Version
<1>1. /\ next.uuid \in 1 .. MaxUuid + 1 /\ next.session \in 1 .. MaxSession + 1
      /\ next.ver \in 1 .. MaxVersion + 1 /\ next.ops \in 0 .. MaxOps
  BY DEF TypeOK
<1>2. next' \in Counters
  BY <1>1, BoundsAssumption DEF Take, Counters
<1> QED
  BY <1>1, <1>2, BoundsAssumption DEF Take, Uuid, Session, Version

LEMMA SpawnedType ==
    ASSUME NEW d \in Device
    PROVE  Spawned(d) \in Nat /\ SaveSpawned(d) \in Nat
  BY DEF Spawned, SaveSpawned

LEMMA FlushType ==
    ASSUME TypeOK, NEW d \in Device, NEW ts \in SUBSET Tab,
           NEW hid \in SUBSET Uuid, FlushState(d, ts, hid),
           conn[d] = "on" => next.ver \in Version
    PROVE  /\ dirty' \in [Device -> BOOLEAN] /\ recent' \in [Device -> BOOLEAN]
           /\ cache' \in [Device -> Doc]
           /\ tasks' \subseteq Task
<1>1. SpawnedTasks(d, ts, hid) \subseteq Task
  BY DEF TypeOK, SpawnedTasks, FlushTask, Task, Doc
<1>2. cache' \in [Device -> Doc]
  BY DEF TypeOK, FlushState, Doc
<1> QED
  BY <1>1, <1>2 DEF TypeOK, FlushState

LEMMA SaveType ==
    ASSUME TypeOK, NEW d \in Device, NEW ts \in SUBSET Tab,
           NEW hid \in SUBSET Uuid, SaveState(d, ts, hid),
           ~recent[d] /\ conn[d] = "on" => next.ver \in Version
    PROVE  /\ dirty' \in [Device -> BOOLEAN] /\ recent' \in [Device -> BOOLEAN]
           /\ cache' \in [Device -> Doc]
           /\ tasks' \subseteq Task
<1>1. CASE recent[d] /\ UNCHANGED <<recent, cache, tasks>>
  BY <1>1 DEF TypeOK, SaveState, FlushState
<1>2. CASE ~recent[d] /\ FlushState(d, ts, hid)
  BY <1>2, FlushType
<1> QED
  BY <1>1, <1>2 DEF SaveState

LEMMA OpeningType ==
    ASSUME NEW d \in Device, NEW t \in Tab
    PROVE  Opening(d, t) \in Channel
  BY DEF Opening, Tab, Channel

\* A merge makes up no tab.
LEMMA MergeKeeps ==
    ASSUME NEW here, NEW there, NEW running
    PROVE  MergeTabSets(here, there, running) \subseteq here \union there
  BY DEF MergeTabSets

LEMMA TypeInit == Init => TypeOK
<1> SUFFICES ASSUME Init PROVE TypeOK
  OBVIOUS
<1>1. NoDoc \in Doc /\ NoFile \in DeviceFile /\ NoAttempt \in Attempt
  BY BoundsAssumption DEF NoDoc, NoFile, NoAttempt, Doc, DeviceFile, Attempt, Version
<1>2. next \in Counters
  BY BoundsAssumption DEF Init, Counters
<1>3. named \in [Session -> Version] /\ emitted \in [Device -> Version]
  BY BoundsAssumption DEF Init, Version
<1> QED
  BY <1>1, <1>2, <1>3 DEF Init, TypeOK, Counters

\* The steps of flush tasks.
LEMMA TypeFlush ==
    ASSUME TypeOK, NEW k \in tasks, FlushStep(k)
    PROVE  TypeOK'
<1>1. k \in Task
  BY DEF TypeOK
<1>2. CASE FlushRead(k) \/ FlushReadFails(k)
  <2>1. /\ [k EXCEPT !.phase = "list", !.seen = shared.tabs] \in Task
        /\ [k EXCEPT !.phase = "write"] \in Task
    BY <1>1 DEF TypeOK, Task, Doc
  <2>2. tasks' \subseteq Task
    BY <1>2, <2>1 DEF TypeOK, FlushRead, FlushReadFails, Advance
  <2> QED
    BY <1>2, <2>2 DEF FlushRead, FlushReadFails, TypeOK, fileVars, deviceVars,
                      watchVars, remoteVars, history
<1>3. CASE FlushMerge(k) \/ FlushMergeSkipped(k) \/ FlushListFails(k)
  <2> DEFINE Merged(running) == [k EXCEPT !.phase = "write", !.seen = {},
                                  !.tabs = MergeTabSets(k.tabs, k.seen, running)]
  <2>1. ASSUME NEW running PROVE Merged(running) \in Task
    <3>1. MergeTabSets(k.tabs, k.seen, running) \in SUBSET Tab
      BY <1>1, MergeKeeps DEF Task
    <3> QED
      BY <1>1, <3>1 DEF Task
  <2>2. [k EXCEPT !.phase = "write", !.seen = {}] \in Task
    BY <1>1 DEF Task
  <2>3. \/ tasks' = (tasks \ {k}) \union {Merged(live)}
        \/ tasks' = (tasks \ {k}) \union {Merged({})}
        \/ tasks' = (tasks \ {k}) \union {[k EXCEPT !.phase = "write", !.seen = {}]}
    BY <1>3, Zenon DEF FlushMerge, FlushMergeSkipped, FlushListFails, Advance
  <2> HIDE DEF Merged
  <2>4. tasks' \subseteq Task
    BY <2>1, <2>2, <2>3 DEF TypeOK
  <2> QED
    BY <1>3, <2>4 DEF FlushMerge, FlushMergeSkipped, FlushListFails, TypeOK,
                      fileVars, deviceVars, watchVars, remoteVars, history
<1>4. CASE FlushWrite(k) \/ FlushWriteFails(k)
  <2>1. [k EXCEPT !.phase = "device"] \in Task
    BY <1>1 DEF Task
  <2>2. tasks' \subseteq Task
    BY <1>4, <2>1 DEF TypeOK, FlushWrite, FlushWriteFails, Advance
  <2>3. shared' \in Doc /\ devfile' = devfile
    BY <1>1, <1>4 DEF TypeOK, FlushWrite, FlushWriteFails, fileVars, Task, Doc
  <2> QED
    BY <1>4, <2>2, <2>3 DEF FlushWrite, FlushWriteFails, TypeOK, deviceVars,
                            watchVars, remoteVars, history
<1>5. CASE FlushDevice(k) \/ FlushDeviceFails(k)
  <2>1. [there |-> TRUE, hidden |-> k.hid] \in DeviceFile
    BY <1>1 DEF Task, DeviceFile
  <2>2. devfile' \in [Device -> DeviceFile] /\ shared' = shared
    BY <1>5, <2>1 DEF TypeOK, FlushDevice, FlushDeviceFails, fileVars
  <2> QED
    BY <1>5, <2>2 DEF FlushDevice, FlushDeviceFails, TypeOK, deviceVars,
                      watchVars, remoteVars, history
<1> QED
  BY <1>2, <1>3, <1>4, <1>5 DEF FlushStep

LEMMA CloseType ==
    ASSUME TypeOK, NEW d \in Device, NEW t, NEW o \in Nat, CloseTab(d, t),
           Take(0, 0, Spawned(d), o), exits' \subseteq exits,
           ended' \subseteq Session
    PROVE  TypeOK'
<1>0. waiting' \subseteq Channel /\ dead' \subseteq Channel
  BY DEF TypeOK, CloseTab, Forget
<1>1. t \in Tab /\ t.tmux \in Session /\ tabs' \in [Device -> SUBSET Tab]
  BY DEF TypeOK, CloseTab, Tab
<1>2. next' \in Counters /\ (conn[d] = "on" => next.ver \in Version)
  <2>1. Spawned(d) \in Nat
    BY SpawnedType
  <2>2. next' \in Counters /\ (Spawned(d) > 0 => next.ver \in Version)
    BY <2>1, TakeType
  <2> QED
    BY <2>2 DEF Spawned
<1>3. /\ dirty' \in [Device -> BOOLEAN] /\ recent' \in [Device -> BOOLEAN]
      /\ cache' \in [Device -> Doc]
      /\ tasks' \subseteq Task
  <2>1. tabs'[d] \in SUBSET Tab /\ hidden[d] \in SUBSET Uuid
    BY <1>1 DEF TypeOK
  <2> QED
    BY <1>2, <2>1, FlushType DEF CloseTab
<1>4. /\ kills' \subseteq [dev : Device, tmux : Session]
      /\ putaway' \in [Device -> SUBSET Tab]
  BY <1>1 DEF TypeOK, CloseTab
<1> QED
  BY <1>0, <1>1, <1>2, <1>3, <1>4 DEF TypeOK, Counters, CloseTab, fileVars, watchVars

\* Attaching, closing and ending tabs.
LEMMA TypeTabs ==
    ASSUME TypeOK
    PROVE  /\ \A o \in opening : AttachTab(o) \/ AttachFails(o) => TypeOK'
           /\ \A o \in waiting : RetryAttach(o) => TypeOK'
           /\ \A k \in kills : ExecuteKill(k) \/ KillFails(k) => TypeOK'
           /\ \A s \in live : ShellExit(s) => TypeOK'
           /\ \A e \in exits : SessionExited(e) => TypeOK'
<1>1. \A s : AttachedTo(s) \subseteq [dev : Device, uuid : Uuid]
  BY DEF AttachedTo
<1>2. ASSUME NEW o \in opening, AttachTab(o) PROVE TypeOK'
  <2>1. o.tmux \in Session
    BY DEF TypeOK, Channel
  <2> QED
    BY <1>2, <2>1 DEF TypeOK, AttachTab, fileVars, deviceVars, watchVars, history
<1>3. ASSUME NEW k \in kills, ExecuteKill(k) \/ KillFails(k) PROVE TypeOK'
  <2>1. live' \subseteq Session /\ exits' \subseteq [dev : Device, uuid : Uuid]
    BY <1>1, <1>3 DEF TypeOK, ExecuteKill, KillFails, EndSession
  <2> QED
    BY <1>3, <2>1 DEF TypeOK, ExecuteKill, KillFails, fileVars, deviceVars,
                      watchVars, history
<1>4. ASSUME NEW s \in live, ShellExit(s) PROVE TypeOK'
  <2>1. next' \in Counters
    BY <1>4, TakeType DEF ShellExit
  <2>2. live' \subseteq Session /\ exits' \subseteq [dev : Device, uuid : Uuid]
    BY <1>1, <1>4 DEF TypeOK, ShellExit, EndSession
  <2> QED
    BY <1>4, <2>1, <2>2 DEF TypeOK, Counters, ShellExit, fileVars, deviceVars,
                            watchVars
<1>5. ASSUME NEW e \in exits, SessionExited(e) PROVE TypeOK'
  <2>1. e.dev \in Device
    BY DEF TypeOK
  <2>2. ASSUME NEW t \in tabs[e.dev], CloseTab(e.dev, t),
               Take(0, 0, Spawned(e.dev), 0), UNCHANGED ended
        PROVE  TypeOK'
    <3>1. exits' \subseteq exits /\ ended' \subseteq Session
      BY <1>5, <2>2 DEF SessionExited, TypeOK
    <3> QED
      BY <2>1, <2>2, <3>1, CloseType
  <2> QED
    BY <1>5, <2>2 DEF SessionExited, TypeOK, fileVars, deviceVars, watchVars, history
<1>6. ASSUME NEW o \in opening, AttachFails(o) PROVE TypeOK'
  <2>1. next' \in Counters
    BY <1>6, TakeType DEF AttachFails
  <2>2. o \in Channel /\ o.tmux \in Session
    BY DEF TypeOK, Channel
  <2>3. /\ live' \subseteq Session /\ opening' \subseteq Channel
        /\ waiting' \subseteq Channel /\ dead' \subseteq Channel
    BY <1>6, <2>2 DEF TypeOK, AttachFails
  <2> QED
    BY <1>6, <2>1, <2>3
    DEF TypeOK, Counters, AttachFails, fileVars, deviceVars, watchVars, history
<1>7. ASSUME NEW o \in waiting, RetryAttach(o) PROVE TypeOK'
  BY <1>7 DEF TypeOK, RetryAttach, fileVars, deviceVars, watchVars, history
<1> QED
  BY <1>2, <1>3, <1>4, <1>5, <1>6, <1>7

\* What a save spawns gets a version while there is one.
LEMMA SaveCounts ==
    ASSUME TypeOK, NEW d \in Device, NEW u \in Nat, NEW s \in Nat,
           NEW o \in Nat, Take(u, s, SaveSpawned(d), o)
    PROVE  /\ next' \in Counters
           /\ u > 0 => next.uuid \in Uuid
           /\ s > 0 => next.session \in Session
           /\ ~recent[d] /\ conn[d] = "on" => next.ver \in Version
<1>1. SaveSpawned(d) \in Nat
  BY SpawnedType
<1>2. /\ next' \in Counters
      /\ u > 0 => next.uuid .. next.uuid + u - 1 \subseteq Uuid
      /\ s > 0 => next.session \in Session
      /\ SaveSpawned(d) > 0 => next.ver \in Version
  BY <1>1, TakeType
<1>3. u > 0 => next.uuid \in next.uuid .. next.uuid + u - 1
  BY DEF TypeOK
<1> QED
  BY <1>2, <1>3 DEF SaveSpawned, Spawned

\* User operations on tabs, and the timers.
LEMMA TypeUser ==
    ASSUME TypeOK, NEW d \in Device
    PROVE  /\ NewTab(d) => TypeOK'
           /\ TouchTabs(d) => TypeOK'
           /\ FlushTimer(d) => TypeOK'
           /\ DebounceOver(d) => TypeOK'
           /\ \A t \in tabs[d] : UserCloses(d, t) \/ HideTab(d, t) => TypeOK'
           /\ \A u \in hidden[d] : RestoreHidden(d, u) => TypeOK'
           /\ \A t \in tabs[d] : LoseChannel(d, t) \/ ReconnectDead(d, t) => TypeOK'
<1>0. tabs[d] \in SUBSET Tab /\ hidden[d] \in SUBSET Uuid
  BY DEF TypeOK
<1>1. ASSUME NewTab(d) PROVE TypeOK'
  <2> DEFINE t == [uuid |-> next.uuid, tmux |-> next.session]
  <2>1. /\ next' \in Counters /\ next.uuid \in Uuid /\ next.session \in Session
        /\ ~recent[d] /\ conn[d] = "on" => next.ver \in Version
    BY <1>1, SaveCounts DEF NewTab
  <2>2. t \in Tab
    BY <2>1 DEF Tab
  <2>3. tabs' = [tabs EXCEPT ![d] = @ \union {t}]
    BY <1>1 DEF NewTab
  <2>4. opening' = opening \union {Opening(d, t)}
    BY <1>1 DEF NewTab
  <2> HIDE DEF t
  <2>5. tabs' \in [Device -> SUBSET Tab] /\ tabs'[d] \in SUBSET Tab
    BY <2>2, <2>3 DEF TypeOK
  <2>6. opening' \subseteq Channel
    BY <2>2, <2>4, OpeningType DEF TypeOK
  <2>7. /\ dirty' \in [Device -> BOOLEAN] /\ recent' \in [Device -> BOOLEAN]
        /\ cache' \in [Device -> Doc]
        /\ tasks' \subseteq Task
    BY <1>0, <1>1, <2>1, <2>5, SaveType DEF NewTab
  <2>8. named' \in [Session -> Version]
    BY <1>1 DEF NewTab, TypeOK, Doc
  <2> QED
    BY <1>1, <2>1, <2>5, <2>6, <2>7, <2>8
    DEF TypeOK, Counters, NewTab, fileVars, watchVars, history
<1>2. ASSUME TouchTabs(d) PROVE TypeOK'
  <2>1. /\ next' \in Counters
        /\ ~recent[d] /\ conn[d] = "on" => next.ver \in Version
    BY <1>2, SaveCounts DEF TouchTabs
  <2>2. /\ dirty' \in [Device -> BOOLEAN] /\ recent' \in [Device -> BOOLEAN]
        /\ cache' \in [Device -> Doc]
        /\ tasks' \subseteq Task
    BY <1>0, <1>2, <2>1, SaveType DEF TouchTabs
  <2> QED
    BY <1>2, <2>1, <2>2
    DEF TypeOK, Counters, TouchTabs, fileVars, watchVars, remoteVars, history
<1>3. ASSUME FlushTimer(d) PROVE TypeOK'
  <2>1. Spawned(d) \in Nat
    BY SpawnedType
  <2>2. next' \in Counters /\ (Spawned(d) > 0 => next.ver \in Version)
    BY <1>3, <2>1, TakeType DEF FlushTimer
  <2>3. conn[d] = "on" => next.ver \in Version
    BY <2>2 DEF Spawned
  <2>4. /\ dirty' \in [Device -> BOOLEAN] /\ recent' \in [Device -> BOOLEAN]
        /\ cache' \in [Device -> Doc]
        /\ tasks' \subseteq Task
    BY <1>0, <1>3, <2>3, FlushType DEF FlushTimer
  <2> QED
    BY <1>3, <2>2, <2>4
    DEF TypeOK, Counters, FlushTimer, fileVars, watchVars, remoteVars, history
<1>4. ASSUME DebounceOver(d) PROVE TypeOK'
  <2>1. next' \in Counters
    BY <1>4, TakeType DEF DebounceOver
  <2> QED
    BY <1>4, <2>1
    DEF TypeOK, Counters, DebounceOver, fileVars, watchVars, remoteVars, history
<1>5. ASSUME NEW t \in tabs[d], UserCloses(d, t) PROVE TypeOK'
  <2>1. ended' \subseteq Session /\ exits' \subseteq exits
    BY <1>0, <1>5 DEF UserCloses, TypeOK, Tab
  <2> QED
    BY <1>5, <2>1, CloseType DEF UserCloses
<1>6. ASSUME NEW t \in tabs[d], HideTab(d, t) PROVE TypeOK'
  <2>1. t.uuid \in Uuid /\ t.tmux \in Session
    BY <1>0 DEF Tab
  <2>2. /\ next' \in Counters
        /\ ~recent[d] /\ conn[d] = "on" => next.ver \in Version
    BY <1>6, SaveCounts DEF HideTab
  <2>3. /\ tabs' \in [Device -> SUBSET Tab] /\ tabs'[d] \in SUBSET Tab
        /\ hidden' \in [Device -> SUBSET Uuid] /\ hidden'[d] \in SUBSET Uuid
        /\ putaway' \in [Device -> SUBSET Tab]
    BY <1>6, <2>1 DEF HideTab, TypeOK
  <2>4. /\ dirty' \in [Device -> BOOLEAN] /\ recent' \in [Device -> BOOLEAN]
        /\ cache' \in [Device -> Doc]
        /\ tasks' \subseteq Task
    BY <1>6, <2>2, <2>3, SaveType DEF HideTab
  <2>5. waiting' \subseteq Channel /\ dead' \subseteq Channel
    BY <1>6 DEF TypeOK, HideTab, Forget
  <2> QED
    BY <1>6, <2>2, <2>3, <2>4, <2>5
    DEF TypeOK, Counters, HideTab, fileVars, watchVars
<1>7. ASSUME NEW u \in hidden[d], RestoreHidden(d, u) PROVE TypeOK'
  <2>1. hidden' \in [Device -> SUBSET Uuid] /\ hidden'[d] \in SUBSET Uuid
    BY <1>7 DEF RestoreHidden, TypeOK
  <2>2. CASE u \notin UuidsIn(cache[d].tabs) /\ SaveState(d, tabs[d], hidden'[d])
             /\ Take(0, 0, SaveSpawned(d), 1) /\ UNCHANGED <<tabs, opening>>
    <3>1. /\ next' \in Counters
          /\ ~recent[d] /\ conn[d] = "on" => next.ver \in Version
      BY <2>2, SaveCounts
    <3>2. /\ dirty' \in [Device -> BOOLEAN] /\ recent' \in [Device -> BOOLEAN]
          /\ cache' \in [Device -> Doc]
          /\ tasks' \subseteq Task
      BY <1>0, <2>1, <2>2, <3>1, SaveType
    <3> QED
      BY <1>7, <2>1, <2>2, <3>1, <3>2
      DEF TypeOK, Counters, RestoreHidden, fileVars, watchVars, history
  <2>3. ASSUME NEW saved \in cache[d].tabs, NEW t,
               t = [uuid |-> next.uuid, tmux |-> saved.tmux],
               tabs' = [tabs EXCEPT ![d] = @ \union {t}],
               opening' = opening \union {Opening(d, t)},
               IF recent[d] THEN UNCHANGED <<recent, cache, tasks>>
               ELSE /\ recent' = [recent EXCEPT ![d] = TRUE]
                    /\ cache' = [cache EXCEPT ![d].tabs = tabs[d]]
                    /\ tasks' = tasks \union SpawnedTasks(d, tabs[d], hidden'[d]),
               dirty' = [dirty EXCEPT ![d] = TRUE],
               Take(1, 0, SaveSpawned(d), 1)
        PROVE  TypeOK'
    <3>1. /\ next' \in Counters /\ next.uuid \in Uuid
          /\ ~recent[d] /\ conn[d] = "on" => next.ver \in Version
      BY <2>3, SaveCounts
    <3>2. t \in Tab
      BY <2>3, <3>1 DEF TypeOK, Doc, Tab
    <3>3. /\ tabs' \in [Device -> SUBSET Tab]
          /\ opening' \subseteq Channel
      BY <2>3, <3>2, OpeningType DEF TypeOK
    <3>4. /\ recent' \in [Device -> BOOLEAN] /\ dirty' \in [Device -> BOOLEAN]
          /\ cache' \in [Device -> Doc]
      <4>1. [cache EXCEPT ![d].tabs = tabs[d]] \in [Device -> Doc]
        BY <1>0 DEF TypeOK, Doc
      <4> QED
        BY <2>3, <4>1 DEF TypeOK
    <3>5. tasks' \subseteq Task
      BY <1>0, <2>1, <2>3, <3>1 DEF TypeOK, SpawnedTasks, FlushTask, Task, Doc
    <3> QED
      BY <1>7, <2>1, <3>1, <3>3, <3>4, <3>5
      DEF TypeOK, Counters, RestoreHidden, fileVars, watchVars, history
  <2> QED
    BY <1>7, <2>2, <2>3 DEF RestoreHidden
<1>8. ASSUME NEW t \in tabs[d], LoseChannel(d, t) \/ ReconnectDead(d, t) PROVE TypeOK'
  <2>1. Opening(d, t) \in Channel
    BY <1>0, OpeningType
  <2>2. next' \in Counters
    BY <1>8, TakeType DEF LoseChannel, ReconnectDead
  <2>3. opening' \subseteq Channel /\ dead' \subseteq Channel
    BY <1>8, <2>1 DEF TypeOK, LoseChannel, ReconnectDead
  <2> QED
    BY <1>8, <2>2, <2>3
    DEF TypeOK, Counters, LoseChannel, ReconnectDead, fileVars, deviceVars, watchVars,
        history
<1> QED
  BY <1>1, <1>2, <1>3, <1>4, <1>5, <1>6, <1>7, <1>8

\* The steps of a connection attempt before its result is handled, and the end
\* of a connection.
LEMMA TypeAttempt ==
    ASSUME TypeOK, NEW d \in Device
    PROVE  /\ Connect(d) => TypeOK'
           /\ ConnectList(d) => TypeOK'
           /\ ConnectRead(d) => TypeOK'
           /\ ConnectFails(d) \/ ConnectDiscarded(d) => TypeOK'
           /\ Disconnect(d) => TypeOK'
           /\ Crash(d) => TypeOK'
<1>0. NoDoc \in Doc /\ NoAttempt \in Attempt /\ pending[d] \in Attempt
  BY BoundsAssumption DEF NoDoc, NoFile, NoAttempt, Doc, DeviceFile, Attempt,
                          Version, TypeOK
<1>1. ASSUME Connect(d) PROVE TypeOK'
  <2>1. next' \in Counters
    BY <1>1, TakeType DEF Connect
  <2>2. [pending[d] EXCEPT !.phase = "list"] \in Attempt
    BY <1>0 DEF Attempt
  <2>3. pending' \in [Device -> Attempt]
    BY <1>1, <2>2 DEF Connect, TypeOK
  <2>4. conn' \in [Device -> {"off", "connecting", "on"}]
    BY <1>1 DEF Connect, TypeOK
  <2> QED
    BY <1>1, <2>1, <2>3, <2>4
    DEF TypeOK, Counters, Connect, fileVars, watchVars, remoteVars, history
<1>2. ASSUME ConnectList(d) PROVE TypeOK'
  <2>1. ASSUME NEW listed, listed \subseteq Session
        PROVE  [pending[d] EXCEPT !.phase = "read", !.sessions = listed] \in Attempt
    BY <1>0, <2>1 DEF Attempt
  <2>2. PICK listed \in {live} \union (IF "list" \in Faults THEN {{}} ELSE {}) :
            pending' = [pending EXCEPT ![d].phase = "read", ![d].sessions = listed]
    BY <1>2 DEF ConnectList
  <2>3. listed \subseteq Session
    BY <2>2 DEF TypeOK
  <2>4. pending' = [pending EXCEPT ![d] =
                        [@ EXCEPT !.phase = "read", !.sessions = listed]]
    BY <1>0, <2>2 DEF TypeOK, Attempt
  <2>5. pending' \in [Device -> Attempt]
    BY <2>1, <2>3, <2>4 DEF TypeOK
  <2> QED
    BY <1>2, <2>5
    DEF TypeOK, ConnectList, fileVars, watchVars, remoteVars, history
<1>3. ASSUME ConnectRead(d) PROVE TypeOK'
  <2>1. [pending[d] EXCEPT !.phase = "done", !.shared = shared,
                           !.file = devfile[d]] \in Attempt
    BY <1>0 DEF Attempt, TypeOK
  <2>2. pending' \in [Device -> Attempt]
    BY <1>3, <2>1 DEF ConnectRead, TypeOK
  <2> QED
    BY <1>3, <2>2
    DEF TypeOK, ConnectRead, fileVars, watchVars, remoteVars, history
<1>4. ASSUME ConnectFails(d) \/ ConnectDiscarded(d) PROVE TypeOK'
  BY <1>0, <1>4
  DEF TypeOK, ConnectFails, ConnectDiscarded, fileVars, watchVars, remoteVars,
      history
<1>5. ASSUME Disconnect(d) PROVE TypeOK'
  <2>1. next' \in Counters
    BY <1>5, TakeType DEF Disconnect
  <2>2. UuidsIn(tabs[d]) \subseteq Uuid /\ SessionsIn(tabs[d]) \subseteq Session
    BY DEF TypeOK, Tab, UuidsIn, SessionsIn
  <2>3. /\ hidden' \in [Device -> SUBSET Uuid]
        /\ putaway' \in [Device -> SUBSET Tab]
    BY <1>5, <2>2 DEF Disconnect, TypeOK
  <2>4. emitted' \in [Device -> Version]
    BY <1>5, BoundsAssumption DEF Disconnect, TypeOK, Version
  <2>5. waiting' \subseteq Channel /\ dead' \subseteq Channel
    BY <1>5 DEF TypeOK, Disconnect, Forget
  <2> QED
    BY <1>0, <1>5, <2>1, <2>3, <2>4, <2>5 DEF TypeOK, Counters, Disconnect, fileVars
<1>6. ASSUME Crash(d) PROVE TypeOK'
  <2>1. next' \in Counters
    BY <1>6, TakeType DEF Crash
  <2>2. emitted' \in [Device -> Version]
    BY <1>6, BoundsAssumption DEF Crash, TypeOK, Version
  <2> QED
    BY <1>0, <1>6, <2>1, <2>2 DEF TypeOK, Counters, Crash, fileVars
<1> QED
  BY <1>1, <1>2, <1>3, <1>4, <1>5, <1>6

\* The watcher, and a document it brings.
LEMMA TypeWatch ==
    ASSUME TypeOK, NEW d \in Device
    PROVE  /\ WatchEmit(d) => TypeOK'
           /\ RemoteStateChanged(d) => TypeOK'
<1>1. ASSUME WatchEmit(d) PROVE TypeOK'
  <2>1. mail' \in [Device -> SUBSET Doc] /\ emitted' \in [Device -> Version]
    BY <1>1 DEF TypeOK, WatchEmit, Doc
  <2> QED
    BY <1>1, <2>1
    DEF TypeOK, WatchEmit, fileVars, deviceVars, remoteVars, history
<1>2. ASSUME NEW doc \in mail[d], mail' = [mail EXCEPT ![d] = {}],
             AdoptRemote(d, doc)
      PROVE  /\ tabs' \in [Device -> SUBSET Tab]
             /\ opening' \subseteq Channel
             /\ dirty' \in [Device -> BOOLEAN] /\ recent' \in [Device -> BOOLEAN]
             /\ cache' \in [Device -> Doc]
             /\ tasks' \subseteq Task
             /\ next' \in Counters
  <2> DEFINE news   == RemoteOnly(d, doc)
             opened == AdoptedTabs(next.uuid, news)
             flush  == news # {} /\ ~recent[d]
             count  == IF flush THEN 1 ELSE 0
  <2>1. doc \in Doc /\ news \in SUBSET Tab /\ next.uuid \in Nat
    BY DEF TypeOK, RemoteOnly, Doc
  <2>2. /\ tabs' = [tabs EXCEPT ![d] = @ \union opened]
        /\ opening' = opening \union {Opening(d, t) : t \in opened}
        /\ \/ /\ flush
              /\ \E t \in opened :
                    tasks' = tasks \union
                        SpawnedTasks(d, tabs[d] \union {t}, hidden[d])
              /\ dirty' = [dirty EXCEPT ![d] = Cardinality(news) > 1]
              /\ recent' = [recent EXCEPT ![d] = TRUE]
           \/ /\ ~flush
              /\ dirty' = [dirty EXCEPT ![d] = @ \/ news # {}]
              /\ UNCHANGED <<recent, tasks>>
        /\ Take(Cardinality(news), 0, count, 0)
        /\ cache' = [cache EXCEPT ![d] = doc]
    BY <1>2 DEF AdoptRemote
  <2> HIDE DEF news
  <2>3. /\ Cardinality(news) \in Nat
        /\ SessionsIn(opened) = SessionsIn(news)
        /\ \A t \in opened :
                /\ t = [uuid |-> t.uuid, tmux |-> t.tmux]
                /\ t.uuid \in next.uuid .. next.uuid + Cardinality(news) - 1
                /\ t.tmux \in SessionsIn(news)
    BY <2>1, AdoptedTabsNumbered
  <2> HIDE DEF opened, flush
  <2>4. count \in Nat
    OBVIOUS
  <2>5. /\ next' \in Counters
        /\ Cardinality(news) > 0 =>
                next.uuid .. next.uuid + Cardinality(news) - 1 \subseteq Uuid
        /\ count > 0 => next.ver \in Version
    BY <2>2, <2>3, <2>4, TakeType
  <2>6. opened \subseteq Tab
    <3> SUFFICES ASSUME NEW t \in opened PROVE t \in Tab
      OBVIOUS
    <3>1. t.uuid \in Uuid
      BY <2>1, <2>3, <2>5
    <3>2. t.tmux \in Session
      BY <2>1, <2>3 DEF SessionsIn, Tab
    <3> QED
      BY <2>3, <3>1, <3>2 DEF Tab
  <2>7. tabs' \in [Device -> SUBSET Tab]
    BY <2>2, <2>6 DEF TypeOK
  <2>8. opening' \subseteq Channel
    BY <2>2, <2>6, OpeningType DEF TypeOK
  <2>9. tasks' \subseteq Task
    <3>1. CASE flush
      <4>1. PICK t \in opened :
                tasks' = tasks \union SpawnedTasks(d, tabs[d] \union {t}, hidden[d])
        BY <2>2, <3>1
      <4>2. next.ver \in Version /\ tabs[d] \union {t} \in SUBSET Tab
        BY <2>5, <2>6, <3>1 DEF TypeOK
      <4>3. SpawnedTasks(d, tabs[d] \union {t}, hidden[d]) \subseteq Task
        BY <4>2 DEF SpawnedTasks, FlushTask, Task, TypeOK, Doc
      <4> QED
        BY <4>1, <4>3 DEF TypeOK
    <3>2. CASE ~flush
      BY <2>2, <3>2 DEF TypeOK
    <3> QED
      BY <3>1, <3>2
  <2>10. dirty' \in [Device -> BOOLEAN] /\ recent' \in [Device -> BOOLEAN]
    <3>1. \E b \in BOOLEAN : dirty' = [dirty EXCEPT ![d] = b]
      <4>1. /\ (Cardinality(news) > 1) \in BOOLEAN
            /\ (dirty[d] \/ news # {}) \in BOOLEAN
        OBVIOUS
      <4>2. \/ dirty' = [dirty EXCEPT ![d] = Cardinality(news) > 1]
            \/ dirty' = [dirty EXCEPT ![d] = dirty[d] \/ news # {}]
        BY <2>2, Zenon
      <4> QED
        BY <4>1, <4>2, Zenon
    <3>2. recent' \in [Device -> BOOLEAN]
      BY <2>2 DEF TypeOK
    <3>3. dirty \in [Device -> BOOLEAN]
      BY DEF TypeOK
    <3> QED
      BY <3>1, <3>2, <3>3
  <2>11. cache' \in [Device -> Doc]
    BY <2>1, <2>2 DEF TypeOK
  <2> QED
    BY <2>5, <2>7, <2>8, <2>9, <2>10, <2>11
<1>3. ASSUME RemoteStateChanged(d) PROVE TypeOK'
  <2>1. PICK doc \in mail[d] :
           /\ mail' = [mail EXCEPT ![d] = {}]
           /\ \/ /\ doc.ver = cache[d].ver
                 /\ UNCHANGED <<tabs, cache, dirty, recent, tasks, opening, next>>
              \/ AdoptRemote(d, doc)
    BY <1>3 DEF RemoteStateChanged
  <2>2. /\ tabs' \in [Device -> SUBSET Tab]
        /\ opening' \subseteq Channel
        /\ dirty' \in [Device -> BOOLEAN] /\ recent' \in [Device -> BOOLEAN]
        /\ cache' \in [Device -> Doc]
        /\ tasks' \subseteq Task
        /\ next' \in Counters
    <3>1. CASE AdoptRemote(d, doc)
      BY <1>2, <2>1, <3>1
    <3>2. CASE UNCHANGED <<tabs, cache, dirty, recent, tasks, opening, next>>
      BY <3>2 DEF TypeOK, Counters
    <3> QED
      BY <2>1, <3>1, <3>2
  <2> QED
    BY <1>3, <2>1, <2>2
    DEF TypeOK, Counters, RemoteStateChanged, fileVars, history
<1> QED
  BY <1>1, <1>3

\* What a connection attempt brings, handled: reconcile_sessions.
LEMMA TypeReconcile ==
    ASSUME TypeOK, NEW d \in Device, ServerConnected(d)
    PROVE  TypeOK'
<1> DEFINE p == pending[d]
<1>1. PICK restored \in Restorable(d, p) : Reconcile(d, p, restored)
  BY DEF ServerConnected
<1> DEFINE kept   == KeptTabs(d, p, restored)
           opened == FreshTabs(next.uuid, restored)
           fresh  == IF kept \union opened = {}
                     THEN {[uuid |-> next.uuid, tmux |-> next.session]}
                     ELSE {}
           all    == kept \union opened \union fresh
           first  == {t \in opened \union fresh : t.uuid = next.uuid}
           early  == IF first # {} /\ ~recent[d] THEN 1 ELSE 0
           hid    == LoadedHidden(d, p)
           gone   == {Opening(d, t) : t \in tabs[d] \ kept}
           Task_(ver, ts) == [FlushTask(d, ver, ts, hid) EXCEPT
                                  !.base = p.shared.ver, !.ws = WorkspaceOf(p)]
<1>2. /\ tabs' = [tabs EXCEPT ![d] = all]
      /\ hidden' = [hidden EXCEPT ![d] = hid]
      /\ cache' = [cache EXCEPT ![d] =
                    [ver |-> p.shared.ver, ws |-> WorkspaceOf(p), tabs |-> all]]
      /\ tasks' = tasks
            \union {Task_(next.ver, kept \union first) : x \in 1 .. early}
            \union {Task_(next.ver + early, all)}
      /\ opening' = opening \union {Opening(d, t) : t \in opened \union fresh}
      /\ kills' = kills \union {[dev |-> d, tmux |-> t.tmux] : t \in tabs[d] \ kept}
      /\ waiting' = waiting \ (Vanished(d, p) \union gone)
      /\ dead' = (dead \union Vanished(d, p)) \ gone
      /\ named' = [s \in Session |-> IF s \in SessionsIn(fresh)
                                    THEN WorkspaceOf(p) ELSE named[s]]
      /\ Take(Cardinality(restored) + Cardinality(fresh),
              Cardinality(fresh), early + 1, 0)
      /\ discarded' = [discarded EXCEPT ![d] = @ \union SessionsIn(tabs[d] \ kept)]
      /\ missed' = [missed EXCEPT ![d] =
                        @ \union (SessionsIn(p.shared.tabs)
                                      \ (p.sessions \union SessionsIn(tabs[d])))]
  BY <1>1, Zenon DEF Reconcile
<1>3. /\ p \in Attempt /\ p.shared \in Doc /\ p.file \in DeviceFile
      /\ p.sessions \subseteq Session /\ tabs[d] \subseteq Tab
      /\ next.uuid \in Nat
  BY DEF TypeOK, Attempt
<1>4. restored \subseteq Candidates(d, p) /\ Candidates(d, p) \subseteq Session
  BY <1>1, <1>3 DEF Restorable, Candidates
<1>5. kept \subseteq tabs[d] /\ hid \subseteq Uuid
  BY <1>3 DEF KeptTabs, LoadedHidden, DeviceFile, TypeOK
<1>6. /\ Cardinality(restored) \in Nat
      /\ SessionsIn(opened) = restored
      /\ \A t \in opened :
            /\ t = [uuid |-> t.uuid, tmux |-> t.tmux]
            /\ t.uuid \in next.uuid .. next.uuid + Cardinality(restored) - 1
            /\ t.tmux \in restored
  BY <1>3, <1>4, FreshTabsNumbered
<1> HIDE DEF kept, opened, hid, p
<1>7. \/ fresh = {} /\ Cardinality(fresh) = 0
      \/ /\ fresh = {[uuid |-> next.uuid, tmux |-> next.session]}
         /\ Cardinality(fresh) = 1
  BY FS_EmptySet, FS_Singleton
<1> HIDE DEF fresh
<1>8. early \in {0, 1}
  OBVIOUS
<1> HIDE DEF first, early
<1>9. /\ next' \in Counters
      /\ Cardinality(restored) + Cardinality(fresh) > 0 =>
            next.uuid .. next.uuid + Cardinality(restored) + Cardinality(fresh) - 1
                \subseteq Uuid
      /\ Cardinality(fresh) > 0 => next.session \in Session
      /\ next.ver \in Version /\ next.ver + early \in Version
  <2>1. /\ Cardinality(restored) + Cardinality(fresh) \in Nat
        /\ Cardinality(fresh) \in Nat /\ early + 1 \in Nat
        /\ early + 1 > 0 /\ (early = 1 => early + 1 > 1)
    BY <1>6, <1>7, <1>8
  <2>2. /\ next' \in Counters
        /\ Cardinality(restored) + Cardinality(fresh) > 0 =>
              next.uuid .. next.uuid + (Cardinality(restored) + Cardinality(fresh)) - 1
                  \subseteq Uuid
        /\ Cardinality(fresh) > 0 => next.session \in Session
        /\ next.ver \in Version
        /\ early = 1 => next.ver + 1 \in Version
    BY <1>2, <2>1, TakeType
  <2>3. next.ver + 0 = next.ver
    BY <2>2 DEF Version
  <2>4. next.uuid + Cardinality(restored) + Cardinality(fresh) - 1
          = next.uuid + (Cardinality(restored) + Cardinality(fresh)) - 1
    BY <1>3, <1>6, <1>7
  <2> QED
    BY <1>8, <2>2, <2>3, <2>4
<1>10. WorkspaceOf(p) \in Version
  BY <1>3, <1>9 DEF WorkspaceOf, Doc
<1>11. opened \subseteq Tab
  <2> SUFFICES ASSUME NEW t \in opened PROVE t \in Tab
    OBVIOUS
  <2>1. t.uuid \in Uuid
    BY <1>3, <1>6, <1>7, <1>9
  <2>2. t.tmux \in Session
    BY <1>4, <1>6
  <2> QED
    BY <1>6, <2>1, <2>2 DEF Tab
<1>12. fresh \subseteq Tab
  <2>1. CASE fresh = {[uuid |-> next.uuid, tmux |-> next.session]}
             /\ Cardinality(fresh) = 1
    <3>1. /\ next.uuid \in next.uuid .. next.uuid + Cardinality(restored)
                                                  + Cardinality(fresh) - 1
          /\ Cardinality(restored) + Cardinality(fresh) > 0
          /\ Cardinality(fresh) > 0
      BY <1>3, <1>6, <2>1
    <3>2. next.uuid \in Uuid
      BY <1>9, <3>1
    <3>3. next.session \in Session
      BY <1>9, <3>1
    <3> QED
      BY <2>1, <3>2, <3>3 DEF Tab
  <2> QED
    BY <1>7, <2>1
<1>13. all \subseteq Tab /\ kept \union first \subseteq Tab
  BY <1>3, <1>5, <1>11, <1>12 DEF first
<1>14. tasks' \subseteq Task
  <2>1. ASSUME NEW ver \in Version, NEW ts, ts \subseteq Tab
        PROVE  Task_(ver, ts) \in Task
    BY <1>3, <1>5, <1>10, <2>1 DEF FlushTask, Task, Doc, TypeOK
  <2>2. /\ Task_(next.ver, kept \union first) \in Task
        /\ Task_(next.ver + early, all) \in Task
    BY <1>9, <1>13, <2>1
  <2> HIDE DEF Task_
  <2> QED
    BY <1>2, <2>2 DEF TypeOK
<1>15. /\ tabs' \in [Device -> SUBSET Tab]
       /\ hidden' \in [Device -> SUBSET Uuid]
       /\ cache' \in [Device -> Doc]
  <2>1. [ver |-> p.shared.ver, ws |-> WorkspaceOf(p), tabs |-> all] \in Doc
    BY <1>3, <1>10, <1>13 DEF Doc
  <2> QED
    BY <1>2, <1>5, <1>13, <2>1 DEF TypeOK
<1>16. opening' \subseteq Channel
  BY <1>2, <1>11, <1>12, OpeningType DEF TypeOK
<1>17. /\ kills' \subseteq [dev : Device, tmux : Session]
       /\ missed' \in [Device -> SUBSET Session]
       /\ discarded' \in [Device -> SUBSET Session]
       /\ found' \in [Device -> SUBSET Session]
  <2>1. /\ \A t \in tabs[d] : t.tmux \in Session
        /\ SessionsIn(tabs[d]) \subseteq Session
        /\ SessionsIn(p.shared.tabs) \subseteq Session
        /\ SessionsIn(tabs[d] \ kept) \subseteq Session
    BY <1>3 DEF SessionsIn, Tab, Doc
  <2>2. found' \in [Device -> SUBSET Session]
    BY <1>4, <2>1 DEF ServerConnected, TypeOK, p
  <2>3. kills' \subseteq [dev : Device, tmux : Session]
    BY <1>2, <2>1 DEF TypeOK
  <2> HIDE DEF all
  <2>4. discarded' \in [Device -> SUBSET Session]
    BY <1>2, <2>1 DEF TypeOK
  <2>5. missed' \in [Device -> SUBSET Session]
    BY <1>2, <2>1 DEF TypeOK
  <2> QED
    BY <2>2, <2>3, <2>4, <2>5
<1>20. waiting' \subseteq Channel /\ dead' \subseteq Channel
  BY <1>2 DEF TypeOK, Vanished
<1>18. named' \in [Session -> Version]
  BY <1>2, <1>10 DEF TypeOK
<1>19. /\ pending' \in [Device -> Attempt] /\ emitted' \in [Device -> Version]
       /\ conn' \in [Device -> {"off", "connecting", "on"}]
       /\ dirty' \in [Device -> BOOLEAN] /\ recent' \in [Device -> BOOLEAN]
       /\ mail' \in [Device -> SUBSET Doc]
       /\ UNCHANGED <<shared, devfile, live, exits, ended, putaway>>
  BY BoundsAssumption
  DEF ServerConnected, TypeOK, NoAttempt, NoFile, NoDoc, Attempt, Doc, DeviceFile,
      Version, fileVars
<1> QED
  BY <1>9, <1>14, <1>15, <1>16, <1>17, <1>18, <1>19, <1>20 DEF TypeOK, Counters

LEMMA TypeStep == TypeOK /\ [Next]_vars => TypeOK'
<1> SUFFICES ASSUME TypeOK, [Next]_vars PROVE TypeOK'
  OBVIOUS
<1>1. CASE ServerStep
  BY <1>1, TypeFlush, TypeTabs DEF ServerStep
<1>2. ASSUME NEW d \in Device, DeviceStep(d) PROVE TypeOK'
  BY <1>2, TypeUser, TypeAttempt, TypeWatch, TypeReconcile DEF DeviceStep
<1>3. CASE UNCHANGED vars
  BY <1>3 DEF vars, fileVars, deviceVars, watchVars, remoteVars, history, TypeOK
<1> QED
  BY <1>1, <1>2, <1>3 DEF Next

(***************************************************************************)
(* Type correctness: whatever flushes, merges, restores and crashes        *)
(* interleave, files, messages and tasks hold tabs and versions that were  *)
(* handed out, and every kill and attach is of a known session.            *)
(***************************************************************************)
THEOREM TypeCorrect == Spec => []TypeOK
  BY TypeInit, TypeStep, PTL DEF Spec

-----------------------------------------------------------------------------
(***************************************************************************)
(* Tabs and sessions.                                                      *)
(***************************************************************************)

(***************************************************************************)
(* The inductive invariant.  A uuid names one tab, wherever an entry of it *)
(* lies: in a window, in the file, in a message or in a flush task.        *)
(***************************************************************************)
TabsAround ==
    {t \in Tab : \/ t \in shared.tabs
                 \/ \E d \in Device : t \in tabs[d]
                 \/ \E d \in Device : \E doc \in mail[d] : t \in doc.tabs
                 \/ \E k \in tasks : t \in k.tabs \union k.seen}

UuidsNameTabs ==
    /\ \A t \in TabsAround : t.uuid < next.uuid
    /\ \A t, u \in TabsAround : t.uuid = u.uuid => t = u

\* The sessions that a user ended or a device discarded.
Over == ended \union Discarded

\* A message that closes a tab is about a session that is over.
ExitsOwed ==
    \A e \in exits : /\ e.uuid < next.uuid
                     /\ \A t \in tabs[e.dev] : t.uuid = e.uuid => t.tmux \in Over

KillsOwed == \A k \in kills : k.tmux \in Over

SafetyInv == TypeOK /\ UuidsNameTabs /\ ExitsOwed /\ KillsOwed /\ TabsAreBacked

(***************************************************************************)
(* Uuids.  A step keeps them unique if every entry it leaves was there or  *)
(* is one of some new tabs, which it numbers from next.uuid on.            *)
(***************************************************************************)
Numbered(new) ==
    /\ new \subseteq Tab
    /\ next.uuid \in Nat /\ next'.uuid \in Nat /\ next.uuid <= next'.uuid
    /\ \A t \in new : next.uuid <= t.uuid /\ t.uuid < next'.uuid
    /\ \A t, u \in new : t.uuid = u.uuid => t = u

LEMMA AroundParts ==
    ASSUME TypeOK
    PROVE  /\ shared.tabs \subseteq TabsAround
           /\ \A d \in Device : tabs[d] \subseteq TabsAround
           /\ \A d \in Device : \A doc \in mail[d] : doc.tabs \subseteq TabsAround
           /\ \A k \in tasks : k.tabs \union k.seen \subseteq TabsAround
<1>1. shared.tabs \subseteq TabsAround
  BY DEF TypeOK, Doc, TabsAround
<1>2. \A d \in Device : tabs[d] \subseteq TabsAround
  BY DEF TypeOK, TabsAround
<1>3. \A d \in Device : \A doc \in mail[d] : doc.tabs \subseteq TabsAround
  BY DEF TypeOK, Doc, TabsAround
<1>4. \A k \in tasks : k.tabs \union k.seen \subseteq TabsAround
  BY DEF TypeOK, Task, TabsAround
<1> QED
  BY <1>1, <1>2, <1>3, <1>4

LEMMA NamesKept ==
    ASSUME UuidsNameTabs, NEW new, Numbered(new),
           shared'.tabs \subseteq TabsAround,
           \A d \in Device : tabs'[d] \subseteq TabsAround \union new,
           \A d \in Device : \A doc \in mail'[d] : doc.tabs \subseteq TabsAround,
           \A k \in tasks' : k.tabs \union k.seen \subseteq TabsAround \union new
    PROVE  UuidsNameTabs'
<1>1. TabsAround' \subseteq TabsAround \union new
  BY DEF TabsAround
<1>2. \A t \in TabsAround \union new : t.uuid \in Int
  BY DEF Numbered, TabsAround, Tab, Uuid
<1>3. \A t \in TabsAround \union new : t.uuid < next'.uuid
  BY <1>2 DEF Numbered, UuidsNameTabs
<1>4. \A t, u \in TabsAround \union new : t.uuid = u.uuid => t = u
  BY <1>2 DEF Numbered, UuidsNameTabs
<1> QED
  BY <1>1, <1>3, <1>4 DEF UuidsNameTabs

\* A step that numbers no tab.
LEMMA NoneNumbered ==
    ASSUME TypeOK, next'.uuid = next.uuid
    PROVE  Numbered({})
  BY DEF TypeOK, Numbered

\* The tasks of a flush or save hold what they were given.
LEMMA SavedTasks ==
    ASSUME NEW d \in Device, NEW ts, NEW hid,
           FlushState(d, ts, hid) \/ SaveState(d, ts, hid)
    PROVE  \A k \in tasks' : k \in tasks \/ (k.tabs = ts /\ k.seen = {})
  BY DEF FlushState, SaveState, SpawnedTasks, FlushTask

(***************************************************************************)
(* What a step does to the detached tabs, and to the sessions that are     *)
(* over.                                                                   *)
(***************************************************************************)
StillDetached ==
    \A c \in Device : \A t \in tabs'[c] :
        Opening(c, t) \in Detached => Opening(c, t) \in Detached'

LEMMA DetachedSame ==
    ASSUME UNCHANGED <<opening, waiting, dead>>
    PROVE  Detached' = Detached /\ StillDetached
  BY DEF Detached, StillDetached

LEMMA DetachedGrows ==
    ASSUME opening \subseteq opening', UNCHANGED <<waiting, dead>>
    PROVE  Detached \subseteq Detached' /\ StillDetached
  BY DEF Detached, StillDetached

\* Only the tabs that go are forgotten.
LEMMA ForgetKeeps ==
    ASSUME TypeOK', NEW d \in Device, NEW gone, gone \subseteq Tab,
           tabs'[d] \intersect gone = {}, opening \subseteq opening',
           waiting \union dead \subseteq
              waiting' \union dead' \union {Opening(d, t) : t \in gone}
    PROVE  StillDetached
<1> SUFFICES ASSUME NEW c \in Device, NEW t \in tabs'[c], Opening(c, t) \in Detached
             PROVE  Opening(c, t) \in Detached'
  BY DEF StillDetached
<1>1. t \in Tab
  BY DEF TypeOK
<1>2. ASSUME NEW x \in gone PROVE Opening(c, t) # Opening(d, x)
  <2>1. x \in Tab
    OBVIOUS
  <2> SUFFICES ASSUME Opening(c, t) = Opening(d, x) PROVE FALSE
    OBVIOUS
  <2>2. c = d /\ t.uuid = x.uuid /\ t.tmux = x.tmux
    BY DEF Opening
  <2>3. t = x
    BY <1>1, <2>1, <2>2 DEF Tab
  <2> QED
    BY <2>2, <2>3
<1> QED
  BY <1>2 DEF Detached

LEMMA OverSame ==
    ASSUME UNCHANGED <<ended, discarded>>
    PROVE  Over' = Over
  BY DEF Over, Discarded

LEMMA OverGrows ==
    ASSUME ended \subseteq ended', discarded' = discarded
    PROVE  Over \subseteq Over' /\ ended' \subseteq Over'
  BY DEF Over, Discarded

(***************************************************************************)
(* What the two handlers that open several tabs do to tabs and sessions.   *)
(***************************************************************************)
LEMMA AdoptFacts ==
    ASSUME TypeOK, TypeOK', UuidsNameTabs, NEW d \in Device, NEW doc \in mail[d],
           AdoptRemote(d, doc)
    PROVE  \E new : /\ Numbered(new)
                    /\ tabs' = [tabs EXCEPT ![d] = @ \union new]
                    /\ opening' = opening \union {Opening(d, t) : t \in new}
                    /\ \A k \in tasks' : \/ k \in tasks
                                         \/ /\ k.tabs \subseteq tabs[d] \union new
                                            /\ k.seen = {}
<1> DEFINE news   == RemoteOnly(d, doc)
           new    == AdoptedTabs(next.uuid, news)
           count  == IF news # {} /\ ~recent[d] THEN 1 ELSE 0
<1>1. /\ tabs' = [tabs EXCEPT ![d] = @ \union new]
      /\ opening' = opening \union {Opening(d, t) : t \in new}
      /\ \/ \E t \in new :
                tasks' = tasks \union SpawnedTasks(d, tabs[d] \union {t}, hidden[d])
         \/ tasks' = tasks
      /\ Take(Cardinality(news), 0, count, 0)
  BY DEF AdoptRemote
<1>2. news \in SUBSET Tab /\ next.uuid \in Nat
  BY DEF TypeOK, RemoteOnly, Doc
<1>3. \A t, u \in news : t.uuid = u.uuid => t = u
  <2>1. news \subseteq TabsAround
    BY AroundParts DEF RemoteOnly
  <2> QED
    BY <2>1 DEF UuidsNameTabs
<1> HIDE DEF news
<1>4. /\ Cardinality(news) \in Nat
      /\ \A t \in new : t.uuid \in next.uuid .. next.uuid + Cardinality(news) - 1
      /\ \A t, u \in new : t.uuid = u.uuid => t = u
  BY <1>2, <1>3, AdoptedTabsNumbered
<1> HIDE DEF new, count
<1>5. next'.uuid = next.uuid + Cardinality(news)
  BY <1>1 DEF Take
<1>6. new \subseteq Tab
  BY <1>1 DEF TypeOK
<1>7. Numbered(new)
  BY <1>2, <1>4, <1>5, <1>6 DEF Numbered
<1>8. \A k \in tasks' : \/ k \in tasks
                        \/ k.tabs \subseteq tabs[d] \union new /\ k.seen = {}
  BY <1>1 DEF SpawnedTasks, FlushTask
<1> QED
  BY <1>1, <1>7, <1>8

LEMMA ReconcileFacts ==
    ASSUME TypeOK, TypeOK', UuidsNameTabs, NEW d \in Device, ServerConnected(d)
    PROVE  \E kept, new :
              /\ kept \subseteq tabs[d]
              /\ Numbered(new)
              /\ tabs' = [tabs EXCEPT ![d] = kept \union new]
              /\ opening' = opening \union {Opening(d, t) : t \in new}
              /\ kills' = kills \union {[dev |-> d, tmux |-> t.tmux] :
                                            t \in tabs[d] \ kept}
              /\ StillDetached
              /\ discarded' = [discarded EXCEPT ![d] =
                                  @ \union SessionsIn(tabs[d] \ kept)]
              /\ \A k \in tasks' : \/ k \in tasks
                                   \/ /\ k.tabs \subseteq kept \union new
                                      /\ k.seen = {}
<1> DEFINE p == pending[d]
<1>1. PICK restored \in Restorable(d, p) : Reconcile(d, p, restored)
  BY DEF ServerConnected
<1> DEFINE kept   == KeptTabs(d, p, restored)
           opened == FreshTabs(next.uuid, restored)
           fresh  == IF kept \union opened = {}
                     THEN {[uuid |-> next.uuid, tmux |-> next.session]}
                     ELSE {}
           all    == kept \union opened \union fresh
           first  == {t \in opened \union fresh : t.uuid = next.uuid}
           early  == IF first # {} /\ ~recent[d] THEN 1 ELSE 0
           hid    == LoadedHidden(d, p)
           gone   == {Opening(d, t) : t \in tabs[d] \ kept}
           Task_(ver, ts) == [FlushTask(d, ver, ts, hid) EXCEPT
                                  !.base = p.shared.ver, !.ws = WorkspaceOf(p)]
<1>2. /\ tabs' = [tabs EXCEPT ![d] = all]
      /\ tasks' = tasks
            \union {Task_(next.ver, kept \union first) : x \in 1 .. early}
            \union {Task_(next.ver + early, all)}
      /\ opening' = opening \union {Opening(d, t) : t \in opened \union fresh}
      /\ kills' = kills \union {[dev |-> d, tmux |-> t.tmux] : t \in tabs[d] \ kept}
      /\ Take(Cardinality(restored) + Cardinality(fresh),
              Cardinality(fresh), early + 1, 0)
      /\ waiting' = waiting \ (Vanished(d, p) \union gone)
      /\ dead' = (dead \union Vanished(d, p)) \ gone
      /\ discarded' = [discarded EXCEPT ![d] = @ \union SessionsIn(tabs[d] \ kept)]
  BY <1>1, Zenon DEF Reconcile
<1>3. next.uuid \in Nat /\ restored \in SUBSET Session /\ kept \subseteq tabs[d]
  BY <1>1 DEF Restorable, Candidates, KeptTabs, TypeOK, Attempt
<1>4. \A ver, ts : Task_(ver, ts).tabs = ts /\ Task_(ver, ts).seen = {}
  BY DEF FlushTask
<1>5. /\ Cardinality(restored) \in Nat
      /\ \A t \in opened :
            t.uuid \in next.uuid .. next.uuid + Cardinality(restored) - 1
      /\ \A t, u \in opened : t.uuid = u.uuid => t = u
  BY <1>3, FreshTabsNumbered
<1> HIDE DEF kept, opened, Task_, early
<1>6. \/ fresh = {} /\ Cardinality(fresh) = 0
      \/ /\ fresh = {[uuid |-> next.uuid, tmux |-> next.session]}
         /\ opened = {}
         /\ Cardinality(fresh) = 1
  BY FS_EmptySet, FS_Singleton
<1> HIDE DEF fresh
<1>7. next'.uuid = next.uuid + (Cardinality(restored) + Cardinality(fresh))
  BY <1>2 DEF Take
<1>8. opened \union fresh \subseteq Tab
  BY <1>2 DEF TypeOK
<1>9. Numbered(opened \union fresh)
  <2>1. CASE fresh = {} /\ Cardinality(fresh) = 0
    BY <1>3, <1>5, <1>7, <1>8, <2>1 DEF Numbered
  <2>2. CASE /\ fresh = {[uuid |-> next.uuid, tmux |-> next.session]}
             /\ opened = {}
             /\ Cardinality(fresh) = 1
    BY <1>3, <1>5, <1>7, <1>8, <2>2 DEF Numbered
  <2> QED
    BY <1>6, <2>1, <2>2
<1>10. ASSUME NEW k \in tasks'
       PROVE  \/ k \in tasks
              \/ k.tabs \subseteq kept \union (opened \union fresh) /\ k.seen = {}
  <2>1. first \subseteq opened \union fresh
    OBVIOUS
  <2> HIDE DEF first
  <2>2. \/ k \in tasks
        \/ k = Task_(next.ver, kept \union first)
        \/ k = Task_(next.ver + early, all)
    BY <1>2
  <2>3. CASE k = Task_(next.ver, kept \union first)
    BY <1>4, <2>1, <2>3
  <2>4. CASE k = Task_(next.ver + early, all)
    <3>1. k.tabs = all /\ k.seen = {}
      BY <1>4, <2>4
    <3> QED
      BY <3>1
  <2> QED
    BY <2>2, <2>3, <2>4
<1> DEFINE new == opened \union fresh
<1>11. /\ tabs' = [tabs EXCEPT ![d] = kept \union new]
       /\ opening' = opening \union {Opening(d, t) : t \in new}
       /\ Numbered(new)
       /\ \A k \in tasks' : \/ k \in tasks
                            \/ k.tabs \subseteq kept \union new /\ k.seen = {}
  <2>1. all = kept \union new
    OBVIOUS
  <2> QED
    BY <1>2, <1>9, <1>10, <2>1
<1>12. StillDetached
  <2> HIDE DEF new, all, first, p
  <2>1. waiting \union dead \subseteq waiting' \union dead' \union gone
    BY <1>2
  <2>2. tabs'[d] = kept \union new
    BY <1>11 DEF TypeOK
  <2>3. opening \subseteq opening'
    BY <1>11
  <2>4. \A t \in new : t \notin tabs[d]
    <3>1. \A t \in new : next.uuid <= t.uuid
      BY <1>11 DEF Numbered
    <3>2. \A t \in tabs[d] : t.uuid < next.uuid /\ t.uuid \in Nat
      BY AroundParts DEF UuidsNameTabs, TypeOK, Tab, Uuid
    <3> QED
      BY <1>3, <3>1, <3>2
  <2>5. tabs'[d] \intersect (tabs[d] \ kept) = {}
    BY <2>2, <2>4
  <2>6. tabs[d] \ kept \subseteq Tab
    BY DEF TypeOK
  <2> QED
    BY <2>1, <2>3, <2>5, <2>6, ForgetKeeps
<1> HIDE DEF new, all, first, p, gone
<1> WITNESS kept, new
<1> QED
  BY <1>2, <1>3, <1>11, <1>12, Zenon

(***************************************************************************)
(* A device that drops some of its tabs and opens new ones, with sessions  *)
(* and messages left as they are, keeps its tabs backed and the messages   *)
(* true: no message is about a uuid that is only now handed out.           *)
(***************************************************************************)
LEMMA TabsChanged ==
    ASSUME SafetyInv, TypeOK', NEW d \in Device, NEW kept, NEW new,
           kept \subseteq tabs[d], Numbered(new),
           tabs' = [tabs EXCEPT ![d] = kept \union new],
           StillDetached, {Opening(d, t) : t \in new} \subseteq Detached',
           live \subseteq live', exits' = exits, Over \subseteq Over'
    PROVE  ExitsOwed' /\ TabsAreBacked'
<1> USE DEF SafetyInv
<1>1. \A c \in Device : \A t \in tabs'[c] : t \in tabs[c] \/ (c = d /\ t \in new)
  BY DEF TypeOK
<1>2. ExitsOwed'
  <2> SUFFICES ASSUME NEW e \in exits
               PROVE  /\ e.uuid < next'.uuid
                      /\ \A t \in tabs'[e.dev] : t.uuid = e.uuid => t.tmux \in Over'
    BY DEF ExitsOwed
  <2>1. /\ e.dev \in Device /\ e.uuid \in Int /\ e.uuid < next.uuid
        /\ \A t \in tabs[e.dev] : t.uuid = e.uuid => t.tmux \in Over
    BY DEF ExitsOwed, TypeOK, Uuid
  <2>2. e.uuid < next'.uuid
    BY <2>1 DEF Numbered
  <2>3. \A t \in new : t.uuid # e.uuid
    BY <2>1 DEF Numbered, Tab, Uuid
  <2> QED
    BY <1>1, <2>1, <2>2, <2>3
<1>3. TabsAreBacked'
  <2> SUFFICES ASSUME NEW c \in Device, NEW t \in tabs'[c]
               PROVE  \/ t.tmux \in live'
                      \/ Opening(c, t) \in Detached'
                      \/ [dev |-> c, uuid |-> t.uuid] \in exits'
    BY DEF TabsAreBacked
  <2>1. CASE t \in tabs[c]
    BY <2>1 DEF TabsAreBacked, StillDetached
  <2>2. CASE c = d /\ t \in new
    BY <2>2
  <2> QED
    BY <1>1, <2>1, <2>2
<1> QED
  BY <1>2, <1>3

\* A session of the list that somebody ended stops, and its tabs hear of it.
LEMMA SessionEnds ==
    ASSUME SafetyInv, NEW s \in Over', EndSession(s), Over \subseteq Over',
           tabs' = tabs, Detached' = Detached, next'.uuid = next.uuid
    PROVE  ExitsOwed' /\ TabsAreBacked'
<1> USE DEF SafetyInv
<1>1. ExitsOwed'
  <2> SUFFICES ASSUME NEW e \in exits'
               PROVE  /\ e.uuid < next.uuid
                      /\ \A t \in tabs[e.dev] : t.uuid = e.uuid => t.tmux \in Over'
    BY DEF ExitsOwed
  <2>1. CASE e \in exits
    BY <2>1 DEF ExitsOwed
  <2>2. CASE e \in AttachedTo(s)
    <3>1. PICK t \in tabs[e.dev] : t.uuid = e.uuid /\ t.tmux = s
      BY <2>2 DEF AttachedTo
    <3>2. tabs[e.dev] \subseteq TabsAround
      BY <2>2, AroundParts DEF AttachedTo
    <3>3. \A u \in tabs[e.dev] : u.uuid = e.uuid => u = t
      BY <3>1, <3>2 DEF UuidsNameTabs
    <3> QED
      BY <3>1, <3>2, <3>3 DEF UuidsNameTabs
  <2> QED
    BY <2>1, <2>2 DEF EndSession
<1>2. TabsAreBacked'
  <2> SUFFICES ASSUME NEW d \in Device, NEW t \in tabs[d]
               PROVE  \/ t.tmux \in live'
                      \/ Opening(d, t) \in Detached
                      \/ [dev |-> d, uuid |-> t.uuid] \in exits'
    BY DEF TabsAreBacked
  <2>1. CASE t.tmux = s /\ Opening(d, t) \notin Detached
    <3> DEFINE e == [dev |-> d, uuid |-> t.uuid]
    <3>1. e \in [dev : Device, uuid : Uuid]
      BY DEF TypeOK, Tab
    <3>2. e \in AttachedTo(s)
      BY <2>1, <3>1 DEF AttachedTo
    <3> QED
      BY <3>2 DEF EndSession
  <2>2. CASE t.tmux # s
    BY <2>2 DEF TabsAreBacked, EndSession
  <2> QED
    BY <2>1, <2>2
<1> QED
  BY <1>1, <1>2

\* Tabs go or stay, and nothing they stand for goes.
LEMMA TabsLeft ==
    ASSUME SafetyInv, TypeOK', next.uuid <= next'.uuid,
           \A c \in Device : tabs'[c] \subseteq tabs[c],
           live \subseteq live', StillDetached, exits' = exits,
           Over \subseteq Over'
    PROVE  ExitsOwed' /\ TabsAreBacked'
<1> USE DEF SafetyInv
<1>1. ExitsOwed'
  <2> SUFFICES ASSUME NEW e \in exits
               PROVE  /\ e.uuid < next'.uuid
                      /\ \A t \in tabs'[e.dev] : t.uuid = e.uuid => t.tmux \in Over'
    BY DEF ExitsOwed
  <2>1. /\ e.dev \in Device /\ e.uuid \in Int /\ e.uuid < next.uuid
        /\ \A t \in tabs[e.dev] : t.uuid = e.uuid => t.tmux \in Over
    BY DEF ExitsOwed, TypeOK, Uuid
  <2>2. next.uuid \in Int /\ next'.uuid \in Int
    BY DEF TypeOK
  <2> QED
    BY <2>1, <2>2
<1>2. TabsAreBacked'
  <2> SUFFICES ASSUME NEW c \in Device, NEW t \in tabs'[c]
               PROVE  \/ t.tmux \in live'
                      \/ Opening(c, t) \in Detached'
                      \/ [dev |-> c, uuid |-> t.uuid] \in exits'
    BY DEF TabsAreBacked
  <2> QED
    BY DEF TabsAreBacked, StillDetached
<1> QED
  BY <1>1, <1>2

(***************************************************************************)
(* The steps, by what they do to tabs and sessions.                        *)
(***************************************************************************)
LEMMA SafetyInit == Init => SafetyInv
<1> SUFFICES ASSUME Init PROVE SafetyInv
  OBVIOUS
<1>1. TypeOK
  BY TypeInit
<1>2. TabsAround = {}
  BY DEF Init, NoDoc, TabsAround
<1> QED
  BY <1>1, <1>2
  DEF Init, SafetyInv, UuidsNameTabs, ExitsOwed, KillsOwed, TabsAreBacked

\* A flush task moves entries between the file and itself.
LEMMA FlushMoves ==
    ASSUME TypeOK, NEW k \in tasks, FlushStep(k)
    PROVE  /\ \/ shared' = shared
              \/ shared'.tabs = k.tabs
           /\ \A j \in tasks' :
                \/ j \in tasks
                \/ j.tabs \union j.seen \subseteq k.tabs \union k.seen \union shared.tabs
<1>1. k \in Task
  BY DEF TypeOK
<1>2. \/ shared' = shared
      \/ shared'.tabs = k.tabs
  BY DEF FlushStep, FlushRead, FlushReadFails, FlushMerge, FlushMergeSkipped,
         FlushListFails, FlushWrite, FlushWriteFails, FlushDevice, FlushDeviceFails,
         fileVars
<1>3. ASSUME NEW j \in tasks'
      PROVE  \/ j \in tasks
             \/ j.tabs \union j.seen \subseteq k.tabs \union k.seen \union shared.tabs
  <2>1. CASE FlushRead(k) \/ FlushReadFails(k) \/ FlushWrite(k) \/ FlushWriteFails(k)
    <3> DEFINE looked    == [k EXCEPT !.phase = "list", !.seen = shared.tabs]
               to(phase) == [k EXCEPT !.phase = phase]
    <3>1. /\ looked.tabs = k.tabs /\ looked.seen = shared.tabs
          /\ \A phase : to(phase).tabs = k.tabs /\ to(phase).seen = k.seen
      BY <1>1 DEF Task
    <3>2. \/ tasks' = (tasks \ {k}) \union {looked}
          \/ tasks' = (tasks \ {k}) \union {to("write")}
          \/ tasks' = (tasks \ {k}) \union {to("device")}
      <4>1. FlushRead(k) => \/ tasks' = (tasks \ {k}) \union {looked}
                            \/ tasks' = (tasks \ {k}) \union {to("write")}
        <5>1. CASE Conflict(k)
          BY <5>1 DEF FlushRead, Advance
        <5>2. CASE ~Conflict(k)
          BY <5>2 DEF FlushRead, Advance
        <5> QED
          BY <5>1, <5>2
      <4>2. FlushReadFails(k) => tasks' = (tasks \ {k}) \union {to("write")}
        BY DEF FlushReadFails, Advance
      <4>3. FlushWrite(k) \/ FlushWriteFails(k)
                => tasks' = (tasks \ {k}) \union {to("device")}
        BY DEF FlushWrite, FlushWriteFails, Advance
      <4> QED
        BY <2>1, <4>1, <4>2, <4>3
    <3> HIDE DEF looked, to
    <3> QED
      BY <3>1, <3>2
  <2>2. CASE FlushMerge(k) \/ FlushMergeSkipped(k) \/ FlushListFails(k)
    <3> DEFINE Merged(running) == [k EXCEPT !.phase = "write", !.seen = {},
                                    !.tabs = MergeTabSets(k.tabs, k.seen, running)]
    <3>1. ASSUME NEW running
          PROVE  Merged(running).tabs \union Merged(running).seen
                    \subseteq k.tabs \union k.seen
      <4>1. /\ Merged(running).tabs = MergeTabSets(k.tabs, k.seen, running)
            /\ Merged(running).seen = {}
        BY <1>1 DEF Task
      <4> QED
        BY <4>1, MergeKeeps
    <3>2. \/ tasks' = (tasks \ {k}) \union {Merged(live)}
          \/ tasks' = (tasks \ {k}) \union {Merged({})}
          \/ tasks' = (tasks \ {k}) \union {[k EXCEPT !.phase = "write", !.seen = {}]}
      BY <2>2, Zenon DEF FlushMerge, FlushMergeSkipped, FlushListFails, Advance
    <3>3. /\ [k EXCEPT !.phase = "write", !.seen = {}].tabs = k.tabs
          /\ [k EXCEPT !.phase = "write", !.seen = {}].seen = {}
      BY <1>1 DEF Task
    <3> HIDE DEF Merged
    <3>4. \/ j \in tasks \/ j = Merged(live) \/ j = Merged({})
          \/ j = [k EXCEPT !.phase = "write", !.seen = {}]
      BY <3>2
    <3>5. CASE j = Merged(live) \/ j = Merged({})
      BY <3>1, <3>5
    <3>6. CASE j = [k EXCEPT !.phase = "write", !.seen = {}]
      <4>1. j.tabs = k.tabs /\ j.seen = {}
        BY <3>3, <3>6
      <4> QED
        BY <4>1
    <3> QED
      BY <3>4, <3>5, <3>6
  <2>3. CASE FlushDevice(k) \/ FlushDeviceFails(k)
    BY <2>3 DEF FlushDevice, FlushDeviceFails
  <2> QED
    BY <2>1, <2>2, <2>3 DEF FlushStep
<1> QED
  BY <1>2, <1>3

LEMMA SafeFlush ==
    ASSUME SafetyInv, TypeOK', NEW k \in tasks, FlushStep(k)
    PROVE  SafetyInv'
<1> USE DEF SafetyInv
<1>1. UNCHANGED <<deviceVars, watchVars, remoteVars, next, history>>
  BY DEF FlushStep, FlushRead, FlushReadFails, FlushMerge, FlushMergeSkipped,
         FlushListFails, FlushWrite, FlushWriteFails, FlushDevice, FlushDeviceFails
<1>2. UuidsNameTabs'
  <2>1. shared'.tabs \subseteq TabsAround
    BY FlushMoves, AroundParts
  <2>2. \A d \in Device : /\ tabs'[d] \subseteq TabsAround \union {}
                          /\ \A doc \in mail'[d] : doc.tabs \subseteq TabsAround
    BY <1>1, AroundParts DEF deviceVars, watchVars
  <2>3. \A j \in tasks' : j.tabs \union j.seen \subseteq TabsAround \union {}
    BY FlushMoves, AroundParts
  <2>4. Numbered({})
    BY <1>1, NoneNumbered
  <2> QED
    BY <2>1, <2>2, <2>3, <2>4, NamesKept
<1>3. Detached' = Detached /\ Over' = Over
  BY <1>1, DetachedSame, OverSame DEF remoteVars, history
<1> QED
  BY <1>1, <1>2, <1>3
  DEF deviceVars, remoteVars, ExitsOwed, KillsOwed, TabsAreBacked

\* A step that leaves no new entry anywhere keeps uuids unique.
LEMMA NoNewNames ==
    ASSUME SafetyInv, next'.uuid = next.uuid,
           shared' = shared,
           \A d \in Device : tabs'[d] \subseteq tabs[d],
           \A d \in Device : mail'[d] \subseteq mail[d] \union {shared},
           \A k \in tasks' : \/ k \in tasks
                             \/ /\ k.seen = {}
                                /\ \E d \in Device : k.tabs \subseteq tabs[d]
    PROVE  UuidsNameTabs'
<1> USE DEF SafetyInv
<1>1. shared'.tabs \subseteq TabsAround
  BY AroundParts
<1>2. \A d \in Device : tabs'[d] \subseteq TabsAround \union {}
  BY AroundParts
<1>3. \A d \in Device : \A doc \in mail'[d] : doc.tabs \subseteq TabsAround
  BY AroundParts
<1>4. \A k \in tasks' : k.tabs \union k.seen \subseteq TabsAround \union {}
  BY AroundParts
<1>5. Numbered({})
  BY NoneNumbered
<1> QED
  BY <1>1, <1>2, <1>3, <1>4, <1>5, NamesKept

\* Attaches, kills and shells that exit.
LEMMA SafeSessions ==
    ASSUME SafetyInv, TypeOK'
    PROVE  /\ \A o \in opening : AttachTab(o) \/ AttachFails(o) => SafetyInv'
           /\ \A o \in waiting : RetryAttach(o) => SafetyInv'
           /\ \A k \in kills : ExecuteKill(k) \/ KillFails(k) => SafetyInv'
           /\ \A s \in live : ShellExit(s) => SafetyInv'
<1> USE DEF SafetyInv
<1>1. ASSUME NEW o \in opening, AttachTab(o) \/ AttachFails(o) PROVE SafetyInv'
  <2>1. /\ UNCHANGED <<shared, tabs, mail, exits, kills, tasks, ended, discarded>>
        /\ opening' = opening \ {o} /\ live \subseteq live'
        /\ waiting \subseteq waiting' /\ dead \subseteq dead'
    BY <1>1 DEF AttachTab, AttachFails, fileVars, deviceVars, watchVars, history
  <2>2. next'.uuid = next.uuid
    BY <1>1 DEF AttachTab, AttachFails, Take, TypeOK
  <2>3. UuidsNameTabs'
    BY <2>1, <2>2, NoNewNames
  <2>4. TabsAreBacked'
    <3> SUFFICES ASSUME NEW d \in Device, NEW t \in tabs[d]
                 PROVE  \/ t.tmux \in live'
                        \/ Opening(d, t) \in Detached'
                        \/ [dev |-> d, uuid |-> t.uuid] \in exits
      BY <2>1 DEF TabsAreBacked
    <3>1. CASE Opening(d, t) = o /\ AttachTab(o)
      BY <3>1 DEF AttachTab, Opening
    <3>2. CASE Opening(d, t) = o /\ AttachFails(o)
      <4>1. o.uuid \in UuidsIn(tabs[o.dev])
        BY <3>2 DEF Opening, UuidsIn
      <4> QED
        BY <3>2, <4>1 DEF AttachFails, Detached
    <3>3. CASE Opening(d, t) # o
      <4>1. Opening(d, t) \in Detached => Opening(d, t) \in Detached'
        BY <2>1, <3>3 DEF Detached
      <4> QED
        BY <2>1, <4>1 DEF TabsAreBacked
    <3> QED
      BY <1>1, <3>1, <3>2, <3>3
  <2>5. Over' = Over
    BY <2>1, OverSame
  <2> QED
    BY <2>1, <2>2, <2>3, <2>4, <2>5 DEF ExitsOwed, KillsOwed
<1>2. ASSUME NEW k \in kills, ExecuteKill(k) \/ KillFails(k) PROVE SafetyInv'
  <2>1. /\ UNCHANGED <<fileVars, deviceVars, watchVars, named, opening, waiting, dead,
                       tasks, next, history>>
        /\ kills' \subseteq kills
        /\ EndSession(k.tmux) \/ UNCHANGED <<live, exits>>
    BY <1>2 DEF ExecuteKill, KillFails
  <2>2. UuidsNameTabs'
    BY <2>1, NoNewNames DEF fileVars, deviceVars, watchVars
  <2>3. Over' = Over /\ Detached' = Detached
    BY <2>1, OverSame, DetachedSame DEF history
  <2>4. k.tmux \in Over' /\ KillsOwed'
    BY <2>1, <2>3 DEF KillsOwed
  <2>5. ExitsOwed' /\ TabsAreBacked'
    <3>1. CASE EndSession(k.tmux)
      BY <2>1, <2>3, <2>4, <3>1, SessionEnds DEF deviceVars
    <3>2. CASE UNCHANGED <<live, exits>>
      BY <2>1, <2>3, <3>2 DEF deviceVars, ExitsOwed, TabsAreBacked
    <3> QED
      BY <2>1, <3>1, <3>2
  <2> QED
    BY <2>2, <2>4, <2>5
<1>3. ASSUME NEW s \in live, ShellExit(s) PROVE SafetyInv'
  <2>1. next'.uuid = next.uuid
    BY <1>3 DEF ShellExit, Take, TypeOK
  <2>2. UuidsNameTabs'
    BY <1>3, <2>1, NoNewNames DEF ShellExit, fileVars, deviceVars, watchVars
  <2>3. /\ s \in ended' /\ ended \subseteq ended' /\ EndSession(s)
        /\ UNCHANGED <<tabs, opening, waiting, dead, kills, discarded>>
    BY <1>3 DEF ShellExit, deviceVars
  <2>4. Detached' = Detached /\ Over \subseteq Over' /\ s \in Over'
    BY <2>3, DetachedSame, OverGrows
  <2>5. ExitsOwed' /\ TabsAreBacked'
    BY <2>1, <2>3, <2>4, SessionEnds
  <2> QED
    BY <2>2, <2>3, <2>4, <2>5 DEF KillsOwed
<1>4. ASSUME NEW o \in waiting, RetryAttach(o) PROVE SafetyInv'
  <2>1. /\ UNCHANGED <<shared, tabs, mail, live, exits, kills, tasks, next, ended,
                       discarded>>
        /\ waiting' = waiting \ {o} /\ opening' = opening \union {o} /\ dead' = dead
    BY <1>4 DEF RetryAttach, fileVars, deviceVars, watchVars, history
  <2>2. Detached' = Detached /\ Over' = Over
    BY <2>1, OverSame DEF Detached
  <2>3. UuidsNameTabs'
    BY <2>1, NoNewNames
  <2> QED
    BY <2>1, <2>2, <2>3 DEF ExitsOwed, KillsOwed, TabsAreBacked
<1> QED
  BY <1>1, <1>2, <1>3, <1>4

\* A tab that is closed or hidden is the only one forgotten.
LEMMA OneForgotten ==
    ASSUME TypeOK, TypeOK', NEW d \in Device, NEW t \in tabs[d],
           tabs' = [tabs EXCEPT ![d] = @ \ {t}], Forget(d, {t}), opening' = opening
    PROVE  StillDetached
<1>1. {t} \subseteq Tab /\ tabs'[d] \intersect {t} = {}
  BY DEF TypeOK
<1>2. waiting \union dead \subseteq
          waiting' \union dead' \union {Opening(d, x) : x \in {t}}
  BY DEF Forget
<1> QED
  BY <1>1, <1>2, ForgetKeeps

\* Closing a tab, by its user or because its session is gone.
LEMMA SafeClose ==
    ASSUME SafetyInv, TypeOK'
    PROVE  /\ \A d \in Device : \A t \in tabs[d] : UserCloses(d, t) => SafetyInv'
           /\ \A e \in exits : SessionExited(e) => SafetyInv'
<1> USE DEF SafetyInv
<1>1. ASSUME NEW d \in Device, NEW t \in tabs[d], CloseTab(d, t),
             next'.uuid = next.uuid
      PROVE  UuidsNameTabs'
  <2>1. tabs' = [tabs EXCEPT ![d] = @ \ {t}] /\ tabs'[d] \subseteq tabs[d]
    BY <1>1 DEF CloseTab, TypeOK
  <2>2. \A k \in tasks' : k \in tasks \/ (k.tabs = tabs'[d] /\ k.seen = {})
    BY <1>1, SavedTasks DEF CloseTab
  <2> QED
    BY <1>1, <2>1, <2>2, NoNewNames DEF CloseTab, fileVars, watchVars, TypeOK
<1>2. ASSUME NEW d \in Device, NEW t \in tabs[d], UserCloses(d, t) PROVE SafetyInv'
  <2>1. next'.uuid = next.uuid
    BY <1>2 DEF UserCloses, Take, TypeOK
  <2>2. UuidsNameTabs'
    BY <1>1, <1>2, <2>1 DEF UserCloses
  <2>3. ExitsOwed' /\ TabsAreBacked'
    <3>1. /\ \A c \in Device : tabs'[c] \subseteq tabs[c]
          /\ UNCHANGED <<live, opening, exits, discarded>>
          /\ ended \subseteq ended'
      BY <1>2 DEF UserCloses, CloseTab, TypeOK
    <3>3. StillDetached
      BY <1>2, OneForgotten DEF UserCloses, CloseTab
    <3>4. Over \subseteq Over'
      BY <3>1, OverGrows
    <3>2. next.uuid <= next'.uuid
      BY <2>1 DEF TypeOK
    <3> QED
      BY <3>1, <3>2, <3>3, <3>4, TabsLeft
  <2>4. KillsOwed'
    <3>1. /\ kills' = kills \union {[dev |-> d, tmux |-> t.tmux]}
          /\ ended' = ended \union {t.tmux} /\ discarded' = discarded
      BY <1>2 DEF UserCloses, CloseTab
    <3>2. Over \subseteq Over' /\ t.tmux \in Over'
      BY <3>1, OverGrows
    <3> QED
      BY <3>1, <3>2 DEF KillsOwed
  <2> QED
    BY <2>2, <2>3, <2>4
<1>3. ASSUME NEW e \in exits, SessionExited(e) PROVE SafetyInv'
  <2>1. e.dev \in Device
    BY DEF TypeOK
  <2>2. CASE e.uuid \notin UuidsIn(tabs[e.dev])
             /\ UNCHANGED <<fileVars, deviceVars, watchVars, live, named, opening,
                            waiting, dead, kills, tasks, next, history>>
    <3>1. UuidsNameTabs'
      BY <2>2, NoNewNames DEF fileVars, deviceVars, watchVars
    <3>0. Detached' = Detached /\ Over' = Over
      BY <2>2, DetachedSame, OverSame DEF history
    <3>2. ExitsOwed' /\ KillsOwed'
      BY <1>3, <2>2, <3>0 DEF SessionExited, ExitsOwed, KillsOwed, deviceVars
    <3>3. TabsAreBacked'
      <4> SUFFICES ASSUME NEW d \in Device, NEW t \in tabs[d]
                   PROVE  \/ t.tmux \in live
                          \/ Opening(d, t) \in Detached
                          \/ [dev |-> d, uuid |-> t.uuid] \in exits'
        BY <2>2, <3>0 DEF deviceVars, TabsAreBacked
      <4>1. [dev |-> d, uuid |-> t.uuid] # e
        BY <2>2 DEF UuidsIn
      <4> QED
        BY <1>3, <4>1 DEF SessionExited, TabsAreBacked
    <3> QED
      BY <3>1, <3>2, <3>3
  <2>3. ASSUME NEW t \in tabs[e.dev], t.uuid = e.uuid, CloseTab(e.dev, t),
               Take(0, 0, Spawned(e.dev), 0), UNCHANGED ended
        PROVE  SafetyInv'
    <3>1. next'.uuid = next.uuid
      BY <2>3 DEF Take, TypeOK
    <3>2. UuidsNameTabs'
      BY <1>1, <2>1, <2>3, <3>1
    <3>3. /\ tabs' = [tabs EXCEPT ![e.dev] = @ \ {t}]
          /\ \A c \in Device : tabs'[c] \subseteq tabs[c]
          /\ exits' = exits \ {e} /\ UNCHANGED <<live, opening, discarded>>
      BY <1>3, <2>3 DEF SessionExited, CloseTab, TypeOK
    <3>6. StillDetached
      BY <2>1, <2>3, <3>3, OneForgotten DEF CloseTab
    <3>7. Over' = Over
      BY <2>3, <3>3, OverSame
    <3>4. ExitsOwed' /\ KillsOwed'
      <4>1. t.tmux \in Over
        BY <2>3 DEF ExitsOwed
      <4>2. KillsOwed'
        BY <2>3, <3>7, <4>1 DEF CloseTab, KillsOwed
      <4>3. ExitsOwed'
        BY <3>1, <3>3, <3>7 DEF ExitsOwed, TypeOK
      <4> QED
        BY <4>2, <4>3
    <3>5. TabsAreBacked'
      <4> SUFFICES ASSUME NEW d \in Device, NEW u \in tabs'[d]
                   PROVE  \/ u.tmux \in live
                          \/ Opening(d, u) \in Detached'
                          \/ [dev |-> d, uuid |-> u.uuid] \in exits'
        BY <3>3 DEF TabsAreBacked
      <4>1. u \in tabs[d]
        BY <3>3
      <4>2. [dev |-> d, uuid |-> u.uuid] # e
        <5> SUFFICES ASSUME [dev |-> d, uuid |-> u.uuid] = e PROVE FALSE
          OBVIOUS
        <5>1. d = e.dev /\ u.uuid = t.uuid /\ u # t
          BY <2>1, <2>3, <3>3 DEF TypeOK
        <5>2. tabs[d] \subseteq TabsAround
          BY AroundParts
        <5> QED
          BY <4>1, <5>1, <5>2 DEF UuidsNameTabs
      <4> QED
        BY <3>3, <3>6, <4>1, <4>2 DEF TabsAreBacked, StillDetached
    <3> QED
      BY <3>2, <3>4, <3>5
  <2> QED
    BY <1>3, <2>2, <2>3 DEF SessionExited
<1> QED
  BY <1>2, <1>3

\* A step that opens new tabs and keeps some: the new ones get new uuids and
\* an attach each.
Opens(d, kept, new) ==
    /\ kept \subseteq tabs[d]
    /\ Numbered(new)
    /\ tabs' = [tabs EXCEPT ![d] = kept \union new]
    /\ opening' = opening \union {Opening(d, t) : t \in new}
    /\ \A k \in tasks' : \/ k \in tasks
                         \/ k.tabs \subseteq tabs[d] \union new /\ k.seen = {}
    /\ \A c \in Device : mail'[c] \subseteq mail[c]
    /\ UNCHANGED <<shared, live, exits>>
    /\ StillDetached
    /\ Over \subseteq Over'

LEMMA TabsOpened ==
    ASSUME SafetyInv, TypeOK', NEW d \in Device, NEW kept, NEW new,
           Opens(d, kept, new)
    PROVE  UuidsNameTabs' /\ ExitsOwed' /\ TabsAreBacked'
<1> USE DEF SafetyInv
<1>0. {Opening(d, t) : t \in new} \subseteq Detached'
  BY DEF Opens, Detached
<1>1. ExitsOwed' /\ TabsAreBacked'
  BY <1>0, TabsChanged DEF Opens
<1>2. shared'.tabs \subseteq TabsAround
  BY AroundParts DEF Opens
<1>3. \A c \in Device : tabs'[c] \subseteq TabsAround \union new
  BY AroundParts DEF Opens, TypeOK
<1>4. \A c \in Device : \A doc \in mail'[c] : doc.tabs \subseteq TabsAround
  BY AroundParts DEF Opens
<1>5. \A k \in tasks' : k.tabs \union k.seen \subseteq TabsAround \union new
  BY AroundParts DEF Opens
<1>6. UuidsNameTabs'
  BY <1>2, <1>3, <1>4, <1>5, NamesKept DEF Opens
<1> QED
  BY <1>1, <1>6

\* Users and timers.
LEMMA SafeUser ==
    ASSUME SafetyInv, TypeOK', NEW d \in Device
    PROVE  /\ NewTab(d) => SafetyInv'
           /\ TouchTabs(d) \/ FlushTimer(d) \/ DebounceOver(d) => SafetyInv'
           /\ \A t \in tabs[d] : HideTab(d, t) => SafetyInv'
           /\ \A u \in hidden[d] : RestoreHidden(d, u) => SafetyInv'
           /\ \A t \in tabs[d] : LoseChannel(d, t) \/ ReconnectDead(d, t) => SafetyInv'
<1> USE DEF SafetyInv
<1>0. next.uuid \in Nat
  BY DEF TypeOK
<1>1. ASSUME NewTab(d) PROVE SafetyInv'
  <2>0. PICK t : t = [uuid |-> next.uuid, tmux |-> next.session]
    OBVIOUS
  <2>1. /\ tabs' = [tabs EXCEPT ![d] = tabs[d] \union {t}]
        /\ opening' = opening \union {Opening(d, t)}
        /\ UNCHANGED <<shared, live, exits, kills, waiting, dead, ended, discarded, mail>>
    BY <1>1, <2>0 DEF NewTab, fileVars, watchVars, history
  <2>8. StillDetached /\ Over' = Over
    BY <2>1, DetachedGrows, OverSame
  <2>2. next'.uuid = next.uuid + 1
    BY <1>1 DEF NewTab, Take
  <2>3. tabs'[d] = tabs[d] \union {t}
    BY <2>1 DEF TypeOK
  <2>4. \A k \in tasks' : \/ k \in tasks
                          \/ k.tabs = tabs[d] \union {t} /\ k.seen = {}
    BY <1>1, <2>3, SavedTasks DEF NewTab
  <2>5. Numbered({t})
    <3>1. t \in Tab
      BY <2>3 DEF TypeOK
    <3> QED
      BY <1>0, <2>0, <2>2, <3>1 DEF Numbered
  <2>6. opening' = opening \union {Opening(d, u) : u \in {t}}
    BY <2>1
  <2>7. UuidsNameTabs' /\ ExitsOwed' /\ TabsAreBacked'
    <3>1. PICK kept, new : kept = tabs[d] /\ new = {t}
      OBVIOUS
    <3>2. Opens(d, kept, new)
      BY <2>1, <2>4, <2>5, <2>6, <2>8, <3>1 DEF Opens
    <3> QED
      BY <3>2, TabsOpened
  <2> QED
    BY <2>1, <2>7, <2>8 DEF KillsOwed
<1>2. ASSUME TouchTabs(d) \/ FlushTimer(d) \/ DebounceOver(d) PROVE SafetyInv'
  <2>1. UNCHANGED <<shared, tabs, watchVars, remoteVars, history>>
    BY <1>2 DEF TouchTabs, FlushTimer, DebounceOver, fileVars
  <2>2. next'.uuid = next.uuid
    BY <1>0, <1>2 DEF TouchTabs, FlushTimer, DebounceOver, Take
  <2>3. \A k \in tasks' : k \in tasks \/ (k.tabs = tabs[d] /\ k.seen = {})
    BY <1>2, SavedTasks DEF TouchTabs, FlushTimer, DebounceOver
  <2>4. UuidsNameTabs'
    BY <2>1, <2>2, <2>3, NoNewNames DEF watchVars
  <2>6. StillDetached /\ Over' = Over
    BY <2>1, DetachedSame, OverSame DEF remoteVars, history
  <2>5. ExitsOwed' /\ TabsAreBacked'
    BY <1>0, <2>1, <2>2, <2>6, TabsLeft DEF remoteVars
  <2> QED
    BY <2>1, <2>4, <2>5, <2>6 DEF KillsOwed, remoteVars
<1>3. ASSUME NEW t \in tabs[d], HideTab(d, t) PROVE SafetyInv'
  <2>1. /\ UNCHANGED <<shared, watchVars, live, opening, exits, kills, ended,
                       discarded>>
        /\ \A c \in Device : tabs'[c] \subseteq tabs[c]
    BY <1>3 DEF HideTab, fileVars, TypeOK
  <2>6. StillDetached /\ Over' = Over
    BY <1>3, <2>1, OneForgotten, OverSame DEF HideTab
  <2>2. next'.uuid = next.uuid
    BY <1>0, <1>3 DEF HideTab, Take
  <2>3. \A k \in tasks' : k \in tasks \/ (k.tabs = tabs'[d] /\ k.seen = {})
    BY <1>3, SavedTasks DEF HideTab
  <2>4. UuidsNameTabs'
    BY <2>1, <2>2, <2>3, NoNewNames DEF watchVars
  <2>5. ExitsOwed' /\ TabsAreBacked'
    BY <1>0, <2>1, <2>2, <2>6, TabsLeft
  <2> QED
    BY <2>1, <2>4, <2>5, <2>6 DEF KillsOwed
<1>4. ASSUME NEW u \in hidden[d], RestoreHidden(d, u) PROVE SafetyInv'
  <2>1. UNCHANGED <<shared, watchVars, live, exits, kills, waiting, dead, ended,
                    discarded>>
    BY <1>4 DEF RestoreHidden, fileVars, history
  <2>5. Over' = Over
    BY <2>1, OverSame
  <2>2. KillsOwed'
    BY <2>1, <2>5 DEF KillsOwed
  <2>3. CASE u \notin UuidsIn(cache[d].tabs) /\ SaveState(d, tabs[d], hidden'[d])
             /\ Take(0, 0, SaveSpawned(d), 1) /\ UNCHANGED <<tabs, opening>>
    <3>1. next'.uuid = next.uuid
      BY <1>0, <2>3 DEF Take
    <3>2. \A k \in tasks' : k \in tasks \/ (k.tabs = tabs[d] /\ k.seen = {})
      BY <2>3, SavedTasks
    <3>3. UuidsNameTabs'
      BY <2>1, <2>3, <3>1, <3>2, NoNewNames DEF watchVars
    <3>4. ExitsOwed' /\ TabsAreBacked'
      BY <1>0, <2>1, <2>3, <2>5, <3>1, TabsLeft, DetachedSame
    <3> QED
      BY <2>2, <3>3, <3>4
  <2>4. ASSUME NEW saved \in cache[d].tabs, NEW t,
               t = [uuid |-> next.uuid, tmux |-> saved.tmux],
               tabs' = [tabs EXCEPT ![d] = @ \union {t}],
               opening' = opening \union {Opening(d, t)},
               IF recent[d] THEN UNCHANGED <<recent, cache, tasks>>
               ELSE /\ recent' = [recent EXCEPT ![d] = TRUE]
                    /\ cache' = [cache EXCEPT ![d].tabs = tabs[d]]
                    /\ tasks' = tasks \union SpawnedTasks(d, tabs[d], hidden'[d]),
               Take(1, 0, SaveSpawned(d), 1)
        PROVE  SafetyInv'
    <3>1. next'.uuid = next.uuid + 1
      BY <2>4 DEF Take
    <3>2. \A k \in tasks' : k \in tasks \/ (k.tabs = tabs[d] /\ k.seen = {})
      BY <2>4 DEF SpawnedTasks, FlushTask
    <3>3. Numbered({t})
      <4>1. t \in Tab
        BY <2>4 DEF TypeOK
      <4> QED
        BY <1>0, <2>4, <3>1, <4>1 DEF Numbered
    <3>4. opening' = opening \union {Opening(d, x) : x \in {t}}
      BY <2>4
    <3>5. tabs' = [tabs EXCEPT ![d] = tabs[d] \union {t}]
      BY <2>4
    <3>7. StillDetached
      BY <2>1, <2>4, DetachedGrows
    <3>6. UuidsNameTabs' /\ ExitsOwed' /\ TabsAreBacked'
      <4>1. PICK kept, new : kept = tabs[d] /\ new = {t}
        OBVIOUS
      <4>2. Opens(d, kept, new)
        BY <2>1, <2>5, <3>2, <3>3, <3>4, <3>5, <3>7, <4>1 DEF Opens, watchVars
      <4> QED
        BY <4>2, TabsOpened
    <3> QED
      BY <2>2, <3>6
  <2> QED
    BY <1>4, <2>3, <2>4 DEF RestoreHidden
<1>5. ASSUME NEW t \in tabs[d], LoseChannel(d, t) \/ ReconnectDead(d, t)
      PROVE  SafetyInv'
  <2>1. /\ UNCHANGED <<shared, tabs, mail, live, exits, kills, tasks, ended, discarded>>
        /\ waiting' = waiting /\ opening \union dead \subseteq opening' \union dead'
    BY <1>5 DEF LoseChannel, ReconnectDead, fileVars, deviceVars, watchVars, history
  <2>2. next'.uuid = next.uuid
    BY <1>0, <1>5 DEF LoseChannel, ReconnectDead, Take
  <2>3. UuidsNameTabs'
    BY <2>1, <2>2, NoNewNames
  <2>4. Over' = Over
    BY <2>1, OverSame
  <2>5. Detached \subseteq Detached'
    BY <2>1 DEF Detached
  <2>6. ExitsOwed' /\ TabsAreBacked'
    BY <2>1, <2>2, <2>4, <2>5 DEF ExitsOwed, TabsAreBacked
  <2> QED
    BY <2>1, <2>3, <2>4, <2>6 DEF KillsOwed
<1> QED
  BY <1>1, <1>2, <1>3, <1>4, <1>5

\* Connecting, disconnecting, crashing, and what the watcher brings.
LEMMA SafeConnection ==
    ASSUME SafetyInv, TypeOK', NEW d \in Device
    PROVE  /\ Connect(d) \/ ConnectList(d) \/ ConnectRead(d) \/ ConnectFails(d)
                \/ ConnectDiscarded(d) => SafetyInv'
           /\ Disconnect(d) => SafetyInv'
           /\ Crash(d) => SafetyInv'
           /\ WatchEmit(d) => SafetyInv'
<1> USE DEF SafetyInv
<1>0. next.uuid \in Nat
  BY DEF TypeOK
<1>1. ASSUME Connect(d) \/ ConnectList(d) \/ ConnectRead(d) \/ ConnectFails(d)
                \/ ConnectDiscarded(d)
      PROVE  SafetyInv'
  <2>1. UNCHANGED <<shared, tabs, watchVars, remoteVars, tasks, history>>
    BY <1>1 DEF Connect, ConnectList, ConnectRead, ConnectFails, ConnectDiscarded,
                fileVars
  <2>2. next'.uuid = next.uuid
    BY <1>0, <1>1 DEF Connect, ConnectList, ConnectRead, ConnectFails,
                      ConnectDiscarded, Take
  <2>3. UuidsNameTabs'
    BY <2>1, <2>2, NoNewNames DEF watchVars
  <2>4. ExitsOwed' /\ TabsAreBacked'
    BY <1>0, <2>1, <2>2, TabsLeft, DetachedSame, OverSame DEF remoteVars, history
  <2>5. Over' = Over
    BY <2>1, OverSame DEF history
  <2> QED
    BY <2>1, <2>3, <2>4, <2>5 DEF KillsOwed, remoteVars
<1>2. ASSUME Disconnect(d) PROVE SafetyInv'
  <2>1. /\ UNCHANGED <<shared, live, opening, exits, kills, tasks, ended, discarded>>
        /\ \A c \in Device : tabs'[c] \subseteq tabs[c]
        /\ \A c \in Device : mail'[c] \subseteq mail[c]
    BY <1>2 DEF Disconnect, fileVars, TypeOK
  <2>2. next'.uuid = next.uuid
    BY <1>0, <1>2 DEF Disconnect, Take
  <2>3. UuidsNameTabs'
    BY <2>1, <2>2, NoNewNames
  <2>4. ExitsOwed' /\ TabsAreBacked'
    <3>1. StillDetached
      <4>1. tabs[d] \subseteq Tab /\ tabs'[d] \intersect tabs[d] = {}
        BY <1>2 DEF Disconnect, TypeOK
      <4>2. waiting \union dead \subseteq
                waiting' \union dead' \union {Opening(d, t) : t \in tabs[d]}
        BY <1>2 DEF Disconnect, Forget
      <4> QED
        BY <2>1, <4>1, <4>2, ForgetKeeps
    <3> QED
      BY <1>0, <2>1, <2>2, <3>1, TabsLeft, OverSame
  <2>5. Over' = Over
    BY <2>1, OverSame
  <2> QED
    BY <2>1, <2>3, <2>4, <2>5 DEF KillsOwed
<1>3. ASSUME Crash(d) PROVE SafetyInv'
  <2>1. /\ UNCHANGED <<shared, live, ended, discarded>>
        /\ tabs' = [tabs EXCEPT ![d] = {}]
        /\ \A c \in Device : mail'[c] \subseteq mail[c]
        /\ tasks' \subseteq tasks /\ kills' \subseteq kills /\ exits' \subseteq exits
    BY <1>3 DEF Crash, fileVars, TypeOK
  <2>2. next'.uuid = next.uuid
    BY <1>0, <1>3 DEF Crash, Take
  <2>3. tabs'[d] = {} /\ \A c \in Device : c # d => tabs'[c] = tabs[c]
    BY <2>1 DEF TypeOK
  <2>4. UuidsNameTabs'
    BY <2>1, <2>2, <2>3, NoNewNames
  <2>5. ExitsOwed' /\ KillsOwed'
    <3>1. \A e \in exits' : e \in exits /\ e.dev \in Device
      BY <2>1 DEF TypeOK
    <3>2. \A c \in Device : tabs'[c] \subseteq tabs[c]
      BY <2>3
    <3>3. Over' = Over
      BY <2>1, OverSame
    <3> QED
      BY <2>1, <2>2, <3>1, <3>2, <3>3 DEF ExitsOwed, KillsOwed
  <2>6. TabsAreBacked'
    <3> SUFFICES ASSUME NEW c \in Device, NEW t \in tabs'[c]
                 PROVE  \/ t.tmux \in live
                        \/ Opening(c, t) \in Detached'
                        \/ [dev |-> c, uuid |-> t.uuid] \in exits'
      BY <2>1 DEF TabsAreBacked
    <3>1. c # d /\ t \in tabs[c]
      BY <2>3
    <3>2. Opening(c, t) \in Detached => Opening(c, t) \in Detached'
      BY <1>3, <3>1 DEF Crash, Detached, Opening
    <3>3. [dev |-> c, uuid |-> t.uuid] \in exits
            => [dev |-> c, uuid |-> t.uuid] \in exits'
      BY <1>3, <3>1 DEF Crash
    <3> QED
      BY <3>1, <3>2, <3>3 DEF TabsAreBacked
  <2> QED
    BY <2>4, <2>5, <2>6
<1>4. ASSUME WatchEmit(d) PROVE SafetyInv'
  <2>1. /\ UNCHANGED <<shared, deviceVars, remoteVars, tasks, next, history>>
        /\ \A c \in Device : mail'[c] \subseteq mail[c] \union {shared}
    BY <1>4 DEF WatchEmit, fileVars, TypeOK
  <2>2. UuidsNameTabs'
    BY <2>1, NoNewNames DEF deviceVars
  <2>3. Detached' = Detached /\ Over' = Over
    BY <2>1, DetachedSame, OverSame DEF remoteVars, history
  <2> QED
    BY <2>1, <2>2, <2>3
    DEF deviceVars, remoteVars, ExitsOwed, KillsOwed, TabsAreBacked
<1> QED
  BY <1>1, <1>2, <1>3, <1>4

\* A document of another device, and the result of a connection attempt.
LEMMA SafeRestore ==
    ASSUME SafetyInv, TypeOK', NEW d \in Device
    PROVE  /\ RemoteStateChanged(d) => SafetyInv'
           /\ ServerConnected(d) => SafetyInv'
<1> USE DEF SafetyInv
<1>1. ASSUME RemoteStateChanged(d) PROVE SafetyInv'
  <2>1. PICK doc \in mail[d] :
           /\ mail' = [mail EXCEPT ![d] = {}]
           /\ \/ /\ doc.ver = cache[d].ver
                 /\ UNCHANGED <<tabs, cache, dirty, recent, tasks, opening, next>>
              \/ AdoptRemote(d, doc)
    BY <1>1 DEF RemoteStateChanged
  <2>2. /\ \A c \in Device : mail'[c] \subseteq mail[c]
        /\ UNCHANGED <<shared, live, exits, kills, waiting, dead, ended, discarded>>
    BY <1>1, <2>1 DEF RemoteStateChanged, fileVars, history, TypeOK
  <2>4. Over' = Over
    BY <2>2, OverSame
  <2>3. UuidsNameTabs' /\ ExitsOwed' /\ TabsAreBacked'
    <3>1. CASE UNCHANGED <<tabs, cache, dirty, recent, tasks, opening, next>>
      <4>1. UuidsNameTabs'
        BY <2>2, <3>1, NoNewNames
      <4> QED
        BY <2>2, <2>4, <3>1, <4>1, DetachedSame DEF ExitsOwed, TabsAreBacked
    <3>2. CASE AdoptRemote(d, doc)
      <4>1. PICK new :
               /\ Numbered(new)
               /\ tabs' = [tabs EXCEPT ![d] = @ \union new]
               /\ opening' = opening \union {Opening(d, t) : t \in new}
               /\ \A k \in tasks' : \/ k \in tasks
                                    \/ k.tabs \subseteq tabs[d] \union new
                                       /\ k.seen = {}
        BY <3>2, AdoptFacts
      <4>2. PICK kept : kept = tabs[d]
        OBVIOUS
      <4>3. Opens(d, kept, new)
        BY <2>2, <2>4, <4>1, <4>2, DetachedGrows DEF Opens
      <4> QED
        BY <4>3, TabsOpened
    <3> QED
      BY <2>1, <3>1, <3>2
  <2> QED
    BY <2>2, <2>3, <2>4 DEF KillsOwed
<1>2. ASSUME ServerConnected(d) PROVE SafetyInv'
  <2>1. PICK kept, new :
           /\ kept \subseteq tabs[d]
           /\ Numbered(new)
           /\ tabs' = [tabs EXCEPT ![d] = kept \union new]
           /\ opening' = opening \union {Opening(d, t) : t \in new}
           /\ kills' = kills \union {[dev |-> d, tmux |-> t.tmux] : t \in tabs[d] \ kept}
           /\ StillDetached
           /\ discarded' = [discarded EXCEPT ![d] =
                               @ \union SessionsIn(tabs[d] \ kept)]
           /\ \A k \in tasks' : \/ k \in tasks
                                \/ k.tabs \subseteq kept \union new /\ k.seen = {}
    BY <1>2, ReconcileFacts
  <2>2. /\ \A c \in Device : mail'[c] \subseteq mail[c]
        /\ UNCHANGED <<shared, live, exits, ended>>
    BY <1>2 DEF ServerConnected, fileVars, TypeOK
  <2>3. \A k \in tasks' : \/ k \in tasks
                          \/ k.tabs \subseteq tabs[d] \union new /\ k.seen = {}
    BY <2>1
  <2>6. Over \subseteq Over' /\ SessionsIn(tabs[d] \ kept) \subseteq Over'
    <3>1. /\ \A c \in Device : discarded[c] \subseteq discarded'[c]
          /\ SessionsIn(tabs[d] \ kept) \subseteq discarded'[d]
      BY <2>1 DEF TypeOK
    <3> QED
      BY <2>2, <3>1 DEF Over, Discarded
  <2>4. Opens(d, kept, new)
    BY <2>1, <2>2, <2>3, <2>6 DEF Opens
  <2>5. KillsOwed'
    <3> SUFFICES ASSUME NEW k \in kills' PROVE k.tmux \in Over'
      BY DEF KillsOwed
    <3>1. CASE k \in kills
      BY <2>6, <3>1 DEF KillsOwed
    <3>2. CASE k \notin kills
      <4>1. PICK t \in tabs[d] \ kept : k = [dev |-> d, tmux |-> t.tmux]
        BY <2>1, <3>2
      <4> QED
        BY <2>6, <4>1 DEF SessionsIn
    <3> QED
      BY <3>1, <3>2
  <2> QED
    BY <2>4, <2>5, TabsOpened
<1> QED
  BY <1>1, <1>2

LEMMA SafetyStep == SafetyInv /\ [Next]_vars => SafetyInv'
<1> SUFFICES ASSUME SafetyInv, [Next]_vars PROVE SafetyInv'
  OBVIOUS
<1>0. TypeOK'
  BY TypeStep DEF SafetyInv
<1>1. CASE ServerStep
  BY <1>0, <1>1, SafeFlush, SafeSessions, SafeClose DEF ServerStep
<1>2. ASSUME NEW d \in Device, DeviceStep(d) PROVE SafetyInv'
  BY <1>0, <1>2, SafeUser, SafeClose, SafeConnection, SafeRestore DEF DeviceStep
<1>3. CASE UNCHANGED vars
  <2>1. UuidsNameTabs'
    BY <1>3, NoNewNames DEF vars, fileVars, deviceVars, watchVars
  <2>2. Detached' = Detached /\ Over' = Over
    BY <1>3, DetachedSame, OverSame DEF vars, remoteVars, history
  <2> QED
    BY <1>0, <1>3, <2>1, <2>2
    DEF vars, deviceVars, remoteVars, SafetyInv, ExitsOwed, KillsOwed, TabsAreBacked
<1> QED
  BY <1>1, <1>2, <1>3 DEF Next

(***************************************************************************)
(* A tab that looks alive always stands for something, whatever closes,    *)
(* kills, shells that exit, failing attaches, lost channels and restores   *)
(* interleave: its session runs, or it is attached or waits for a retry,   *)
(* or the message that closes it is underway; else it is shown dead.       *)
(***************************************************************************)
THEOREM TabsBacked == Spec => []TabsAreBacked
<1>1. SafetyInv => TabsAreBacked
  BY DEF SafetyInv
<1> QED
  BY <1>1, SafetyInit, SafetyStep, PTL DEF Spec

(***************************************************************************)
(* Every step is one that SessionLife allows, or leaves the sessions and   *)
(* what users ended and devices discarded alone.                           *)
(***************************************************************************)
Lives == <<live, ended, Discarded>>

LEMMA SessionStep ==
    SafetyInv /\ [Next]_vars => [Sessions!Next]_Lives
<1> SUFFICES ASSUME SafetyInv, [Next]_vars
             PROVE  Sessions!Next \/ UNCHANGED Lives
  BY DEF Sessions!Next
<1> USE DEF SafetyInv
<1>0. discarded' = discarded => Discarded' = Discarded
  BY DEF Discarded
<1>1. \A ss \in SUBSET Session :
        Sessions!UserEnds(ss) \/ Sessions!Discard(ss) => Sessions!Next
  BY DEF Sessions!Next
<1>2. \A s \in Session : Sessions!Start(s) \/ Sessions!Stop(s) => Sessions!Next
  BY DEF Sessions!Next
<1>3. ASSUME NEW k \in tasks, FlushStep(k) PROVE UNCHANGED Lives
  BY <1>0, <1>3
  DEF FlushStep, FlushRead, FlushReadFails, FlushMerge, FlushMergeSkipped,
      FlushListFails, FlushWrite, FlushWriteFails, FlushDevice, FlushDeviceFails,
      remoteVars, history, Lives
<1>4. ASSUME NEW o \in opening, AttachTab(o) \/ AttachFails(o)
      PROVE  Sessions!Next \/ UNCHANGED Lives
  <2>1. o.tmux \in Session
    BY DEF TypeOK, Channel
  <2>2. Sessions!Start(o.tmux) \/ UNCHANGED Lives
    BY <1>0, <1>4 DEF AttachTab, AttachFails, history, Sessions!Start, Lives
  <2> QED
    BY <1>2, <2>1, <2>2
<1>5. ASSUME NEW k \in kills, ExecuteKill(k) \/ KillFails(k)
      PROVE  Sessions!Next \/ UNCHANGED Lives
  <2>1. k.tmux \in Session /\ k.tmux \in ended \union Discarded
    BY DEF TypeOK, KillsOwed, Over
  <2>2. Sessions!Stop(k.tmux) \/ UNCHANGED Lives
    BY <1>0, <1>5, <2>1
    DEF ExecuteKill, KillFails, EndSession, history, Sessions!Stop, Lives
  <2> QED
    BY <1>2, <2>1, <2>2
<1>6. ASSUME NEW s \in live, ShellExit(s) PROVE Sessions!Next
  <2>1. s \in Session
    BY DEF TypeOK
  <2>2. Sessions!UserEnds({s})
    BY <1>0, <1>6 DEF ShellExit, EndSession, Sessions!UserEnds
  <2> QED
    BY <1>1, <2>1, <2>2
<1>7. ASSUME NEW e \in exits, SessionExited(e) PROVE UNCHANGED Lives
  BY <1>0, <1>7 DEF SessionExited, CloseTab, history, Lives
<1>8. ASSUME NEW d \in Device, NEW t \in tabs[d], UserCloses(d, t)
      PROVE  Sessions!Next
  <2>1. t.tmux \in Session
    BY DEF TypeOK, Tab
  <2>2. Sessions!UserEnds({t.tmux})
    BY <1>0, <1>8 DEF UserCloses, CloseTab, Sessions!UserEnds
  <2> QED
    BY <1>1, <2>1, <2>2
<1>9. ASSUME NEW d \in Device, ServerConnected(d) PROVE Sessions!Next
  <2>1. PICK restored : Reconcile(d, pending[d], restored)
    BY <1>9 DEF ServerConnected
  <2> DEFINE ss == SessionsIn(tabs[d] \ KeptTabs(d, pending[d], restored))
  <2>2. discarded' = [discarded EXCEPT ![d] = @ \union ss]
    BY <2>1, Zenon DEF Reconcile
  <2>3. ss \subseteq Session
    BY DEF TypeOK, Tab, SessionsIn
  <2> HIDE DEF ss
  <2>4. Discarded' = Discarded \union ss
    <3>1. discarded'[d] = discarded[d] \union ss
      BY <2>2 DEF TypeOK
    <3>2. \A c \in Device : c # d => discarded'[c] = discarded[c]
      BY <2>2 DEF TypeOK
    <3> QED
      BY <3>1, <3>2 DEF Discarded
  <2>5. Sessions!Discard(ss)
    BY <1>9, <2>4 DEF ServerConnected, Sessions!Discard
  <2> QED
    BY <1>1, <2>3, <2>5
<1>10. ASSUME NEW d \in Device,
              \/ Connect(d) \/ ConnectList(d) \/ ConnectRead(d) \/ ConnectFails(d)
              \/ ConnectDiscarded(d) \/ Disconnect(d) \/ Crash(d)
              \/ TouchTabs(d) \/ FlushTimer(d) \/ DebounceOver(d) \/ WatchEmit(d)
              \/ NewTab(d) \/ RemoteStateChanged(d)
              \/ \E t \in tabs[d] : HideTab(d, t) \/ LoseChannel(d, t)
                                      \/ ReconnectDead(d, t)
              \/ \E u \in hidden[d] : RestoreHidden(d, u)
       PROVE  UNCHANGED Lives
  <2>1. UNCHANGED <<live, ended, discarded>>
    BY <1>10
    DEF Connect, ConnectList, ConnectRead, ConnectFails, ConnectDiscarded, Disconnect,
        Crash, TouchTabs, FlushTimer, DebounceOver, WatchEmit, NewTab,
        RemoteStateChanged, HideTab, LoseChannel, ReconnectDead, RestoreHidden,
        remoteVars, history
  <2> QED
    BY <1>0, <2>1 DEF Lives
<1>14. ASSUME NEW o \in waiting, RetryAttach(o) PROVE UNCHANGED Lives
  BY <1>0, <1>14 DEF RetryAttach, history, Lives
<1>11. CASE ServerStep
  BY <1>3, <1>4, <1>5, <1>6, <1>7, <1>11, <1>14 DEF ServerStep
<1>12. ASSUME NEW d \in Device, DeviceStep(d)
       PROVE  Sessions!Next \/ UNCHANGED Lives
  BY <1>8, <1>9, <1>10, <1>12 DEF DeviceStep
<1>13. CASE UNCHANGED vars
  BY <1>0, <1>13 DEF vars, remoteVars, history, Lives
<1> QED
  BY <1>11, <1>12, <1>13 DEF Next

(***************************************************************************)
(* Sessions end only when a user ends them, or when connecting removes     *)
(* their tab as a placeholder: no interleaving of flushes, merges, failing *)
(* attaches, lost channels, hiding and crashes ends another.               *)
(***************************************************************************)
THEOREM SessionsKept == Spec => OnlyUsersOrDiscardsEndSessions
<1>1. Init => Sessions!Init
  BY DEF Init, Sessions!Init, Discarded
<1> QED
  BY <1>1, SafetyInit, SafetyStep, SessionStep, PTL
  DEF Spec, OnlyUsersOrDiscardsEndSessions, Sessions!Spec, Lives

-----------------------------------------------------------------------------
(***************************************************************************)
(* Why comparing versions is enough: a device that finds the version it    *)
(* knows in shared.json may overwrite the file without a merge, for any    *)
(* devices, bounds, user operations and failing calls of StateSync.        *)
(***************************************************************************)
(***************************************************************************)
(* The inductive invariant.                                                *)
(***************************************************************************)
\* The versions device d may compare the file with: the cached one, and the one
\* each of its flushes has taken from the cache.
Bases(d) == {cache[d].ver} \union {k.base : k \in {m \in tasks : m.dev = d}}

\* A version is new as long as the flush that carries it has not written it.
Unwritten(k) == k.phase \in {"read", "list", "write"}

VersionsOK ==
    /\ \A doc \in DocsInUse : doc.ver < next.ver /\ (doc.ver = 0 => doc.tabs = {})
    /\ \A d \in Device : \A v \in Bases(d) : v < next.ver
    /\ \A k \in tasks : 0 < k.ver /\ k.ver < next.ver
    /\ \A k, m \in tasks : k.ver = m.ver => k = m
    /\ \A k \in tasks : Unwritten(k) =>
          /\ \A doc \in DocsInUse : doc.ver # k.ver
          /\ \A d \in Device : k.ver \notin Bases(d)

\* Tabs a device put away, and those a connection attempt has read of.
Remembered == UNION {putaway[d] \union pending[d].shared.tabs : d \in Device}

\* The uuid of a remembered tab is handed to no other tab.
RememberedByUuid ==
    /\ \A t \in Remembered : t.uuid < next.uuid
    /\ \A t \in Remembered : \A u \in TabsAround \union Remembered :
          t.uuid = u.uuid => t = u

\* The uuids device d may take for hidden, now or from what it has written.
HiddenBy(d) ==
    hidden[d] \union devfile[d].hidden \union pending[d].file.hidden
      \union UNION {k.hid : k \in {m \in tasks : m.dev = d}}

\* What is taken for hidden is a tab the user put away.
HiddenPutAway == \A d \in Device : HiddenBy(d) \subseteq UuidsIn(putaway[d])

\* The sessions device d accounts for, or whose tab it removed as a placeholder;
\* and also those it took the file over with although it had not listed them.
Explained(d) == Accounted(d) \union discarded[d]

Known(d) == Accounted(d) \union missed[d] \union discarded[d]

\* A device knows every session of a document whose version it knows.
BasesAccounted ==
    \A d \in Device : \A doc \in DocsInUse :
        doc.ver # 0 /\ doc.ver \in Bases(d) => SessionsIn(doc.tabs) \subseteq Known(d)

OverwriteInv ==
    /\ SafetyInv
    /\ VersionsOK
    /\ VersionsNameContent
    /\ RememberedByUuid
    /\ HiddenPutAway
    /\ BasesAccounted
    /\ FoundSessionsStayOpen
(***************************************************************************)
(* What a device's own step may do.  It opens the tabs new, spawns tasks,  *)
(* and learns of versions only from documents whose sessions it knows from *)
(* then on.                                                                *)
(***************************************************************************)
Learnt(d) ==
    {0} \union {doc.ver : doc \in {x \in DocsInUse : SessionsIn(x.tabs) \subseteq Known(d)'}}

NewTasks == tasks' \ tasks

SpawnsWell(d, new) ==
    /\ next.ver <= next'.ver
    /\ \A k \in NewTasks :
          /\ k.dev = d
          /\ next.ver <= k.ver /\ k.ver < next'.ver
          /\ k.base \in Bases(d) \union Learnt(d)
          /\ k.seen = {} /\ k.tabs \subseteq tabs[d] \union new
          /\ k.hid \subseteq HiddenBy(d) \union UuidsIn(putaway'[d])
    /\ \A k, m \in NewTasks : k.ver = m.ver => k = m

Unmoved(c) ==
    /\ conn'[c] = conn[c] /\ pending'[c] = pending[c] /\ tabs'[c] = tabs[c]
    /\ hidden'[c] = hidden[c] /\ cache'[c] = cache[c] /\ mail'[c] = mail[c]
    /\ putaway'[c] = putaway[c] /\ found'[c] = found[c]
    /\ missed'[c] = missed[c] /\ discarded'[c] = discarded[c]

OwnStep(d, new) ==
    /\ UNCHANGED <<shared, devfile>>
    /\ Numbered(new)
    /\ SpawnsWell(d, new)
    /\ tabs'[d] \subseteq tabs[d] \union new
    /\ SessionsIn(tabs[d]) \subseteq Explained(d)'
    /\ putaway[d] \subseteq putaway'[d]
    /\ putaway'[d] \subseteq putaway[d] \union tabs[d]
    /\ missed[d] \subseteq missed'[d] /\ discarded[d] \subseteq discarded'[d]
    /\ hidden'[d] \subseteq HiddenBy(d) \union UuidsIn(putaway'[d])
    /\ pending'[d].shared \in {NoDoc, shared, pending[d].shared}
    /\ pending'[d].file.hidden \subseteq HiddenBy(d)
    /\ cache'[d].ver \in Bases(d) \union Learnt(d)
    /\ mail'[d] \subseteq mail[d] \union {shared}
    /\ conn'[d] = "on" => found'[d] \subseteq Explained(d)'
    /\ \A c \in Device \ {d} : Unmoved(c)

LEMMA OverwriteInit == Init => OverwriteInv
<1> SUFFICES ASSUME Init PROVE OverwriteInv
  OBVIOUS
<1>1. SafetyInv
  BY SafetyInit
<1>2. \A doc \in DocsInUse : doc = NoDoc
  BY DEF Init, DocsInUse, NoAttempt
<1>3. \A d \in Device : Bases(d) = {0}
  BY DEF Init, Bases, NoDoc
<1>4. Remembered = {}
  BY DEF Init, Remembered, NoAttempt, NoDoc
<1>5. \A d \in Device : HiddenBy(d) = {}
  BY DEF Init, HiddenBy, NoAttempt, NoFile
<1>6. VersionsOK
  BY <1>2, <1>3 DEF Init, VersionsOK, NoDoc
<1>7. VersionsNameContent /\ BasesAccounted
  BY <1>2, <1>3 DEF VersionsNameContent, BasesAccounted, NoDoc
<1>8. RememberedByUuid /\ HiddenPutAway
  BY <1>4, <1>5 DEF RememberedByUuid, HiddenPutAway
<1>9. FoundSessionsStayOpen
  BY DEF Init, FoundSessionsStayOpen
<1> QED
  BY <1>1, <1>6, <1>7, <1>8, <1>9 DEF OverwriteInv

(***************************************************************************)
(* Such a step keeps the invariant, part by part.                          *)
(***************************************************************************)
\* No document comes into use but the empty one.
LEMMA OwnDocs ==
    ASSUME NEW d \in Device, NEW new, OwnStep(d, new)
    PROVE  DocsInUse' \subseteq DocsInUse \union {NoDoc}
<1>1. shared' = shared
  BY DEF OwnStep
<1>2. \A c \in Device : mail'[c] \subseteq mail[c] \union {shared}
  BY DEF OwnStep, Unmoved
<1>3. \A c \in Device : pending'[c].shared \in {NoDoc, shared, pending[c].shared}
  BY DEF OwnStep, Unmoved
<1>4. ASSUME NEW doc \in DocsInUse' PROVE doc \in DocsInUse \union {NoDoc}
  <2>1. \/ doc = shared'
        \/ \E c \in Device : doc \in mail'[c]
        \/ \E c \in Device : doc = pending'[c].shared
    BY DEF DocsInUse
  <2> QED
    BY <1>1, <1>2, <1>3, <2>1 DEF DocsInUse
<1> QED
  BY <1>4

\* A device knows no version but the old ones and those it learns.
LEMMA OwnBases ==
    ASSUME NEW d \in Device, NEW new, OwnStep(d, new)
    PROVE  /\ Bases(d)' \subseteq Bases(d) \union Learnt(d)
           /\ \A c \in Device \ {d} : Bases(c)' \subseteq Bases(c)
<1>1. ASSUME NEW v \in Bases(d)' PROVE v \in Bases(d) \union Learnt(d)
  <2>1. CASE v = cache'[d].ver
    BY <2>1 DEF OwnStep
  <2>2. ASSUME NEW k \in tasks', k.dev = d, v = k.base
        PROVE  v \in Bases(d) \union Learnt(d)
    <3>1. CASE k \in tasks
      BY <2>2, <3>1 DEF Bases
    <3>2. CASE k \in NewTasks
      BY <2>2, <3>2 DEF OwnStep, SpawnsWell
    <3> QED
      BY <3>1, <3>2 DEF NewTasks
  <2> QED
    BY <2>1, <2>2 DEF Bases
<1>2. ASSUME NEW c \in Device \ {d}, NEW v \in Bases(c)' PROVE v \in Bases(c)
  <2>1. CASE v = cache'[c].ver
    BY <2>1 DEF OwnStep, Unmoved, Bases
  <2>2. ASSUME NEW k \in tasks', k.dev = c, v = k.base
        PROVE  v \in Bases(c)
    <3>1. k \in tasks
      BY <2>2 DEF OwnStep, SpawnsWell, NewTasks
    <3> QED
      BY <2>2, <3>1 DEF Bases
  <2> QED
    BY <2>1, <2>2 DEF Bases
<1> QED
  BY <1>1, <1>2

LEMMA OwnVersions ==
    ASSUME OverwriteInv, TypeOK', NEW d \in Device, NEW new, OwnStep(d, new)
    PROVE  VersionsOK' /\ VersionsNameContent'
<1> USE DEF OverwriteInv, SafetyInv
<1>1. next.ver \in Nat \ {0} /\ next'.ver \in Nat /\ next.ver <= next'.ver
  BY DEF TypeOK, OwnStep, SpawnsWell
<1>2. \A doc \in DocsInUse : doc.ver \in Nat
  BY DEF DocsInUse, TypeOK, Attempt, Doc, Version
<1>3. \A k \in tasks : k.ver \in Nat /\ k.base \in Nat /\ k.dev \in Device
  BY DEF TypeOK, Task, Version
<1>4. \A k \in tasks' : k.ver \in Nat
  BY DEF TypeOK, Task, Version
<1>5. \A c \in Device : \A v \in Bases(c) : v \in Nat
  BY <1>3 DEF Bases, TypeOK, Doc, Version
<1>6. \A doc \in DocsInUse' : doc \in DocsInUse \/ doc = NoDoc
  BY OwnDocs
<1>7. NoDoc.ver = 0 /\ NoDoc.tabs = {}
  BY DEF NoDoc
<1>8. \A c \in Device : \A v \in Bases(c)' :
          v \in Bases(c) \/ v = 0 \/ \E doc \in DocsInUse : v = doc.ver
  BY OwnBases DEF Learnt
<1>9. \A k \in tasks' : \/ k \in tasks
                        \/ k \in NewTasks /\ next.ver <= k.ver /\ k.ver < next'.ver
  BY DEF OwnStep, SpawnsWell, NewTasks
<1>10. \A k, m \in NewTasks : k.ver = m.ver => k = m
  BY DEF OwnStep, SpawnsWell
<1>11. \A doc \in DocsInUse' : doc.ver < next'.ver /\ (doc.ver = 0 => doc.tabs = {})
  BY <1>1, <1>2, <1>6, <1>7 DEF VersionsOK
<1>12. \A c \in Device : \A v \in Bases(c)' : v < next.ver
  BY <1>1, <1>8 DEF VersionsOK
<1>13. \A c \in Device : \A v \in Bases(c)' : v < next'.ver
  BY <1>1, <1>5, <1>8, <1>12, <1>2
<1>14. \A k \in tasks' : 0 < k.ver /\ k.ver < next'.ver
  BY <1>1, <1>3, <1>4, <1>9 DEF VersionsOK
<1>15. \A k, m \in tasks' : k.ver = m.ver => k = m
  BY <1>1, <1>3, <1>4, <1>9, <1>10 DEF VersionsOK
<1>16. ASSUME NEW k \in tasks', Unwritten(k)
       PROVE  /\ \A doc \in DocsInUse' : doc.ver # k.ver
              /\ \A c \in Device : k.ver \notin Bases(c)'
  <2>1. CASE k \in tasks
    BY <1>6, <1>7, <1>8, <1>16, <2>1 DEF VersionsOK
  <2>2. CASE next.ver <= k.ver
    <3>1. \A doc \in DocsInUse' : doc.ver < next.ver /\ doc.ver \in Nat
      BY <1>1, <1>2, <1>6, <1>7 DEF VersionsOK
    <3> QED
      BY <1>1, <1>2, <1>4, <1>5, <1>8, <1>12, <2>2, <3>1
  <2> QED
    BY <1>9, <2>1, <2>2
<1>17. VersionsOK'
  BY <1>11, <1>13, <1>14, <1>15, <1>16 DEF VersionsOK, Unwritten
<1>18. VersionsNameContent'
  BY <1>6, <1>7 DEF VersionsOK, VersionsNameContent
<1> QED
  BY <1>17, <1>18
\* Remembered tabs keep their uuids to themselves while no other tab takes one.
LEMMA NamesRemembered ==
    ASSUME UuidsNameTabs, RememberedByUuid, NEW new, Numbered(new), TypeOK,
           TabsAround' \subseteq TabsAround \union new,
           Remembered' \subseteq TabsAround \union Remembered
    PROVE  RememberedByUuid'
<1>1. \A t \in TabsAround \union Remembered : t.uuid \in Int /\ t.uuid < next.uuid
  BY DEF UuidsNameTabs, RememberedByUuid, TabsAround, Remembered, TypeOK, Attempt, Doc,
         Tab, Uuid
<1>2. \A t, u \in TabsAround \union Remembered : t.uuid = u.uuid => t = u
  BY DEF UuidsNameTabs, RememberedByUuid
<1>3. \A t \in Remembered' : t.uuid < next'.uuid
  BY <1>1 DEF Numbered
<1>4. ASSUME NEW t \in Remembered', NEW u \in (TabsAround \union Remembered)',
             t.uuid = u.uuid
      PROVE  t = u
  <2>1. CASE u \in new
    BY <1>1, <1>4, <2>1 DEF Numbered, Tab, Uuid
  <2>2. CASE u \in TabsAround \union Remembered
    BY <1>2, <1>4, <2>2
  <2> QED
    BY <2>1, <2>2
<1> QED
  BY <1>3, <1>4 DEF RememberedByUuid

\* Every tab around or remembered was so before, or is one of the new ones.
LEMMA OwnNames ==
    ASSUME OverwriteInv, TypeOK', NEW d \in Device, NEW new, OwnStep(d, new)
    PROVE  RememberedByUuid'
<1> USE DEF OverwriteInv, SafetyInv
<1>1. shared.tabs \subseteq TabsAround /\ shared' = shared
  BY AroundParts DEF OwnStep
<1>2. \A c \in Device : tabs'[c] \subseteq TabsAround \union new
  BY AroundParts DEF OwnStep, Unmoved
<1>3. \A c \in Device : \A doc \in mail'[c] : doc.tabs \subseteq TabsAround
  <2>1. \A c \in Device : mail'[c] \subseteq mail[c] \union {shared}
    BY DEF OwnStep, Unmoved
  <2> QED
    BY <1>1, <2>1, AroundParts
<1>4. \A k \in tasks' : k.tabs \union k.seen \subseteq TabsAround \union new
  <2> SUFFICES ASSUME NEW k \in tasks'
               PROVE  k.tabs \union k.seen \subseteq TabsAround \union new
    OBVIOUS
  <2>1. CASE k \in tasks
    BY <2>1, AroundParts
  <2>2. CASE k \in NewTasks
    BY <2>2, AroundParts DEF OwnStep, SpawnsWell
  <2> QED
    BY <2>1, <2>2 DEF NewTasks
<1>5. TabsAround' \subseteq TabsAround \union new
  BY <1>1, <1>2, <1>3, <1>4 DEF TabsAround
<1>6. Remembered' \subseteq TabsAround \union Remembered
  <2> SUFFICES ASSUME NEW t \in Remembered' PROVE t \in TabsAround \union Remembered
    OBVIOUS
  <2>1. PICK c \in Device : t \in putaway'[c] \/ t \in pending'[c].shared.tabs
    BY DEF Remembered
  <2>2. CASE t \in putaway'[c]
    <3>1. t \in putaway[c] \union tabs[c]
      BY <2>2 DEF OwnStep, Unmoved
    <3> QED
      BY <3>1, AroundParts DEF Remembered
  <2>3. CASE t \in pending'[c].shared.tabs
    <3>1. pending'[c].shared \in {NoDoc, shared, pending[c].shared}
      BY DEF OwnStep, Unmoved
    <3>2. NoDoc.tabs = {}
      BY DEF NoDoc
    <3> QED
      BY <1>1, <2>3, <3>1, <3>2 DEF Remembered
  <2> QED
    BY <2>1, <2>2, <2>3
<1>7. Numbered(new)
  BY DEF OwnStep
<1> QED
  BY <1>5, <1>6, <1>7, NamesRemembered

LEMMA OwnHidden ==
    ASSUME OverwriteInv, TypeOK', NEW d \in Device, NEW new, OwnStep(d, new)
    PROVE  HiddenPutAway'
<1> USE DEF OverwriteInv, SafetyInv
<1>1. UuidsIn(putaway[d]) \subseteq UuidsIn(putaway'[d])
  BY DEF OwnStep, UuidsIn
<1>2. HiddenBy(d) \subseteq UuidsIn(putaway'[d])
  BY <1>1 DEF HiddenPutAway
<1>3. HiddenBy(d)' \subseteq UuidsIn(putaway'[d])
  <2>1. \A k \in tasks' : k.dev = d => k.hid \subseteq UuidsIn(putaway'[d])
    <3> SUFFICES ASSUME NEW k \in tasks', k.dev = d
                 PROVE  k.hid \subseteq UuidsIn(putaway'[d])
      OBVIOUS
    <3>1. CASE k \in tasks
      BY <1>2, <3>1 DEF HiddenBy
    <3>2. CASE k \in NewTasks
      BY <1>2, <3>2 DEF OwnStep, SpawnsWell
    <3> QED
      BY <3>1, <3>2 DEF NewTasks
  <2>2. /\ hidden'[d] \subseteq UuidsIn(putaway'[d])
        /\ devfile'[d].hidden \subseteq UuidsIn(putaway'[d])
        /\ pending'[d].file.hidden \subseteq UuidsIn(putaway'[d])
    BY <1>2 DEF OwnStep, HiddenBy
  <2> QED
    BY <2>1, <2>2 DEF HiddenBy
<1>4. ASSUME NEW c \in Device, c # d
      PROVE  HiddenBy(c)' \subseteq UuidsIn(putaway'[c])
  <2>1. \A k \in tasks' : k.dev = c => k \in tasks
    BY <1>4 DEF OwnStep, SpawnsWell, NewTasks
  <2>2. Unmoved(c) /\ devfile'[c] = devfile[c]
    BY <1>4 DEF OwnStep
  <2>3. HiddenBy(c)' \subseteq HiddenBy(c)
    BY <2>1, <2>2 DEF Unmoved, HiddenBy
  <2> QED
    BY <2>2, <2>3 DEF HiddenPutAway, Unmoved
<1> QED
  BY <1>3, <1>4 DEF HiddenPutAway

LEMMA OwnAccounted ==
    ASSUME OverwriteInv, TypeOK', NEW d \in Device, NEW new, OwnStep(d, new)
    PROVE  BasesAccounted' /\ FoundSessionsStayOpen'
<1> USE DEF OverwriteInv, SafetyInv
<1>1. Known(d) \subseteq Known(d)' /\ Explained(d)' \subseteq Known(d)'
  BY DEF OwnStep, Known, Explained, Accounted, SessionsIn
<1>2. \A c \in Device \ {d} : /\ Known(c)' = Known(c)
                               /\ Explained(c)' = Explained(c)
  BY DEF OwnStep, Unmoved, Known, Explained, Accounted
<1>3. BasesAccounted'
  <2> SUFFICES ASSUME NEW c \in Device, NEW doc \in DocsInUse', doc.ver # 0,
                      doc.ver \in Bases(c)'
               PROVE  SessionsIn(doc.tabs) \subseteq Known(c)'
    BY DEF BasesAccounted
  <2>1. doc \in DocsInUse
    BY OwnDocs DEF NoDoc
  <2>2. CASE doc.ver \in Bases(c)
    BY <1>1, <1>2, <2>1, <2>2 DEF BasesAccounted
  <2>3. CASE c = d /\ doc.ver \in Learnt(d)
    <3>1. PICK x \in DocsInUse : /\ SessionsIn(x.tabs) \subseteq Known(d)'
                                 /\ x.ver = doc.ver
      BY <2>3 DEF Learnt
    <3>2. x.tabs = doc.tabs
      BY <2>1, <3>1 DEF VersionsNameContent
    <3> QED
      BY <2>3, <3>1, <3>2
  <2> QED
    BY <2>2, <2>3, OwnBases
<1>4. FoundSessionsStayOpen'
  <2> SUFFICES ASSUME NEW c \in Device, conn'[c] = "on"
               PROVE  found'[c] \subseteq Explained(c)'
    BY DEF FoundSessionsStayOpen, Explained
  <2>1. CASE c = d
    BY <2>1 DEF OwnStep
  <2>2. CASE c # d
    BY <1>2, <2>2 DEF OwnStep, Unmoved, FoundSessionsStayOpen, Explained
  <2> QED
    BY <2>1, <2>2
<1> QED
  BY <1>3, <1>4

LEMMA OwnStepKeeps ==
    ASSUME OverwriteInv, SafetyInv', NEW d \in Device, NEW new, OwnStep(d, new)
    PROVE  OverwriteInv'
<1>1. TypeOK'
  BY DEF SafetyInv
<1> QED
  BY <1>1, OwnVersions, OwnNames, OwnHidden, OwnAccounted DEF OverwriteInv
(***************************************************************************)
(* Steps of the flush tasks, crashes, and steps that touch none of this.   *)
(***************************************************************************)
\* A task keeps what it was spawned with, except the tabs it writes; it counts
\* as written once its document is in the file.
Successor(k, r) ==
    /\ tasks' \subseteq (tasks \ {k}) \union {r}
    /\ r.dev = k.dev /\ r.ver = k.ver /\ r.base = k.base /\ r.hid = k.hid
    /\ Unwritten(r) => Unwritten(k) /\ shared' = shared

LEMMA FlushNames ==
    ASSUME TypeOK, NEW k \in tasks, FlushStep(k)
    PROVE  /\ \E r : Successor(k, r)
           /\ \/ shared' = shared
              \/ Unwritten(k) /\ shared'.ver = k.ver
           /\ \A d \in Device : \/ devfile'[d].hidden = devfile[d].hidden
                                \/ d = k.dev /\ devfile'[d].hidden = k.hid
<1>1. k \in Task
  BY DEF TypeOK
<1> DEFINE looked    == [k EXCEPT !.phase = "list", !.seen = shared.tabs]
           to(phase) == [k EXCEPT !.phase = phase]
           joined(running) == [k EXCEPT !.phase = "write", !.seen = {},
                                        !.tabs = MergeTabSets(k.tabs, k.seen, running)]
           unmerged == [k EXCEPT !.phase = "write", !.seen = {}]
           Same(j) == j.dev = k.dev /\ j.ver = k.ver /\ j.base = k.base /\ j.hid = k.hid
<1>2. /\ Same(looked) /\ Same(unmerged)
      /\ \A phase : Same(to(phase)) /\ to(phase).phase = phase
      /\ \A running : Same(joined(running))
  BY <1>1 DEF Task
<1>3. CASE FlushRead(k) \/ FlushReadFails(k)
  <2>1. \/ tasks' = (tasks \ {k}) \union {looked}
        \/ tasks' = (tasks \ {k}) \union {to("write")}
    <3>1. CASE Conflict(k)
      BY <1>3, <3>1 DEF FlushRead, FlushReadFails, Advance
    <3>2. CASE ~Conflict(k)
      BY <1>3, <3>2 DEF FlushRead, FlushReadFails, Advance
    <3> QED
      BY <3>1, <3>2
  <2>2. UNCHANGED fileVars /\ Unwritten(k)
    BY <1>3 DEF FlushRead, FlushReadFails, Unwritten
  <2> HIDE DEF looked, to
  <2> QED
    BY <1>2, <2>1, <2>2 DEF fileVars, Successor
<1>4. CASE FlushMerge(k) \/ FlushMergeSkipped(k) \/ FlushListFails(k)
  <2>1. \/ tasks' = (tasks \ {k}) \union {joined(live)}
        \/ tasks' = (tasks \ {k}) \union {joined({})}
        \/ tasks' = (tasks \ {k}) \union {unmerged}
    BY <1>4, Zenon DEF FlushMerge, FlushMergeSkipped, FlushListFails, Advance
  <2>2. UNCHANGED fileVars /\ Unwritten(k)
    BY <1>4 DEF FlushMerge, FlushMergeSkipped, FlushListFails, Unwritten
  <2> HIDE DEF joined, unmerged
  <2> QED
    BY <1>2, <2>1, <2>2 DEF fileVars, Successor
<1>5. CASE FlushWrite(k) \/ FlushWriteFails(k)
  <2>1. tasks' = (tasks \ {k}) \union {to("device")} /\ devfile' = devfile
    BY <1>5 DEF FlushWrite, FlushWriteFails, Advance, fileVars
  <2>2. Unwritten(k) /\ ~Unwritten(to("device"))
    BY <1>2, <1>5 DEF FlushWrite, FlushWriteFails, Unwritten
  <2>3. shared' = shared \/ shared'.ver = k.ver
    BY <1>5 DEF FlushWrite, FlushWriteFails, fileVars
  <2> HIDE DEF to
  <2> QED
    BY <1>2, <2>1, <2>2, <2>3 DEF Successor
<1>6. CASE FlushDevice(k) \/ FlushDeviceFails(k)
  <2>1. tasks' = tasks \ {k} /\ shared' = shared
    BY <1>6 DEF FlushDevice, FlushDeviceFails, fileVars
  <2>2. \/ devfile' = devfile
        \/ devfile' = [devfile EXCEPT ![k.dev] = [there |-> TRUE, hidden |-> k.hid]]
    BY <1>6 DEF FlushDevice, FlushDeviceFails, fileVars
  <2> QED
    BY <2>1, <2>2 DEF TypeOK, Successor
<1> QED
  BY <1>3, <1>4, <1>5, <1>6 DEF FlushStep

LEMMA OverwriteFlush ==
    ASSUME OverwriteInv, SafetyInv', NEW k \in tasks, FlushStep(k)
    PROVE  OverwriteInv'
<1> USE DEF OverwriteInv, SafetyInv
<1>1. UNCHANGED <<deviceVars, watchVars, next, history>>
  BY DEF FlushStep, FlushRead, FlushReadFails, FlushMerge, FlushMergeSkipped,
         FlushListFails, FlushWrite, FlushWriteFails, FlushDevice, FlushDeviceFails
<1>2. k.dev \in Device /\ k.ver \in Nat /\ 0 < k.ver /\ k.ver < next.ver
  BY DEF TypeOK, Task, Version, VersionsOK
<1>3. PICK r : /\ tasks' \subseteq (tasks \ {k}) \union {r}
               /\ r.dev = k.dev /\ r.ver = k.ver /\ r.base = k.base /\ r.hid = k.hid
               /\ Unwritten(r) => Unwritten(k) /\ shared' = shared
  <2>1. \E r : Successor(k, r)
    BY FlushNames
  <2> QED
    BY <2>1 DEF Successor
<1>4. \A d \in Device : Bases(d)' \subseteq Bases(d)
  BY <1>1, <1>3 DEF Bases, deviceVars
<1>5. \A doc \in DocsInUse' :
          \/ doc \in DocsInUse
          \/ doc = shared' /\ Unwritten(k) /\ doc.ver = k.ver
  BY <1>1, FlushNames DEF DocsInUse, deviceVars, watchVars
<1>6. VersionsOK'
  <2>1. \A doc \in DocsInUse' : doc.ver < next.ver /\ (doc.ver = 0 => doc.tabs = {})
    BY <1>2, <1>5 DEF VersionsOK
  <2>2. \A d \in Device : \A v \in Bases(d)' : v < next.ver
    BY <1>4 DEF VersionsOK
  <2>3. \A j \in tasks' : 0 < j.ver /\ j.ver < next.ver
    BY <1>2, <1>3 DEF VersionsOK
  <2>4. \A j, m \in tasks' : j.ver = m.ver => j = m
    <3>1. \A j \in tasks \ {k} : j.ver # k.ver
      BY DEF VersionsOK
    <3> QED
      BY <1>3, <3>1 DEF VersionsOK
  <2>5. ASSUME NEW j \in tasks', Unwritten(j)
        PROVE  /\ \A doc \in DocsInUse' : doc.ver # j.ver
               /\ \A d \in Device : j.ver \notin Bases(d)'
    <3>1. CASE j \in tasks \ {k}
      <4>1. j.ver # k.ver
        BY <3>1 DEF VersionsOK
      <4> QED
        BY <1>4, <1>5, <2>5, <3>1, <4>1 DEF VersionsOK
    <3>2. CASE j.ver = k.ver /\ Unwritten(k) /\ shared' = shared
      <4>1. shared \in DocsInUse
        BY DEF DocsInUse
      <4> QED
        BY <1>4, <1>5, <3>2, <4>1 DEF VersionsOK
    <3> QED
      BY <1>3, <2>5, <3>1, <3>2
  <2> QED
    BY <1>1, <2>1, <2>2, <2>3, <2>4, <2>5 DEF VersionsOK, Unwritten
<1>7. VersionsNameContent'
  BY <1>5 DEF VersionsNameContent, VersionsOK
<1>8. RememberedByUuid'
  <2>1. shared'.tabs \subseteq TabsAround
    BY FlushMoves, AroundParts
  <2>2. \A d \in Device : /\ tabs'[d] \subseteq TabsAround
                          /\ \A doc \in mail'[d] : doc.tabs \subseteq TabsAround
    BY <1>1, AroundParts DEF deviceVars, watchVars
  <2>3. \A j \in tasks' : j.tabs \union j.seen \subseteq TabsAround
    BY FlushMoves, AroundParts
  <2>4. TabsAround' \subseteq TabsAround \union {}
    BY <2>1, <2>2, <2>3 DEF TabsAround
  <2>5. Remembered' = Remembered
    BY <1>1 DEF Remembered, deviceVars, history
  <2>6. Numbered({})
    BY <1>1, NoneNumbered
  <2> QED
    BY <2>4, <2>5, <2>6, NamesRemembered
<1>9. HiddenPutAway'
  <2>1. \A d \in Device : HiddenBy(d)' \subseteq HiddenBy(d)
    <3> SUFFICES ASSUME NEW d \in Device PROVE HiddenBy(d)' \subseteq HiddenBy(d)
      OBVIOUS
    <3>1. devfile'[d].hidden \subseteq HiddenBy(d)
      BY FlushNames DEF HiddenBy
    <3>2. \A j \in tasks' : j.dev = d => j.hid \subseteq HiddenBy(d)
      BY <1>3 DEF HiddenBy
    <3> QED
      BY <1>1, <3>1, <3>2 DEF HiddenBy, deviceVars
  <2> QED
    BY <1>1, <2>1 DEF HiddenPutAway, history
<1>10. BasesAccounted' /\ FoundSessionsStayOpen'
  <2>1. \A d \in Device : Known(d)' = Known(d) /\ Explained(d)' = Explained(d)
    BY <1>1 DEF Known, Explained, Accounted, deviceVars, history
  <2>2. FoundSessionsStayOpen'
    BY <1>1, <2>1 DEF FoundSessionsStayOpen, Explained, deviceVars, history
  <2>3. BasesAccounted'
    <3> SUFFICES ASSUME NEW d \in Device, NEW doc \in DocsInUse', doc.ver # 0,
                        doc.ver \in Bases(d)'
                 PROVE  SessionsIn(doc.tabs) \subseteq Known(d)
      BY <2>1 DEF BasesAccounted
    <3>1. doc \in DocsInUse
      BY <1>4, <1>5 DEF VersionsOK
    <3> QED
      BY <1>4, <3>1 DEF BasesAccounted
  <2> QED
    BY <2>2, <2>3
<1> QED
  BY <1>6, <1>7, <1>8, <1>9, <1>10

LEMMA OverwriteIdle ==
    ASSUME OverwriteInv, SafetyInv',
           UNCHANGED <<fileVars, conn, pending, tabs, hidden, cache, mail, tasks,
                       putaway, found, missed, discarded>>,
           next'.uuid = next.uuid, next'.ver = next.ver
    PROVE  OverwriteInv'
<1>1. VersionsOK' /\ VersionsNameContent' /\ BasesAccounted'
  <2>1. DocsInUse' = DocsInUse /\ \A d \in Device : Bases(d)' = Bases(d)
    BY DEF fileVars, DocsInUse, Bases
  <2>2. \A d \in Device : Known(d)' = Known(d)
    BY DEF Known, Accounted
  <2> QED
    BY <2>1, <2>2
    DEF OverwriteInv, VersionsOK, VersionsNameContent, BasesAccounted, Unwritten
<1>2. RememberedByUuid'
  <2>1. TabsAround' = TabsAround /\ Remembered' = Remembered
    BY DEF fileVars, TabsAround, Remembered
  <2> QED
    BY <2>1 DEF OverwriteInv, RememberedByUuid
<1>3. HiddenPutAway' /\ FoundSessionsStayOpen'
  BY DEF fileVars, OverwriteInv, HiddenPutAway, HiddenBy, FoundSessionsStayOpen, Accounted
<1> QED
  BY <1>1, <1>2, <1>3 DEF OverwriteInv

\* The device that crashes knows no version any more, has nothing found, and
\* nothing hidden but what its file lists.
LEMMA OverwriteCrash ==
    ASSUME OverwriteInv, SafetyInv', NEW d \in Device, Crash(d)
    PROVE  OverwriteInv'
<1> USE DEF OverwriteInv, SafetyInv
<1>1. /\ conn'[d] = "off" /\ pending'[d] = NoAttempt /\ tabs'[d] = {}
      /\ hidden'[d] = {} /\ cache'[d] = NoDoc /\ mail'[d] = {}
      /\ putaway'[d] = {t \in putaway[d] : t.uuid \in devfile[d].hidden}
  BY DEF Crash, TypeOK
<1>2. \A c \in Device \ {d} : Unmoved(c)
  BY DEF Crash, TypeOK, Unmoved
<1>3. tasks' = {k \in tasks : k.dev # d} /\ UNCHANGED <<shared, devfile>>
  BY DEF Crash, fileVars
<1>4. next'.uuid = next.uuid /\ next'.ver = next.ver
  BY DEF Crash, Take, TypeOK
<1>5. DocsInUse' \subseteq DocsInUse \union {NoDoc}
  <2>1. \A c \in Device : mail'[c] \subseteq mail[c]
    BY <1>1, <1>2 DEF Unmoved
  <2>2. \A c \in Device : pending'[c].shared \in {NoDoc, pending[c].shared}
    BY <1>1, <1>2 DEF Unmoved, NoAttempt
  <2> QED
    BY <1>3, <2>1, <2>2 DEF DocsInUse
<1>6. Bases(d)' = {0}
  BY <1>1, <1>3 DEF Bases, NoDoc
<1>7. \A c \in Device \ {d} : Bases(c)' \subseteq Bases(c)
  BY <1>2, <1>3 DEF Bases, Unmoved
<1>8. NoDoc.ver = 0 /\ NoDoc.tabs = {}
  BY DEF NoDoc
<1>9. VersionsOK' /\ VersionsNameContent'
  <2>1. next.ver \in Nat /\ 0 < next.ver
    BY DEF TypeOK
  <2>2. VersionsNameContent'
    BY <1>5, <1>8 DEF VersionsOK, VersionsNameContent
  <2>3. /\ \A doc \in DocsInUse' : doc.ver < next.ver /\ (doc.ver = 0 => doc.tabs = {})
        /\ \A c \in Device : \A v \in Bases(c)' : v < next.ver
    BY <1>5, <1>6, <1>7, <1>8, <2>1 DEF VersionsOK
  <2>4. ASSUME NEW k \in tasks', Unwritten(k)
        PROVE  /\ \A doc \in DocsInUse' : doc.ver # k.ver
               /\ \A c \in Device : k.ver \notin Bases(c)'
    <3>1. k \in tasks /\ k.ver # 0
      BY <1>3 DEF VersionsOK, TypeOK, Task, Version
    <3> QED
      BY <1>5, <1>6, <1>7, <1>8, <2>4, <3>1 DEF VersionsOK
  <2>5. \A k \in tasks' : k \in tasks
    BY <1>3
  <2> QED
    BY <1>4, <2>2, <2>3, <2>4, <2>5 DEF VersionsOK, Unwritten
<1>10. RememberedByUuid'
  <2>1. \A c \in Device : tabs'[c] \subseteq tabs[c] /\ mail'[c] \subseteq mail[c]
    BY <1>1, <1>2 DEF Unmoved
  <2>2. TabsAround' \subseteq TabsAround \union {}
    BY <1>3, <2>1 DEF TabsAround
  <2>3. Remembered' \subseteq Remembered
    <3>1. \A c \in Device : putaway'[c] \subseteq putaway[c]
      BY <1>1, <1>2 DEF Unmoved
    <3>2. \A c \in Device : pending'[c].shared.tabs \subseteq pending[c].shared.tabs
      BY <1>1, <1>2, <1>8 DEF Unmoved, NoAttempt
    <3> QED
      BY <3>1, <3>2 DEF Remembered
  <2>4. Numbered({})
    BY <1>4, NoneNumbered
  <2> QED
    BY <2>2, <2>3, <2>4, NamesRemembered
<1>11. HiddenPutAway'
  <2>1. HiddenBy(d)' \subseteq devfile[d].hidden
    BY <1>1, <1>3 DEF HiddenBy, NoAttempt, NoFile
  <2>2. HiddenBy(d)' \subseteq UuidsIn(putaway'[d])
    <3>1. devfile[d].hidden \subseteq UuidsIn(putaway[d])
      BY DEF HiddenPutAway, HiddenBy
    <3> QED
      BY <1>1, <2>1, <3>1 DEF UuidsIn
  <2>3. \A c \in Device \ {d} : HiddenBy(c)' \subseteq HiddenBy(c)
    BY <1>2, <1>3 DEF HiddenBy, Unmoved
  <2> QED
    BY <1>2, <2>2, <2>3 DEF HiddenPutAway, Unmoved
<1>12. BasesAccounted' /\ FoundSessionsStayOpen'
  <2>1. \A c \in Device \ {d} : /\ Known(c)' = Known(c)
                                 /\ Explained(c)' = Explained(c)
    BY <1>2 DEF Known, Explained, Accounted, Unmoved
  <2>2. FoundSessionsStayOpen'
    BY <1>1, <1>2, <2>1 DEF FoundSessionsStayOpen, Explained, Unmoved
  <2>3. BasesAccounted'
    BY <1>5, <1>6, <1>7, <1>8, <2>1 DEF BasesAccounted
  <2> QED
    BY <2>2, <2>3
<1> QED
  BY <1>9, <1>10, <1>11, <1>12
(***************************************************************************)
(* Each step of a device is one of its own steps.                          *)
(***************************************************************************)
\* Nothing is spawned.
LEMMA NoneSpawned ==
    ASSUME TypeOK, NEW d \in Device, NEW new, tasks' = tasks, next'.ver = next.ver
    PROVE  SpawnsWell(d, new)
  BY DEF SpawnsWell, NewTasks, TypeOK

\* One snapshot is spawned, if a syncer is there.
LEMMA OneSpawned ==
    ASSUME TypeOK, NEW d \in Device, NEW new, NEW ts, NEW hid,
           tasks' = tasks \union SpawnedTasks(d, ts, hid),
           next'.ver = next.ver + Spawned(d),
           ts \subseteq tabs[d] \union new,
           hid \subseteq HiddenBy(d) \union UuidsIn(putaway'[d])
    PROVE  SpawnsWell(d, new)
<1> DEFINE k == FlushTask(d, next.ver, ts, hid)
<1>1. /\ k.dev = d /\ k.ver = next.ver /\ k.base = cache[d].ver
      /\ k.seen = {} /\ k.tabs = ts /\ k.hid = hid
  BY DEF FlushTask
<1>2. next.ver \in Nat /\ cache[d].ver \in Bases(d)
  BY DEF TypeOK, Bases
<1>3. NewTasks \subseteq SpawnedTasks(d, ts, hid)
  BY DEF NewTasks
<1>4. CASE conn[d] = "on"
  <2>1. NewTasks \subseteq {k} /\ next'.ver = next.ver + 1
    BY <1>3, <1>4 DEF SpawnedTasks, Spawned
  <2> HIDE DEF k
  <2> QED
    BY <1>1, <1>2, <2>1 DEF SpawnsWell
<1>5. CASE conn[d] # "on"
  <2>1. NewTasks = {} /\ next'.ver = next.ver
    BY <1>2, <1>3, <1>5 DEF SpawnedTasks, Spawned
  <2> QED
    BY <1>2, <2>1 DEF SpawnsWell
<1> QED
  BY <1>4, <1>5

\* What flush_state and save_state do to the cache and the tasks.
LEMMA SaveSpawnsWell ==
    ASSUME TypeOK, NEW d \in Device, NEW new, NEW ts, NEW hid,
           \/ FlushState(d, ts, hid) /\ next'.ver = next.ver + Spawned(d)
           \/ SaveState(d, ts, hid) /\ next'.ver = next.ver + SaveSpawned(d),
           ts \subseteq tabs[d] \union new,
           hid \subseteq HiddenBy(d) \union UuidsIn(putaway'[d])
    PROVE  /\ SpawnsWell(d, new)
           /\ cache'[d].ver \in Bases(d)
           /\ \A c \in Device \ {d} : cache'[c] = cache[c]
<1>1. CASE FlushState(d, ts, hid) /\ next'.ver = next.ver + Spawned(d)
  <2>1. cache' = [cache EXCEPT ![d].tabs = ts]
    BY <1>1 DEF FlushState
  <2>2. cache'[d].ver = cache[d].ver /\ \A c \in Device \ {d} : cache'[c] = cache[c]
    BY <2>1 DEF TypeOK, Doc
  <2>3. SpawnsWell(d, new)
    BY <1>1, OneSpawned DEF FlushState
  <2> QED
    BY <2>2, <2>3 DEF Bases
<1>2. CASE SaveState(d, ts, hid) /\ next'.ver = next.ver + SaveSpawned(d)
  <2>1. CASE recent[d]
    <3>1. cache' = cache /\ tasks' = tasks /\ next'.ver = next.ver
      BY <1>2, <2>1 DEF SaveState, SaveSpawned, TypeOK
    <3> QED
      BY <3>1, NoneSpawned DEF Bases
  <2>2. CASE ~recent[d]
    <3>1. FlushState(d, ts, hid) /\ next'.ver = next.ver + Spawned(d)
      BY <1>2, <2>2 DEF SaveState, SaveSpawned
    <3> QED
      BY <1>1, <3>1
  <2> QED
    BY <2>1, <2>2
<1> QED
  BY <1>1, <1>2

\* A step that moves only the connection attempt or the mail.
LEMMA QuietStep ==
    ASSUME OverwriteInv, NEW d \in Device,
           UNCHANGED <<shared, devfile, tasks, tabs, hidden, cache, putaway, found,
                       missed, discarded>>,
           next'.uuid = next.uuid, next'.ver = next.ver,
           conn'[d] = "on" => conn[d] = "on",
           pending'[d].shared \in {NoDoc, shared, pending[d].shared},
           pending'[d].file.hidden \subseteq HiddenBy(d),
           mail'[d] \subseteq mail[d] \union {shared},
           \A c \in Device \ {d} :
              conn'[c] = conn[c] /\ pending'[c] = pending[c] /\ mail'[c] = mail[c]
    PROVE  OwnStep(d, {})
<1>1. SpawnsWell(d, {}) /\ Numbered({})
  BY NoneSpawned, NoneNumbered DEF OverwriteInv, SafetyInv
<1>2. Explained(d)' = Explained(d) /\ SessionsIn(tabs[d]) \subseteq Explained(d)
  BY DEF Explained, Accounted
<1>3. conn'[d] = "on" => found'[d] \subseteq Explained(d)'
  BY <1>2 DEF OverwriteInv, FoundSessionsStayOpen, Explained
<1>4. hidden'[d] \subseteq HiddenBy(d) /\ cache'[d].ver \in Bases(d)
  BY DEF HiddenBy, Bases
<1> QED
  BY <1>1, <1>2, <1>3, <1>4 DEF OwnStep, Unmoved

\* A step of a user or a handler that saves the state.
LEMMA SavingStep ==
    ASSUME OverwriteInv, NEW d \in Device, NEW new, Numbered(new),
           UNCHANGED <<shared, devfile, conn, pending, found, missed, discarded>>,
           SpawnsWell(d, new),
           cache'[d].ver \in Bases(d) \union Learnt(d),
           hidden'[d] \subseteq HiddenBy(d) \union UuidsIn(putaway'[d]),
           tabs'[d] \subseteq tabs[d] \union new,
           tabs[d] \ tabs'[d] \subseteq putaway'[d],
           putaway[d] \subseteq putaway'[d],
           putaway'[d] \subseteq putaway[d] \union tabs[d],
           mail'[d] \subseteq mail[d],
           \A c \in Device \ {d} :
              /\ tabs'[c] = tabs[c] /\ hidden'[c] = hidden[c] /\ cache'[c] = cache[c]
              /\ putaway'[c] = putaway[c] /\ mail'[c] = mail[c]
    PROVE  OwnStep(d, new)
<1>1. SessionsIn(tabs[d]) \subseteq Explained(d)'
  BY DEF Explained, Accounted, SessionsIn
<1>2. SessionsIn(putaway[d]) \subseteq Explained(d)'
  BY DEF Explained, Accounted, SessionsIn
<1>3. Explained(d) \subseteq Explained(d)'
  BY <1>1, <1>2 DEF Explained, Accounted
<1>4. conn'[d] = "on" => found'[d] \subseteq Explained(d)'
  BY <1>3 DEF OverwriteInv, FoundSessionsStayOpen, Explained
<1>5. pending'[d].file.hidden \subseteq HiddenBy(d)
  BY DEF HiddenBy
<1> QED
  BY <1>1, <1>4, <1>5 DEF OwnStep, Unmoved
\* Connecting, and what the watcher sends.
LEMMA OverwriteConnect ==
    ASSUME OverwriteInv, TypeOK', NEW d \in Device,
           \/ Connect(d) \/ ConnectList(d) \/ ConnectRead(d) \/ ConnectFails(d)
           \/ ConnectDiscarded(d) \/ WatchEmit(d)
    PROVE  OwnStep(d, {})
<1> USE DEF OverwriteInv, SafetyInv
<1>1. /\ UNCHANGED <<shared, devfile, tasks, tabs, hidden, cache, putaway, found,
                     missed, discarded>>
      /\ next'.uuid = next.uuid /\ next'.ver = next.ver
  BY DEF Connect, ConnectList, ConnectRead, ConnectFails, ConnectDiscarded, WatchEmit,
         Take, TypeOK, fileVars, deviceVars, history
<1>2. /\ conn'[d] = "on" => conn[d] = "on"
      /\ \A c \in Device \ {d} : conn'[c] = conn[c]
  BY DEF Connect, ConnectList, ConnectRead, ConnectFails, ConnectDiscarded, WatchEmit,
         TypeOK, deviceVars
<1>3. /\ mail'[d] \subseteq mail[d] \union {shared}
      /\ \A c \in Device \ {d} : mail'[c] = mail[c]
  BY DEF Connect, ConnectList, ConnectRead, ConnectFails, ConnectDiscarded, WatchEmit,
         TypeOK, watchVars
<1>4. /\ \A c \in Device \ {d} : pending'[c] = pending[c]
      /\ pending'[d].shared \in {NoDoc, shared, pending[d].shared}
      /\ pending'[d].file.hidden \subseteq HiddenBy(d)
  <2>1. pending[d] \in Attempt /\ pending[d].file.hidden \subseteq HiddenBy(d)
        /\ devfile[d].hidden \subseteq HiddenBy(d)
    BY DEF TypeOK, HiddenBy
  <2>2. CASE Connect(d)
    <3>1. pending' = [pending EXCEPT ![d].phase = "list"]
      BY <2>2 DEF Connect
    <3> QED
      BY <2>1, <3>1 DEF TypeOK, Attempt
  <2>3. CASE ConnectList(d)
    <3>1. PICK listed : pending' = [pending EXCEPT ![d].phase = "read",
                                                   ![d].sessions = listed]
      BY <2>3 DEF ConnectList
    <3> QED
      BY <2>1, <3>1 DEF TypeOK, Attempt
  <2>4. CASE ConnectRead(d)
    <3>1. pending' = [pending EXCEPT ![d].phase = "done", ![d].shared = shared,
                                     ![d].file = devfile[d]]
      BY <2>4 DEF ConnectRead
    <3>2. pending'[d].shared = shared /\ pending'[d].file = devfile[d]
      BY <2>1, <3>1 DEF TypeOK, Attempt
    <3>3. \A c \in Device \ {d} : pending'[c] = pending[c]
      BY <3>1 DEF TypeOK
    <3> QED
      BY <2>1, <3>2, <3>3
  <2>5. CASE ConnectFails(d) \/ ConnectDiscarded(d)
    <3>1. pending' = [pending EXCEPT ![d] = NoAttempt]
      BY <2>5 DEF ConnectFails, ConnectDiscarded
    <3> QED
      BY <3>1 DEF TypeOK, NoAttempt, NoFile
  <2>6. CASE WatchEmit(d)
    BY <2>1, <2>6 DEF WatchEmit, deviceVars
  <2> QED
    BY <2>2, <2>3, <2>4, <2>5, <2>6
<1> QED
  BY <1>1, <1>2, <1>3, <1>4, QuietStep

\* Every tab is put away, and the cache forgets its version.
LEMMA OverwriteDisconnect ==
    ASSUME OverwriteInv, TypeOK', NEW d \in Device, Disconnect(d)
    PROVE  OwnStep(d, {})
<1> USE DEF OverwriteInv, SafetyInv
<1>1. /\ UNCHANGED <<shared, devfile, tasks, pending, missed, discarded>>
      /\ next'.uuid = next.uuid /\ next'.ver = next.ver
  BY DEF Disconnect, Take, TypeOK, fileVars
<1>2. /\ conn'[d] = "off" /\ tabs'[d] = {} /\ cache'[d] = NoDoc /\ mail'[d] = {}
      /\ hidden'[d] = hidden[d] \union UuidsIn(tabs[d])
      /\ putaway'[d] = putaway[d] \union tabs[d]
  BY DEF Disconnect, TypeOK
<1>3. \A c \in Device \ {d} : Unmoved(c)
  BY DEF Disconnect, TypeOK, Unmoved
<1>4. SpawnsWell(d, {}) /\ Numbered({})
  BY <1>1, NoneSpawned, NoneNumbered
<1>5. SessionsIn(tabs[d]) \subseteq Explained(d)'
  BY <1>2 DEF Explained, Accounted, SessionsIn
<1>6. /\ hidden'[d] \subseteq HiddenBy(d) \union UuidsIn(putaway'[d])
      /\ pending'[d].file.hidden \subseteq HiddenBy(d)
  BY <1>1, <1>2 DEF HiddenBy, UuidsIn
<1>7. cache'[d].ver \in Learnt(d)
  BY <1>2 DEF Learnt, NoDoc
<1> QED
  BY <1>1, <1>2, <1>3, <1>4, <1>5, <1>6, <1>7 DEF OwnStep

\* Closing a tab puts it away.
LEMMA OverwriteClose ==
    ASSUME OverwriteInv, TypeOK', NEW d \in Device, NEW t \in tabs[d], NEW o \in Nat,
           CloseTab(d, t), Take(0, 0, Spawned(d), o)
    PROVE  OwnStep(d, {})
<1> USE DEF OverwriteInv, SafetyInv
<1>1. /\ UNCHANGED <<shared, devfile, conn, pending, found, missed, discarded, mail,
                     hidden>>
      /\ tabs'[d] = tabs[d] \ {t} /\ putaway'[d] = putaway[d] \union {t}
      /\ \A c \in Device \ {d} : tabs'[c] = tabs[c] /\ putaway'[c] = putaway[c]
  BY DEF CloseTab, fileVars, watchVars, TypeOK
<1>2. next'.ver = next.ver + Spawned(d) /\ next'.uuid = next.uuid
  BY DEF Take, TypeOK
<1>3. hidden[d] \subseteq HiddenBy(d)
  BY DEF HiddenBy
<1>4. /\ SpawnsWell(d, {})
      /\ cache'[d].ver \in Bases(d)
      /\ \A c \in Device \ {d} : cache'[c] = cache[c]
  <2>1. PICK ts : ts = tabs'[d]
    OBVIOUS
  <2>2. FlushState(d, ts, hidden[d]) /\ ts \subseteq tabs[d]
    BY <1>1, <2>1 DEF CloseTab
  <2> QED
    BY <1>2, <1>3, <2>2, SaveSpawnsWell
<1>5. Numbered({})
  BY <1>2, NoneNumbered
<1> QED
  BY <1>1, <1>3, <1>4, <1>5, SavingStep

\* The operations of users, and the timer that flushes.
LEMMA OverwriteUser ==
    ASSUME OverwriteInv, TypeOK', NEW d \in Device
    PROVE  /\ FlushTimer(d) \/ TouchTabs(d) => OwnStep(d, {})
           /\ NewTab(d) => \E new : OwnStep(d, new)
           /\ \A t \in tabs[d] : HideTab(d, t) => OwnStep(d, {})
           /\ \A u \in hidden[d] : RestoreHidden(d, u) => \E new : OwnStep(d, new)
<1> USE DEF OverwriteInv, SafetyInv
<1>1. hidden[d] \subseteq HiddenBy(d)
  BY DEF HiddenBy
<1>2. ASSUME FlushTimer(d) \/ TouchTabs(d) PROVE OwnStep(d, {})
  <2>1. UNCHANGED <<shared, devfile, conn, pending, found, missed, discarded, mail,
                    hidden, tabs, putaway>>
    BY <1>2 DEF FlushTimer, TouchTabs, fileVars, watchVars, history
  <2>2. \/ FlushState(d, tabs[d], hidden[d]) /\ next'.ver = next.ver + Spawned(d)
        \/ SaveState(d, tabs[d], hidden[d]) /\ next'.ver = next.ver + SaveSpawned(d)
    BY <1>2 DEF FlushTimer, TouchTabs, Take
  <2>3. Numbered({})
    BY <1>2, NoneNumbered DEF FlushTimer, TouchTabs, Take, TypeOK
  <2>4. /\ SpawnsWell(d, {})
        /\ cache'[d].ver \in Bases(d)
        /\ \A c \in Device \ {d} : cache'[c] = cache[c]
    BY <1>1, <2>2, SaveSpawnsWell
  <2> QED
    BY <1>1, <2>1, <2>3, <2>4, SavingStep
<1>3. ASSUME NewTab(d) PROVE \E new : OwnStep(d, new)
  <2>1. PICK t : t = [uuid |-> next.uuid, tmux |-> next.session]
    OBVIOUS
  <2>2. /\ UNCHANGED <<shared, devfile, conn, pending, found, missed, discarded, mail,
                       hidden, putaway>>
        /\ tabs'[d] = tabs[d] \union {t}
        /\ \A c \in Device \ {d} : tabs'[c] = tabs[c]
    BY <1>3, <2>1 DEF NewTab, fileVars, watchVars, history, TypeOK
  <2>3. /\ SaveState(d, tabs'[d], hidden[d]) /\ next'.ver = next.ver + SaveSpawned(d)
        /\ next'.uuid = next.uuid + 1
    BY <1>3 DEF NewTab, Take
  <2>4. Numbered({t})
    <3>1. t \in Tab /\ next.uuid \in Nat
      BY <2>2 DEF TypeOK
    <3> QED
      BY <2>1, <2>3, <3>1 DEF Numbered
  <2>5. /\ SpawnsWell(d, {t})
        /\ cache'[d].ver \in Bases(d)
        /\ \A c \in Device \ {d} : cache'[c] = cache[c]
    <3>1. PICK ts, new : ts = tabs'[d] /\ new = {t}
      OBVIOUS
    <3>2. /\ SaveState(d, ts, hidden[d]) /\ next'.ver = next.ver + SaveSpawned(d)
          /\ ts \subseteq tabs[d] \union new
      BY <2>2, <2>3, <3>1
    <3>3. /\ SpawnsWell(d, new)
          /\ cache'[d].ver \in Bases(d)
          /\ \A c \in Device \ {d} : cache'[c] = cache[c]
      BY <1>1, <3>2, SaveSpawnsWell
    <3> QED
      BY <3>1, <3>3
  <2>6. OwnStep(d, {t})
    BY <1>1, <2>2, <2>4, <2>5, SavingStep
  <2> QED
    BY <2>6
<1>4. ASSUME NEW t \in tabs[d], HideTab(d, t) PROVE OwnStep(d, {})
  <2>1. /\ UNCHANGED <<shared, devfile, conn, pending, found, missed, discarded, mail>>
        /\ tabs'[d] = tabs[d] \ {t} /\ putaway'[d] = putaway[d] \union {t}
        /\ hidden'[d] = hidden[d] \union {t.uuid}
        /\ \A c \in Device \ {d} : /\ tabs'[c] = tabs[c] /\ putaway'[c] = putaway[c]
                                   /\ hidden'[c] = hidden[c]
    BY <1>4 DEF HideTab, fileVars, watchVars, TypeOK
  <2>2. /\ SaveState(d, tabs'[d], hidden'[d]) /\ next'.ver = next.ver + SaveSpawned(d)
        /\ next'.uuid = next.uuid
    BY <1>4 DEF HideTab, Take, TypeOK
  <2>3. hidden'[d] \subseteq HiddenBy(d) \union UuidsIn(putaway'[d])
    BY <1>1, <2>1 DEF UuidsIn
  <2>4. /\ SpawnsWell(d, {})
        /\ cache'[d].ver \in Bases(d)
        /\ \A c \in Device \ {d} : cache'[c] = cache[c]
    <3>1. PICK ts, hid : ts = tabs'[d] /\ hid = hidden'[d]
      OBVIOUS
    <3>2. /\ SaveState(d, ts, hid) /\ ts \subseteq tabs[d]
          /\ hid \subseteq HiddenBy(d) \union UuidsIn(putaway'[d])
      BY <2>1, <2>2, <2>3, <3>1
    <3> QED
      BY <2>2, <3>2, SaveSpawnsWell
  <2>5. Numbered({})
    BY <2>2, NoneNumbered
  <2> QED
    BY <2>1, <2>3, <2>4, <2>5, SavingStep
<1>5. ASSUME NEW u \in hidden[d], RestoreHidden(d, u) PROVE \E new : OwnStep(d, new)
  <2>1. /\ UNCHANGED <<shared, devfile, conn, pending, found, missed, discarded, mail,
                       putaway>>
        /\ hidden'[d] \subseteq HiddenBy(d)
        /\ \A c \in Device \ {d} : hidden'[c] = hidden[c]
    BY <1>1, <1>5 DEF RestoreHidden, fileVars, watchVars, history, TypeOK
  <2>2. CASE /\ SaveState(d, tabs[d], hidden'[d])
             /\ Take(0, 0, SaveSpawned(d), 1)
             /\ UNCHANGED <<tabs, opening>>
    <3>1. next'.ver = next.ver + SaveSpawned(d) /\ next'.uuid = next.uuid
      BY <2>2 DEF Take, TypeOK
    <3>2. /\ SpawnsWell(d, {})
          /\ cache'[d].ver \in Bases(d)
          /\ \A c \in Device \ {d} : cache'[c] = cache[c]
      <4>1. PICK hid : hid = hidden'[d]
        OBVIOUS
      <4>2. SaveState(d, tabs[d], hid) /\ hid \subseteq HiddenBy(d)
        BY <2>1, <2>2, <4>1
      <4> QED
        BY <3>1, <4>2, SaveSpawnsWell
    <3>3. Numbered({})
      BY <3>1, NoneNumbered
    <3>4. OwnStep(d, {})
      BY <2>1, <2>2, <3>2, <3>3, SavingStep
    <3> QED
      BY <3>4
  <2>3. ASSUME NEW saved \in cache[d].tabs, NEW t,
               t = [uuid |-> next.uuid, tmux |-> saved.tmux],
               tabs' = [tabs EXCEPT ![d] = @ \union {t}],
               IF recent[d] THEN UNCHANGED <<recent, cache, tasks>>
               ELSE /\ recent' = [recent EXCEPT ![d] = TRUE]
                    /\ cache' = [cache EXCEPT ![d].tabs = tabs[d]]
                    /\ tasks' = tasks \union SpawnedTasks(d, tabs[d], hidden'[d]),
               Take(1, 0, SaveSpawned(d), 1)
        PROVE  \E new : OwnStep(d, new)
    <3>1. /\ tabs'[d] = tabs[d] \union {t}
          /\ \A c \in Device \ {d} : tabs'[c] = tabs[c]
      BY <2>3 DEF TypeOK
    <3>2. next'.ver = next.ver + SaveSpawned(d) /\ next'.uuid = next.uuid + 1
      BY <2>3 DEF Take
    <3>3. Numbered({t})
      <4>1. t \in Tab /\ next.uuid \in Nat
        BY <3>1 DEF TypeOK
      <4> QED
        BY <2>3, <3>2, <4>1 DEF Numbered
    <3>4. SpawnsWell(d, {t})
      <4>1. CASE recent[d]
        <5>1. tasks' = tasks /\ next'.ver = next.ver
          BY <2>3, <3>2, <4>1 DEF SaveSpawned, TypeOK
        <5> QED
          BY <5>1, NoneSpawned
      <4>2. CASE ~recent[d]
        <5>1. /\ tasks' = tasks \union SpawnedTasks(d, tabs[d], hidden'[d])
              /\ next'.ver = next.ver + Spawned(d)
          BY <2>3, <3>2, <4>2 DEF SaveSpawned
        <5> QED
          BY <2>1, <5>1, OneSpawned
      <4> QED
        BY <4>1, <4>2
    <3>5. cache'[d].ver = cache[d].ver /\ \A c \in Device \ {d} : cache'[c] = cache[c]
      <4>1. cache' = cache \/ cache' = [cache EXCEPT ![d].tabs = tabs[d]]
        BY <2>3
      <4> QED
        BY <4>1 DEF TypeOK, Doc
    <3>6. cache'[d].ver \in Bases(d)
      BY <3>5 DEF Bases
    <3>7. OwnStep(d, {t})
      BY <2>1, <3>1, <3>3, <3>4, <3>5, <3>6, SavingStep
    <3> QED
      BY <3>7
  <2> QED
    BY <1>5, <2>2, <2>3 DEF RestoreHidden
<1> QED
  BY <1>2, <1>3, <1>4, <1>5
\* A document of another version: its tabs are opened, open, or put away.
LEMMA OverwriteAdopt ==
    ASSUME OverwriteInv, TypeOK', NEW d \in Device, RemoteStateChanged(d)
    PROVE  \E new : OwnStep(d, new)
<1> USE DEF OverwriteInv, SafetyInv
<1>1. PICK doc \in mail[d] :
         /\ mail' = [mail EXCEPT ![d] = {}]
         /\ \/ /\ doc.ver = cache[d].ver
               /\ UNCHANGED <<tabs, cache, dirty, recent, tasks, opening, next>>
            \/ AdoptRemote(d, doc)
  BY DEF RemoteStateChanged
<1>2. /\ UNCHANGED <<shared, devfile, conn, pending, hidden, putaway, found, missed,
                     discarded>>
      /\ mail'[d] = {} /\ \A c \in Device \ {d} : mail'[c] = mail[c]
  BY <1>1 DEF RemoteStateChanged, fileVars, history, TypeOK
<1>3. hidden[d] \subseteq HiddenBy(d)
  BY DEF HiddenBy
<1>4. CASE UNCHANGED <<tabs, cache, dirty, recent, tasks, opening, next>>
  <2>1. pending[d].file.hidden \subseteq HiddenBy(d)
    BY DEF HiddenBy
  <2>2. OwnStep(d, {})
    BY <1>2, <1>4, <2>1, QuietStep
  <2> QED
    BY <2>2
<1>5. CASE AdoptRemote(d, doc)
  <2> DEFINE news   == RemoteOnly(d, doc)
             opened == AdoptedTabs(next.uuid, news)
             count  == IF news # {} /\ ~recent[d] THEN 1 ELSE 0
  <2>1. PICK new : /\ Numbered(new)
                   /\ tabs' = [tabs EXCEPT ![d] = @ \union new]
    BY <1>5, AdoptFacts
  <2>2. /\ tabs' = [tabs EXCEPT ![d] = @ \union opened]
        /\ cache' = [cache EXCEPT ![d] = doc]
        /\ \/ /\ count = 1
              /\ \E t \in opened :
                    tasks' = tasks \union SpawnedTasks(d, tabs[d] \union {t}, hidden[d])
           \/ tasks' = tasks
        /\ next'.ver = next.ver + count
    BY <1>5 DEF AdoptRemote, Take
  <2>3. /\ tabs'[d] = tabs[d] \union opened /\ tabs'[d] = tabs[d] \union new
        /\ \A c \in Device \ {d} : tabs'[c] = tabs[c]
        /\ cache'[d] = doc /\ \A c \in Device \ {d} : cache'[c] = cache[c]
    BY <2>1, <2>2 DEF TypeOK
  <2>0. next.uuid \in Nat /\ news \in SUBSET Tab
    BY DEF TypeOK, Doc, RemoteOnly
  <2>4. ASSUME NEW t \in doc.tabs PROVE t.tmux \in Accounted(d)'
    <3>1. CASE t \in news
      <4>1. SessionsIn(opened) = SessionsIn(news)
        BY <2>0, AdoptedTabsNumbered
      <4> QED
        BY <2>3, <3>1, <4>1 DEF Accounted, SessionsIn
    <3>2. t \in TabsAround /\ tabs[d] \subseteq TabsAround
      BY AroundParts
    <3>3. CASE t.uuid \in UuidsIn(tabs[d])
      <4>1. t \in tabs[d]
        BY <3>2, <3>3 DEF UuidsNameTabs, UuidsIn
      <4> QED
        BY <2>3, <4>1 DEF Accounted, SessionsIn
    <3>4. CASE t.uuid \in hidden[d]
      <4>1. PICK u \in putaway[d] : u.uuid = t.uuid
        BY <1>3, <3>4 DEF HiddenPutAway, UuidsIn
      <4>2. u \in Remembered
        BY <4>1 DEF Remembered
      <4>3. u = t
        BY <3>2, <4>1, <4>2 DEF RememberedByUuid
      <4> QED
        BY <1>2, <4>3 DEF Accounted, SessionsIn
    <3> QED
      BY <3>1, <3>3, <3>4 DEF RemoteOnly
  <2>5. doc.ver \in Learnt(d)
    <3>1. doc \in DocsInUse
      BY DEF DocsInUse
    <3>2. SessionsIn(doc.tabs) \subseteq Known(d)'
      BY <2>4 DEF Known, SessionsIn
    <3> QED
      BY <3>1, <3>2 DEF Learnt
  <2> HIDE DEF opened
  <2>6. SpawnsWell(d, new)
    <3>1. next.ver \in Nat /\ count \in {0, 1}
      BY DEF TypeOK
    <3> HIDE DEF count
    <3>2. CASE tasks' = tasks
      BY <2>2, <3>1, <3>2 DEF SpawnsWell, NewTasks
    <3>3. ASSUME NEW t \in opened, count = 1,
                 tasks' = tasks \union SpawnedTasks(d, tabs[d] \union {t}, hidden[d])
          PROVE  SpawnsWell(d, new)
      <4>1. CASE conn[d] = "on"
        <5>1. next'.ver = next.ver + Spawned(d)
          BY <2>2, <3>3, <4>1 DEF Spawned
        <5>2. tabs[d] \union {t} \subseteq tabs[d] \union new
          BY <2>3
        <5> QED
          BY <1>3, <3>3, <5>1, <5>2, OneSpawned
      <4>2. CASE conn[d] # "on"
        <5>1. tasks' = tasks
          BY <3>3, <4>2 DEF SpawnedTasks
        <5> QED
          BY <3>2, <5>1
      <4> QED
        BY <4>1, <4>2
    <3> QED
      BY <2>2, <3>2, <3>3
  <2>7. OwnStep(d, new)
    BY <1>2, <1>3, <2>1, <2>3, <2>5, <2>6, SavingStep
  <2> QED
    BY <2>7
<1> QED
  BY <1>1, <1>4, <1>5

\* Restoring: what the attempt listed is open, opened, or hidden and so put away,
\* unless its tab is removed; what it only read of is missed.
LEMMA OverwriteRestore ==
    ASSUME OverwriteInv, TypeOK', NEW d \in Device, ServerConnected(d)
    PROVE  \E new : OwnStep(d, new)
<1> USE DEF OverwriteInv, SafetyInv
<1> DEFINE p == pending[d]
<1>1. PICK restored \in Restorable(d, p) : Reconcile(d, p, restored)
  BY DEF ServerConnected
<1> DEFINE kept   == KeptTabs(d, p, restored)
           opened == FreshTabs(next.uuid, restored)
           fresh  == IF kept \union opened = {}
                     THEN {[uuid |-> next.uuid, tmux |-> next.session]}
                     ELSE {}
           all    == kept \union opened \union fresh
           first  == {t \in opened \union fresh : t.uuid = next.uuid}
           early  == IF first # {} /\ ~recent[d] THEN 1 ELSE 0
           hid    == LoadedHidden(d, p)
           Task_(ver, ts) == [FlushTask(d, ver, ts, hid) EXCEPT
                                  !.base = p.shared.ver, !.ws = WorkspaceOf(p)]
           removed == tabs[d] \ kept
           unlisted == SessionsIn(p.shared.tabs)
                          \ (p.sessions \union SessionsIn(tabs[d]))
<1>2. /\ tabs' = [tabs EXCEPT ![d] = all]
      /\ hidden' = [hidden EXCEPT ![d] = hid]
      /\ cache' = [cache EXCEPT ![d] =
                      [ver |-> p.shared.ver, ws |-> WorkspaceOf(p), tabs |-> all]]
      /\ tasks' = tasks
            \union {Task_(next.ver, kept \union first) : x \in 1 .. early}
            \union {Task_(next.ver + early, all)}
      /\ Take(Cardinality(restored) + Cardinality(fresh),
              Cardinality(fresh), early + 1, 0)
      /\ discarded' = [discarded EXCEPT ![d] = @ \union SessionsIn(removed)]
      /\ missed' = [missed EXCEPT ![d] = @ \union unlisted]
  BY <1>1, Zenon DEF Reconcile
<1>3. PICK old, new :
         /\ old \subseteq tabs[d]
         /\ Numbered(new)
         /\ tabs' = [tabs EXCEPT ![d] = old \union new]
         /\ \A k \in tasks' : \/ k \in tasks
                              \/ k.tabs \subseteq old \union new /\ k.seen = {}
  <2> HIDE DEF kept, opened, fresh, all, first, early, hid, Task_, removed, unlisted
  <2> QED
    BY ReconcileFacts, Zenon
<1>4. \A ver, ts : LET k == Task_(ver, ts)
                   IN  k.dev = d /\ k.ver = ver /\ k.base = p.shared.ver /\ k.hid = hid
  <2> SUFFICES ASSUME NEW ver, NEW ts
               PROVE  LET k == Task_(ver, ts)
                      IN  k.dev = d /\ k.ver = ver /\ k.base = p.shared.ver /\ k.hid = hid
    OBVIOUS
  <2> HIDE DEF hid
  <2> QED
    BY DEF FlushTask
<1>5. early \in {0, 1} /\ next.ver \in Nat
  BY DEF TypeOK
<1>6. restored \subseteq SessionsIn(all)
  <2>1. next.uuid \in Nat /\ restored \in SUBSET Session
    BY DEF TypeOK, Attempt, Restorable, Candidates
  <2>2. SessionsIn(opened) = restored
    BY <2>1, FreshTabsNumbered
  <2> QED
    BY <2>2 DEF SessionsIn
<1>7. hid \subseteq HiddenBy(d)
  BY DEF LoadedHidden, HiddenBy
<1>8. kept \subseteq all
  OBVIOUS
<1> HIDE DEF Task_, early, fresh, kept, opened, first, all, hid
<1>9. next'.ver = next.ver + (early + 1)
  BY <1>2 DEF Take
<1>10. /\ tabs'[d] = all /\ tabs'[d] = old \union new
      /\ hidden'[d] = hid /\ cache'[d].ver = p.shared.ver
      /\ discarded'[d] = discarded[d] \union SessionsIn(removed)
      /\ missed'[d] = missed[d] \union unlisted
      /\ putaway' = putaway
  BY <1>2, <1>3 DEF TypeOK, ServerConnected
<1>11. \A t \in tabs[d] : t.tmux \in Explained(d)'
  BY <1>8, <1>10 DEF Explained, Accounted, SessionsIn
<1>12. ASSUME NEW s \in Candidates(d, p) PROVE s \in Explained(d)'
  <2>1. CASE s \in restored
    BY <1>6, <1>10, <2>1 DEF Explained, Accounted
  <2>2. CASE s \notin restored
    <3>1. PICK t \in p.shared.tabs : t.tmux = s /\ t.uuid \in LoadedHidden(d, p)
      BY <1>1, <2>2 DEF Restorable, SavedOn
    <3>2. t.uuid \in HiddenBy(d)
      BY <1>7, <3>1 DEF hid
    <3>3. PICK u \in putaway[d] : u.uuid = t.uuid
      BY <3>2 DEF HiddenPutAway, UuidsIn
    <3>4. u \in Remembered /\ t \in Remembered
      BY <3>1, <3>3 DEF Remembered
    <3>5. u = t
      BY <3>3, <3>4 DEF RememberedByUuid
    <3> QED
      BY <1>10, <3>1, <3>3, <3>5 DEF Explained, Accounted, SessionsIn
  <2> QED
    BY <2>1, <2>2
<1>13. \A t \in p.shared.tabs : t.tmux \in Known(d)'
  <2> SUFFICES ASSUME NEW t \in p.shared.tabs PROVE t.tmux \in Known(d)'
    OBVIOUS
  <2>1. Explained(d)' \subseteq Known(d)'
    BY DEF Explained, Known
  <2>2. CASE t.tmux \in SessionsIn(tabs[d])
    BY <1>11, <2>1, <2>2 DEF SessionsIn
  <2>3. CASE t.tmux \in p.sessions \ SessionsIn(tabs[d])
    <3>1. t.tmux \in Candidates(d, p)
      BY <2>3 DEF Candidates, SavedOn
    <3> QED
      BY <1>12, <2>1, <3>1
  <2>4. CASE t.tmux \notin p.sessions \union SessionsIn(tabs[d])
    BY <1>10, <2>4 DEF Known, SessionsIn
  <2> QED
    BY <2>2, <2>3, <2>4
<1>14. p.shared.ver \in Learnt(d)
  <2>1. p.shared \in DocsInUse
    BY DEF DocsInUse
  <2>2. SessionsIn(p.shared.tabs) \subseteq Known(d)'
    BY <1>13 DEF SessionsIn
  <2> QED
    BY <2>1, <2>2 DEF Learnt
<1>15. SpawnsWell(d, new)
  <2>1. ASSUME NEW k \in NewTasks
        PROVE  \/ k = Task_(next.ver + early, all)
               \/ early = 1 /\ k = Task_(next.ver, kept \union first)
    <3>1. k \in tasks' /\ k \notin tasks
      BY DEF NewTasks
    <3>2. \/ k = Task_(next.ver + early, all)
          \/ \E x \in 1 .. early : k = Task_(next.ver, kept \union first)
      BY <1>2, <3>1
    <3>3. CASE early = 1
      BY <3>2, <3>3
    <3>4. CASE early = 0
      <4>1. 1 .. early = {}
        BY <3>4
      <4> QED
        BY <3>2, <4>1
    <3> QED
      BY <1>5, <3>3, <3>4
  <2>2. \A k \in NewTasks :
           /\ k.dev = d /\ k.base = p.shared.ver /\ k.hid = hid
           /\ k.ver = next.ver + early \/ (early = 1 /\ k.ver = next.ver)
    BY <1>4, <2>1
  <2>3. \A k \in NewTasks : next.ver <= k.ver /\ k.ver < next'.ver
    BY <1>5, <1>9, <2>2
  <2>4. \A k, m \in NewTasks : k.ver = m.ver => k = m
    BY <1>4, <1>5, <2>1
  <2>5. \A k \in NewTasks : k.seen = {} /\ k.tabs \subseteq tabs[d] \union new
    BY <1>3 DEF NewTasks
  <2> QED
    BY <1>5, <1>7, <1>9, <1>14, <2>2, <2>3, <2>4, <2>5 DEF SpawnsWell
<1>16. found'[d] \subseteq Explained(d)'
  <2>1. found'[d] = Candidates(d, p) \union SessionsIn(tabs[d])
    BY DEF ServerConnected, TypeOK
  <2> QED
    BY <1>11, <1>12, <2>1 DEF SessionsIn
<1>17. /\ UNCHANGED <<shared, devfile>> /\ pending'[d] = NoAttempt /\ mail'[d] = {}
       /\ \A c \in Device \ {d} : Unmoved(c)
  BY <1>2 DEF ServerConnected, fileVars, TypeOK, Unmoved
<1>18. pending'[d].shared = NoDoc /\ pending'[d].file.hidden = {}
  BY <1>17 DEF NoAttempt, NoFile
<1>19. /\ SessionsIn(tabs[d]) \subseteq Explained(d)'
       /\ missed[d] \subseteq missed'[d] /\ discarded[d] \subseteq discarded'[d]
  BY <1>10, <1>11 DEF SessionsIn
<1>20. tabs'[d] \subseteq tabs[d] \union new
  BY <1>3, <1>10
<1>21. OwnStep(d, new)
  BY <1>3, <1>7, <1>10, <1>14, <1>15, <1>16, <1>17, <1>18, <1>19, <1>20 DEF OwnStep
<1> QED
  BY <1>21

LEMMA OverwriteStep == OverwriteInv /\ [Next]_vars => OverwriteInv'
<1> SUFFICES ASSUME OverwriteInv, [Next]_vars PROVE OverwriteInv'
  OBVIOUS
<1>0. SafetyInv' /\ TypeOK'
  BY SafetyStep DEF OverwriteInv, SafetyInv
<1>1. ASSUME NEW k \in tasks, FlushStep(k) PROVE OverwriteInv'
  BY <1>0, <1>1, OverwriteFlush
<1>2. ASSUME \/ \E o \in opening : AttachTab(o) \/ AttachFails(o)
             \/ \E o \in waiting : RetryAttach(o)
             \/ \E k \in kills : ExecuteKill(k) \/ KillFails(k)
             \/ \E s \in live : ShellExit(s)
             \/ \E d \in Device : \/ DebounceOver(d)
                                  \/ \E t \in tabs[d] : \/ LoseChannel(d, t)
                                                        \/ ReconnectDead(d, t)
             \/ UNCHANGED vars
      PROVE  OverwriteInv'
  <2>1. UNCHANGED <<fileVars, conn, pending, tabs, hidden, cache, mail, tasks,
                    putaway, found, missed, discarded>>
    BY <1>2
    DEF AttachTab, AttachFails, RetryAttach, LoseChannel, ReconnectDead, ExecuteKill,
        KillFails, ShellExit, DebounceOver, vars, deviceVars, watchVars, history
  <2>2. next' = next \/ Take(0, 0, 0, 1)
    BY <1>2, Zenon
    DEF AttachTab, AttachFails, RetryAttach, LoseChannel, ReconnectDead, ExecuteKill,
        KillFails, ShellExit, DebounceOver, vars
  <2>3. next'.uuid = next.uuid /\ next'.ver = next.ver
    BY <2>2 DEF Take, OverwriteInv, SafetyInv, TypeOK
  <2> QED
    BY <1>0, <2>1, <2>3, OverwriteIdle
<1>3. ASSUME NEW e \in exits, SessionExited(e) PROVE OverwriteInv'
  <2>1. e.dev \in Device
    BY DEF OverwriteInv, SafetyInv, TypeOK
  <2>2. CASE UNCHANGED <<fileVars, deviceVars, watchVars, live, named, opening,
                         waiting, dead, kills, tasks, next, history>>
    BY <1>0, <2>2, OverwriteIdle DEF deviceVars, watchVars, history
  <2>3. ASSUME NEW t \in tabs[e.dev], CloseTab(e.dev, t), Take(0, 0, Spawned(e.dev), 0)
        PROVE  OverwriteInv'
    BY <1>0, <2>1, <2>3, OverwriteClose, OwnStepKeeps
  <2> QED
    BY <1>3, <2>2, <2>3 DEF SessionExited
<1>4. ASSUME NEW d \in Device, DeviceStep(d) PROVE OverwriteInv'
  <2>1. CASE Crash(d)
    BY <1>0, <2>1, OverwriteCrash
  <2>2. CASE \/ DebounceOver(d)
             \/ \E t \in tabs[d] : LoseChannel(d, t) \/ ReconnectDead(d, t)
    BY <1>2, <2>2
  <2>3. ASSUME NEW new, OwnStep(d, new) PROVE OverwriteInv'
    BY <1>0, <2>3, OwnStepKeeps
  <2>4. CASE \/ Connect(d) \/ ConnectList(d) \/ ConnectRead(d) \/ ConnectFails(d)
             \/ ConnectDiscarded(d) \/ WatchEmit(d)
    BY <1>0, <2>3, <2>4, OverwriteConnect
  <2>5. CASE Disconnect(d)
    BY <1>0, <2>3, <2>5, OverwriteDisconnect
  <2>6. ASSUME NEW t \in tabs[d], UserCloses(d, t) PROVE OverwriteInv'
    BY <1>0, <2>3, <2>6, OverwriteClose DEF UserCloses
  <2>7. CASE \/ FlushTimer(d) \/ TouchTabs(d) \/ NewTab(d)
             \/ \E t \in tabs[d] : HideTab(d, t)
             \/ \E u \in hidden[d] : RestoreHidden(d, u)
    BY <1>0, <2>3, <2>7, OverwriteUser
  <2>8. CASE RemoteStateChanged(d)
    BY <1>0, <2>3, <2>8, OverwriteAdopt
  <2>9. CASE ServerConnected(d)
    BY <1>0, <2>3, <2>9, OverwriteRestore
  <2> QED
    BY <1>4, <2>1, <2>2, <2>4, <2>5, <2>6, <2>7, <2>8, <2>9 DEF DeviceStep
<1> QED
  BY <1>1, <1>2, <1>3, <1>4 DEF Next, ServerStep

(***************************************************************************)
(* One version, one content: no two different documents go by one version, *)
(* in the file, in a message or in a connection attempt, so that comparing *)
(* versions tells a device whether it has seen a document.                 *)
(***************************************************************************)
THEOREM VersionsExact == Spec => []VersionsNameContent
<1>1. OverwriteInv => VersionsNameContent
  BY DEF OverwriteInv
<1> QED
  BY <1>1, OverwriteInit, OverwriteStep, PTL DEF Spec

(***************************************************************************)
(* A flush that overwrites the file without merging drops no session but   *)
(* those its device has open or its user closed or put away, those of      *)
(* tabs it removed as placeholders, and those it took the file over with   *)
(* although its list did not have them.  This holds while flushes of all   *)
(* devices are in flight, whatever reads, writes and merges fail.          *)
(***************************************************************************)
THEOREM OverwritesSeen == Spec => []NoUnseenOverwrite
<1>1. OverwriteInv => NoUnseenOverwrite
  <2> SUFFICES ASSUME OverwriteInv, NEW k \in tasks, shared.ver # 0, ~Conflict(k)
               PROVE  SessionsIn(shared.tabs) \subseteq Known(k.dev)
    BY DEF NoUnseenOverwrite, Known
  <2>1. k.dev \in Device
    BY DEF OverwriteInv, SafetyInv, TypeOK, Task
  <2>2. shared \in DocsInUse /\ shared.ver \in Bases(k.dev)
    BY DEF DocsInUse, Bases, Conflict
  <2> QED
    BY <2>1, <2>2 DEF OverwriteInv, BasesAccounted
<1> QED
  BY <1>1, OverwriteInit, OverwriteStep, PTL DEF Spec

(***************************************************************************)
(* A connected device accounts for every session of its workspace that it  *)
(* listed when it connected: it keeps a tab on it open, or its user put it *)
(* away, or the device removed its tab as a placeholder.                   *)
(***************************************************************************)
THEOREM FoundAccounted == Spec => []FoundSessionsStayOpen
<1>1. OverwriteInv => FoundSessionsStayOpen
  BY DEF OverwriteInv
<1> QED
  BY <1>1, OverwriteInit, OverwriteStep, PTL DEF Spec

-----------------------------------------------------------------------------
(***************************************************************************)
(* Merging.                                                                *)
(***************************************************************************)

-----------------------------------------------------------------------------
(***************************************************************************)
(* The places of a subsequence.                                            *)
(***************************************************************************)
\* The numbers in I, m in all, from the least on.
Enumerates(e, m, I) ==
    /\ e \in [1 .. m -> I]
    /\ \A a, b \in 1 .. m : a < b => e[a] < e[b]
    /\ \A i \in I : \E a \in 1 .. m : e[a] = i

Rank(I, i) == Cardinality({j \in I : j <= i})

LEMMA EnumerationCounts ==
    ASSUME NEW I \in SUBSET Nat, NEW m \in Nat, NEW e, Enumerates(e, m, I)
    PROVE  /\ Cardinality(I) = m
           /\ \A k \in 1 .. m : Rank(I, e[k]) = k
<1>1. e \in [1 .. m -> I] /\ \A a \in 1 .. m : e[a] \in Nat
  BY DEF Enumerates
<1>2. \A a, b \in 1 .. m : (a < b <=> e[a] < e[b]) /\ (e[a] = e[b] => a = b)
  BY <1>1 DEF Enumerates
<1>3. Cardinality(I) = m
  <2>1. e \in Bijection(1 .. m, I)
    BY <1>1, <1>2 DEF Enumerates, Bijection, Injection, Surjection, IsInjective
  <2> QED BY <2>1, FS_CountingElements DEF ExistsBijection
<1>4. ASSUME NEW k \in 1 .. m PROVE Rank(I, e[k]) = k
  <2> DEFINE S == {j \in I : j <= e[k]}
             f == [a \in 1 .. k |-> e[a]]
  <2>1. k \in Nat /\ 1 .. k \subseteq 1 .. m
    OBVIOUS
  <2>2. \A a \in 1 .. k : e[a] \in S
    BY <2>1, <1>1, <1>2
  <2>3. \A j \in S : \E a \in 1 .. k : f[a] = j
    <3> SUFFICES ASSUME NEW j \in S PROVE \E a \in 1 .. k : f[a] = j
      OBVIOUS
    <3>1. PICK a \in 1 .. m : e[a] = j
      BY DEF Enumerates
    <3>2. a \in 1 .. k
      BY <3>1, <1>1, <1>2
    <3> QED BY <3>1, <3>2
  <2>4. f \in [1 .. k -> S]
    BY <2>2
  <2>5. \A a, b \in 1 .. k : f[a] = f[b] => a = b
    BY <2>1, <1>2
  <2> HIDE DEF f, S
  <2>6. f \in Bijection(1 .. k, S)
    BY <2>3, <2>4, <2>5 DEF Bijection, Injection, Surjection, IsInjective
  <2>7. Cardinality(S) = k
    BY <2>6, <2>1, FS_CountingElements DEF ExistsBijection
  <2> QED BY <2>7 DEF S, Rank
<1> QED BY <1>3, <1>4

LEMMA EnumerationExists ==
    ASSUME NEW n \in Nat, NEW I \in SUBSET (1 .. n)
    PROVE  \E m \in Nat : \E e : Enumerates(e, m, I)
<1>1. IsFiniteSet(I) /\ \A i \in I : i \in Nat
  <2>1. IsFiniteSet(1 .. n)
    BY FS_Interval
  <2>2. IsFiniteSet(I)
    BY <2>1, FS_Subset
  <2>3. \A i \in I : i \in Nat
    OBVIOUS
  <2> QED BY <2>2, <2>3
<1> DEFINE m == Cardinality(I)
           r == [i \in I |-> Rank(I, i)]
<1>2. m \in Nat
  BY <1>1, FS_CardinalityType
<1> HIDE DEF m
<1>3. \A i \in I : Rank(I, i) \in 1 .. m
  <2> SUFFICES ASSUME NEW i \in I PROVE Rank(I, i) \in 1 .. m
    OBVIOUS
  <2> DEFINE S == {j \in I : j <= i}
  <2>1. i \in S /\ S \in SUBSET I
    BY <1>1
  <2>2. IsFiniteSet(S) /\ Cardinality(S) <= m
    BY <2>1, <1>1, FS_Subset DEF m
  <2>3. Cardinality(S) \in Nat /\ Cardinality(S) # 0
    BY <2>1, <2>2, FS_CardinalityType, FS_EmptySet
  <2> QED BY <2>2, <2>3, <1>2 DEF Rank
<1>4. \A i, k \in I : i < k => Rank(I, i) < Rank(I, k)
  <2> SUFFICES ASSUME NEW i \in I, NEW k \in I, i < k
               PROVE  Rank(I, i) < Rank(I, k)
    OBVIOUS
  <2> DEFINE S == {j \in I : j <= i}
             U == {j \in I : j <= k}
  <2>0. i \in Nat /\ k \in Nat /\ \A j \in I : j \in Nat
    BY <1>1
  <2>1. S \in SUBSET U /\ k \in U /\ k \notin S
    <3>1. \A j \in I : j <= i => j <= k
      BY <2>0
    <3>2. k <= k /\ ~(k <= i)
      BY <2>0
    <3> QED BY <3>1, <3>2
  <2>2. U \in SUBSET I
    OBVIOUS
  <2>3. IsFiniteSet(U)
    BY <2>2, <1>1, FS_Subset
  <2> HIDE DEF S, U
  <2>4. IsFiniteSet(S) /\ Cardinality(S) <= Cardinality(U) /\ Cardinality(S) # Cardinality(U)
    BY <2>1, <2>3, FS_Subset
  <2>5. Cardinality(S) \in Nat /\ Cardinality(U) \in Nat
    BY <2>3, <2>4, FS_CardinalityType
  <2>6. Cardinality(S) < Cardinality(U)
    BY <2>4, <2>5
  <2> QED BY <2>6 DEF S, U, Rank
<1>5. \A i, k \in I : Rank(I, i) = Rank(I, k) => i = k
  BY <1>1, <1>3, <1>4
<1>6. r \in Injection(I, 1 .. m)
  BY <1>3, <1>5 DEF Injection, IsInjective
<1>7. r \in Surjection(I, 1 .. m)
  <2>1. IsFiniteSet(1 .. m) /\ Cardinality(1 .. m) = m
    BY <1>2, FS_Interval
  <2> QED BY <2>1, <1>6, FS_Injection DEF m
<1>8. \A k \in 1 .. m : \E i \in I : Rank(I, i) = k
  BY <1>7 DEF Surjection
<1> DEFINE e == [k \in 1 .. m |-> CHOOSE i \in I : Rank(I, i) = k]
<1>9. \A k \in 1 .. m : e[k] \in I /\ Rank(I, e[k]) = k
  BY <1>8
<1>10. \A i \in I : e[Rank(I, i)] = i
  BY <1>3, <1>5, <1>9
<1>11. e \in [1 .. m -> I]
  BY <1>9
<1> HIDE DEF e, r
<1>12. ASSUME NEW a \in 1 .. m, NEW b \in 1 .. m, a < b
       PROVE  e[a] < e[b]
  <2>1. e[a] \in I /\ e[b] \in I /\ Rank(I, e[a]) = a /\ Rank(I, e[b]) = b
    BY <1>9
  <2>2. e[a] \in Nat /\ e[b] \in Nat
    BY <2>1, <1>1
  <2>3. CASE e[b] < e[a]
    <3>1. b < a
      BY <2>1, <2>3, <1>4
    <3> QED BY <3>1, <1>2, <1>12
  <2>4. CASE e[b] = e[a]
    BY <2>1, <2>4, <1>2, <1>12
  <2> QED BY <2>2, <2>3, <2>4
<1>13. Enumerates(e, m, I)
  BY <1>3, <1>10, <1>11, <1>12 DEF Enumerates
<1> QED BY <1>2, <1>13

\* Any enumeration of I gives the subsequence.
LEMMA SubSeqIs ==
    ASSUME NEW I \in SUBSET Nat, NEW m \in Nat, NEW e, Enumerates(e, m, I), NEW s
    PROVE  SubSeqAt(s, I) = [k \in 1 .. m |-> s[e[k]]]
<1>1. Cardinality(I) = m /\ \A k \in 1 .. m : Rank(I, e[k]) = k
  BY EnumerationCounts
<1>2. ASSUME NEW k \in 1 .. m
      PROVE  (CHOOSE i \in I : Cardinality({j \in I : j <= i}) = k) = e[k]
  <2>1. \A i \in I : Rank(I, i) = k <=> i = e[k]
    BY <1>1 DEF Enumerates
  <2>2. e[k] \in I
    BY DEF Enumerates
  <2>3. (CHOOSE i \in I : Rank(I, i) = k) = e[k]
    BY <2>1, <2>2
  <2> QED BY <2>3 DEF Rank
<1>3. SubSeqAt(s, I) = [k \in 1 .. m |->
                            s[CHOOSE i \in I : Cardinality({j \in I : j <= i}) = k]]
  BY <1>1, Zenon DEF SubSeqAt
<1>4. \A k \in 1 .. m : s[CHOOSE i \in I : Cardinality({j \in I : j <= i}) = k] = s[e[k]]
  BY <1>2, Zenon
<1> QED BY <1>3, <1>4, Zenon

LEMMA SubSeqExists ==
    ASSUME NEW n \in Nat, NEW I \in SUBSET (1 .. n)
    PROVE  \E m \in Nat : \E e : /\ Enumerates(e, m, I)
                                 /\ \A s : SubSeqAt(s, I) = [k \in 1 .. m |-> s[e[k]]]
<1>1a. PICK m \in Nat : \E e : Enumerates(e, m, I)
  BY EnumerationExists
<1>1. PICK e : Enumerates(e, m, I)
  BY <1>1a
<1>2. I \in SUBSET Nat
  OBVIOUS
<1>3. ASSUME NEW s PROVE SubSeqAt(s, I) = [k \in 1 .. m |-> s[e[k]]]
  BY <1>1, <1>2, SubSeqIs
<1> QED BY <1>1, <1>3

-----------------------------------------------------------------------------
(***************************************************************************)
(* The tabs of one workspace.                                              *)
(***************************************************************************)
Entry(T) == [uuid : T, tmux : T, title : T, win : T, at : Nat, pos : Nat]

\* No two entries have one uuid.
Distinct(row) == \A i, j \in DOMAIN row : row[i].uuid = row[j].uuid => i = j

\* The same entry, but for its place.
Alike(a, b) == /\ a.uuid = b.uuid /\ a.tmux = b.tmux
               /\ a.title = b.title /\ a.win = b.win /\ a.at = b.at

LEMMA EntriesEqual ==
    ASSUME NEW T, NEW a \in Entry(T), NEW b \in Entry(T), Alike(a, b), a.pos = b.pos
    PROVE  a = b
BY DEF Entry, Alike

\* What a subsequence of entries holds, and that it keeps uuids apart.
LEMMA SubSeqHolds ==
    ASSUME NEW T, NEW row \in Seq(Entry(T)), NEW I \in SUBSET (DOMAIN row)
    PROVE  /\ SubSeqAt(row, I) \in Seq(Entry(T))
           /\ \A k \in DOMAIN SubSeqAt(row, I) : \E i \in I : SubSeqAt(row, I)[k] = row[i]
           /\ \A i \in I : \E k \in DOMAIN SubSeqAt(row, I) : SubSeqAt(row, I)[k] = row[i]
           /\ (\A i, j \in I : row[i].uuid = row[j].uuid => i = j)
                => Distinct(SubSeqAt(row, I))
<1>1. Len(row) \in Nat /\ DOMAIN row = 1 .. Len(row)
  OBVIOUS
<1>2. I \in SUBSET (1 .. Len(row))
  BY <1>1
<1>3a. PICK m \in Nat : \E e : /\ Enumerates(e, m, I)
                               /\ \A s : SubSeqAt(s, I) = [k \in 1 .. m |-> s[e[k]]]
  BY <1>1, <1>2, SubSeqExists
<1>3. PICK e : /\ Enumerates(e, m, I)
               /\ \A s : SubSeqAt(s, I) = [k \in 1 .. m |-> s[e[k]]]
  BY <1>3a
<1> DEFINE q == SubSeqAt(row, I)
<1>4. q = [k \in 1 .. m |-> row[e[k]]]
  BY <1>3
<1>5. /\ \A k \in 1 .. m : e[k] \in I
      /\ \A i \in I : \E k \in 1 .. m : e[k] = i
  BY <1>3 DEF Enumerates
<1>6. \A i \in I : row[i] \in Entry(T)
  BY <1>1
<1> HIDE DEF q
<1>7. q \in Seq(Entry(T)) /\ DOMAIN q = 1 .. m
  BY <1>4, <1>5, <1>6
<1>8. \A k \in DOMAIN q : \E i \in I : q[k] = row[i]
  BY <1>4, <1>5
<1>9. \A i \in I : \E k \in DOMAIN q : q[k] = row[i]
  BY <1>4, <1>5
<1>10. ASSUME \A i, j \in I : row[i].uuid = row[j].uuid => i = j
       PROVE  Distinct(q)
  <2> SUFFICES ASSUME NEW a \in 1 .. m, NEW b \in 1 .. m, q[a].uuid = q[b].uuid
               PROVE  a = b
    BY <1>7 DEF Distinct
  <2>1. q[a] = row[e[a]] /\ q[b] = row[e[b]] /\ e[a] \in I /\ e[b] \in I
    BY <1>4, <1>5
  <2>2. e[a] = e[b]
    BY <2>1, <1>10
  <2>3. \A i \in I : i \in Nat
    BY <1>2
  <2>4. ~(a < b) /\ ~(b < a)
    BY <1>3, <2>1, <2>2, <2>3 DEF Enumerates
  <2> QED BY <2>4
<1> QED BY <1>7, <1>8, <1>9, <1>10 DEF q

LEMMA AliveTabsHolds ==
    ASSUME NEW T, NEW row \in Seq(Entry(T)), NEW running
    PROVE  /\ AliveTabs(row, running) \in Seq(Entry(T))
           /\ \A k \in DOMAIN AliveTabs(row, running) :
                \E i \in DOMAIN row : /\ AliveTabs(row, running)[k] = row[i]
                                       /\ row[i].tmux \in running
           /\ \A i \in DOMAIN row : row[i].tmux \in running =>
                \E k \in DOMAIN AliveTabs(row, running) : AliveTabs(row, running)[k] = row[i]
           /\ Distinct(row) => Distinct(AliveTabs(row, running))
<1> DEFINE I == AliveAt(row, running)
<1>1. I \in SUBSET (DOMAIN row) /\ \A i \in DOMAIN row : i \in I <=> row[i].tmux \in running
  BY DEF AliveAt
<1>2. Distinct(row) => \A i, j \in I : row[i].uuid = row[j].uuid => i = j
  BY <1>1 DEF Distinct
<1>3. AliveTabs(row, running) = SubSeqAt(row, I)
  BY DEF AliveTabs
<1> HIDE DEF I
<1>4. PICK q : q = AliveTabs(row, running)
  OBVIOUS
<1>5. /\ q \in Seq(Entry(T))
      /\ \A k \in DOMAIN q : \E i \in I : q[k] = row[i]
      /\ \A i \in I : \E k \in DOMAIN q : q[k] = row[i]
      /\ (\A i, j \in I : row[i].uuid = row[j].uuid => i = j) => Distinct(q)
  BY <1>1, <1>3, <1>4, SubSeqHolds
<1> QED BY <1>1, <1>2, <1>4, <1>5

\* What is all alive stays as it is.
LEMMA AliveTabsFixed ==
    ASSUME NEW T, NEW row \in Seq(Entry(T)), NEW running,
           \A i \in DOMAIN row : row[i].tmux \in running
    PROVE  AliveTabs(row, running) = row
<1>1. PICK m \in Nat : m = Len(row) /\ DOMAIN row = 1 .. m
  OBVIOUS
<1>2. PICK e : e = [k \in 1 .. m |-> k]
  OBVIOUS
<1>3. PICK I : I = 1 .. m
  OBVIOUS
<1>4. AliveAt(row, running) = I
  BY <1>1, <1>3 DEF AliveAt
<1>5. Enumerates(e, m, I) /\ I \in SUBSET Nat
  BY <1>2, <1>3 DEF Enumerates
<1>6. SubSeqAt(row, I) = [k \in 1 .. m |-> row[e[k]]]
  BY <1>5, SubSeqIs
<1>7. row = [k \in 1 .. m |-> row[k]]
  BY <1>1
<1> QED BY <1>2, <1>4, <1>6, <1>7 DEF AliveTabs

\* A remote version is found under a uuid if there is one.
LEMMA RemoteFound ==
    ASSUME NEW T, NEW theirs \in Seq(Entry(T)), NEW u \in UuidsOf(theirs)
    PROVE  \E i \in DOMAIN theirs : /\ theirs[i].uuid = u
                                     /\ RemoteByUuid(theirs, u) = theirs[i]
<1> DEFINE I == {i \in DOMAIN theirs : theirs[i].uuid = u}
<1>1. I \in SUBSET (1 .. Len(theirs)) /\ Len(theirs) \in Nat
  OBVIOUS
<1>2. I # {}
  BY DEF UuidsOf, ToSet
<1>3a. PICK m \in Nat : \E e : Enumerates(e, m, I)
  BY <1>1, EnumerationExists
<1>3. PICK e : Enumerates(e, m, I)
  BY <1>3a
<1>4. m # 0
  BY <1>2, <1>3 DEF Enumerates
<1>5. e[m] \in I /\ \A j \in I : j <= e[m]
  <2>1. m \in 1 .. m
    BY <1>3, <1>4
  <2>2. e[m] \in I
    BY <2>1, <1>3 DEF Enumerates
  <2>3. ASSUME NEW j \in I PROVE j <= e[m]
    <3>1. PICK a \in 1 .. m : e[a] = j
      BY <1>3 DEF Enumerates
    <3>2. a = m \/ e[a] < e[m]
      BY <3>1, <2>1, <1>3 DEF Enumerates
    <3> QED BY <3>1, <3>2, <2>2, <1>1
  <2> QED BY <2>2, <2>3
<1>6. \E i \in DOMAIN theirs : /\ theirs[i].uuid = u
                                /\ \A j \in DOMAIN theirs : theirs[j].uuid = u => j <= i
  BY <1>5
<1> QED BY <1>6 DEF RemoteByUuid

\* A tab merged with its remote version.
LEMMA MergeTabIs ==
    ASSUME NEW T, NEW a \in Entry(T), NEW b \in Entry(T)
    PROVE  LET c == MergeTab(a, b) IN
           /\ c \in Entry(T)
           /\ c.uuid = a.uuid /\ c.tmux = a.tmux /\ c.pos = a.pos
           /\ b.at > a.at => c.title = b.title /\ c.win = b.win /\ c.at = b.at
           /\ ~(b.at > a.at) => c = a
<1>1. a.at \in Nat /\ b.at \in Nat
  BY DEF Entry
<1>2. NewerThan(b.at, a.at) <=> b.at > a.at
  BY <1>1 DEF NewerThan
<1>3. CASE b.at > a.at
  <2>1. MergeTab(a, b) = [a EXCEPT !.title = b.title, !.win = b.win, !.at = b.at]
    BY <1>2, <1>3 DEF MergeTab
  <2> QED BY <1>3, <2>1 DEF Entry
<1>4. CASE ~(b.at > a.at)
  <2>1. MergeTab(a, b) = a
    BY <1>2, <1>4 DEF MergeTab
  <2> QED BY <1>4, <2>1
<1> QED BY <1>3, <1>4

\* The remote version of a tab is newer, and the tab takes its title and window.
TakesOver(c, a, b) == /\ b.at > a.at
                      /\ c.title = b.title /\ c.win = b.win /\ c.at = b.at

LEMMA MergedLocalsHold ==
    ASSUME NEW T, NEW mine \in Seq(Entry(T)), NEW theirs \in Seq(Entry(T))
    PROVE  LET kept == MergedLocals(mine, theirs) IN
           /\ kept \in Seq(Entry(T)) /\ DOMAIN kept = DOMAIN mine
           /\ \A k \in DOMAIN mine : kept[k].uuid = mine[k].uuid /\ kept[k].tmux = mine[k].tmux
           /\ \A k \in DOMAIN mine :
                \/ mine[k].uuid \notin UuidsOf(theirs) /\ kept[k] = mine[k]
                \/ \E i \in DOMAIN theirs :
                      /\ theirs[i].uuid = mine[k].uuid
                      /\ RemoteByUuid(theirs, mine[k].uuid) = theirs[i]
                      /\ \/ TakesOver(kept[k], mine[k], theirs[i])
                         \/ ~(theirs[i].at > mine[k].at) /\ kept[k] = mine[k]
<1> DEFINE kept == MergedLocals(mine, theirs)
<1>1. /\ Len(mine) \in Nat /\ DOMAIN mine = 1 .. Len(mine)
      /\ \A k \in DOMAIN mine : mine[k] \in Entry(T)
      /\ \A i \in DOMAIN theirs : theirs[i] \in Entry(T)
  OBVIOUS
<1>2. kept = [k \in DOMAIN mine |->
                IF mine[k].uuid \in UuidsOf(theirs)
                THEN MergeTab(mine[k], RemoteByUuid(theirs, mine[k].uuid)) ELSE mine[k]]
  BY DEF MergedLocals
<1> HIDE DEF kept
<1>3. ASSUME NEW k \in DOMAIN mine, mine[k].uuid \in UuidsOf(theirs)
      PROVE  /\ kept[k] \in Entry(T)
             /\ kept[k].uuid = mine[k].uuid /\ kept[k].tmux = mine[k].tmux
             /\ \E i \in DOMAIN theirs :
                    /\ theirs[i].uuid = mine[k].uuid
                    /\ RemoteByUuid(theirs, mine[k].uuid) = theirs[i]
                    /\ \/ TakesOver(kept[k], mine[k], theirs[i])
                       \/ ~(theirs[i].at > mine[k].at) /\ kept[k] = mine[k]
  <2>1. PICK i \in DOMAIN theirs : /\ theirs[i].uuid = mine[k].uuid
                                   /\ RemoteByUuid(theirs, mine[k].uuid) = theirs[i]
    BY <1>3, RemoteFound
  <2>2. kept[k] = MergeTab(mine[k], theirs[i])
    BY <1>2, <1>3, <2>1
  <2>3. mine[k] \in Entry(T) /\ theirs[i] \in Entry(T)
    BY <1>1
  <2>4. /\ kept[k] \in Entry(T)
        /\ kept[k].uuid = mine[k].uuid /\ kept[k].tmux = mine[k].tmux
        /\ \/ TakesOver(kept[k], mine[k], theirs[i])
           \/ ~(theirs[i].at > mine[k].at) /\ kept[k] = mine[k]
    BY <2>2, <2>3, MergeTabIs DEF TakesOver
  <2> QED BY <2>1, <2>4
<1>4. ASSUME NEW k \in DOMAIN mine, mine[k].uuid \notin UuidsOf(theirs)
      PROVE  kept[k] = mine[k]
  BY <1>2, <1>4
<1>5. \A k \in DOMAIN mine : kept[k] \in Entry(T)
  BY <1>1, <1>3, <1>4
<1>6. DOMAIN kept = DOMAIN mine
  BY <1>2
<1>7. kept \in Seq(Entry(T))
  <2>1. kept = [k \in 1 .. Len(mine) |-> kept[k]]
    BY <1>1, <1>2
  <2> QED BY <2>1, <1>1, <1>5
<1>8. \A k \in DOMAIN mine : kept[k].uuid = mine[k].uuid /\ kept[k].tmux = mine[k].tmux
  BY <1>3, <1>4
<1> QED BY <1>3, <1>4, <1>6, <1>7, <1>8 DEF kept

LEMMA UuidOfEntry ==
    ASSUME NEW S, NEW row \in Seq(S), NEW u
    PROVE  u \in UuidsOf(row) <=> \E i \in DOMAIN row : row[i].uuid = u
BY DEF UuidsOf, ToSet

\* The tabs adopted from the remote side.
LEMMA AdoptedHold ==
    ASSUME NEW T, NEW mine \in Seq(Entry(T)), NEW theirs \in Seq(Entry(T)), NEW running
    PROVE  LET got == SubSeqAt(theirs, AdoptedAt(mine, theirs, running)) IN
           /\ got \in Seq(Entry(T)) /\ Distinct(got)
           /\ \A k \in DOMAIN got : \E i \in DOMAIN theirs :
                /\ got[k] = theirs[i] /\ theirs[i].tmux \in running
                /\ theirs[i].uuid \notin UuidsOf(mine)
           /\ \A i \in DOMAIN theirs :
                theirs[i].tmux \in running /\ theirs[i].uuid \notin UuidsOf(mine)
                    => \E k \in DOMAIN got : got[k].uuid = theirs[i].uuid
<1> DEFINE I == AdoptedAt(mine, theirs, running)
           A == AliveAt(theirs, running)
<1>1. /\ Len(theirs) \in Nat /\ DOMAIN theirs = 1 .. Len(theirs)
      /\ A \in SUBSET (1 .. Len(theirs)) /\ I \in SUBSET (DOMAIN theirs)
      /\ \A i \in DOMAIN theirs : i \in A <=> theirs[i].tmux \in running
      /\ \A i \in DOMAIN theirs : i \in I <=>
            /\ i \in A /\ theirs[i].uuid \notin UuidsOf(mine)
            /\ \A j \in A : theirs[j].uuid = theirs[i].uuid => i <= j
  BY DEF AdoptedAt, AliveAt
<1>2. PICK got : got = SubSeqAt(theirs, I)
  OBVIOUS
<1> HIDE DEF I, A
<1>3. \A i, j \in I : theirs[i].uuid = theirs[j].uuid => i = j
  <2> SUFFICES ASSUME NEW i \in I, NEW j \in I, theirs[i].uuid = theirs[j].uuid PROVE i = j
    OBVIOUS
  <2>1. i \in A /\ j \in A /\ i \in Nat /\ j \in Nat
    BY <1>1
  <2>2. i <= j /\ j <= i
    BY <1>1, <2>1
  <2> QED BY <2>1, <2>2
<1>4. /\ got \in Seq(Entry(T)) /\ Distinct(got)
      /\ \A k \in DOMAIN got : \E i \in I : got[k] = theirs[i]
      /\ \A i \in I : \E k \in DOMAIN got : got[k] = theirs[i]
  BY <1>1, <1>2, <1>3, SubSeqHolds
<1>5. ASSUME NEW i \in DOMAIN theirs, theirs[i].tmux \in running,
             theirs[i].uuid \notin UuidsOf(mine)
      PROVE  \E k \in DOMAIN got : got[k].uuid = theirs[i].uuid
  <2> DEFINE J == {j \in A : theirs[j].uuid = theirs[i].uuid}
  <2>1. J \in SUBSET (1 .. Len(theirs)) /\ i \in J
    BY <1>1, <1>5
  <2>2a. PICK m \in Nat : \E e : Enumerates(e, m, J)
    BY <1>1, <2>1, EnumerationExists
  <2>2. PICK e : Enumerates(e, m, J)
    BY <2>2a
  <2>3. m # 0
    BY <2>1, <2>2 DEF Enumerates
  <2>4. 1 \in 1 .. m /\ e[1] \in J
    BY <2>2, <2>3 DEF Enumerates
  <2>5. ASSUME NEW j \in J PROVE e[1] <= j
    <3>1. PICK a \in 1 .. m : e[a] = j
      BY <2>2 DEF Enumerates
    <3>2. a = 1 \/ e[1] < e[a]
      BY <3>1, <2>4, <2>2 DEF Enumerates
    <3>3. e[1] \in Nat /\ j \in Nat
      BY <2>1, <2>4
    <3> QED BY <3>1, <3>2, <3>3
  <2>6. e[1] \in I
    BY <1>1, <1>5, <2>1, <2>4, <2>5
  <2>7. PICK k \in DOMAIN got : got[k] = theirs[e[1]]
    BY <1>4, <2>6
  <2> QED BY <2>4, <2>7
<1>6. \A k \in DOMAIN got : \E i \in DOMAIN theirs :
            /\ got[k] = theirs[i] /\ theirs[i].tmux \in running
            /\ theirs[i].uuid \notin UuidsOf(mine)
  BY <1>1, <1>4
<1> QED BY <1>2, <1>4, <1>5, <1>6 DEF I

LEMMA ReindexHolds ==
    ASSUME NEW T, NEW row \in Seq(Entry(T))
    PROVE  LET new == Reindex(row) IN
           /\ new \in Seq(Entry(T)) /\ DOMAIN new = DOMAIN row /\ Len(new) = Len(row)
           /\ \A i \in DOMAIN row : Alike(new[i], row[i]) /\ new[i].pos = i - 1
<1>1. Len(row) \in Nat /\ DOMAIN row = 1 .. Len(row)
  OBVIOUS
<1>2. PICK new : new = Reindex(row)
  OBVIOUS
<1>3. new = [i \in 1 .. Len(row) |-> [row[i] EXCEPT !.pos = i - 1]]
  BY <1>1, <1>2 DEF Reindex
<1>4. ASSUME NEW i \in 1 .. Len(row)
      PROVE  new[i] \in Entry(T) /\ Alike(new[i], row[i]) /\ new[i].pos = i - 1
  <2>1. row[i] \in Entry(T) /\ i - 1 \in Nat
    BY <1>1
  <2>2. new[i] = [row[i] EXCEPT !.pos = i - 1]
    BY <1>3
  <2> QED BY <2>1, <2>2 DEF Entry, Alike
<1>5. new \in Seq(Entry(T)) /\ DOMAIN new = DOMAIN row /\ Len(new) = Len(row)
  <2>1. DOMAIN new = 1 .. Len(row)
    BY <1>3
  <2>2. new = [i \in 1 .. Len(row) |-> new[i]]
    BY <1>3
  <2>3. new \in [1 .. Len(row) -> Entry(T)]
    BY <1>4, <2>2
  <2> QED BY <1>1, <2>1, <2>3
<1> QED BY <1>1, <1>2, <1>4, <1>5

\* Entries whose positions count up from 0 are as they were.
LEMMA ReindexFixed ==
    ASSUME NEW T, NEW row \in Seq(Entry(T)), NEW out \in Seq(Entry(T)),
           Len(row) = Len(out),
           \A i \in DOMAIN out : Alike(row[i], out[i]) /\ out[i].pos = i - 1
    PROVE  Reindex(row) = out
<1>1. Len(out) \in Nat /\ DOMAIN out = 1 .. Len(out) /\ DOMAIN row = 1 .. Len(out)
  OBVIOUS
<1>2. PICK new : new = Reindex(row)
  OBVIOUS
<1>3. /\ new \in Seq(Entry(T)) /\ DOMAIN new = DOMAIN row /\ Len(new) = Len(row)
      /\ \A i \in DOMAIN row : Alike(new[i], row[i]) /\ new[i].pos = i - 1
  BY <1>2, ReindexHolds
<1>4. ASSUME NEW i \in 1 .. Len(out) PROVE new[i] = out[i]
  <2>1. new[i] \in Entry(T) /\ out[i] \in Entry(T) /\ new[i].pos = out[i].pos
    BY <1>1, <1>3
  <2>2. Alike(new[i], out[i])
    BY <1>1, <1>3 DEF Alike
  <2> QED BY <2>1, <2>2, EntriesEqual
<1>5. new = out
  BY <1>1, <1>3, <1>4
<1> QED BY <1>2, <1>5

Kept(ours, theirs, running) == MergedLocals(AliveTabs(ours, running), theirs)
Got(ours, theirs, running) ==
    SubSeqAt(theirs, AdoptedAt(AliveTabs(ours, running), theirs, running))

\* The merged tabs are the kept ones and, behind them, the adopted ones.
LEMMA MergedHold ==
    ASSUME NEW T, NEW ours \in Seq(Entry(T)), NEW theirs \in Seq(Entry(T)), NEW running
    PROVE  LET out  == MergeTabs(ours, theirs, running)
               kept == Kept(ours, theirs, running)
               got  == Got(ours, theirs, running) IN
           /\ out \in Seq(Entry(T)) /\ Len(out) = Len(kept) + Len(got)
           /\ \A i \in DOMAIN out : out[i].pos = i - 1
           /\ \A k \in DOMAIN kept : k \in DOMAIN out /\ Alike(out[k], kept[k])
           /\ \A k \in DOMAIN got : /\ Len(kept) + k \in DOMAIN out
                                    /\ Alike(out[Len(kept) + k], got[k])
           /\ \A i \in DOMAIN out : \/ i \in DOMAIN kept
                                    \/ i - Len(kept) \in DOMAIN got
<1>1. PICK mine : mine = AliveTabs(ours, running)
  OBVIOUS
<1>2. mine \in Seq(Entry(T))
  BY <1>1, AliveTabsHolds
<1>3. PICK kept : kept = MergedLocals(mine, theirs)
  OBVIOUS
<1>4. PICK got : got = SubSeqAt(theirs, AdoptedAt(mine, theirs, running))
  OBVIOUS
<1>5. kept \in Seq(Entry(T)) /\ got \in Seq(Entry(T))
  BY <1>2, <1>3, <1>4, MergedLocalsHold, AdoptedHold
<1>6. PICK all : all = kept \o got
  OBVIOUS
<1>7. /\ all \in Seq(Entry(T)) /\ Len(all) = Len(kept) + Len(got)
      /\ DOMAIN all = 1 .. Len(kept) + Len(got)
      /\ \A k \in DOMAIN kept : all[k] = kept[k]
      /\ \A k \in DOMAIN got : all[Len(kept) + k] = got[k]
  BY <1>5, <1>6
<1>8. PICK out : out = Reindex(all)
  OBVIOUS
<1>9. /\ out \in Seq(Entry(T)) /\ DOMAIN out = DOMAIN all /\ Len(out) = Len(all)
      /\ \A i \in DOMAIN all : Alike(out[i], all[i]) /\ out[i].pos = i - 1
  BY <1>7, <1>8, ReindexHolds
<1>10. out = MergeTabs(ours, theirs, running)
  BY <1>1, <1>3, <1>4, <1>6, <1>8 DEF MergeTabs
<1>11. kept = Kept(ours, theirs, running) /\ got = Got(ours, theirs, running)
  BY <1>1, <1>3, <1>4 DEF Kept, Got
<1>12. Len(kept) \in Nat /\ Len(got) \in Nat
       /\ DOMAIN kept = 1 .. Len(kept) /\ DOMAIN got = 1 .. Len(got)
  BY <1>5
<1>13. \A k \in DOMAIN kept : k \in DOMAIN out /\ Alike(out[k], kept[k])
  BY <1>7, <1>9, <1>12
<1>14. \A k \in DOMAIN got : /\ Len(kept) + k \in DOMAIN out
                             /\ Alike(out[Len(kept) + k], got[k])
  BY <1>7, <1>9, <1>12
<1>15. \A i \in DOMAIN out : i \in DOMAIN kept \/ i - Len(kept) \in DOMAIN got
  BY <1>7, <1>9, <1>12
<1> QED BY <1>7, <1>9, <1>10, <1>11, <1>13, <1>14, <1>15

LEMMA KeptIs ==
    ASSUME NEW T, NEW ours \in Seq(Entry(T)), NEW theirs \in Seq(Entry(T)), NEW running,
           Distinct(ours)
    PROVE  LET kept == Kept(ours, theirs, running)
               got  == Got(ours, theirs, running) IN
           /\ kept \in Seq(Entry(T)) /\ got \in Seq(Entry(T))
           /\ Distinct(kept) /\ Distinct(got)
           /\ \A k \in DOMAIN kept : kept[k].tmux \in running
           /\ \A k \in DOMAIN got : got[k].tmux \in running
           /\ \A k \in DOMAIN kept, j \in DOMAIN got : kept[k].uuid # got[j].uuid
<1>1. PICK mine : mine = AliveTabs(ours, running)
  OBVIOUS
<1>2. /\ mine \in Seq(Entry(T)) /\ Distinct(mine)
      /\ \A k \in DOMAIN mine : mine[k].tmux \in running
  BY <1>1, AliveTabsHolds
<1>3. PICK kept : kept = MergedLocals(mine, theirs)
  OBVIOUS
<1>4. /\ kept \in Seq(Entry(T)) /\ DOMAIN kept = DOMAIN mine
      /\ \A k \in DOMAIN mine : kept[k].uuid = mine[k].uuid /\ kept[k].tmux = mine[k].tmux
  BY <1>2, <1>3, MergedLocalsHold
<1>5. PICK got : got = SubSeqAt(theirs, AdoptedAt(mine, theirs, running))
  OBVIOUS
<1>6. /\ got \in Seq(Entry(T)) /\ Distinct(got)
      /\ \A k \in DOMAIN got : \E i \in DOMAIN theirs :
            /\ got[k] = theirs[i] /\ theirs[i].tmux \in running
            /\ theirs[i].uuid \notin UuidsOf(mine)
  BY <1>2, <1>5, AdoptedHold
<1>7. \A k \in DOMAIN mine : mine[k].uuid \in UuidsOf(mine)
  BY <1>2, UuidOfEntry
<1>8. \A k \in DOMAIN kept, j \in DOMAIN got : kept[k].uuid # got[j].uuid
  BY <1>4, <1>6, <1>7
<1>9. Distinct(kept)
  BY <1>2, <1>4 DEF Distinct
<1>10. \A k \in DOMAIN kept : kept[k].tmux \in running
  BY <1>2, <1>4
<1>11. \A k \in DOMAIN got : got[k].tmux \in running
  BY <1>6
<1>12. kept = Kept(ours, theirs, running) /\ got = Got(ours, theirs, running)
  BY <1>1, <1>3, <1>5 DEF Kept, Got
<1> QED BY <1>4, <1>6, <1>8, <1>9, <1>10, <1>11, <1>12

\* A merge has each uuid once, and live tabs only.
LEMMA MergedDistinct ==
    ASSUME NEW T, NEW ours \in Seq(Entry(T)), NEW theirs \in Seq(Entry(T)), NEW running,
           Distinct(ours)
    PROVE  LET out == MergeTabs(ours, theirs, running) IN
           /\ Distinct(out)
           /\ \A i \in DOMAIN out : out[i].tmux \in running
<1>1. PICK out, kept, got : /\ out  = MergeTabs(ours, theirs, running)
                            /\ kept = Kept(ours, theirs, running)
                            /\ got  = Got(ours, theirs, running)
  OBVIOUS
<1>2. /\ kept \in Seq(Entry(T)) /\ got \in Seq(Entry(T))
      /\ Distinct(kept) /\ Distinct(got)
      /\ \A k \in DOMAIN kept : kept[k].tmux \in running
      /\ \A k \in DOMAIN got : got[k].tmux \in running
      /\ \A k \in DOMAIN kept, j \in DOMAIN got : kept[k].uuid # got[j].uuid
  BY <1>1, KeptIs
<1>3. /\ out \in Seq(Entry(T))
      /\ \A k \in DOMAIN kept : Alike(out[k], kept[k])
      /\ \A k \in DOMAIN got : Alike(out[Len(kept) + k], got[k])
      /\ \A i \in DOMAIN out : i \in DOMAIN kept \/ i - Len(kept) \in DOMAIN got
  BY <1>1, MergedHold
<1>4. Len(kept) \in Nat /\ \A i \in DOMAIN out : i \in Nat
  BY <1>2, <1>3
<1>5. \A i \in DOMAIN out :
        \/ i \in DOMAIN kept /\ out[i].uuid = kept[i].uuid /\ out[i].tmux = kept[i].tmux
        \/ \E k \in DOMAIN got : /\ k = i - Len(kept)
                                 /\ out[i].uuid = got[k].uuid /\ out[i].tmux = got[k].tmux
  <2> SUFFICES ASSUME NEW i \in DOMAIN out, i \notin DOMAIN kept
               PROVE  \E k \in DOMAIN got : /\ k = i - Len(kept)
                            /\ out[i].uuid = got[k].uuid /\ out[i].tmux = got[k].tmux
    BY <1>3 DEF Alike
  <2>1. PICK k \in DOMAIN got : k = i - Len(kept)
    BY <1>3
  <2>2. Len(kept) + k = i
    BY <2>1, <1>4
  <2> QED BY <2>1, <2>2, <1>3 DEF Alike
<1>6. \A i \in DOMAIN out : out[i].tmux \in running
  BY <1>2, <1>5
<1>7. Distinct(out)
  <2> SUFFICES ASSUME NEW i \in DOMAIN out, NEW j \in DOMAIN out, out[i].uuid = out[j].uuid
               PROVE  i = j
    BY DEF Distinct
  <2>1. CASE i \in DOMAIN kept /\ j \in DOMAIN kept
    BY <2>1, <1>2, <1>3 DEF Distinct, Alike
  <2>2. CASE i \notin DOMAIN kept /\ j \notin DOMAIN kept
    <3>1. PICK k \in DOMAIN got : k = i - Len(kept) /\ out[i].uuid = got[k].uuid
      BY <2>2, <1>5
    <3>2. PICK n \in DOMAIN got : n = j - Len(kept) /\ out[j].uuid = got[n].uuid
      BY <2>2, <1>5
    <3>3. k = n
      BY <3>1, <3>2, <1>2 DEF Distinct
    <3> QED BY <3>1, <3>2, <3>3, <1>4
  <2>3. CASE i \in DOMAIN kept /\ j \notin DOMAIN kept
    BY <2>3, <1>2, <1>3, <1>5 DEF Alike
  <2>4. CASE i \notin DOMAIN kept /\ j \in DOMAIN kept
    BY <2>4, <1>2, <1>3, <1>5 DEF Alike
  <2> QED BY <2>1, <2>2, <2>3, <2>4
<1> QED BY <1>1, <1>6, <1>7

\* I are the places of the m entries behind the first n.
Behind(I, n, m) == I \in SUBSET Nat /\ \A i \in Nat : i \in I <=> i > n /\ i <= n + m

LEMMA SubSeqBehind ==
    ASSUME NEW n \in Nat, NEW m \in Nat, NEW I, Behind(I, n, m), NEW s
    PROVE  SubSeqAt(s, I) = [k \in 1 .. m |-> s[n + k]]
<1>1. PICK e : e = [k \in 1 .. m |-> n + k]
  OBVIOUS
<1>2. \A k \in 1 .. m : n + k \in I
  BY DEF Behind
<1>3. e \in [1 .. m -> I]
  BY <1>1, <1>2
<1>4. \A a, b \in 1 .. m : a < b => e[a] < e[b]
  BY <1>1
<1>5. \A i \in I : i - n \in 1 .. m /\ e[i - n] = i
  BY <1>1 DEF Behind
<1>6. Enumerates(e, m, I)
  BY <1>3, <1>4, <1>5 DEF Enumerates
<1>7. I \in SUBSET Nat
  BY DEF Behind
<1>8. SubSeqAt(s, I) = [k \in 1 .. m |-> s[e[k]]]
  BY <1>6, <1>7, SubSeqIs
<1>9. \A k \in 1 .. m : e[k] = n + k
  BY <1>1
<1> QED BY <1>8, <1>9

LEMMA ConcatHolds ==
    ASSUME NEW S, NEW a \in Seq(S), NEW b \in Seq(S), NEW c, c = a \o b,
           NEW n, n = Len(a), NEW m, m = Len(b)
    PROVE  /\ c \in Seq(S) /\ Len(c) = n + m
           /\ \A i \in 1 .. n : c[i] = a[i]
           /\ \A i \in 1 .. n + m : i > n => c[i] = b[i - n]
OBVIOUS

\* Every local tab is there, at its place and not older than it is, and everything
\* is alive and numbered.
Settled(out, mine, running) ==
    /\ Len(mine) <= Len(out) /\ Distinct(out)
    /\ \A i \in DOMAIN out : out[i].tmux \in running /\ out[i].pos = i - 1
    /\ \A k \in DOMAIN mine : /\ out[k].uuid = mine[k].uuid /\ out[k].tmux = mine[k].tmux
                              /\ out[k].at > mine[k].at \/ Alike(out[k], mine[k])

\* What a merge of the same local tabs has produced, merged again, stays as it is.
LEMMA Absorbs ==
    ASSUME NEW T, NEW ours \in Seq(Entry(T)), NEW out \in Seq(Entry(T)), NEW running,
           Settled(out, AliveTabs(ours, running), running)
    PROVE  MergeTabs(ours, out, running) = out
<1>0. PICK mine : mine = AliveTabs(ours, running)
  OBVIOUS
<1>1. mine \in Seq(Entry(T)) /\ Settled(out, mine, running)
  BY <1>0, AliveTabsHolds
<1>2. PICK n \in Nat, m \in Nat : /\ n = Len(mine) /\ n + m = Len(out)
                                  /\ DOMAIN mine = 1 .. n /\ DOMAIN out = 1 .. n + m
  <2>1. Len(out) - Len(mine) \in Nat /\ Len(mine) \in Nat
    BY <1>1 DEF Settled
  <2>2. DOMAIN mine = 1 .. Len(mine) /\ DOMAIN out = 1 .. Len(out)
    BY <1>1
  <2>3. Len(mine) + (Len(out) - Len(mine)) = Len(out)
    BY <2>1
  <2> QED BY <2>1, <2>2, <2>3
<1>3. PICK kept : kept = MergedLocals(mine, out)
  OBVIOUS
<1>4. /\ kept \in Seq(Entry(T)) /\ DOMAIN kept = DOMAIN mine
      /\ \A k \in DOMAIN mine : kept[k].uuid = mine[k].uuid /\ kept[k].tmux = mine[k].tmux
      /\ \A k \in DOMAIN mine :
            \/ mine[k].uuid \notin UuidsOf(out) /\ kept[k] = mine[k]
            \/ \E i \in DOMAIN out :
                  /\ out[i].uuid = mine[k].uuid
                  /\ RemoteByUuid(out, mine[k].uuid) = out[i]
                  /\ \/ TakesOver(kept[k], mine[k], out[i])
                     \/ ~(out[i].at > mine[k].at) /\ kept[k] = mine[k]
  BY <1>1, <1>3, MergedLocalsHold
<1>5. ASSUME NEW k \in DOMAIN mine PROVE Alike(kept[k], out[k])
  <2>1. /\ k \in DOMAIN out /\ out[k].uuid = mine[k].uuid /\ out[k].tmux = mine[k].tmux
        /\ out[k].at > mine[k].at \/ Alike(out[k], mine[k])
    BY <1>1, <1>2 DEF Settled
  <2>2. mine[k].uuid \in UuidsOf(out)
    BY <2>1, UuidOfEntry
  <2>3. PICK i \in DOMAIN out :
                  /\ out[i].uuid = mine[k].uuid
                  /\ \/ TakesOver(kept[k], mine[k], out[i])
                     \/ ~(out[i].at > mine[k].at) /\ kept[k] = mine[k]
    BY <1>4, <2>2
  <2>4. i = k
    BY <1>1, <2>1, <2>3 DEF Distinct, Settled
  <2>5. kept[k].uuid = mine[k].uuid /\ kept[k].tmux = mine[k].tmux
    BY <1>4
  <2>6. CASE TakesOver(kept[k], mine[k], out[k])
    BY <2>1, <2>5, <2>6 DEF TakesOver, Alike
  <2>7. CASE ~(out[k].at > mine[k].at) /\ kept[k] = mine[k]
    BY <2>1, <2>7 DEF Alike
  <2> QED BY <2>3, <2>4, <2>6, <2>7
<1>6. PICK I : I = AdoptedAt(mine, out, running)
  OBVIOUS
<1>7. \A i \in DOMAIN out : i \in I <=> i > n
  <2>1. AliveAt(out, running) = DOMAIN out
    BY <1>1 DEF AliveAt, Settled
  <2>2. \A i \in DOMAIN out : i \in I <=> out[i].uuid \notin UuidsOf(mine)
    <3>1. \A i, j \in DOMAIN out : out[j].uuid = out[i].uuid => i <= j
      BY <1>1, <1>2 DEF Distinct, Settled
    <3> QED BY <1>6, <2>1, <3>1 DEF AdoptedAt
  <2>3. ASSUME NEW i \in DOMAIN out, ~(i > n) PROVE out[i].uuid \in UuidsOf(mine)
    <3>1. i \in DOMAIN mine /\ out[i].uuid = mine[i].uuid
      BY <1>1, <1>2, <2>3 DEF Settled
    <3> QED BY <3>1, <1>1, UuidOfEntry
  <2>4. ASSUME NEW i \in DOMAIN out, i > n, out[i].uuid \in UuidsOf(mine) PROVE FALSE
    <3>1. PICK k \in DOMAIN mine : mine[k].uuid = out[i].uuid
      BY <2>4, <1>1, UuidOfEntry
    <3>2. k \in DOMAIN out /\ out[k].uuid = out[i].uuid /\ k # i
      BY <1>1, <3>1, <2>4, <1>2 DEF Settled
    <3> QED BY <1>1, <3>2 DEF Distinct, Settled
  <2> QED BY <2>2, <2>3, <2>4
<1>10. PICK got : got = SubSeqAt(out, I)
  OBVIOUS
<1>12. got = [k \in 1 .. m |-> out[n + k]]
  <2>1. I \in SUBSET (DOMAIN out)
    BY <1>6 DEF AdoptedAt, AliveAt
  <2>2. Behind(I, n, m)
    BY <1>2, <1>7, <2>1 DEF Behind
  <2> QED BY <1>10, <2>2, SubSeqBehind
<1>13. got \in Seq(Entry(T)) /\ Len(got) = m
  <2>1. \A k \in 1 .. m : out[n + k] \in Entry(T)
    BY <1>2
  <2> QED BY <1>2, <1>12, <2>1
<1>14. PICK all : all = kept \o got
  OBVIOUS
<1>15. /\ all \in Seq(Entry(T)) /\ Len(all) = n + m
       /\ \A i \in 1 .. n + m : Alike(all[i], out[i])
  <2>1. kept \in Seq(Entry(T)) /\ n = Len(kept) /\ got \in Seq(Entry(T)) /\ m = Len(got)
    BY <1>2, <1>4, <1>13
  <2>2. /\ all \in Seq(Entry(T)) /\ Len(all) = n + m
        /\ \A i \in 1 .. n : all[i] = kept[i]
        /\ \A i \in 1 .. n + m : i > n => all[i] = got[i - n]
    BY <1>14, <2>1, ConcatHolds
  <2>3. \A i \in 1 .. n + m : i > n => all[i] = out[i]
    <3> SUFFICES ASSUME NEW i \in 1 .. n + m, i > n PROVE all[i] = out[i]
      OBVIOUS
    <3>1. i - n \in 1 .. m /\ n + (i - n) = i
      OBVIOUS
    <3>2. got[i - n] = out[n + (i - n)]
      BY <1>12, <3>1
    <3> QED BY <2>2, <3>1, <3>2
  <2>4. ASSUME NEW i \in 1 .. n + m PROVE Alike(all[i], out[i])
    <3>1. CASE i > n
      BY <2>3, <3>1 DEF Alike
    <3>2. CASE ~(i > n)
      <4>1. i \in 1 .. n
        BY <3>2, <1>2
      <4> QED BY <4>1, <2>2, <1>2, <1>5
    <3> QED BY <3>1, <3>2
  <2> QED BY <2>2, <2>4
<1>16. Reindex(all) = out
  <2>1. \A i \in DOMAIN out : Alike(all[i], out[i]) /\ out[i].pos = i - 1
    BY <1>1, <1>2, <1>15 DEF Settled
  <2> QED BY <1>2, <1>15, <2>1, ReindexFixed
<1> QED BY <1>0, <1>3, <1>6, <1>10, <1>14, <1>16 DEF MergeTabs

-----------------------------------------------------------------------------
(***************************************************************************)
(* Hidden windows.                                                         *)
(***************************************************************************)
Hidden(T) == [id : T, name : T]

DistinctIds(ws) == \A i, j \in DOMAIN ws : ws[i].id = ws[j].id => i = j

First(ws) == {i \in DOMAIN ws : \A j \in DOMAIN ws : ws[j].id = ws[i].id => i <= j}

LEMMA FirstIs ==
    ASSUME NEW T, NEW ws \in Seq(Hidden(T))
    PROVE  /\ First(ws) \in SUBSET (1 .. Len(ws)) /\ Len(ws) \in Nat
           /\ FirstOfEachId(ws) = SubSeqAt(ws, First(ws))
           /\ \A i \in 1 .. Len(ws) :
                \E j \in First(ws) : j <= i /\ ws[j].id = ws[i].id
           /\ \A i, j \in First(ws) : ws[i].id = ws[j].id => i = j
<1>1. Len(ws) \in Nat /\ DOMAIN ws = 1 .. Len(ws)
  OBVIOUS
<1>2. First(ws) \in SUBSET (1 .. Len(ws))
  BY <1>1 DEF First
<1>3. FirstOfEachId(ws) = SubSeqAt(ws, First(ws))
  BY DEF FirstOfEachId, First
<1>4. ASSUME NEW i \in 1 .. Len(ws)
      PROVE  \E j \in First(ws) : j <= i /\ ws[j].id = ws[i].id
  <2> DEFINE J == {j \in 1 .. Len(ws) : ws[j].id = ws[i].id}
  <2>1. J \in SUBSET (1 .. Len(ws)) /\ i \in J
    OBVIOUS
  <2>2a. PICK m \in Nat : \E e : Enumerates(e, m, J)
    BY <1>1, <2>1, EnumerationExists
  <2>2. PICK e : Enumerates(e, m, J)
    BY <2>2a
  <2>3. m # 0
    BY <2>1, <2>2 DEF Enumerates
  <2>4. 1 \in 1 .. m /\ e[1] \in J
    BY <2>2, <2>3 DEF Enumerates
  <2>5. ASSUME NEW j \in J PROVE e[1] <= j
    <3>1. PICK a \in 1 .. m : e[a] = j
      BY <2>2 DEF Enumerates
    <3>2. a = 1 \/ e[1] < e[a]
      BY <3>1, <2>4, <2>2 DEF Enumerates
    <3>3. e[1] \in Nat /\ j \in Nat
      BY <2>1, <2>4
    <3> QED BY <3>1, <3>2, <3>3
  <2>6. e[1] \in First(ws)
    BY <1>1, <2>4, <2>5 DEF First
  <2> QED BY <2>1, <2>4, <2>5, <2>6
<1>5. \A i, j \in First(ws) : ws[i].id = ws[j].id => i = j
  <2> SUFFICES ASSUME NEW i \in First(ws), NEW j \in First(ws), ws[i].id = ws[j].id
               PROVE  i = j
    OBVIOUS
  <2>1. i <= j /\ j <= i /\ i \in Nat /\ j \in Nat
    BY <1>1 DEF First
  <2> QED BY <2>1
<1> QED BY <1>1, <1>2, <1>3, <1>4, <1>5

\* out holds every id of either list once, and the local entry where there is one.
Unites(out, l, r) ==
    /\ DistinctIds(out)
    /\ \A k \in DOMAIN out : \/ \E i \in DOMAIN l : out[k] = l[i]
                             \/ \E i \in DOMAIN r : out[k] = r[i]
    /\ \A i \in DOMAIN l : \E k \in DOMAIN out : out[k].id = l[i].id
    /\ \A i \in DOMAIN r : \E k \in DOMAIN out : out[k].id = r[i].id
    /\ DistinctIds(l) => \A i \in DOMAIN l : \E k \in DOMAIN out : out[k] = l[i]

LEMMA HiddenHolds ==
    ASSUME NEW T, NEW l \in Seq(Hidden(T)), NEW r \in Seq(Hidden(T)),
           NEW out, out = MergeHiddenWindows(l, r)
    PROVE  out \in Seq(Hidden(T)) /\ Unites(out, l, r)
<1>1. PICK ws : ws = l \o r
  OBVIOUS
<1>2. PICK n, m : n = Len(l) /\ m = Len(r)
  OBVIOUS
<1>3. /\ n \in Nat /\ m \in Nat /\ DOMAIN l = 1 .. n /\ DOMAIN r = 1 .. m
      /\ ws \in Seq(Hidden(T)) /\ Len(ws) = n + m
      /\ \A i \in 1 .. n : i \in 1 .. n + m /\ ws[i] = l[i]
      /\ \A i \in 1 .. m : n + i \in 1 .. n + m /\ ws[n + i] = r[i]
  BY <1>1, <1>2
<1>4. \A j \in 1 .. n + m : \/ j \in 1 .. n /\ ws[j] = l[j]
                            \/ j - n \in 1 .. m /\ ws[j] = r[j - n]
  <2> SUFFICES ASSUME NEW j \in 1 .. n + m, j \notin 1 .. n
               PROVE  j - n \in 1 .. m /\ ws[j] = r[j - n]
    BY <1>3
  <2>1. j - n \in 1 .. m /\ n + (j - n) = j
    BY <1>3
  <2> QED BY <1>3, <2>1
<1>5. PICK F : F = First(ws)
  OBVIOUS
<1>6. /\ F \in SUBSET (1 .. n + m)
      /\ FirstOfEachId(ws) = SubSeqAt(ws, F)
      /\ \A i \in 1 .. n + m : \E j \in F : j <= i /\ ws[j].id = ws[i].id
      /\ \A i, j \in F : ws[i].id = ws[j].id => i = j
  BY <1>3, <1>5, FirstIs
<1>7. n + m \in Nat
  BY <1>3
<1>8. PICK p, e : p \in Nat /\ Enumerates(e, p, F) /\ SubSeqAt(ws, F) = [k \in 1 .. p |-> ws[e[k]]]
  <2>1. PICK N \in Nat : N = n + m
    BY <1>7
  <2>2. F \in SUBSET (1 .. N)
    BY <1>6, <2>1
  <2>3. PICK p \in Nat : \E e : /\ Enumerates(e, p, F)
                               /\ \A s : SubSeqAt(s, F) = [k \in 1 .. p |-> s[e[k]]]
    BY <2>2, SubSeqExists
  <2>4. PICK e : /\ Enumerates(e, p, F)
                 /\ \A s : SubSeqAt(s, F) = [k \in 1 .. p |-> s[e[k]]]
    BY <2>3
  <2> QED BY <2>4
<1>9. out = [k \in 1 .. p |-> ws[e[k]]]
  BY <1>1, <1>6, <1>8 DEF MergeHiddenWindows
<1>10. /\ \A k \in 1 .. p : e[k] \in F /\ e[k] \in 1 .. n + m
       /\ \A j \in F : \E k \in 1 .. p : e[k] = j
       /\ \A j, k \in 1 .. p : e[j] = e[k] => j = k
  <2>1. /\ \A k \in 1 .. p : e[k] \in F
        /\ \A j \in F : \E k \in 1 .. p : e[k] = j
        /\ \A j, k \in 1 .. p : j < k => e[j] < e[k]
    BY <1>8 DEF Enumerates
  <2>2. \A k \in 1 .. p : e[k] \in 1 .. n + m
    BY <1>6, <2>1
  <2>3. ASSUME NEW j \in 1 .. p, NEW k \in 1 .. p, e[j] = e[k] PROVE j = k
    <3>1. ~(j < k) /\ ~(k < j)
      BY <1>7, <2>1, <2>2, <2>3
    <3> QED BY <3>1
  <2> QED BY <2>1, <2>2, <2>3
<1>11. DOMAIN out = 1 .. p /\ \A k \in 1 .. p : out[k] = ws[e[k]]
  BY <1>9
<1>12. out \in Seq(Hidden(T))
  <2>1. \A j \in 1 .. n + m : ws[j] \in Hidden(T)
    BY <1>3
  <2>2. \A k \in 1 .. p : ws[e[k]] \in Hidden(T)
    BY <1>10, <2>1
  <2> QED BY <1>8, <1>9, <2>2
<1>13. DistinctIds(out)
  <2> SUFFICES ASSUME NEW j \in 1 .. p, NEW k \in 1 .. p, out[j].id = out[k].id PROVE j = k
    BY <1>11 DEF DistinctIds
  <2>1. e[j] \in F /\ e[k] \in F
    BY <1>10
  <2>2. ws[e[j]].id = ws[e[k]].id
    BY <1>11
  <2>3. e[j] = e[k]
    BY <1>6, <2>1, <2>2
  <2> QED BY <1>10, <2>3
<1>14. ASSUME NEW k \in DOMAIN out
       PROVE  \/ \E i \in DOMAIN l : out[k] = l[i]
              \/ \E i \in DOMAIN r : out[k] = r[i]
  <2>1. PICK j \in 1 .. n + m : out[k] = ws[j]
    BY <1>10, <1>11
  <2>2. CASE j \in 1 .. n /\ ws[j] = l[j]
    BY <1>3, <2>1, <2>2
  <2>3. CASE j - n \in 1 .. m /\ ws[j] = r[j - n]
    BY <1>3, <2>1, <2>3
  <2> QED BY <1>4, <2>2, <2>3
<1>15. \A j \in F : \E k \in DOMAIN out : out[k] = ws[j]
  BY <1>10, <1>11
<1>16. ASSUME NEW i \in 1 .. n + m PROVE \E k \in DOMAIN out : out[k].id = ws[i].id
  <2>1. PICK j \in F : ws[j].id = ws[i].id
    BY <1>6
  <2>2. PICK k \in DOMAIN out : out[k] = ws[j]
    BY <1>15
  <2> QED BY <2>1, <2>2
<1>17. \A i \in DOMAIN l : \E k \in DOMAIN out : out[k].id = l[i].id
  BY <1>3, <1>16
<1>18. \A i \in DOMAIN r : \E k \in DOMAIN out : out[k].id = r[i].id
  BY <1>3, <1>16
<1>19. ASSUME DistinctIds(l), NEW i \in DOMAIN l PROVE \E k \in DOMAIN out : out[k] = l[i]
  <2>1. i \in 1 .. n /\ i \in 1 .. n + m /\ ws[i] = l[i]
    BY <1>3
  <2>2. PICK j \in F : j <= i /\ ws[j].id = ws[i].id
    BY <1>6, <2>1
  <2>3. j \in 1 .. n
    BY <1>3, <1>6, <2>1, <2>2
  <2>4. j = i
    BY <1>3, <1>19, <2>1, <2>2, <2>3 DEF DistinctIds
  <2>5. PICK k \in DOMAIN out : out[k] = ws[j]
    BY <1>15
  <2> QED BY <2>1, <2>4, <2>5
<1> QED BY <1>12, <1>13, <1>14, <1>17, <1>18, <1>19 DEF Unites

LEMMA IdsOf ==
    ASSUME NEW S, NEW ws \in Seq(S)
    PROVE  \A x : x \in {w.id : w \in ToSet(ws)} <=> \E i \in DOMAIN ws : x = ws[i].id
BY DEF ToSet

LEMMA IdsCount ==
    ASSUME NEW S, NEW ws \in Seq(S), DistinctIds(ws)
    PROVE  Cardinality({w.id : w \in ToSet(ws)}) = Len(ws)
<1>1. PICK f : f = [i \in 1 .. Len(ws) |-> ws[i].id]
  OBVIOUS
<1>2. Len(ws) \in Nat /\ DOMAIN ws = 1 .. Len(ws)
  OBVIOUS
<1>3. PICK U : U = {w.id : w \in ToSet(ws)}
  OBVIOUS
<1>4. \A u : u \in U <=> \E i \in 1 .. Len(ws) : ws[i].id = u
  BY <1>2, <1>3 DEF ToSet
<1>5. \A i \in 1 .. Len(ws) : f[i] = ws[i].id /\ f[i] \in U
  BY <1>1, <1>4
<1>6. f \in [1 .. Len(ws) -> U]
  BY <1>1, <1>5
<1>7. \A i, j \in 1 .. Len(ws) : f[i] = f[j] => i = j
  BY <1>2, <1>5 DEF DistinctIds
<1>8. f \in Bijection(1 .. Len(ws), U)
  BY <1>4, <1>5, <1>6, <1>7 DEF Bijection, Injection, Surjection, IsInjective
<1> QED BY <1>2, <1>3, <1>8, FS_CountingElements DEF ExistsBijection

\* F has the numbers I up to n, and the numbers J above n.
Splits(F, I, J, n) ==
    /\ I \in SUBSET Nat /\ J \in SUBSET Nat /\ F = I \union J
    /\ (\A i \in I : i <= n) /\ (\A j \in J : j > n)

\* e is a, continued by b.
Joins(e, m, a, p, b, q) ==
    /\ m = p + q
    /\ e = [k \in 1 .. m |-> IF k <= p THEN a[k] ELSE b[k - p]]

LEMMA JoinIs ==
    ASSUME NEW p \in Nat, NEW q \in Nat, NEW m \in Nat, NEW a, NEW b, NEW e,
           Joins(e, m, a, p, b, q)
    PROVE  /\ \A k \in 1 .. m : /\ k <= p => k \in 1 .. p /\ e[k] = a[k]
                                /\ k > p => k - p \in 1 .. q /\ e[k] = b[k - p]
           /\ \A k \in 1 .. p : k \in 1 .. m /\ e[k] = a[k]
           /\ \A k \in 1 .. q : p + k \in 1 .. m /\ e[p + k] = b[k]
           /\ e = [k \in 1 .. m |-> e[k]]
BY DEF Joins

LEMMA EnumerationJoins ==
    ASSUME NEW n \in Nat, NEW F, NEW I, NEW J, Splits(F, I, J, n),
           NEW p \in Nat, NEW a, Enumerates(a, p, I),
           NEW q \in Nat, NEW b, Enumerates(b, q, J),
           NEW m \in Nat, NEW e, Joins(e, m, a, p, b, q)
    PROVE  Enumerates(e, m, F)
<1>1. /\ \A k \in 1 .. p : a[k] \in I
      /\ \A k \in 1 .. q : b[k] \in J
      /\ \A i \in I : \E k \in 1 .. p : a[k] = i
      /\ \A j \in J : \E k \in 1 .. q : b[k] = j
  BY DEF Enumerates
<1>2. \A k \in 1 .. m : /\ k <= p => k \in 1 .. p /\ e[k] = a[k]
                        /\ k > p => k - p \in 1 .. q /\ e[k] = b[k - p]
  BY JoinIs
<1>3. ASSUME NEW k \in 1 .. m
      PROVE  (k <= p /\ e[k] \in I) \/ (k > p /\ e[k] \in J)
  <2>1. CASE k <= p
    <3>1. k \in 1 .. p /\ e[k] = a[k]
      BY <1>2, <2>1
    <3> QED BY <1>1, <2>1, <3>1
  <2>2. CASE k > p
    <3>1. k - p \in 1 .. q /\ e[k] = b[k - p]
      BY <1>2, <2>2
    <3> QED BY <1>1, <2>2, <3>1
  <2> QED BY <2>1, <2>2
<1>4. e \in [1 .. m -> F]
  <2>1. \A k \in 1 .. m : e[k] \in F
    BY <1>3 DEF Splits
  <2>2. e = [k \in 1 .. m |-> e[k]]
    BY JoinIs
  <2> QED BY <2>1, <2>2
<1>5. ASSUME NEW k \in 1 .. m, NEW l \in 1 .. m, k < l PROVE e[k] < e[l]
  <2>1. CASE l <= p
    <3>1. k <= p
      BY <1>5, <2>1
    <3>2. k \in 1 .. p /\ e[k] = a[k]
      BY <1>2, <3>1
    <3>3. l \in 1 .. p /\ e[l] = a[l]
      BY <1>2, <2>1
    <3> QED BY <3>2, <3>3, <1>5 DEF Enumerates
  <2>2. CASE k > p
    <3>1. l > p /\ k - p < l - p
      BY <1>5, <2>2
    <3>2. k - p \in 1 .. q /\ e[k] = b[k - p]
      BY <1>2, <2>2
    <3>3. l - p \in 1 .. q /\ e[l] = b[l - p]
      BY <1>2, <3>1
    <3> QED BY <3>1, <3>2, <3>3 DEF Enumerates
  <2>3. CASE k <= p /\ l > p
    <3>1. e[k] \in I /\ e[l] \in J
      BY <1>3, <2>3
    <3>2. e[k] \in Nat /\ e[l] \in Nat /\ e[k] <= n /\ e[l] > n
      BY <3>1 DEF Splits
    <3> QED BY <3>2
  <2> QED BY <2>1, <2>2, <2>3
<1>6. \A i \in F : \E k \in 1 .. m : e[k] = i
  <2>1. \A i \in I : \E k \in 1 .. m : e[k] = i
    <3>1. \A k \in 1 .. p : k \in 1 .. m /\ e[k] = a[k]
      BY JoinIs
    <3> QED BY <1>1, <3>1
  <2>2. ASSUME NEW i \in J PROVE \E k \in 1 .. m : e[k] = i
    <3>1. PICK j \in 1 .. q : b[j] = i
      BY <1>1
    <3>2. p + j \in 1 .. m /\ e[p + j] = b[j]
      BY JoinIs
    <3> QED BY <3>1, <3>2
  <2> QED BY <2>1, <2>2 DEF Splits
<1> QED BY <1>4, <1>5, <1>6 DEF Enumerates

\* Uniting with what was united already changes nothing.
LEMMA HiddenSettle ==
    ASSUME NEW T, NEW l \in Seq(Hidden(T)), NEW r \in Seq(Hidden(T))
    PROVE  MergeHiddenWindows(l, MergeHiddenWindows(l, r)) = MergeHiddenWindows(l, r)
<1>1. PICK n : n = Len(l)
  OBVIOUS
<1>2. PICK ws : ws = l \o r
  OBVIOUS
<1>3. /\ n \in Nat /\ ws \in Seq(Hidden(T)) /\ Len(ws) \in Nat /\ n <= Len(ws)
      /\ \A i \in 1 .. n : ws[i] = l[i]
  BY <1>1, <1>2
<1>4. PICK F : F = First(ws)
  OBVIOUS
<1>5. /\ F \in SUBSET (1 .. Len(ws))
      /\ FirstOfEachId(ws) = SubSeqAt(ws, F)
      /\ \A i \in 1 .. Len(ws) : \E j \in F : j <= i /\ ws[j].id = ws[i].id
      /\ \A i, j \in F : ws[i].id = ws[j].id => i = j
  BY <1>3, <1>4, FirstIs
<1>6. PICK I, J : I = {i \in F : i <= n} /\ J = {i \in F : i > n}
  OBVIOUS
<1>7. /\ I \in SUBSET (1 .. n) /\ J \in SUBSET (1 .. Len(ws)) /\ I \union J = F
      /\ I \in SUBSET Nat /\ J \in SUBSET Nat
      /\ (\A i \in I : i <= n) /\ (\A j \in J : j > n)
  BY <1>3, <1>5, <1>6
<1>8a. PICK p \in Nat : \E a : Enumerates(a, p, I)
  BY <1>3, <1>7, EnumerationExists
<1>8. PICK a : Enumerates(a, p, I)
  BY <1>8a
<1>9a. PICK q \in Nat : \E b : Enumerates(b, q, J)
  BY <1>3, <1>7, EnumerationExists
<1>9. PICK b : Enumerates(b, q, J)
  BY <1>9a
<1>10. /\ \A k \in 1 .. p : a[k] \in I
       /\ \A k \in 1 .. q : b[k] \in J
  BY <1>8, <1>9 DEF Enumerates
<1>13. PICK m \in Nat : m = p + q
  BY <1>8, <1>9
<1>11. PICK e : Joins(e, m, a, p, b, q)
  BY <1>13 DEF Joins
<1>12. Enumerates(e, m, F)
  <2>1. Splits(F, I, J, n)
    BY <1>7 DEF Splits
  <2> QED BY <1>3, <1>8, <1>9, <1>11, <2>1, EnumerationJoins
<1>14. PICK out : out = FirstOfEachId(ws)
  OBVIOUS
<1>15. out = [k \in 1 .. m |-> ws[e[k]]]
  <2>1. F \in SUBSET Nat
    BY <1>5
  <2>2. Enumerates(e, m, F)
    BY <1>12, <1>13
  <2>3. SubSeqAt(ws, F) = [k \in 1 .. m |-> ws[e[k]]]
    BY <2>1, <2>2, SubSeqIs
  <2> QED BY <1>5, <1>14, <2>3
<1>16. \A k \in 1 .. m : /\ e[k] \in F
                         /\ k <= p => k \in 1 .. p /\ e[k] = a[k] /\ e[k] \in I
                         /\ k > p => k - p \in 1 .. q /\ e[k] = b[k - p] /\ e[k] \in J
  <2>1. \A k \in 1 .. m : /\ k <= p => k \in 1 .. p /\ e[k] = a[k]
                          /\ k > p => k - p \in 1 .. q /\ e[k] = b[k - p]
    BY <1>11, JoinIs
  <2>2. \A k \in 1 .. m : e[k] \in F
    BY <1>12 DEF Enumerates
  <2>3. ASSUME NEW k \in 1 .. m, k <= p PROVE k \in 1 .. p /\ e[k] = a[k] /\ e[k] \in I
    BY <1>10, <2>1, <2>3
  <2>4. ASSUME NEW k \in 1 .. m, k > p
        PROVE  k - p \in 1 .. q /\ e[k] = b[k - p] /\ e[k] \in J
    <3>1. k - p \in 1 .. q /\ e[k] = b[k - p]
      BY <2>1, <2>4
    <3> QED BY <1>10, <3>1
  <2> QED BY <2>2, <2>3, <2>4
<1>17. out \in Seq(Hidden(T)) /\ Len(out) = m
  <2>0. \A i \in 1 .. Len(ws) : ws[i] \in Hidden(T)
    BY <1>3
  <2>1. \A k \in 1 .. m : ws[e[k]] \in Hidden(T)
    BY <2>0, <1>5, <1>16
  <2> QED BY <1>13, <1>15, <2>1
<1>18. PICK new : new = l \o out
  OBVIOUS
<1>19. /\ new \in Seq(Hidden(T)) /\ Len(new) = n + m
       /\ \A i \in 1 .. n : new[i] = ws[i]
       /\ \A k \in 1 .. m : new[n + k] = ws[e[k]]
  <2>1. /\ new \in Seq(Hidden(T)) /\ Len(new) = n + m
        /\ \A i \in 1 .. n : new[i] = l[i]
        /\ \A i \in 1 .. n + m : i > n => new[i] = out[i - n]
    <3>1. out \in Seq(Hidden(T)) /\ m = Len(out)
      BY <1>17
    <3> QED BY <1>1, <1>18, <3>1, ConcatHolds
  <2>2. ASSUME NEW k \in 1 .. m PROVE new[n + k] = out[k]
    <3>1. n + k \in 1 .. n + m /\ n + k > n /\ (n + k) - n = k
      BY <1>3
    <3> QED BY <2>1, <3>1
  <2> QED BY <1>3, <1>15, <2>1, <2>2
<1>20. PICK K : K = {i \in 1 .. n + m : i > n + p}
  OBVIOUS
<1>21. PICK c : c = [k \in 1 .. q |-> (n + p) + k]
  OBVIOUS
<1>22. Enumerates(c, q, K) /\ K \in SUBSET Nat /\ \A i \in K : i > n
  <2>1. \A k \in 1 .. q : (n + p) + k \in K
    BY <1>3, <1>13, <1>20
  <2>2. c \in [1 .. q -> K] /\ \A k, j \in 1 .. q : k < j => c[k] < c[j]
    <3>1. c \in [1 .. q -> K]
      BY <1>21, <2>1
    <3>2. \A k \in 1 .. q : c[k] = (n + p) + k /\ k \in Nat
      BY <1>21
    <3>3. n + p \in Nat
      BY <1>3
    <3>4. \A k, j \in 1 .. q : k < j => c[k] < c[j]
      BY <3>2, <3>3
    <3> QED BY <3>1, <3>4
  <2>3. \A i \in K : i - (n + p) \in 1 .. q /\ c[i - (n + p)] = i
    BY <1>3, <1>13, <1>20, <1>21
  <2> QED BY <1>3, <1>20, <2>2, <2>3 DEF Enumerates
<1>23. First(new) = I \union K
  <2>1. DOMAIN new = 1 .. n + m
    BY <1>3, <1>19
  <2>2. ASSUME NEW i \in 1 .. n PROVE i \in First(new) <=> i \in I
    <3>1. i \in First(new) <=> \A j \in 1 .. n : ws[j].id = ws[i].id => i <= j
      <4>1. \A j \in 1 .. n + m : j \in 1 .. n \/ i <= j
        BY <1>3
      <4>2. 1 .. n \subseteq 1 .. n + m
        BY <1>3
      <4> QED BY <1>19, <2>1, <4>1, <4>2 DEF First
    <3>2. i \in First(ws) <=> \A j \in 1 .. n : ws[j].id = ws[i].id => i <= j
      <4>1. \A j \in 1 .. Len(ws) : j \in 1 .. n \/ i <= j
        BY <1>3
      <4>2. 1 .. n \subseteq 1 .. Len(ws) /\ DOMAIN ws = 1 .. Len(ws)
        BY <1>3
      <4> QED BY <4>1, <4>2 DEF First
    <3> QED BY <1>3, <1>4, <1>6, <3>1, <3>2
  <2>3. ASSUME NEW k \in 1 .. m, k <= p PROVE n + k \notin First(new)
    <3>1. e[k] \in 1 .. n /\ new[e[k]] = ws[e[k]] /\ new[n + k] = ws[e[k]]
      BY <1>7, <1>16, <1>19, <2>3
    <3>2. e[k] \in 1 .. n + m /\ e[k] < n + k
      BY <1>3, <3>1
    <3> QED BY <1>3, <2>1, <3>1, <3>2 DEF First
  <2>4. ASSUME NEW k \in 1 .. m, k > p PROVE n + k \in First(new)
    <3>1. n + k \in 1 .. n + m /\ new[n + k] = ws[e[k]] /\ e[k] \in J /\ e[k] \in F
      <4>1. n + k \in 1 .. n + m
        BY <1>3
      <4>2. new[n + k] = ws[e[k]]
        BY <1>19
      <4>3. e[k] \in J /\ e[k] \in F
        BY <1>16, <2>4
      <4> QED BY <4>1, <4>2, <4>3
    <3>2. ASSUME NEW j \in 1 .. n + m, new[j].id = ws[e[k]].id PROVE n + k <= j
      <4>1. CASE j \in 1 .. n
        <5>1. ws[j].id = ws[e[k]].id
          BY <1>19, <3>2, <4>1
        <5>2. j \in 1 .. Len(ws)
          BY <1>3, <4>1
        <5>3. PICK f \in F : f <= j /\ ws[f].id = ws[j].id
          BY <1>5, <5>2
        <5>4. f = e[k]
          <6>1. ws[f].id = ws[e[k]].id /\ e[k] \in F
            BY <3>1, <5>1, <5>3
          <6> QED BY <1>5, <6>1
        <5>5. e[k] > n /\ e[k] <= j /\ e[k] \in Nat
          BY <1>7, <3>1, <5>3, <5>4
        <5> QED BY <1>3, <4>1, <5>5
      <4>2. CASE j \notin 1 .. n
        <5>1. j - n \in 1 .. m /\ n + (j - n) = j
          BY <1>3, <4>2
        <5>2. PICK x \in 1 .. m : n + x = j
          BY <5>1
        <5>3. ws[e[x]].id = ws[e[k]].id /\ e[x] \in F
          BY <1>16, <1>19, <3>2, <5>2
        <5>4. e[x] = e[k]
          BY <1>5, <3>1, <5>3
        <5>5. Enumerates(e, m, F) /\ e[x] \in Nat
          <6>1. \A i \in F : i \in Nat
            BY <1>5
          <6> QED BY <1>12, <5>3, <6>1
        <5>6. ~(x < k) /\ ~(k < x)
          BY <5>4, <5>5 DEF Enumerates
        <5> QED BY <1>3, <5>2, <5>6
      <4> QED BY <4>1, <4>2
    <3> QED BY <2>1, <3>1, <3>2 DEF First
  <2>5. ASSUME NEW i \in 1 .. n + m PROVE i \in First(new) <=> i \in I \union K
    <3>1. CASE i \in 1 .. n
      <4>1. i \notin K
        BY <1>3, <1>20, <3>1
      <4> QED BY <2>2, <3>1, <4>1
    <3>2. CASE i \notin 1 .. n
      <4>1. i \notin I
        BY <1>7, <3>2
      <4>2. PICK k \in 1 .. m : n + k = i
        <5>1. i - n \in 1 .. m /\ n + (i - n) = i
          BY <1>3, <3>2
        <5> QED BY <5>1
      <4>3. i \in K <=> k > p
        BY <1>3, <1>20, <4>2
      <4>4. k <= p \/ k > p
        BY <4>2
      <4> QED BY <2>3, <2>4, <4>1, <4>2, <4>3, <4>4
    <3> QED BY <3>1, <3>2
  <2>6. First(new) \subseteq 1 .. n + m /\ (I \union K) \subseteq 1 .. n + m
    <3>1. First(new) \subseteq 1 .. n + m
      BY <2>1 DEF First
    <3>2. \A i \in I : i \in 1 .. n + m
      BY <1>3, <1>7
    <3>3. \A i \in K : i \in 1 .. n + m
      BY <1>20
    <3> QED BY <3>1, <3>2, <3>3
  <2> QED BY <2>5, <2>6
<1>24. PICK d : Joins(d, m, a, p, c, q)
  BY <1>13 DEF Joins
<1>25. PICK G : G = I \union K
  OBVIOUS
<1>26. FirstOfEachId(new) = [k \in 1 .. m |-> new[d[k]]]
  <2>1. Enumerates(d, m, G)
    <3>1. Splits(G, I, K, n)
      BY <1>7, <1>22, <1>25 DEF Splits
    <3> QED BY <1>3, <1>8, <1>22, <1>24, <3>1, EnumerationJoins
  <2>2. G \in SUBSET Nat /\ Enumerates(d, m, G)
    BY <1>7, <1>22, <1>25, <2>1
  <2>3. SubSeqAt(new, G) = [k \in 1 .. m |-> new[d[k]]]
    BY <2>2, SubSeqIs
  <2>4. FirstOfEachId(new) = SubSeqAt(new, First(new))
    BY DEF FirstOfEachId, First
  <2> QED BY <1>23, <1>25, <2>3, <2>4
<1>27. ASSUME NEW k \in 1 .. m PROVE new[d[k]] = ws[e[k]]
  <2>1. /\ k <= p => k \in 1 .. p /\ d[k] = a[k]
        /\ k > p => k - p \in 1 .. q /\ d[k] = c[k - p]
    BY <1>24, JoinIs
  <2>2. CASE k <= p
    <3>1. d[k] = a[k] /\ e[k] = a[k] /\ a[k] \in 1 .. n
      BY <1>7, <1>16, <2>1, <2>2
    <3> QED BY <1>19, <3>1
  <2>3. CASE k > p
    <3>1. d[k] = c[k - p] /\ c[k - p] = (n + p) + (k - p)
      BY <1>21, <2>1, <2>3
    <3>2. d[k] = n + k
      BY <1>3, <3>1
    <3> QED BY <1>19, <3>2
  <2>4. k <= p \/ k > p
    OBVIOUS
  <2> QED BY <2>2, <2>3, <2>4
<1>28. FirstOfEachId(new) = out
  BY <1>15, <1>26, <1>27
<1> QED BY <1>2, <1>14, <1>18, <1>28 DEF MergeHiddenWindows
-----------------------------------------------------------------------------
(***************************************************************************)
(* Where a merged entry comes from.                                        *)
(***************************************************************************)
\* The entry a merged with the remote entries of its uuid.
Latest(o, a, theirs) ==
    \/ /\ Alike(o, a)
       /\ \A b \in DOMAIN theirs : theirs[b].uuid = a.uuid => ~(theirs[b].at > a.at)
    \/ \E b \in DOMAIN theirs : theirs[b].uuid = a.uuid /\ TakesOver(o, a, theirs[b])

\* o is a live local tab.
Stays(o, ours, theirs, running) ==
    \E a \in DOMAIN ours : /\ o.uuid = ours[a].uuid /\ o.tmux = ours[a].tmux
                           /\ o.tmux \in running /\ Latest(o, ours[a], theirs)

\* o is a live remote tab no live local tab has the uuid of.
Comes(o, ours, theirs, running) ==
    /\ \E b \in DOMAIN theirs : Alike(o, theirs[b])
    /\ o.tmux \in running
    /\ \A a \in DOMAIN ours : ours[a].uuid = o.uuid => ours[a].tmux \notin running

LEMMA KeptFrom ==
    ASSUME NEW T, NEW ours \in Seq(Entry(T)), NEW theirs \in Seq(Entry(T)), NEW running,
           Distinct(theirs)
    PROVE  LET kept == Kept(ours, theirs, running) IN
           /\ \A k \in DOMAIN kept : Stays(kept[k], ours, theirs, running)
           /\ \A a \in DOMAIN ours : ours[a].tmux \in running =>
                \E k \in DOMAIN kept : kept[k].uuid = ours[a].uuid /\ kept[k].tmux = ours[a].tmux
<1>1. PICK mine : mine = AliveTabs(ours, running)
  OBVIOUS
<1>2. /\ mine \in Seq(Entry(T))
      /\ \A k \in DOMAIN mine : \E a \in DOMAIN ours : mine[k] = ours[a] /\ ours[a].tmux \in running
      /\ \A a \in DOMAIN ours : ours[a].tmux \in running => \E k \in DOMAIN mine : mine[k] = ours[a]
  BY <1>1, AliveTabsHolds
<1>3. PICK kept : kept = MergedLocals(mine, theirs)
  OBVIOUS
<1>4. /\ kept \in Seq(Entry(T)) /\ DOMAIN kept = DOMAIN mine
      /\ \A k \in DOMAIN mine : kept[k].uuid = mine[k].uuid /\ kept[k].tmux = mine[k].tmux
      /\ \A k \in DOMAIN mine :
            \/ mine[k].uuid \notin UuidsOf(theirs) /\ kept[k] = mine[k]
            \/ \E i \in DOMAIN theirs :
                  /\ theirs[i].uuid = mine[k].uuid
                  /\ RemoteByUuid(theirs, mine[k].uuid) = theirs[i]
                  /\ \/ TakesOver(kept[k], mine[k], theirs[i])
                     \/ ~(theirs[i].at > mine[k].at) /\ kept[k] = mine[k]
  BY <1>2, <1>3, MergedLocalsHold
<1>5. ASSUME NEW k \in DOMAIN kept PROVE Stays(kept[k], ours, theirs, running)
  <2>1. PICK a \in DOMAIN ours : mine[k] = ours[a] /\ ours[a].tmux \in running
    BY <1>2, <1>4
  <2>2. kept[k].uuid = ours[a].uuid /\ kept[k].tmux = ours[a].tmux
    BY <1>4, <2>1
  <2>3. CASE mine[k].uuid \notin UuidsOf(theirs) /\ kept[k] = mine[k]
    <3>1. \A b \in DOMAIN theirs : theirs[b].uuid # ours[a].uuid
      BY <2>1, <2>3, UuidOfEntry
    <3>2. Alike(kept[k], ours[a])
      BY <2>1, <2>3 DEF Alike
    <3> QED BY <2>1, <2>2, <3>1, <3>2 DEF Stays, Latest
  <2>4. CASE \E i \in DOMAIN theirs :
                  /\ theirs[i].uuid = mine[k].uuid
                  /\ \/ TakesOver(kept[k], mine[k], theirs[i])
                     \/ ~(theirs[i].at > mine[k].at) /\ kept[k] = mine[k]
    <3>1. PICK i \in DOMAIN theirs :
                  /\ theirs[i].uuid = ours[a].uuid
                  /\ \/ TakesOver(kept[k], ours[a], theirs[i])
                     \/ ~(theirs[i].at > ours[a].at) /\ kept[k] = ours[a]
      BY <2>1, <2>4
    <3>2. \A b \in DOMAIN theirs : theirs[b].uuid = ours[a].uuid => b = i
      BY <3>1 DEF Distinct
    <3>3. Latest(kept[k], ours[a], theirs)
      BY <3>1, <3>2 DEF Latest, Alike
    <3> QED BY <2>1, <2>2, <3>3 DEF Stays
  <2> QED BY <1>4, <2>3, <2>4
<1>6. ASSUME NEW a \in DOMAIN ours, ours[a].tmux \in running
      PROVE  \E k \in DOMAIN kept : kept[k].uuid = ours[a].uuid /\ kept[k].tmux = ours[a].tmux
  <2>1. PICK k \in DOMAIN mine : mine[k] = ours[a]
    BY <1>2, <1>6
  <2>2. k \in DOMAIN kept /\ kept[k].uuid = mine[k].uuid /\ kept[k].tmux = mine[k].tmux
    BY <1>4
  <2> QED BY <2>1, <2>2
<1> QED BY <1>1, <1>3, <1>5, <1>6 DEF Kept

LEMMA GotFrom ==
    ASSUME NEW T, NEW ours \in Seq(Entry(T)), NEW theirs \in Seq(Entry(T)), NEW running,
           Distinct(theirs)
    PROVE  LET got == Got(ours, theirs, running) IN
           /\ \A k \in DOMAIN got : Comes(got[k], ours, theirs, running)
           /\ \A b \in DOMAIN theirs : Comes(theirs[b], ours, theirs, running) =>
                \E k \in DOMAIN got : got[k].uuid = theirs[b].uuid /\ got[k].tmux = theirs[b].tmux
<1>1. PICK mine : mine = AliveTabs(ours, running)
  OBVIOUS
<1>2. /\ mine \in Seq(Entry(T))
      /\ \A k \in DOMAIN mine : \E a \in DOMAIN ours : mine[k] = ours[a] /\ ours[a].tmux \in running
      /\ \A a \in DOMAIN ours : ours[a].tmux \in running => \E k \in DOMAIN mine : mine[k] = ours[a]
  BY <1>1, AliveTabsHolds
<1>3. PICK got : got = SubSeqAt(theirs, AdoptedAt(mine, theirs, running))
  OBVIOUS
<1>4. /\ \A k \in DOMAIN got : \E i \in DOMAIN theirs :
            /\ got[k] = theirs[i] /\ theirs[i].tmux \in running
            /\ theirs[i].uuid \notin UuidsOf(mine)
      /\ \A i \in DOMAIN theirs :
            theirs[i].tmux \in running /\ theirs[i].uuid \notin UuidsOf(mine)
                => \E k \in DOMAIN got : got[k].uuid = theirs[i].uuid
  BY <1>2, <1>3, AdoptedHold
<1>5. \A u : u \notin UuidsOf(mine)
                <=> \A a \in DOMAIN ours : ours[a].uuid = u => ours[a].tmux \notin running
  <2>1. \A u : u \in UuidsOf(mine) <=> \E k \in DOMAIN mine : mine[k].uuid = u
    BY <1>2, UuidOfEntry
  <2>2. \A u : (\E k \in DOMAIN mine : mine[k].uuid = u)
                  <=> \E a \in DOMAIN ours : ours[a].uuid = u /\ ours[a].tmux \in running
    BY <1>2
  <2> QED BY <2>1, <2>2
<1>6. ASSUME NEW k \in DOMAIN got PROVE Comes(got[k], ours, theirs, running)
  <2>1. PICK i \in DOMAIN theirs : /\ got[k] = theirs[i] /\ theirs[i].tmux \in running
                                   /\ theirs[i].uuid \notin UuidsOf(mine)
    BY <1>4
  <2>2. Alike(got[k], theirs[i]) /\ got[k].tmux \in running
    BY <2>1 DEF Alike
  <2>3. \A a \in DOMAIN ours : ours[a].uuid = got[k].uuid => ours[a].tmux \notin running
    BY <1>5, <2>1
  <2> QED BY <2>2, <2>3 DEF Comes
<1>7. ASSUME NEW b \in DOMAIN theirs, Comes(theirs[b], ours, theirs, running)
      PROVE  \E k \in DOMAIN got : got[k].uuid = theirs[b].uuid /\ got[k].tmux = theirs[b].tmux
  <2>1. theirs[b].tmux \in running /\ theirs[b].uuid \notin UuidsOf(mine)
    BY <1>5, <1>7 DEF Comes
  <2>2. PICK k \in DOMAIN got : got[k].uuid = theirs[b].uuid
    BY <1>4, <2>1
  <2>3. PICK i \in DOMAIN theirs : got[k] = theirs[i]
    BY <1>4
  <2>4. i = b
    BY <2>2, <2>3 DEF Distinct
  <2> QED BY <2>2, <2>3, <2>4
<1> QED BY <1>1, <1>3, <1>6, <1>7 DEF Got

LEMMA StaysAlike ==
    ASSUME NEW o, NEW c, Alike(o, c), NEW ours, NEW theirs, NEW running
    PROVE  /\ Stays(c, ours, theirs, running) => Stays(o, ours, theirs, running)
           /\ Comes(c, ours, theirs, running) => Comes(o, ours, theirs, running)
<1>1. o.uuid = c.uuid /\ o.tmux = c.tmux
  BY DEF Alike
<1>2. ASSUME NEW a PROVE Alike(c, a) => Alike(o, a)
  BY DEF Alike
<1>3. ASSUME NEW a, NEW b PROVE TakesOver(c, a, b) => TakesOver(o, a, b)
  BY DEF Alike, TakesOver
<1>4. ASSUME NEW a PROVE Latest(c, a, theirs) => Latest(o, a, theirs)
  BY <1>2, <1>3 DEF Latest
<1>5. Stays(c, ours, theirs, running) => Stays(o, ours, theirs, running)
  BY <1>1, <1>4 DEF Stays
<1>6. Comes(c, ours, theirs, running) => Comes(o, ours, theirs, running)
  BY <1>1, <1>2 DEF Comes
<1> QED BY <1>5, <1>6

\* Everything in a merge stays or comes, and nothing that should is missing.
LEMMA MergedFrom ==
    ASSUME NEW T, NEW ours \in Seq(Entry(T)), NEW theirs \in Seq(Entry(T)), NEW running,
           Distinct(theirs)
    PROVE  LET out == MergeTabs(ours, theirs, running) IN
           /\ \A i \in DOMAIN out : \/ Stays(out[i], ours, theirs, running)
                                    \/ Comes(out[i], ours, theirs, running)
           /\ \A a \in DOMAIN ours : ours[a].tmux \in running =>
                \E i \in DOMAIN out : out[i].uuid = ours[a].uuid /\ out[i].tmux = ours[a].tmux
           /\ \A b \in DOMAIN theirs : Comes(theirs[b], ours, theirs, running) =>
                \E i \in DOMAIN out : out[i].uuid = theirs[b].uuid /\ out[i].tmux = theirs[b].tmux
<1>1. PICK out, kept, got : /\ out  = MergeTabs(ours, theirs, running)
                            /\ kept = Kept(ours, theirs, running)
                            /\ got  = Got(ours, theirs, running)
  OBVIOUS
<1>2. PICK n : n = Len(kept)
  OBVIOUS
<1>3. /\ \A k \in DOMAIN kept : k \in DOMAIN out /\ Alike(out[k], kept[k])
      /\ \A k \in DOMAIN got : n + k \in DOMAIN out /\ Alike(out[n + k], got[k])
      /\ \A i \in DOMAIN out : i \in DOMAIN kept \/ i - n \in DOMAIN got
      /\ out \in Seq(Entry(T))
  BY <1>1, <1>2, MergedHold
<1>4. /\ \A k \in DOMAIN kept : Stays(kept[k], ours, theirs, running)
      /\ \A a \in DOMAIN ours : ours[a].tmux \in running =>
            \E k \in DOMAIN kept : kept[k].uuid = ours[a].uuid /\ kept[k].tmux = ours[a].tmux
  BY <1>1, KeptFrom
<1>5. /\ \A k \in DOMAIN got : Comes(got[k], ours, theirs, running)
      /\ \A b \in DOMAIN theirs : Comes(theirs[b], ours, theirs, running) =>
            \E k \in DOMAIN got : got[k].uuid = theirs[b].uuid /\ got[k].tmux = theirs[b].tmux
  BY <1>1, GotFrom
<1>6. ASSUME NEW i \in DOMAIN out
      PROVE  Stays(out[i], ours, theirs, running) \/ Comes(out[i], ours, theirs, running)
  <2>1. CASE i \in DOMAIN kept
    <3>1. Alike(out[i], kept[i]) /\ Stays(kept[i], ours, theirs, running)
      BY <1>3, <1>4, <2>1
    <3> QED BY <3>1, StaysAlike
  <2>2. CASE i - n \in DOMAIN got
    <3>1. i \in Nat /\ n \in Nat
      <4>1. kept \in Seq(Entry(T))
        <5>1. AliveTabs(ours, running) \in Seq(Entry(T))
          BY AliveTabsHolds
        <5> QED BY <1>1, <5>1, MergedLocalsHold DEF Kept
      <4> QED BY <1>2, <1>3, <4>1
    <3>2. n + (i - n) = i
      BY <3>1
    <3>3. Alike(out[i], got[i - n]) /\ Comes(got[i - n], ours, theirs, running)
      BY <1>3, <1>5, <2>2, <3>2
    <3> QED BY <3>3, StaysAlike
  <2> QED BY <1>3, <2>1, <2>2
<1>7. ASSUME NEW a \in DOMAIN ours, ours[a].tmux \in running
      PROVE  \E i \in DOMAIN out : out[i].uuid = ours[a].uuid /\ out[i].tmux = ours[a].tmux
  BY <1>3, <1>4, <1>7 DEF Alike
<1>8. ASSUME NEW b \in DOMAIN theirs, Comes(theirs[b], ours, theirs, running)
      PROVE  \E i \in DOMAIN out : out[i].uuid = theirs[b].uuid /\ out[i].tmux = theirs[b].tmux
  BY <1>3, <1>5, <1>8 DEF Alike
<1> QED BY <1>1, <1>6, <1>7, <1>8
-----------------------------------------------------------------------------
(***************************************************************************)
(* What two lists of tabs become, in the terms of the properties.          *)
(***************************************************************************)
KeysOf(row) == {Key(t) : t \in ToSet(row)}

LEMMA KeyOfEntry ==
    ASSUME NEW S, NEW row \in Seq(S), NEW x
    PROVE  x \in KeysOf(row) <=> \E i \in DOMAIN row : x = Key(row[i])
BY DEF KeysOf, ToSet

LEMMA KeyHas ==
    ASSUME NEW a, NEW b
    PROVE  /\ Key(a).uuid = a.uuid /\ Key(a).tmux = a.tmux
           /\ a.uuid = b.uuid /\ a.tmux = b.tmux => Key(a) = Key(b)
BY DEF Key

\* Up to order and metadata the merge is the one of sets of tabs.
LEMMA MergedKeys ==
    ASSUME NEW T, NEW ours \in Seq(Entry(T)), NEW theirs \in Seq(Entry(T)), NEW running,
           Distinct(theirs)
    PROVE  KeysOf(MergeTabs(ours, theirs, running))
                = MergeTabSets(KeysOf(ours), KeysOf(theirs), running)
<1>1. PICK out : out = MergeTabs(ours, theirs, running)
  OBVIOUS
<1>2. out \in Seq(Entry(T))
  BY <1>1, MergedHold
<1>3. /\ \A i \in DOMAIN out : \/ Stays(out[i], ours, theirs, running)
                               \/ Comes(out[i], ours, theirs, running)
      /\ \A a \in DOMAIN ours : ours[a].tmux \in running =>
            \E i \in DOMAIN out : out[i].uuid = ours[a].uuid /\ out[i].tmux = ours[a].tmux
      /\ \A b \in DOMAIN theirs : Comes(theirs[b], ours, theirs, running) =>
            \E i \in DOMAIN out : out[i].uuid = theirs[b].uuid /\ out[i].tmux = theirs[b].tmux
  BY <1>1, MergedFrom
<1>4. PICK mine : mine = {t \in KeysOf(ours) : t.tmux \in running}
  OBVIOUS
<1>5. PICK new : new = {t \in KeysOf(theirs) : /\ t.tmux \in running
                                               /\ \A m \in mine : m.uuid # t.uuid}
  OBVIOUS
<1>6. MergeTabSets(KeysOf(ours), KeysOf(theirs), running) = mine \union new
  BY <1>4, <1>5 DEF MergeTabSets
<1>7. ASSUME NEW x, x \in KeysOf(out) PROVE x \in mine \union new
  <2>1. PICK i \in DOMAIN out : x = Key(out[i])
    BY <1>2, <1>7, KeyOfEntry
  <2>2. CASE Stays(out[i], ours, theirs, running)
    <3>1. PICK a \in DOMAIN ours : /\ out[i].uuid = ours[a].uuid /\ out[i].tmux = ours[a].tmux
                                   /\ out[i].tmux \in running
      BY <2>2 DEF Stays
    <3>2. x = Key(ours[a]) /\ x.tmux \in running
      BY <2>1, <3>1, KeyHas
    <3> QED BY <1>4, <3>2, KeyOfEntry
  <2>3. CASE Comes(out[i], ours, theirs, running)
    <3>1. PICK b \in DOMAIN theirs : Alike(out[i], theirs[b])
      BY <2>3 DEF Comes
    <3>2. x = Key(theirs[b]) /\ x.tmux \in running /\ x.uuid = out[i].uuid
      BY <2>1, <2>3, <3>1, KeyHas DEF Comes, Alike
    <3>3. ASSUME NEW m \in mine, m.uuid = x.uuid PROVE FALSE
      <4>1. PICK a \in DOMAIN ours : m = Key(ours[a])
        BY <1>4, <3>3, KeyOfEntry
      <4>2. ours[a].uuid = out[i].uuid /\ ours[a].tmux \in running
        BY <1>4, <3>2, <3>3, <4>1, KeyHas
      <4> QED BY <2>3, <4>2 DEF Comes
    <3>4. x \in KeysOf(theirs)
      BY <3>2, KeyOfEntry
    <3> QED BY <1>5, <3>2, <3>3, <3>4
  <2> QED BY <1>3, <2>1, <2>2, <2>3
<1>8. ASSUME NEW x, x \in mine PROVE x \in KeysOf(out)
  <2>1. PICK a \in DOMAIN ours : x = Key(ours[a])
    BY <1>4, <1>8, KeyOfEntry
  <2>2. ours[a].tmux \in running
    BY <1>4, <1>8, <2>1, KeyHas
  <2>3. PICK i \in DOMAIN out : out[i].uuid = ours[a].uuid /\ out[i].tmux = ours[a].tmux
    BY <1>3, <2>2
  <2>4. x = Key(out[i])
    BY <2>1, <2>3, KeyHas
  <2> QED BY <1>2, <2>4, KeyOfEntry
<1>9. ASSUME NEW x, x \in new PROVE x \in KeysOf(out)
  <2>1. PICK b \in DOMAIN theirs : x = Key(theirs[b])
    BY <1>5, <1>9, KeyOfEntry
  <2>2. Comes(theirs[b], ours, theirs, running)
    <3>1. theirs[b].tmux \in running /\ \A m \in mine : m.uuid # theirs[b].uuid
      BY <1>5, <1>9, <2>1, KeyHas
    <3>2. ASSUME NEW a \in DOMAIN ours, ours[a].uuid = theirs[b].uuid, ours[a].tmux \in running
          PROVE  FALSE
      <4>1. Key(ours[a]) \in KeysOf(ours)
        BY KeyOfEntry
      <4>2. Key(ours[a]).tmux \in running /\ Key(ours[a]).uuid = theirs[b].uuid
        BY <3>2, KeyHas
      <4>3. Key(ours[a]) \in mine
        BY <1>4, <4>1, <4>2
      <4> QED BY <3>1, <4>2, <4>3
    <3> QED BY <3>1, <3>2 DEF Comes, Alike
  <2>3. PICK i \in DOMAIN out : out[i].uuid = theirs[b].uuid /\ out[i].tmux = theirs[b].tmux
    BY <1>3, <2>2
  <2>4. x = Key(out[i])
    BY <2>1, <2>3, KeyHas
  <2> QED BY <1>2, <2>4, KeyOfEntry
<1>10. KeysOf(out) = mine \union new
  BY <1>7, <1>8, <1>9
<1> QED BY <1>1, <1>6, <1>10

\* The uuids of a merge are those of the live tabs of both sides.
LEMMA MergedUuids ==
    ASSUME NEW T, NEW ours \in Seq(Entry(T)), NEW theirs \in Seq(Entry(T)), NEW running,
           Distinct(theirs)
    PROVE  UuidsOf(MergeTabs(ours, theirs, running))
                = {t.uuid : t \in {b \in KeysOf(ours) \union KeysOf(theirs) : b.tmux \in running}}
<1>1. PICK out : out = MergeTabs(ours, theirs, running)
  OBVIOUS
<1>2. out \in Seq(Entry(T))
  BY <1>1, MergedHold
<1>3. PICK both : both = {b \in KeysOf(ours) \union KeysOf(theirs) : b.tmux \in running}
  OBVIOUS
<1>4. KeysOf(out) = MergeTabSets(KeysOf(ours), KeysOf(theirs), running)
  BY <1>1, MergedKeys
<1>5. \A u : u \in UuidsOf(out) <=> \E x \in KeysOf(out) : x.uuid = u
  <2>1. \A u : u \in UuidsOf(out) <=> \E i \in DOMAIN out : out[i].uuid = u
    BY <1>2, UuidOfEntry
  <2>2. \A x : x \in KeysOf(out) <=> \E i \in DOMAIN out : x = Key(out[i])
    BY <1>2, KeyOfEntry
  <2>3. \A i \in DOMAIN out : Key(out[i]).uuid = out[i].uuid
    BY KeyHas
  <2> QED BY <2>1, <2>2, <2>3
<1>6. \A u : (\E x \in KeysOf(out) : x.uuid = u) <=> \E x \in both : x.uuid = u
  BY <1>3, <1>4 DEF MergeTabSets
<1>7. UuidsOf(out) = {t.uuid : t \in both}
  BY <1>5, <1>6
<1> QED BY <1>1, <1>3, <1>7

LEMMA DistinctCounts ==
    ASSUME NEW S, NEW row \in Seq(S), Distinct(row)
    PROVE  Cardinality(UuidsOf(row)) = Len(row)
<1>1. PICK f : f = [i \in 1 .. Len(row) |-> row[i].uuid]
  OBVIOUS
<1>2. Len(row) \in Nat /\ DOMAIN row = 1 .. Len(row)
  OBVIOUS
<1>3. PICK U : U = UuidsOf(row)
  OBVIOUS
<1>4. \A u : u \in U <=> \E i \in 1 .. Len(row) : row[i].uuid = u
  BY <1>2, <1>3, UuidOfEntry
<1>5. \A i \in 1 .. Len(row) : f[i] = row[i].uuid /\ f[i] \in U
  BY <1>1, <1>4
<1>6. f \in [1 .. Len(row) -> U]
  BY <1>1, <1>5
<1>7. \A i, j \in 1 .. Len(row) : f[i] = f[j] => i = j
  BY <1>2, <1>5 DEF Distinct
<1>8. f \in Bijection(1 .. Len(row), U)
  BY <1>4, <1>5, <1>6, <1>7 DEF Bijection, Injection, Surjection, IsInjective
<1> QED BY <1>2, <1>3, <1>8, FS_CountingElements DEF ExistsBijection

\* A tab has one session on whichever side.
SameTmux(ours, theirs) ==
    \A a \in DOMAIN ours, b \in DOMAIN theirs :
        ours[a].uuid = theirs[b].uuid => ours[a].tmux = theirs[b].tmux

\* c has the content of an entry of o's uuid.
Source(c, row, o) == \E i \in DOMAIN row : row[i].uuid = o.uuid /\ Content(c) = Content(row[i])

NotOlder(o, row) == \A i \in DOMAIN row : row[i].uuid = o.uuid => row[i].at <= o.at

LEMMA ContentIs ==
    ASSUME NEW a, NEW b
    PROVE  /\ Content(a).uuid = a.uuid /\ Content(a).at = a.at
           /\ Content(a).title = a.title /\ Content(a).win = a.win
           /\ a.uuid = b.uuid /\ a.title = b.title /\ a.win = b.win /\ a.at = b.at
                => Content(a) = Content(b)
BY DEF Content

LEMMA EntryTimes ==
    ASSUME NEW T, NEW row \in Seq(Entry(T))
    PROVE  \A i \in DOMAIN row : row[i].at \in Nat
<1>1. \A i \in DOMAIN row : row[i] \in Entry(T)
  OBVIOUS
<1> QED BY <1>1 DEF Entry

\* An entry of a merge is as new as any entry of its uuid, and is one of them.
LEMMA MergedNewest ==
    ASSUME NEW T, NEW ours \in Seq(Entry(T)), NEW theirs \in Seq(Entry(T)), NEW running,
           Distinct(ours), Distinct(theirs), SameTmux(ours, theirs),
           NEW out, out = MergeTabs(ours, theirs, running), NEW i \in DOMAIN out
    PROVE  /\ NotOlder(out[i], ours) /\ NotOlder(out[i], theirs)
           /\ Source(out[i], ours, out[i]) \/ Source(out[i], theirs, out[i])
<1>1. PICK o : o = out[i]
  OBVIOUS
<1>2. Stays(o, ours, theirs, running) \/ Comes(o, ours, theirs, running)
  BY <1>1, MergedFrom
<1>0. /\ \A a \in DOMAIN ours : ours[a].at \in Nat
      /\ \A b \in DOMAIN theirs : theirs[b].at \in Nat
  BY EntryTimes
<1>3. CASE Stays(o, ours, theirs, running)
  <2>1. PICK a \in DOMAIN ours : o.uuid = ours[a].uuid /\ Latest(o, ours[a], theirs)
    BY <1>3 DEF Stays
  <2>2. \A c \in DOMAIN ours : ours[c].uuid = o.uuid => c = a
    BY <2>1 DEF Distinct
  <2>3. CASE Alike(o, ours[a]) /\ \A b \in DOMAIN theirs :
                theirs[b].uuid = ours[a].uuid => ~(theirs[b].at > ours[a].at)
    <3>1. o.at = ours[a].at
      BY <2>3 DEF Alike
    <3>2. NotOlder(o, ours)
      BY <1>0, <2>2, <3>1 DEF NotOlder
    <3>3. NotOlder(o, theirs)
      BY <1>0, <2>1, <2>3, <3>1 DEF NotOlder
    <3>4. Content(o) = Content(ours[a])
      BY <2>3, ContentIs DEF Alike
    <3> QED BY <1>1, <2>1, <3>2, <3>3, <3>4 DEF Source
  <2>4. CASE \E b \in DOMAIN theirs : theirs[b].uuid = ours[a].uuid /\ TakesOver(o, ours[a], theirs[b])
    <3>1. PICK b \in DOMAIN theirs : theirs[b].uuid = ours[a].uuid /\ TakesOver(o, ours[a], theirs[b])
      BY <2>4
    <3>2. o.at = theirs[b].at /\ theirs[b].at > ours[a].at
      BY <3>1 DEF TakesOver
    <3>3. \A c \in DOMAIN theirs : theirs[c].uuid = o.uuid => c = b
      BY <2>1, <3>1 DEF Distinct
    <3>4. NotOlder(o, ours)
      BY <1>0, <2>2, <3>2 DEF NotOlder
    <3>5. NotOlder(o, theirs)
      BY <1>0, <3>2, <3>3 DEF NotOlder
    <3>6. Content(o) = Content(theirs[b])
      BY <2>1, <3>1, ContentIs DEF TakesOver
    <3> QED BY <1>1, <2>1, <3>1, <3>4, <3>5, <3>6 DEF Source
  <2> QED BY <2>1, <2>3, <2>4 DEF Latest
<1>4. CASE Comes(o, ours, theirs, running)
  <2>1. PICK b \in DOMAIN theirs : Alike(o, theirs[b])
    BY <1>4 DEF Comes
  <2>2. /\ o.uuid = theirs[b].uuid /\ o.tmux = theirs[b].tmux /\ o.at = theirs[b].at
        /\ o.tmux \in running
    BY <1>4, <2>1 DEF Comes, Alike
  <2>3. \A a \in DOMAIN ours : ours[a].uuid # o.uuid
    BY <1>4, <2>2 DEF Comes, SameTmux
  <2>4. \A c \in DOMAIN theirs : theirs[c].uuid = o.uuid => c = b
    BY <2>2 DEF Distinct
  <2>5. NotOlder(o, ours) /\ NotOlder(o, theirs)
    BY <1>0, <2>2, <2>3, <2>4 DEF NotOlder
  <2>6. Content(o) = Content(theirs[b])
    BY <2>1, ContentIs DEF Alike
  <2> QED BY <1>1, <2>2, <2>5, <2>6 DEF Source
<1> QED BY <1>2, <1>3, <1>4
\* Both sides edited a tab at the same time, differently.
TiedTabs(ours, theirs) ==
    \E a \in DOMAIN ours, b \in DOMAIN theirs :
        /\ ours[a].uuid = theirs[b].uuid /\ ours[a].at = theirs[b].at
        /\ ours[a].title # theirs[b].title \/ ours[a].win # theirs[b].win

LEMMA SourcesAgree ==
    ASSUME NEW T, NEW ours \in Seq(Entry(T)), NEW theirs \in Seq(Entry(T)),
           Distinct(ours), Distinct(theirs), ~TiedTabs(ours, theirs),
           NEW o, NEW p, o.uuid = p.uuid, o.at \in Nat, p.at \in Nat,
           NotOlder(o, ours), NotOlder(o, theirs), NotOlder(p, ours), NotOlder(p, theirs),
           Source(o, ours, o) \/ Source(o, theirs, o), Source(p, ours, p) \/ Source(p, theirs, p)
    PROVE  Content(o) = Content(p)
<1>1. \A i \in DOMAIN ours : Content(o) = Content(ours[i]) => o.at = ours[i].at
  BY ContentIs
<1>2. \A i \in DOMAIN theirs : Content(o) = Content(theirs[i]) => o.at = theirs[i].at
  BY ContentIs
<1>3. \A i \in DOMAIN ours : Content(p) = Content(ours[i]) => p.at = ours[i].at
  BY ContentIs
<1>4. \A i \in DOMAIN theirs : Content(p) = Content(theirs[i]) => p.at = theirs[i].at
  BY ContentIs
<1>5. o.at <= p.at
  BY <1>1, <1>2 DEF Source, NotOlder
<1>6. p.at <= o.at
  BY <1>3, <1>4 DEF Source, NotOlder
<1>7. o.at = p.at
  BY <1>5, <1>6
<1>8. ASSUME NEW a \in DOMAIN ours, NEW b \in DOMAIN theirs,
             ours[a].uuid = theirs[b].uuid, ours[a].at = theirs[b].at
      PROVE  Content(ours[a]) = Content(theirs[b])
  BY <1>8, ContentIs DEF TiedTabs
<1>9. CASE Source(o, ours, o) /\ Source(p, ours, p)
  BY <1>9 DEF Source, Distinct
<1>10. CASE Source(o, theirs, o) /\ Source(p, theirs, p)
  BY <1>10 DEF Source, Distinct
<1>11. CASE Source(o, ours, o) /\ Source(p, theirs, p)
  <2>1. PICK a \in DOMAIN ours : ours[a].uuid = o.uuid /\ Content(o) = Content(ours[a])
    BY <1>11 DEF Source
  <2>2. PICK b \in DOMAIN theirs : theirs[b].uuid = p.uuid /\ Content(p) = Content(theirs[b])
    BY <1>11 DEF Source
  <2> QED BY <1>1, <1>4, <1>7, <1>8, <2>1, <2>2
<1>12. CASE Source(o, theirs, o) /\ Source(p, ours, p)
  <2>1. PICK b \in DOMAIN theirs : theirs[b].uuid = o.uuid /\ Content(o) = Content(theirs[b])
    BY <1>12 DEF Source
  <2>2. PICK a \in DOMAIN ours : ours[a].uuid = p.uuid /\ Content(p) = Content(ours[a])
    BY <1>12 DEF Source
  <2> QED BY <1>2, <1>3, <1>7, <1>8, <2>1, <2>2
<1> QED BY <1>9, <1>10, <1>11, <1>12

ContentsOf(row) == {Content(t) : t \in ToSet(row)}

\* What one device writes the other one writes too.
LEMMA MergedAgree ==
    ASSUME NEW T, NEW ours \in Seq(Entry(T)), NEW theirs \in Seq(Entry(T)), NEW running,
           Distinct(ours), Distinct(theirs), SameTmux(ours, theirs), ~TiedTabs(ours, theirs)
    PROVE  ContentsOf(MergeTabs(ours, theirs, running))
                \subseteq ContentsOf(MergeTabs(theirs, ours, running))
<1>1. PICK out, mir : /\ out = MergeTabs(ours, theirs, running)
                      /\ mir = MergeTabs(theirs, ours, running)
  OBVIOUS
<1>2. out \in Seq(Entry(T)) /\ mir \in Seq(Entry(T))
  BY <1>1, MergedHold
<1>3. SameTmux(theirs, ours)
  BY DEF SameTmux
<1>4. UuidsOf(out) = UuidsOf(mir)
  <2>1. KeysOf(ours) \union KeysOf(theirs) = KeysOf(theirs) \union KeysOf(ours)
    OBVIOUS
  <2>2. UuidsOf(out) = {t.uuid : t \in {b \in KeysOf(ours) \union KeysOf(theirs) : b.tmux \in running}}
    BY <1>1, MergedUuids
  <2>3. UuidsOf(mir) = {t.uuid : t \in {b \in KeysOf(theirs) \union KeysOf(ours) : b.tmux \in running}}
    BY <1>1, MergedUuids
  <2> QED BY <2>1, <2>2, <2>3
<1>5. ASSUME NEW i \in DOMAIN out PROVE \E j \in DOMAIN mir : Content(out[i]) = Content(mir[j])
  <2>1. out[i].uuid \in UuidsOf(mir)
    BY <1>2, <1>4, UuidOfEntry
  <2>2. PICK j \in DOMAIN mir : mir[j].uuid = out[i].uuid
    BY <1>2, <2>1, UuidOfEntry
  <2>3. /\ NotOlder(out[i], ours) /\ NotOlder(out[i], theirs)
        /\ Source(out[i], ours, out[i]) \/ Source(out[i], theirs, out[i])
    BY <1>1, MergedNewest
  <2>4. /\ NotOlder(mir[j], ours) /\ NotOlder(mir[j], theirs)
        /\ Source(mir[j], ours, mir[j]) \/ Source(mir[j], theirs, mir[j])
    BY <1>1, <1>3, MergedNewest
  <2>5. out[i].at \in Nat /\ mir[j].at \in Nat
    BY <1>2, EntryTimes
  <2>6. Content(out[i]) = Content(mir[j])
    BY <2>2, <2>3, <2>4, <2>5, SourcesAgree
  <2> QED BY <2>6
<1>6. ContentsOf(out) \subseteq ContentsOf(mir)
  BY <1>2, <1>5 DEF ContentsOf, ToSet
<1> QED BY <1>1, <1>6

LEMMA MergedSettled ==
    ASSUME NEW T, NEW ours \in Seq(Entry(T)), NEW theirs \in Seq(Entry(T)), NEW running,
           Distinct(ours)
    PROVE  Settled(MergeTabs(ours, theirs, running), AliveTabs(ours, running), running)
<1>1. PICK out, mine, kept, got : /\ out  = MergeTabs(ours, theirs, running)
                                  /\ mine = AliveTabs(ours, running)
                                  /\ kept = Kept(ours, theirs, running)
                                  /\ got  = Got(ours, theirs, running)
  OBVIOUS
<1>2. /\ out \in Seq(Entry(T)) /\ Len(out) = Len(kept) + Len(got)
      /\ \A i \in DOMAIN out : out[i].pos = i - 1
      /\ \A k \in DOMAIN kept : k \in DOMAIN out /\ Alike(out[k], kept[k])
  BY <1>1, MergedHold
<1>3. Distinct(out) /\ \A i \in DOMAIN out : out[i].tmux \in running
  BY <1>1, MergedDistinct
<1>4. mine \in Seq(Entry(T)) /\ got \in Seq(Entry(T)) /\ kept \in Seq(Entry(T))
  BY <1>1, AliveTabsHolds, KeptIs
<1>5. kept = MergedLocals(mine, theirs)
  BY <1>1 DEF Kept
<1>6. /\ DOMAIN kept = DOMAIN mine
      /\ \A k \in DOMAIN mine : kept[k].uuid = mine[k].uuid /\ kept[k].tmux = mine[k].tmux
      /\ \A k \in DOMAIN mine :
            \/ mine[k].uuid \notin UuidsOf(theirs) /\ kept[k] = mine[k]
            \/ \E i \in DOMAIN theirs :
                  /\ theirs[i].uuid = mine[k].uuid
                  /\ RemoteByUuid(theirs, mine[k].uuid) = theirs[i]
                  /\ \/ TakesOver(kept[k], mine[k], theirs[i])
                     \/ ~(theirs[i].at > mine[k].at) /\ kept[k] = mine[k]
  BY <1>4, <1>5, MergedLocalsHold
<1>7. ASSUME NEW k \in DOMAIN mine
      PROVE  /\ out[k].uuid = mine[k].uuid /\ out[k].tmux = mine[k].tmux
             /\ out[k].at > mine[k].at \/ Alike(out[k], mine[k])
  <2>1. k \in DOMAIN kept /\ Alike(out[k], kept[k])
    BY <1>2, <1>6
  <2>2. out[k].uuid = mine[k].uuid /\ out[k].tmux = mine[k].tmux
    BY <1>6, <2>1 DEF Alike
  <2>3. kept[k] = mine[k] \/ kept[k].at > mine[k].at
    BY <1>6 DEF TakesOver
  <2>4. out[k].at > mine[k].at \/ Alike(out[k], mine[k])
    BY <2>1, <2>3 DEF Alike
  <2> QED BY <2>2, <2>4
<1>8. Len(mine) <= Len(out)
  <2>1. Len(kept) = Len(mine) /\ Len(got) \in Nat /\ Len(kept) \in Nat
    BY <1>4, <1>6
  <2> QED BY <1>2, <2>1
<1>9. Settled(out, mine, running)
  BY <1>2, <1>3, <1>7, <1>8 DEF Settled
<1> QED BY <1>1, <1>9

LEMMA NothingAt ==
    ASSUME NEW s
    PROVE  SubSeqAt(s, {}) = <<>>
<1>1. PICK e, I, m : e = <<>> /\ I = {} /\ m = 0
  OBVIOUS
<1>2. Enumerates(e, m, I) /\ I \in SUBSET Nat /\ m \in Nat
  BY <1>1 DEF Enumerates
<1>3. SubSeqAt(s, I) = [k \in 1 .. m |-> s[e[k]]]
  BY <1>2, SubSeqIs
<1>4. [k \in 1 .. m |-> s[e[k]]] = <<>>
  BY <1>1
<1> QED BY <1>1, <1>3, <1>4

\* A workspace only the flushing device has is merged with nothing,
LEMMA AloneOurs ==
    ASSUME NEW T, NEW ours \in Seq(Entry(T)), NEW running
    PROVE  MergeTabs(ours, <<>>, running) = Reindex(AliveTabs(ours, running))
<1>1. PICK mine : mine = AliveTabs(ours, running)
  OBVIOUS
<1>2. mine \in Seq(Entry(T))
  BY <1>1, AliveTabsHolds
<1>3. MergedLocals(mine, <<>>) = mine
  <2>1. UuidsOf(<<>>) = {}
    BY DEF UuidsOf, ToSet
  <2>2. MergedLocals(mine, <<>>) = [i \in DOMAIN mine |-> mine[i]]
    BY <2>1 DEF MergedLocals
  <2> QED BY <1>2, <2>2
<1>4. SubSeqAt(<<>>, AdoptedAt(mine, <<>>, running)) = <<>>
  <2>1. AdoptedAt(mine, <<>>, running) = {}
    BY DEF AdoptedAt, AliveAt
  <2> QED BY <2>1, NothingAt
<1>5. mine \o <<>> = mine
  BY <1>2
<1> QED BY <1>1, <1>3, <1>4, <1>5 DEF MergeTabs

\* and one only the other device has with nothing of its own.
LEMMA AloneTheirs ==
    ASSUME NEW T, NEW theirs \in Seq(Entry(T)), NEW running, Distinct(theirs)
    PROVE  MergeTabs(<<>>, theirs, running) = Reindex(AliveTabs(theirs, running))
<1>1. AliveTabs(<<>>, running) = <<>>
  <2>1. AliveAt(<<>>, running) = {}
    BY DEF AliveAt
  <2> QED BY <2>1, NothingAt DEF AliveTabs
<1>2. MergedLocals(<<>>, theirs) = <<>>
  <2>1. DOMAIN <<>> = 1 .. 0
    OBVIOUS
  <2> QED BY <2>1 DEF MergedLocals
<1>3. AdoptedAt(<<>>, theirs, running) = AliveAt(theirs, running)
  <2>1. \A u : u \notin UuidsOf(<<>>)
    BY DEF UuidsOf, ToSet
  <2>2. \A i, j \in DOMAIN theirs : theirs[i].uuid = theirs[j].uuid => i <= j
    BY DEF Distinct
  <2>3. AliveAt(theirs, running) \subseteq DOMAIN theirs
    BY DEF AliveAt
  <2> QED BY <2>1, <2>2, <2>3 DEF AdoptedAt
<1>4. PICK mine : mine = AliveTabs(theirs, running)
  OBVIOUS
<1>5. mine \in Seq(Entry(T))
  BY <1>4, AliveTabsHolds
<1>6. <<>> \o mine = mine
  BY <1>5
<1>7. SubSeqAt(theirs, AdoptedAt(<<>>, theirs, running)) = mine
  BY <1>3, <1>4 DEF AliveTabs
<1> QED BY <1>1, <1>2, <1>4, <1>6, <1>7 DEF MergeTabs

\* Filtering what has been filtered changes nothing.
LEMMA FilterFixed ==
    ASSUME NEW T, NEW row \in Seq(Entry(T)), NEW running,
           NEW out, out = Reindex(AliveTabs(row, running))
    PROVE  Reindex(AliveTabs(out, running)) = out
<1>1. PICK mine : mine = AliveTabs(row, running)
  OBVIOUS
<1>2. /\ mine \in Seq(Entry(T))
      /\ \A k \in DOMAIN mine : mine[k].tmux \in running
  BY <1>1, AliveTabsHolds
<1>3. /\ out \in Seq(Entry(T)) /\ DOMAIN out = DOMAIN mine
      /\ \A i \in DOMAIN mine : Alike(out[i], mine[i]) /\ out[i].pos = i - 1
  BY <1>1, <1>2, ReindexHolds
<1>4. \A i \in DOMAIN out : out[i].tmux \in running
  BY <1>2, <1>3 DEF Alike
<1>5. AliveTabs(out, running) = out
  BY <1>3, <1>4, AliveTabsFixed
<1>6. \A i \in DOMAIN out : Alike(out[i], out[i]) /\ out[i].pos = i - 1
  BY <1>3 DEF Alike
<1>7. Reindex(out) = out
  BY <1>3, <1>6, ReindexFixed
<1> QED BY <1>5, <1>7
-----------------------------------------------------------------------------
(***************************************************************************)
(* Workspaces and documents.                                               *)
(***************************************************************************)
Workspace(T) == [name : T, uuid : T, tabs : Seq(Entry(T)), at : Nat]

LEMMA MergedAgain ==
    ASSUME NEW T, NEW ours \in Seq(Entry(T)), NEW theirs \in Seq(Entry(T)), NEW running,
           Distinct(ours), NEW out, out = MergeTabs(ours, theirs, running)
    PROVE  MergeTabs(ours, out, running) = out
<1>1. out \in Seq(Entry(T))
  BY MergedHold
<1>2. Settled(out, AliveTabs(ours, running), running)
  BY MergedSettled
<1> QED BY <1>1, <1>2, Absorbs

LEMMA WorkspaceAgain ==
    ASSUME NEW T, NEW a \in Workspace(T), NEW b \in Workspace(T), NEW running, Distinct(a.tabs),
           NEW c, c = MergeWorkspace(a, b, running)
    PROVE  MergeWorkspace(a, c, running) = c
<1>1. /\ a.at \in Nat /\ b.at \in Nat
      /\ a.tabs \in Seq(Entry(T)) /\ b.tabs \in Seq(Entry(T))
  BY DEF Workspace
<1>2. /\ c.name = IF NewerThan(b.at, a.at) THEN b.name ELSE a.name
      /\ c.uuid = a.uuid /\ c.tabs = MergeTabs(a.tabs, b.tabs, running)
      /\ c.at = IF b.at > a.at THEN b.at ELSE a.at
      /\ c = [name |-> c.name, uuid |-> c.uuid, tabs |-> c.tabs, at |-> c.at]
  BY DEF MergeWorkspace
<1>3. PICK row : row = MergeTabs(a.tabs, b.tabs, running)
  OBVIOUS
<1>4. MergeTabs(a.tabs, row, running) = row
  BY <1>1, <1>3, MergedAgain
<1>5. MergeTabs(a.tabs, c.tabs, running) = c.tabs
  BY <1>2, <1>3, <1>4
<1>6. (IF NewerThan(c.at, a.at) THEN c.name ELSE a.name) = c.name
  BY <1>1, <1>2 DEF NewerThan
<1>7. (IF c.at > a.at THEN c.at ELSE a.at) = c.at
  BY <1>1, <1>2
<1> QED BY <1>2, <1>5, <1>6, <1>7 DEF MergeWorkspace

LEMMA FilterIs ==
    ASSUME NEW T, NEW a \in Workspace(T), NEW running
    PROVE  FilterWorkspace(a, running)
                = [name |-> a.name, uuid |-> a.uuid,
                   tabs |-> Reindex(AliveTabs(a.tabs, running)), at |-> a.at]
BY DEF FilterWorkspace, Workspace

LEMMA FilterThenMerge ==
    ASSUME NEW T, NEW a \in Workspace(T), NEW running, Distinct(a.tabs),
           NEW c, c = FilterWorkspace(a, running)
    PROVE  MergeWorkspace(a, c, running) = c
<1>1. a.at \in Nat /\ a.tabs \in Seq(Entry(T))
  BY DEF Workspace
<1>2. c = [name |-> a.name, uuid |-> a.uuid,
           tabs |-> Reindex(AliveTabs(a.tabs, running)), at |-> a.at]
  BY FilterIs
<1>3. /\ c.name = a.name /\ c.uuid = a.uuid /\ c.at = a.at
      /\ c.tabs = Reindex(AliveTabs(a.tabs, running))
      /\ c = [name |-> a.name, uuid |-> a.uuid, tabs |-> c.tabs, at |-> a.at]
  BY <1>2
<1>4. PICK none, row : none = <<>> /\ row = MergeTabs(a.tabs, none, running)
  OBVIOUS
<1>5. row = c.tabs
  BY <1>1, <1>3, <1>4, AloneOurs
<1>6. MergeTabs(a.tabs, row, running) = row
  <2>1. none \in Seq(Entry(T)) /\ row = MergeTabs(a.tabs, none, running)
    BY <1>4
  <2> QED BY <1>1, <2>1, MergedAgain
<1>7. MergeTabs(a.tabs, c.tabs, running) = c.tabs
  BY <1>5, <1>6
<1>8. (IF NewerThan(c.at, a.at) THEN c.name ELSE a.name) = a.name
  BY <1>3
<1>9. (IF c.at > a.at THEN c.at ELSE a.at) = a.at
  BY <1>3
<1> QED BY <1>3, <1>7, <1>8, <1>9 DEF MergeWorkspace

LEMMA FilterTwice ==
    ASSUME NEW T, NEW a \in Workspace(T), NEW running,
           NEW c, c = FilterWorkspace(a, running)
    PROVE  FilterWorkspace(c, running) = c
<1>1. a.tabs \in Seq(Entry(T))
  BY DEF Workspace
<1>2. PICK row : row = Reindex(AliveTabs(a.tabs, running))
  OBVIOUS
<1>3. c = [name |-> a.name, uuid |-> a.uuid, tabs |-> row, at |-> a.at]
  BY <1>2, FilterIs
<1>4. Reindex(AliveTabs(row, running)) = row
  BY <1>1, <1>2, FilterFixed
<1>5. c.tabs = row /\ FilterWorkspace(c, running)
                            = [c EXCEPT !.tabs = Reindex(AliveTabs(c.tabs, running))]
  BY <1>3 DEF FilterWorkspace
<1> QED BY <1>3, <1>4, <1>5

IsDocument(doc, T) ==
    \E D : doc \in [workspaces : [D -> Workspace(T)], hiddenWindows : Seq(Hidden(T))]

\* Both documents name each tab and each hidden window once, and agree on the
\* session of a tab.
Mergeable(l, r, T) ==
    /\ IsDocument(l, T) /\ IsDocument(r, T)
    /\ \A n \in DOMAIN l.workspaces : Distinct(l.workspaces[n].tabs)
    /\ \A n \in DOMAIN r.workspaces : Distinct(r.workspaces[n].tabs)
    /\ \A n \in DOMAIN l.workspaces \intersect DOMAIN r.workspaces :
            SameTmux(l.workspaces[n].tabs, r.workspaces[n].tabs)
    /\ DistinctIds(l.hiddenWindows) /\ DistinctIds(r.hiddenWindows)

LEMMA MergeableSwaps ==
    ASSUME NEW T, NEW l, NEW r, Mergeable(l, r, T)
    PROVE  Mergeable(r, l, T)
BY DEF Mergeable, SameTmux

LEMMA DocumentHolds ==
    ASSUME NEW T, NEW doc, IsDocument(doc, T)
    PROVE  /\ \A n \in DOMAIN doc.workspaces : /\ doc.workspaces[n] \in Workspace(T)
                                               /\ doc.workspaces[n].tabs \in Seq(Entry(T))
           /\ \A n : TabsOf(doc, n) \in Seq(Entry(T))
           /\ doc.hiddenWindows \in Seq(Hidden(T))
<1>1. PICK D : doc \in [workspaces : [D -> Workspace(T)], hiddenWindows : Seq(Hidden(T))]
  BY DEF IsDocument
<1>2. doc.workspaces \in [D -> Workspace(T)] /\ doc.hiddenWindows \in Seq(Hidden(T))
  BY <1>1
<1>3. \A n \in DOMAIN doc.workspaces : doc.workspaces[n] \in Workspace(T)
  BY <1>2
<1>4. \A w \in Workspace(T) : w.tabs \in Seq(Entry(T))
  BY DEF Workspace
<1>5. \A n \in DOMAIN doc.workspaces : doc.workspaces[n].tabs \in Seq(Entry(T))
  BY <1>3, <1>4
<1>6. \A n : TabsOf(doc, n) \in Seq(Entry(T))
  BY <1>5 DEF TabsOf
<1> QED BY <1>2, <1>3, <1>5, <1>6

\* The inputs of a merge, workspace by workspace.
LEMMA InputsHold ==
    ASSUME NEW T, NEW l, NEW r, Mergeable(l, r, T), NEW n
    PROVE  /\ TabsOf(l, n) \in Seq(Entry(T)) /\ TabsOf(r, n) \in Seq(Entry(T))
           /\ Distinct(TabsOf(l, n)) /\ Distinct(TabsOf(r, n))
           /\ SameTmux(TabsOf(l, n), TabsOf(r, n)) /\ SameTmux(TabsOf(r, n), TabsOf(l, n))
<1>1. TabsOf(l, n) \in Seq(Entry(T)) /\ TabsOf(r, n) \in Seq(Entry(T))
  BY DocumentHolds DEF Mergeable
<1>2. DOMAIN <<>> = {}
  OBVIOUS
<1>3. Distinct(TabsOf(l, n)) /\ Distinct(TabsOf(r, n))
  BY <1>2 DEF Mergeable, TabsOf, Distinct
<1>4. SameTmux(TabsOf(l, n), TabsOf(r, n))
  BY <1>2 DEF Mergeable, TabsOf, SameTmux
<1>5. SameTmux(TabsOf(r, n), TabsOf(l, n))
  BY <1>4 DEF SameTmux
<1> QED BY <1>1, <1>3, <1>4, <1>5

\* A merge has the workspaces of both documents, and in each the merge of their tabs.
LEMMA MergedDocument ==
    ASSUME NEW T, NEW l, NEW r, Mergeable(l, r, T), NEW running,
           NEW m, m = MergeSharedStates(l, r, running)
    PROVE  /\ DOMAIN m.workspaces = DOMAIN l.workspaces \union DOMAIN r.workspaces
           /\ \A n \in DOMAIN m.workspaces :
                TabsOf(m, n) = MergeTabs(TabsOf(l, n), TabsOf(r, n), running)
<1>1. PICK L, R : L = DOMAIN l.workspaces /\ R = DOMAIN r.workspaces
  OBVIOUS
<1>2. m.workspaces = [n \in L \union R |->
                IF n \in L \intersect R
                THEN MergeWorkspace(l.workspaces[n], r.workspaces[n], running)
                ELSE FilterWorkspace(IF n \in L THEN l.workspaces[n] ELSE r.workspaces[n], running)]
  BY <1>1 DEF MergeSharedStates
<1>3. /\ \A n \in L : l.workspaces[n] \in Workspace(T) /\ TabsOf(l, n) = l.workspaces[n].tabs
      /\ \A n \in R : r.workspaces[n] \in Workspace(T) /\ TabsOf(r, n) = r.workspaces[n].tabs
  BY <1>1, DocumentHolds DEF Mergeable, TabsOf
<1>4. ASSUME NEW n \in L \union R
      PROVE  TabsOf(m, n) = MergeTabs(TabsOf(l, n), TabsOf(r, n), running)
  <2>1. TabsOf(m, n) = m.workspaces[n].tabs
    BY <1>2 DEF TabsOf
  <2>2. /\ TabsOf(l, n) \in Seq(Entry(T)) /\ TabsOf(r, n) \in Seq(Entry(T))
        /\ Distinct(TabsOf(r, n))
    BY InputsHold
  <2>3. CASE n \in L /\ n \in R
    BY <1>2, <1>3, <2>1, <2>3 DEF MergeWorkspace
  <2>4. CASE n \in L /\ n \notin R
    <3>1. m.workspaces[n] = FilterWorkspace(l.workspaces[n], running)
      BY <1>2, <2>4
    <3>2. m.workspaces[n].tabs = Reindex(AliveTabs(TabsOf(l, n), running))
      BY <1>3, <2>4, <3>1, FilterIs
    <3>3. TabsOf(r, n) = <<>>
      BY <1>1, <2>4 DEF TabsOf
    <3> QED BY <2>1, <2>2, <3>2, <3>3, AloneOurs
  <2>5. CASE n \notin L /\ n \in R
    <3>1. m.workspaces[n] = FilterWorkspace(r.workspaces[n], running)
      BY <1>2, <2>5
    <3>2. m.workspaces[n].tabs = Reindex(AliveTabs(TabsOf(r, n), running))
      BY <1>3, <2>5, <3>1, FilterIs
    <3>3. TabsOf(l, n) = <<>>
      BY <1>1, <2>5 DEF TabsOf
    <3> QED BY <2>1, <2>2, <3>2, <3>3, AloneTheirs
  <2> QED BY <2>3, <2>4, <2>5
<1>5. DOMAIN m.workspaces = L \union R
  BY <1>2
<1> QED BY <1>1, <1>4, <1>5

\* The result of a merge, merged again with the same document, is the same.
LEMMA DocumentAgain ==
    ASSUME NEW T, NEW l, NEW r, Mergeable(l, r, T), NEW running,
           NEW m, m = MergeSharedStates(l, r, running)
    PROVE  MergeSharedStates(l, m, running) = m
<1>1. PICK lw, rw, mw : lw = l.workspaces /\ rw = r.workspaces /\ mw = m.workspaces
  OBVIOUS
<1>2. /\ mw = [n \in DOMAIN lw \union DOMAIN rw |->
                  IF n \in DOMAIN lw \intersect DOMAIN rw
                  THEN MergeWorkspace(lw[n], rw[n], running)
                  ELSE FilterWorkspace(IF n \in DOMAIN lw THEN lw[n] ELSE rw[n], running)]
      /\ m.hiddenWindows = MergeHiddenWindows(l.hiddenWindows, r.hiddenWindows)
      /\ m = [workspaces |-> mw, hiddenWindows |-> m.hiddenWindows]
  BY <1>1 DEF MergeSharedStates
<1>3. /\ \A n \in DOMAIN lw : lw[n] \in Workspace(T) /\ Distinct(lw[n].tabs)
      /\ \A n \in DOMAIN rw : rw[n] \in Workspace(T)
  BY <1>1, DocumentHolds DEF Mergeable
<1>4. PICK new : new = [n \in DOMAIN lw \union DOMAIN mw |->
                  IF n \in DOMAIN lw \intersect DOMAIN mw
                  THEN MergeWorkspace(lw[n], mw[n], running)
                  ELSE FilterWorkspace(IF n \in DOMAIN lw THEN lw[n] ELSE mw[n], running)]
  OBVIOUS
<1>5. DOMAIN mw = DOMAIN lw \union DOMAIN rw /\ DOMAIN new = DOMAIN mw
  <2>1. DOMAIN mw = DOMAIN lw \union DOMAIN rw
    BY <1>2
  <2>2. DOMAIN new = DOMAIN lw \union DOMAIN mw
    BY <1>4
  <2> QED BY <2>1, <2>2
<1>6. ASSUME NEW n \in DOMAIN mw PROVE new[n] = mw[n]
  <2>1. CASE n \in DOMAIN lw /\ n \in DOMAIN rw
    <3>1. mw[n] = MergeWorkspace(lw[n], rw[n], running)
      BY <1>2, <2>1
    <3>2. new[n] = MergeWorkspace(lw[n], mw[n], running)
      BY <1>4, <2>1
    <3> QED BY <1>3, <2>1, <3>1, <3>2, WorkspaceAgain
  <2>2. CASE n \in DOMAIN lw /\ n \notin DOMAIN rw
    <3>1. mw[n] = FilterWorkspace(lw[n], running)
      BY <1>2, <2>2
    <3>2. new[n] = MergeWorkspace(lw[n], mw[n], running)
      BY <1>4, <2>2
    <3> QED BY <1>3, <2>2, <3>1, <3>2, FilterThenMerge
  <2>3. CASE n \notin DOMAIN lw /\ n \in DOMAIN rw
    <3>1. mw[n] = FilterWorkspace(rw[n], running)
      BY <1>2, <2>3
    <3>2. new[n] = FilterWorkspace(mw[n], running)
      BY <1>4, <2>3
    <3> QED BY <1>3, <2>3, <3>1, <3>2, FilterTwice
  <2> QED BY <1>5, <2>1, <2>2, <2>3
<1>7. new = mw
  <2>1. new = [n \in DOMAIN new |-> new[n]] /\ mw = [n \in DOMAIN mw |-> mw[n]]
    BY <1>2, <1>4
  <2> QED BY <1>5, <1>6, <2>1
<1>8. MergeHiddenWindows(l.hiddenWindows, m.hiddenWindows) = m.hiddenWindows
  <2>1. l.hiddenWindows \in Seq(Hidden(T)) /\ r.hiddenWindows \in Seq(Hidden(T))
    BY DocumentHolds DEF Mergeable
  <2> QED BY <1>2, <2>1, HiddenSettle
<1>9. MergeSharedStates(l, m, running)
        = [workspaces |-> new,
           hiddenWindows |-> MergeHiddenWindows(l.hiddenWindows, m.hiddenWindows)]
  BY <1>1, <1>4 DEF MergeSharedStates
<1> QED BY <1>2, <1>7, <1>8, <1>9
-----------------------------------------------------------------------------
(***************************************************************************)
(* The documents the model merges.                                         *)
(***************************************************************************)
Names == {"main", "left", "right", "other", "l", "r"}

Value == Nat \union Uuids \union Names \union (Names \X Nat)

\* Each uuid once, and the session is a function of it.
Made(row) == /\ row \in Seq(Entry(Value)) /\ Distinct(row)
              /\ \A i \in DOMAIN row : row[i].tmux = Tmux(row[i].uuid)

LEMMA MadeTmux ==
    ASSUME NEW a, NEW b, Made(a), Made(b)
    PROVE  SameTmux(a, b)
BY DEF Made, SameTmux

LEMMA TabMade ==
    ASSUME NEW u \in Nat \union Uuids, NEW at \in Nat, NEW side \in Names
    PROVE  /\ TabEntry(u, at, side) \in Entry(Value)
           /\ TabEntry(u, at, side).uuid = u /\ TabEntry(u, at, side).tmux = Tmux(u)
<1>1. u \in Value /\ Tmux(u) \in Value /\ <<side, at>> \in Value
  <2>1. Tmux(u) \in Nat \union Uuids
    BY DEF Tmux
  <2>2. <<side, at>> \in Names \X Nat
    OBVIOUS
  <2> QED BY <2>1, <2>2 DEF Value
<1>2. PICK v : v = <<side, at>>
  OBVIOUS
<1>3. TabEntry(u, at, side) = [uuid |-> u, tmux |-> Tmux(u), title |-> v, win |-> v,
                          at |-> at, pos |-> 0]
  BY <1>2 DEF TabEntry
<1>4. v \in Value
  BY <1>1, <1>2
<1> QED BY <1>1, <1>3, <1>4 DEF Entry

\* The positions of a sequence of n are n.
LEMMA PositionsCount ==
    ASSUME NEW n \in Nat
    PROVE  IsFiniteSet(1 .. n) /\ Cardinality(1 .. n) = n
<1>1. n \in Int /\ 1 \in Int
  OBVIOUS
<1>2. IsFiniteSet(1 .. n) /\ Cardinality(1 .. n) = IF 1 > n THEN 0 ELSE n - 1 + 1
  BY <1>1, FS_Interval
<1>3. CASE n = 0
  BY <1>2, <1>3
<1>4. CASE n > 0
  BY <1>2, <1>4
<1> QED BY <1>3, <1>4

LEMMA TabSeqsMade ==
    ASSUME NEW side \in Names, NEW row \in TabSeqs(side)
    PROVE  Made(row)
<1>1. PICK o \in UNION {[1 .. n -> Uuids] : n \in 0 .. MaxTabs} :
            /\ Cardinality(ToSet(o)) = Len(o)
            /\ row \in {[i \in DOMAIN o |-> TabEntry(o[i], ats[i], side)] :
                            ats \in [DOMAIN o -> 0 .. MaxTime]}
  BY DEF TabSeqs
<1>2. PICK ats \in [DOMAIN o -> 0 .. MaxTime] :
            row = [i \in DOMAIN o |-> TabEntry(o[i], ats[i], side)]
  BY <1>1
<1>3. PICK n \in 0 .. MaxTabs : o \in [1 .. n -> Uuids]
  BY <1>1
<1>4. n \in Nat /\ Len(o) = n /\ DOMAIN o = 1 .. n
  BY <1>3, InputsAssumption
<1>5. \A i, j \in 1 .. n : o[i] = o[j] => i = j
  <2>1. PICK U : U = ToSet(o)
    OBVIOUS
  <2>2. o \in [1 .. n -> U] /\ \A u \in U : \E i \in 1 .. n : o[i] = u
    BY <1>3, <1>4, <2>1 DEF ToSet
  <2>3. o \in Surjection(1 .. n, U)
    BY <2>2 DEF Surjection
  <2>4. IsFiniteSet(1 .. n) /\ Cardinality(1 .. n) = n
    BY <1>4, PositionsCount
  <2>5. o \in Injection(1 .. n, U)
    BY <1>1, <1>4, <2>1, <2>3, <2>4, FS_SurjSameCardinalityImpliesInj
  <2> QED BY <2>5 DEF Injection, IsInjective
<1>6. ASSUME NEW i \in 1 .. n
      PROVE  row[i] \in Entry(Value) /\ row[i].uuid = o[i] /\ row[i].tmux = Tmux(o[i])
  <2>1. o[i] \in Nat \union Uuids /\ ats[i] \in Nat
    <3>1. o[i] \in Uuids
      BY <1>3
    <3>2. ats[i] \in 0 .. MaxTime
      BY <1>2, <1>4
    <3>3. \A m \in 0 .. MaxTime : m \in Nat
      BY InputsAssumption
    <3> QED BY <3>1, <3>2, <3>3
  <2>2. PICK u \in Nat \union Uuids, at \in Nat : u = o[i] /\ at = ats[i]
    BY <2>1
  <2>3. row[i] = TabEntry(u, at, side)
    BY <1>2, <1>4, <2>2
  <2>4. PICK tab : tab = TabEntry(u, at, side)
    OBVIOUS
  <2>5. tab \in Entry(Value) /\ tab.uuid = u /\ tab.tmux = Tmux(u)
    <3>1. /\ TabEntry(u, at, side) \in Entry(Value)
          /\ TabEntry(u, at, side).uuid = u /\ TabEntry(u, at, side).tmux = Tmux(u)
      BY TabMade
    <3> QED BY <2>4, <3>1
  <2>6. row[i] = tab /\ o[i] = u
    BY <2>2, <2>3, <2>4
  <2> QED BY <2>5, <2>6
<1>7. row \in Seq(Entry(Value)) /\ DOMAIN row = 1 .. n
  <2>1. row = [i \in 1 .. n |-> row[i]]
    BY <1>2, <1>4
  <2> QED BY <1>4, <1>6, <2>1
<1>8. Distinct(row)
  BY <1>5, <1>6, <1>7 DEF Distinct
<1> QED BY <1>6, <1>7, <1>8 DEF Made

LEMMA WindowsMade ==
    ASSUME NEW side \in Names, NEW ws \in WindowSeqs(side)
    PROVE  ws \in Seq(Hidden(Value)) /\ DistinctIds(ws)
<1>1. Window(1, side) \in Hidden(Value) /\ Window(2, side) \in Hidden(Value)
  BY DEF Window, Hidden, Value
<1>2. PICK a, b : a = Window(1, side) /\ b = Window(2, side)
  OBVIOUS
<1>3. ws = <<>> \/ ws = <<a>> \/ ws = <<b, a>>
  BY <1>2 DEF WindowSeqs
<1>4. a \in Hidden(Value) /\ b \in Hidden(Value) /\ a.id = 1 /\ b.id = 2
  BY <1>1, <1>2 DEF Window
<1>5. CASE ws = <<>>
  BY <1>5 DEF DistinctIds
<1>6. CASE ws = <<a>>
  BY <1>4, <1>6 DEF DistinctIds
<1>7. CASE ws = <<b, a>>
  BY <1>4, <1>7 DEF DistinctIds
<1> QED BY <1>3, <1>5, <1>6, <1>7

\* A document whose workspaces hold tabs made that way.
DocMade(doc) == /\ IsDocument(doc, Value)
                /\ \A n \in DOMAIN doc.workspaces : Made(doc.workspaces[n].tabs)
                /\ DistinctIds(doc.hiddenWindows)

LEMMA DocIs ==
    ASSUME NEW name \in Value, NEW uuid \in Value, NEW at \in Nat, NEW row, Made(row),
           NEW windows \in Seq(Hidden(Value)), DistinctIds(windows)
    PROVE  DocMade(Document(name, uuid, at, row, windows))
<1>1. PICK w : w = [name |-> name, uuid |-> uuid, at |-> at, tabs |-> row]
  OBVIOUS
<1>2. w \in Workspace(Value) /\ w.tabs = row
  BY <1>1 DEF Workspace, Made
<1>3. PICK ws : ws = [n \in {"main"} |-> w]
  OBVIOUS
<1>4. /\ ws \in [{"main"} -> Workspace(Value)] /\ DOMAIN ws = {"main"}
      /\ \A n \in DOMAIN ws : ws[n].tabs = row
  BY <1>2, <1>3
<1>5. Document(name, uuid, at, row, windows) = [workspaces |-> ws, hiddenWindows |-> windows]
  BY <1>1, <1>3 DEF Document
<1>6. PICK d : d = Document(name, uuid, at, row, windows)
  OBVIOUS
<1>7. d.workspaces = ws /\ d.hiddenWindows = windows
      /\ d \in [workspaces : [{"main"} -> Workspace(Value)], hiddenWindows : Seq(Hidden(Value))]
  BY <1>4, <1>5, <1>6
<1>8. DocMade(d)
  BY <1>4, <1>7 DEF DocMade, IsDocument
<1> QED BY <1>6, <1>8

LEMMA MadeMergeable ==
    ASSUME NEW l, NEW r, DocMade(l), DocMade(r)
    PROVE  Mergeable(l, r, Value)
<1>1. \A n \in DOMAIN l.workspaces \intersect DOMAIN r.workspaces :
            SameTmux(l.workspaces[n].tabs, r.workspaces[n].tabs)
  BY MadeTmux DEF DocMade
<1> QED BY <1>1 DEF Mergeable, DocMade, Made

LEMMA InputsMergeable == MergeInit => Mergeable(local, remote, Value)
<1>0. /\ "main" \in Value /\ "left" \in Value /\ "right" \in Value /\ "other" \in Value
      /\ 1 \in Value /\ 2 \in Value /\ 9 \in Value
      /\ "l" \in Names /\ "r" \in Names
  BY DEF Value, Names
<1>1. ASSUME InitTabs PROVE Mergeable(local, remote, Value)
  <2>1. PICK lt \in TabSeqs("l"), rt \in TabSeqs("r") :
            /\ local  = Document("main", 1, 0, lt, <<>>)
            /\ remote = Document("main", 1, 0, rt, <<>>)
    BY <1>1 DEF InitTabs
  <2>2. Made(lt) /\ Made(rt)
    BY <1>0, TabSeqsMade
  <2>3. PICK none : none = <<>>
    OBVIOUS
  <2>4. none \in Seq(Hidden(Value)) /\ DistinctIds(none) /\ 0 \in Nat
    BY <2>3 DEF DistinctIds
  <2>5. DocMade(Document("main", 1, 0, lt, none)) /\ DocMade(Document("main", 1, 0, rt, none))
    BY <1>0, <2>2, <2>4, DocIs
  <2> QED BY <2>1, <2>3, <2>5, MadeMergeable
<1>2. ASSUME InitWorkspaces PROVE Mergeable(local, remote, Value)
  <2>1. PICK a, b, c : a = TabEntry(1, 1, "r") /\ b = TabEntry(2, 0, "r") /\ c = TabEntry(1, 0, "l")
    OBVIOUS
  <2>2. /\ a \in Entry(Value) /\ a.uuid = 1 /\ a.tmux = Tmux(1)
        /\ b \in Entry(Value) /\ b.uuid = 2 /\ b.tmux = Tmux(2)
        /\ c \in Entry(Value) /\ c.uuid = 1 /\ c.tmux = Tmux(1)
    <3>1. 1 \in Nat \union Uuids /\ 2 \in Nat \union Uuids /\ 0 \in Nat /\ 1 \in Nat
      OBVIOUS
    <3> QED BY <1>0, <2>1, <3>1, TabMade
  <2>3. Made(<<a, b>>)
    <3>1. PICK s : s = <<a, b>>
      OBVIOUS
    <3>2. s \in Seq(Entry(Value)) /\ DOMAIN s = {1, 2} /\ s[1] = a /\ s[2] = b
      BY <2>2, <3>1
    <3>3. Made(s)
      BY <2>2, <3>2 DEF Made, Distinct
    <3> QED BY <3>1, <3>3
  <2>4. Made(<<c>>)
    <3>1. PICK s : s = <<c>>
      OBVIOUS
    <3>2. s \in Seq(Entry(Value)) /\ DOMAIN s = {1} /\ s[1] = c
      BY <2>2, <3>1
    <3>3. Made(s)
      BY <2>2, <3>2 DEF Made, Distinct
    <3> QED BY <3>1, <3>3
  <2>5. PICK row, own : row = <<a, b>> /\ own = <<c>>
    OBVIOUS
  <2>6. Made(row) /\ Made(own)
    BY <2>3, <2>4, <2>5
  <2>7. PICK lat \in 0 .. MaxTime, rat \in 0 .. MaxTime,
             lw \in WindowSeqs("l"), rw \in WindowSeqs("r"), extra \in BOOLEAN :
            LET both == <<TabEntry(1, 1, "r"), TabEntry(2, 0, "r")>>
                x    == [name |-> "other", uuid |-> 9, at |-> 0, tabs |-> both]
                d    == Document("right", 2, rat, both, rw)
            IN  /\ local = Document("left", 1, lat, <<TabEntry(1, 0, "l")>>, lw)
                /\ remote = IF extra
                            THEN [d EXCEPT !.workspaces = [n \in {"main", "x"} |->
                                              IF n = "x" THEN x ELSE @[n]]]
                            ELSE d
    BY <1>2 DEF InitWorkspaces
  <2>8. /\ lat \in Nat /\ rat \in Nat
        /\ lw \in Seq(Hidden(Value)) /\ rw \in Seq(Hidden(Value))
        /\ DistinctIds(lw) /\ DistinctIds(rw)
    <3>1. lat \in Nat /\ rat \in Nat
      BY InputsAssumption
    <3>2. /\ lw \in Seq(Hidden(Value)) /\ rw \in Seq(Hidden(Value))
          /\ DistinctIds(lw) /\ DistinctIds(rw)
      BY <1>0, WindowsMade
    <3> QED BY <3>1, <3>2
  <2>11. PICK other, r : /\ other = [name |-> "other", uuid |-> 9, at |-> 0, tabs |-> row]
                         /\ r = Document("right", 2, rat, row, rw)
    OBVIOUS
  <2>12. /\ local = Document("left", 1, lat, own, lw)
         /\ remote = IF extra
                     THEN [r EXCEPT !.workspaces = [n \in {"main", "x"} |->
                                       IF n = "x" THEN other ELSE @[n]]]
                     ELSE r
    <3>1. row = <<TabEntry(1, 1, "r"), TabEntry(2, 0, "r")>> /\ own = <<TabEntry(1, 0, "l")>>
      BY <2>1, <2>5
    <3> QED BY <2>7, <2>11, <3>1
  <2>9. DocMade(local) /\ DocMade(r)
    BY <1>0, <2>6, <2>8, <2>11, <2>12, DocIs
  <2>10. DocMade(remote)
    <3>1. CASE ~extra
      BY <2>9, <2>12, <3>1
    <3>2. CASE extra
      <4>1. other \in Workspace(Value) /\ other.tabs = row
        BY <1>0, <2>6, <2>11 DEF Workspace, Made
      <4>2. PICK w : w = [name |-> "right", uuid |-> 2, at |-> rat, tabs |-> row]
        OBVIOUS
      <4>3. w \in Workspace(Value) /\ w.tabs = row
        BY <1>0, <2>6, <2>8, <4>2 DEF Workspace, Made
      <4>4. r = [workspaces |-> [n \in {"main"} |-> w], hiddenWindows |-> rw]
        BY <2>11, <4>2 DEF Document
      <4>5. PICK ws : ws = [n \in {"main", "x"} |-> IF n = "x" THEN other ELSE w]
        OBVIOUS
      <4>6. remote = [workspaces |-> ws, hiddenWindows |-> rw]
        BY <2>12, <3>2, <4>4, <4>5
      <4>7. /\ ws \in [{"main", "x"} -> Workspace(Value)] /\ DOMAIN ws = {"main", "x"}
            /\ \A n \in DOMAIN ws : ws[n].tabs = row
        BY <4>1, <4>3, <4>5
      <4>8. remote \in [workspaces : [{"main", "x"} -> Workspace(Value)],
                        hiddenWindows : Seq(Hidden(Value))]
        BY <2>8, <4>6, <4>7
      <4>9. remote.workspaces = ws /\ remote.hiddenWindows = rw
        BY <4>6
      <4> QED BY <2>6, <2>8, <4>7, <4>8, <4>9 DEF DocMade, IsDocument
    <3> QED BY <3>1, <3>2
  <2> QED BY <2>9, <2>10, MadeMergeable
<1> QED BY <1>1, <1>2 DEF MergeInit
-----------------------------------------------------------------------------
(***************************************************************************)
(* The invariant: what has been written is the merge it should be.         *)
(***************************************************************************)
MergeInv ==
    /\ Mergeable(local, remote, Value)
    /\ \A m \in merged : m = MergeSharedStates(local, remote, alive)
    /\ \A o \in mirrored : o = MergeSharedStates(remote, local, alive)
    /\ \A r \in retried : \E m \in merged : r = MergeSharedStates(local, m, alive)

LEMMA MergeInvHolds == MergeSpec => []MergeInv
<1>1. MergeInit => MergeInv
  BY InputsMergeable DEF MergeInit, MergeInv
<1>2. MergeInv /\ [MergeNext]_mergeVars => MergeInv'
  <2> SUFFICES ASSUME MergeInv, [MergeNext]_mergeVars PROVE MergeInv'
    OBVIOUS
  <2>1. CASE MergeHere
    <3>1. merged = {} /\ retried = {}
      BY <2>1 DEF MergeHere, MergeInv
    <3> QED BY <2>1, <3>1 DEF MergeHere, MergeInv
  <2>2. CASE MergeThere
    BY <2>2 DEF MergeThere, MergeInv
  <2>3. CASE MergeAgain
    BY <2>3 DEF MergeAgain, MergeInv
  <2>4. CASE UNCHANGED mergeVars
    BY <2>4 DEF mergeVars, MergeInv
  <2> QED BY <2>1, <2>2, <2>3, <2>4 DEF MergeNext
<1> QED BY <1>1, <1>2, PTL DEF MergeSpec

(***************************************************************************)
(* Whatever two documents a flush merges, no live tab of either is lost,   *)
(* no dead one survives and no uuid comes out twice                        *)
(* (merge.rs, merge_workspace).                                            *)
(***************************************************************************)
THEOREM EntriesSurvive == MergeSpec => []LiveTabsSurviveOnce
<1>1. MergeInv => LiveTabsSurviveOnce
  <2> SUFFICES ASSUME MergeInv, NEW m \in merged, NEW n \in DOMAIN m.workspaces
               PROVE  /\ UuidsOf(TabsOf(m, n))
                            = {t.uuid : t \in {b \in TabKeys(local, n) \union TabKeys(remote, n) :
                                                b.tmux \in alive}}
                      /\ Cardinality(UuidsOf(TabsOf(m, n))) = Len(TabsOf(m, n))
                      /\ TabKeys(m, n) = MergeTabSets(TabKeys(local, n), TabKeys(remote, n), alive)
    BY DEF LiveTabsSurviveOnce
  <2>1. Mergeable(local, remote, Value) /\ m = MergeSharedStates(local, remote, alive)
    BY DEF MergeInv
  <2>2. PICK ours, theirs, out : /\ ours = TabsOf(local, n) /\ theirs = TabsOf(remote, n)
                                 /\ out = TabsOf(m, n)
    OBVIOUS
  <2>3. out = MergeTabs(ours, theirs, alive)
    BY <2>1, <2>2, MergedDocument
  <2>4. /\ ours \in Seq(Entry(Value)) /\ theirs \in Seq(Entry(Value))
        /\ Distinct(ours) /\ Distinct(theirs)
    BY <2>1, <2>2, InputsHold
  <2>5. /\ TabKeys(local, n) = KeysOf(ours) /\ TabKeys(remote, n) = KeysOf(theirs)
        /\ TabKeys(m, n) = KeysOf(out)
    BY <2>2 DEF TabKeys, KeysOf
  <2>6. UuidsOf(out) = {t.uuid : t \in {b \in KeysOf(ours) \union KeysOf(theirs) : b.tmux \in alive}}
    BY <2>3, <2>4, MergedUuids
  <2>7. KeysOf(out) = MergeTabSets(KeysOf(ours), KeysOf(theirs), alive)
    BY <2>3, <2>4, MergedKeys
  <2>8. Cardinality(UuidsOf(out)) = Len(out)
    <3>1. out \in Seq(Entry(Value)) /\ Distinct(out)
      BY <2>3, <2>4, MergedHold, MergedDistinct
    <3> QED BY <3>1, DistinctCounts
  <2> QED BY <2>2, <2>5, <2>6, <2>7, <2>8
<1> QED BY <1>1, MergeInvHolds, PTL

(***************************************************************************)
(* The last writer wins: no entry of a merge is older than an entry it     *)
(* came from, and its title and window are those of the entry its          *)
(* timestamp came from (merge.rs, merge_tab).                              *)
(***************************************************************************)
THEOREM LastWriterWins == MergeSpec => []NewestEditWins
<1>1. MergeInv => NewestEditWins
  <2> SUFFICES ASSUME MergeInv, NEW m \in merged, NEW n \in DOMAIN m.workspaces,
                      NEW t \in ToSet(TabsOf(m, n))
               PROVE  LET from == EntriesOf(local, n, t.uuid) \union EntriesOf(remote, n, t.uuid)
                      IN  /\ \A f \in from : f.at <= t.at
                          /\ Content(t) \in {Content(f) : f \in from}
    BY DEF NewestEditWins
  <2>1. Mergeable(local, remote, Value) /\ m = MergeSharedStates(local, remote, alive)
    BY DEF MergeInv
  <2>2. PICK ours, theirs, out : /\ ours = TabsOf(local, n) /\ theirs = TabsOf(remote, n)
                                 /\ out = TabsOf(m, n)
    OBVIOUS
  <2>3. out = MergeTabs(ours, theirs, alive)
    BY <2>1, <2>2, MergedDocument
  <2>4. /\ ours \in Seq(Entry(Value)) /\ theirs \in Seq(Entry(Value))
        /\ Distinct(ours) /\ Distinct(theirs) /\ SameTmux(ours, theirs)
    BY <2>1, <2>2, InputsHold
  <2>5. PICK i \in DOMAIN out : t = out[i]
    <3>1. out \in Seq(Entry(Value))
      BY <2>3, <2>4, MergedHold
    <3> QED BY <2>2, <3>1 DEF ToSet
  <2>6. /\ NotOlder(t, ours) /\ NotOlder(t, theirs)
        /\ Source(t, ours, t) \/ Source(t, theirs, t)
    BY <2>3, <2>4, <2>5, MergedNewest
  <2>7. PICK from : from = EntriesOf(local, n, t.uuid) \union EntriesOf(remote, n, t.uuid)
    OBVIOUS
  <2>8. \A f : f \in from <=> \/ \E k \in DOMAIN ours : f = ours[k] /\ ours[k].uuid = t.uuid
                              \/ \E k \in DOMAIN theirs : f = theirs[k] /\ theirs[k].uuid = t.uuid
    BY <2>2, <2>4, <2>7 DEF EntriesOf, ToSet
  <2>9. \A f \in from : f.at <= t.at
    BY <2>6, <2>8 DEF NotOlder
  <2>10. \E f \in from : Content(t) = Content(f)
    BY <2>6, <2>8 DEF Source
  <2> QED BY <2>7, <2>9, <2>10
<1> QED BY <1>1, MergeInvHolds, PTL

(***************************************************************************)
(* Two devices that merge the same two documents write the same entries    *)
(* with the same metadata, unless both edited a tab in the same second.    *)
(***************************************************************************)
THEOREM SameEverywhere == MergeSpec => []DevicesAgree
<1>1. MergeInv => DevicesAgree
  <2> SUFFICES ASSUME MergeInv, NEW m \in merged, NEW o \in mirrored
               PROVE  /\ DOMAIN m.workspaces = DOMAIN o.workspaces
                      /\ \A n \in DOMAIN m.workspaces :
                            /\ ~Tied(n) => Contents(m, n) = Contents(o, n)
                            /\ m.workspaces[n].at = o.workspaces[n].at
    BY DEF DevicesAgree
  <2>1. /\ Mergeable(local, remote, Value) /\ Mergeable(remote, local, Value)
        /\ m = MergeSharedStates(local, remote, alive)
        /\ o = MergeSharedStates(remote, local, alive)
    BY MergeableSwaps DEF MergeInv
  <2>2. /\ DOMAIN m.workspaces = DOMAIN local.workspaces \union DOMAIN remote.workspaces
        /\ DOMAIN o.workspaces = DOMAIN remote.workspaces \union DOMAIN local.workspaces
    BY <2>1, MergedDocument
  <2>3. DOMAIN m.workspaces = DOMAIN o.workspaces
    BY <2>2
  <2>4. ASSUME NEW n \in DOMAIN m.workspaces, ~Tied(n) PROVE Contents(m, n) = Contents(o, n)
    <3>1. PICK ours, theirs, out, mir : /\ ours = TabsOf(local, n) /\ theirs = TabsOf(remote, n)
                                        /\ out = TabsOf(m, n) /\ mir = TabsOf(o, n)
      OBVIOUS
    <3>2. out = MergeTabs(ours, theirs, alive)
      BY <2>1, <3>1, MergedDocument
    <3>3. mir = MergeTabs(theirs, ours, alive)
      <4>1. n \in DOMAIN o.workspaces
        BY <2>3
      <4> QED BY <2>1, <3>1, <4>1, MergedDocument
    <3>4. /\ ours \in Seq(Entry(Value)) /\ theirs \in Seq(Entry(Value))
          /\ Distinct(ours) /\ Distinct(theirs)
          /\ SameTmux(ours, theirs) /\ SameTmux(theirs, ours)
      BY <2>1, <3>1, InputsHold
    <3>5. ~TiedTabs(ours, theirs)
      <4>1. \A a \in DOMAIN ours : ours[a] \in ToSet(ours)
        BY <3>4 DEF ToSet
      <4>2. \A b \in DOMAIN theirs : theirs[b] \in ToSet(theirs)
        BY <3>4 DEF ToSet
      <4> QED BY <2>4, <3>1, <4>1, <4>2 DEF Tied, TiedTabs
    <3>6. ~TiedTabs(theirs, ours)
      BY <3>5 DEF TiedTabs
    <3>7. ContentsOf(out) \subseteq ContentsOf(mir)
      BY <3>2, <3>3, <3>4, <3>5, MergedAgree
    <3>8. ContentsOf(mir) \subseteq ContentsOf(out)
      BY <3>2, <3>3, <3>4, <3>6, MergedAgree
    <3>9. Contents(m, n) = ContentsOf(out) /\ Contents(o, n) = ContentsOf(mir)
      BY <3>1 DEF Contents, ContentsOf
    <3> QED BY <3>7, <3>8, <3>9
  <2>5. ASSUME NEW n \in DOMAIN m.workspaces
        PROVE  m.workspaces[n].at = o.workspaces[n].at
    <3>1. PICK lw, rw : lw = local.workspaces /\ rw = remote.workspaces
      OBVIOUS
    <3>2. /\ m.workspaces = [k \in DOMAIN lw \union DOMAIN rw |->
                IF k \in DOMAIN lw \intersect DOMAIN rw
                THEN MergeWorkspace(lw[k], rw[k], alive)
                ELSE FilterWorkspace(IF k \in DOMAIN lw THEN lw[k] ELSE rw[k], alive)]
          /\ o.workspaces = [k \in DOMAIN rw \union DOMAIN lw |->
                IF k \in DOMAIN rw \intersect DOMAIN lw
                THEN MergeWorkspace(rw[k], lw[k], alive)
                ELSE FilterWorkspace(IF k \in DOMAIN rw THEN rw[k] ELSE lw[k], alive)]
      BY <2>1, <3>1 DEF MergeSharedStates
    <3>3. CASE n \in DOMAIN lw /\ n \in DOMAIN rw
      <4>1. lw[n] \in Workspace(Value) /\ rw[n] \in Workspace(Value)
        BY <2>1, <3>1, <3>3, DocumentHolds DEF Mergeable
      <4>2. lw[n].at \in Nat /\ rw[n].at \in Nat
        BY <4>1 DEF Workspace
      <4>3. /\ m.workspaces[n] = MergeWorkspace(lw[n], rw[n], alive)
            /\ o.workspaces[n] = MergeWorkspace(rw[n], lw[n], alive)
        BY <3>2, <3>3
      <4>4. /\ m.workspaces[n].at = IF rw[n].at > lw[n].at THEN rw[n].at ELSE lw[n].at
            /\ o.workspaces[n].at = IF lw[n].at > rw[n].at THEN lw[n].at ELSE rw[n].at
        BY <4>3 DEF MergeWorkspace
      <4> QED BY <4>2, <4>4
    <3>4. CASE ~(n \in DOMAIN lw /\ n \in DOMAIN rw)
      <4>1. n \in DOMAIN lw \union DOMAIN rw
        BY <2>2, <3>1
      <4>2. m.workspaces[n] = o.workspaces[n]
        BY <3>2, <3>4, <4>1
      <4> QED BY <4>2
    <3> QED BY <3>3, <3>4
  <2> QED BY <2>3, <2>4, <2>5
<1> QED BY <1>1, MergeInvHolds, PTL

(***************************************************************************)
(* A flush that finds its own earlier merge on the server writes that      *)
(* document again: a retry after a lost answer is harmless.                *)
(***************************************************************************)
THEOREM RetryHarmless == MergeSpec => []MergingAgainChangesNothing
<1>1. MergeInv => MergingAgainChangesNothing
  <2> SUFFICES ASSUME MergeInv, retried # {} PROVE retried = merged
    BY DEF MergingAgainChangesNothing
  <2>1. /\ Mergeable(local, remote, Value)
        /\ \A m \in merged : m = MergeSharedStates(local, remote, alive)
        /\ \A r \in retried : \E m \in merged : r = MergeSharedStates(local, m, alive)
    BY DEF MergeInv
  <2>2. \A m \in merged : MergeSharedStates(local, m, alive) = m
    BY <2>1, DocumentAgain
  <2>3. \A r \in retried : r \in merged
    BY <2>1, <2>2
  <2>4. \A m, r \in merged : m = r
    BY <2>1
  <2> QED BY <2>3, <2>4
<1> QED BY <1>1, MergeInvHolds, PTL
(***************************************************************************)
(* The tab bar of the flushing device keeps its order: positions count up  *)
(* from 0, and its own live tabs come first, in their order (merge.rs,     *)
(* merge_workspace).                                                       *)
(***************************************************************************)
THEOREM OrderIsLocal == MergeSpec => []LocalOrderKept
<1>1. MergeInv => LocalOrderKept
  <2> SUFFICES ASSUME MergeInv, NEW m \in merged, NEW n \in DOMAIN m.workspaces
               PROVE  LET after == TabsOf(m, n)
                          mine  == AliveTabs(TabsOf(local, n), alive)
                      IN  /\ \A i \in DOMAIN after : after[i].pos = i - 1
                          /\ IsPrefix([i \in DOMAIN mine |-> mine[i].uuid],
                                      [i \in DOMAIN after |-> after[i].uuid])
    BY DEF LocalOrderKept
  <2>1. Mergeable(local, remote, Value) /\ m = MergeSharedStates(local, remote, alive)
    BY DEF MergeInv
  <2>2. PICK ours, theirs, after, mine : /\ ours = TabsOf(local, n) /\ theirs = TabsOf(remote, n)
                                         /\ after = TabsOf(m, n)
                                         /\ mine = AliveTabs(ours, alive)
    OBVIOUS
  <2>3. after = MergeTabs(ours, theirs, alive)
    BY <2>1, <2>2, MergedDocument
  <2>4. /\ ours \in Seq(Entry(Value)) /\ theirs \in Seq(Entry(Value)) /\ Distinct(ours)
    BY <2>1, <2>2, InputsHold
  <2>5. after \in Seq(Entry(Value)) /\ mine \in Seq(Entry(Value))
    BY <2>2, <2>3, <2>4, MergedHold, AliveTabsHolds
  <2>6. Settled(after, mine, alive)
    BY <2>2, <2>3, <2>4, MergedSettled
  <2>7. \A i \in DOMAIN after : after[i].pos = i - 1
    BY <2>6 DEF Settled
  <2>8. PICK a, b : /\ a = [i \in DOMAIN mine |-> mine[i].uuid]
                    /\ b = [i \in DOMAIN after |-> after[i].uuid]
    OBVIOUS
  <2>9. /\ a \in Seq(Value) /\ b \in Seq(Value) /\ Len(a) = Len(mine) /\ Len(b) = Len(after)
        /\ \A i \in 1 .. Len(mine) : a[i] = mine[i].uuid
        /\ \A i \in 1 .. Len(after) : b[i] = after[i].uuid
    <3>1. /\ \A i \in 1 .. Len(mine) : mine[i].uuid \in Value
          /\ \A i \in 1 .. Len(after) : after[i].uuid \in Value
          /\ DOMAIN mine = 1 .. Len(mine) /\ DOMAIN after = 1 .. Len(after)
          /\ Len(mine) \in Nat /\ Len(after) \in Nat
      <4>1. \A t \in Entry(Value) : t.uuid \in Value
        BY DEF Entry
      <4> QED BY <2>5, <4>1
    <3> QED BY <2>8, <3>1
  <2>10. Len(a) <= Len(b) /\ \A i \in 1 .. Len(a) : a[i] = b[i]
    <3>1. Len(mine) \in Nat /\ Len(after) \in Nat /\ DOMAIN mine = 1 .. Len(mine)
      BY <2>5
    <3>2. /\ Len(mine) <= Len(after)
          /\ \A i \in 1 .. Len(mine) : after[i].uuid = mine[i].uuid
      BY <2>6, <3>1 DEF Settled
    <3>3. \A i \in 1 .. Len(mine) : i \in 1 .. Len(after)
      BY <3>1, <3>2
    <3> QED BY <2>9, <3>2, <3>3
  <2>11. IsPrefix(a, b)
    <3>1. SubSeq(a, 1, Len(a)) = SubSeq(b, 1, Len(a))
      BY <2>9, <2>10
    <3> QED BY <2>10, <3>1 DEF IsPrefix
  <2> QED BY <2>2, <2>7, <2>8, <2>11
<1> QED BY <1>1, MergeInvHolds, PTL

(***************************************************************************)
(* Hidden windows of both devices survive a merge, each id once, and of a  *)
(* window both hid the local snapshot is kept (merge.rs,                   *)
(* merge_hidden_windows).                                                  *)
(***************************************************************************)
THEOREM HiddenSurvive == MergeSpec => []HiddenWindowsUnited
<1>1. MergeInv => HiddenWindowsUnited
  <2> SUFFICES ASSUME MergeInv, NEW m \in merged
               PROVE  LET ids(s) == {w.id : w \in ToSet(s)}
                          out    == m.hiddenWindows
                      IN  /\ ids(out) = ids(local.hiddenWindows) \union ids(remote.hiddenWindows)
                          /\ Cardinality(ids(out)) = Len(out)
                          /\ ToSet(local.hiddenWindows) \subseteq ToSet(out)
    BY DEF HiddenWindowsUnited
  <2>1. Mergeable(local, remote, Value) /\ m = MergeSharedStates(local, remote, alive)
    BY DEF MergeInv
  <2>2. PICK l, r, out : /\ l = local.hiddenWindows /\ r = remote.hiddenWindows
                         /\ out = m.hiddenWindows
    OBVIOUS
  <2>3. /\ l \in Seq(Hidden(Value)) /\ r \in Seq(Hidden(Value)) /\ DistinctIds(l)
    BY <2>1, <2>2, DocumentHolds DEF Mergeable
  <2>4. out = MergeHiddenWindows(l, r)
    BY <2>1, <2>2 DEF MergeSharedStates
  <2>5. out \in Seq(Hidden(Value)) /\ Unites(out, l, r)
    BY <2>3, <2>4, HiddenHolds
  <2>6. {w.id : w \in ToSet(out)} = {w.id : w \in ToSet(l)} \union {w.id : w \in ToSet(r)}
    <3>1. \A x : x \in {w.id : w \in ToSet(out)} <=> \E i \in DOMAIN out : x = out[i].id
      BY <2>5, IdsOf
    <3>2. \A x : x \in {w.id : w \in ToSet(l)} <=> \E i \in DOMAIN l : x = l[i].id
      BY <2>3, IdsOf
    <3>3. \A x : x \in {w.id : w \in ToSet(r)} <=> \E i \in DOMAIN r : x = r[i].id
      BY <2>3, IdsOf
    <3>4. ASSUME NEW k \in DOMAIN out
          PROVE  (\E i \in DOMAIN l : out[k].id = l[i].id) \/ (\E i \in DOMAIN r : out[k].id = r[i].id)
      BY <2>5 DEF Unites
    <3>5. ASSUME NEW i \in DOMAIN l PROVE \E k \in DOMAIN out : out[k].id = l[i].id
      BY <2>5 DEF Unites
    <3>6. ASSUME NEW i \in DOMAIN r PROVE \E k \in DOMAIN out : out[k].id = r[i].id
      BY <2>5 DEF Unites
    <3>7. \A x : (\E k \in DOMAIN out : x = out[k].id)
                    <=> (\E i \in DOMAIN l : x = l[i].id) \/ (\E i \in DOMAIN r : x = r[i].id)
      BY <3>4, <3>5, <3>6
    <3> QED BY <3>1, <3>2, <3>3, <3>7
  <2>7. Cardinality({w.id : w \in ToSet(out)}) = Len(out)
    BY <2>5, IdsCount DEF Unites
  <2>8. ToSet(l) \subseteq ToSet(out)
    BY <2>3, <2>5 DEF ToSet, Unites
  <2> QED BY <2>2, <2>6, <2>7, <2>8
<1> QED BY <1>1, MergeInvHolds, PTL
==============================================================================
