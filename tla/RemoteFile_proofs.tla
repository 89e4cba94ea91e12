-------------------------- MODULE RemoteFile_proofs --------------------------
(***************************************************************************)
(* Theorems of RemoteFile: types, and the implementation of AtomicFile, for *)
(* any devices, kinds of server, flushes, lost connections and full disks. *)
(***************************************************************************)
EXTENDS RemoteFile, TLAPS

JobType ==
    [pc : JobPc, v : Version \cup {None}, fd : Inode \cup {NoInode},
     first : Version \cup {None}, got : Version \cup {None, Damaged, Unread}]

WatchType ==
    [pc : WatchPc, armed : BOOLEAN, event : BOOLEAN,
     fd : Inode \cup {NoInode}, first : Version \cup {None}, last : 0 .. MaxClock]

\* A flush has a version of its own, and from its first open on a file.
JobsOK ==
    \A d \in Device :
        /\ At(d, "idle") => job[d] = IdleJob
        /\ ~At(d, "idle") => job[d].v \in 1 .. count.version
        /\ job[d].pc \notin {"idle", "create"} => job[d].fd \in Inode

FileInv == TypeOK /\ JobsOK

(***************************************************************************)
(* What the file operations return.                                        *)
(***************************************************************************)
\* Two blocks read from a disk are a version, or damaged.
LEMMA ParsedType ==
    ASSUME NEW p \in Version \cup {None}, NEW q \in Version \cup {None}
    PROVE  Parsed(p, q) \in Version \cup {Damaged}
BY DEF Parsed

\* So is what a file holds, if there is one.
LEMMA ContentType ==
    ASSUME TypeOK, NEW i \in Inode \cup {NoInode}
    PROVE  /\ Content(i) \in Version \cup {None, Damaged}
           /\ i = NoInode => Content(i) = None
           /\ i # NoInode => Content(i) \in Version \cup {Damaged}
<1>1. CASE i = NoInode
  BY <1>1 DEF Content
<1>2. CASE i # NoInode
  <2>1. i \in Inode /\ i \in Nat \ {0}
    BY <1>2, BoundAssumption DEF Inode, NoInode
  <2>2. disk[i][1] \in Version \cup {None} /\ disk[i][2] \in Version \cup {None}
    BY <2>1 DEF TypeOK
  <2> QED
    BY <1>2, <2>2, ParsedType DEF Content
<1> QED
  BY <1>1, <1>2

\* The files of a version, and the modification time of shared.json.
LEMMA Names ==
    /\ NoInode \notin Inode
    /\ \A v \in Version : Tmp(v) \in Inode /\ Direct(v) \in Inode /\ OpenTmp(v) = v
    /\ \A v \in 1 .. count.version : count.version \in 0 .. MaxVersion => v \in Version
    /\ TypeOK => Mtime \in 0 .. MaxClock
<1>1. NoInode \notin Inode
  BY BoundAssumption DEF Inode, NoInode
<1>2. \A v \in Version : Tmp(v) \in Inode /\ Direct(v) \in Inode /\ OpenTmp(v) = v
  BY BoundAssumption DEF Inode, Version, Tmp, Direct, OpenTmp
<1>3. \A v \in 1 .. count.version : count.version \in 0 .. MaxVersion => v \in Version
  BY BoundAssumption DEF Version
<1>4. TypeOK => Mtime \in 0 .. MaxClock
  BY BoundAssumption DEF TypeOK, Mtime
<1> QED
  BY <1>1, <1>2, <1>3, <1>4

\* A counter that is counted up stays within its bound.
LEMMA CountType ==
    ASSUME TypeOK
    PROVE  /\ Count("version", MaxVersion) =>
                  /\ count' \in [version : 0 .. MaxVersion, breaks : 0 .. MaxBreak,
                                 connects : 0 .. MaxConnect]
                  /\ count'.version = count.version + 1 /\ count'.version \in Version
           /\ (Count("breaks", MaxBreak) \/ Count("connects", MaxConnect)) =>
                  /\ count' \in [version : 0 .. MaxVersion, breaks : 0 .. MaxBreak,
                                 connects : 0 .. MaxConnect]
                  /\ count'.version = count.version
<1>1. count \in [version : 0 .. MaxVersion, breaks : 0 .. MaxBreak, connects : 0 .. MaxConnect]
  BY DEF TypeOK
<1> QED
  BY <1>1, BoundAssumption DEF Count, Version

\* A step of the file is heard by watchers, and by them only noted.
LEMMA PublishedType ==
    ASSUME TypeOK, NEW v \in Version \cup {None, Damaged}, NEW second, NEW how,
           Published(v, second, how)
    PROVE  /\ watch' \in [Device -> WatchType]
           /\ seen' \in [Device -> Version \cup {None}]
           /\ owed' \in [Device -> Version \cup {None, Damaged}]
           /\ \A d \in Device : watch'[d].pc = watch[d].pc
<1>1. watch \in [Device -> WatchType]
  BY DEF TypeOK, WatchType
<1>2. \A d \in Device : watch'[d] \in {watch[d], [watch[d] EXCEPT !.event = TRUE]}
  BY DEF Published
<1>3. \A d \in Device : watch'[d] \in WatchType /\ watch'[d].pc = watch[d].pc
  BY <1>1, <1>2 DEF WatchType
<1>4. watch' \in [Device -> WatchType]
  BY <1>3 DEF Published
<1>5. seen' \in [Device -> Version \cup {None}] /\ owed' \in [Device -> Version \cup {None, Damaged}]
  BY DEF Published, TypeOK
<1> QED
  BY <1>3, <1>4, <1>5

(***************************************************************************)
(* The invariant, for one kind of step at a time.                          *)
(***************************************************************************)
\* Jobs that keep their versions or end, when no version is given out.
LEMMA JobSteps ==
    ASSUME FileInv, NEW d \in Device, NEW j \in JobType,
           job' = [job EXCEPT ![d] = j],
           \/ j = IdleJob
           \/ /\ j.pc # "idle" /\ j.v \in 1 .. count'.version
              /\ j.pc # "create" => j.fd \in Inode,
           count'.version \in Nat, count.version <= count'.version
    PROVE  /\ job' \in [Device -> JobType]
           /\ JobsOK'
           /\ \A e \in Device : e # d => job'[e] = job[e]
           /\ job'[d] = j
<1>1. job \in [Device -> JobType] /\ count.version \in 0 .. MaxVersion
  BY DEF FileInv, TypeOK, JobType
<1>2. /\ job' \in [Device -> JobType] /\ job'[d] = j
      /\ \A e \in Device : e # d => job'[e] = job[e]
  BY <1>1
<1>3. ASSUME NEW e \in Device PROVE
         /\ At(e, "idle")' => job'[e] = IdleJob
         /\ ~At(e, "idle")' => job'[e].v \in 1 .. count'.version
         /\ job'[e].pc \notin {"idle", "create"} => job'[e].fd \in Inode
  <2>1. CASE e = d
    BY <1>2, <2>1 DEF At, IdleJob
  <2>2. CASE e # d
    BY <1>1, <1>2, <2>2, BoundAssumption DEF FileInv, JobsOK, At
  <2> QED
    BY <2>1, <2>2
<1> QED
  BY <1>2, <1>3 DEF JobsOK

\* Flush: read, or create when there is no file.
LEMMA FlushType == ASSUME FileInv, NEW d \in Device, Flush(d) PROVE FileInv'
<1> DEFINE j == IF name = NoInode
                THEN [IdleJob EXCEPT !.pc = "create", !.v = count'.version, !.got = None]
                ELSE [IdleJob EXCEPT !.pc = "read", !.v = count'.version, !.fd = name,
                                     !.first = disk[name][1]]
<1>1. /\ count' \in [version : 0 .. MaxVersion, breaks : 0 .. MaxBreak, connects : 0 .. MaxConnect]
      /\ count'.version = count.version + 1 /\ count'.version \in Version
      /\ count.version \in 0 .. MaxVersion
  BY CountType DEF Flush, FileInv, TypeOK
<1>2. name \in Inode \cup {NoInode} /\ (name \in Inode => disk[name][1] \in Version \cup {None})
  BY DEF FileInv, TypeOK
<1>3. j \in JobType /\ j.pc # "idle" /\ j.v = count'.version /\ (j.pc # "create" => j.fd \in Inode)
  BY <1>1, <1>2 DEF JobType, JobPc, IdleJob
<1>4. job' = [job EXCEPT ![d] = j]
  BY DEF Flush
<1>5. /\ job' \in [Device -> JobType] /\ JobsOK'
      /\ \A e \in Device : e # d => job'[e] = job[e]
  <2>1. j.v \in 1 .. count'.version /\ count'.version \in Nat /\ count.version <= count'.version
    BY <1>1, <1>3, BoundAssumption
  <2> HIDE DEF j
  <2> QED
    BY <1>3, <1>4, <2>1, JobSteps
<1> QED
  BY <1>1, <1>5 DEF FileInv, TypeOK, JobType, Flush, fileVars, linkVars, watchVars, At, WatchAt

\* A step of a flush that is under way, given the types of what it writes.
LEMMA FlushStepFrame ==
    ASSUME FileInv, NEW d \in Device, NEW j \in JobType, ~At(d, "idle"),
           job' = [job EXCEPT ![d] = j],
           \/ j = IdleJob
           \/ /\ j.pc # "idle" /\ j.v = job[d].v
              /\ j.pc # "create" => j.fd \in Inode,
           UNCHANGED <<server, linkVars, clock, count>>,
           name' \in Inode \cup {NoInode},
           disk' \in [Inode -> [{1, 2} -> Version \cup {None}]],
           mtime' \in [Inode -> 0 .. MaxClock],
           \/ UNCHANGED watchVars
           \/ \E v \in Version \cup {None, Damaged}, second \in Nat,
                 how \in {"moved_to", "close_write"} : Published(v, second, how)
    PROVE  FileInv'
<1>1. job[d].v \in 1 .. count.version /\ count.version \in Nat
  BY DEF FileInv, TypeOK, JobsOK
<1>2. /\ job' \in [Device -> JobType] /\ JobsOK'
      /\ \A e \in Device : e # d => job'[e] = job[e]
  <2>1. /\ count'.version \in Nat /\ count.version <= count'.version
        /\ j = IdleJob \/ (/\ j.pc # "idle" /\ j.v \in 1 .. count'.version
                           /\ j.pc # "create" => j.fd \in Inode)
    BY <1>1
  <2> QED
    BY <2>1, JobSteps
<1>3. /\ watch' \in [Device -> WatchType]
      /\ seen' \in [Device -> Version \cup {None}]
      /\ owed' \in [Device -> Version \cup {None, Damaged}]
      /\ \A e \in Device : watch'[e].pc = watch[e].pc
  BY PublishedType DEF watchVars, FileInv, TypeOK, WatchType
<1>4. ASSUME NEW e \in Device
      PROVE  /\ (syncer[e] = "dead" /\ server.sftp => At(e, "idle"))'
             /\ (WatchAt(e, "off") <=> syncer[e] = "none")'
  BY <1>2, <1>3 DEF FileInv, TypeOK, linkVars, At, WatchAt
<1> QED
  BY <1>2, <1>3, <1>4 DEF FileInv, TypeOK, JobType, WatchType, linkVars

\* A second block of a file, in the middle of a read or a write.
LEMMA FlushStepType == ASSUME FileInv, NEW d \in Device, FlushStep(d) PROVE FileInv'
<1> USE DEF fileVars, linkVars
<1>1. /\ job \in [Device -> JobType] /\ job[d] \in JobType /\ IdleJob \in JobType
      /\ job[d].pc # "idle" => job[d].v \in Version
      /\ job[d].pc \notin {"idle", "create"} =>
             job[d].fd \in Inode /\ job[d].fd \in Inode \cup {NoInode}
  BY Names DEF FileInv, TypeOK, JobsOK, At, JobType, JobPc, IdleJob
<1>2. /\ name \in Inode \cup {NoInode}
      /\ disk \in [Inode -> [{1, 2} -> Version \cup {None}]]
      /\ mtime \in [Inode -> 0 .. MaxClock]
      /\ clock \in 0 .. MaxClock /\ 0 .. MaxClock \subseteq Nat
      /\ TypeOK
  BY BoundAssumption DEF FileInv, TypeOK
<1>3. CASE ReadRest(d)
  <2> DEFINE j == [job[d] EXCEPT !.pc = "create", !.got = Parsed(job[d].first, disk[job[d].fd][2])]
  <2>1. Parsed(job[d].first, disk[job[d].fd][2]) \in Version \cup {None, Damaged, Unread}
    BY <1>1, <1>2, <1>3, ParsedType DEF ReadRest, At, JobType
  <2>2. j \in JobType /\ j.pc = "create" /\ j.v = job[d].v
    BY <1>1, <2>1 DEF JobType, JobPc
  <2>3. job' = [job EXCEPT ![d] = j] /\ ~At(d, "idle")
    BY <1>3, <1>1 DEF ReadRest, At
  <2> HIDE DEF j
  <2> QED
    BY <1>2, <1>3, <2>2, <2>3, FlushStepFrame DEF ReadRest
<1>4. CASE CreateTmp(d)
  <2> DEFINE j == [job[d] EXCEPT !.pc = "write1", !.fd = OpenTmp(job[d].v)]
  <2>1. OpenTmp(job[d].v) \in Inode
    BY <1>1, <1>4, Names DEF CreateTmp, At, OpenTmp
  <2>2. j \in JobType /\ j.pc = "write1" /\ j.v = job[d].v /\ j.fd \in Inode
    BY <1>1, <2>1 DEF JobType, JobPc
  <2>3. job' = [job EXCEPT ![d] = j] /\ ~At(d, "idle")
    BY <1>4, <1>1 DEF CreateTmp, At
  <2> HIDE DEF j
  <2> QED
    BY <1>2, <1>4, <2>2, <2>3, FlushStepFrame DEF CreateTmp
<1>5. ASSUME At(d, "write1") \/ At(d, "write2"), NEW block \in {1, 2}, Put(d, block)
      PROVE  /\ disk' \in [Inode -> [{1, 2} -> Version \cup {None}]]
             /\ mtime' \in [Inode -> 0 .. MaxClock]
  BY <1>1, <1>2, <1>5 DEF Put, At
<1>6. CASE WriteFirst(d)
  <2> DEFINE j == [job[d] EXCEPT !.pc = "write2"]
  <2>1. j \in JobType /\ j.pc = "write2" /\ j.v = job[d].v /\ j.fd \in Inode
    BY <1>1, <1>6 DEF JobType, JobPc, WriteFirst, At
  <2>2. job' = [job EXCEPT ![d] = j] /\ ~At(d, "idle")
    BY <1>6, <1>1 DEF WriteFirst, At, Goto
  <2> HIDE DEF j
  <2> QED
    BY <1>2, <1>5, <1>6, <2>1, <2>2, FlushStepFrame DEF WriteFirst
<1>7. CASE WriteRest(d)
  <2>1. /\ disk' \in [Inode -> [{1, 2} -> Version \cup {None}]]
        /\ mtime' \in [Inode -> 0 .. MaxClock]
        /\ ~At(d, "idle")
        /\ UNCHANGED <<server, name, linkVars, clock, count>>
    BY <1>5, <1>7 DEF WriteRest, At
  <2>2. CASE job[d].fd = OpenTmp(job[d].v) /\ Goto(d, "rename") /\ UNCHANGED watchVars
    <3> DEFINE j == [job[d] EXCEPT !.pc = "rename"]
    <3>1. j \in JobType /\ j.pc = "rename" /\ j.v = job[d].v /\ j.fd \in Inode
      BY <1>1, <1>7 DEF JobType, JobPc, WriteRest, At
    <3>2. job' = [job EXCEPT ![d] = j]
      BY <2>2, <1>1 DEF Goto
    <3> HIDE DEF j
    <3> QED
      BY <1>2, <2>1, <2>2, <3>1, <3>2, FlushStepFrame
  <2>3. CASE /\ Finish(d)
             /\ IF name = job[d].fd
                THEN Published(Parsed(disk[job[d].fd][1], job[d].v), clock, "close_write")
                ELSE UNCHANGED watchVars
    <3>1. Parsed(disk[job[d].fd][1], job[d].v) \in Version \cup {None, Damaged}
      BY <1>1, <1>2, <1>7, ParsedType DEF WriteRest, At, JobType
    <3>2. \/ UNCHANGED watchVars
          \/ \E v \in Version \cup {None, Damaged}, second \in Nat,
                how \in {"moved_to", "close_write"} : Published(v, second, how)
      BY <1>2, <2>3, <3>1
    <3> QED
      BY <1>1, <1>2, <2>1, <2>3, <3>2, FlushStepFrame DEF Finish
  <2> QED
    BY <1>7, <2>2, <2>3 DEF WriteRest
<1>8. CASE Rename(d)
  <2>1. /\ UNCHANGED <<server, disk, mtime, linkVars, clock, count>> /\ ~At(d, "idle")
        /\ job[d].fd \in Inode
    BY <1>1, <1>8 DEF Rename, At
  <2>2. CASE /\ name' = job[d].fd /\ Finish(d)
             /\ Published(Content(job[d].fd), mtime[job[d].fd], "moved_to")
    <3>1. Content(job[d].fd) \in Version \cup {None, Damaged} /\ mtime[job[d].fd] \in Nat
      BY <1>2, <2>1, ContentType
    <3> QED
      BY <1>1, <1>2, <2>1, <2>2, <3>1, FlushStepFrame DEF Finish
  <2>3. CASE /\ Goto(d, IF At(d, "rename") THEN "unlink" ELSE "clean")
             /\ UNCHANGED <<name, watchVars>>
    <3> DEFINE j == [job[d] EXCEPT !.pc = IF At(d, "rename") THEN "unlink" ELSE "clean"]
    <3>1. j \in JobType /\ j.pc # "idle" /\ j.v = job[d].v /\ j.fd \in Inode
      BY <1>1, <2>1 DEF JobType, JobPc
    <3>2. job' = [job EXCEPT ![d] = j]
      BY <2>3, <1>1 DEF Goto
    <3> HIDE DEF j
    <3> QED
      BY <1>2, <2>1, <2>3, <3>1, <3>2, FlushStepFrame
  <2> QED
    BY <1>8, <2>2, <2>3 DEF Rename
<1>9. CASE Unlink(d) \/ RemoveTmp(d)
  <2> DEFINE j == [job[d] EXCEPT !.pc = IF Unlink(d) THEN "rename again" ELSE "truncate"]
  <2>1. job[d].pc \in {"unlink", "clean"} /\ (Unlink(d) <=> job[d].pc = "unlink")
    BY <1>9 DEF Unlink, RemoveTmp, At
  <2>2. j \in JobType /\ j.pc # "idle" /\ j.v = job[d].v /\ j.fd \in Inode
    BY <1>1, <2>1 DEF JobType, JobPc
  <2>3. job' = [job EXCEPT ![d] = j] /\ ~At(d, "idle")
    BY <1>9, <2>1, <1>1 DEF Unlink, RemoveTmp, Goto, At
  <2>4. /\ name' \in Inode \cup {NoInode} /\ UNCHANGED <<disk, mtime, watchVars>>
        /\ UNCHANGED <<server, linkVars, clock, count>>
    BY <1>2, <1>9 DEF Unlink, RemoveTmp
  <2> HIDE DEF j
  <2> QED
    BY <1>2, <2>2, <2>3, <2>4, FlushStepFrame
<1>10. CASE Truncate(d)
  <2> DEFINE fd == IF name = NoInode THEN Direct(job[d].v) ELSE name
             j == [job[d] EXCEPT !.pc = "write1", !.fd = fd]
  <2>1. fd \in Inode /\ ~At(d, "idle")
    BY <1>1, <1>2, <1>10, Names DEF Truncate, At
  <2>2. Blank \in [{1, 2} -> Version \cup {None}]
    BY DEF Blank
  <2>3. /\ disk' \in [Inode -> [{1, 2} -> Version \cup {None}]]
        /\ mtime' \in [Inode -> 0 .. MaxClock]
        /\ name' \in Inode \cup {NoInode}
        /\ job' = [job EXCEPT ![d] = j]
    <3>1. /\ name' = fd /\ disk' = [disk EXCEPT ![fd] = Blank] /\ mtime' = [mtime EXCEPT ![fd] = clock]
          /\ job' = [job EXCEPT ![d].pc = "write1", ![d].fd = fd]
      BY <1>10 DEF Truncate
    <3> HIDE DEF fd
    <3> QED
      BY <1>1, <1>2, <2>1, <2>2, <3>1
  <2>4. j \in JobType /\ j.pc # "idle" /\ j.v = job[d].v /\ j.fd \in Inode
    <3> HIDE DEF fd
    <3> QED
      BY <1>1, <2>1 DEF JobType, JobPc
  <2>5. UNCHANGED <<server, linkVars, watchVars, clock, count>>
    BY <1>10 DEF Truncate
  <2> HIDE DEF j
  <2> QED
    BY <1>2, <2>1, <2>3, <2>4, <2>5, FlushStepFrame
<1> QED
  BY <1>3, <1>4, <1>6, <1>7, <1>8, <1>9, <1>10 DEF FlushStep

\* The watcher before it starts, when there is none, and after its stream ended.
LEMMA WatchTypes ==
    /\ NoWatch \in WatchType /\ NoWatch.pc = "off"
    /\ NewWatch \in WatchType /\ NewWatch.pc = "start"
    /\ [NoWatch EXCEPT !.pc = "eof"] \in WatchType /\ [NoWatch EXCEPT !.pc = "eof"].pc = "eof"
<1>1. NoWatch \in WatchType /\ NoWatch.pc = "off"
  BY BoundAssumption DEF NoWatch, WatchType, WatchPc
<1>2. \A w \in WatchType, pc \in WatchPc :
          [w EXCEPT !.pc = pc] \in WatchType /\ [w EXCEPT !.pc = pc].pc = pc
  BY DEF WatchType
<1>3. "start" \in WatchPc /\ "eof" \in WatchPc
  BY DEF WatchPc
<1> QED
  BY <1>1, <1>2, <1>3 DEF NewWatch

\* The watcher's steps, and those that make and break connections, change no file
\* and at most end a flush.
LEMMA LinkFrame ==
    ASSUME FileInv, NEW d \in Device, NEW w \in WatchType, NEW h \in {"none", "live", "dead"},
           NEW s \in {"none", "live", "dead"},
           watch' = [watch EXCEPT ![d] = w], conn' = [conn EXCEPT ![d] = h],
           syncer' = [syncer EXCEPT ![d] = s],
           w.pc = "off" <=> s = "none",
           UNCHANGED job \/ job' = [job EXCEPT ![d] = IdleJob],
           (s = "dead" /\ server.sftp => At(d, "idle"))',
           seen' \in [Device -> Version \cup {None}],
           owed' \in [Device -> Version \cup {None, Damaged}],
           UNCHANGED <<server, fileVars, clock>>,
           count' \in [version : 0 .. MaxVersion, breaks : 0 .. MaxBreak, connects : 0 .. MaxConnect],
           count'.version = count.version
    PROVE  FileInv'
<1>1. /\ job' \in [Device -> JobType] /\ JobsOK'
      /\ \A e \in Device : e # d => job'[e] = job[e]
  <2>1. CASE UNCHANGED job
    BY <2>1 DEF FileInv, TypeOK, JobType, JobsOK, At
  <2>2. CASE job' = [job EXCEPT ![d] = IdleJob]
    <3>1. IdleJob \in JobType
      BY DEF IdleJob, JobType, JobPc
    <3>2. count'.version \in Nat /\ count.version <= count'.version
      BY BoundAssumption DEF FileInv, TypeOK
    <3> QED
      BY <2>2, <3>1, <3>2, JobSteps
  <2> QED
    BY <2>1, <2>2
<1>2. watch' \in [Device -> WatchType]
  BY DEF FileInv, TypeOK, WatchType
<1>3. ASSUME NEW e \in Device
      PROVE  /\ (syncer[e] = "dead" /\ server.sftp => At(e, "idle"))'
             /\ (WatchAt(e, "off") <=> syncer[e] = "none")'
  <2>1. CASE e = d
    BY <2>1 DEF FileInv, TypeOK, WatchAt
  <2>2. CASE e # d
    BY <1>1, <2>2 DEF FileInv, TypeOK, WatchAt, At
  <2> QED
    BY <2>1, <2>2
<1>4. conn' \in [Device -> {"none", "live", "dead"}] /\ syncer' \in [Device -> {"none", "live", "dead"}]
  BY DEF FileInv, TypeOK
<1> QED
  BY <1>1, <1>2, <1>3, <1>4 DEF FileInv, TypeOK, JobType, WatchType, fileVars

LEMMA WatchStepType == ASSUME FileInv, NEW d \in Device, WatchStep(d) PROVE FileInv'
<1> USE DEF fileVars, linkVars
<1>1. /\ watch \in [Device -> WatchType] /\ watch[d] \in WatchType
      /\ conn[d] \in {"none", "live", "dead"} /\ syncer[d] \in {"none", "live", "dead"}
      /\ conn = [conn EXCEPT ![d] = conn[d]] /\ syncer = [syncer EXCEPT ![d] = syncer[d]]
      /\ watch[d].pc = "off" <=> syncer[d] = "none"
      /\ syncer[d] = "dead" /\ server.sftp => At(d, "idle")
      /\ seen \in [Device -> Version \cup {None}]
      /\ owed \in [Device -> Version \cup {None, Damaged}]
      /\ count \in [version : 0 .. MaxVersion, breaks : 0 .. MaxBreak, connects : 0 .. MaxConnect]
  BY DEF FileInv, TypeOK, WatchType, WatchAt
<1>2. /\ UNCHANGED <<server, fileVars, linkVars, job, clock, count>>
      /\ seen' \in [Device -> Version \cup {None}]
      /\ watch[d].pc # "off"
  BY <1>1 DEF WatchStep, StartWatch, OpenFile, Emit, Arm, ReadEvent, Poll, WatcherDisconnected, WatchAt
<1>3. owed' \in [Device -> Version \cup {None, Damaged}]
  <2>1. Value \in Version \cup {None, Damaged}
    BY ContentType DEF FileInv, TypeOK, Value
  <2>2. CASE StartWatch(d)
    BY <1>1, <2>1, <2>2 DEF StartWatch
  <2>3. CASE UNCHANGED owed
    BY <1>1, <2>3
  <2> QED
    BY <2>2, <2>3 DEF WatchStep, OpenFile, Emit, Arm, ReadEvent, Poll, WatcherDisconnected
<1>4. ASSUME NEW w \in WatchType, w.pc # "off", watch' = [watch EXCEPT ![d] = w]
      PROVE  FileInv'
  BY <1>1, <1>2, <1>3, <1>4, LinkFrame DEF At
<1>5. name \in Inode \cup {NoInode} /\ (name \in Inode => disk[name][1] \in Version \cup {None})
      /\ Mtime \in 0 .. MaxClock /\ None \in Version \cup {None}
  BY Names DEF FileInv, TypeOK
<1>6. CASE StartWatch(d) \/ Emit(d)
  <2>1. PICK pc \in {"stuck", "open", "arm", "wait"} : WatchGoes(d, pc)
    BY <1>6 DEF StartWatch, Emit
  <2>2. [watch[d] EXCEPT !.pc = pc] \in WatchType
    BY <1>1, <2>1 DEF WatchType, WatchPc
  <2>3. watch' = [watch EXCEPT ![d] = [watch[d] EXCEPT !.pc = pc]] /\ [watch[d] EXCEPT !.pc = pc].pc = pc
    BY <1>1, <2>1 DEF WatchGoes, WatchType
  <2> QED
    BY <1>4, <2>1, <2>2, <2>3
<1>7. CASE OpenFile(d)
  <2> DEFINE w == [watch[d] EXCEPT !.pc = "emit", !.fd = name,
                                   !.first = IF name = NoInode THEN None ELSE disk[name][1]]
  <2>1. w \in WatchType /\ w.pc = "emit"
    BY <1>1, <1>5 DEF WatchType, WatchPc
  <2>2. watch' = [watch EXCEPT ![d] = w]
    BY <1>1, <1>7 DEF OpenFile
  <2> HIDE DEF w
  <2> QED
    BY <1>4, <2>1, <2>2
<1>8. CASE Arm(d)
  <2> DEFINE w == [watch[d] EXCEPT !.pc = "wait", !.armed = TRUE]
  <2>1. w \in WatchType /\ w.pc = "wait" /\ watch' = [watch EXCEPT ![d] = w]
    BY <1>1, <1>8 DEF WatchType, WatchPc, Arm
  <2> QED
    BY <1>4, <2>1
<1>9. CASE ReadEvent(d)
  <2> DEFINE w == [watch[d] EXCEPT !.pc = "open", !.event = FALSE]
  <2>1. w \in WatchType /\ w.pc = "open" /\ watch' = [watch EXCEPT ![d] = w]
    BY <1>1, <1>9 DEF WatchType, WatchPc, ReadEvent
  <2> QED
    BY <1>4, <2>1
<1>10. CASE Poll(d)
  <2> DEFINE w == [watch[d] EXCEPT !.pc = "open", !.last = Mtime]
  <2>1. w \in WatchType /\ w.pc = "open"
    BY <1>1, <1>5 DEF WatchType, WatchPc
  <2>2. watch' = [watch EXCEPT ![d] = w]
    BY <1>1, <1>10 DEF Poll
  <2> HIDE DEF w
  <2> QED
    BY <1>4, <2>1, <2>2
<1>11. CASE WatcherDisconnected(d)
  <2>1. NewWatch \in WatchType /\ NewWatch.pc = "start"
    BY WatchTypes
  <2> QED
    BY <1>4, <1>11, <2>1 DEF WatcherDisconnected
<1> QED
  BY <1>6, <1>7, <1>8, <1>9, <1>10, <1>11 DEF WatchStep

LEMMA LinkStepType ==
    ASSUME FileInv, NEW d \in Device,
           \/ ServerConnected(d) \/ DisconnectServer(d) \/ ConnectionLost(d)
           \/ Redial(d) \/ RedialFails(d)
    PROVE  FileInv'
<1> USE DEF fileVars, linkVars, watchVars
<1>1. /\ watch \in [Device -> WatchType] /\ watch[d] \in WatchType
      /\ conn[d] \in {"none", "live", "dead"} /\ syncer[d] \in {"none", "live", "dead"}
      /\ conn = [conn EXCEPT ![d] = conn[d]] /\ syncer = [syncer EXCEPT ![d] = syncer[d]]
      /\ watch = [watch EXCEPT ![d] = watch[d]]
      /\ watch[d].pc = "off" <=> syncer[d] = "none"
      /\ syncer[d] = "dead" /\ server.sftp => At(d, "idle")
      /\ seen \in [Device -> Version \cup {None}]
      /\ owed \in [Device -> Version \cup {None, Damaged}]
      /\ [owed EXCEPT ![d] = None] \in [Device -> Version \cup {None, Damaged}]
      /\ count \in [version : 0 .. MaxVersion, breaks : 0 .. MaxBreak, connects : 0 .. MaxConnect]
      /\ TypeOK
  BY DEF FileInv, TypeOK, WatchType, WatchAt
<1>2. /\ NewWatch \in WatchType /\ NewWatch.pc = "start"
      /\ NoWatch \in WatchType /\ NoWatch.pc = "off"
      /\ [NoWatch EXCEPT !.pc = "eof"] \in WatchType /\ [NoWatch EXCEPT !.pc = "eof"].pc = "eof"
  BY WatchTypes
<1>3. CASE ServerConnected(d)
  <2>1. /\ count' \in [version : 0 .. MaxVersion, breaks : 0 .. MaxBreak, connects : 0 .. MaxConnect]
        /\ count'.version = count.version
    BY <1>1, <1>3, CountType DEF ServerConnected
  <2> QED
    BY <1>1, <1>2, <1>3, <2>1, LinkFrame DEF ServerConnected, At
<1>4. CASE DisconnectServer(d)
  <2>1. /\ count' \in [version : 0 .. MaxVersion, breaks : 0 .. MaxBreak, connects : 0 .. MaxConnect]
        /\ count'.version = count.version
    BY <1>1, <1>4, CountType DEF DisconnectServer
  <2> QED
    BY <1>1, <1>2, <1>4, <2>1, LinkFrame DEF DisconnectServer, At
<1>5. CASE ConnectionLost(d)
  <2> DEFINE w == IF watch[d].pc \in Running THEN [NoWatch EXCEPT !.pc = "eof"] ELSE watch[d]
             s == IF syncer[d] = "none" THEN "none" ELSE "dead"
  <2>1. /\ count' \in [version : 0 .. MaxVersion, breaks : 0 .. MaxBreak, connects : 0 .. MaxConnect]
        /\ count'.version = count.version
    BY <1>1, <1>5, CountType DEF ConnectionLost
  <2>2. /\ w \in WatchType /\ (w.pc = "off" <=> s = "none") /\ s \in {"none", "live", "dead"}
    BY <1>1, <1>2 DEF Running
  <2>3. watch' = [watch EXCEPT ![d] = w] /\ syncer' = [syncer EXCEPT ![d] = s]
        /\ conn' = [conn EXCEPT ![d] = "dead"] /\ owed' = [owed EXCEPT ![d] = None]
        /\ UNCHANGED <<server, fileVars, seen, clock>>
    BY <1>5 DEF ConnectionLost
  <2>4. /\ UNCHANGED job \/ job' = [job EXCEPT ![d] = IdleJob]
        /\ server.sftp => job' = [job EXCEPT ![d] = IdleJob]
    BY <1>5 DEF ConnectionLost, JobEnds, Finish
  <2>5. (server.sftp => At(d, "idle"))'
    BY <2>3, <2>4 DEF FileInv, TypeOK, At, IdleJob
  <2> HIDE DEF w, s
  <2> QED
    BY <1>1, <2>1, <2>2, <2>3, <2>4, <2>5, LinkFrame
<1>6. CASE Redial(d) \/ RedialFails(d)
  <2>1. PICK h \in {"live", "none"} : conn' = [conn EXCEPT ![d] = h]
    BY <1>6 DEF Redial, RedialFails
  <2>2. /\ UNCHANGED <<server, fileVars, clock>> /\ UNCHANGED job /\ count' = count
        /\ syncer' = [syncer EXCEPT ![d] = syncer[d]] /\ watch' = [watch EXCEPT ![d] = watch[d]]
        /\ seen' = seen /\ owed' = owed
    BY <1>1, <1>6 DEF Redial, RedialFails
  <2>3. h \in {"none", "live", "dead"} /\ (syncer[d] = "dead" /\ server.sftp => At(d, "idle")')
    BY <1>1, <2>2 DEF At
  <2> QED
    BY <1>1, <2>1, <2>2, <2>3, LinkFrame DEF At
<1> QED
  BY <1>3, <1>4, <1>5, <1>6

\* A full disk ends a flush, or sends the script on to its mv.
LEMMA DiskFullType == ASSUME FileInv, NEW d \in Device, DiskFull(d) PROVE FileInv'
<1> USE DEF fileVars, linkVars, watchVars
<1>1. /\ count' \in [version : 0 .. MaxVersion, breaks : 0 .. MaxBreak, connects : 0 .. MaxConnect]
      /\ count'.version = count.version /\ count.version \in Nat
      /\ job[d] \in JobType /\ ~At(d, "idle") /\ job[d].fd \in Inode
      /\ job[d].v \in 1 .. count.version
  BY CountType DEF DiskFull, FileInv, TypeOK, JobType, JobsOK, At, Writing
<1>2. ASSUME NEW j \in JobType, job' = [job EXCEPT ![d] = j], server.sftp => j.pc = "idle",
             job' \in [Device -> JobType], JobsOK',
             \A e \in Device : e # d => job'[e] = job[e]
      PROVE  FileInv'
  <2>1. job'[d] = j
    BY <1>2 DEF FileInv, TypeOK
  <2> QED
    BY <1>1, <1>2, <2>1 DEF FileInv, TypeOK, JobType, At, WatchAt, DiskFull
<1>3. CASE server.sftp
  <2>1. IdleJob \in JobType /\ IdleJob.pc = "idle"
    BY DEF IdleJob, JobType, JobPc
  <2>2. job' = [job EXCEPT ![d] = IdleJob]
    BY <1>3 DEF DiskFull, Finish
  <2>3. count'.version \in Nat /\ count.version <= count'.version
    BY <1>1
  <2> QED
    BY <1>2, <2>1, <2>2, <2>3, JobSteps
<1>4. CASE ~server.sftp
  <2> DEFINE j == [job[d] EXCEPT !.pc = "rename"]
  <2>1. j \in JobType /\ j.pc # "idle" /\ j.v \in 1 .. count'.version /\ j.fd \in Inode
    BY <1>1 DEF JobType, JobPc
  <2>2. job' = [job EXCEPT ![d] = j]
    BY <1>1, <1>4 DEF DiskFull, Goto, FileInv, TypeOK
  <2>3. count'.version \in Nat /\ count.version <= count'.version
    BY <1>1
  <2> HIDE DEF j
  <2>4. /\ job' \in [Device -> JobType] /\ JobsOK'
        /\ \A e \in Device : e # d => job'[e] = job[e]
    BY <2>1, <2>2, <2>3, JobSteps
  <2> QED
    BY <1>2, <1>4, <2>1, <2>2, <2>4
<1> QED
  BY <1>3, <1>4

LEMMA FileInvStep == FileInv /\ [Next]_vars => FileInv'
<1> USE DEF fileVars, linkVars, watchVars
<1> SUFFICES ASSUME FileInv, [Next]_vars PROVE FileInv'
  OBVIOUS
<1>1. CASE \E d \in Device : Flush(d) \/ FlushStep(d) \/ DiskFull(d) \/ WatchStep(d)
  BY <1>1, FlushType, FlushStepType, DiskFullType, WatchStepType
<1>2. CASE \E d \in Device : \/ ServerConnected(d) \/ DisconnectServer(d) \/ ConnectionLost(d)
                            \/ Redial(d) \/ RedialFails(d)
  BY <1>2, LinkStepType
<1>3. CASE Tick
  BY <1>3, BoundAssumption DEF Tick, FileInv, TypeOK, JobsOK, At, WatchAt
<1>4. CASE UNCHANGED vars
  BY <1>4 DEF vars, FileInv, TypeOK, JobsOK, At, WatchAt
<1> QED
  BY <1>1, <1>2, <1>3, <1>4 DEF Next

LEMMA FileInvInit == Init => FileInv
BY BoundAssumption DEF Init, FileInv, TypeOK, JobsOK, At, WatchAt, Blank, IdleJob, NoWatch, JobPc, WatchPc

\* Every variable has its type; a flush over SFTP ends with the connection it
\* runs on; a watcher is there exactly while the app has a syncer.
THEOREM TypeCorrect == Spec => []TypeOK
<1>1. FileInv => TypeOK
  BY DEF FileInv
<1> QED
  BY <1>1, FileInvInit, FileInvStep, PTL DEF Spec

(***************************************************************************)
(* The register.  An inode is settled once it holds its version and no     *)
(* flush of that version is left to write it.  Where files are replaced    *)
(* atomically, what shared.json names is settled, and so is every file a   *)
(* flush reads; the file a flush writes is its own, and renamed when both  *)
(* blocks are there.                                                       *)
(***************************************************************************)
Keeps == IF server.sftp THEN server.rename = "overwrites" ELSE server.room

Settled(i) ==
    /\ i \in 1 .. count.version
    /\ disk[i][1] = i /\ disk[i][2] = i
    /\ \A d \in Device : ~At(d, "idle") => job[d].v # i

OwnVersions ==
    \A d, e \in Device :
        d # e /\ ~At(d, "idle") /\ ~At(e, "idle") => job[d].v # job[e].v

OwnFile(d) ==
    /\ job[d].pc \notin {"unlink", "rename again", "clean", "truncate"}
    /\ At(d, "read") => Settled(job[d].fd) /\ job[d].first = job[d].fd
    /\ job[d].pc \in {"write1", "write2", "rename"} => job[d].fd = job[d].v
    /\ job[d].pc \in {"write2", "rename"} => disk[job[d].v][1] = job[d].v
    /\ At(d, "rename") => disk[job[d].v][2] = job[d].v

RegisterInv ==
    /\ FileInv
    /\ OwnVersions
    /\ Keeps => /\ name # NoInode => Settled(name)
                /\ \A d \in Device : OwnFile(d)

\* A settled inode stays so when it is not written and no flush takes its version.
LEMMA SettledKept ==
    ASSUME NEW i, Settled(i), disk'[i] = disk[i],
           count.version \in Nat, count'.version \in Nat, count.version <= count'.version,
           \A d \in Device : ~At(d, "idle")' =>
               \/ ~At(d, "idle") /\ job'[d].v = job[d].v
               \/ job'[d].v = count.version + 1
    PROVE  Settled(i)'
BY DEF Settled

\* A flush that goes on with its version, or ends, leaves the others their files,
\* as long as it writes to no file but the one of its version.
LEMMA OthersKept ==
    ASSUME RegisterInv, FileInv', Keeps, NEW d \in Device, NEW j,
           job' = [job EXCEPT ![d] = j],
           j.pc # "idle" => ~At(d, "idle") /\ j.v = job[d].v,
           UNCHANGED server, count'.version = count.version,
           \A i \in Inode : disk'[i] = disk[i] \/ (~At(d, "idle") /\ i = job[d].v)
    PROVE  /\ OwnVersions'
           /\ \A i : Settled(i) => Settled(i)'
           /\ \A e \in Device : e # d => OwnFile(e)'
           /\ job'[d] = j
<1>1. /\ \A e \in Device : e # d => job'[e] = job[e]
      /\ job'[d] = j
      /\ count.version \in Nat /\ count.version \in 0 .. MaxVersion
      /\ \A e \in Device : ~At(e, "idle") => job[e].v \in 1 .. count.version /\ job[e].v \in Inode
  BY BoundAssumption DEF RegisterInv, FileInv, TypeOK, JobsOK, Inode
<1>2. \A e \in Device : ~At(e, "idle")' => ~At(e, "idle") /\ job'[e].v = job[e].v
  BY <1>1 DEF At
<1>3. OwnVersions'
  BY <1>2 DEF RegisterInv, OwnVersions
<1>4. ASSUME NEW i, Settled(i) PROVE Settled(i)'
  <2>1. i \in Inode /\ (~At(d, "idle") => i # job[d].v)
    BY <1>1, <1>4, BoundAssumption DEF Settled, Inode
  <2>2. disk'[i] = disk[i]
    BY <2>1
  <2> QED
    BY <1>1, <1>2, <1>4, <2>2, SettledKept
<1>5. ASSUME NEW e \in Device, e # d PROVE OwnFile(e)'
  <2>1. OwnFile(e) /\ job'[e] = job[e]
    BY <1>1, <1>5 DEF RegisterInv
  <2>2. ~At(e, "idle") => disk'[job[e].v] = disk[job[e].v]
    BY <1>1, <1>5 DEF RegisterInv, OwnVersions
  <2> QED
    BY <1>4, <2>1, <2>2 DEF OwnFile, At
<1> QED
  BY <1>1, <1>3, <1>4, <1>5

\* Such a step, given what it does to its own flush and to the name.
LEMMA RegisterKept ==
    ASSUME RegisterInv, FileInv', Keeps, NEW d \in Device, NEW j,
           job' = [job EXCEPT ![d] = j],
           j.pc # "idle" => ~At(d, "idle") /\ j.v = job[d].v,
           UNCHANGED server, count'.version = count.version,
           \A i \in Inode : disk'[i] = disk[i] \/ (~At(d, "idle") /\ i = job[d].v),
           j.pc # "idle" => OwnFile(d)',
           name' = name \/ Settled(name)'
    PROVE  RegisterInv'
<1>1. /\ OwnVersions' /\ job'[d] = j
      /\ \A i : Settled(i) => Settled(i)'
      /\ \A e \in Device : e # d => OwnFile(e)'
  BY OthersKept
<1>2. OwnFile(d)'
  BY <1>1 DEF OwnFile, At
<1>3. (name # NoInode => Settled(name))'
  BY <1>1 DEF RegisterInv
<1>4. (Keeps <=> Keeps') /\ (name # NoInode => Settled(name))'
  BY <1>3 DEF Keeps
<1> QED
  BY <1>1, <1>2, <1>4 DEF RegisterInv

\* Flush: what it reads is settled, its version is new.
LEMMA FlushOwns == ASSUME RegisterInv, FileInv', NEW d \in Device, Flush(d) PROVE RegisterInv'
<1> USE DEF fileVars, linkVars, watchVars
<1>1. /\ count.version \in Nat /\ count'.version = count.version + 1
      /\ UNCHANGED <<disk, name, server>>
      /\ At(d, "idle") /\ \A e \in Device : e # d => job'[e] = job[e]
      /\ job'[d].v = count'.version /\ ~At(d, "idle")'
      /\ \/ At(d, "create")'
         \/ /\ At(d, "read")' /\ job'[d].fd = name /\ job'[d].first = disk[name][1]
            /\ name # NoInode
  BY CountType, BoundAssumption DEF Flush, RegisterInv, FileInv, TypeOK, IdleJob, At
<1>2. \A e \in Device : ~At(e, "idle")' =>
          \/ ~At(e, "idle") /\ job'[e].v = job[e].v
          \/ job'[e].v = count.version + 1
  BY <1>1 DEF At
<1>3. OwnVersions'
  <2>1. \A e \in Device : ~At(e, "idle") => job[e].v \in 1 .. count.version
    BY DEF RegisterInv, FileInv, JobsOK
  <2> QED
    BY <1>1, <2>1 DEF RegisterInv, OwnVersions, At
<1>4. \A i : Settled(i) => Settled(i)'
  BY <1>1, <1>2, SettledKept
<1>5. ASSUME Keeps' PROVE (name # NoInode => Settled(name))' /\ \A e \in Device : OwnFile(e)'
  <2>1. Keeps
    BY <1>1, <1>5 DEF Keeps
  <2>2. (name # NoInode => Settled(name)) /\ \A e \in Device : OwnFile(e)
    BY <2>1 DEF RegisterInv
  <2>3. (name # NoInode => Settled(name))'
    BY <1>1, <1>4, <2>2
  <2>4. \A e \in Device : e # d => OwnFile(e)'
    BY <1>1, <1>4, <2>2 DEF OwnFile, At
  <2>5. OwnFile(d)'
    <3>1. CASE At(d, "create")'
      BY <3>1 DEF OwnFile, At
    <3>2. CASE At(d, "read")'
      <4>1. Settled(name)' /\ job'[d].fd = name /\ job'[d].first = name
        BY <1>1, <2>2, <2>3, <3>2 DEF At, Settled
      <4> QED
        BY <1>1, <3>2, <4>1 DEF OwnFile, At
    <3> QED
      BY <1>1, <3>1, <3>2
  <2> QED
    BY <2>3, <2>4, <2>5
<1> QED
  BY <1>3, <1>5 DEF RegisterInv

\* The steps of a flush: the file of its version is written, then renamed.
LEMMA FlushStepOwns ==
    ASSUME RegisterInv, FileInv', Keeps, NEW d \in Device, FlushStep(d)
    PROVE  /\ RegisterInv'
           /\ \/ UNCHANGED name
              \/ /\ At(d, "rename") /\ name' = job[d].v /\ UNCHANGED disk
                 /\ job' = [job EXCEPT ![d] = IdleJob]
<1> USE DEF fileVars, linkVars, watchVars
<1>1. /\ job \in [Device -> JobType] /\ OwnFile(d) /\ UNCHANGED server
      /\ count' = count /\ count.version \in 0 .. MaxVersion /\ count.version \in Nat
      /\ ~At(d, "idle") => job[d].v \in 1 .. count.version
      /\ disk \in [Inode -> [{1, 2} -> Version \cup {None}]]
      /\ ~At(d, "idle")
  <2>1. UNCHANGED server /\ count' = count /\ ~At(d, "idle")
    BY DEF FlushStep, ReadRest, CreateTmp, WriteFirst, WriteRest, Rename, Unlink, RemoveTmp,
           Truncate, At
  <2>2. /\ job \in [Device -> JobType] /\ OwnFile(d) /\ count.version \in 0 .. MaxVersion
        /\ ~At(d, "idle") => job[d].v \in 1 .. count.version
        /\ disk \in [Inode -> [{1, 2} -> Version \cup {None}]]
    BY DEF RegisterInv, FileInv, TypeOK, JobType, JobsOK
  <2> QED
    BY <2>1, <2>2, BoundAssumption
<1>2. job[d].v \in Inode /\ job[d].v \in Version /\ Tmp(job[d].v) = job[d].v /\ OpenTmp(job[d].v) = job[d].v
      /\ job[d].v # 0
  BY <1>1, BoundAssumption DEF Inode, Version, Tmp, OpenTmp
<1>3. ASSUME NEW j, job' = [job EXCEPT ![d] = j], j.pc # "idle" => j.v = job[d].v,
             UNCHANGED name,
             \A i \in Inode : disk'[i] = disk[i] \/ i = job[d].v,
             j.pc # "idle" => OwnFile(d)'
      PROVE  RegisterInv'
  BY <1>1, <1>3, RegisterKept
<1>4. CASE ReadRest(d)
  <2> DEFINE j == [job[d] EXCEPT !.pc = "create", !.got = Parsed(job[d].first, disk[job[d].fd][2])]
  <2>1. job' = [job EXCEPT ![d] = j] /\ UNCHANGED <<name, disk>>
    BY <1>4, <1>1 DEF ReadRest
  <2>2. j.pc = "create" /\ j.v = job[d].v
    BY <1>1 DEF JobType
  <2> HIDE DEF j
  <2>3. OwnFile(d)'
    BY <1>1, <2>1, <2>2 DEF OwnFile, At
  <2> QED
    BY <1>3, <2>1, <2>2, <2>3
<1>5. CASE CreateTmp(d)
  <2> DEFINE j == [job[d] EXCEPT !.pc = "write1", !.fd = OpenTmp(job[d].v)]
  <2>1. job' = [job EXCEPT ![d] = j] /\ UNCHANGED <<name, disk>>
    BY <1>5, <1>1 DEF CreateTmp
  <2>2. j.pc = "write1" /\ j.v = job[d].v /\ j.fd = j.v
    BY <1>1, <1>2 DEF JobType
  <2> HIDE DEF j
  <2>3. OwnFile(d)'
    BY <1>1, <2>1, <2>2 DEF OwnFile, At
  <2> QED
    BY <1>3, <2>1, <2>2, <2>3
<1>6. CASE WriteFirst(d)
  <2> DEFINE j == [job[d] EXCEPT !.pc = "write2"]
  <2>1. job' = [job EXCEPT ![d] = j] /\ UNCHANGED name
        /\ disk' = [disk EXCEPT ![job[d].fd][1] = job[d].v] /\ job[d].fd = job[d].v
    BY <1>6, <1>1 DEF WriteFirst, Put, Goto, At, OwnFile
  <2>2. j.pc = "write2" /\ j.v = job[d].v /\ j.fd = job[d].fd
    BY <1>1 DEF JobType
  <2> HIDE DEF j
  <2>3. disk'[job[d].v][1] = job[d].v /\ \A i \in Inode : disk'[i] = disk[i] \/ i = job[d].v
    BY <1>1, <1>2, <2>1
  <2>4. OwnFile(d)'
    BY <1>1, <2>1, <2>2, <2>3 DEF OwnFile, At
  <2> QED
    BY <1>3, <2>1, <2>2, <2>3, <2>4
<1>7. CASE WriteRest(d)
  <2> DEFINE j == [job[d] EXCEPT !.pc = "rename"]
  <2>1. job' = [job EXCEPT ![d] = j] /\ UNCHANGED name
        /\ disk' = [disk EXCEPT ![job[d].fd][2] = job[d].v] /\ job[d].fd = job[d].v
        /\ disk[job[d].v][1] = job[d].v
    BY <1>7, <1>1, <1>2 DEF WriteRest, Put, Goto, At, OwnFile
  <2>2. j.pc = "rename" /\ j.v = job[d].v /\ j.fd = job[d].fd
    BY <1>1 DEF JobType
  <2> HIDE DEF j
  <2>3. /\ disk'[job[d].v][1] = job[d].v /\ disk'[job[d].v][2] = job[d].v
        /\ \A i \in Inode : disk'[i] = disk[i] \/ i = job[d].v
    BY <1>1, <1>2, <2>1
  <2>4. OwnFile(d)'
    BY <1>1, <2>1, <2>2, <2>3 DEF OwnFile, At
  <2> QED
    BY <1>3, <2>1, <2>2, <2>3, <2>4
<1>8. CASE Rename(d)
  <2>1. At(d, "rename") /\ Renames
    BY <1>1, <1>8 DEF Rename, OwnFile, At, Keeps, Renames, RegisterInv, FileInv, TypeOK
  <2>2. /\ name' = job[d].v /\ job' = [job EXCEPT ![d] = IdleJob] /\ UNCHANGED disk
        /\ disk[job[d].v][1] = job[d].v /\ disk[job[d].v][2] = job[d].v
    BY <1>1, <1>8, <2>1 DEF Rename, Finish, OwnFile, At
  <2>3. IdleJob.pc = "idle"
    BY DEF IdleJob
  <2>4. Settled(name)'
    <3>1. \A e \in Device : ~At(e, "idle")' => e # d /\ job'[e] = job[e] /\ ~At(e, "idle")
      BY <1>1, <2>2, <2>3 DEF At
    <3>2. \A e \in Device : ~At(e, "idle")' => job'[e].v # job[d].v
      BY <1>1, <3>1 DEF RegisterInv, OwnVersions
    <3> QED
      BY <1>1, <2>2, <3>2 DEF Settled
  <2>5. RegisterInv'
    BY <1>1, <2>2, <2>3, <2>4, RegisterKept
  <2> QED
    BY <2>1, <2>2, <2>5
<1>9. CASE Unlink(d) \/ RemoveTmp(d) \/ Truncate(d)
  BY <1>1, <1>9 DEF Unlink, RemoveTmp, Truncate, At, OwnFile
<1>10. CASE ReadRest(d) \/ CreateTmp(d) \/ WriteFirst(d) \/ WriteRest(d)
  BY <1>4, <1>5, <1>6, <1>7, <1>10 DEF ReadRest, CreateTmp, WriteFirst, WriteRest
<1> QED
  BY <1>8, <1>9, <1>10 DEF FlushStep

\* The other steps leave files and names alone, and at most end a flush.
LEMMA OtherStepsOwn ==
    ASSUME FileInv, NEW d \in Device,
           \/ DiskFull(d) /\ Keeps
           \/ WatchStep(d)
           \/ ServerConnected(d) \/ DisconnectServer(d) \/ ConnectionLost(d)
           \/ Redial(d) \/ RedialFails(d)
    PROVE  /\ UNCHANGED <<server, name, disk>> /\ count'.version = count.version
           /\ UNCHANGED job \/ job' = [job EXCEPT ![d] = IdleJob]
<1> USE DEF fileVars, linkVars, watchVars
<1>1. CASE WatchStep(d)
  BY <1>1 DEF WatchStep, StartWatch, OpenFile, Emit, Arm, ReadEvent, Poll, WatcherDisconnected
<1>2. CASE ServerConnected(d) \/ DisconnectServer(d) \/ ConnectionLost(d)
  <2>1. count'.version = count.version
    BY <1>2, CountType DEF FileInv, ServerConnected, DisconnectServer, ConnectionLost
  <2> QED
    BY <1>2, <2>1 DEF ServerConnected, DisconnectServer, ConnectionLost, JobEnds, Finish
<1>3. CASE Redial(d) \/ RedialFails(d)
  BY <1>3 DEF Redial, RedialFails
<1>4. CASE DiskFull(d) /\ Keeps
  <2>1. count'.version = count.version
    BY <1>4, CountType DEF FileInv, DiskFull
  <2> QED
    BY <1>4, <2>1 DEF DiskFull, Finish, Keeps
<1> QED
  BY <1>1, <1>2, <1>3, <1>4

LEMMA RegisterInvStep == RegisterInv /\ [Next]_vars => RegisterInv'
<1> SUFFICES ASSUME RegisterInv, [Next]_vars PROVE RegisterInv'
  OBVIOUS
<1>1. FileInv'
  BY FileInvStep DEF RegisterInv
<1>2. CASE \E d \in Device : Flush(d)
  BY <1>1, <1>2, FlushOwns
<1>3. CASE Keeps /\ \E d \in Device : FlushStep(d)
  BY <1>1, <1>3, FlushStepOwns
<1>4. ASSUME ~Keeps, NEW d \in Device, FlushStep(d) \/ DiskFull(d) PROVE RegisterInv'
  <2>1. ~Keeps'
    <3>1. UNCHANGED server
      BY <1>4 DEF FlushStep, ReadRest, CreateTmp, WriteFirst, WriteRest, Rename, Unlink, RemoveTmp,
                  Truncate, DiskFull
    <3> QED
      BY <1>4, <3>1 DEF Keeps
  <2>2. \A e \in Device : ~At(e, "idle")' => ~At(e, "idle") /\ job'[e].v = job[e].v
    <3>1. job \in [Device -> JobType]
      BY DEF RegisterInv, FileInv, TypeOK, JobType
    <3>2. ~At(d, "idle")
      BY <1>4 DEF FlushStep, ReadRest, CreateTmp, WriteFirst, WriteRest, Rename, Unlink, RemoveTmp,
                  Truncate, DiskFull, At, Writing
    <3>3. CASE Finish(d)
      BY <3>1, <3>3 DEF Finish, At, IdleJob
    <3>4. CASE \E pc : Goto(d, pc)
      BY <3>1, <3>2, <3>4 DEF Goto, At, JobType
    <3>5. CASE ReadRest(d) \/ CreateTmp(d)
      BY <3>1, <3>5 DEF ReadRest, CreateTmp, At, JobType
    <3>6. CASE Truncate(d)
      <4>1. job' = [job EXCEPT ![d].pc = "write1",
                               ![d].fd = IF name = NoInode THEN Direct(job[d].v) ELSE name]
        BY <3>6 DEF Truncate
      <4> QED
        BY <3>1, <3>2, <4>1 DEF At, JobType
    <3>7. \/ Finish(d) \/ \E pc : Goto(d, pc) \/ ReadRest(d) \/ CreateTmp(d) \/ Truncate(d)
      BY <1>4 DEF FlushStep, WriteFirst, WriteRest, Rename, Unlink, RemoveTmp, DiskFull
    <3> QED
      BY <3>3, <3>4, <3>5, <3>6, <3>7
  <2> QED
    BY <1>1, <2>1, <2>2 DEF RegisterInv, OwnVersions
<1>5. ASSUME NEW d \in Device,
             \/ DiskFull(d) /\ Keeps
           \/ WatchStep(d)
             \/ ServerConnected(d) \/ DisconnectServer(d) \/ ConnectionLost(d)
             \/ Redial(d) \/ RedialFails(d)
      PROVE  RegisterInv'
  <2>1. /\ UNCHANGED <<server, name, disk>> /\ count'.version = count.version
        /\ UNCHANGED job \/ job' = [job EXCEPT ![d] = IdleJob]
    BY <1>5, OtherStepsOwn DEF RegisterInv
  <2>2. CASE UNCHANGED job
    BY <1>1, <2>1, <2>2 DEF RegisterInv, OwnVersions, OwnFile, Settled, Keeps, At
  <2>3. CASE job' = [job EXCEPT ![d] = IdleJob]
    <3>1. IdleJob.pc = "idle"
      BY DEF IdleJob
    <3>2. CASE Keeps
      BY <1>1, <2>1, <2>3, <3>1, <3>2, RegisterKept
    <3>3. CASE ~Keeps
      <4>1. \A e \in Device : ~At(e, "idle")' => ~At(e, "idle") /\ job'[e] = job[e]
        BY <2>3, <3>1 DEF At, RegisterInv, FileInv, TypeOK
      <4>2. ~Keeps'
        BY <2>1, <3>3 DEF Keeps
      <4> QED
        BY <1>1, <4>1, <4>2 DEF RegisterInv, OwnVersions
    <3> QED
      BY <3>2, <3>3
  <2> QED
    BY <2>1, <2>2, <2>3
<1>6. CASE Tick \/ UNCHANGED vars
  <2>1. UNCHANGED <<server, name, disk, job, count>>
    BY <1>6 DEF Tick, vars, fileVars
  <2> QED
    BY <1>1, <2>1 DEF RegisterInv, OwnVersions, OwnFile, Settled, Keeps, At
<1> QED
  BY <1>2, <1>3, <1>4, <1>5, <1>6 DEF Next

LEMMA RegisterInvInit == Init => RegisterInv
<1> SUFFICES ASSUME Init PROVE RegisterInv
  OBVIOUS
<1>1. name = NoInode /\ \A d \in Device : job[d].pc = "idle"
  BY DEF Init, IdleJob
<1>2. OwnVersions /\ \A d \in Device : OwnFile(d)
  BY <1>1 DEF OwnVersions, OwnFile, At
<1> QED
  BY <1>1, <1>2, FileInvInit DEF RegisterInv

(***************************************************************************)
(* The refinement.                                                         *)
(***************************************************************************)
\* What the read a flush works with has returned.
Got(d) == IF At(d, "read") THEN Content(job[d].fd) ELSE job[d].got

Returned == [d \in Device |-> Got(d)]

LEMMA ReturnedType ==
    FileInv => /\ Value \in Version \cup {None, Damaged}
               /\ Returned \in [Device -> Version \cup {None, Damaged, Unread}]
<1> SUFFICES ASSUME FileInv
             PROVE  /\ Value \in Version \cup {None, Damaged}
                    /\ Returned \in [Device -> Version \cup {None, Damaged, Unread}]
  OBVIOUS
<1>1. Value \in Version \cup {None, Damaged}
  BY ContentType DEF FileInv, TypeOK, Value
<1>2. ASSUME NEW d \in Device PROVE Got(d) \in Version \cup {None, Damaged, Unread}
  <2>1. CASE At(d, "read")
    <3>1. job[d].fd \in Inode \cup {NoInode} /\ TypeOK
      BY DEF FileInv, TypeOK
    <3> QED
      BY <2>1, <3>1, ContentType DEF Got
  <2>2. CASE ~At(d, "read")
    BY <2>2 DEF FileInv, TypeOK, Got
  <2> QED
    BY <2>1, <2>2
<1> QED
  BY <1>1, <1>2 DEF Returned

\* A settled inode holds its version, and goes on to.
LEMMA SettledContent ==
    ASSUME FileInv, NEW i, Settled(i)
    PROVE  Content(i) = i /\ i \in Version
<1>1. i \in Version /\ i # 0
  BY BoundAssumption DEF Settled, FileInv, TypeOK, Version
<1> QED
  BY <1>1 DEF Settled, Content, Parsed, NoInode, None

\* Files that are settled are read alike before and after a step.
LEMMA Steady ==
    ASSUME RegisterInv, RegisterInv', Keeps, NEW d \in Device, NEW j,
           job' = [job EXCEPT ![d] = j],
           j.pc # "idle" => ~At(d, "idle") /\ j.v = job[d].v,
           UNCHANGED server, count'.version = count.version,
           \A i \in Inode : disk'[i] = disk[i] \/ (~At(d, "idle") /\ i = job[d].v)
    PROVE  /\ UNCHANGED name => UNCHANGED Value
           /\ \A e \in Device : e # d => Got(e)' = Got(e)
           /\ job'[d] = j
<1>1. /\ \A i : Settled(i) => Settled(i)'
      /\ job'[d] = j
      /\ \A e \in Device : e # d => job'[e] = job[e]
      /\ FileInv /\ FileInv'
  BY OthersKept DEF RegisterInv, FileInv, TypeOK
<1>2. ASSUME NEW i, Settled(i) PROVE Content(i)' = Content(i)
  <2>1. Content(i) = i
    BY <1>1, <1>2, SettledContent
  <2>2. Settled(i)' /\ i \in Nat /\ i # 0
    BY <1>1, <1>2 DEF Settled
  <2>3. Content(i)' = i
    BY <2>2 DEF Settled, Content, Parsed, NoInode, None
  <2> QED
    BY <2>1, <2>3
<1>3. ASSUME UNCHANGED name PROVE UNCHANGED Value
  <2>1. CASE name = NoInode
    BY <1>3, <2>1 DEF Value, Content
  <2>2. CASE name # NoInode
    <3>1. Settled(name)
      BY <2>2 DEF RegisterInv
    <3> QED
      BY <1>2, <1>3, <3>1 DEF Value, Content
  <2> QED
    BY <2>1, <2>2
<1>4. ASSUME NEW e \in Device, e # d PROVE Got(e)' = Got(e)
  <2>1. job'[e] = job[e]
    BY <1>1, <1>4
  <2>2. CASE At(e, "read")
    <3>1. Settled(job[e].fd)
      BY <2>2 DEF RegisterInv, OwnFile
    <3>2. Content(job[e].fd)' = Content(job[e].fd)
      BY <1>2, <2>1, <3>1 DEF Content
    <3> QED
      BY <2>1, <2>2, <3>2 DEF Got, At
  <2>3. CASE ~At(e, "read")
    BY <2>1, <2>3 DEF Got, At
  <2> QED
    BY <2>2, <2>3
<1> QED
  BY <1>1, <1>3, <1>4

\* The register's steps, in the terms of the mapping.
LEMMA MapsToRead ==
    ASSUME NEW d \in Device, Keeps, UNCHANGED <<Value, Keeps>>,
           Returned' = [Returned EXCEPT ![d] = Value]
    PROVE  Register!Next
<1>1. Register!Read(d)
  BY DEF Register!Read, Keeps, Returned, Got
<1> QED
  BY <1>1 DEF Register!Next

\* The flush ends without a write.
LEMMA MapsToForget ==
    ASSUME NEW d \in Device, Keeps, UNCHANGED <<Value, Keeps>>,
           Returned' = [Returned EXCEPT ![d] = Unread]
    PROVE  Register!Next
<1>1. Register!Forget(d)
  BY DEF Register!Forget, Keeps, Returned, Got
<1> QED
  BY <1>1 DEF Register!Next

\* The flush ends with one.
LEMMA MapsToWrite ==
    ASSUME NEW d \in Device, NEW v \in Version, Keeps, UNCHANGED Keeps, Value' = v,
           Returned' = [Returned EXCEPT ![d] = Unread]
    PROVE  Register!Next
<1>1. Register!Write(d, v)
  BY DEF Register!Write, Keeps, Returned, Got
<1> QED
  BY <1>1 DEF Register!Next

\* A server that promises nothing.
LEMMA MapsToAnything ==
    ASSUME ~Keeps, UNCHANGED Keeps, Value' \in Version \cup {None, Damaged},
           Returned' \in [Device -> Version \cup {None, Damaged, Unread}]
    PROVE  Register!Next
<1>1. Register!Unreliable
  BY DEF Register!Unreliable, Register!Anything, Keeps, Returned, Got
<1> QED
  BY <1>1 DEF Register!Next

\* A step inside of a flush.
LEMMA MapsToNothing ==
    ASSUME UNCHANGED <<Value, Keeps, Returned>>
    PROVE  UNCHANGED Register!vars
BY DEF Register!vars, Keeps, Returned, Got

LEMMA RegisterStep == RegisterInv /\ RegisterInv' /\ [Next]_vars => [Register!Next]_(Register!vars)
<1> SUFFICES ASSUME RegisterInv, RegisterInv', [Next]_vars
             PROVE  Register!Next \/ UNCHANGED Register!vars
  OBVIOUS
<1> USE DEF fileVars, linkVars, watchVars
<1>1. FileInv /\ FileInv' /\ job \in [Device -> JobType] /\ count.version \in Nat
  BY BoundAssumption DEF RegisterInv, FileInv, TypeOK, JobType
<1>2. UNCHANGED server /\ UNCHANGED Keeps
  <2>1. UNCHANGED server
    BY DEF Next, vars, Flush, FlushStep, ReadRest, CreateTmp, WriteFirst, WriteRest, Rename, Unlink,
           RemoveTmp, Truncate, DiskFull, WatchStep, StartWatch, OpenFile, Emit, Arm, ReadEvent, Poll,
           WatcherDisconnected, ServerConnected, DisconnectServer, ConnectionLost, Redial,
           RedialFails, Tick
  <2> QED
    BY <2>1 DEF Keeps
<1>3. CASE ~Keeps
  <2>1. (/\ Value \in Version \cup {None, Damaged}
         /\ Returned \in [Device -> Version \cup {None, Damaged, Unread}])'
    BY <1>1, ReturnedType, PTL
  <2> QED
    BY <1>2, <1>3, <2>1, MapsToAnything
<1>4. ASSUME UNCHANGED <<name, disk, job>> PROVE UNCHANGED Register!vars
  <2>1. UNCHANGED <<Value, Returned>>
    BY <1>4 DEF Value, Content, Returned, Got, At
  <2> QED
    BY <1>2, <2>1, MapsToNothing
<1>5. ASSUME Keeps, NEW d \in Device, job' = [job EXCEPT ![d] = IdleJob],
             UNCHANGED <<name, disk>>, count'.version = count.version
      PROVE  Register!Next
  <2>1. IdleJob.pc = "idle" /\ IdleJob.got = Unread
    BY DEF IdleJob
  <2>2. /\ UNCHANGED Value /\ job'[d] = IdleJob
        /\ \A e \in Device : e # d => Got(e)' = Got(e)
    BY <1>2, <1>5, <2>1, Steady
  <2>3. Got(d)' = Unread
    BY <2>1, <2>2 DEF Got, At
  <2>4. Returned' = [Returned EXCEPT ![d] = Unread]
    BY <2>2, <2>3 DEF Returned
  <2> QED
    BY <1>2, <1>5, <2>2, <2>4, MapsToForget
<1>6. ASSUME Keeps, NEW d \in Device, Flush(d) PROVE Register!Next
  <2>1. /\ UNCHANGED <<name, disk>>
        /\ \A e \in Device : e # d => job'[e] = job[e]
        /\ \/ At(d, "create")' /\ job'[d].got = None /\ name = NoInode
           \/ At(d, "read")' /\ job'[d].fd = name
    BY <1>1, <1>6 DEF Flush, IdleJob, At
  <2>2. UNCHANGED Value /\ \A e \in Device : e # d => Got(e)' = Got(e)
    BY <2>1 DEF Value, Content, Got, At
  <2>3. Got(d)' = Value
    BY <2>1 DEF Value, Content, Got, At
  <2>4. Returned' = [Returned EXCEPT ![d] = Value]
    BY <2>2, <2>3 DEF Returned
  <2> QED
    BY <1>2, <1>6, <2>2, <2>4, MapsToRead
<1>7. ASSUME Keeps, NEW d \in Device, FlushStep(d) PROVE Register!Next \/ UNCHANGED Register!vars
  <2>1. ~At(d, "idle") /\ OwnFile(d) /\ job[d].v \in 1 .. count.version /\ UNCHANGED count
        /\ job[d].v \in Version /\ job[d].v \in Nat /\ job[d].v # 0
    <3>1. ~At(d, "idle") /\ UNCHANGED count
      BY <1>7 DEF FlushStep, ReadRest, CreateTmp, WriteFirst, WriteRest, Rename, Unlink, RemoveTmp,
                  Truncate, At
    <3>2. OwnFile(d) /\ job[d].v \in 1 .. count.version /\ count.version \in 0 .. MaxVersion
      BY <1>7, <3>1 DEF RegisterInv, FileInv, TypeOK, JobsOK
    <3> QED
      BY <3>1, <3>2, BoundAssumption DEF Version
  <2>2. CASE /\ At(d, "rename") /\ name' = job[d].v /\ UNCHANGED disk
             /\ job' = [job EXCEPT ![d] = IdleJob]
    <3>1. IdleJob.pc = "idle" /\ IdleJob.got = Unread
      BY DEF IdleJob
    <3>2. job'[d] = IdleJob /\ \A e \in Device : e # d => Got(e)' = Got(e)
      BY <1>2, <1>7, <2>1, <2>2, <3>1, Steady
    <3>3. Got(d)' = Unread
      BY <3>1, <3>2 DEF Got, At
    <3>4. Returned' = [Returned EXCEPT ![d] = Unread]
      BY <3>2, <3>3 DEF Returned
    <3>5. Value' = job[d].v
      BY <2>1, <2>2 DEF Value, Content, Parsed, OwnFile, At, NoInode, None
    <3> QED
      BY <1>2, <1>7, <2>1, <3>4, <3>5, MapsToWrite
  <2>3. CASE UNCHANGED name
    <3>1. ASSUME NEW j, job' = [job EXCEPT ![d] = j], j.v = job[d].v,
                 \A i \in Inode : disk'[i] = disk[i] \/ i = job[d].v,
                 j.pc # "read", j.got = Got(d)
          PROVE  UNCHANGED Register!vars
      <4>1. /\ UNCHANGED Value /\ job'[d] = j
            /\ \A e \in Device : e # d => Got(e)' = Got(e)
        BY <1>2, <1>7, <2>1, <2>3, <3>1, Steady
      <4>2. Got(d)' = Got(d)
        BY <3>1, <4>1 DEF Got, At
      <4>3. UNCHANGED Returned
        BY <4>1, <4>2 DEF Returned
      <4> QED
        BY <1>2, <4>1, <4>3, MapsToNothing
    <3>2. CASE ReadRest(d)
      <4> DEFINE j == [job[d] EXCEPT !.pc = "create", !.got = Parsed(job[d].first, disk[job[d].fd][2])]
      <4>1. job' = [job EXCEPT ![d] = j] /\ UNCHANGED disk /\ At(d, "read")
        BY <1>1, <3>2 DEF ReadRest
      <4>2. j.pc = "create" /\ j.v = job[d].v /\ j.got = Parsed(job[d].first, disk[job[d].fd][2])
        BY <1>1 DEF JobType
      <4> HIDE DEF j
      <4>3. j.got = Got(d)
        <5>1. /\ job[d].fd \in 1 .. count.version /\ job[d].fd # 0
              /\ job[d].first = disk[job[d].fd][1]
          <6>1. Settled(job[d].fd) /\ job[d].first = job[d].fd
            BY <2>1, <4>1, Zenon DEF OwnFile
          <6>2. job[d].fd \in 1 .. count.version /\ disk[job[d].fd][1] = job[d].fd
            BY <6>1, Zenon DEF Settled
          <6> QED
            BY <1>1, <6>1, <6>2
        <5> QED
          BY <4>1, <4>2, <5>1 DEF Got, Content, NoInode
      <4> QED
        BY <3>1, <4>1, <4>2, <4>3
    <3>3. CASE CreateTmp(d)
      <4> DEFINE j == [job[d] EXCEPT !.pc = "write1", !.fd = OpenTmp(job[d].v)]
      <4>1. job' = [job EXCEPT ![d] = j] /\ UNCHANGED disk /\ ~At(d, "read")
        BY <1>1, <3>3 DEF CreateTmp, At
      <4>2. j.pc = "write1" /\ j.v = job[d].v /\ j.got = Got(d)
        BY <1>1, <4>1 DEF JobType, Got
      <4> HIDE DEF j
      <4> QED
        BY <3>1, <4>1, <4>2
    <3>4. CASE WriteFirst(d) \/ WriteRest(d)
      <4> DEFINE pc == IF WriteFirst(d) THEN "write2" ELSE "rename"
                 j == [job[d] EXCEPT !.pc = pc]
      <4>1. /\ \E block \in {1, 2} : disk' = [disk EXCEPT ![job[d].fd][block] = job[d].v]
            /\ job[d].fd = job[d].v /\ ~At(d, "read")
        BY <2>1, <3>4 DEF WriteFirst, WriteRest, Put, OwnFile, At
      <4>2. Goto(d, pc)
        <5>1. job[d].fd = OpenTmp(job[d].v)
          BY <4>1 DEF OpenTmp, Tmp
        <5> QED
          BY <3>4, <5>1 DEF WriteFirst, WriteRest, At
      <4>3. job' = [job EXCEPT ![d] = j]
        BY <1>1, <4>2 DEF Goto
      <4>4. \A i \in Inode : disk'[i] = disk[i] \/ i = job[d].v
        BY <1>1, <4>1 DEF FileInv, TypeOK
      <4>5. j.pc # "read" /\ j.v = job[d].v /\ j.got = Got(d)
        BY <1>1, <4>1 DEF JobType, Got
      <4> HIDE DEF j
      <4> QED
        BY <3>1, <4>3, <4>4, <4>5
    <3>5. CASE Rename(d) \/ Unlink(d) \/ RemoveTmp(d) \/ Truncate(d)
      <4>1. Rename(d) /\ At(d, "rename") /\ Renames
        <5>1. job[d].pc \notin {"unlink", "rename again", "clean", "truncate"}
          BY <2>1 DEF OwnFile
        <5> QED
          BY <1>1, <1>7, <3>5, <5>1 DEF Rename, Unlink, RemoveTmp, Truncate, At, Keeps, Renames
      <4>2. name' = job[d].v /\ UNCHANGED disk /\ job' = [job EXCEPT ![d] = IdleJob]
        BY <2>1, <4>1 DEF Rename, Finish, OwnFile, At
      <4> QED
        BY <2>2, <4>1, <4>2
    <3> QED
      BY <1>7, <3>2, <3>3, <3>4, <3>5 DEF FlushStep
  <2> QED
    BY <1>1, <1>7, <2>2, <2>3, FlushStepOwns
<1>8. ASSUME Keeps, NEW d \in Device,
             \/ DiskFull(d) \/ WatchStep(d)
             \/ ServerConnected(d) \/ DisconnectServer(d) \/ ConnectionLost(d)
             \/ Redial(d) \/ RedialFails(d)
      PROVE  Register!Next \/ UNCHANGED Register!vars
  <2>1. /\ UNCHANGED <<server, name, disk>> /\ count'.version = count.version
        /\ UNCHANGED job \/ job' = [job EXCEPT ![d] = IdleJob]
    BY <1>1, <1>8, OtherStepsOwn
  <2> QED
    BY <1>4, <1>5, <1>8, <2>1
<1>9. CASE Tick \/ UNCHANGED vars
  BY <1>4, <1>9 DEF Tick, vars
<1> QED
  BY <1>3, <1>6, <1>7, <1>8, <1>9 DEF Next

\* The initial state: no file, and nobody has read.
LEMMA RegisterInit == Init => Register!Init
<1> SUFFICES ASSUME Init PROVE Register!Init
  OBVIOUS
<1>1. Value = None
  BY DEF Init, Value, Content
<1>2. \A d \in Device : Got(d) = Unread
  BY DEF Init, Got, At, IdleJob
<1>3. Returned = [d \in Device |-> Unread]
  BY <1>2 DEF Returned
<1>4. Keeps \in BOOLEAN
  BY ServersAssumption DEF Init, Keeps, ServerKind
<1> QED
  BY <1>1, <1>3, <1>4 DEF Register!Init, Returned, Got, Keeps

\* Reads, writes, renames, full disks and lost connections of any number of
\* devices, interleaved block by block, implement the register: where the
\* server replaces files atomically every read returns a whole version that
\* was there when it began, and a written version is only ever replaced.
THEOREM RegisterImplemented == Spec => ReplacedAtomically
<1>1. Init => RegisterInv /\ Register!Init
  BY RegisterInvInit, RegisterInit
<1>2. RegisterInv /\ [Next]_vars => RegisterInv'
  BY RegisterInvStep
<1>3. RegisterInv /\ RegisterInv' /\ [Next]_vars => [Register!Next]_(Register!vars)
  BY RegisterStep
<1> QED
  BY <1>1, <1>2, <1>3, PTL DEF Spec, ReplacedAtomically, Register!Spec
=============================================================================
