----------------------------- MODULE RemoteFile -----------------------------
(***************************************************************************)
(* shared.json on the server, step by step: how a flush reads and replaces *)
(* it (StateSyncer over SFTP, or over shell commands where SFTP is not     *)
(* available), and how the watcher script notices that it changed and      *)
(* sends it to the app (state_watcher.rs).  A file is an inode of two      *)
(* blocks, so that what is half written can be seen; a block holds the     *)
(* version written to it.                                                  *)
(*                                                                         *)
(* A syncer lives and dies with the connection it was made on.  A watcher  *)
(* takes the connection that the manager has when it starts.               *)
(*                                                                         *)
(* StateSync abstracts from all of this: one read, one write, one event.   *)
(***************************************************************************)
EXTENDS Naturals, FiniteSets

CONSTANTS
    Device,
    Servers,     \* the kinds of server a run looks at
    Watched,     \* bound: the devices whose watcher a run follows
    MaxVersion,  \* bound: flushes
    MaxBreak,    \* bound: lost connections, disconnects, full disks
    MaxConnect,  \* bound: connections made by the user
    MaxClock     \* bound: seconds

\* sftp: the subsystem can be opened; rename: what an SFTP rename does when the
\* target exists; room: its disk does not fill; inotify: inotifywait is installed.
ServerKind == [sftp : BOOLEAN, rename : {"overwrites", "refuses", "fails"}, room : BOOLEAN,
               inotify : BOOLEAN]

ASSUME ServersAssumption == Servers \subseteq ServerKind /\ Watched \subseteq Device

ASSUME BoundAssumption ==
    /\ MaxVersion \in Nat /\ MaxBreak \in Nat /\ MaxConnect \in Nat /\ MaxClock \in Nat \ {0}

VARIABLES
    server,   \* the kind of server this is
    name,     \* the inode ~/.shellkeep/shared.json names, NoInode if there is none
    disk,     \* the blocks of every inode
    mtime,    \* the second each inode was last written in
    conn,     \* the handle the connection manager has for the server
    syncer,   \* state_syncer: "none", or is its connection still there
    job,      \* the flush each device is at, and what its read returned
    watch,    \* the watcher stream and its script on the server
    seen,     \* the last version the watcher handed to the app
    owed,     \* history: the version the watcher has to report
    clock,
    count     \* counters: [version, breaks, connects]

fileVars == <<name, disk, mtime>>
linkVars == <<conn, syncer>>
watchVars == <<watch, seen, owed>>
vars == <<server, fileVars, linkVars, job, watchVars, clock, count>>

-----------------------------------------------------------------------------
Version == 1 .. MaxVersion
None    == 0
Damaged == MaxVersion + 1
Unread  == MaxVersion + 2
NoInode == 0

\* The temporary file of a version, and the file created for writing it in place.
Tmp(v)    == v
Direct(v) == MaxVersion + v
Inode     == 1 .. 2 * MaxVersion

Blank == [block \in {1, 2} |-> None]

\* What a reader makes of two blocks: a version, or JSON that does not parse.
Parsed(first, second) == IF first = second /\ first # None THEN first ELSE Damaged

Content(i) == IF i = NoInode THEN None ELSE Parsed(disk[i][1], disk[i][2])

Value == Content(name)

IdleJob  == [pc |-> "idle", v |-> None, fd |-> NoInode, first |-> None, got |-> Unread]
NoWatch  == [pc |-> "off", armed |-> FALSE, event |-> FALSE, fd |-> NoInode, first |-> None, last |-> 0]
NewWatch == [NoWatch EXCEPT !.pc = "start"]

JobPc   == {"idle", "read", "create", "write1", "write2", "rename", "unlink", "rename again",
            "clean", "truncate"}
Writing == {"write1", "write2"}
WatchPc == {"off", "start", "stuck", "open", "emit", "arm", "wait", "eof"}

Init ==
    /\ server \in Servers
    /\ name = NoInode
    /\ disk = [i \in Inode |-> Blank]
    /\ mtime = [i \in Inode |-> 0]
    /\ conn = [d \in Device |-> "none"]
    /\ syncer = [d \in Device |-> "none"]
    /\ job = [d \in Device |-> IdleJob]
    /\ watch = [d \in Device |-> NoWatch]
    /\ seen = [d \in Device |-> None]
    /\ owed = [d \in Device |-> None]
    /\ clock = 1
    /\ count = [version |-> 0, breaks |-> 0, connects |-> 0]

Count(field, bound) ==
    /\ count[field] < bound
    /\ count' = [count EXCEPT ![field] = @ + 1]

\* Stages of a flush.
At(d, pc) == job[d].pc = pc

Goto(d, pc) == job' = [job EXCEPT ![d].pc = pc]

Finish(d) == job' = [job EXCEPT ![d] = IdleJob]

-----------------------------------------------------------------------------
(* The watcher hears of a change *)

\* The modification time stat prints, 0 when there is no file.
Mtime == IF name = NoInode THEN 0 ELSE mtime[name]

\* Mutant: inotifywait listens to close_write only, which a rename does not cause.
HearsMissesMoves(d, how) == server.inotify /\ watch[d].armed /\ how = "close_write"

\* inotifywait -e moved_to,close_write, once it has set up its watch.
Hears(d, how) == server.inotify /\ watch[d].armed /\ how \in {"moved_to", "close_write"}

\* The script has yet to open the file: what is there by then is emitted.
ReadsNext(d) == watch[d].pc = "open"

\* A change the script can tell, with a file last written in the given second.  Two
\* it cannot, once it has opened the file: before inotifywait has its watch, any; when
\* it polls, one of the very second whose file it has reported last.
Listens(d, second) ==
    \/ ReadsNext(d)
    \/ server.inotify /\ watch[d].armed
    \/ ~server.inotify /\ watch[d].pc \in {"emit", "wait"} /\ watch[d].last # second

\* shared.json has come to hold v, last written in the given second.
Published(v, second, how) ==
    /\ watch' = [d \in Device |-> IF Hears(d, how) THEN [watch[d] EXCEPT !.event = TRUE] ELSE watch[d]]
    /\ owed' = [d \in Device |-> IF Listens(d, second) THEN v ELSE owed[d]]
    /\ UNCHANGED seen

-----------------------------------------------------------------------------
(* A flush: read shared.json, then write it *)

\* spawn of flush_state's task.  With a dead syncer both calls fail and nothing
\* changes: what was to be saved is dropped.
Flush(d) ==
    /\ At(d, "idle") /\ syncer[d] = "live"
    /\ Count("version", MaxVersion)
    /\ job' = [job EXCEPT ![d] =
           IF name = NoInode
           THEN [IdleJob EXCEPT !.pc = "create", !.v = count'.version, !.got = None]
           ELSE [IdleJob EXCEPT !.pc = "read", !.v = count'.version, !.fd = name,
                                !.first = disk[name][1]]]
    /\ UNCHANGED <<server, fileVars, linkVars, watchVars, clock>>

\* read_remote_file: whatever it returns, the flush goes on to write.
ReadRest(d) ==
    /\ At(d, "read")
    /\ job' = [job EXCEPT ![d].pc = "create",
                          ![d].got = Parsed(job[d].first, disk[job[d].fd][2])]
    /\ UNCHANGED <<server, fileVars, linkVars, watchVars, clock, count>>

\* Mutant: an existing file is opened instead of a temporary one.
OpenInPlace(v) == IF name = NoInode THEN Tmp(v) ELSE name

\* <path>.tmp.<random>, or <path>.tmp.$$ in a shell of its own: a name nobody has.
OpenTmp(v) == Tmp(v)

CreateTmp(d) ==
    /\ At(d, "create")
    /\ job' = [job EXCEPT ![d].pc = "write1", ![d].fd = OpenTmp(job[d].v)]
    /\ UNCHANGED <<server, fileVars, linkVars, watchVars, clock, count>>

Put(d, block) ==
    /\ disk' = [disk EXCEPT ![job[d].fd][block] = job[d].v]
    /\ mtime' = [mtime EXCEPT ![job[d].fd] = clock]

WriteFirst(d) ==
    /\ At(d, "write1")
    /\ Put(d, 1)
    /\ Goto(d, "write2")
    /\ UNCHANGED <<server, name, linkVars, watchVars, clock, count>>

\* A temporary file is complete and renamed next, a file written in place is
\* complete and closed.
WriteRest(d) ==
    LET fd == job[d].fd IN
    /\ At(d, "write2")
    /\ Put(d, 2)
    /\ \/ /\ fd = OpenTmp(job[d].v)
          /\ Goto(d, "rename")
          /\ UNCHANGED watchVars
       \/ /\ fd # OpenTmp(job[d].v)
          /\ Finish(d)
          /\ IF name = fd THEN Published(Parsed(disk[fd][1], job[d].v), clock, "close_write")
             ELSE UNCHANGED watchVars
    /\ UNCHANGED <<server, name, linkVars, clock, count>>

\* mv replaces the target; an SFTP rename may refuse to, or fail always.
Renames == ~server.sftp \/ server.rename = "overwrites" \/ (server.rename = "refuses" /\ name = NoInode)

\* The second attempt that fails is followed by a write in place.
Rename(d) ==
    /\ job[d].pc \in {"rename", "rename again"}
    /\ \/ /\ Renames
          /\ name' = job[d].fd
          /\ Published(Content(job[d].fd), mtime[job[d].fd], "moved_to")
          /\ Finish(d)
       \/ /\ ~Renames
          /\ Goto(d, IF At(d, "rename") THEN "unlink" ELSE "clean")
          /\ UNCHANGED <<name, watchVars>>
    /\ UNCHANGED <<server, disk, mtime, linkVars, clock, count>>

Unlink(d) ==
    /\ At(d, "unlink")
    /\ name' = NoInode
    /\ Goto(d, "rename again")
    /\ UNCHANGED <<server, disk, mtime, linkVars, watchVars, clock, count>>

RemoveTmp(d) ==
    /\ At(d, "clean")
    /\ Goto(d, "truncate")
    /\ UNCHANGED <<server, fileVars, linkVars, watchVars, clock, count>>

\* create(path): the file is there, and empty.
Truncate(d) ==
    LET fd == IF name = NoInode THEN Direct(job[d].v) ELSE name IN
    /\ At(d, "truncate")
    /\ name' = fd
    /\ disk' = [disk EXCEPT ![fd] = Blank]
    /\ mtime' = [mtime EXCEPT ![fd] = clock]
    /\ job' = [job EXCEPT ![d].pc = "write1", ![d].fd = fd]
    /\ UNCHANGED <<server, linkVars, watchVars, clock, count>>

\* A write finds the disk full.  SFTP reports it and the flush ends; in the shell
\* script mv follows whatever cat has done.
DiskFull(d) ==
    /\ ~server.room /\ job[d].pc \in Writing
    /\ Count("breaks", MaxBreak)
    /\ IF server.sftp THEN Finish(d) ELSE Goto(d, "rename")
    /\ UNCHANGED <<server, fileVars, linkVars, watchVars, clock>>

-----------------------------------------------------------------------------
(* The watcher *)

WatchAt(d, pc) == watch[d].pc = pc

WatchGoes(d, pc) == watch' = [watch EXCEPT ![d].pc = pc]

\* The stream takes the cached handle: without one it waits for ever, with a dead
\* one it ends, is reported as disconnected and started again.
StartWatch(d) ==
    /\ d \in Watched
    /\ WatchAt(d, "start") /\ conn[d] # "dead"
    /\ WatchGoes(d, IF conn[d] = "none" THEN "stuck" ELSE "open")
    /\ owed' = [owed EXCEPT ![d] = IF conn[d] = "none" THEN None ELSE Value]
    /\ UNCHANGED <<server, fileVars, linkVars, job, seen, clock, count>>

\* emit: cat opens the file and reads it.
OpenFile(d) ==
    /\ WatchAt(d, "open")
    /\ watch' = [watch EXCEPT ![d].pc = "emit", ![d].fd = name,
                              ![d].first = IF name = NoInode THEN None ELSE disk[name][1]]
    /\ UNCHANGED <<server, fileVars, linkVars, job, seen, owed, clock, count>>

\* What is between STATE_BEGIN and STATE_END: nothing, a version, or text that the
\* stream cannot parse and drops.
Emitted(d) ==
    IF watch[d].fd = NoInode THEN None
    ELSE Parsed(watch[d].first, disk[watch[d].fd][2])

Emit(d) ==
    /\ WatchAt(d, "emit")
    /\ seen' = [seen EXCEPT ![d] = IF Emitted(d) \in Version THEN Emitted(d) ELSE @]
    /\ WatchGoes(d, IF server.inotify /\ ~watch[d].armed THEN "arm" ELSE "wait")
    /\ UNCHANGED <<server, fileVars, linkVars, job, owed, clock, count>>

\* inotifywait sets its watch up after the first emit: a change before that is
\* not reported.
Arm(d) ==
    /\ WatchAt(d, "arm")
    /\ watch' = [watch EXCEPT ![d].pc = "wait", ![d].armed = TRUE]
    /\ UNCHANGED <<server, fileVars, linkVars, job, seen, owed, clock, count>>

\* The next line of inotifywait that names shared.json.
ReadEvent(d) ==
    /\ WatchAt(d, "wait") /\ watch[d].event
    /\ watch' = [watch EXCEPT ![d].pc = "open", ![d].event = FALSE]
    /\ UNCHANGED <<server, fileVars, linkVars, job, seen, owed, clock, count>>

\* Every 2 seconds: has the modification time changed?
Poll(d) ==
    /\ ~server.inotify /\ WatchAt(d, "wait") /\ watch[d].last # Mtime
    /\ watch' = [watch EXCEPT ![d].pc = "open", ![d].last = Mtime]
    /\ UNCHANGED <<server, fileVars, linkVars, job, seen, owed, clock, count>>

\* WatcherDisconnected: the next generation of the stream starts.
WatcherDisconnected(d) ==
    /\ WatchAt(d, "eof")
    /\ watch' = [watch EXCEPT ![d] = NewWatch]
    /\ UNCHANGED <<server, fileVars, linkVars, job, seen, owed, clock, count>>

-----------------------------------------------------------------------------
(* Connections *)

\* connect_server and ServerConnected: a syncer on a live handle, and a new
\* generation of the watcher.
ServerConnected(d) ==
    /\ syncer[d] = "none"
    /\ Count("connects", MaxConnect)
    /\ conn' = [conn EXCEPT ![d] = "live"]
    /\ syncer' = [syncer EXCEPT ![d] = "live"]
    /\ watch' = [watch EXCEPT ![d] = NewWatch]
    /\ owed' = [owed EXCEPT ![d] = None]
    /\ UNCHANGED <<server, fileVars, job, seen, clock>>

\* DisconnectServer: syncer and subscription go, the handle stays cached.
DisconnectServer(d) ==
    /\ syncer[d] # "none"
    /\ Count("breaks", MaxBreak)
    /\ syncer' = [syncer EXCEPT ![d] = "none"]
    /\ watch' = [watch EXCEPT ![d] = NoWatch]
    /\ owed' = [owed EXCEPT ![d] = None]
    /\ UNCHANGED <<server, fileVars, conn, job, seen, clock>>

Running == {"open", "emit", "arm", "wait"}

\* Mutant: the calls of a flush survive the connection they are made on.
JobEndsNot(d) == UNCHANGED job

\* An SFTP call fails and the task ends; a script that has been sent may run on.
JobEnds(d) ==
    \/ Finish(d)
    \/ ~server.sftp /\ job[d].pc \in Writing \cup {"rename"} /\ UNCHANGED job

ConnectionLost(d) ==
    /\ conn[d] = "live"
    /\ Count("breaks", MaxBreak)
    /\ conn' = [conn EXCEPT ![d] = "dead"]
    /\ syncer' = [syncer EXCEPT ![d] = IF @ = "none" THEN @ ELSE "dead"]
    /\ JobEnds(d)
    /\ watch' = [watch EXCEPT ![d] =
           IF @.pc \in Running THEN [NoWatch EXCEPT !.pc = "eof"] ELSE @]
    /\ owed' = [owed EXCEPT ![d] = None]
    /\ UNCHANGED <<server, fileVars, seen, clock>>

\* A tab that reconnects evicts the dead handle and dials; the dial may fail.
\* The syncer is not made anew.
Redial(d) ==
    /\ conn[d] # "live" /\ syncer[d] # "none"
    /\ conn' = [conn EXCEPT ![d] = "live"]
    /\ UNCHANGED <<server, fileVars, syncer, job, watchVars, clock, count>>

RedialFails(d) ==
    /\ conn[d] = "dead"
    /\ conn' = [conn EXCEPT ![d] = "none"]
    /\ UNCHANGED <<server, fileVars, syncer, job, watchVars, clock, count>>

Tick ==
    /\ clock < MaxClock
    /\ clock' = clock + 1
    /\ UNCHANGED <<server, fileVars, linkVars, job, watchVars, count>>

-----------------------------------------------------------------------------
FlushStep(d) ==
    \/ ReadRest(d) \/ CreateTmp(d) \/ WriteFirst(d) \/ WriteRest(d)
    \/ Rename(d) \/ Unlink(d) \/ RemoveTmp(d) \/ Truncate(d)

WatchStep(d) ==
    \/ StartWatch(d) \/ OpenFile(d) \/ Emit(d) \/ Arm(d) \/ ReadEvent(d) \/ Poll(d)
    \/ WatcherDisconnected(d)

Next ==
    \/ \E d \in Device :
         \/ Flush(d) \/ FlushStep(d) \/ DiskFull(d)
         \/ WatchStep(d)
         \/ ServerConnected(d) \/ DisconnectServer(d) \/ ConnectionLost(d)
         \/ Redial(d) \/ RedialFails(d)
    \/ Tick

Spec == Init /\ [][Next]_vars

\* The server and the streams get on with their work; a tab that reconnects tries
\* until it has a connection.
FairSpec ==
    /\ Spec
    /\ \A d \in Device : WF_vars(FlushStep(d)) /\ WF_vars(WatchStep(d)) /\ WF_vars(Redial(d))

-----------------------------------------------------------------------------
(* Properties *)

\* Every variable has its type; only a script outlives the connection it runs on;
\* and a watcher is there exactly while the app has a syncer.
TypeOK ==
    /\ server \in Servers
    /\ name \in Inode \cup {NoInode}
    /\ disk \in [Inode -> [{1, 2} -> Version \cup {None}]]
    /\ mtime \in [Inode -> 0 .. MaxClock]
    /\ conn \in [Device -> {"none", "live", "dead"}]
    /\ syncer \in [Device -> {"none", "live", "dead"}]
    /\ job \in [Device -> [pc : JobPc, v : Version \cup {None}, fd : Inode \cup {NoInode},
                           first : Version \cup {None},
                           got : Version \cup {None, Damaged, Unread}]]
    /\ watch \in [Device -> [pc : WatchPc, armed : BOOLEAN, event : BOOLEAN,
                             fd : Inode \cup {NoInode}, first : Version \cup {None},
                             last : 0 .. MaxClock]]
    /\ seen \in [Device -> Version \cup {None}]
    /\ owed \in [Device -> Version \cup {None, Damaged}]
    /\ clock \in 1 .. MaxClock
    /\ count \in [version : 0 .. MaxVersion, breaks : 0 .. MaxBreak, connects : 0 .. MaxConnect]
    /\ \A d \in Device :
         /\ syncer[d] = "dead" /\ server.sftp => At(d, "idle")
         /\ WatchAt(d, "off") <=> syncer[d] = "none"

\* On a server that replaces files atomically, over SFTP or by mv on a disk with
\* room, shared.json is a register for any number of devices flushing at once and
\* losing their connections: every read returns a whole version that was there
\* when it began, and a version once written is replaced, never damaged or lost.
Register == INSTANCE AtomicFile WITH
    value <- Value,
    got   <- [d \in Device |-> IF At(d, "read") THEN Content(job[d].fd) ELSE job[d].got],
    keeps <- IF server.sftp THEN server.rename = "overwrites" ELSE server.room

ReplacedAtomically == Register!Spec

\* A version that is there when a watcher starts, or is written later in a way it can
\* tell (Listens), is handed to the app, unless another one replaces it or the
\* connection goes: no order of writing, emitting and polling loses it.  Of the
\* versions the watcher cannot tell nothing is said here: WatchersMissNothing.
WatchersCatchUp ==
    \A d \in Watched, v \in Version :
        (owed[d] = v /\ Value = v) ~> (seen[d] = v \/ Value # v \/ owed[d] # v)

\* state_watcher.rs:48 "On each change: STATE_BEGIN\\n<json>\\nSTATE_END": a version
\* that stays is handed on by every watcher that runs, whenever it was written.
WatchersMissNothing ==
    \A d \in Watched, v \in Version :
        (watch[d].pc \in Running /\ Value = v) ~>
            (seen[d] = v \/ Value # v \/ watch[d].pc \notin Running)

\* update.rs:210 "state watcher disconnected, will retry": a watcher whose
\* connection was lost runs again once there is a connection.
WatchersRetry ==
    \A d \in Watched :
        (conn[d] = "live" /\ syncer[d] # "none") ~>
            (watch[d].pc \in Running \/ conn[d] # "live" \/ syncer[d] = "none")
=============================================================================
