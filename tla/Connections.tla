---------------------------- MODULE Connections ----------------------------
(***************************************************************************)
(* How shellkeep gets and keeps an SSH connection: the connection manager  *)
(* that every part of the program shares (ssh/manager.rs), the handshake   *)
(* with its host key check and its authentication (ssh/connection.rs,      *)
(* ssh/known_hosts.rs), and the tasks that use them: the control-plane     *)
(* connect of a server, the connection of a tab, the periodic commands     *)
(* (app/session.rs, app/update.rs).                                        *)
(*                                                                         *)
(* A task is an async function between two awaits.  It holds the mutex of  *)
(* the manager while it dials, so every other task waits for the network.  *)
(***************************************************************************)
EXTENDS Naturals, Sequences, FiniteSets, SequencesExt

CONSTANTS
    Key,           \* connection keys: what the user wrote as host and user
    MaxHostKey,    \* bound: host keys the machine has, one after the other
    Task,          \* concurrent async tasks
    StrictMode,    \* StrictHostKeyChecking of ~/.ssh/config, per host
    Offered,       \* the private keys authenticate tries, in its order
    Accepts,       \* what the machine may let in: sets of methods
    MaxAuthTries,  \* failures after which the machine hangs up
    MaxSessions,   \* channels the machine allows on one connection
    MaxConn,       \* bound: connections made in one behaviour
    NoKey, NoTask

ASSUME KeyAssumption ==
    /\ Key \subseteq [host : DOMAIN StrictMode, user : {k.user : k \in Key}]
    /\ \A h \in DOMAIN StrictMode :
         StrictMode[h] \in {"yes", "no", "accept-new", "ask"}
    /\ NoKey \notin Key

ASSUME OfferedAssumption ==
    Offered \in Seq([agent : BOOLEAN, dsa : BOOLEAN, cert : BOOLEAN, rsa : BOOLEAN,
                     loads : BOOLEAN])

ASSUME BoundAssumption ==
    /\ MaxHostKey \in Nat \ {0}
    /\ MaxAuthTries \in Nat /\ MaxSessions \in Nat /\ MaxConn \in Nat
    /\ NoTask \notin Task

VARIABLES
    handles,     \* ConnectionManager.handles: key -> connection, 0 if none
    names,       \* fingerprint_to_key: the key known for a user and host key
    connections, \* every connection made: its key, host key, liveness, channels
    knownHosts,  \* the lines of ~/.ssh/known_hosts
    machine,     \* the machine behind every host: host key, accepted methods
    task,        \* each task's progress
    mutex,       \* the task holding the manager's mutex
    current      \* current_conn: the key of the server the user is on

vars == <<handles, names, connections, knownHosts, machine, task, mutex, current>>

-----------------------------------------------------------------------------
(* Host keys: known_hosts.rs, check_server_key *)

\* A line is skipped when its host names are hashed.
Lines(k) == {i \in DOMAIN knownHosts : ~knownHosts[i].hashed /\ k.host \in knownHosts[i].hosts}

\* Mutant: a host is unknown as long as no line of it has this very key.
HostKeyStatusByKey(k, hostKey) ==
    IF \E i \in Lines(k) : knownHosts[i].key = hostKey THEN "known" ELSE "unknown"

HostKeyStatus(k, hostKey) ==
    IF Lines(k) = {} THEN "unknown"
    ELSE IF \E i \in Lines(k) : knownHosts[i].key = hostKey THEN "known"
    ELSE "changed"

KeyAccepted(k, hostKey) ==
    \/ HostKeyStatus(k, hostKey) = "known"
    \/ HostKeyStatus(k, hostKey) = "unknown" /\ StrictMode[k.host] # "yes"

\* An accepted unknown key is appended in every mode ("ask" too: no dialog is
\* ever opened).
AddHostKey(k, hostKey) ==
    knownHosts' = IF HostKeyStatus(k, hostKey) # "unknown" THEN knownHosts
                  ELSE Append(knownHosts,
                           [hosts |-> {k.host}, key |-> hostKey, hashed |-> FALSE])

-----------------------------------------------------------------------------
(* Authentication: the methods in the order they are tried *)

Method(how, which) == [how |-> how, which |-> which]

\* One key: nothing for a key that does not load or is DSA; else its certificate
\* if there is one, then the key, an RSA key file under three algorithms.
KeyTries(i) ==
    LET key == Offered[i] IN
    IF ~key.loads \/ key.dsa THEN <<>>
    ELSE (IF key.cert THEN <<Method("certificate", i)>> ELSE <<>>)
         \o [n \in 1..(IF key.rsa /\ ~key.agent THEN 3 ELSE 1) |-> Method("key", i)]

KeysTried == FlattenSeq([i \in DOMAIN Offered |-> KeyTries(i)])

Tries(password) ==
    KeysTried \o (IF password = "none" THEN <<>> ELSE <<Method("password", password)>>)
    \o <<Method("keyboard", 0)>>

Authenticated(password) ==
    LET tries == Tries(password) IN
    \E i \in DOMAIN tries : i <= MaxAuthTries /\ tries[i] \in machine.accepts

-----------------------------------------------------------------------------
(* The manager *)

Conn == 1..MaxConn

ServerKey == 1..MaxHostKey

NoConnection == [key |-> NoKey, hostKey |-> NoKey, live |-> FALSE, channels |-> 0]

Idle == [pc |-> "idle", key |-> NoKey, tab |-> FALSE, password |-> "none",
         conn |-> 0, then |-> "none", error |-> "none"]

Users == {k.user : k \in Key}

Init ==
    /\ handles = [k \in Key |-> 0]
    /\ names = [n \in Users \X ServerKey |-> NoKey]
    /\ connections = [c \in Conn |-> NoConnection]
    /\ machine \in [key : {1}, accepts : Accepts]
    /\ \E hashed \in BOOLEAN :
         knownHosts = <<[hosts |-> {k.host : k \in Key}, key |-> machine.key,
                         hashed |-> hashed]>>
    /\ task = [t \in Task |-> Idle]
    /\ mutex = NoTask
    /\ current = NoKey

Goto(t, pc) == task' = [task EXCEPT ![t].pc = pc]

\* The password goes with the first dials only; the later get_or_connect of a
\* tab or of the state syncer passes none.
DialPassword(t) == IF task[t].then = "finish" THEN "none" ELSE task[t].password

\* An error that says what the user can do: the password the failed dial used
\* stays with it.
Fail(t, error) ==
    task' = [task EXCEPT ![t] = [Idle EXCEPT
        !.pc = "failed", !.key = task[t].key, !.tab = task[t].tab, !.error = error,
        !.password = IF error = "auth" THEN DialPassword(t) ELSE "none"]]

\* A task that has ended, with success or with any other error, is gone.
Done(t) == task' = [task EXCEPT ![t] = Idle]

\* Mutant: the fingerprint entries of every key are dropped.
RemoveHandleClears(k) ==
    /\ handles' = [handles EXCEPT ![k] = 0]
    /\ names' = [n \in DOMAIN names |-> NoKey]

\* remove: the handle and every fingerprint entry that names the key.
RemoveHandle(k) ==
    /\ handles' = [handles EXCEPT ![k] = 0]
    /\ names' = [n \in DOMAIN names |-> IF names[n] = k THEN NoKey ELSE names[n]]

\* The entry of another key, still connected, for the same user and host key.
DuplicateOf(k, hostKey) ==
    LET other == names[<<k.user, hostKey>>] IN
    {other} \cap {o \in Key \ {k} : handles[o] # 0}

\* get_or_connect: a cached handle is returned as it is, dead or alive;
\* without one the task dials and keeps the mutex until the dial ends.
GetOrConnect(t, next) ==
    /\ mutex = NoTask
    /\ LET cached == handles[task[t].key] IN
       IF cached # 0
       THEN /\ task' = [task EXCEPT ![t].conn = cached, ![t].pc = next]
            /\ UNCHANGED mutex
       ELSE /\ task' = [task EXCEPT ![t].then = next, ![t].pc = "dial"]
            /\ mutex' = t
    /\ UNCHANGED <<handles, names, connections, knownHosts, machine, current>>

DialFails(t) ==
    /\ task[t].pc = "dial"
    /\ mutex' = NoTask
    /\ Done(t)
    /\ UNCHANGED <<handles, names, connections, knownHosts, machine, current>>

HostKeyRefused(t) ==
    /\ task[t].pc = "dial"
    /\ ~KeyAccepted(task[t].key, machine.key)
    /\ mutex' = NoTask
    /\ Done(t)
    /\ UNCHANGED <<handles, names, connections, knownHosts, machine, current>>

NotAuthenticated(t) ==
    /\ task[t].pc = "dial"
    /\ KeyAccepted(task[t].key, machine.key)
    /\ AddHostKey(task[t].key, machine.key)
    /\ ~Authenticated(DialPassword(t))
    /\ mutex' = NoTask
    /\ Fail(t, "auth")
    /\ UNCHANGED <<handles, names, connections, machine, current>>

DuplicateServer(t) ==
    /\ task[t].pc = "dial"
    /\ KeyAccepted(task[t].key, machine.key)
    /\ AddHostKey(task[t].key, machine.key)
    /\ Authenticated(DialPassword(t))
    /\ DuplicateOf(task[t].key, machine.key) # {}
    /\ mutex' = NoTask
    /\ Fail(t, "duplicate")
    /\ UNCHANGED <<handles, names, connections, machine, current>>

Connected(t) ==
    LET k == task[t].key IN
    /\ task[t].pc = "dial"
    /\ KeyAccepted(k, machine.key)
    /\ AddHostKey(k, machine.key)
    /\ Authenticated(DialPassword(t))
    /\ DuplicateOf(k, machine.key) = {}
    /\ \E c \in Conn :
         /\ connections[c].key = NoKey
         /\ \A earlier \in 1..(c - 1) : connections[earlier].key # NoKey
         /\ connections' = [connections EXCEPT ![c] =
                [key |-> k, hostKey |-> machine.key, live |-> TRUE, channels |-> 0]]
         /\ names' = [names EXCEPT ![<<k.user, machine.key>>] = k]
         /\ handles' = [handles EXCEPT ![k] = c]
         /\ task' = [task EXCEPT ![t].conn = c, ![t].pc = task[t].then, ![t].then = "none"]
    /\ mutex' = NoTask
    /\ UNCHANGED <<machine, current>>

-----------------------------------------------------------------------------
(* The tasks *)

Started(k, pc, tab, password) ==
    [Idle EXCEPT !.pc = pc, !.key = k, !.tab = tab, !.password = password]

\* The user connects to a server: launch_server_connect.
ConnectServer(t, k) ==
    /\ task[t] = Idle
    /\ task' = [task EXCEPT ![t] = Started(k, "get", FALSE, "none")]
    /\ current' = k
    /\ UNCHANGED <<handles, names, connections, knownHosts, machine, mutex>>

\* A tab connects or reconnects: start_ssh_connection.
ConnectTab(t) ==
    /\ task[t] = Idle
    /\ current # NoKey
    /\ task' = [task EXCEPT ![t] = Started(current, "get", TRUE, "none")]
    /\ UNCHANGED <<handles, names, connections, knownHosts, machine, mutex, current>>

\* A closing tab kills its session, on the cached connection or a new one.
KillSession(t) ==
    /\ task[t] = Idle
    /\ current # NoKey
    /\ task' = [task EXCEPT ![t] = Started(current, "again", FALSE, "none")]
    /\ UNCHANGED <<handles, names, connections, knownHosts, machine, mutex, current>>

\* The user answers the password prompt of a tab that could not authenticate:
\* the cached connection is removed first, then the tab connects again.
PasswordSubmit(t) ==
    /\ task[t].pc = "failed" /\ task[t].error = "auth" /\ task[t].tab
    /\ task' = [task EXCEPT ![t] = Started(task[t].key, "remove", TRUE, "right")]
    /\ UNCHANGED <<handles, names, connections, knownHosts, machine, mutex, current>>

PasswordRemove(t) ==
    /\ task[t].pc = "remove"
    /\ mutex = NoTask
    /\ RemoveHandle(task[t].key)
    /\ Goto(t, "get")
    /\ UNCHANGED <<connections, knownHosts, machine, mutex, current>>

Get(t) == task[t].pc = "get" /\ GetOrConnect(t, "check")

\* exec_command opens a channel: the connection must live and have one left.
CanExec(c) == connections[c].live /\ connections[c].channels < MaxSessions

\* The health check of connect_server, outside the mutex.
HealthCheck(t) ==
    /\ task[t].pc = "check"
    /\ Goto(t, IF CanExec(task[t].conn) THEN "again" ELSE "evict")
    /\ UNCHANGED <<handles, names, connections, knownHosts, machine, mutex, current>>

\* A stale handle: remove and connect again, under one hold of the mutex.
Evict(t) ==
    /\ task[t].pc = "evict"
    /\ mutex = NoTask
    /\ RemoveHandle(task[t].key)
    /\ mutex' = t
    /\ task' = [task EXCEPT ![t].then = "again", ![t].pc = "dial"]
    /\ UNCHANGED <<connections, knownHosts, machine, current>>

\* The second get_or_connect: of open_tab_channel, of the state syncer, or the
\* only one of a kill.
GetAgain(t) == task[t].pc = "again" /\ GetOrConnect(t, "finish")

\* Mutant: the channel is counted whether or not the machine opened it.
FinishUnchecked(t) ==
    /\ task[t].pc = "finish"
    /\ connections' = IF task[t].tab
                      THEN [connections EXCEPT ![task[t].conn].channels = @ + 1]
                      ELSE connections
    /\ Done(t)
    /\ UNCHANGED <<handles, names, knownHosts, machine, mutex, current>>

\* The commands on the connection: those of connect_server (tmux version, server
\* time, device registry) and those of the tab, the syncer or the kill. The first
\* that fails ends the task. A tab keeps its channel, the others close theirs.
Finish(t) ==
    /\ task[t].pc = "finish"
    /\ IF CanExec(task[t].conn)
          /\ task[t].tab
       THEN connections' = [connections EXCEPT ![task[t].conn].channels = @ + 1]
       ELSE UNCHANGED connections
    /\ Done(t)
    /\ UNCHANGED <<handles, names, knownHosts, machine, mutex, current>>

\* Heartbeat, latency, leaving a workspace: one command on the cached handle of
\* the current server, the mutex held until it has answered.
StartBeat(t) ==
    /\ task[t] = Idle
    /\ current # NoKey
    /\ mutex = NoTask
    /\ handles[current] # 0
    /\ task' = [task EXCEPT ![t] = Started(current, "beat", FALSE, "none")]
    /\ mutex' = t
    /\ UNCHANGED <<handles, names, connections, knownHosts, machine, current>>

BeatEnds(t) ==
    /\ task[t].pc = "beat"
    /\ Done(t)
    /\ mutex' = NoTask
    /\ UNCHANGED <<handles, names, connections, knownHosts, machine, current>>

\* The error has been shown; the user gives up the attempt.
Forget(t) ==
    /\ task[t].pc = "failed"
    /\ Done(t)
    /\ UNCHANGED <<handles, names, connections, knownHosts, machine, mutex, current>>

\* DisconnectServer closes the windows and with them the tabs and their channels
\* (a connection under way goes on for no tab); it removes nothing from the manager.
Disconnect ==
    /\ current # NoKey
    /\ current' = NoKey
    /\ connections' = [c \in Conn |-> [connections[c] EXCEPT !.channels = 0]]
    /\ task' = [t \in Task |-> [task[t] EXCEPT !.tab = FALSE]]
    /\ UNCHANGED <<handles, names, knownHosts, machine, mutex>>

-----------------------------------------------------------------------------
(* The world *)

TabCloses(c) ==
    /\ connections[c].channels > 0
    /\ connections' = [connections EXCEPT ![c].channels = @ - 1]
    /\ UNCHANGED <<handles, names, knownHosts, machine, task, mutex, current>>

ConnectionDies(c) ==
    /\ connections[c].live
    /\ connections' = [connections EXCEPT ![c].live = FALSE, ![c].channels = 0]
    /\ UNCHANGED <<handles, names, knownHosts, machine, task, mutex, current>>

\* The machine is installed anew: another host key, no connection survives.
NewHostKey ==
    /\ machine.key < MaxHostKey
    /\ machine' = [machine EXCEPT !.key = @ + 1]
    /\ connections' = [c \in Conn |->
           [connections[c] EXCEPT !.live = FALSE, !.channels = 0]]
    /\ UNCHANGED <<handles, names, knownHosts, task, mutex, current>>

DialEnds(t) ==
    \/ DialFails(t) \/ HostKeyRefused(t) \/ NotAuthenticated(t)
    \/ DuplicateServer(t) \/ Connected(t)

Proceed(t) ==
    \/ Get(t) \/ HealthCheck(t) \/ Evict(t) \/ GetAgain(t)
    \/ Finish(t) \/ PasswordRemove(t) \/ BeatEnds(t) \/ DialEnds(t)

Next ==
    \/ \E t \in Task :
         \/ Proceed(t)
         \/ \E k \in Key : ConnectServer(t, k)
         \/ ConnectTab(t) \/ KillSession(t)
         \/ PasswordSubmit(t)
         \/ StartBeat(t)
         \/ Forget(t)
    \/ Disconnect
    \/ \E c \in Conn : TabCloses(c) \/ ConnectionDies(c)
    \/ NewHostKey

Spec == Init /\ [][Next]_vars

-----------------------------------------------------------------------------
(* Properties *)

Pcs == {"idle", "get", "dial", "check", "evict", "again", "finish",
        "remove", "beat", "failed"}

\* Every variable has its type: the shapes of the manager's maps, of
\* known_hosts lines and of the tasks.
TypeOK ==
    /\ handles \in [Key -> 0..MaxConn]
    /\ names \in [Users \X ServerKey -> Key \cup {NoKey}]
    /\ connections \in [Conn -> [key : Key \cup {NoKey}, hostKey : ServerKey \cup {NoKey},
                                 live : BOOLEAN, channels : 0..MaxSessions]]
    /\ knownHosts \in Seq([hosts : SUBSET {k.host : k \in Key}, key : ServerKey,
                           hashed : BOOLEAN])
    /\ machine.key \in ServerKey
    /\ task \in [Task -> [pc : Pcs, key : Key \cup {NoKey},
                          tab : BOOLEAN,
                          password : {"none", "right"}, conn : 0..MaxConn,
                          then : {"none", "check", "again", "finish"},
                          error : {"none", "auth", "duplicate"}]]
    /\ mutex \in Task \cup {NoTask}
    /\ current \in Key \cup {NoKey}

\* "Duplicate server detection: same user + same host key = same server": no two
\* entries the user wrote differently are connected to one machine as one user.
OneEntryPerServer ==
    \A k, other \in Key :
        /\ k # other /\ k.user = other.user
        /\ handles[k] # 0 /\ handles[other] # 0
        => connections[handles[k]].hostKey # connections[handles[other]].hostKey

\* The lines shellkeep adds never contradict one another or the user's: a host
\* has one key in the plain lines of known_hosts, so a changed key is noticed
\* however many tasks and names reach the host.
PinsAgree ==
    \A i, j \in DOMAIN knownHosts :
        /\ ~knownHosts[i].hashed /\ ~knownHosts[j].hashed
        /\ knownHosts[i].hosts \cap knownHosts[j].hosts # {}
        => knownHosts[i].key = knownHosts[j].key

\* manager.rs:31 "Multiple tabs to the same server share one TCP connection": a
\* key never has two living connections.
OneConnection ==
    \A c, d \in Conn :
        /\ connections[c].live /\ connections[d].live
        /\ connections[c].key = connections[d].key
        => c = d

\* A server is refused as a duplicate while the other entry is in use ("Use the
\* existing entry or disconnect it first", the text the user is shown).
DuplicatesAreInUse ==
    \A t \in Task :
        task[t].pc = "failed" /\ task[t].error = "duplicate" =>
            \E o \in Key \ {task[t].key} :
                /\ handles[o] # 0
                /\ \/ connections[handles[o]].channels > 0
                   \/ \E u \in Task : task[u].key = o
=============================================================================
