------------------------- MODULE Connections_proofs -------------------------
(***************************************************************************)
(* Theorems of Connections, for any servers, tasks, host keys and limits:  *)
(* the mutex that covers a lookup, the dial and the two tables keeps one   *)
(* entry for one machine, and known_hosts free of contradictions.          *)
(***************************************************************************)
EXTENDS Connections, TLAPS

TaskType ==
    [pc : Pcs, key : Key \cup {NoKey}, tab : BOOLEAN, password : {"none", "right"},
     conn : 0 .. MaxConn, then : {"none", "check", "again", "finish"},
     error : {"none", "auth", "duplicate"}]

ConnectionType ==
    [key : Key \cup {NoKey}, hostKey : ServerKey \cup {NoKey}, live : BOOLEAN,
     channels : 0 .. MaxSessions]

LineType == [hosts : SUBSET {k.host : k \in Key}, key : ServerKey, hashed : BOOLEAN]

(***************************************************************************)
(* The inductive invariant.                                                *)
(***************************************************************************)
\* A task holds the mutex exactly while it dials or waits for a command, and it
\* dials for a key that has no handle.
Holding == {"dial", "beat"}

TasksOK ==
    \A t \in Task :
        /\ task[t].pc \in Holding <=> mutex = t
        /\ task[t].pc # "idle" => task[t].key \in Key
        /\ task[t].pc = "dial" => task[t].then # "none" /\ handles[task[t].key] = 0

\* A handle is a connection of its key, and the fingerprint of the machine it
\* reached leads back to the key.
HandlesOK ==
    \A k \in Key :
        handles[k] # 0 =>
            /\ connections[handles[k]].key = k
            /\ connections[handles[k]].hostKey \in ServerKey
            /\ names[<<k.user, connections[handles[k]].hostKey>>] = k

ConnInv ==
    /\ TypeOK
    /\ machine \in [key : ServerKey, accepts : Accepts]
    /\ TasksOK
    /\ HandlesOK
    /\ PinsAgree

(***************************************************************************)
(* Frames: what a step that changes one task leaves of the invariant.      *)
(***************************************************************************)
LEMMA TaskFrame ==
    ASSUME ConnInv, NEW t \in Task, NEW r \in TaskType, task' = [task EXCEPT ![t] = r],
           r.pc # "idle" => r.key \in Key,
           r.pc = "dial" => r.then # "none" /\ handles'[r.key] = 0,
           \/ mutex' = mutex /\ (r.pc \in Holding <=> task[t].pc \in Holding)
           \/ mutex = NoTask /\ mutex' = t /\ r.pc \in Holding
           \/ task[t].pc \in Holding /\ mutex' = NoTask /\ r.pc \notin Holding,
           \A k \in Key : handles[k] = 0 => handles'[k] = 0 \/ task[t].pc \in Holding
    PROVE  task' \in [Task -> TaskType] /\ mutex' \in Task \cup {NoTask} /\ TasksOK'
<1>1. task \in [Task -> TaskType] /\ mutex \in Task \cup {NoTask} /\ NoTask \notin Task
  BY BoundAssumption DEF ConnInv, TypeOK, TaskType
<1>2. task' \in [Task -> TaskType] /\ mutex' \in Task \cup {NoTask}
  BY <1>1
<1>3. task'[t] = r /\ \A u \in Task : u # t => task'[u] = task[u]
  BY <1>1
<1>4. \A u \in Task : task[u].pc \in Holding <=> mutex = u
  BY DEF ConnInv, TasksOK
<1>5. \A u \in Task : task'[u].pc \in Holding <=> mutex' = u
  BY <1>1, <1>3, <1>4
<1>6. ASSUME NEW u \in Task
      PROVE  /\ task'[u].pc # "idle" => task'[u].key \in Key
             /\ task'[u].pc = "dial" => task'[u].then # "none" /\ handles'[task'[u].key] = 0
  <2>1. CASE u = t
    BY <1>3, <2>1
  <2>2. CASE u # t
    <3>1. task'[u] = task[u]
      BY <1>3, <2>2
    <3>2. task[u].pc = "dial" => task[t].pc \notin Holding
      BY <1>4, <2>2 DEF Holding
    <3> QED
      BY <3>1, <3>2 DEF ConnInv, TasksOK
  <2> QED
    BY <2>1, <2>2
<1> QED
  BY <1>2, <1>5, <1>6 DEF TasksOK

\* Connections keep the key and the host key they were made with, and the two
\* tables stay or lose the entries of one key.
LEMMA TablesFrame ==
    ASSUME ConnInv,
           connections' \in [Conn -> ConnectionType],
           \A c \in Conn : /\ connections'[c].key = connections[c].key
                           /\ connections'[c].hostKey = connections[c].hostKey,
           UNCHANGED <<handles, names>> \/ \E k \in Key : RemoveHandle(k)
    PROVE  /\ handles' \in [Key -> 0 .. MaxConn]
           /\ names' \in [Users \X ServerKey -> Key \cup {NoKey}]
           /\ \A k \in Key : handles[k] = 0 => handles'[k] = 0
           /\ HandlesOK'
<1>1. /\ handles \in [Key -> 0 .. MaxConn]
      /\ names \in [Users \X ServerKey -> Key \cup {NoKey}]
      /\ \A k \in Key : k.user \in Users
      /\ 0 \in 0 .. MaxConn
  BY BoundAssumption DEF ConnInv, TypeOK, Users
<1>2. CASE UNCHANGED <<handles, names>>
  <2>1. HandlesOK'
    BY <1>1, <1>2 DEF ConnInv, HandlesOK, Conn
  <2> QED
    BY <1>1, <1>2, <2>1
<1>3. ASSUME NEW k \in Key, RemoveHandle(k)
      PROVE  /\ handles' \in [Key -> 0 .. MaxConn]
             /\ names' \in [Users \X ServerKey -> Key \cup {NoKey}]
             /\ \A o \in Key : handles[o] = 0 => handles'[o] = 0
             /\ HandlesOK'
  <2>1. /\ handles' \in [Key -> 0 .. MaxConn]
        /\ handles'[k] = 0 /\ \A o \in Key : o # k => handles'[o] = handles[o]
    BY <1>1, <1>3 DEF RemoveHandle
  <2>2. /\ names' \in [Users \X ServerKey -> Key \cup {NoKey}]
        /\ \A n \in Users \X ServerKey : names[n] # k => names'[n] = names[n]
    BY <1>1, <1>3 DEF RemoveHandle
  <2>3. ASSUME NEW o \in Key, handles'[o] # 0
        PROVE  /\ connections'[handles'[o]].key = o
               /\ connections'[handles'[o]].hostKey \in ServerKey
               /\ names'[<<o.user, connections'[handles'[o]].hostKey>>] = o
    <3>1. o # k /\ handles'[o] = handles[o] /\ handles[o] \in Conn
      BY <1>1, <2>1, <2>3 DEF Conn
    <3>2. /\ connections[handles[o]].key = o
          /\ connections[handles[o]].hostKey \in ServerKey
          /\ names[<<o.user, connections[handles[o]].hostKey>>] = o
      BY <2>3, <3>1 DEF ConnInv, HandlesOK
    <3>3. <<o.user, connections[handles[o]].hostKey>> \in Users \X ServerKey
      BY <1>1, <3>2
    <3> QED
      BY <2>2, <3>1, <3>2, <3>3
  <2> QED
    BY <2>1, <2>2, <2>3 DEF HandlesOK
<1> QED
  BY <1>2, <1>3

\* The line of an accepted unknown key is of a host that has no plain line.
LEMMA PinsKept ==
    ASSUME ConnInv, NEW k \in Key, AddHostKey(k, machine.key) \/ UNCHANGED knownHosts
    PROVE  knownHosts' \in Seq(LineType) /\ PinsAgree'
<1>1. knownHosts \in Seq(LineType) /\ machine.key \in ServerKey
  BY DEF ConnInv, TypeOK, LineType
<1>2. CASE knownHosts' = knownHosts
  BY <1>1, <1>2 DEF ConnInv, PinsAgree
<1>3. CASE /\ HostKeyStatus(k, machine.key) = "unknown"
           /\ knownHosts' = Append(knownHosts,
                                [hosts |-> {k.host}, key |-> machine.key, hashed |-> FALSE])
  <2> DEFINE line == [hosts |-> {k.host}, key |-> machine.key, hashed |-> FALSE]
  <2>1. line \in LineType
    BY <1>1 DEF LineType
  <2>2. line.hosts = {k.host} /\ ~line.hashed
    OBVIOUS
  <2>3. \A i \in DOMAIN knownHosts : knownHosts[i].hashed \/ k.host \notin knownHosts[i].hosts
    BY <1>3 DEF HostKeyStatus, Lines
  <2> HIDE DEF line
  <2>4. /\ knownHosts' \in Seq(LineType)
        /\ DOMAIN knownHosts = 1 .. Len(knownHosts) /\ Len(knownHosts) \in Nat
        /\ DOMAIN knownHosts' = 1 .. (Len(knownHosts) + 1)
        /\ knownHosts'[Len(knownHosts) + 1] = line
        /\ \A i \in DOMAIN knownHosts : knownHosts'[i] = knownHosts[i]
    BY <1>1, <1>3, <2>1 DEF line
  <2>5. \A i \in DOMAIN knownHosts' : i \in DOMAIN knownHosts \/ knownHosts'[i] = line
    BY <2>4
  <2> QED
    BY <2>2, <2>3, <2>4, <2>5 DEF ConnInv, PinsAgree
<1> QED
  BY <1>2, <1>3 DEF AddHostKey

(***************************************************************************)
(* Every action.                                                           *)
(***************************************************************************)
\* The records a task steps to.
LEMMA TaskRecords ==
    /\ Idle \in TaskType /\ Idle.pc = "idle"
    /\ \A k \in Key, pc \in Pcs, tab \in BOOLEAN, password \in {"none", "right"} :
          /\ Started(k, pc, tab, password) \in TaskType
          /\ Started(k, pc, tab, password).pc = pc
          /\ Started(k, pc, tab, password).key = k
    /\ \A r \in TaskType, pc \in Pcs :
          /\ [r EXCEPT !.pc = pc] \in TaskType
          /\ [r EXCEPT !.pc = pc].pc = pc /\ [r EXCEPT !.pc = pc].key = r.key
          /\ [r EXCEPT !.pc = pc].then = r.then
<1>1. Idle \in TaskType /\ Idle.pc = "idle"
  BY BoundAssumption DEF Idle, TaskType, Pcs
<1>2. ASSUME NEW k \in Key, NEW pc \in Pcs, NEW tab \in BOOLEAN, NEW password \in {"none", "right"}
      PROVE  /\ Started(k, pc, tab, password) \in TaskType
             /\ Started(k, pc, tab, password).pc = pc
             /\ Started(k, pc, tab, password).key = k
  <2>1. PICK r \in TaskType : r = Idle
    BY <1>1
  <2> DEFINE s == [r EXCEPT !.pc = pc, !.key = k, !.tab = tab, !.password = password]
  <2>2. s \in TaskType /\ s.pc = pc /\ s.key = k
    BY DEF TaskType
  <2>3. Started(k, pc, tab, password) = s
    BY <2>1 DEF Started
  <2> QED
    BY <2>2, <2>3
<1>3. \A r \in TaskType, pc \in Pcs :
          /\ [r EXCEPT !.pc = pc] \in TaskType
          /\ [r EXCEPT !.pc = pc].pc = pc /\ [r EXCEPT !.pc = pc].key = r.key
          /\ [r EXCEPT !.pc = pc].then = r.then
  BY DEF TaskType
<1> QED
  BY <1>1, <1>2, <1>3

\* Steps of a task that leave the connections and both tables as they are.
LEMMA PlainStep ==
    ASSUME ConnInv, NEW t \in Task, NEW r \in TaskType, task' = [task EXCEPT ![t] = r],
           r.pc # "idle" => r.key \in Key,
           r.pc = "dial" => r.then # "none" /\ handles[r.key] = 0,
           \/ mutex' = mutex /\ (r.pc \in Holding <=> task[t].pc \in Holding)
           \/ mutex = NoTask /\ mutex' = t /\ r.pc \in Holding
           \/ task[t].pc \in Holding /\ mutex' = NoTask /\ r.pc \notin Holding,
           UNCHANGED <<handles, names, connections, machine>>,
           \/ UNCHANGED knownHosts
           \/ \E k \in Key : AddHostKey(k, machine.key),
           current' \in Key \cup {NoKey}
    PROVE  ConnInv'
<1>1. /\ task' \in [Task -> TaskType] /\ mutex' \in Task \cup {NoTask} /\ TasksOK'
  BY TaskFrame
<1>2. knownHosts' \in Seq(LineType) /\ PinsAgree'
  <2>1. CASE UNCHANGED knownHosts
    BY <2>1 DEF ConnInv, TypeOK, LineType, PinsAgree
  <2>2. CASE \E k \in Key : AddHostKey(k, machine.key)
    BY <2>2, PinsKept
  <2> QED
    BY <2>1, <2>2
<1>3. HandlesOK'
  BY DEF ConnInv, HandlesOK
<1> QED
  BY <1>1, <1>2, <1>3 DEF ConnInv, TypeOK, TaskType, LineType

\* Steps of a task that write connections and tables.
LEMMA TableStep ==
    ASSUME ConnInv, NEW t \in Task, NEW r \in TaskType, task' = [task EXCEPT ![t] = r],
           r.pc # "idle" => r.key \in Key,
           r.pc = "dial" => r.then # "none" /\ handles'[r.key] = 0,
           \/ mutex' = mutex /\ (r.pc \in Holding <=> task[t].pc \in Holding)
           \/ mutex = NoTask /\ mutex' = t /\ r.pc \in Holding,
           connections' \in [Conn -> ConnectionType],
           \A c \in Conn : /\ connections'[c].key = connections[c].key
                           /\ connections'[c].hostKey = connections[c].hostKey,
           UNCHANGED <<handles, names>> \/ \E k \in Key : RemoveHandle(k),
           UNCHANGED <<knownHosts, machine, current>>
    PROVE  ConnInv'
<1>1. /\ handles' \in [Key -> 0 .. MaxConn]
      /\ names' \in [Users \X ServerKey -> Key \cup {NoKey}]
      /\ \A k \in Key : handles[k] = 0 => handles'[k] = 0
      /\ HandlesOK'
  BY TablesFrame
<1>2. /\ task' \in [Task -> TaskType] /\ mutex' \in Task \cup {NoTask} /\ TasksOK'
  BY <1>1, TaskFrame
<1> QED
  BY <1>1, <1>2 DEF ConnInv, TypeOK, TaskType, ConnectionType, PinsAgree

LEMMA GetOrConnectStep ==
    ASSUME ConnInv, NEW t \in Task, NEW next \in {"check", "finish"},
           task[t].pc \in {"get", "again"}, GetOrConnect(t, next)
    PROVE  ConnInv'
<1>1. /\ task[t] \in TaskType /\ task[t].key \in Key /\ task[t].pc \notin Holding
      /\ handles[task[t].key] \in 0 .. MaxConn /\ current \in Key \cup {NoKey}
      /\ task \in [Task -> TaskType]
  BY DEF ConnInv, TypeOK, TaskType, TasksOK, Holding
<1>2. UNCHANGED <<handles, names, connections, machine>> /\ UNCHANGED knownHosts /\ current' = current
      /\ mutex = NoTask
  BY DEF GetOrConnect
<1>3. CASE handles[task[t].key] # 0
  <2> DEFINE r == [task[t] EXCEPT !.conn = handles[task[t].key], !.pc = next]
  <2>1. task' = [task EXCEPT ![t] = r] /\ mutex' = mutex
    BY <1>1, <1>3 DEF GetOrConnect
  <2>2. r \in TaskType /\ r.pc = next /\ r.key = task[t].key
    BY <1>1 DEF TaskType, Pcs
  <2> HIDE DEF r
  <2>3. r.pc # "dial" /\ r.pc \notin Holding
    BY <2>2 DEF Holding
  <2> QED
    BY <1>1, <1>2, <2>1, <2>2, <2>3, PlainStep
<1>4. CASE handles[task[t].key] = 0
  <2> DEFINE r == [task[t] EXCEPT !.then = next, !.pc = "dial"]
  <2>1. task' = [task EXCEPT ![t] = r] /\ mutex' = t
    BY <1>1, <1>4 DEF GetOrConnect
  <2>2. r \in TaskType /\ r.pc = "dial" /\ r.key = task[t].key /\ r.then = next
    BY <1>1 DEF TaskType, Pcs
  <2> HIDE DEF r
  <2>3. r.then # "none" /\ r.pc \in Holding /\ handles[r.key] = 0
    BY <1>4, <2>2 DEF Holding
  <2> QED
    BY <1>1, <1>2, <2>1, <2>2, <2>3, PlainStep
<1> QED
  BY <1>1, <1>3, <1>4

\* A dial that fails, at the network, the host key, the password or the duplicate.
LEMMA DialEndsWithout ==
    ASSUME ConnInv, NEW t \in Task,
           \/ DialFails(t) \/ HostKeyRefused(t) \/ NotAuthenticated(t) \/ DuplicateServer(t)
    PROVE  ConnInv'
<1>1. /\ task[t] \in TaskType /\ task[t].key \in Key /\ task[t].pc \in Holding
      /\ current \in Key \cup {NoKey} /\ task \in [Task -> TaskType]
  BY DEF ConnInv, TypeOK, TaskType, TasksOK, Holding, DialFails, HostKeyRefused, NotAuthenticated,
         DuplicateServer
<1>2. /\ UNCHANGED <<handles, names, connections, machine>> /\ current' = current
      /\ mutex' = NoTask
      /\ \/ UNCHANGED knownHosts
         \/ \E k \in Key : AddHostKey(k, machine.key)
  BY <1>1 DEF DialFails, HostKeyRefused, NotAuthenticated, DuplicateServer
<1>3. ASSUME NEW r \in TaskType, task' = [task EXCEPT ![t] = r],
             r.pc \in {"idle", "failed"}, r.pc = "failed" => r.key \in Key
      PROVE  ConnInv'
  <2>1. r.pc \notin Holding /\ r.pc # "dial" /\ (r.pc # "idle" => r.key \in Key)
    BY <1>3 DEF Holding
  <2> QED
    BY <1>1, <1>2, <1>3, <2>1, PlainStep
<1>4. CASE Done(t)
  BY <1>3, <1>4, TaskRecords DEF Done
<1>5. ASSUME NEW error \in {"auth", "duplicate"}, Fail(t, error) PROVE ConnInv'
  <2> DEFINE password == IF error = "auth" THEN DialPassword(t) ELSE "none"
             r == [Idle EXCEPT !.pc = "failed", !.key = task[t].key, !.tab = task[t].tab,
                               !.error = error, !.password = password]
  <2>1. password \in {"none", "right"} /\ task[t].tab \in BOOLEAN
    BY <1>1 DEF DialPassword, TaskType
  <2>2. r \in TaskType /\ r.pc = "failed" /\ r.key = task[t].key
    <3> HIDE DEF password
    <3>1. PICK idle \in TaskType : idle = Idle
      BY TaskRecords
    <3> DEFINE q == [idle EXCEPT !.pc = "failed", !.key = task[t].key, !.tab = task[t].tab,
                                 !.error = error, !.password = password]
    <3>2. "failed" \in Pcs /\ task[t].key \in Key /\ task[t].tab \in BOOLEAN
      BY <1>1, <2>1 DEF Pcs
    <3>3. q \in TaskType
      BY <2>1, <3>2 DEF TaskType
    <3>4. q.pc = "failed" /\ q.key = task[t].key
      BY <2>1, <3>2 DEF TaskType
    <3>5. r = q
      BY <3>1
    <3> QED
      BY <3>3, <3>4, <3>5
  <2>3. task' = [task EXCEPT ![t] = r]
    BY <1>5 DEF Fail
  <2> HIDE DEF r
  <2> QED
    BY <1>1, <1>3, <2>2, <2>3
<1> QED
  BY <1>4, <1>5 DEF DialFails, HostKeyRefused, NotAuthenticated, DuplicateServer

\* A dial that succeeds: no other key with a handle has this user and host key,
\* so the entry it writes takes the place of none.
LEMMA ConnectedStep == ASSUME ConnInv, NEW t \in Task, Connected(t) PROVE ConnInv'
<1> DEFINE k == task[t].key
<1>1. /\ task[t] \in TaskType /\ k \in Key /\ task[t].pc \in Holding
      /\ task[t].then \in {"check", "again", "finish"}
      /\ handles[k] = 0
      /\ task \in [Task -> TaskType]
      /\ handles \in [Key -> 0 .. MaxConn]
      /\ connections \in [Conn -> ConnectionType]
      /\ names \in [Users \X ServerKey -> Key \cup {NoKey}]
      /\ machine.key \in ServerKey
  BY DEF ConnInv, TypeOK, TaskType, TasksOK, Holding, Connected, ConnectionType
<1>2. PICK c \in Conn :
         /\ connections[c].key = NoKey
         /\ connections' = [connections EXCEPT ![c] =
                [key |-> k, hostKey |-> machine.key, live |-> TRUE, channels |-> 0]]
         /\ names' = [names EXCEPT ![<<k.user, machine.key>>] = k]
         /\ handles' = [handles EXCEPT ![k] = c]
         /\ task' = [task EXCEPT ![t].conn = c, ![t].pc = task[t].then, ![t].then = "none"]
  BY DEF Connected
<1>3. /\ DuplicateOf(k, machine.key) = {} /\ AddHostKey(k, machine.key)
      /\ mutex' = NoTask /\ UNCHANGED <<machine, current>>
  BY DEF Connected
<1> HIDE DEF k
<1>4. <<k.user, machine.key>> \in Users \X ServerKey /\ \A o \in Key : o.user \in Users
  BY <1>1 DEF Users
<1>5. /\ connections' \in [Conn -> ConnectionType]
      /\ connections'[c].key = k /\ connections'[c].hostKey = machine.key
      /\ \A d \in Conn : d # c => connections'[d] = connections[d]
  <2> DEFINE new == [key |-> k, hostKey |-> machine.key, live |-> TRUE, channels |-> 0]
  <2>1. new \in ConnectionType /\ new.key = k /\ new.hostKey = machine.key
    BY <1>1, BoundAssumption DEF ConnectionType
  <2>2. connections' = [connections EXCEPT ![c] = new]
    BY <1>2
  <2> HIDE DEF new
  <2> QED
    BY <1>1, <2>1, <2>2
<1>6. /\ names' \in [Users \X ServerKey -> Key \cup {NoKey}]
      /\ names'[<<k.user, machine.key>>] = k
      /\ \A n \in Users \X ServerKey : n # <<k.user, machine.key>> => names'[n] = names[n]
  BY <1>1, <1>2, <1>4
<1>7. /\ handles' \in [Key -> 0 .. MaxConn]
      /\ handles'[k] = c /\ \A o \in Key : o # k => handles'[o] = handles[o]
  BY <1>1, <1>2 DEF Conn
<1>8. HandlesOK'
  <2>1. ASSUME NEW o \in Key, handles'[o] # 0, o # k
        PROVE  /\ connections'[handles'[o]].key = o
               /\ connections'[handles'[o]].hostKey \in ServerKey
               /\ names'[<<o.user, connections'[handles'[o]].hostKey>>] = o
    <3>1. /\ handles'[o] = handles[o] /\ handles[o] \in Conn /\ handles[o] # 0
      BY <1>1, <1>7, <2>1 DEF Conn
    <3>2. /\ connections[handles[o]].key = o
          /\ connections[handles[o]].hostKey \in ServerKey
          /\ names[<<o.user, connections[handles[o]].hostKey>>] = o
      BY <3>1 DEF ConnInv, HandlesOK
    <3>3. handles[o] # c
      BY <1>2, <3>2, KeyAssumption
    <3>4. connections'[handles'[o]] = connections[handles[o]]
      BY <1>5, <3>1, <3>3
    <3>5. <<o.user, connections[handles[o]].hostKey>> # <<k.user, machine.key>>
      <4>1. names[<<k.user, machine.key>>] # o
        BY <1>3, <2>1, <3>1 DEF DuplicateOf
      <4> QED
        BY <3>2, <4>1
    <3> QED
      BY <1>4, <1>6, <3>2, <3>4, <3>5
  <2>2. /\ connections'[handles'[k]].key = k
        /\ connections'[handles'[k]].hostKey \in ServerKey
        /\ names'[<<k.user, connections'[handles'[k]].hostKey>>] = k
    BY <1>1, <1>5, <1>6, <1>7
  <2> QED
    BY <2>1, <2>2 DEF HandlesOK
<1>9. task' \in [Task -> TaskType] /\ mutex' \in Task \cup {NoTask} /\ TasksOK'
  <2> DEFINE r == [task[t] EXCEPT !.conn = c, !.pc = task[t].then, !.then = "none"]
  <2>1. r \in TaskType /\ r.pc = task[t].then /\ r.key = task[t].key
    <3>1. PICK old \in TaskType : old = task[t]
      BY <1>1
    <3>2. c \in 0 .. MaxConn /\ old.then \in Pcs
      BY <1>1, <3>1 DEF Conn, Pcs
    <3> DEFINE new == [old EXCEPT !.conn = c, !.pc = old.then, !.then = "none"]
    <3>3. new \in TaskType /\ new.pc = old.then /\ new.key = old.key
      BY <3>2 DEF TaskType
    <3>4. r = new
      BY <3>1
    <3> QED
      BY <3>1, <3>3, <3>4
  <2>2. task' = [task EXCEPT ![t] = r]
    BY <1>1, <1>2
  <2> HIDE DEF r
  <2>3. r.pc \notin Holding /\ r.pc # "dial" /\ r.key \in Key
    BY <1>1, <2>1 DEF Holding, k
  <2> QED
    BY <1>1, <1>3, <2>1, <2>2, <2>3, TaskFrame
<1>10. knownHosts' \in Seq(LineType) /\ PinsAgree'
  BY <1>1, <1>3, PinsKept
<1> QED
  BY <1>3, <1>5, <1>6, <1>7, <1>8, <1>9, <1>10 DEF ConnInv, TypeOK, TaskType, LineType, ConnectionType

\* What a task does between its calls of the manager, and what removes a handle.
LEMMA TaskStep ==
    ASSUME ConnInv, NEW t \in Task,
           \/ HealthCheck(t) \/ Evict(t) \/ Finish(t) \/ PasswordRemove(t) \/ BeatEnds(t)
           \/ PasswordSubmit(t) \/ StartBeat(t) \/ Forget(t)
           \/ \E k \in Key : ConnectServer(t, k)
           \/ ConnectTab(t) \/ KillSession(t)
    PROVE  ConnInv'
<1>1. /\ task[t] \in TaskType /\ current \in Key \cup {NoKey} /\ task \in [Task -> TaskType]
      /\ task[t].pc # "idle" => task[t].key \in Key
      /\ connections \in [Conn -> ConnectionType]
      /\ \A c \in Conn : connections[c] \in ConnectionType
      /\ handles \in [Key -> 0 .. MaxConn]
  BY DEF ConnInv, TypeOK, TaskType, TasksOK, ConnectionType
<1>2. ASSUME UNCHANGED <<handles, names, connections, knownHosts, machine, mutex>>,
             current' \in Key \cup {NoKey},
             NEW r \in TaskType, task' = [task EXCEPT ![t] = r],
             r.pc # "idle" => r.key \in Key, r.pc \notin Holding, task[t].pc \notin Holding
      PROVE  ConnInv'
  <2>1. r.pc # "dial"
    BY <1>2 DEF Holding
  <2> QED
    BY <1>2, <2>1, PlainStep
<1>3. ASSUME NEW k \in Key, NEW pc \in {"get", "again", "remove"}, NEW tab \in BOOLEAN,
             NEW password \in {"none", "right"},
             task' = [task EXCEPT ![t] = Started(k, pc, tab, password)],
             task[t].pc \in {"idle", "failed"},
             current' \in Key \cup {NoKey},
             UNCHANGED <<handles, names, connections, knownHosts, machine, mutex>>
      PROVE  ConnInv'
  <2> DEFINE r == Started(k, pc, tab, password)
  <2>1. r \in TaskType /\ r.pc = pc /\ r.key = k
    BY TaskRecords DEF Pcs
  <2>2. r.pc \notin Holding /\ task[t].pc \notin Holding
    BY <1>3, <2>1 DEF Holding
  <2> HIDE DEF r
  <2>3. task' = [task EXCEPT ![t] = r]
    BY <1>3 DEF r
  <2> QED
    BY <1>2, <1>3, <2>1, <2>2, <2>3
<1>4. CASE HealthCheck(t)
  <2> DEFINE pc == IF CanExec(task[t].conn) THEN "again" ELSE "evict"
             r == [task[t] EXCEPT !.pc = pc]
  <2>1. pc \in Pcs /\ pc \notin Holding /\ task[t].pc = "check" /\ task[t].pc \notin Holding
    BY <1>4 DEF Pcs, Holding, HealthCheck
  <2>2. task' = [task EXCEPT ![t] = r]
    BY <1>1, <1>4 DEF HealthCheck, Goto
  <2> HIDE DEF pc
  <2>3. r \in TaskType /\ r.pc = pc /\ r.key = task[t].key
    BY <1>1, <2>1, TaskRecords
  <2> HIDE DEF r
  <2> QED
    BY <1>1, <1>2, <1>4, <2>1, <2>2, <2>3 DEF HealthCheck
<1>5. CASE Evict(t)
  <2> DEFINE r == [task[t] EXCEPT !.then = "again", !.pc = "dial"]
  <2>1. /\ task[t].key \in Key /\ RemoveHandle(task[t].key)
        /\ mutex = NoTask /\ mutex' = t
        /\ UNCHANGED <<connections, knownHosts, machine, current>>
    BY <1>1, <1>5 DEF Evict
  <2>2. task' = [task EXCEPT ![t] = r]
    BY <1>1, <1>5 DEF Evict
  <2>3. r \in TaskType /\ r.pc = "dial" /\ r.key = task[t].key /\ r.then = "again"
    BY <1>1 DEF TaskType, Pcs
  <2> HIDE DEF r
  <2>4. handles'[task[t].key] = 0
    BY <1>1, <2>1 DEF RemoveHandle
  <2>5. r.pc \in Holding /\ r.then # "none" /\ handles'[r.key] = 0 /\ r.key \in Key
    BY <2>1, <2>3, <2>4 DEF Holding
  <2>6. connections' = connections /\ \E k \in Key : RemoveHandle(k)
    BY <2>1
  <2> QED
    BY <1>1, <2>1, <2>2, <2>3, <2>5, <2>6, TableStep
<1>6. CASE Finish(t)
  <2>1. /\ connections' \in [Conn -> ConnectionType]
        /\ \A c \in Conn : /\ connections'[c].key = connections[c].key
                            /\ connections'[c].hostKey = connections[c].hostKey
    <3>1. CASE UNCHANGED connections
      BY <1>1, <3>1
    <3>2. CASE /\ CanExec(task[t].conn)
               /\ connections' = [connections EXCEPT ![task[t].conn].channels = @ + 1]
      <4>1. task[t].conn \in Conn => connections[task[t].conn].channels + 1 \in 0 .. MaxSessions
        BY <1>1, <3>2, BoundAssumption DEF CanExec, ConnectionType
      <4> QED
        BY <1>1, <3>2, <4>1 DEF ConnectionType
    <3> QED
      BY <1>6, <3>1, <3>2 DEF Finish
  <2>2. task' = [task EXCEPT ![t] = Idle] /\ UNCHANGED <<handles, names, knownHosts, machine, mutex, current>>
    BY <1>6 DEF Finish, Done
  <2>3. task[t].pc = "finish" /\ task[t].pc \notin Holding /\ Idle.pc \notin Holding /\ Idle.pc # "dial"
    BY <1>6, TaskRecords DEF Finish, Holding
  <2> QED
    BY <1>1, <2>1, <2>2, <2>3, TaskRecords, TableStep
<1>7. CASE PasswordRemove(t)
  <2> DEFINE r == [task[t] EXCEPT !.pc = "get"]
  <2>1. /\ task[t].pc = "remove" /\ task[t].key \in Key /\ RemoveHandle(task[t].key)
        /\ UNCHANGED <<connections, knownHosts, machine, current>> /\ mutex' = mutex
    BY <1>1, <1>7 DEF PasswordRemove
  <2>2. task' = [task EXCEPT ![t] = r]
    BY <1>1, <1>7 DEF PasswordRemove, Goto
  <2>3. r \in TaskType /\ r.pc = "get" /\ r.key = task[t].key
    BY <1>1 DEF TaskType, Pcs
  <2> HIDE DEF r
  <2>4. r.pc \notin Holding /\ task[t].pc \notin Holding /\ r.pc # "dial" /\ r.key \in Key
    BY <2>1, <2>3 DEF Holding
  <2>5. connections' = connections /\ \E k \in Key : RemoveHandle(k)
    BY <2>1
  <2> QED
    BY <1>1, <2>1, <2>2, <2>3, <2>4, <2>5, TableStep
<1>8. CASE BeatEnds(t)
  <2>1. /\ task' = [task EXCEPT ![t] = Idle] /\ mutex' = NoTask
        /\ UNCHANGED <<handles, names, connections, machine>> /\ UNCHANGED knownHosts
        /\ current' \in Key \cup {NoKey}
    BY <1>1, <1>8 DEF BeatEnds, Done
  <2>2. task[t].pc \in Holding /\ Idle.pc \notin Holding /\ Idle.pc # "dial"
    BY <1>8, TaskRecords DEF BeatEnds, Holding
  <2> QED
    BY <1>1, <2>1, <2>2, TaskRecords, PlainStep
<1>9. CASE StartBeat(t)
  <2> DEFINE r == Started(current, "beat", FALSE, "none")
  <2>1. /\ task' = [task EXCEPT ![t] = r] /\ mutex = NoTask /\ mutex' = t
        /\ UNCHANGED <<handles, names, connections, machine>> /\ UNCHANGED knownHosts
        /\ current' \in Key \cup {NoKey} /\ current \in Key
    BY <1>1, <1>9 DEF StartBeat
  <2>2. r \in TaskType /\ r.pc = "beat" /\ r.key = current
    <3>1. current \in Key /\ "beat" \in Pcs /\ FALSE \in BOOLEAN /\ "none" \in {"none", "right"}
      BY <2>1 DEF Pcs
    <3> QED
      BY <3>1, TaskRecords, Zenon
  <2> HIDE DEF r
  <2>3. r.pc \in Holding /\ r.pc # "dial" /\ r.key \in Key
    BY <2>1, <2>2 DEF Holding
  <2> QED
    BY <1>1, <2>1, <2>2, <2>3, PlainStep
<1>10. CASE Forget(t)
  <2>1. task[t].pc \notin Holding /\ Idle.pc \notin Holding
    BY <1>10, TaskRecords DEF Forget, Holding
  <2> QED
    BY <1>1, <1>2, <1>10, <2>1, TaskRecords DEF Forget, Done
<1>11. CASE PasswordSubmit(t)
  BY <1>1, <1>3, <1>11 DEF PasswordSubmit
<1>12. CASE (\E k \in Key : ConnectServer(t, k)) \/ ConnectTab(t) \/ KillSession(t)
  <2>1. ASSUME task[t] = Idle PROVE task[t].pc = "idle"
    BY <2>1, TaskRecords
  <2>2. ASSUME NEW k \in Key, ConnectServer(t, k) PROVE ConnInv'
    BY <1>1, <1>3, <2>1, <2>2 DEF ConnectServer
  <2>3. CASE ConnectTab(t)
    <3>1. current \in Key
      BY <1>1, <2>3 DEF ConnectTab
    <3> QED
      BY <1>1, <1>3, <2>1, <2>3, <3>1 DEF ConnectTab
  <2>4. CASE KillSession(t)
    <3>1. current \in Key
      BY <1>1, <2>4 DEF KillSession
    <3> QED
      BY <1>1, <1>3, <2>1, <2>4, <3>1 DEF KillSession
  <2> QED
    BY <1>12, <2>2, <2>3, <2>4
<1> QED
  BY <1>4, <1>5, <1>6, <1>7, <1>8, <1>9, <1>10, <1>11, <1>12

\* Steps of the world and of the user that write connections only.
LEMMA WorldStep ==
    ASSUME ConnInv,
           Disconnect \/ NewHostKey \/ \E c \in Conn : TabCloses(c) \/ ConnectionDies(c)
    PROVE  ConnInv'
<1>1. /\ connections \in [Conn -> ConnectionType]
      /\ \A c \in Conn : connections[c] \in ConnectionType
      /\ machine \in [key : ServerKey, accepts : Accepts]
      /\ task \in [Task -> TaskType]
  BY DEF ConnInv, TypeOK, ConnectionType, TaskType
<1>2. ASSUME NEW e \in ConnectionType
      PROVE  /\ [e EXCEPT !.channels = 0] \in ConnectionType
             /\ [e EXCEPT !.live = FALSE, !.channels = 0] \in ConnectionType
             /\ [e EXCEPT !.channels = 0].key = e.key /\ [e EXCEPT !.channels = 0].hostKey = e.hostKey
             /\ [e EXCEPT !.live = FALSE, !.channels = 0].key = e.key
             /\ [e EXCEPT !.live = FALSE, !.channels = 0].hostKey = e.hostKey
  <2>1. 0 \in 0 .. MaxSessions
    BY BoundAssumption
  <2>2. [e EXCEPT !.channels = 0] \in ConnectionType
    BY <2>1 DEF ConnectionType
  <2>3. [e EXCEPT !.live = FALSE, !.channels = 0] \in ConnectionType
    BY <2>1 DEF ConnectionType
  <2>4. [e EXCEPT !.channels = 0].key = e.key /\ [e EXCEPT !.channels = 0].hostKey = e.hostKey
    BY DEF ConnectionType
  <2>5. /\ [e EXCEPT !.live = FALSE, !.channels = 0].key = e.key
        /\ [e EXCEPT !.live = FALSE, !.channels = 0].hostKey = e.hostKey
    BY DEF ConnectionType
  <2> QED
    BY <2>2, <2>3, <2>4, <2>5
<1>3. /\ connections' \in [Conn -> ConnectionType]
      /\ \A c \in Conn : /\ connections'[c].key = connections[c].key
                          /\ connections'[c].hostKey = connections[c].hostKey
  <2>1. CASE Disconnect
    BY <1>1, <1>2, <2>1 DEF Disconnect
  <2>2. CASE NewHostKey
    BY <1>1, <1>2, <2>2 DEF NewHostKey
  <2>3. ASSUME NEW c \in Conn, TabCloses(c)
        PROVE  /\ connections' \in [Conn -> ConnectionType]
               /\ \A d \in Conn : /\ connections'[d].key = connections[d].key
                                   /\ connections'[d].hostKey = connections[d].hostKey
    <3>1. connections[c].channels - 1 \in 0 .. MaxSessions
      BY <1>1, <2>3, BoundAssumption DEF TabCloses, ConnectionType
    <3> QED
      BY <1>1, <2>3, <3>1 DEF TabCloses, ConnectionType
  <2>4. ASSUME NEW c \in Conn, ConnectionDies(c)
        PROVE  /\ connections' \in [Conn -> ConnectionType]
               /\ \A d \in Conn : /\ connections'[d].key = connections[d].key
                                   /\ connections'[d].hostKey = connections[d].hostKey
    <3> DEFINE new == [connections[c] EXCEPT !.live = FALSE, !.channels = 0]
    <3>1. connections' = [connections EXCEPT ![c] = new]
      BY <1>1, <2>4 DEF ConnectionDies
    <3>2. new \in ConnectionType /\ new.key = connections[c].key /\ new.hostKey = connections[c].hostKey
      BY <1>1, <1>2
    <3> HIDE DEF new
    <3> QED
      BY <1>1, <3>1, <3>2
  <2> QED
    BY <2>1, <2>2, <2>3, <2>4
<1>4. UNCHANGED <<handles, names, knownHosts, mutex>>
  BY DEF Disconnect, NewHostKey, TabCloses, ConnectionDies
<1>5. /\ handles' \in [Key -> 0 .. MaxConn]
      /\ names' \in [Users \X ServerKey -> Key \cup {NoKey}]
      /\ HandlesOK'
  BY <1>3, <1>4, TablesFrame
<1>6. machine' \in [key : ServerKey, accepts : Accepts]
  <2>1. CASE NewHostKey
    <3>1. machine.key \in ServerKey /\ machine.key < MaxHostKey
      BY <1>1, <2>1 DEF NewHostKey
    <3>2. machine.key + 1 \in ServerKey
      BY <3>1, BoundAssumption DEF ServerKey
    <3>3. machine' = [machine EXCEPT !.key = machine.key + 1]
      BY <1>1, <2>1 DEF NewHostKey
    <3> QED
      BY <1>1, <3>2, <3>3
  <2>2. CASE ~NewHostKey
    BY <1>1, <2>2 DEF Disconnect, TabCloses, ConnectionDies
  <2> QED
    BY <2>1, <2>2
<1>7. /\ task' \in [Task -> TaskType]
      /\ \A t \in Task : task'[t].pc = task[t].pc /\ task'[t].key = task[t].key /\ task'[t].then = task[t].then
  <2>1. CASE Disconnect
    <3>1. \A r \in TaskType : /\ [r EXCEPT !.tab = FALSE] \in TaskType
                              /\ [r EXCEPT !.tab = FALSE].pc = r.pc
                              /\ [r EXCEPT !.tab = FALSE].key = r.key
                              /\ [r EXCEPT !.tab = FALSE].then = r.then
      BY DEF TaskType
    <3> QED
      BY <1>1, <2>1, <3>1 DEF Disconnect
  <2>2. CASE UNCHANGED task
    BY <1>1, <2>2
  <2> QED
    BY <2>1, <2>2 DEF NewHostKey, TabCloses, ConnectionDies
<1>8. TasksOK'
  BY <1>4, <1>7 DEF ConnInv, TasksOK
<1>9. current' \in Key \cup {NoKey}
  BY DEF ConnInv, TypeOK, Disconnect, NewHostKey, TabCloses, ConnectionDies
<1> QED
  BY <1>3, <1>4, <1>5, <1>6, <1>7, <1>8, <1>9 DEF ConnInv, TypeOK, TaskType, ConnectionType, PinsAgree

LEMMA ConnInvStep == ConnInv /\ [Next]_vars => ConnInv'
<1> SUFFICES ASSUME ConnInv, [Next]_vars PROVE ConnInv'
  OBVIOUS
<1>1. CASE \E t \in Task : Get(t) \/ GetAgain(t)
  BY <1>1, GetOrConnectStep DEF Get, GetAgain
<1>2. CASE \E t \in Task : DialEnds(t)
  BY <1>2, DialEndsWithout, ConnectedStep DEF DialEnds
<1>3. ASSUME NEW t \in Task,
             \/ HealthCheck(t) \/ Evict(t) \/ Finish(t) \/ PasswordRemove(t) \/ BeatEnds(t)
             \/ PasswordSubmit(t) \/ StartBeat(t) \/ Forget(t)
             \/ \E k \in Key : ConnectServer(t, k)
             \/ ConnectTab(t) \/ KillSession(t)
      PROVE  ConnInv'
  BY <1>3, TaskStep
<1>4. CASE Disconnect \/ NewHostKey \/ \E c \in Conn : TabCloses(c) \/ ConnectionDies(c)
  BY <1>4, WorldStep
<1>5. CASE UNCHANGED vars
  BY <1>5 DEF vars, ConnInv, TypeOK, TasksOK, HandlesOK, PinsAgree
<1> QED
  BY <1>1, <1>2, <1>3, <1>4, <1>5 DEF Next, Proceed

LEMMA ConnInvInit == Init => ConnInv
<1> SUFFICES ASSUME Init PROVE ConnInv
  OBVIOUS
<1>1. machine \in [key : {1}, accepts : Accepts] /\ machine.key = 1 /\ 1 \in ServerKey
  BY BoundAssumption DEF Init, ServerKey
<1>2. machine \in [key : ServerKey, accepts : Accepts]
  BY <1>1
<1>3. knownHosts \in Seq(LineType) /\ PinsAgree
  <2>1. PICK hashed \in BOOLEAN :
           knownHosts = <<[hosts |-> {k.host : k \in Key}, key |-> machine.key, hashed |-> hashed]>>
    BY DEF Init
  <2> DEFINE line == [hosts |-> {k.host : k \in Key}, key |-> machine.key, hashed |-> hashed]
  <2>2. line \in LineType
    BY <1>1 DEF LineType
  <2> HIDE DEF line
  <2>3. knownHosts = <<line>>
    BY <2>1 DEF line
  <2> QED
    BY <2>2, <2>3 DEF PinsAgree
<1>4. task \in [Task -> TaskType] /\ TasksOK
  <2>1. \A t \in Task : task[t] = Idle
    BY DEF Init
  <2>2. mutex = NoTask /\ NoTask \notin Task
    BY BoundAssumption DEF Init
  <2> QED
    BY <2>1, <2>2, TaskRecords DEF TasksOK, Holding, Init
<1>5. /\ handles \in [Key -> 0 .. MaxConn]
      /\ names \in [Users \X ServerKey -> Key \cup {NoKey}]
      /\ HandlesOK
  BY BoundAssumption DEF Init, HandlesOK
<1>6. connections \in [Conn -> ConnectionType]
  BY BoundAssumption DEF Init, NoConnection, ConnectionType
<1> QED
  BY <1>1, <1>2, <1>3, <1>4, <1>5, <1>6 DEF Init, ConnInv, TypeOK, TaskType, ConnectionType, LineType

LEMMA ConnInvHolds == Spec => []ConnInv
BY ConnInvInit, ConnInvStep, PTL DEF Spec

\* The manager's maps, the connections, the lines of known_hosts and the tasks
\* have their shapes, in every interleaving of dials, evictions and failures.
THEOREM TypeCorrect == Spec => []TypeOK
<1>1. ConnInv => TypeOK
  BY DEF ConnInv
<1> QED
  BY <1>1, ConnInvHolds, PTL

\* Two entries the user wrote differently are never connected to one machine as
\* one user: the check for a duplicate and the writing of both tables happen
\* under one hold of the mutex, and eviction clears both tables together.
THEOREM OneEntry == Spec => []OneEntryPerServer
<1>1. ConnInv => OneEntryPerServer
  BY DEF ConnInv, HandlesOK, OneEntryPerServer
<1> QED
  BY <1>1, ConnInvHolds, PTL

\* The plain lines of known_hosts agree on every host's key, whichever tasks add
\* them: a line is added only for a host that has none.
THEOREM PinsNeverContradict == Spec => []PinsAgree
<1>1. ConnInv => PinsAgree
  BY DEF ConnInv
<1> QED
  BY <1>1, ConnInvHolds, PTL
=============================================================================
