------------------------ MODULE DeviceRegistry_proofs ------------------------
(***************************************************************************)
(* Theorems of DeviceRegistry, for any number of devices, any keepalive    *)
(* interval and any delay.                                                 *)
(***************************************************************************)
EXTENDS DeviceRegistry, TLAPS

\* The time limits are naturals, and an absent entry is older than any.
LEMMA Limits ==
    /\ Interval \in Nat /\ Limit \in Nat /\ Old \in Nat /\ Absent \in Nat
    /\ 0 < Interval /\ Old < Absent
    /\ MaxDelay \in Nat /\ MaxMisses \in Nat /\ MaxOps \in Nat
  BY KeepaliveAssumption, BoundsAssumption DEF Interval, Limit, Old, Absent

\* Getting older keeps an age an age, an absent entry absent, and the order.
LEMMA OlderKeeps ==
    /\ \A x \in Age : Older(x) \in Age
    /\ \A x \in 0 .. Absent : Older(x) \in 0 .. Absent
    /\ Older(Absent) = Absent
    /\ \A x \in 0 .. Absent, y \in Age : x >= y => Older(x) >= Older(y)
  BY Limits DEF Older, Age

\* A list without the pruned entries is a list.
LEMMA PrunedIsList ==
    ASSUME NEW d \in Device, NEW list \in Entries
    PROVE  Pruned(d, list) \in Entries
  BY Limits DEF Pruned, Entries

LEMMA NobodyIsList == Nobody \in Entries
  BY Limits DEF Nobody, Entries

(***************************************************************************)
(* The type invariant holds initially and every step keeps it.             *)
(***************************************************************************)
LEMMA TypeInit == Init => TypeOK
<1> SUFFICES ASSUME Init PROVE TypeOK
  OBVIOUS
<1>1. age \in Entries /\ seen \in [Device -> Entries]
  BY NobodyIsList DEF Init
<1>2. /\ stamp \in [Device -> Age] /\ since \in [Device -> Age]
      /\ timer \in [Device -> 0 .. Interval]
      /\ lag \in [Device -> 0 .. MaxDelay]
      /\ misses \in [Device -> 0 .. MaxMisses]
      /\ ops \in 0 .. MaxOps
  BY Limits DEF Init, Age
<1>3. /\ conn \in [Device -> {"off", "joining", "on"}]
      /\ wanted \in [Device -> SUBSET Kind]
      /\ op \in [Device -> Kind \union {"none"}]
      /\ pc \in [Device -> {"check", "create", "read", "write"}]
      /\ stale \in [Device -> BOOLEAN]
  BY DEF Init
<1>4. \A d \in Device : pc[d] \in {"check", "create"} => op[d] = "join"
  BY DEF Init
<1> QED
  BY <1>1, <1>2, <1>3, <1>4 DEF Init, TypeOK

LEMMA TypeStep == TypeOK /\ [Next]_vars => TypeOK'
<1> SUFFICES ASSUME TypeOK, [Next]_vars PROVE TypeOK'
  OBVIOUS
<1> USE Limits
<1>1. CASE Tick
  <2>1. (age' \in Entries) /\ (seen' \in [Device -> Entries])
    BY <1>1, OlderKeeps DEF Tick, TypeOK, Entries
  <2>2. /\ stamp' \in [Device -> Age]
        /\ since' \in [Device -> Age]
    BY <1>1, OlderKeeps DEF Tick, TypeOK, Age
  <2>3. timer' \in [Device -> 0 .. Interval]
    BY <1>1 DEF Tick, TypeOK
  <2>4. lag' \in [Device -> 0 .. MaxDelay]
    BY <1>1 DEF Tick, TypeOK
  <2>5. ~there' => age' = Nobody
    BY <1>1, OlderKeeps DEF Tick, TypeOK, Nobody
  <2> QED
    BY <1>1, <2>1, <2>2, <2>3, <2>4, <2>5 DEF Tick, TypeOK
<1>2. ASSUME NEW d \in Device, UserStep(d) PROVE TypeOK'
  <2>1. CASE Connect(d)
    BY <2>1 DEF Connect, UserOp, Want, TypeOK, regVars, hist, Kind
  <2>2. CASE OpenTab(d)
    BY <2>2 DEF OpenTab, UserOp, Want, TypeOK, regVars, hist, Kind
  <2>3. CASE Disconnect(d)
    BY <2>3 DEF Disconnect, UserOp, Want, TypeOK, regVars, hist, Kind
  <2>4. CASE Crash(d)
    BY <2>4, NobodyIsList DEF Crash, UserOp, Finish, TypeOK, regVars, Age
  <2> QED
    BY <1>2, <2>1, <2>2, <2>3, <2>4 DEF UserStep
<1>3. ASSUME NEW d \in Device, Command(d) PROVE TypeOK'
  <2>1. CASE JoinCheck(d)
    BY <2>1 DEF JoinCheck, TypeOK, regVars, hist
  <2>2. CASE JoinCreate(d)
    BY <2>2 DEF JoinCreate, TypeOK, hist
  <2>3. CASE ReadDevices(d)
    BY <2>3, PrunedIsList DEF ReadDevices, TypeOK, regVars, hist
  <2>4. CASE ReadFails(d)
    BY <2>4, NobodyIsList DEF ReadFails, TypeOK, regVars
  <2>5. CASE WriteDevices(d)
    <3>1. Written(d) \in Entries
      BY <2>5 DEF WriteDevices, Written, TypeOK, Entries, Age
    <3>2. age' \in Entries /\ (~there' => age' = Nobody)
      BY <2>5, <3>1 DEF WriteDevices, SetEnvironment, TypeOK
    <3> QED
      BY <2>5, <3>2, NobodyIsList
      DEF WriteDevices, Finish, MarkStale, TypeOK, Age
  <2>6. CASE WriteFails(d)
    BY <2>6, NobodyIsList DEF WriteFails, Finish, TypeOK, regVars, Age
  <2>7. CASE LeaveWrite(d)
    <3>1. age' \in Entries /\ (~there' => age' = Nobody)
      BY <2>7, NobodyIsList DEF LeaveWrite, LastToLeave, SetEnvironment, TypeOK
    <3> QED
      BY <2>7, <3>1, NobodyIsList
      DEF LeaveWrite, Finish, MarkStale, TypeOK, Age
  <2> QED
    BY <1>3, <2>1, <2>2, <2>3, <2>4, <2>5, <2>6, <2>7 DEF Command
<1>4. ASSUME NEW d \in Device, HeartbeatTick(d) PROVE TypeOK'
  BY <1>4 DEF HeartbeatTick, Want, TypeOK, regVars, hist, Kind
<1>5. ASSUME NEW d \in Device, HeartbeatMissed(d) PROVE TypeOK'
  BY <1>5 DEF HeartbeatMissed, TypeOK, regVars, opVars, hist
<1>6. ASSUME NEW d \in Device, NEW kind \in Kind, Start(d, kind) PROVE TypeOK'
  BY <1>6 DEF Start, TypeOK, regVars, Kind, Age
<1>7. CASE UNCHANGED vars
  BY <1>7 DEF vars, regVars, opVars, hist, TypeOK
<1> QED
  BY <1>1, <1>2, <1>3, <1>4, <1>5, <1>6, <1>7 DEF Next

(***************************************************************************)
(* Every variable keeps its type, a killed registry lists nobody, and only *)
(* joins look for the session: for any number of devices.                  *)
(***************************************************************************)
THEOREM TypeCorrect == Spec => []TypeOK
  BY TypeInit, TypeStep, PTL DEF Spec

(***************************************************************************)
(* AgesHonest is not inductive: an operation that has taken the time must  *)
(* not have become older than the entry it is about to write.              *)
(***************************************************************************)
StampsHonest ==
    \A d \in Device : op[d] \in {"join", "beat"} => stamp[d] >= since[d]

AgesInv == TypeOK /\ AgesHonest /\ StampsHonest

LEMMA AgesInit == Init => AgesInv
  <1> SUFFICES ASSUME Init PROVE AgesInv
    OBVIOUS
  <1>1. TypeOK
    BY TypeInit
  <1>2. AgesHonest
    BY Limits DEF Init, AgesHonest, Nobody
  <1>3. StampsHonest
    BY DEF Init, StampsHonest
  <1> QED
    BY <1>1, <1>2, <1>3 DEF AgesInv

\* The operation of a device ends: its list is empty, the others keep theirs.
LEMMA FinishAges ==
    ASSUME NEW d \in Device, TypeOK, AgesHonest, StampsHonest, Finish(d),
           UNCHANGED since
    PROVE  /\ \A x, e \in Device : seen'[e][x] >= since[x]
           /\ StampsHonest'
  <1>1. \A x \in Device : Nobody[x] >= since[x]
    BY Limits DEF TypeOK, Nobody, Age
  <1> QED
    BY <1>1 DEF Finish, TypeOK, AgesHonest, StampsHonest

LEMMA AgesStep == AgesInv /\ [Next]_vars => AgesInv'
<1> SUFFICES ASSUME AgesInv, [Next]_vars PROVE AgesInv'
  OBVIOUS
<1> USE Limits
<1>t. TypeOK'
  BY TypeStep DEF AgesInv
<1>1. CASE Tick
  <2>1. AgesHonest'
    <3> SUFFICES ASSUME NEW d \in Device, NEW e \in Device
                 PROVE  age'[d] >= since'[d] /\ seen'[e][d] >= since'[d]
      BY DEF AgesHonest
    <3>1. /\ age[d] \in 0 .. Absent /\ seen[e][d] \in 0 .. Absent
          /\ since[d] \in Age
          /\ age[d] >= since[d] /\ seen[e][d] >= since[d]
      BY DEF AgesInv, TypeOK, AgesHonest, Entries
    <3> QED
      BY <1>1, <3>1, OlderKeeps DEF Tick
  <2>2. StampsHonest'
    <3> SUFFICES ASSUME NEW d \in Device, op[d] \in {"join", "beat"}
                 PROVE  stamp'[d] >= since'[d]
      BY <1>1 DEF Tick, StampsHonest
    <3>1. /\ stamp[d] \in 0 .. Absent /\ since[d] \in Age
          /\ stamp[d] >= since[d]
      BY DEF AgesInv, TypeOK, StampsHonest, Age
    <3> QED
      BY <1>1, <3>1, OlderKeeps DEF Tick
  <2> QED
    BY <1>t, <2>1, <2>2 DEF AgesInv
<1>2. ASSUME NEW d \in Device, NEW kind \in Kind, Start(d, kind) PROVE AgesInv'
  <2>1. AgesHonest'
    BY <1>2 DEF Start, regVars, AgesInv, TypeOK, AgesHonest, Entries, Age
  <2>2. StampsHonest'
    BY <1>2 DEF Start, AgesInv, TypeOK, StampsHonest, Kind
  <2> QED
    BY <1>t, <2>1, <2>2 DEF AgesInv
<1>3. ASSUME NEW d \in Device, UserStep(d) PROVE AgesInv'
  <2>1. CASE Crash(d)
    <3>1. /\ \A x, e \in Device : seen'[e][x] >= since[x]
          /\ StampsHonest'
      BY <2>1, FinishAges DEF Crash, AgesInv
    <3>2. AgesHonest'
      BY <2>1, <3>1 DEF Crash, regVars, AgesInv, AgesHonest
    <3> QED
      BY <1>t, <3>1, <3>2 DEF AgesInv
  <2>2. CASE Connect(d) \/ OpenTab(d) \/ Disconnect(d)
    BY <1>t, <2>2
    DEF Connect, OpenTab, Disconnect, regVars, hist, AgesInv, AgesHonest,
        StampsHonest
  <2> QED
    BY <1>3, <2>1, <2>2 DEF UserStep
<1>4. ASSUME NEW d \in Device, Command(d) PROVE AgesInv'
  <2>1. CASE JoinCheck(d) \/ JoinCreate(d)
    BY <1>t, <2>1
    DEF JoinCheck, JoinCreate, regVars, hist, AgesInv, AgesHonest, StampsHonest
  <2>2. CASE ReadDevices(d) \/ ReadFails(d)
    <3>1. \A x \in Device : /\ Pruned(d, age)[x] >= since[x]
                            /\ Nobody[x] >= since[x]
      BY DEF Pruned, Nobody, AgesInv, TypeOK, AgesHonest, Age
    <3>2. \A x, e \in Device : seen'[e][x] >= since[x]
      BY <2>2, <3>1 DEF ReadDevices, ReadFails, AgesInv, TypeOK, AgesHonest
    <3>3. UNCHANGED <<age, since, op, stamp>>
      BY <2>2 DEF ReadDevices, ReadFails, regVars, hist
    <3> QED
      BY <1>t, <3>2, <3>3 DEF AgesInv, AgesHonest, StampsHonest
  <2>3. CASE WriteDevices(d)
    <3>1. /\ \A x, e \in Device : seen'[e][x] >= since[x]
          /\ StampsHonest'
      BY <2>3, FinishAges DEF WriteDevices, AgesInv
    <3>2. \A x \in Device : Written(d)[x] >= since[x]
      BY <2>3 DEF WriteDevices, Written, AgesInv, TypeOK, Entries, AgesHonest,
                  StampsHonest
    <3>3. \A x \in Device : age'[x] >= since[x]
      BY <2>3, <3>2 DEF WriteDevices, SetEnvironment, AgesInv, AgesHonest
    <3> QED
      BY <1>t, <2>3, <3>1, <3>3 DEF WriteDevices, AgesInv, AgesHonest
  <2>4. CASE WriteFails(d)
    <3>1. /\ \A x, e \in Device : seen'[e][x] >= since[x]
          /\ StampsHonest'
      BY <2>4, FinishAges DEF WriteFails, AgesInv
    <3> QED
      BY <1>t, <2>4, <3>1 DEF WriteFails, regVars, AgesInv, AgesHonest
  <2>5. CASE LeaveWrite(d)
    <3>1. /\ \A x, e \in Device : seen'[e][x] >= since[x]
          /\ StampsHonest'
      BY <2>5, FinishAges DEF LeaveWrite, AgesInv
    <3>2. \A x \in Device : Nobody[x] >= since[x]
      BY DEF Nobody, AgesInv, TypeOK, Age
    <3>3. \A x \in Device : age'[x] >= since[x]
      BY <2>5, <3>2 DEF LeaveWrite, SetEnvironment, AgesInv, AgesHonest
    <3> QED
      BY <1>t, <2>5, <3>1, <3>3 DEF LeaveWrite, AgesInv, AgesHonest
  <2> QED
    BY <1>4, <2>1, <2>2, <2>3, <2>4, <2>5 DEF Command
<1>5. ASSUME NEW d \in Device, HeartbeatTick(d) \/ HeartbeatMissed(d)
      PROVE  AgesInv'
  BY <1>t, <1>5
  DEF HeartbeatTick, HeartbeatMissed, regVars, opVars, hist, AgesInv,
      AgesHonest, StampsHonest
<1>6. CASE UNCHANGED vars
  BY <1>t, <1>6
  DEF vars, regVars, opVars, hist, AgesInv, AgesHonest, StampsHonest
<1> QED
  BY <1>1, <1>2, <1>3, <1>4, <1>5, <1>6 DEF Next

(***************************************************************************)
(* AgesHonest holds for any number of devices: no interleaving of joins,   *)
(* heartbeats and leaves makes an entry younger than its own device made   *)
(* it, so the entry of a device that is gone orphans after three keepalive *)
(* intervals, whatever the others do.                                      *)
(***************************************************************************)
THEOREM EntriesHonest == Spec => []AgesHonest
<1>1. AgesInv => AgesHonest
  BY DEF AgesInv
<1> QED
  BY AgesInit, AgesStep, <1>1, PTL DEF Spec
(***************************************************************************)
(* SerialRegistryExact and EntriesStayFresh are not inductive, and need    *)
(* each other: what a join prunes is not a connected device because its    *)
(* entry is fresh, and it is fresh because no other device has dropped it. *)
(* The invariant they need follows a list from its read to its write, the  *)
(* session from a join that found it to its write, and the time between    *)
(* two writes of a device.                                                 *)
(***************************************************************************)
\* A device whose heartbeats have all been sent.
Beating(d) == conn[d] = "on" /\ misses[d] = 0

\* The age an entry may have: of a device that waits for its timer, and of one
\* that is about to write.
Due(d) ==
    IF Busy(d) THEN Interval + MaxDelay + lag[d] ELSE timer[d] + MaxDelay

\* The time an operation took is not older than the operation.
StampsRecent == \A d \in Device : stamp[d] <= lag[d]

\* The session a join has found or created is there, unless it was told stale.
JoinsFindSession ==
    \A d \in Device : op[d] = "join" /\ pc[d] \in {"read", "write"} /\ ~stale[d] => there

\* Nobody who leaves is connected.
LeaversAreOff == \A d \in Device : op[d] = "leave" => conn[d] # "on"

\* What has been read of the others is so until it is called stale.
ReadsCurrent ==
    \A e \in Device : op[e] # "none" /\ pc[e] = "write" /\ ~stale[e] =>
        \A d \in Device \ {e} : Beating(d) => seen[e][d] = age[d]

\* The registry is there for a beating device, and its entry is not overdue.
EntriesOnTime == \A d \in Device : Beating(d) => there /\ age[d] <= Due(d)

SerialInv ==
    /\ TypeOK
    /\ StampsRecent
    /\ JoinsFindSession
    /\ ~raced => LeaversAreOff /\ ReadsCurrent /\ EntriesOnTime
LEMMA SerialInit == Init => SerialInv
<1> SUFFICES ASSUME Init PROVE SerialInv
  OBVIOUS
<1>1. TypeOK
  BY TypeInit
<1> QED
  BY <1>1 DEF Init, SerialInv, StampsRecent, JoinsFindSession, LeaversAreOff, ReadsCurrent,
              EntriesOnTime, Beating

\* Time that passes makes what was read as much older as what it was read from,
\* and an entry as much older as it may become.
LEMMA SerialTick ==
    ASSUME SerialInv, Tick, TypeOK'
    PROVE  SerialInv'
<1> USE Limits
<1>1. StampsRecent'
  <2> SUFFICES ASSUME NEW d \in Device PROVE stamp'[d] <= lag'[d]
    BY DEF StampsRecent
  <2>1. stamp[d] \in Nat /\ lag[d] \in Nat /\ stamp[d] <= lag[d] /\ Older(stamp[d]) <= stamp[d] + 1
    BY DEF SerialInv, TypeOK, Age, StampsRecent, Older
  <2>2. CASE op[d] = "none"
    BY <2>1, <2>2 DEF Tick
  <2>3. CASE op[d] # "none"
    <3>1. stamp'[d] = Older(stamp[d]) /\ lag'[d] = lag[d] + 1
      BY <2>3 DEF Tick, Busy
    <3> QED
      BY <2>1, <3>1 DEF Older
  <2> QED
    BY <2>2, <2>3
<1>2. JoinsFindSession'
  BY DEF Tick, SerialInv, JoinsFindSession
<1>3. ASSUME ~raced' PROVE LeaversAreOff' /\ ReadsCurrent' /\ EntriesOnTime'
  <2>1. ~raced /\ LeaversAreOff /\ ReadsCurrent /\ EntriesOnTime
    BY <1>3 DEF Tick, SerialInv
  <2>2. LeaversAreOff'
    BY <2>1 DEF Tick, LeaversAreOff
  <2>3. \A d \in Device : Beating(d)' <=> Beating(d)
    BY DEF Tick, Beating
  <2>4. ReadsCurrent'
    BY <2>1, <2>3 DEF Tick, ReadsCurrent
  <2>5. ASSUME NEW d \in Device, Beating(d) PROVE there' /\ age'[d] <= Due(d)'
    <3>1. there /\ age[d] <= Due(d) /\ age[d] \in Nat /\ timer[d] \in Nat /\ lag[d] \in Nat
      BY <2>1, <2>5 DEF EntriesOnTime, SerialInv, TypeOK, Entries
    <3>2. age'[d] <= age[d] + 1
      BY <3>1 DEF Tick, Older
    <3>3. conn[d] = "on" /\ (Busy(d)' <=> Busy(d))
      BY <2>5 DEF Tick, Beating, Busy
    <3>4. timer'[d] = timer[d] + 1 /\ lag'[d] = IF Busy(d) THEN lag[d] + 1 ELSE 0
      BY <3>3 DEF Tick
    <3>5. Due(d)' = IF Busy(d) THEN Interval + MaxDelay + lag'[d] ELSE timer'[d] + MaxDelay
      BY <3>3 DEF Due
    <3>6. age'[d] \in Nat /\ there' = there
      BY <3>1 DEF Tick, Older
    <3> QED
      BY <3>1, <3>2, <3>4, <3>5, <3>6 DEF Due
  <2> QED
    BY <2>2, <2>3, <2>4, <2>5 DEF EntriesOnTime
<1> QED
  BY <1>1, <1>2, <1>3 DEF SerialInv

\* Steps that neither end an operation nor touch the registry: at most one device
\* becomes busier, none starts to beat, and no timer goes back unless its device
\* is busy from then on.
LEMMA SerialQuiet ==
    ASSUME SerialInv, TypeOK', UNCHANGED <<there, age, seen, lag>>,
           StampsRecent', JoinsFindSession', raced => raced',
           ~raced' => LeaversAreOff',
           \A e \in Device : /\ op'[e] # "none" /\ pc'[e] = "write" /\ ~stale'[e]
                             => op[e] # "none" /\ pc[e] = "write" /\ ~stale[e],
           \A d \in Device : /\ Beating(d)' => Beating(d)
                             /\ Busy(d) => Busy(d)'
                             /\ Beating(d)' => Busy(d)' \/ timer'[d] = timer[d]
    PROVE  SerialInv'
<1> USE Limits
<1>1. ASSUME ~raced' PROVE ReadsCurrent' /\ EntriesOnTime'
  <2>1. ReadsCurrent /\ EntriesOnTime
    BY <1>1 DEF SerialInv
  <2>2. ReadsCurrent'
    BY <2>1 DEF ReadsCurrent
  <2>3. ASSUME NEW d \in Device, Beating(d)' PROVE there' /\ age'[d] <= Due(d)'
    <3>1. there /\ age[d] <= Due(d) /\ Beating(d)
      BY <2>1, <2>3 DEF EntriesOnTime
    <3>2. /\ timer[d] \in 0 .. Interval /\ timer'[d] \in 0 .. Interval /\ lag[d] \in Nat
          /\ lag'[d] = lag[d] /\ age[d] \in Nat
      BY DEF SerialInv, TypeOK, Entries
    <3> QED
      BY <2>3, <3>1, <3>2 DEF Due
  <2> QED
    BY <2>2, <2>3 DEF EntriesOnTime
<1> QED
  BY <1>1 DEF SerialInv

LEMMA SerialUser ==
    ASSUME SerialInv, TypeOK', NEW d \in Device, Connect(d) \/ OpenTab(d) \/ Disconnect(d)
    PROVE  SerialInv'
<1>1. /\ UNCHANGED <<there, age, seen, lag, op, pc, stamp, stale, raced, timer, misses>>
      /\ conn \in [Device -> {"off", "joining", "on"}] /\ wanted \in [Device -> SUBSET Kind]
  BY DEF Connect, OpenTab, Disconnect, regVars, hist, SerialInv, TypeOK
<1>2. \A e \in Device : (conn'[e] = "on" => conn[e] = "on") /\ wanted[e] \subseteq wanted'[e]
  BY <1>1 DEF Connect, OpenTab, Disconnect, Want
<1>3. StampsRecent' /\ JoinsFindSession'
  BY <1>1 DEF SerialInv, StampsRecent, JoinsFindSession
<1>4. ~raced' => LeaversAreOff'
  BY <1>1, <1>2 DEF SerialInv, LeaversAreOff
<1>5. \A e \in Device : /\ Beating(e)' => Beating(e)
                        /\ Busy(e) => Busy(e)'
  BY <1>1, <1>2 DEF Beating, Busy
<1> QED
  BY <1>1, <1>3, <1>4, <1>5, SerialQuiet

LEMMA SerialTimer ==
    ASSUME SerialInv, TypeOK', NEW d \in Device, HeartbeatTick(d) \/ HeartbeatMissed(d)
    PROVE  SerialInv'
<1>1. /\ UNCHANGED <<there, age, seen, lag, op, pc, stamp, stale, raced, conn>>
      /\ misses \in [Device -> 0 .. MaxMisses] /\ wanted \in [Device -> SUBSET Kind]
      /\ timer \in [Device -> 0 .. Interval]
  BY DEF HeartbeatTick, HeartbeatMissed, regVars, opVars, hist, SerialInv, TypeOK
<1>2. \A e \in Device : wanted[e] \subseteq wanted'[e] /\ (e # d => timer'[e] = timer[e])
  BY <1>1 DEF HeartbeatTick, HeartbeatMissed, Want, opVars
<1>3. \A e \in Device : misses'[e] = 0 => misses[e] = 0
  BY <1>1 DEF HeartbeatTick, HeartbeatMissed
<1>4. "beat" \in wanted'[d] \/ misses'[d] # 0
  BY <1>1 DEF HeartbeatTick, HeartbeatMissed, Want
<1>5. StampsRecent' /\ JoinsFindSession' /\ (~raced' => LeaversAreOff')
  BY <1>1 DEF SerialInv, StampsRecent, JoinsFindSession, LeaversAreOff
<1>6. \A e \in Device : /\ Beating(e)' => Beating(e)
                        /\ Busy(e) => Busy(e)'
                        /\ Beating(e)' => Busy(e)' \/ timer'[e] = timer[e]
  BY <1>1, <1>2, <1>3, <1>4 DEF Beating, Busy
<1> QED
  BY <1>1, <1>5, <1>6, SerialQuiet

LEMMA SerialStart ==
    ASSUME SerialInv, TypeOK', NEW d \in Device, NEW kind \in Kind, Start(d, kind)
    PROVE  SerialInv'
<1>1. /\ UNCHANGED <<there, age, seen, lag, conn, timer, misses>>
      /\ wanted \in [Device -> SUBSET Kind] /\ op \in [Device -> Kind \union {"none"}]
      /\ pc \in [Device -> {"check", "create", "read", "write"}] /\ stale \in [Device -> BOOLEAN]
      /\ stamp \in [Device -> Age] /\ kind # "none" /\ lag \in [Device -> 0 .. MaxDelay]
  BY DEF Start, regVars, SerialInv, TypeOK, Kind
<1>2. /\ op'[d] = kind /\ pc'[d] = (IF kind = "join" THEN "check" ELSE "read")
      /\ stamp'[d] = 0 /\ raced' = (raced \/ (kind = "leave" /\ conn[d] # "off"))
  BY <1>1 DEF Start
<1>3. \A e \in Device : e # d => /\ op'[e] = op[e] /\ pc'[e] = pc[e] /\ stamp'[e] = stamp[e]
                                  /\ stale'[e] = stale[e] /\ wanted'[e] = wanted[e]
  BY <1>1 DEF Start
<1>4. StampsRecent'
  BY <1>1, <1>2, <1>3, Limits DEF SerialInv, StampsRecent
<1>5. JoinsFindSession'
  BY <1>1, <1>2, <1>3 DEF SerialInv, JoinsFindSession
<1>6. ~raced' => LeaversAreOff'
  BY <1>1, <1>2, <1>3 DEF SerialInv, LeaversAreOff
<1>7. \A e \in Device : op'[e] # "none" /\ pc'[e] = "write" /\ ~stale'[e]
                        => op[e] # "none" /\ pc[e] = "write" /\ ~stale[e]
  BY <1>2, <1>3
<1>8. \A e \in Device : /\ Beating(e)' => Beating(e)
                        /\ Busy(e) => Busy(e)'
  BY <1>1, <1>2, <1>3 DEF Beating, Busy
<1> QED
  BY <1>1, <1>2, <1>4, <1>5, <1>6, <1>7, <1>8, SerialQuiet

LEMMA SerialJoin ==
    ASSUME SerialInv, TypeOK', NEW d \in Device, JoinCheck(d) \/ JoinCreate(d)
    PROVE  SerialInv'
<1>1. /\ UNCHANGED <<age, seen, lag, conn, timer, misses, wanted, op, stamp, stale, raced>>
      /\ pc \in [Device -> {"check", "create", "read", "write"}]
      /\ there' \in BOOLEAN /\ there \in BOOLEAN
  BY DEF JoinCheck, JoinCreate, regVars, hist, SerialInv, TypeOK
<1>2. /\ there => there'
      /\ pc'[d] \in {"read", "create"} /\ (pc'[d] = "read" => there')
      /\ \A e \in Device : e # d => pc'[e] = pc[e]
  BY <1>1 DEF JoinCheck, JoinCreate, regVars
<1>3. StampsRecent' /\ JoinsFindSession' /\ (~raced' => LeaversAreOff')
  BY <1>1, <1>2 DEF SerialInv, StampsRecent, JoinsFindSession, LeaversAreOff
<1>4. ASSUME ~raced' PROVE ReadsCurrent' /\ EntriesOnTime'
  <2>1. \A e \in Device : (Beating(e)' <=> Beating(e)) /\ Due(e)' = Due(e)
    BY <1>1 DEF Beating, Due, Busy
  <2> QED
    BY <1>1, <1>2, <1>4, <2>1 DEF SerialInv, ReadsCurrent, EntriesOnTime
<1> QED
  BY <1>3, <1>4 DEF SerialInv

\* A beating device's entry is younger than an orphan's, so no join prunes it.
LEMMA BeatingKept ==
    ASSUME 2 * MaxDelay <= Keepalive, SerialInv, EntriesOnTime, NEW d \in Device, Beating(d)
    PROVE  age[d] \in Nat /\ ~OrphanAge(age[d]) /\ age[d] # Absent /\ there
<1>1. /\ there /\ age[d] <= Due(d) /\ age[d] \in Nat
      /\ timer[d] \in 0 .. Interval /\ lag[d] \in 0 .. MaxDelay
  BY Limits DEF EntriesOnTime, SerialInv, TypeOK, Entries
<1>2. age[d] <= Interval + MaxDelay + MaxDelay
  BY <1>1, Limits DEF Due
<1> QED
  BY <1>1, <1>2, Limits, KeepaliveAssumption DEF OrphanAge, Interval, Limit, Old, Absent
LEMMA SerialRead ==
    ASSUME 2 * MaxDelay <= Keepalive, SerialInv, TypeOK', NEW d \in Device,
           ReadDevices(d) \/ ReadFails(d)
    PROVE  SerialInv'
<1>1. /\ UNCHANGED <<there, age, conn, wanted, op, stamp, timer, lag, misses, raced>>
      /\ pc \in [Device -> {"check", "create", "read", "write"}]
      /\ stale \in [Device -> BOOLEAN] /\ seen \in [Device -> Entries]
      /\ pc[d] = "read" /\ op[d] # "none"
  BY DEF ReadDevices, ReadFails, regVars, hist, SerialInv, TypeOK
<1>2. /\ \A e \in Device : e # d => /\ pc'[e] = pc[e] /\ stale'[e] = stale[e]
                                     /\ seen'[e] = seen[e]
      /\ pc'[d] = "write"
      /\ ~stale'[d] => ~stale[d] /\ seen'[d] = Pruned(d, age)
  BY <1>1 DEF ReadDevices, ReadFails, hist
<1>3. StampsRecent' /\ JoinsFindSession' /\ (~raced' => LeaversAreOff')
  BY <1>1, <1>2 DEF SerialInv, StampsRecent, JoinsFindSession, LeaversAreOff
<1>4. ASSUME ~raced' PROVE ReadsCurrent' /\ EntriesOnTime'
  <2>1. ReadsCurrent /\ EntriesOnTime
    BY <1>1, <1>4 DEF SerialInv
  <2>2. \A x \in Device : (Beating(x)' <=> Beating(x)) /\ Due(x)' = Due(x)
    BY <1>1 DEF Beating, Due, Busy
  <2>3. \A x \in Device \ {d} : Beating(x) => Pruned(d, age)[x] = age[x]
    BY <2>1, BeatingKept DEF Pruned
  <2>4. ReadsCurrent'
    BY <1>1, <1>2, <2>1, <2>2, <2>3 DEF ReadsCurrent
  <2> QED
    BY <1>1, <2>1, <2>2, <2>4 DEF EntriesOnTime
<1> QED
  BY <1>3, <1>4 DEF SerialInv

\* An operation that ends is forgotten; the others stay as they are.
LEMMA FinishFrame ==
    ASSUME TypeOK, NEW d \in Device, Finish(d)
    PROVE  /\ op'[d] = "none" /\ pc'[d] = "read" /\ stamp'[d] = 0 /\ lag'[d] = 0
           /\ \A e \in Device : e # d => /\ op'[e] = op[e] /\ pc'[e] = pc[e]
                                         /\ stamp'[e] = stamp[e] /\ lag'[e] = lag[e]
                                         /\ seen'[e] = seen[e]
BY DEF Finish, TypeOK

\* An operation that fails or dies with its process.
LEMMA SerialGone ==
    ASSUME SerialInv, TypeOK', NEW d \in Device, WriteFails(d) \/ Crash(d)
    PROVE  SerialInv'
<1>1. /\ UNCHANGED <<there, age, timer, misses>> /\ Finish(d)
      /\ conn \in [Device -> {"off", "joining", "on"}] /\ wanted \in [Device -> SUBSET Kind]
      /\ stale \in [Device -> BOOLEAN] /\ TypeOK
  BY DEF WriteFails, Crash, regVars, SerialInv, TypeOK
<1>2. /\ op'[d] = "none" /\ pc'[d] = "read" /\ stamp'[d] = 0 /\ lag'[d] = 0
      /\ \A e \in Device : e # d => /\ op'[e] = op[e] /\ pc'[e] = pc[e]
                                     /\ stamp'[e] = stamp[e] /\ lag'[e] = lag[e]
                                     /\ seen'[e] = seen[e]
  BY <1>1, FinishFrame
<1>3. \A e \in Device : e # d => /\ stale'[e] = stale[e] /\ conn'[e] = conn[e]
                                  /\ wanted'[e] = wanted[e]
  BY <1>1 DEF WriteFails, Crash
<1>4. StampsRecent' /\ JoinsFindSession'
  BY <1>1, <1>2, <1>3 DEF SerialInv, StampsRecent, JoinsFindSession
<1>5. ASSUME ~raced' PROVE LeaversAreOff' /\ ReadsCurrent' /\ EntriesOnTime'
  <2>1. conn'[d] = "off" /\ ~raced
    BY <1>1, <1>5 DEF WriteFails, Crash
  <2>2. LeaversAreOff /\ ReadsCurrent /\ EntriesOnTime
    BY <2>1 DEF SerialInv
  <2>3. \A e \in Device : /\ Beating(e)' => Beating(e) /\ e # d
                          /\ e # d => Due(e)' = Due(e)
    BY <1>1, <1>2, <1>3, <2>1 DEF Beating, Due, Busy
  <2>4. LeaversAreOff'
    BY <1>2, <1>3, <2>2 DEF LeaversAreOff
  <2>5. ReadsCurrent'
    BY <1>1, <1>2, <1>3, <2>2, <2>3 DEF ReadsCurrent
  <2> QED
    BY <1>1, <2>2, <2>3, <2>4, <2>5 DEF EntriesOnTime
<1> QED
  BY <1>4, <1>5 DEF SerialInv

\* What a finished operation does to the operations of others: those that have
\* read are stale, and so are joins that have found a session now killed.
LEMMA SerialEnd ==
    ASSUME SerialInv, NEW d \in Device, Finish(d), MarkStale(d),
           there' # there => ~there'
    PROVE  /\ StampsRecent' /\ JoinsFindSession'
           /\ \A e \in Device : op'[e] # "none" /\ pc'[e] = "write" => stale'[e]
<1>1. /\ op'[d] = "none" /\ pc'[d] = "read" /\ stamp'[d] = 0 /\ lag'[d] = 0
      /\ \A e \in Device : e # d => /\ op'[e] = op[e] /\ pc'[e] = pc[e]
                                     /\ stamp'[e] = stamp[e] /\ lag'[e] = lag[e]
                                     /\ seen'[e] = seen[e]
  BY FinishFrame DEF SerialInv
<1>2. \A e \in Device : e # d =>
        /\ op[e] # "none" /\ pc[e] = "write" => stale'[e]
        /\ ~stale'[e] => ~stale[e]
        /\ op[e] = "join" /\ pc[e] = "read" /\ ~there' => stale'[e]
  BY DEF MarkStale
<1>3. StampsRecent'
  BY <1>1, Limits DEF SerialInv, StampsRecent
<1>4. \A e \in Device : op'[e] # "none" /\ pc'[e] = "write" => stale'[e]
  BY <1>1, <1>2
<1>5. JoinsFindSession'
  <2> SUFFICES ASSUME NEW e \in Device, op'[e] = "join", pc'[e] = "read", ~stale'[e]
               PROVE  there'
    BY <1>4 DEF JoinsFindSession
  <2> QED
    BY <1>1, <1>2
<1> QED
  BY <1>3, <1>4, <1>5

LEMMA SerialWrite ==
    ASSUME SerialInv, TypeOK', NEW d \in Device, WriteDevices(d)
    PROVE  SerialInv'
<1>1. /\ op[d] \in {"join", "beat"} /\ pc[d] = "write" /\ Finish(d) /\ MarkStale(d)
      /\ UNCHANGED <<there, wanted>> /\ raced' = (raced \/ stale[d])
      /\ age' = IF there THEN Written(d) ELSE age
      /\ TypeOK
  BY DEF WriteDevices, SetEnvironment, SerialInv
<1>2. /\ \A e \in Device : e # d => /\ conn'[e] = conn[e] /\ misses'[e] = misses[e]
                                     /\ timer'[e] = timer[e]
      /\ conn'[d] = "on" => conn[d] = "on" \/ op[d] = "join"
      /\ misses'[d] = IF there THEN 0 ELSE misses[d]
  BY DEF WriteDevices, SerialInv, TypeOK
<1>3. /\ StampsRecent' /\ JoinsFindSession'
      /\ \A e \in Device : op'[e] # "none" /\ pc'[e] = "write" => stale'[e]
  BY <1>1, SerialEnd
<1>4. ASSUME ~raced' PROVE LeaversAreOff' /\ ReadsCurrent' /\ EntriesOnTime'
  <2>1. ~stale[d] /\ ~raced /\ LeaversAreOff /\ ReadsCurrent /\ EntriesOnTime
    BY <1>1, <1>4 DEF SerialInv
  <2>2. /\ op'[d] = "none" /\ lag'[d] = 0
        /\ \A e \in Device : e # d => op'[e] = op[e] /\ lag'[e] = lag[e]
    BY <1>1, FinishFrame
  <2>3. LeaversAreOff'
    BY <1>2, <2>1, <2>2 DEF LeaversAreOff
  <2>4. ReadsCurrent'
    BY <1>3 DEF ReadsCurrent
  <2>5. ASSUME NEW e \in Device, Beating(e)', e # d PROVE there' /\ age'[e] <= Due(e)'
    <3>1. Beating(e) /\ Due(e)' = Due(e)
      BY <1>1, <1>2, <2>2, <2>5 DEF Beating, Due, Busy
    <3>2. there /\ age[e] <= Due(e) /\ seen[d][e] = age[e]
      BY <1>1, <2>1, <2>5, <3>1 DEF EntriesOnTime, ReadsCurrent
    <3>3. Written(d)[e] = age[e]
      BY <1>1, <2>5, <3>2 DEF Written, TypeOK, Entries
    <3> QED
      BY <1>1, <3>1, <3>2, <3>3
  <2>6. ASSUME Beating(d)' PROVE there' /\ age'[d] <= Due(d)'
    <3>1. there
      <4>1. CASE op[d] = "join"
        BY <1>1, <2>1, <4>1 DEF SerialInv, JoinsFindSession
      <4>2. CASE conn[d] = "on"
        BY <1>2, <2>1, <2>6, <4>2 DEF Beating, EntriesOnTime
      <4> QED
        BY <1>2, <2>6, <4>1, <4>2 DEF Beating
    <3>2. age'[d] = stamp[d]
      BY <1>1, <3>1 DEF Written, TypeOK, Entries
    <3>3. stamp[d] \in Nat /\ lag[d] \in 0 .. MaxDelay /\ stamp[d] <= lag[d]
      BY <1>1 DEF TypeOK, Age, SerialInv, StampsRecent
    <3>4. timer'[d] \in Nat /\ lag'[d] \in Nat
      BY Limits DEF TypeOK
    <3> QED
      BY <1>1, <3>1, <3>2, <3>3, <3>4, Limits DEF Due
  <2> QED
    BY <2>3, <2>4, <2>5, <2>6 DEF EntriesOnTime
<1> QED
  BY <1>3, <1>4 DEF SerialInv

LEMMA SerialLeave ==
    ASSUME 2 * MaxDelay <= Keepalive, SerialInv, TypeOK', NEW d \in Device, LeaveWrite(d)
    PROVE  SerialInv'
<1>1. /\ op[d] = "leave" /\ pc[d] = "write" /\ Finish(d) /\ MarkStale(d)
      /\ UNCHANGED <<conn, wanted, timer, misses>> /\ raced' = (raced \/ stale[d])
      /\ there' = (there /\ seen[d] # Nobody) /\ TypeOK
      /\ there' => age' = seen[d]
  BY DEF LeaveWrite, LastToLeave, SetEnvironment, SerialInv
<1>2. /\ StampsRecent' /\ JoinsFindSession'
      /\ \A e \in Device : op'[e] # "none" /\ pc'[e] = "write" => stale'[e]
  <2>1. there' # there => ~there'
    BY <1>1 DEF TypeOK
  <2> QED
    BY <1>1, <2>1, SerialEnd
<1>3. ASSUME ~raced' PROVE LeaversAreOff' /\ ReadsCurrent' /\ EntriesOnTime'
  <2>1. ~stale[d] /\ ~raced /\ LeaversAreOff /\ ReadsCurrent /\ EntriesOnTime
    BY <1>1, <1>3 DEF SerialInv
  <2>2. /\ op'[d] = "none"
        /\ \A e \in Device : e # d => op'[e] = op[e] /\ lag'[e] = lag[e]
    BY <1>1, FinishFrame
  <2>3. LeaversAreOff'
    BY <1>1, <2>1, <2>2 DEF LeaversAreOff
  <2>4. ReadsCurrent'
    BY <1>2 DEF ReadsCurrent
  <2>5. ASSUME NEW e \in Device, Beating(e)' PROVE there' /\ age'[e] <= Due(e)'
    <3>1. Beating(e) /\ e # d
      BY <1>1, <2>1, <2>5 DEF Beating, LeaversAreOff
    <3>2. Due(e)' = Due(e)
      BY <1>1, <2>2, <3>1 DEF Due, Busy
    <3>3. there /\ age[e] <= Due(e) /\ seen[d][e] = age[e] /\ age[e] # Absent
      BY <1>1, <2>1, <3>1, BeatingKept DEF EntriesOnTime, ReadsCurrent
    <3>4. seen[d] # Nobody
      BY <3>3 DEF Nobody
    <3> QED
      BY <1>1, <3>2, <3>3, <3>4
  <2> QED
    BY <2>3, <2>4, <2>5 DEF EntriesOnTime
<1> QED
  BY <1>2, <1>3 DEF SerialInv

LEMMA SerialStep ==
    ASSUME 2 * MaxDelay <= Keepalive
    PROVE  SerialInv /\ [Next]_vars => SerialInv'
<1> SUFFICES ASSUME SerialInv, [Next]_vars PROVE SerialInv'
  OBVIOUS
<1>1. TypeOK'
  BY TypeStep DEF SerialInv
<1>2. CASE Tick
  BY <1>1, <1>2, SerialTick
<1>3. ASSUME NEW d \in Device, UserStep(d) PROVE SerialInv'
  BY <1>1, <1>3, SerialUser, SerialGone DEF UserStep
<1>4. ASSUME NEW d \in Device, Command(d) PROVE SerialInv'
  BY <1>1, <1>4, SerialJoin, SerialRead, SerialWrite, SerialGone, SerialLeave DEF Command
<1>5. ASSUME NEW d \in Device, HeartbeatTick(d) \/ HeartbeatMissed(d) PROVE SerialInv'
  BY <1>1, <1>5, SerialTimer
<1>6. ASSUME NEW d \in Device, NEW kind \in Kind, Start(d, kind) PROVE SerialInv'
  BY <1>1, <1>6, SerialStart
<1>7. CASE UNCHANGED vars
  BY <1>1, <1>7 DEF vars, regVars, opVars, hist, SerialInv, StampsRecent, JoinsFindSession,
                    LeaversAreOff, ReadsCurrent, EntriesOnTime, Beating, Due, Busy
<1> QED
  BY <1>2, <1>3, <1>4, <1>5, <1>6, <1>7 DEF Next

(***************************************************************************)
(* Without a race, a failed call or a skipped heartbeat the registry lists *)
(* every connected device, for any number of devices and any interval of   *)
(* which a device's remote operation takes at most half: what joins prune, *)
(* leaves write back and the last one kills is never a connected device.   *)
(***************************************************************************)
THEOREM SerialIsExact ==
    ASSUME 2 * MaxDelay <= Keepalive
    PROVE  Spec => []SerialRegistryExact
<1>1. SerialInv => SerialRegistryExact
  BY BeatingKept DEF SerialInv, SerialRegistryExact, Beating, Listed
<1>2. SerialInv /\ [Next]_vars => SerialInv'
  BY SerialStep
<1> QED
  BY SerialInit, <1>1, <1>2, PTL DEF Spec

(***************************************************************************)
(* Under the same condition the heartbeats of a device come in time: its   *)
(* entry never reaches the age at which joins prune it.  The two delays,   *)
(* of the last write and of the next, fit into the third keepalive         *)
(* interval that LOCK_ORPHAN_MULTIPLIER leaves after the timer's two.      *)
(***************************************************************************)
THEOREM HeartbeatsInTime ==
    ASSUME 2 * MaxDelay <= Keepalive
    PROVE  Spec => []EntriesStayFresh
<1>1. SerialInv => EntriesStayFresh
  BY BeatingKept DEF SerialInv, EntriesStayFresh, Beating
<1>2. SerialInv /\ [Next]_vars => SerialInv'
  BY SerialStep
<1> QED
  BY SerialInit, <1>1, <1>2, PTL DEF Spec
=============================================================================
