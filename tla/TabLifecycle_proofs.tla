-------------------------- MODULE TabLifecycle_proofs --------------------------
(***************************************************************************)
(* Theorems of TabLifecycle: no tab waits for nothing, none is served by   *)
(* nobody, and a connection that works is left alone; for any tabs, any    *)
(* number of attempts in memory, any limits and any network.               *)
(*                                                                         *)
(* The parts of the invariant lean on one another.  Tabs that are in       *)
(* overtaken had two attempts unanswered at once; of the others an answer  *)
(* is the answer of the one attempt (OneAtATime), and finds the channel in *)
(* the holder that the tab keeps (AnswersOwed, ConnectingIsUnderway).  The *)
(* order of the messages (ReportsInTime) keeps the report of an old stream *)
(* from ending a new one.                                                  *)
(***************************************************************************)
EXTENDS TabLifecycle, FiniteSetTheorems, SequenceTheorems, WellFoundedInduction, TLAPS

(***************************************************************************)
(* The inductive invariant.                                                *)
(***************************************************************************)
IsAnswer(i) == inbox[i].what \in Answer
IsReport(i) == inbox[i].what \in Reason

\* Attempts, messages and holders belong to tabs that were opened.
TabsNamed ==
    /\ \A s \in Slots : slots[s].stage # "over" =>
        slots[s].tab \in TabIds /\ tabs[slots[s].tab].state # "unborn"
    /\ \A i \in DOMAIN inbox : tabs[inbox[i].tab].state # "unborn"
    /\ \A t \in TabIds : tabs[t].holder # None => slots[tabs[t].holder].tab = t

\* An answer in the inbox is the one answer of an attempt that waits for it.
AnswersOwed ==
    /\ \A i \in DOMAIN inbox : IsAnswer(i) =>
        /\ slots[inbox[i].slot].stage = "posted"
        /\ slots[inbox[i].slot].tab = inbox[i].tab
        /\ inbox[i].what = "ok" /\ inbox[i].tab \notin overtaken =>
            slots[inbox[i].slot].channel = "full"
    /\ \A i, j \in DOMAIN inbox :
        IsAnswer(i) /\ IsAnswer(j) /\ inbox[i].slot = inbox[j].slot => i = j

\* What it means for the attempts of a tab not to overlap.
OneAtATime ==
    \A t \in TabIds \ overtaken :
        /\ \A s, r \in Unanswered(t) : s = r
        /\ tabs[t].state = "Connected" => Unanswered(t) = {}

\* The end of a stream is handled before the tab can be connected again.
ReportsInTime ==
    \A t \in TabIds \ overtaken :
        /\ \A i, j \in DOMAIN inbox :
            inbox[i].tab = t /\ inbox[j].tab = t /\ IsReport(i) /\ IsAnswer(j) => i < j
        /\ tabs[t].state = "Connected" /\ streams[t] # "ended" =>
            \A i \in DOMAIN inbox : inbox[i].tab = t => ~IsReport(i)

\* The tick counts the attempts that it started.
AutoHasTerminal ==
    \A t \in In("Connecting") : slots[tabs[t].holder].auto => tabs[t].terminal

AttemptsInv ==
    /\ TypeOK /\ TabsNamed /\ AnswersOwed /\ OneAtATime /\ ReportsInTime
    /\ ConnectingIsUnderway /\ ConnectedIsServed /\ PromptedTabWaits

LimitInv == AutoHasTerminal /\ ReconnectsLimited

(***************************************************************************)
(* The least of some numbers; an inbox that loses its head or gains a last *)
(* message.                                                                *)
(***************************************************************************)
LEMMA FirstIs ==
    ASSUME NEW S \in SUBSET Nat, S # {}
    PROVE  First(S) \in S
<1> DEFINE Less == {ss \in Nat \X Nat : ss[1] < ss[2]}
<1>1. IsWellFoundedOn(Less, Nat)
  BY NatLessThanWellFounded DEF OpToRel
<1> HIDE DEF Less
<1>2. PICK x \in S : \A y \in S : <<y, x>> \notin Less
  BY <1>1, WFMin
<1>3. \A y \in S : x <= y
  <2> TAKE y \in S
  <2>1. x \in Nat /\ y \in Nat
    BY S \subseteq Nat
  <2>2. <<y, x>> \notin Less
    BY <1>2
  <2>3. ~(y < x)
    BY <2>1, <2>2 DEF Less
  <2> QED
    BY <2>1, <2>3
<1> QED
  BY <1>3 DEF First

LEMMA FreeSlotIs ==
    ASSUME FreeSlots # {}
    PROVE  First(FreeSlots) \in FreeSlots
<1>1. FreeSlots \in SUBSET Nat
  BY SlotsAssumption DEF FreeSlots
<1> QED
  BY <1>1, FirstIs

LEMMA TailIs ==
    ASSUME NEW S, NEW q \in Seq(S), q # <<>>
    PROVE  /\ 1 \in DOMAIN q /\ q[1] = Head(q) /\ Head(q) \in S
           /\ Tail(q) \in Seq(S)
           /\ \A i \in DOMAIN Tail(q) : i \in Nat /\ i + 1 \in DOMAIN q /\ Tail(q)[i] = q[i + 1]
           /\ \A i \in DOMAIN q : i # 1 => i - 1 \in DOMAIN Tail(q) /\ Tail(q)[i - 1] = q[i]
           /\ \A i \in DOMAIN q : i \in Nat
  OBVIOUS

LEMMA MessageIs ==
    ASSUME NEW q \in Seq(Message), NEW i \in DOMAIN q
    PROVE  q[i].tab \in TabIds /\ q[i].slot \in Slots /\ q[i].what \in Answer \union Reason
<1>1. q[i] \in Message
  OBVIOUS
<1> QED
  BY <1>1 DEF Message

LEMMA AppendIs ==
    ASSUME NEW S, NEW q \in Seq(S), NEW e \in S
    PROVE  /\ Append(q, e) \in Seq(S)
           /\ \A i \in DOMAIN q : i \in DOMAIN Append(q, e) /\ Append(q, e)[i] = q[i]
           /\ \A i \in DOMAIN Append(q, e) :
                \/ i \in DOMAIN q
                \/ Append(q, e)[i] = e /\ \A j \in DOMAIN q : j < i
           /\ \E i \in DOMAIN Append(q, e) : Append(q, e)[i] = e
           /\ \A i, j \in DOMAIN Append(q, e) : i \notin DOMAIN q /\ j \notin DOMAIN q => i = j
<1>1. /\ Append(q, e) \in Seq(S)
      /\ Len(Append(q, e)) = Len(q) + 1 /\ Len(q) \in Nat
      /\ Append(q, e)[Len(q) + 1] = e
      /\ \A i \in 1 .. Len(q) : Append(q, e)[i] = q[i]
  BY AppendProperties, LenProperties
<1>2. DOMAIN q = 1 .. Len(q) /\ DOMAIN Append(q, e) = 1 .. Len(q) + 1
  BY <1>1, LenProperties
<1> QED
  BY <1>1, <1>2

(***************************************************************************)
(* What every handler ends with, in the terms of the proofs.               *)
(***************************************************************************)
Updated(sl) ==
    /\ slots' \in [Slots -> Slot]
    /\ streams' \in [TabIds -> {"none", "starting", "reading", "ended", "parked"}]
    /\ \A s \in Slots :
        \/ slots'[s] = sl[s]
        \/ /\ slots'[s].stage = "over" /\ sl[s].stage = "over"
           /\ \A t \in TabIds : tabs'[t].holder # s
    /\ \A t \in TabIds :
        /\ streams'[t] # "none" <=> tabs'[t].state = "Connected"
        /\ tabs'[t].state = "Connected" =>
            streams'[t] = IF streams[t] = "none" THEN "starting" ELSE streams[t]

LEMMA UpdateGives ==
    ASSUME TypeOK, NEW sl \in [Slots -> Slot], slots' = Sweep(sl, tabs'),
           streams' = Track(tabs')
    PROVE  Updated(sl)
<1>1. Idle \in Slot
  BY DEF Idle, Slot
<1>2. \A s \in Slots :
        slots'[s] = IF sl[s].stage = "over" /\ \A t \in TabIds : tabs'[t].holder # s
                    THEN Idle ELSE sl[s]
  BY DEF Sweep
<1>3. slots' \in [Slots -> Slot]
  BY <1>1 DEF Sweep
<1>4. streams' \in [TabIds -> {"none", "starting", "reading", "ended", "parked"}]
  BY DEF Track, TypeOK
<1>5. \A t \in TabIds :
        streams'[t] = IF tabs'[t].state # "Connected" THEN "none"
                      ELSE IF streams[t] = "none" THEN "starting" ELSE streams[t]
  BY DEF Track
<1>6. Idle.stage = "over"
  BY DEF Idle
<1> QED
  BY <1>2, <1>3, <1>4, <1>5, <1>6 DEF Updated

(***************************************************************************)
(* Steps that take tabs out of their connections, and start nothing.       *)
(***************************************************************************)
Resting ==
    {r \in Tab : /\ r.state \in {"Reconnecting", "Disconnected", "closed"}
                 /\ r.holder = None
                 /\ r.attempt # 0 => r.state = "Reconnecting"}

QuietStep ==
    /\ tabs' \in [TabIds -> Tab]
    /\ \A t \in TabIds : tabs'[t] = tabs[t] \/ (IsOpen(t) /\ tabs'[t] \in Resting)
    /\ Updated(slots)
    /\ \/ inbox' = inbox
       \/ /\ inbox # <<>> /\ inbox' = Tail(inbox) /\ Head(inbox).what \in Reason
          /\ tabs'[Head(inbox).tab].state # "Connected"
    /\ \/ prompt' = None
       \/ prompt' = prompt /\ (tabs[prompt].state \in {"Disconnected", "closed"} =>
                                tabs'[prompt].state \in {"Disconnected", "closed"})
    /\ overtaken' = overtaken /\ reach' \subseteq TabIds

\* Messages that are left are those that were there, in their order.
InboxShrinks ==
    /\ inbox' \in Seq(Message)
    /\ \E k \in {0, 1} :
        /\ k = 1 => inbox' # inbox
        /\ \A i \in DOMAIN inbox' : /\ i \in Nat /\ i + k \in DOMAIN inbox
                                    /\ inbox'[i] = inbox[i + k]
        /\ \A i \in DOMAIN inbox : /\ i \in Nat
                                   /\ \/ i - k \in DOMAIN inbox' /\ inbox'[i - k] = inbox[i]
                                      \/ i = 1 /\ k = 1 /\ inbox[1] = Head(inbox)

LEMMA InboxShrunk ==
    ASSUME TypeOK, inbox' = inbox \/ (inbox # <<>> /\ inbox' = Tail(inbox))
    PROVE  InboxShrinks
<1>1. inbox \in Seq(Message)
  BY DEF TypeOK
<1>2. CASE inbox' = inbox
  <2>1. \A i \in DOMAIN inbox : i \in Nat /\ i + 0 = i /\ i - 0 = i
    BY <1>1
  <2> QED
    BY <1>1, <1>2, <2>1 DEF InboxShrinks
<1>3. CASE inbox # <<>> /\ inbox' = Tail(inbox)
  <2>1. Tail(inbox) # inbox
    BY <1>1, <1>3
  <2> QED
    BY <1>1, <1>3, <2>1, TailIs DEF InboxShrinks
<1> QED
  BY <1>2, <1>3

LEMMA QuietSafe ==
    ASSUME AttemptsInv, QuietStep
    PROVE  AttemptsInv'
<1> USE DEF AttemptsInv
<1>a. InboxShrinks
  <2>1. inbox' = inbox \/ (inbox # <<>> /\ inbox' = Tail(inbox))
    BY DEF QuietStep
  <2> QED
    BY <2>1, InboxShrunk
<1>1. PICK k \in {0, 1} :
        /\ inbox' \in Seq(Message) /\ (k = 1 => inbox' # inbox)
        /\ \A i \in DOMAIN inbox' : /\ i \in Nat /\ i + k \in DOMAIN inbox
                                    /\ inbox'[i] = inbox[i + k]
        /\ \A i \in DOMAIN inbox :
            /\ i \in Nat
            /\ \/ i - k \in DOMAIN inbox' /\ inbox'[i - k] = inbox[i]
               \/ i = 1 /\ k = 1 /\ inbox[1] = Head(inbox)
  BY <1>a DEF InboxShrinks
<1>b. \A i \in DOMAIN inbox' : inbox'[i].tab \in TabIds /\ inbox'[i].slot \in Slots
  BY <1>1, MessageIs
<1>2. \A t \in TabIds : tabs'[t] = tabs[t] \/ (IsOpen(t) /\ tabs'[t] \in Resting)
  BY DEF QuietStep
<1>3. \A t \in TabIds :
        tabs'[t].state \in {"Connecting", "Connected"} => tabs'[t] = tabs[t]
  BY <1>2 DEF Resting
<1>4. \A s \in Slots :
        \/ slots'[s] = slots[s]
        \/ /\ slots'[s].stage = "over" /\ slots[s].stage = "over"
           /\ \A t \in TabIds : tabs'[t].holder # s
  BY DEF QuietStep, Updated
<1>5. \A s \in Slots : slots[s].stage # "over" \/ slots'[s].stage # "over" => slots'[s] = slots[s]
  BY <1>4
<1>6. \A t \in TabIds : Unanswered(t)' = Unanswered(t)
  BY <1>5 DEF Unanswered
<1>7. \A t \in TabIds : tabs'[t].holder # None => tabs'[t] = tabs[t]
  BY <1>2 DEF Resting
<1>8. TypeOK'
  <2>1. /\ tabs' \in [TabIds -> Tab] /\ slots' \in [Slots -> Slot]
        /\ streams' \in [TabIds -> {"none", "starting", "reading", "ended", "parked"}]
        /\ prompt' \in TabIds \union {None} /\ reach' \subseteq TabIds
        /\ overtaken' \subseteq TabIds
    BY DEF QuietStep, Updated, TypeOK
  <2>2. \A t \in TabIds :
          /\ tabs'[t].holder # None <=> tabs'[t].state \in {"Connecting", "Connected"}
          /\ tabs'[t].attempt # 0 => tabs'[t].state = "Reconnecting"
    BY <1>2 DEF Resting, TypeOK
  <2>3. \A t \in TabIds : streams'[t] # "none" <=> tabs'[t].state = "Connected"
    BY DEF QuietStep, Updated
  <2>4. \A t, u \in TabIds :
          tabs'[t].holder = tabs'[u].holder => t = u \/ tabs'[t].holder = None
    BY <1>7 DEF TypeOK
  <2> QED
    BY <1>1, <2>1, <2>2, <2>3, <2>4 DEF TypeOK
<1>9. TabsNamed'
  <2>1. \A t \in TabIds : tabs[t].state # "unborn" => tabs'[t].state # "unborn"
    BY <1>2 DEF Resting
  <2>2. \A i \in DOMAIN inbox' : tabs'[inbox'[i].tab].state # "unborn"
    <3> TAKE i \in DOMAIN inbox'
    <3>1. inbox'[i].tab \in TabIds
      BY <1>b
    <3> QED
      BY <1>1, <2>1, <3>1 DEF TabsNamed
  <2>3. \A t \in TabIds : tabs'[t].holder # None => slots'[tabs'[t].holder].tab = t
    <3> SUFFICES ASSUME NEW t \in TabIds, tabs'[t].holder # None
                 PROVE  slots'[tabs'[t].holder].tab = t
      OBVIOUS
    <3>1. tabs'[t] = tabs[t] /\ tabs[t].holder \in Slots
      BY <1>7 DEF TypeOK, Tab
    <3> QED
      BY <1>4, <3>1 DEF TabsNamed
  <2> QED
    BY <1>5, <2>1, <2>2, <2>3 DEF TabsNamed
<1>10. AnswersOwed'
  <2>1. overtaken' = overtaken
    BY DEF QuietStep
  <2>2. \A i \in DOMAIN inbox' :
          i + k \in DOMAIN inbox /\ inbox'[i] = inbox[i + k] /\ inbox'[i].slot \in Slots
    BY <1>1, <1>b
  <2>3. ASSUME NEW i \in DOMAIN inbox', IsAnswer(i)'
        PROVE  /\ slots'[inbox'[i].slot].stage = "posted"
               /\ slots'[inbox'[i].slot].tab = inbox'[i].tab
               /\ inbox'[i].what = "ok" /\ inbox'[i].tab \notin overtaken' =>
                    slots'[inbox'[i].slot].channel = "full"
    BY <1>5, <2>1, <2>2, <2>3 DEF AnswersOwed, IsAnswer
  <2>4. ASSUME NEW i \in DOMAIN inbox', NEW j \in DOMAIN inbox', IsAnswer(i)', IsAnswer(j)',
               inbox'[i].slot = inbox'[j].slot
        PROVE  i = j
    <3>1. i + k = j + k
      BY <2>2, <2>4 DEF AnswersOwed, IsAnswer
    <3> QED
      BY <1>1, <3>1
  <2> QED
    BY <2>3, <2>4 DEF AnswersOwed
<1>11. OneAtATime'
  <2>1. overtaken' = overtaken
    BY DEF QuietStep
  <2>2. \A t \in TabIds : tabs'[t].state = "Connected" => tabs[t].state = "Connected"
    BY <1>3
  <2> QED
    BY <1>6, <2>1, <2>2 DEF OneAtATime
<1>12. ReportsInTime'
  <2>1. overtaken' = overtaken
    BY DEF QuietStep
  <2>2. ASSUME NEW t \in TabIds \ overtaken, NEW i \in DOMAIN inbox', NEW j \in DOMAIN inbox',
               inbox'[i].tab = t, inbox'[j].tab = t, IsReport(i)', IsAnswer(j)'
        PROVE  i < j
    <3>1. /\ i \in Nat /\ i + k \in DOMAIN inbox /\ inbox'[i] = inbox[i + k]
          /\ j \in Nat /\ j + k \in DOMAIN inbox /\ inbox'[j] = inbox[j + k]
      BY <1>1
    <3>2. i + k < j + k
      BY <2>2, <3>1 DEF ReportsInTime, IsReport, IsAnswer
    <3> QED
      BY <3>1, <3>2
  <2>3. ASSUME NEW t \in TabIds \ overtaken, tabs'[t].state = "Connected",
               streams'[t] # "ended", NEW i \in DOMAIN inbox', inbox'[i].tab = t
        PROVE  ~IsReport(i)'
    <3>1. tabs[t].state = "Connected" /\ streams[t] # "ended"
      BY <1>3, <2>3 DEF QuietStep, Updated
    <3> QED
      BY <1>1, <2>3, <3>1 DEF ReportsInTime, IsReport
  <2> QED
    BY <2>1, <2>2, <2>3 DEF ReportsInTime
<1>13. ConnectingIsUnderway'
  <2>1. \A t \in In("Connecting")' : t \in In("Connecting") /\ tabs'[t] = tabs[t]
    BY <1>3 DEF In
  <2> QED
    BY <1>6, <2>1 DEF ConnectingIsUnderway, In
<1>14. ConnectedIsServed'
  <2> SUFFICES ASSUME NEW t \in TabIds, tabs'[t].state = "Connected", t \notin overtaken
               PROVE  \/ streams'[t] = "starting" /\ slots'[tabs'[t].holder].channel = "full"
                      \/ streams'[t] = "reading"
                      \/ /\ streams'[t] = "ended"
                         /\ \E i \in DOMAIN inbox' : /\ inbox'[i].tab = t
                                                     /\ inbox'[i].what \in Reason
                                                     /\ inbox'[i].slot = tabs'[t].holder
    BY DEF ConnectedIsServed, In, QuietStep
  <2>1. tabs'[t] = tabs[t] /\ tabs[t].holder \in Slots /\ streams[t] # "none"
    BY <1>3 DEF TypeOK, Tab
  <2>2. streams'[t] = streams[t]
    BY <2>1 DEF QuietStep, Updated
  <2>3. slots'[tabs'[t].holder] = slots[tabs[t].holder]
    BY <1>4, <2>1
  <2>4. \/ streams[t] = "starting" /\ slots[tabs[t].holder].channel = "full"
        \/ streams[t] = "reading"
        \/ /\ streams[t] = "ended"
           /\ \E i \in DOMAIN inbox : /\ inbox[i].tab = t /\ inbox[i].what \in Reason
                                      /\ inbox[i].slot = tabs[t].holder
    BY <2>1 DEF ConnectedIsServed, In
  <2>5. ASSUME NEW i \in DOMAIN inbox, inbox[i].tab = t
        PROVE  \E j \in DOMAIN inbox' : inbox'[j] = inbox[i]
    <3>1. CASE i = 1 /\ k = 1 /\ inbox[1] = Head(inbox)
      BY <1>1, <2>5, <3>1 DEF QuietStep
    <3> QED
      BY <1>1, <2>5, <3>1
  <2> QED
    BY <2>1, <2>2, <2>3, <2>4, <2>5
<1>15. PromptedTabWaits'
  BY <1>6 DEF PromptedTabWaits, QuietStep, TypeOK
<1> QED
  BY <1>8, <1>9, <1>10, <1>11, <1>12, <1>13, <1>14, <1>15

(***************************************************************************)
(* The start of an attempt.                                                *)
(***************************************************************************)
LEMMA StartSafe ==
    ASSUME AttemptsInv, NEW t \in TabIds, NEW s \in FreeSlots,
           NEW terminal \in BOOLEAN, NEW auto \in BOOLEAN, Start(t, s, terminal, auto),
           inbox' = inbox, reach' = reach,
           \/ prompt' = None
           \/ prompt' = prompt /\ tabs[t].state \notin {"Disconnected", "closed"}
    PROVE  AttemptsInv'
<1> USE DEF AttemptsInv
<1> DEFINE new == [tab |-> t, stage |-> "running", channel |-> "empty", auto |-> auto]
           sl  == [slots EXCEPT ![s] = new]
<1>1. /\ s \in Slots /\ slots[s].stage = "over"
      /\ \A u \in TabIds : tabs[u].holder # s
      /\ \A i \in DOMAIN inbox : inbox[i].slot # s
  BY DEF FreeSlots
<1>2. /\ tabs' \in [TabIds -> Tab]
      /\ tabs'[t] = Connecting(s, terminal)
      /\ \A u \in TabIds \ {t} : tabs'[u] = tabs[u]
  <2>1. tabs' = [tabs EXCEPT ![t] = Connecting(s, terminal)]
    BY DEF Start, SetTab, Update
  <2>2. Connecting(s, terminal) \in Tab
    BY <1>1 DEF Connecting, Tab, State
  <2> QED
    BY <2>1, <2>2 DEF TypeOK
<1>3. /\ tabs'[t].state = "Connecting" /\ tabs'[t].holder = s /\ tabs'[t].attempt = 0
  BY <1>2 DEF Connecting
<1>4. Updated(sl)
  <2>1. sl \in [Slots -> Slot]
    BY <1>1 DEF TypeOK, Slot
  <2>2. slots' = Sweep(sl, tabs') /\ streams' = Track(tabs')
    BY DEF Start, SetTab, Update
  <2> HIDE DEF sl
  <2> QED
    BY <2>1, <2>2, UpdateGives
<1>5. sl[s] = new /\ \A r \in Slots \ {s} : sl[r] = slots[r]
  BY <1>1 DEF TypeOK
<1>6. new.tab = t /\ new.stage = "running" /\ new.channel = "empty" /\ new.auto = auto
  OBVIOUS
<1> HIDE DEF new, sl
<1>7. slots'[s] = new
  BY <1>1, <1>3, <1>4, <1>5 DEF Updated
<1>8. \A r \in Slots \ {s} :
        \/ slots'[r] = slots[r]
        \/ /\ slots'[r].stage = "over" /\ slots[r].stage = "over"
           /\ \A u \in TabIds : tabs'[u].holder # r
  BY <1>4, <1>5 DEF Updated
<1>9. \A r \in Slots \ {s} :
        slots[r].stage # "over" \/ slots'[r].stage # "over" => slots'[r] = slots[r]
  BY <1>8
<1>10. /\ \A u \in TabIds \ {t} : Unanswered(u)' = Unanswered(u)
       /\ Unanswered(t)' = Unanswered(t) \union {s}
       /\ s \notin Unanswered(t)
  BY <1>1, <1>6, <1>7, <1>9 DEF Unanswered
<1>11. /\ overtaken \subseteq overtaken' /\ overtaken' \subseteq overtaken \union {t}
       /\ t \notin overtaken' => Unanswered(t) = {}
  BY DEF Start
<1>12. TypeOK'
  <2>1. /\ slots' \in [Slots -> Slot]
        /\ streams' \in [TabIds -> {"none", "starting", "reading", "ended", "parked"}]
    BY <1>4 DEF Updated
  <2>2. /\ prompt' \in TabIds \union {None} /\ reach' \subseteq TabIds
        /\ overtaken' \subseteq TabIds /\ inbox' \in Seq(Message)
    BY <1>11 DEF TypeOK
  <2>3. \A u \in TabIds :
          /\ tabs'[u].holder # None <=> tabs'[u].state \in {"Connecting", "Connected"}
          /\ tabs'[u].attempt # 0 => tabs'[u].state = "Reconnecting"
    BY <1>1, <1>2, <1>3, NoneAssumption DEF TypeOK
  <2>4. \A u \in TabIds : streams'[u] # "none" <=> tabs'[u].state = "Connected"
    BY <1>4 DEF Updated
  <2>5. \A u, v \in TabIds :
          tabs'[u].holder = tabs'[v].holder => u = v \/ tabs'[u].holder = None
    BY <1>1, <1>2, <1>3 DEF TypeOK
  <2> QED
    BY <1>2, <2>1, <2>2, <2>3, <2>4, <2>5 DEF TypeOK
<1>13. TabsNamed'
  <2>1. \A u \in TabIds : tabs[u].state # "unborn" => tabs'[u].state # "unborn"
    BY <1>2, <1>3
  <2>2. \A r \in Slots : slots'[r].stage # "over" =>
          slots'[r].tab \in TabIds /\ tabs'[slots'[r].tab].state # "unborn"
    BY <1>1, <1>3, <1>6, <1>7, <1>9, <2>1 DEF TabsNamed
  <2>3. \A i \in DOMAIN inbox' : tabs'[inbox'[i].tab].state # "unborn"
    <3> TAKE i \in DOMAIN inbox'
    <3>1. inbox[i].tab \in TabIds
      BY MessageIs DEF TypeOK
    <3> QED
      BY <2>1, <3>1 DEF TabsNamed
  <2>4. ASSUME NEW u \in TabIds, tabs'[u].holder # None
        PROVE  slots'[tabs'[u].holder].tab = u
    <3>1. CASE u = t
      BY <1>3, <1>6, <1>7, <3>1
    <3>2. CASE u # t
      <4>1. tabs'[u] = tabs[u] /\ tabs[u].holder \in Slots \ {s}
        BY <1>1, <1>2, <2>4, <3>2 DEF TypeOK, Tab
      <4> QED
        BY <1>8, <2>4, <4>1 DEF TabsNamed
    <3> QED
      BY <3>1, <3>2
  <2> QED
    BY <2>2, <2>3, <2>4 DEF TabsNamed
<1>14. AnswersOwed'
  <2>1. ASSUME NEW i \in DOMAIN inbox', IsAnswer(i)'
        PROVE  /\ slots'[inbox'[i].slot].stage = "posted"
               /\ slots'[inbox'[i].slot].tab = inbox'[i].tab
               /\ inbox'[i].what = "ok" /\ inbox'[i].tab \notin overtaken' =>
                    slots'[inbox'[i].slot].channel = "full"
    <3>1. inbox[i].slot \in Slots \ {s}
      BY <1>1, MessageIs DEF TypeOK
    <3> QED
      BY <1>9, <1>11, <2>1, <3>1 DEF AnswersOwed, IsAnswer
  <2> QED
    BY <2>1 DEF AnswersOwed, IsAnswer
<1>15. OneAtATime'
  BY <1>2, <1>3, <1>10, <1>11 DEF OneAtATime
<1>16. ReportsInTime'
  <2>1. \A u \in TabIds : tabs'[u].state = "Connected" /\ streams'[u] # "ended" =>
          tabs[u].state = "Connected" /\ streams[u] # "ended"
    BY <1>2, <1>3, <1>4 DEF Updated
  <2> QED
    BY <1>11, <2>1 DEF ReportsInTime, IsReport, IsAnswer
<1>17. ConnectingIsUnderway'
  BY <1>2, <1>3, <1>10 DEF ConnectingIsUnderway, In
<1>18. ConnectedIsServed'
  <2> SUFFICES ASSUME NEW u \in TabIds, tabs'[u].state = "Connected", u \notin overtaken'
               PROVE  \/ streams'[u] = "starting" /\ slots'[tabs'[u].holder].channel = "full"
                      \/ streams'[u] = "reading"
                      \/ /\ streams'[u] = "ended"
                         /\ \E i \in DOMAIN inbox' : /\ inbox'[i].tab = u
                                                     /\ inbox'[i].what \in Reason
                                                     /\ inbox'[i].slot = tabs'[u].holder
    BY DEF ConnectedIsServed, In
  <2>1. u # t /\ tabs'[u] = tabs[u] /\ tabs[u].holder \in Slots \ {s} /\ streams[u] # "none"
    BY <1>1, <1>2, <1>3 DEF TypeOK, Tab
  <2>2. streams'[u] = streams[u]
    BY <1>4, <2>1 DEF Updated
  <2>3. slots'[tabs'[u].holder] = slots[tabs[u].holder]
    BY <1>8, <2>1
  <2> QED
    BY <1>11, <2>1, <2>2, <2>3 DEF ConnectedIsServed, In
<1>19. PromptedTabWaits'
  <2> SUFFICES ASSUME prompt' # None, prompt' \notin overtaken'
               PROVE  /\ tabs'[prompt'].state \in {"Disconnected", "closed"}
                      /\ \A r \in Slots : slots'[r].tab = prompt' => slots'[r].stage = "over"
    BY DEF PromptedTabWaits, Unanswered
  <2>1. prompt' = prompt /\ prompt \in TabIds /\ prompt \notin overtaken
    BY <1>11 DEF TypeOK
  <2>2. tabs[prompt].state \in {"Disconnected", "closed"} /\ Unanswered(prompt) = {}
    BY <2>1 DEF PromptedTabWaits
  <2>3. prompt # t
    BY <2>1, <2>2
  <2> QED
    BY <1>1, <1>2, <1>6, <1>7, <1>9, <2>1, <2>2, <2>3 DEF Unanswered
<1> QED
  BY <1>12, <1>13, <1>14, <1>15, <1>16, <1>17, <1>18, <1>19

(***************************************************************************)
(* The answer of an attempt.                                               *)
(***************************************************************************)
Served(t, m) == m.what = "ok" /\ tabs[t].state = "Connecting"

LEMMA AnswerSafe ==
    ASSUME AttemptsInv, inbox # <<>>, Head(inbox).what \in Answer, inbox' = Tail(inbox),
           NEW new, Answered(new),
           \/ new = tabs[Head(inbox).tab] /\ tabs[Head(inbox).tab].state # "Connecting"
           \/ new \in Resting
           \/ /\ Served(Head(inbox).tab, Head(inbox))
              /\ new = [tabs[Head(inbox).tab] EXCEPT !.state = "Connected"],
           overtaken' = overtaken, reach' = reach,
           \/ prompt' = prompt
           \/ prompt' = Head(inbox).tab /\ new \in Resting /\ new.state = "Disconnected"
    PROVE  AttemptsInv'
<1> USE DEF AttemptsInv
<1>1. /\ 1 \in DOMAIN inbox /\ inbox[1] = Head(inbox) /\ inbox' \in Seq(Message)
      /\ \A i \in DOMAIN inbox' : /\ i \in Nat /\ i + 1 \in DOMAIN inbox
                                  /\ inbox'[i] = inbox[i + 1]
      /\ \A i \in DOMAIN inbox : i # 1 => i - 1 \in DOMAIN inbox' /\ inbox'[i - 1] = inbox[i]
      /\ \A i \in DOMAIN inbox : i \in Nat
  BY TailIs DEF TypeOK
<1>2. PICK m : m = Head(inbox)
  OBVIOUS
<1>3. m.tab \in TabIds /\ m.slot \in Slots /\ m.what \in Answer
  BY <1>1, <1>2, MessageIs DEF TypeOK
<1>4. \A i \in DOMAIN inbox' : inbox'[i].tab \in TabIds /\ inbox'[i].slot \in Slots
  BY <1>1, MessageIs
<1>5. /\ slots[m.slot].stage = "posted" /\ slots[m.slot].tab = m.tab
      /\ m.what = "ok" /\ m.tab \notin overtaken => slots[m.slot].channel = "full"
      /\ tabs[m.tab].state # "unborn" /\ m.slot \in Unanswered(m.tab)
  BY <1>1, <1>2, <1>3 DEF AnswersOwed, TabsNamed, IsAnswer, Unanswered
<1> DEFINE sl == [slots EXCEPT ![m.slot].stage = "over"]
<1>6. /\ sl \in [Slots -> Slot]
      /\ sl[m.slot].stage = "over" /\ sl[m.slot].channel = slots[m.slot].channel
      /\ sl[m.slot].tab = slots[m.slot].tab
      /\ \A r \in Slots \ {m.slot} : sl[r] = slots[r]
  BY <1>3 DEF TypeOK, Slot
<1> HIDE DEF sl
<1>7. tabs' = [tabs EXCEPT ![m.tab] = IF IsOpen(m.tab) THEN new ELSE tabs[m.tab]]
      /\ slots' = Sweep(sl, tabs') /\ streams' = Track(tabs')
  BY <1>2 DEF Answered, SetTab, Update, sl
<1>8. Updated(sl)
  BY <1>6, <1>7, UpdateGives
<1>9. \A u \in TabIds \ {m.tab} : tabs'[u] = tabs[u]
  BY <1>7 DEF TypeOK
<1>10. \/ tabs'[m.tab] = tabs[m.tab] /\ tabs[m.tab].state # "Connecting"
       \/ tabs'[m.tab] \in Resting
       \/ /\ Served(m.tab, m)
          /\ tabs'[m.tab] = [tabs[m.tab] EXCEPT !.state = "Connected"]
  <2>1. CASE ~IsOpen(m.tab)
    BY <1>3, <1>7, <2>1 DEF TypeOK, IsOpen, State
  <2>2. CASE IsOpen(m.tab)
    <3>1. tabs'[m.tab] = new
      BY <1>3, <1>7, <2>2 DEF TypeOK
    <3> QED
      BY <1>2, <3>1
  <2> QED
    BY <2>1, <2>2
<1>11. /\ tabs' \in [TabIds -> Tab]
       /\ tabs'[m.tab].holder = tabs[m.tab].holder \/ tabs'[m.tab].holder = None
       /\ tabs'[m.tab].state # "unborn" /\ tabs'[m.tab].state # "Connecting"
       /\ tabs'[m.tab].holder # None <=> tabs'[m.tab].state = "Connected"
       /\ tabs'[m.tab].attempt # 0 => tabs'[m.tab].state = "Reconnecting"
  <2>1. tabs[m.tab] \in Tab
    BY <1>3 DEF TypeOK
  <2>2. /\ tabs[m.tab].holder # None <=> tabs[m.tab].state \in {"Connecting", "Connected"}
        /\ tabs[m.tab].attempt # 0 => tabs[m.tab].state = "Reconnecting"
    BY <1>3 DEF TypeOK
  <2>3. CASE tabs'[m.tab] = tabs[m.tab] /\ tabs[m.tab].state # "Connecting"
    BY <1>3, <1>5, <1>7, <2>1, <2>2, <2>3 DEF TypeOK
  <2>4. CASE tabs'[m.tab] \in Resting
    BY <1>3, <1>7, <2>4 DEF Resting, TypeOK
  <2>5. CASE /\ Served(m.tab, m)
             /\ tabs'[m.tab] = [tabs[m.tab] EXCEPT !.state = "Connected"]
    <3>1. tabs'[m.tab] \in Tab
      BY <2>1, <2>5 DEF Tab, State
    <3>2. tabs'[m.tab].state = "Connected" /\ tabs'[m.tab].holder = tabs[m.tab].holder
          /\ tabs'[m.tab].attempt = tabs[m.tab].attempt
      BY <2>1, <2>5 DEF Tab
    <3>3. tabs' \in [TabIds -> Tab]
      BY <1>3, <1>7, <3>1 DEF TypeOK
    <3> QED
      BY <2>2, <2>5, <3>2, <3>3 DEF Served
  <2> QED
    BY <1>10, <2>3, <2>4, <2>5
<1>12. /\ slots'[m.slot].stage = "over"
       /\ \A r \in Slots \ {m.slot} :
            \/ slots'[r] = slots[r]
            \/ /\ slots'[r].stage = "over" /\ slots[r].stage = "over"
               /\ \A u \in TabIds : tabs'[u].holder # r
       /\ \/ slots'[m.slot] = sl[m.slot]
          \/ \A u \in TabIds : tabs'[u].holder # m.slot
  BY <1>3, <1>6, <1>8 DEF Updated
<1>13. \A r \in Slots \ {m.slot} :
         slots[r].stage # "over" \/ slots'[r].stage # "over" => slots'[r] = slots[r]
  BY <1>12
<1>14. \A u \in TabIds : Unanswered(u)' = Unanswered(u) \ {m.slot}
  BY <1>12, <1>13 DEF Unanswered
<1>15. \A u \in TabIds \ {m.tab} : Unanswered(u)' = Unanswered(u)
  BY <1>5, <1>14 DEF Unanswered
<1>16. m.tab \notin overtaken => Unanswered(m.tab)' = {} /\ Unanswered(m.tab) = {m.slot}
  BY <1>3, <1>5, <1>14 DEF OneAtATime
<1>17. TypeOK'
  <2>1. /\ slots' \in [Slots -> Slot]
        /\ streams' \in [TabIds -> {"none", "starting", "reading", "ended", "parked"}]
    BY <1>8 DEF Updated
  <2>2. /\ prompt' \in TabIds \union {None} /\ reach' \subseteq TabIds
        /\ overtaken' \subseteq TabIds
    BY <1>2, <1>3 DEF TypeOK
  <2>3. \A u \in TabIds :
          /\ tabs'[u].holder # None <=> tabs'[u].state \in {"Connecting", "Connected"}
          /\ tabs'[u].attempt # 0 => tabs'[u].state = "Reconnecting"
    BY <1>9, <1>11 DEF TypeOK
  <2>4. \A u \in TabIds : streams'[u] # "none" <=> tabs'[u].state = "Connected"
    BY <1>8 DEF Updated
  <2>5. \A u, v \in TabIds :
          tabs'[u].holder = tabs'[v].holder => u = v \/ tabs'[u].holder = None
    BY <1>9, <1>11 DEF TypeOK
  <2> QED
    BY <1>1, <1>11, <2>1, <2>2, <2>3, <2>4, <2>5 DEF TypeOK
<1>18. TabsNamed'
  <2>1. \A u \in TabIds : tabs[u].state # "unborn" => tabs'[u].state # "unborn"
    BY <1>9, <1>11
  <2>2. \A r \in Slots : slots'[r].stage # "over" =>
          slots'[r].tab \in TabIds /\ tabs'[slots'[r].tab].state # "unborn"
    BY <1>12, <1>13, <2>1 DEF TabsNamed
  <2>3. \A i \in DOMAIN inbox' : tabs'[inbox'[i].tab].state # "unborn"
    BY <1>1, <1>4, <2>1 DEF TabsNamed
  <2>4. ASSUME NEW u \in TabIds, tabs'[u].holder # None
        PROVE  slots'[tabs'[u].holder].tab = u
    <3>1. tabs'[u].holder = tabs[u].holder /\ tabs[u].holder \in Slots
      BY <1>9, <1>11, <2>4 DEF TypeOK, Tab
    <3>2. slots[tabs[u].holder].tab = u
      BY <2>4, <3>1 DEF TabsNamed
    <3> QED
      BY <1>6, <1>12, <3>1, <3>2
  <2> QED
    BY <2>2, <2>3, <2>4 DEF TabsNamed
<1>19. AnswersOwed'
  <2>1. ASSUME NEW i \in DOMAIN inbox', IsAnswer(i)'
        PROVE  /\ slots'[inbox'[i].slot].stage = "posted"
               /\ slots'[inbox'[i].slot].tab = inbox'[i].tab
               /\ inbox'[i].what = "ok" /\ inbox'[i].tab \notin overtaken' =>
                    slots'[inbox'[i].slot].channel = "full"
    <3>1. i \in Nat /\ i + 1 \in DOMAIN inbox /\ inbox'[i] = inbox[i + 1] /\ i + 1 # 1
      BY <1>1, LenProperties
    <3>2. inbox[i + 1].slot \in Slots \ {m.slot}
      BY <1>1, <1>2, <1>3, <1>4, <2>1, <3>1 DEF AnswersOwed, IsAnswer
    <3> QED
      BY <1>13, <2>1, <3>1, <3>2 DEF AnswersOwed, IsAnswer
  <2>2. ASSUME NEW i \in DOMAIN inbox', NEW j \in DOMAIN inbox', IsAnswer(i)', IsAnswer(j)',
               inbox'[i].slot = inbox'[j].slot
        PROVE  i = j
    <3>1. i + 1 = j + 1
      BY <1>1, <2>2 DEF AnswersOwed, IsAnswer
    <3> QED
      BY <1>1, <3>1
  <2> QED
    BY <2>1, <2>2 DEF AnswersOwed
<1>20. OneAtATime'
  <2> SUFFICES ASSUME NEW u \in TabIds \ overtaken
               PROVE  /\ \A s, r \in Unanswered(u)' : s = r
                      /\ tabs'[u].state = "Connected" => Unanswered(u)' = {}
    BY DEF OneAtATime
  <2> QED
    BY <1>9, <1>15, <1>16 DEF OneAtATime
<1>21. ReportsInTime'
  <2>1. ASSUME NEW t \in TabIds \ overtaken, NEW i \in DOMAIN inbox', NEW j \in DOMAIN inbox',
               inbox'[i].tab = t, inbox'[j].tab = t, IsReport(i)', IsAnswer(j)'
        PROVE  i < j
    <3>1. i + 1 < j + 1
      BY <1>1, <2>1 DEF ReportsInTime, IsReport, IsAnswer
    <3> QED
      BY <1>1, <3>1
  <2>2. ASSUME NEW t \in TabIds \ overtaken, tabs'[t].state = "Connected",
               streams'[t] # "ended", NEW i \in DOMAIN inbox', inbox'[i].tab = t
        PROVE  ~IsReport(i)'
    <3>1. CASE t # m.tab
      <4>1. tabs[t].state = "Connected" /\ streams[t] # "ended"
        BY <1>8, <1>9, <2>2, <3>1 DEF Updated
      <4> QED
        BY <1>1, <2>2, <4>1 DEF ReportsInTime, IsReport
    <3>2. CASE t = m.tab
      <4>1. inbox[1].tab = t /\ IsAnswer(1) /\ i \in Nat /\ i # 0
        BY <1>1, <1>2, <1>3, <3>2, LenProperties DEF IsAnswer
      <4>2. inbox[i + 1].tab = t /\ i + 1 \in DOMAIN inbox
        BY <1>1, <2>2
      <4>3. ~IsReport(i + 1)
        BY <1>1, <2>2, <4>1, <4>2 DEF ReportsInTime
      <4> QED
        BY <1>1, <4>3 DEF IsReport
    <3> QED
      BY <3>1, <3>2
  <2> QED
    BY <2>1, <2>2 DEF ReportsInTime
<1>22. ConnectingIsUnderway'
  BY <1>9, <1>11, <1>15 DEF ConnectingIsUnderway, In
<1>23. ConnectedIsServed'
  <2> SUFFICES ASSUME NEW t \in TabIds, tabs'[t].state = "Connected", t \notin overtaken
               PROVE  \/ streams'[t] = "starting" /\ slots'[tabs'[t].holder].channel = "full"
                      \/ streams'[t] = "reading"
                      \/ /\ streams'[t] = "ended"
                         /\ \E i \in DOMAIN inbox' : /\ inbox'[i].tab = t
                                                     /\ inbox'[i].what \in Reason
                                                     /\ inbox'[i].slot = tabs'[t].holder
    BY DEF ConnectedIsServed, In
  <2>1. CASE t # m.tab
    <3>1. tabs'[t] = tabs[t] /\ tabs[t].holder \in Slots /\ streams[t] # "none"
          /\ slots[tabs[t].holder].tab = t
      BY <1>9, <2>1 DEF TypeOK, Tab, TabsNamed
    <3>2. streams'[t] = streams[t]
      BY <1>8, <3>1 DEF Updated
    <3>3. slots'[tabs'[t].holder] = slots[tabs[t].holder]
      BY <1>5, <1>12, <2>1, <3>1
    <3>4. \/ streams[t] = "starting" /\ slots[tabs[t].holder].channel = "full"
          \/ streams[t] = "reading"
          \/ /\ streams[t] = "ended"
             /\ \E i \in DOMAIN inbox : /\ inbox[i].tab = t /\ inbox[i].what \in Reason
                                        /\ inbox[i].slot = tabs[t].holder
      BY <3>1 DEF ConnectedIsServed, In
    <3>5. \A i \in DOMAIN inbox : inbox[i].tab = t => \E j \in DOMAIN inbox' : inbox'[j] = inbox[i]
      BY <1>1, <1>2, <2>1
    <3> QED
      BY <3>1, <3>2, <3>3, <3>4, <3>5
  <2>2. CASE t = m.tab
    <3>1. tabs[t].state # "Connected"
      BY <1>16, <2>2 DEF OneAtATime
    <3>2. /\ Served(m.tab, m)
          /\ tabs'[t] = [tabs[t] EXCEPT !.state = "Connected"]
      BY <1>10, <2>2, <3>1 DEF Resting
    <3>3. tabs'[t].holder = tabs[t].holder /\ tabs[t].holder = m.slot
      <4>1. tabs[t].holder \in Unanswered(t)
        BY <2>2, <3>2 DEF ConnectingIsUnderway, Served, In
      <4> QED
        BY <1>16, <2>2, <3>2, <4>1 DEF TypeOK, Tab
    <3>4. slots'[m.slot].channel = "full"
      <4>1. slots[m.slot].channel = "full"
        BY <1>5, <2>2, <3>2 DEF Served
      <4>2. slots'[m.slot] = sl[m.slot]
        BY <1>12, <2>2, <3>3
      <4> QED
        BY <1>6, <4>1, <4>2
    <3>5. streams'[t] = "starting"
      BY <1>8, <3>1 DEF Updated, TypeOK
    <3> QED
      BY <3>3, <3>4, <3>5
  <2> QED
    BY <2>1, <2>2
<1>24. PromptedTabWaits'
  <2> SUFFICES ASSUME prompt' # None, prompt' \notin overtaken
               PROVE  /\ tabs'[prompt'].state \in {"Disconnected", "closed"}
                      /\ \A r \in Slots : slots'[r].tab = prompt' => slots'[r].stage = "over"
    BY DEF PromptedTabWaits, Unanswered
  <2>1. CASE prompt' = prompt
    <3>1. prompt \in TabIds /\ Unanswered(prompt) = {}
          /\ tabs[prompt].state \in {"Disconnected", "closed"}
      BY <2>1 DEF PromptedTabWaits, TypeOK
    <3>2. prompt # m.tab
      BY <1>5, <3>1
    <3> QED
      BY <1>9, <1>12, <1>13, <2>1, <3>1, <3>2 DEF Unanswered
  <2>2. CASE prompt' = m.tab /\ new \in Resting /\ new.state = "Disconnected"
    <3>1. tabs'[m.tab].state \in {"Disconnected", "closed"}
      BY <1>3, <1>5, <1>7, <2>2 DEF IsOpen, TypeOK, Tab
    <3>2. \A r \in Slots : slots'[r].tab = m.tab => slots'[r].stage = "over"
      BY <1>16, <2>2 DEF Unanswered
    <3> QED
      BY <2>2, <3>1, <3>2
  <2> QED
    BY <1>2, <2>1, <2>2
<1> QED
  BY <1>17, <1>18, <1>19, <1>20, <1>21, <1>22, <1>23, <1>24

(***************************************************************************)
(* Attempts end, streams start and end: one message more, or none.         *)
(***************************************************************************)
LEMMA PostSafe ==
    ASSUME AttemptsInv, NEW s \in Slots, AttemptEnds(s)
    PROVE  AttemptsInv'
<1> USE DEF AttemptsInv
<1>1. PICK what \in Answer :
        /\ slots[s].stage = "running"
        /\ Post(slots[s].tab, s, what)
        /\ \/ what = "ok" /\ slots' = [slots EXCEPT ![s].stage = "posted", ![s].channel = "full"]
           \/ what # "ok" /\ slots' = [slots EXCEPT ![s].stage = "posted"]
        /\ UNCHANGED <<tabs, streams, prompt, reach, overtaken>>
  BY DEF AttemptEnds, AttemptSucceeds, AttemptFails, Answer, Failure
<1>2. PICK m : m = [tab |-> slots[s].tab, slot |-> s, what |-> what]
  OBVIOUS
<1>3. m.tab = slots[s].tab /\ m.slot = s /\ m.what = what
  BY <1>2
<1>4. slots[s].tab \in TabIds /\ tabs[slots[s].tab].state # "unborn"
  BY <1>1 DEF TabsNamed
<1>5. m \in Message
  BY <1>2, <1>4 DEF Message
<1>6. inbox' = Append(inbox, m)
  BY <1>1, <1>2 DEF Post
<1>7. /\ inbox' \in Seq(Message)
      /\ \A i \in DOMAIN inbox : i \in DOMAIN inbox' /\ inbox'[i] = inbox[i]
      /\ \A i \in DOMAIN inbox' :
           \/ i \in DOMAIN inbox
           \/ inbox'[i] = m /\ \A j \in DOMAIN inbox : j < i
      /\ \A i, j \in DOMAIN inbox' : i \notin DOMAIN inbox /\ j \notin DOMAIN inbox => i = j
  BY <1>5, <1>6, AppendIs DEF TypeOK
<1>8. /\ slots' \in [Slots -> Slot]
      /\ slots'[s].stage = "posted" /\ slots'[s].tab = slots[s].tab
      /\ slots'[s].auto = slots[s].auto
      /\ what = "ok" => slots'[s].channel = "full"
      /\ \A r \in Slots \ {s} : slots'[r] = slots[r]
  BY <1>1 DEF TypeOK, Slot
<1>9. \A u \in TabIds : Unanswered(u)' = Unanswered(u)
  BY <1>1, <1>8 DEF Unanswered
<1>10. \A i \in DOMAIN inbox : inbox[i].slot \in Slots /\ inbox[i].tab \in TabIds
  BY MessageIs DEF TypeOK
<1>11. \A i \in DOMAIN inbox : IsAnswer(i) => inbox[i].slot # s
  BY <1>1 DEF AnswersOwed
<1>12. m.what \notin Reason
  BY <1>3 DEF Reason, Answer, Failure
<1>13. TypeOK'
  BY <1>1, <1>7, <1>8 DEF TypeOK
<1>14. TabsNamed'
  <2>1. \A r \in Slots : slots'[r].stage # "over" =>
          slots'[r].tab \in TabIds /\ tabs'[slots'[r].tab].state # "unborn"
    BY <1>1, <1>4, <1>8 DEF TabsNamed
  <2>2. \A i \in DOMAIN inbox' : tabs'[inbox'[i].tab].state # "unborn"
    BY <1>1, <1>3, <1>4, <1>7 DEF TabsNamed
  <2>3. \A r \in Slots : slots'[r].tab = slots[r].tab
    BY <1>8
  <2>4. \A u \in TabIds : tabs'[u].holder # None => slots'[tabs'[u].holder].tab = u
    BY <1>1, <2>3 DEF TabsNamed, TypeOK, Tab
  <2> QED
    BY <2>1, <2>2, <2>4 DEF TabsNamed
<1>15. AnswersOwed'
  <2>1. ASSUME NEW i \in DOMAIN inbox', IsAnswer(i)'
        PROVE  /\ slots'[inbox'[i].slot].stage = "posted"
               /\ slots'[inbox'[i].slot].tab = inbox'[i].tab
               /\ inbox'[i].what = "ok" /\ inbox'[i].tab \notin overtaken' =>
                    slots'[inbox'[i].slot].channel = "full"
    <3>1. CASE i \in DOMAIN inbox
      <4>1. IsAnswer(i) /\ inbox'[i] = inbox[i] /\ inbox[i].slot \in Slots \ {s}
        BY <1>7, <1>10, <1>11, <2>1, <3>1 DEF IsAnswer
      <4> QED
        BY <1>1, <1>8, <3>1, <4>1 DEF AnswersOwed
    <3>2. CASE inbox'[i] = m
      BY <1>3, <1>8, <3>2
    <3> QED
      BY <1>7, <3>1, <3>2
  <2>2. ASSUME NEW i \in DOMAIN inbox', NEW j \in DOMAIN inbox', IsAnswer(i)', IsAnswer(j)',
               inbox'[i].slot = inbox'[j].slot
        PROVE  i = j
    <3>1. CASE i \in DOMAIN inbox /\ j \in DOMAIN inbox
      BY <1>7, <2>2, <3>1 DEF AnswersOwed, IsAnswer
    <3>2. CASE i \in DOMAIN inbox /\ j \notin DOMAIN inbox
      BY <1>3, <1>7, <1>11, <2>2, <3>2 DEF IsAnswer
    <3>3. CASE i \notin DOMAIN inbox /\ j \in DOMAIN inbox
      BY <1>3, <1>7, <1>11, <2>2, <3>3 DEF IsAnswer
    <3> QED
      BY <1>7, <3>1, <3>2, <3>3
  <2> QED
    BY <2>1, <2>2 DEF AnswersOwed
<1>16. OneAtATime'
  BY <1>1, <1>9 DEF OneAtATime
<1>17. ReportsInTime'
  <2>1. ASSUME NEW t \in TabIds \ overtaken, NEW i \in DOMAIN inbox', NEW j \in DOMAIN inbox',
               inbox'[i].tab = t, inbox'[j].tab = t, IsReport(i)', IsAnswer(j)'
        PROVE  i < j
    <3>1. i \in DOMAIN inbox /\ inbox'[i] = inbox[i]
      BY <1>7, <1>12, <2>1 DEF IsReport
    <3>2. CASE j \in DOMAIN inbox
      BY <1>7, <2>1, <3>1, <3>2 DEF ReportsInTime, IsReport, IsAnswer
    <3> QED
      BY <1>7, <3>1, <3>2
  <2>2. ASSUME NEW t \in TabIds \ overtaken, tabs'[t].state = "Connected",
               streams'[t] # "ended", NEW i \in DOMAIN inbox', inbox'[i].tab = t
        PROVE  ~IsReport(i)'
    BY <1>1, <1>7, <1>12, <2>2 DEF ReportsInTime, IsReport
  <2> QED
    BY <1>1, <2>1, <2>2 DEF ReportsInTime
<1>18. ConnectingIsUnderway'
  BY <1>1, <1>9 DEF ConnectingIsUnderway, In
<1>19. ConnectedIsServed'
  <2> SUFFICES ASSUME NEW t \in TabIds, tabs[t].state = "Connected", t \notin overtaken
               PROVE  \/ streams[t] = "starting" /\ slots'[tabs[t].holder].channel = "full"
                      \/ streams[t] = "reading"
                      \/ /\ streams[t] = "ended"
                         /\ \E i \in DOMAIN inbox' : /\ inbox'[i].tab = t
                                                     /\ inbox'[i].what \in Reason
                                                     /\ inbox'[i].slot = tabs[t].holder
    BY <1>1 DEF ConnectedIsServed, In
  <2>1. tabs[t].holder \in Slots /\ slots[tabs[t].holder].tab = t
    BY DEF TypeOK, Tab, TabsNamed
  <2>2. tabs[t].holder # s
    BY <1>1, <2>1 DEF OneAtATime, Unanswered
  <2>3. slots'[tabs[t].holder] = slots[tabs[t].holder]
    BY <1>8, <2>1, <2>2
  <2> QED
    BY <1>7, <2>3 DEF ConnectedIsServed, In
<1>20. PromptedTabWaits'
  <2>1. prompt' = prompt /\ overtaken' = overtaken /\ tabs' = tabs
    BY <1>1
  <2>2. \A r \in Slots : slots'[r].tab = slots[r].tab
          /\ (slots'[r].stage = "over" <=> slots[r].stage = "over")
    BY <1>1, <1>8
  <2> QED
    BY <2>1, <2>2 DEF PromptedTabWaits, Unanswered
<1> QED
  BY <1>13, <1>14, <1>15, <1>16, <1>17, <1>18, <1>19, <1>20

LEMMA StreamStartSafe ==
    ASSUME AttemptsInv, NEW t \in TabIds, StreamStarts(t)
    PROVE  AttemptsInv'
<1> USE DEF AttemptsInv
<1>1. PICK s : s = tabs[t].holder
  OBVIOUS
<1>2. /\ streams[t] = "starting" /\ tabs[t].state = "Connected"
      /\ s \in Slots /\ slots[s].tab = t
  BY <1>1 DEF StreamStarts, TypeOK, Tab, TabsNamed
<1>3. UNCHANGED <<tabs, inbox, prompt, reach, overtaken>>
  BY DEF StreamStarts
<1>4. \/ /\ slots[s].channel = "full"
         /\ streams' = [streams EXCEPT ![t] = "reading"]
         /\ slots' = [slots EXCEPT ![s].channel = "taken"]
      \/ /\ slots[s].channel # "full"
         /\ streams' = [streams EXCEPT ![t] = "parked"] /\ slots' = slots
  BY <1>1 DEF StreamStarts
<1>5. /\ slots' \in [Slots -> Slot]
      /\ \A r \in Slots : /\ slots'[r].tab = slots[r].tab /\ slots'[r].stage = slots[r].stage
                          /\ slots'[r].auto = slots[r].auto
                          /\ r # s => slots'[r] = slots[r]
  <2>1. slots \in [Slots -> Slot]
    BY DEF TypeOK
  <2>2. CASE slots' = [slots EXCEPT ![s].channel = "taken"]
    <3>1. slots'[s] = [slots[s] EXCEPT !.channel = "taken"] /\ slots[s] \in Slot
      BY <1>2, <2>1, <2>2
    <3>2. /\ slots'[s] \in Slot /\ slots'[s].tab = slots[s].tab
          /\ slots'[s].stage = slots[s].stage /\ slots'[s].auto = slots[s].auto
      BY <3>1 DEF Slot
    <3>3. slots' \in [Slots -> Slot] /\ \A r \in Slots : r # s => slots'[r] = slots[r]
      BY <1>2, <2>1, <2>2, <3>1, <3>2
    <3> QED
      BY <3>2, <3>3
  <2>3. CASE slots' = slots
    BY <2>1, <2>3
  <2> QED
    BY <1>4, <2>2, <2>3
<1>6. /\ streams' \in [TabIds -> {"none", "starting", "reading", "ended", "parked"}]
      /\ streams'[t] # "none" /\ streams'[t] # "ended"
      /\ \A u \in TabIds \ {t} : streams'[u] = streams[u]
      /\ t \notin overtaken => streams'[t] = "reading"
  <2>1. t \notin overtaken => slots[s].channel = "full"
    BY <1>1, <1>2 DEF ConnectedIsServed, In
  <2> QED
    BY <1>4, <2>1 DEF TypeOK
<1>7. \A u \in TabIds : Unanswered(u)' = Unanswered(u)
  BY <1>5 DEF Unanswered
<1>8. TypeOK'
  <2>1. \A u \in TabIds : streams'[u] # "none" <=> tabs[u].state = "Connected"
    BY <1>2, <1>6 DEF TypeOK
  <2> QED
    BY <1>3, <1>5, <1>6, <2>1 DEF TypeOK
<1>9. TabsNamed'
  <2>1. \A u \in TabIds : tabs[u].holder # None => slots'[tabs[u].holder].tab = u
    BY <1>5 DEF TabsNamed, TypeOK, Tab
  <2> QED
    BY <1>3, <1>5, <2>1 DEF TabsNamed
<1>10. AnswersOwed'
  <2>1. ASSUME NEW i \in DOMAIN inbox, IsAnswer(i)
        PROVE  /\ slots'[inbox[i].slot].stage = "posted"
               /\ slots'[inbox[i].slot].tab = inbox[i].tab
               /\ inbox[i].what = "ok" /\ inbox[i].tab \notin overtaken =>
                    slots'[inbox[i].slot].channel = "full"
    <3>1. inbox[i].slot \in Slots
      BY MessageIs DEF TypeOK
    <3>2. /\ slots[inbox[i].slot].stage = "posted"
          /\ slots[inbox[i].slot].tab = inbox[i].tab
          /\ inbox[i].what = "ok" /\ inbox[i].tab \notin overtaken =>
               slots[inbox[i].slot].channel = "full"
      BY <2>1 DEF AnswersOwed
    <3>3. inbox[i].tab \notin overtaken => inbox[i].slot # s
      BY <1>2, <3>1, <3>2 DEF OneAtATime, Unanswered
    <3> QED
      BY <1>5, <3>1, <3>2, <3>3
  <2> QED
    BY <1>3, <2>1 DEF AnswersOwed, IsAnswer
<1>11. OneAtATime'
  BY <1>3, <1>7 DEF OneAtATime
<1>12. ReportsInTime'
  <2>1. \A u \in TabIds : streams'[u] # "ended" => streams[u] # "ended"
    BY <1>2, <1>6
  <2> QED
    BY <1>3, <2>1 DEF ReportsInTime, IsReport, IsAnswer
<1>13. ConnectingIsUnderway'
  BY <1>3, <1>7 DEF ConnectingIsUnderway, In
<1>14. ConnectedIsServed'
  <2> SUFFICES ASSUME NEW u \in TabIds, tabs[u].state = "Connected", u \notin overtaken
               PROVE  \/ streams'[u] = "starting" /\ slots'[tabs[u].holder].channel = "full"
                      \/ streams'[u] = "reading"
                      \/ /\ streams'[u] = "ended"
                         /\ \E i \in DOMAIN inbox : /\ inbox[i].tab = u
                                                    /\ inbox[i].what \in Reason
                                                    /\ inbox[i].slot = tabs[u].holder
    BY <1>3 DEF ConnectedIsServed, In
  <2>1. CASE u = t
    BY <1>6, <2>1
  <2>2. CASE u # t
    <3>1. tabs[u].holder \in Slots \ {s}
      BY <1>1, <1>2, <2>2 DEF TypeOK, Tab, TabsNamed
    <3> QED
      BY <1>5, <1>6, <2>2, <3>1 DEF ConnectedIsServed, In
  <2> QED
    BY <2>1, <2>2
<1>15. PromptedTabWaits'
  BY <1>3, <1>5 DEF PromptedTabWaits, Unanswered
<1> QED
  BY <1>8, <1>9, <1>10, <1>11, <1>12, <1>13, <1>14, <1>15

LEMMA StreamEndSafe ==
    ASSUME AttemptsInv, NEW t \in TabIds, NEW reason \in Reason, StreamEnds(t, reason)
    PROVE  AttemptsInv'
<1> USE DEF AttemptsInv
<1>1. PICK m : m = [tab |-> t, slot |-> tabs[t].holder, what |-> reason]
  OBVIOUS
<1>2. streams[t] = "reading" /\ tabs[t].state = "Connected" /\ tabs[t].holder \in Slots
  BY DEF StreamEnds, TypeOK, Tab
<1>3. m \in Message
  BY <1>1, <1>2 DEF Message
<1>4. m.tab = t /\ m.slot = tabs[t].holder /\ m.what \in Reason /\ m.what \notin Answer
  BY <1>1 DEF Reason, Answer, Failure
<1>5. UNCHANGED <<tabs, slots, prompt, reach, overtaken>> /\ inbox' = Append(inbox, m)
  BY <1>1 DEF StreamEnds, Post
<1>6. /\ inbox' \in Seq(Message)
      /\ \A i \in DOMAIN inbox : i \in DOMAIN inbox' /\ inbox'[i] = inbox[i]
      /\ \A i \in DOMAIN inbox' :
           \/ i \in DOMAIN inbox
           \/ inbox'[i] = m /\ \A j \in DOMAIN inbox : j < i
      /\ \E i \in DOMAIN inbox' : inbox'[i] = m
  BY <1>3, <1>5, AppendIs DEF TypeOK
<1>7. /\ streams' \in [TabIds -> {"none", "starting", "reading", "ended", "parked"}]
      /\ streams'[t] = "ended" /\ \A u \in TabIds \ {t} : streams'[u] = streams[u]
  BY DEF StreamEnds, TypeOK
<1>8. TypeOK'
  <2>1. \A u \in TabIds : streams'[u] # "none" <=> tabs[u].state = "Connected"
    BY <1>2, <1>7 DEF TypeOK
  <2> QED
    BY <1>5, <1>6, <1>7, <2>1 DEF TypeOK
<1>9. TabsNamed'
  <2>1. \A i \in DOMAIN inbox' : tabs[inbox'[i].tab].state # "unborn"
    BY <1>2, <1>4, <1>6 DEF TabsNamed
  <2> QED
    BY <1>5, <2>1 DEF TabsNamed
<1>10. \A i \in DOMAIN inbox' : inbox'[i].what \in Answer =>
         i \in DOMAIN inbox /\ inbox'[i] = inbox[i]
  BY <1>4, <1>6
<1>11. AnswersOwed'
  BY <1>5, <1>10 DEF AnswersOwed, IsAnswer
<1>12. OneAtATime'
  BY <1>5 DEF OneAtATime, Unanswered
<1>13. ReportsInTime'
  <2>1. ASSUME NEW u \in TabIds \ overtaken, NEW i \in DOMAIN inbox', NEW j \in DOMAIN inbox',
               inbox'[i].tab = u, inbox'[j].tab = u, IsReport(i)', IsAnswer(j)'
        PROVE  i < j
    <3>1. j \in DOMAIN inbox /\ inbox'[j] = inbox[j] /\ IsAnswer(j)
      BY <1>10, <2>1 DEF IsAnswer
    <3>2. u # t
      <4>1. inbox[j].slot \in Unanswered(u)
        BY <2>1, <3>1, MessageIs DEF AnswersOwed, Unanswered, TypeOK
      <4> QED
        BY <1>2, <2>1, <4>1 DEF OneAtATime
    <3>3. i \in DOMAIN inbox /\ inbox'[i] = inbox[i]
      BY <1>4, <1>6, <2>1, <3>2
    <3> QED
      BY <2>1, <3>1, <3>3 DEF ReportsInTime, IsReport
  <2>2. ASSUME NEW u \in TabIds \ overtaken, tabs[u].state = "Connected",
               streams'[u] # "ended", NEW i \in DOMAIN inbox', inbox'[i].tab = u
        PROVE  ~IsReport(i)'
    BY <1>4, <1>6, <1>7, <2>2 DEF ReportsInTime, IsReport
  <2> QED
    BY <1>5, <2>1, <2>2 DEF ReportsInTime
<1>14. ConnectingIsUnderway'
  BY <1>5 DEF ConnectingIsUnderway, In, Unanswered
<1>15. ConnectedIsServed'
  <2> SUFFICES ASSUME NEW u \in TabIds, tabs[u].state = "Connected", u \notin overtaken
               PROVE  \/ streams'[u] = "starting" /\ slots[tabs[u].holder].channel = "full"
                      \/ streams'[u] = "reading"
                      \/ /\ streams'[u] = "ended"
                         /\ \E i \in DOMAIN inbox' : /\ inbox'[i].tab = u
                                                     /\ inbox'[i].what \in Reason
                                                     /\ inbox'[i].slot = tabs[u].holder
    BY <1>5 DEF ConnectedIsServed, In
  <2>1. CASE u = t
    BY <1>4, <1>6, <1>7, <2>1
  <2>2. CASE u # t
    BY <1>6, <1>7, <2>2 DEF ConnectedIsServed, In
  <2> QED
    BY <2>1, <2>2
<1>16. PromptedTabWaits'
  BY <1>5 DEF PromptedTabWaits, Unanswered
<1> QED
  BY <1>8, <1>9, <1>11, <1>12, <1>13, <1>14, <1>15, <1>16

(***************************************************************************)
(* The actions, as the steps above.                                        *)
(***************************************************************************)
LEMMA SetTabUpdates ==
    ASSUME AttemptsInv, NEW t \in TabIds, NEW r, SetTab(t, r, slots),
           r = tabs[t] \/ (IsOpen(t) /\ r \in Resting)
    PROVE  /\ tabs' \in [TabIds -> Tab]
           /\ tabs'[t] = r /\ \A u \in TabIds \ {t} : tabs'[u] = tabs[u]
           /\ \A u \in TabIds : tabs'[u] = tabs[u] \/ (IsOpen(u) /\ tabs'[u] \in Resting)
           /\ Updated(slots)
<1>1. TypeOK
  BY DEF AttemptsInv
<1>2. r \in Tab
  BY <1>1 DEF Resting, TypeOK
<1>3. /\ tabs' = [tabs EXCEPT ![t] = r]
      /\ slots' = Sweep(slots, tabs') /\ streams' = Track(tabs')
  BY DEF SetTab, Update
<1>4. tabs' \in [TabIds -> Tab] /\ tabs'[t] = r /\ \A u \in TabIds \ {t} : tabs'[u] = tabs[u]
  BY <1>1, <1>2, <1>3 DEF TypeOK
<1>5. Updated(slots)
  BY <1>1, <1>3, UpdateGives DEF TypeOK
<1> QED
  BY <1>4, <1>5

LEMMA NothingUpdates ==
    ASSUME AttemptsInv, UNCHANGED <<tabs, streams, slots>>
    PROVE  tabs' \in [TabIds -> Tab] /\ Updated(slots)
  BY DEF AttemptsInv, TypeOK, Updated

LEMMA RestingIs ==
    /\ Closed \in Resting
    /\ \A terminal \in BOOLEAN : Disconnected(terminal) \in Resting
    /\ \A terminal \in BOOLEAN, n \in Nat : Reconnecting(n, terminal) \in Resting
<1>1. Closed \in Resting
  BY DEF Closed, Unborn, Resting, Tab
<1>2. \A terminal \in BOOLEAN : Disconnected(terminal) \in Resting
  BY DEF Disconnected, Resting, Tab, State
<1>3. \A terminal \in BOOLEAN, n \in Nat : Reconnecting(n, terminal) \in Resting
  BY DEF Reconnecting, Resting, Tab, State
<1> QED
  BY <1>1, <1>2, <1>3

LEMMA DropIsQuiet ==
    ASSUME AttemptsInv, NEW t \in TabIds, IsOpen(t), NEW r \in Resting,
           r.state \in {"Disconnected", "closed"}, SetTab(t, r, slots),
           prompt' = prompt \/ prompt' = None, UNCHANGED <<inbox, reach, overtaken>>
    PROVE  QuietStep
<1>1. /\ tabs' \in [TabIds -> Tab]
      /\ tabs'[t] = r /\ \A u \in TabIds \ {t} : tabs'[u] = tabs[u]
      /\ \A u \in TabIds : tabs'[u] = tabs[u] \/ (IsOpen(u) /\ tabs'[u] \in Resting)
      /\ Updated(slots)
  BY SetTabUpdates
<1>2. prompt \in TabIds \union {None} /\ reach' \subseteq TabIds
  BY DEF AttemptsInv, TypeOK
<1>3. \/ prompt' = None
      \/ prompt' = prompt /\ (tabs[prompt].state \in {"Disconnected", "closed"} =>
                               tabs'[prompt].state \in {"Disconnected", "closed"})
  BY <1>1, <1>2
<1> QED
  BY <1>1, <1>2, <1>3 DEF QuietStep

LEMMA UserQuiet ==
    ASSUME AttemptsInv,
           \/ \E t \in TabIds : RemoveTab(t) \/ CancelConnect(t) \/ MarkGone(t)
           \/ PasswordCancel \/ (PasswordSubmit /\ ~IsOpen(prompt))
           \/ NetworkChanged \/ ReachChanges \/ UNCHANGED vars
    PROVE  QuietStep
<1>1. TypeOK
  BY DEF AttemptsInv
<1>2. \A t \in TabIds : /\ tabs[t].terminal \in BOOLEAN
                        /\ tabs[t].state \in State \union {"unborn", "closed"}
  BY <1>1 DEF TypeOK, Tab
<1>3. /\ Closed \in Resting /\ Closed.state = "closed"
      /\ \A b \in BOOLEAN : Disconnected(b) \in Resting /\ Disconnected(b).state = "Disconnected"
  BY RestingIs DEF Closed, Unborn, Disconnected
<1>4. ASSUME NEW t \in TabIds, RemoveTab(t)
      PROVE  QuietStep
  <2>1. SetTab(t, Closed, slots) /\ IsOpen(t) /\ UNCHANGED <<inbox, prompt, reach, overtaken>>
    BY <1>4 DEF RemoveTab
  <2> QED
    BY <1>3, <2>1, DropIsQuiet
<1>5. ASSUME NEW t \in TabIds, CancelConnect(t) \/ MarkGone(t)
      PROVE  QuietStep
  <2>1. /\ SetTab(t, Disconnected(FALSE), slots) /\ IsOpen(t)
        /\ UNCHANGED <<inbox, prompt, reach, overtaken>>
    BY <1>5 DEF CancelConnect, MarkGone, IsOpen, State
  <2> QED
    BY <1>3, <2>1, DropIsQuiet
<1>6. ASSUME PasswordCancel \/ (PasswordSubmit /\ ~IsOpen(prompt))
      PROVE  QuietStep
  <2>1. prompt \in TabIds /\ prompt' = None /\ UNCHANGED <<inbox, reach, overtaken>>
    BY <1>1, <1>6 DEF PasswordCancel, PasswordSubmit, TypeOK
  <2>2. CASE IsOpen(prompt)
    <3>1. SetTab(prompt, Disconnected(tabs[prompt].terminal), slots)
      BY <1>6, <2>2 DEF PasswordCancel
    <3>2. PICK t \in TabIds, r \in Resting :
            t = prompt /\ r = Disconnected(tabs[prompt].terminal) /\ r.state = "Disconnected"
      BY <1>2, <1>3, <2>1
    <3>3. SetTab(t, r, slots) /\ IsOpen(t)
      BY <2>2, <3>1, <3>2
    <3> QED
      BY <2>1, <3>2, <3>3, DropIsQuiet
  <2>3. CASE ~IsOpen(prompt)
    <3>1. UNCHANGED <<tabs, streams, slots>>
      BY <1>6, <2>3 DEF PasswordCancel, PasswordSubmit
    <3> QED
      BY <1>1, <2>1, <3>1, NothingUpdates DEF QuietStep, TypeOK
  <2> QED
    BY <2>2, <2>3
<1>7. ASSUME NetworkChanged
      PROVE  QuietStep
  <2>1. /\ tabs' = [t \in TabIds |-> IF t \in In("Reconnecting")
                                     THEN [tabs[t] EXCEPT !.attempt = 0] ELSE tabs[t]]
        /\ slots' = Sweep(slots, tabs') /\ streams' = Track(tabs')
        /\ UNCHANGED <<inbox, prompt, reach, overtaken>>
    BY <1>7 DEF NetworkChanged, Update
  <2>2. Updated(slots)
    BY <1>1, <2>1, UpdateGives DEF TypeOK
  <2>3. \A t \in In("Reconnecting") :
          [tabs[t] EXCEPT !.attempt = 0] \in Resting /\ tabs[t].state = "Reconnecting"
    BY <1>1 DEF In, TypeOK, Resting, Tab
  <2>4. tabs' \in [TabIds -> Tab]
    BY <1>1, <2>1, <2>3 DEF TypeOK, Resting
  <2>5. \A t \in TabIds : tabs'[t] = tabs[t] \/ (IsOpen(t) /\ tabs'[t] \in Resting)
    BY <2>1, <2>3 DEF IsOpen, State
  <2>6. prompt \in TabIds /\ tabs[prompt].state \in {"Disconnected", "closed"} =>
          tabs'[prompt] = tabs[prompt]
    BY <2>1 DEF In
  <2>7. \/ prompt' = None
        \/ prompt' = prompt /\ (tabs[prompt].state \in {"Disconnected", "closed"} =>
                                 tabs'[prompt].state \in {"Disconnected", "closed"})
    BY <1>1, <2>1, <2>6 DEF TypeOK
  <2> QED
    BY <1>1, <2>1, <2>2, <2>4, <2>5, <2>7 DEF QuietStep, TypeOK
<1>8. ASSUME ReachChanges \/ UNCHANGED vars
      PROVE  QuietStep
  <2>1. /\ UNCHANGED <<tabs, slots, streams, inbox, prompt, overtaken>>
        /\ reach' \subseteq TabIds
    BY <1>1, <1>8, ReachesAssumption DEF ReachChanges, vars, TypeOK
  <2> QED
    BY <2>1, NothingUpdates DEF QuietStep
<1> QED
  BY <1>4, <1>5, <1>6, <1>7, <1>8

LEMMA ReportQuiet ==
    ASSUME AttemptsInv, SessionExited \/ SshDisconnected
    PROVE  QuietStep
<1>1. TypeOK
  BY DEF AttemptsInv
<1>2. /\ inbox # <<>> /\ Head(inbox).what \in Reason /\ inbox' = Tail(inbox)
      /\ UNCHANGED <<prompt, reach, overtaken>>
  BY DEF SessionExited, SshDisconnected, Take, Reason
<1>3. PICK t \in TabIds : t = Head(inbox).tab
  BY <1>1, <1>2, TailIs, MessageIs DEF TypeOK
<1>4. /\ tabs[t].terminal \in BOOLEAN /\ tabs[t].attempt \in Nat /\ tabs[t].attempt + 1 \in Nat
      /\ tabs[t].state \in State \union {"unborn", "closed"}
  BY <1>1 DEF TypeOK, Tab
<1>5. PICK r : /\ SetTab(t, r, slots)
               /\ r = tabs[t] \/ (IsOpen(t) /\ r \in Resting)
               /\ r.state # "Connected"
               /\ tabs[t].state \in {"Disconnected", "closed"} =>
                    r.state \in {"Disconnected", "closed"}
  <2>1. CASE ~IsOpen(t)
    <3>1. SetTab(t, tabs[t], slots)
      BY <1>3, <2>1 DEF SessionExited, SshDisconnected
    <3>2. tabs[t].state # "Connected"
      BY <2>1 DEF IsOpen, State
    <3> QED
      BY <3>1, <3>2
  <2>2. CASE IsOpen(t) /\ SessionExited
    <3>1. SetTab(t, Closed, slots)
      BY <1>3, <2>2 DEF SessionExited
    <3>2. Closed \in Resting /\ Closed.state = "closed"
      BY RestingIs DEF Closed, Unborn
    <3> QED
      BY <2>2, <3>1, <3>2
  <2>3. CASE /\ IsOpen(t) /\ SshDisconnected
             /\ tabs[t].state # "Disconnected" /\ tabs[t].attempt < MaxAttempts
    <3>1. SetTab(t, Reconnecting(tabs[t].attempt + 1, tabs[t].terminal), slots)
      BY <1>3, <2>3 DEF SshDisconnected
    <3>2. Reconnecting(tabs[t].attempt + 1, tabs[t].terminal) \in Resting
      BY <1>4, RestingIs
    <3>3. Reconnecting(tabs[t].attempt + 1, tabs[t].terminal).state = "Reconnecting"
      BY DEF Reconnecting
    <3>4. tabs[t].state \notin {"Disconnected", "closed"}
      BY <2>3 DEF IsOpen, State
    <3> QED
      BY <2>3, <3>1, <3>2, <3>3, <3>4
  <2>4. CASE /\ IsOpen(t) /\ SshDisconnected
             /\ ~(tabs[t].state # "Disconnected" /\ tabs[t].attempt < MaxAttempts)
    <3>1. SetTab(t, Disconnected(FALSE), slots)
      BY <1>3, <2>4 DEF SshDisconnected
    <3>2. Disconnected(FALSE) \in Resting /\ Disconnected(FALSE).state = "Disconnected"
      BY RestingIs DEF Disconnected
    <3> QED
      BY <2>4, <3>1, <3>2
  <2> QED
    BY <2>1, <2>2, <2>3, <2>4
<1>6. /\ tabs' \in [TabIds -> Tab]
      /\ tabs'[t] = r /\ \A u \in TabIds \ {t} : tabs'[u] = tabs[u]
      /\ \A u \in TabIds : tabs'[u] = tabs[u] \/ (IsOpen(u) /\ tabs'[u] \in Resting)
      /\ Updated(slots)
  BY <1>5, SetTabUpdates
<1>7. prompt \in TabIds \union {None} /\ reach' \subseteq TabIds
  BY <1>1, <1>2 DEF TypeOK
<1>8. \/ prompt' = None
      \/ prompt' = prompt /\ (tabs[prompt].state \in {"Disconnected", "closed"} =>
                               tabs'[prompt].state \in {"Disconnected", "closed"})
  BY <1>2, <1>5, <1>6, <1>7
<1> QED
  BY <1>2, <1>3, <1>5, <1>6, <1>7, <1>8 DEF QuietStep

LEMMA StartsSafe ==
    ASSUME AttemptsInv,
           \/ \E t \in TabIds : OpenTab(t) \/ ReconnectTab(t)
           \/ PasswordSubmit /\ IsOpen(prompt)
           \/ AutoReconnectTick
    PROVE  AttemptsInv'
<1>1. TypeOK
  BY DEF AttemptsInv
<1>2. ASSUME NEW t \in TabIds, NEW terminal \in BOOLEAN, NEW auto \in BOOLEAN,
             StartFresh(t, terminal, auto), inbox' = inbox, reach' = reach,
             \/ prompt' = None
             \/ prompt' = prompt /\ tabs[t].state \notin {"Disconnected", "closed"}
      PROVE  AttemptsInv'
  <2>1. PICK s \in FreeSlots : s = First(FreeSlots)
    BY <1>2, FreeSlotIs DEF StartFresh
  <2>2. Start(t, s, terminal, auto)
    BY <1>2, <2>1 DEF StartFresh
  <2> QED
    BY <1>2, <2>2, StartSafe
<1>3. ASSUME NEW t \in TabIds, OpenTab(t) \/ ReconnectTab(t)
      PROVE  AttemptsInv'
  <2>1. StartFresh(t, TRUE, FALSE) /\ inbox' = inbox /\ reach' = reach
    BY <1>3 DEF OpenTab, ReconnectTab, ReconnectTabInWindow
  <2>2. \/ prompt' = None
        \/ prompt' = prompt /\ tabs[t].state \notin {"Disconnected", "closed"}
    BY <1>3 DEF OpenTab, ReconnectTab
  <2> QED
    BY <1>2, <2>1, <2>2
<1>4. ASSUME PasswordSubmit, IsOpen(prompt)
      PROVE  AttemptsInv'
  <2>1. PICK t \in TabIds, terminal \in BOOLEAN :
          t = prompt /\ terminal = tabs[prompt].terminal
    BY <1>1, <1>4 DEF PasswordSubmit, TypeOK, Tab
  <2>2. StartFresh(t, terminal, FALSE) /\ inbox' = inbox /\ reach' = reach /\ prompt' = None
    BY <1>4, <2>1 DEF PasswordSubmit
  <2> QED
    BY <1>2, <2>2
<1>5. ASSUME AutoReconnectTick
      PROVE  AttemptsInv'
  <2>1. In("Reconnecting") \in SUBSET Nat /\ In("Reconnecting") # {}
    BY <1>5, TabIdsAssumption DEF In, AutoReconnectTick
  <2>2. PICK t \in In("Reconnecting") : t = First(In("Reconnecting"))
    BY <2>1, FirstIs
  <2>3. t \in TabIds /\ tabs[t].state = "Reconnecting"
    BY <2>2 DEF In
  <2>4. StartFresh(t, TRUE, TRUE) /\ inbox' = inbox /\ reach' = reach /\ prompt' = prompt
    BY <1>5, <2>2 DEF AutoReconnectTick, ReconnectTabInWindow
  <2> QED
    BY <1>2, <2>3, <2>4
<1> QED
  BY <1>3, <1>4, <1>5

LEMMA AnswersSafe ==
    ASSUME AttemptsInv, SshConnectedOk \/ SshConnectedErr \/ SshConnectedRefused
    PROVE  AttemptsInv'
<1>1. TypeOK
  BY DEF AttemptsInv
<1>2. /\ inbox # <<>> /\ Head(inbox).what \in Answer /\ inbox' = Tail(inbox)
      /\ UNCHANGED <<reach, overtaken>>
  BY DEF SshConnectedOk, SshConnectedErr, SshConnectedRefused, Take, Answer, Failure
<1>3. PICK t \in TabIds : t = Head(inbox).tab
  BY <1>1, <1>2, TailIs, MessageIs DEF TypeOK
<1>4. tabs[t] \in Tab /\ tabs[t].attempt + 1 \in Nat
  BY <1>1 DEF TypeOK, Tab
<1>5. CASE SshConnectedOk
  <2>1. PICK new : new = IF tabs[t].state = "Connecting"
                         THEN [tabs[t] EXCEPT !.state = "Connected"] ELSE tabs[t]
    OBVIOUS
  <2>2. Answered(new) /\ prompt' = prompt /\ Head(inbox).what = "ok"
    BY <1>3, <1>5, <2>1 DEF SshConnectedOk, Take
  <2>3. \/ new = tabs[Head(inbox).tab] /\ tabs[Head(inbox).tab].state # "Connecting"
        \/ /\ Served(Head(inbox).tab, Head(inbox))
           /\ new = [tabs[Head(inbox).tab] EXCEPT !.state = "Connected"]
    BY <1>3, <2>1, <2>2 DEF Served
  <2> QED
    BY <1>2, <2>2, <2>3, AnswerSafe
<1>6. CASE SshConnectedErr
  <2>1. PICK new \in Resting : new = Reconnecting(tabs[t].attempt + 1, FALSE)
    BY <1>4, RestingIs
  <2>2. Answered(new) /\ prompt' = prompt
    BY <1>3, <1>6, <2>1 DEF SshConnectedErr
  <2> QED
    BY <1>2, <2>2, AnswerSafe
<1>7. CASE SshConnectedRefused
  <2>1. PICK new \in Resting : new = Disconnected(FALSE)
    BY RestingIs
  <2>2. new.state = "Disconnected"
    BY <2>1 DEF Disconnected
  <2>3. Answered(new) /\ (prompt' = prompt \/ prompt' = Head(inbox).tab)
    BY <1>7, <2>1 DEF SshConnectedRefused
  <2> QED
    BY <1>2, <2>2, <2>3, AnswerSafe
<1> QED
  BY <1>5, <1>6, <1>7

LEMMA AttemptsInit == Init => AttemptsInv
<1> SUFFICES ASSUME Init
             PROVE  AttemptsInv
  OBVIOUS
<1> USE DEF Init
<1>1. /\ Unborn \in Tab /\ Unborn.state = "unborn" /\ Unborn.holder = None /\ Unborn.attempt = 0
      /\ Idle \in Slot /\ Idle.stage = "over" /\ Idle.tab = None
  BY DEF Unborn, Tab, Idle, Slot
<1>2. TypeOK
  BY <1>1 DEF TypeOK
<1>3. TabsNamed /\ AnswersOwed /\ ReportsInTime
  BY <1>1 DEF TabsNamed, AnswersOwed, ReportsInTime
<1>4. OneAtATime
  BY <1>1 DEF OneAtATime, Unanswered
<1>5. ConnectingIsUnderway /\ ConnectedIsServed /\ PromptedTabWaits
  BY <1>1 DEF ConnectingIsUnderway, ConnectedIsServed, PromptedTabWaits, In
<1> QED
  BY <1>2, <1>3, <1>4, <1>5 DEF AttemptsInv

LEMMA AttemptsStep == AttemptsInv /\ [Next]_vars => AttemptsInv'
<1> SUFFICES ASSUME AttemptsInv, [Next]_vars
             PROVE  AttemptsInv'
  OBVIOUS
<1>1. ASSUME NEW t \in TabIds, OpenTab(t) \/ ReconnectTab(t)
      PROVE  AttemptsInv'
  BY <1>1, StartsSafe
<1>2. ASSUME NEW t \in TabIds, RemoveTab(t) \/ CancelConnect(t) \/ MarkGone(t)
      PROVE  AttemptsInv'
  BY <1>2, UserQuiet, QuietSafe
<1>3. ASSUME NEW t \in TabIds, StreamStarts(t)
      PROVE  AttemptsInv'
  BY <1>3, StreamStartSafe
<1>4. ASSUME NEW t \in TabIds, NEW reason \in Reason, StreamEnds(t, reason)
      PROVE  AttemptsInv'
  BY <1>4, StreamEndSafe
<1>5. ASSUME NEW s \in Slots, AttemptEnds(s)
      PROVE  AttemptsInv'
  BY <1>5, PostSafe
<1>6. CASE SshConnectedOk \/ SshConnectedErr \/ SshConnectedRefused
  BY <1>6, AnswersSafe
<1>7. CASE SessionExited \/ SshDisconnected
  BY <1>7, ReportQuiet, QuietSafe
<1>8. CASE PasswordSubmit /\ IsOpen(prompt)
  BY <1>8, StartsSafe
<1>9. CASE PasswordSubmit /\ ~IsOpen(prompt)
  BY <1>9, UserQuiet, QuietSafe
<1>10. CASE PasswordCancel \/ NetworkChanged \/ ReachChanges \/ UNCHANGED vars
  BY <1>10, UserQuiet, QuietSafe
<1>11. CASE AutoReconnectTick
  BY <1>11, StartsSafe
<1> QED
  BY <1>1, <1>2, <1>3, <1>4, <1>5, <1>6, <1>7, <1>8, <1>9, <1>10, <1>11
     DEF Next, HandleMessage

(***************************************************************************)
(* Connections that work.                                                  *)
(***************************************************************************)
LEMMA SetTabOnly ==
    ASSUME TypeOK, NEW t \in TabIds, NEW sl, NEW r, SetTab(t, r, sl)
    PROVE  tabs'[t] = r /\ \A u \in TabIds \ {t} : tabs'[u] = tabs[u]
  BY DEF SetTab, Update, TypeOK

LEMMA WorkingStep ==
    ASSUME AttemptsInv, [Next]_vars,
           NEW t \in In("Connected") \ overtaken', streams[t] = "reading", tabs[t].terminal
    PROVE  tabs'[t].state \in {"Connected", "closed"}
<1>1. TypeOK /\ t \in TabIds /\ tabs[t].state = "Connected" /\ IsOpen(t)
  BY DEF AttemptsInv, In, IsOpen, State
<1>2. SUFFICES ASSUME tabs'[t] # tabs[t]
               PROVE  tabs'[t].state = "closed"
  BY <1>1
<1>3. ASSUME NEW u \in TabIds, NEW sl, NEW r, SetTab(u, r, sl)
      PROVE  u = t /\ tabs'[t] = r
  BY <1>1, <1>2, <1>3, SetTabOnly
<1>4. ASSUME NEW u \in TabIds, NEW terminal, NEW auto, StartFresh(u, terminal, auto)
      PROVE  u = t /\ t \notin overtaken
  <2>1. PICK s : Start(u, s, terminal, auto)
    BY <1>4 DEF StartFresh
  <2>2. PICK r, sl : SetTab(u, r, sl)
    BY <2>1 DEF Start
  <2>3. overtaken \subseteq overtaken'
    BY <2>1 DEF Start
  <2> QED
    BY <1>3, <2>2, <2>3
<1>5. t \notin overtaken => Unanswered(t) = {} /\ prompt # t
  <2>1. t # None
    BY <1>1, NoneAssumption
  <2>2. t \notin overtaken => Unanswered(t) = {}
    BY <1>1 DEF AttemptsInv, OneAtATime
  <2>3. t \notin overtaken => prompt # t
    BY <1>1, <2>1 DEF AttemptsInv, PromptedTabWaits
  <2> QED
    BY <2>2, <2>3
<1>6. ASSUME NEW u \in TabIds, OpenTab(u) \/ ReconnectTab(u)
      PROVE  FALSE
  BY <1>1, <1>4, <1>6 DEF OpenTab, ReconnectTab, ReconnectTabInWindow
<1>7. ASSUME NEW u \in TabIds, RemoveTab(u)
      PROVE  tabs'[t].state = "closed"
  BY <1>3, <1>7 DEF RemoveTab, Closed, Unborn
<1>8. ASSUME NEW u \in TabIds, CancelConnect(u) \/ MarkGone(u)
      PROVE  FALSE
  BY <1>1, <1>3, <1>8 DEF CancelConnect, MarkGone
<1>9. CASE PasswordSubmit
  <2>1. prompt \in TabIds /\ IsOpen(prompt)
    BY <1>1, <1>2, <1>9 DEF PasswordSubmit, TypeOK
  <2>2. PICK u, terminal : u \in TabIds /\ u = prompt /\ terminal = tabs[prompt].terminal
    BY <2>1
  <2>3. StartFresh(u, terminal, FALSE)
    BY <1>9, <2>1, <2>2 DEF PasswordSubmit
  <2> QED
    BY <1>4, <1>5, <2>2, <2>3
<1>10. CASE PasswordCancel
  <2>1. prompt \in TabIds /\ IsOpen(prompt) /\ t \notin overtaken
    BY <1>1, <1>2, <1>10 DEF PasswordCancel, TypeOK
  <2>2. PICK u, r : u \in TabIds /\ u = prompt /\ r = Disconnected(tabs[prompt].terminal)
    BY <2>1
  <2>3. SetTab(u, r, slots)
    BY <1>10, <2>1, <2>2 DEF PasswordCancel
  <2> QED
    BY <1>3, <1>5, <2>1, <2>2, <2>3
<1>11. CASE AutoReconnectTick
  <2>1. In("Reconnecting") \in SUBSET Nat /\ In("Reconnecting") # {}
    BY <1>11, TabIdsAssumption DEF In, AutoReconnectTick
  <2>2. PICK u \in In("Reconnecting") : u = First(In("Reconnecting"))
    BY <2>1, FirstIs
  <2>3. u \in TabIds /\ StartFresh(u, TRUE, TRUE) /\ tabs[u].state = "Reconnecting"
    BY <1>11, <2>2 DEF AutoReconnectTick, ReconnectTabInWindow, In
  <2> QED
    BY <1>1, <1>4, <2>3
<1>12. CASE HandleMessage
  <2>1. PICK m : m = Head(inbox)
    OBVIOUS
  <2>2. inbox # <<>>
    BY <1>12 DEF HandleMessage, SshConnectedOk, SshConnectedErr, SshConnectedRefused,
                 SessionExited, SshDisconnected, Take
  <2>3. 1 \in DOMAIN inbox /\ inbox[1] = m /\ m.tab \in TabIds /\ m.slot \in Slots
    BY <1>1, <2>1, <2>2, TailIs, MessageIs DEF TypeOK
  <2>4. t \notin overtaken
    BY <1>12 DEF HandleMessage, SshConnectedOk, SshConnectedErr, SshConnectedRefused,
                 SessionExited, SshDisconnected
  <2>5. CASE SshConnectedOk \/ SshConnectedErr \/ SshConnectedRefused
    <3>1. m.what \in Answer /\ \E new : Answered(new)
      BY <2>1, <2>5 DEF SshConnectedOk, SshConnectedErr, SshConnectedRefused, Take, Answer, Failure
    <3>2. PICK r, sl : SetTab(m.tab, r, sl)
      BY <2>1, <3>1 DEF Answered
    <3>3. m.tab = t
      BY <1>3, <2>3, <3>2
    <3>4. m.slot \in Unanswered(t)
      BY <2>3, <3>1, <3>3 DEF AttemptsInv, AnswersOwed, IsAnswer, Unanswered
    <3> QED
      BY <1>5, <2>4, <3>4
  <2>6. CASE SessionExited
    <3>1. PICK r : SetTab(m.tab, r, slots) /\ r = IF IsOpen(m.tab) THEN Closed ELSE tabs[m.tab]
      BY <2>1, <2>6 DEF SessionExited
    <3> QED
      BY <1>1, <1>3, <2>3, <3>1 DEF Closed, Unborn
  <2>7. CASE SshDisconnected
    <3>1. PICK r, sl : SetTab(m.tab, r, sl)
      BY <2>1, <2>7 DEF SshDisconnected
    <3>2. m.tab = t /\ m.what \in Reason
      BY <1>3, <2>1, <2>3, <2>7, <3>1 DEF SshDisconnected, Take, Reason
    <3> QED
      BY <1>1, <2>3, <2>4, <3>2 DEF AttemptsInv, ReportsInTime, IsReport
  <2> QED
    BY <1>12, <2>5, <2>6, <2>7 DEF HandleMessage
<1>13. CASE NetworkChanged
  BY <1>1, <1>2, <1>13 DEF NetworkChanged, Update, In
<1>14. CASE \/ \E u \in TabIds : StreamStarts(u) \/ \E reason \in Reason : StreamEnds(u, reason)
            \/ \E s \in Slots : AttemptEnds(s)
            \/ ReachChanges \/ UNCHANGED vars
  BY <1>2, <1>14 DEF StreamStarts, StreamEnds, AttemptEnds, AttemptSucceeds, AttemptFails,
                     ReachChanges, vars
<1> QED
  BY <1>6, <1>7, <1>8, <1>9, <1>10, <1>11, <1>12, <1>13, <1>14 DEF Next

(***************************************************************************)
(* The limit on automatic reconnects.                                      *)
(***************************************************************************)
AutoConnecting == {t \in In("Connecting") : slots[tabs[t].holder].auto}

\* No tab starts to connect, and those that do keep their attempt.
NoneStarts ==
    /\ \A t \in TabIds : tabs'[t].state = "Connecting" => tabs'[t] = tabs[t]
    /\ \A s \in Slots : slots'[s].auto = slots[s].auto \/ \A t \in TabIds : tabs'[t].holder # s

LEMMA LimitKept ==
    ASSUME TypeOK, TypeOK', LimitInv, NoneStarts
    PROVE  LimitInv'
<1>1. ASSUME NEW t \in TabIds, tabs'[t].state = "Connecting"
      PROVE  tabs'[t] = tabs[t] /\ slots'[tabs[t].holder].auto = slots[tabs[t].holder].auto
  BY <1>1, NoneAssumption DEF NoneStarts, TypeOK, Tab
<1>2. AutoConnecting' \subseteq AutoConnecting
  BY <1>1 DEF AutoConnecting, In
<1>3. AutoHasTerminal'
  BY <1>1 DEF LimitInv, AutoHasTerminal, In
<1>4. IsFiniteSet(AutoConnecting) /\ AutoConnecting \subseteq TabIds
  BY TabIdsAssumption, FS_Subset DEF AutoConnecting, In
<1>5. IsFiniteSet(AutoConnecting')
  BY <1>2, <1>4, FS_Subset
<1>6. Cardinality(AutoConnecting') <= Cardinality(AutoConnecting)
  BY <1>2, <1>4, FS_Subset
<1>7. Cardinality(AutoConnecting) <= MaxReconnects
  BY DEF LimitInv, ReconnectsLimited, AutoConnecting
<1>8. Cardinality(AutoConnecting') <= MaxReconnects
  BY <1>4, <1>5, <1>6, <1>7, FS_CardinalityType, LimitsAssumption
<1> QED
  BY <1>3, <1>8 DEF LimitInv, ReconnectsLimited, AutoConnecting

LEMMA LimitAtStart ==
    ASSUME AttemptsInv, TypeOK', LimitInv, NEW t \in TabIds, NEW s \in FreeSlots,
           NEW terminal \in BOOLEAN, NEW auto \in BOOLEAN, Start(t, s, terminal, auto),
           auto => terminal /\ Cardinality(InProgress) < MaxReconnects
    PROVE  LimitInv'
<1> DEFINE new == [tab |-> t, stage |-> "running", channel |-> "empty", auto |-> auto]
           sl  == [slots EXCEPT ![s] = new]
<1>1. TypeOK /\ s \in Slots /\ \A u \in TabIds : tabs[u].holder # s
  BY DEF AttemptsInv, FreeSlots
<1>2. /\ tabs'[t] = Connecting(s, terminal)
      /\ \A u \in TabIds \ {t} : tabs'[u] = tabs[u]
      /\ slots' = Sweep(sl, tabs') /\ streams' = Track(tabs')
  <2>1. tabs' = [tabs EXCEPT ![t] = Connecting(s, terminal)]
    BY DEF Start, SetTab, Update
  <2> QED
    BY <1>1, <2>1 DEF TypeOK, Start, SetTab, Update
<1>3. tabs'[t].state = "Connecting" /\ tabs'[t].holder = s /\ tabs'[t].terminal = terminal
  BY <1>2 DEF Connecting
<1>4. Updated(sl)
  <2>1. sl \in [Slots -> Slot]
    BY <1>1 DEF TypeOK, Slot
  <2> HIDE DEF sl
  <2> QED
    BY <1>1, <1>2, <2>1, UpdateGives
<1>5. sl[s].auto = auto /\ \A r \in Slots \ {s} : sl[r] = slots[r]
  BY <1>1 DEF TypeOK
<1> HIDE DEF new, sl
<1>6. slots'[s].auto = auto
  BY <1>1, <1>3, <1>4, <1>5 DEF Updated
<1>7. ASSUME NEW u \in TabIds \ {t}, tabs'[u].state = "Connecting"
      PROVE  /\ tabs'[u] = tabs[u]
             /\ slots'[tabs[u].holder].auto = slots[tabs[u].holder].auto
  <2>1. tabs'[u] = tabs[u] /\ tabs[u].holder \in Slots \ {s}
    BY <1>1, <1>2, <1>7, NoneAssumption DEF TypeOK, Tab
  <2> QED
    BY <1>4, <1>5, <2>1 DEF Updated
<1>8. AutoConnecting' \subseteq AutoConnecting \union {t}
  BY <1>7 DEF AutoConnecting, In
<1>9. ~auto => AutoConnecting' \subseteq AutoConnecting
  BY <1>3, <1>6, <1>8 DEF AutoConnecting
<1>10. AutoConnecting \subseteq InProgress
  BY DEF AutoConnecting, InProgress, LimitInv, AutoHasTerminal
<1>11. AutoHasTerminal'
  BY <1>3, <1>6, <1>7 DEF LimitInv, AutoHasTerminal, In
<1>12. IsFiniteSet(AutoConnecting) /\ IsFiniteSet(InProgress)
  BY TabIdsAssumption, FS_Subset DEF AutoConnecting, InProgress, In
<1>13. IsFiniteSet(AutoConnecting \union {t})
       /\ Cardinality(AutoConnecting \union {t}) <= Cardinality(AutoConnecting) + 1
  <2>1. PICK A : A = AutoConnecting
    OBVIOUS
  <2>2. IsFiniteSet(A)
    BY <1>12, <2>1
  <2>3. /\ IsFiniteSet(A \union {t}) /\ Cardinality(A) \in Nat
        /\ Cardinality(A \union {t}) = IF t \in A THEN Cardinality(A) ELSE Cardinality(A) + 1
    BY <2>2, FS_AddElement, FS_CardinalityType
  <2>4. Cardinality(A \union {t}) <= Cardinality(A) + 1
    BY <2>3
  <2> QED
    BY <2>1, <2>3, <2>4
<1>14. Cardinality(AutoConnecting) <= Cardinality(InProgress)
  BY <1>10, <1>12, FS_Subset
<1>15. Cardinality(AutoConnecting) <= MaxReconnects
  BY DEF LimitInv, ReconnectsLimited, AutoConnecting
<1>16. /\ Cardinality(AutoConnecting) \in Nat /\ Cardinality(InProgress) \in Nat
       /\ Cardinality(AutoConnecting \union {t}) \in Nat
       /\ MaxReconnects \in Nat
  BY <1>12, <1>13, FS_CardinalityType, LimitsAssumption
<1>17. IsFiniteSet(AutoConnecting') /\ Cardinality(AutoConnecting') \in Nat
  BY <1>8, <1>13, FS_Subset, FS_CardinalityType
<1>18. Cardinality(AutoConnecting') <= MaxReconnects
  <2>1. CASE auto
    <3>1. Cardinality(AutoConnecting') <= Cardinality(AutoConnecting \union {t})
      BY <1>8, <1>13, FS_Subset
    <3> QED
      BY <1>13, <1>14, <1>16, <1>17, <2>1, <3>1
  <2>2. CASE ~auto
    <3>1. Cardinality(AutoConnecting') <= Cardinality(AutoConnecting)
      BY <1>9, <1>12, <2>2, FS_Subset
    <3> QED
      BY <1>15, <1>16, <1>17, <3>1
  <2> QED
    BY <2>1, <2>2
<1> QED
  BY <1>11, <1>18 DEF LimitInv, ReconnectsLimited, AutoConnecting

LEMMA QuietStartsNone ==
    ASSUME QuietStep
    PROVE  NoneStarts
<1>1. \A t \in TabIds : tabs'[t].state = "Connecting" => tabs'[t] = tabs[t]
  BY DEF QuietStep, Resting
<1>2. \A s \in Slots : slots'[s].auto = slots[s].auto \/ \A t \in TabIds : tabs'[t].holder # s
  BY DEF QuietStep, Updated
<1> QED
  BY <1>1, <1>2 DEF NoneStarts

LEMMA AnswersStartNone ==
    ASSUME TypeOK, SshConnectedOk \/ SshConnectedErr \/ SshConnectedRefused
    PROVE  NoneStarts
<1>1. PICK m : m = Head(inbox)
  OBVIOUS
<1>2. inbox # <<>>
  BY DEF SshConnectedOk, SshConnectedErr, SshConnectedRefused, Take
<1>3. m.tab \in TabIds /\ m.slot \in Slots
  BY <1>1, <1>2, TailIs, MessageIs DEF TypeOK
<1>4. PICK new : Answered(new) /\ new.state # "Connecting"
  <2>1. CASE SshConnectedOk
    <3>1. PICK new : new = IF tabs[m.tab].state = "Connecting"
                           THEN [tabs[m.tab] EXCEPT !.state = "Connected"] ELSE tabs[m.tab]
      OBVIOUS
    <3>2. tabs[m.tab] \in Tab
      BY <1>3 DEF TypeOK
    <3>3. new.state # "Connecting"
      BY <3>1, <3>2 DEF Tab
    <3> QED
      BY <1>1, <2>1, <3>1, <3>3 DEF SshConnectedOk
  <2>2. CASE SshConnectedErr
    BY <2>2 DEF SshConnectedErr, Reconnecting
  <2>3. CASE SshConnectedRefused
    BY <2>3 DEF SshConnectedRefused, Disconnected
  <2> QED
    BY <2>1, <2>2, <2>3
<1> DEFINE sl == [slots EXCEPT ![m.slot].stage = "over"]
<1>5. SetTab(m.tab, IF IsOpen(m.tab) THEN new ELSE tabs[m.tab], sl)
  BY <1>1, <1>4 DEF Answered
<1>6. sl \in [Slots -> Slot] /\ \A s \in Slots : sl[s].auto = slots[s].auto
  <2>1. slots \in [Slots -> Slot]
    BY DEF TypeOK
  <2>2. [slots[m.slot] EXCEPT !.stage = "over"] \in Slot
        /\ [slots[m.slot] EXCEPT !.stage = "over"].auto = slots[m.slot].auto
    BY <1>3, <2>1 DEF Slot
  <2> QED
    BY <1>3, <2>1, <2>2
<1> HIDE DEF sl
<1>7. /\ tabs' = [tabs EXCEPT ![m.tab] = IF IsOpen(m.tab) THEN new ELSE tabs[m.tab]]
      /\ slots' = Sweep(sl, tabs') /\ streams' = Track(tabs')
  BY <1>5 DEF SetTab, Update
<1>8. Updated(sl)
  BY <1>6, <1>7, UpdateGives
<1>9. \A t \in TabIds : tabs'[t].state = "Connecting" => tabs'[t] = tabs[t]
  BY <1>3, <1>4, <1>7 DEF TypeOK
<1>10. \A s \in Slots : slots'[s].auto = slots[s].auto \/ \A t \in TabIds : tabs'[t].holder # s
  BY <1>6, <1>8 DEF Updated
<1> QED
  BY <1>9, <1>10 DEF NoneStarts

LEMMA TasksStartNone ==
    ASSUME TypeOK,
           \/ \E t \in TabIds : StreamStarts(t) \/ \E reason \in Reason : StreamEnds(t, reason)
           \/ \E s \in Slots : AttemptEnds(s)
    PROVE  NoneStarts
<1>1. tabs' = tabs
  BY DEF StreamStarts, StreamEnds, AttemptEnds, AttemptSucceeds, AttemptFails
<1>2. \A r \in Slots : slots'[r].auto = slots[r].auto
  <2>1. slots \in [Slots -> Slot]
    BY DEF TypeOK
  <2>2. ASSUME NEW t \in TabIds, StreamStarts(t)
        PROVE  \A r \in Slots : slots'[r].auto = slots[r].auto
    <3>1. slots' = slots \/ slots' = [slots EXCEPT ![tabs[t].holder].channel = "taken"]
      BY <2>2 DEF StreamStarts
    <3> QED
      BY <2>1, <3>1 DEF Slot
  <2>3. ASSUME NEW t \in TabIds, NEW reason \in Reason, StreamEnds(t, reason)
        PROVE  slots' = slots
    BY <2>3 DEF StreamEnds
  <2>4. ASSUME NEW s \in Slots, AttemptEnds(s)
        PROVE  \A r \in Slots : slots'[r].auto = slots[r].auto
    <3>1. \/ slots' = [slots EXCEPT ![s].stage = "posted", ![s].channel = "full"]
          \/ slots' = [slots EXCEPT ![s].stage = "posted"]
      BY <2>4 DEF AttemptEnds, AttemptSucceeds, AttemptFails
    <3> QED
      BY <2>1, <3>1 DEF Slot
  <2> QED
    BY <2>2, <2>3, <2>4
<1> QED
  BY <1>1, <1>2 DEF NoneStarts

LEMMA LimitStep ==
    ASSUME AttemptsInv, TypeOK', LimitInv, [Next]_vars
    PROVE  LimitInv'
<1>1. TypeOK
  BY DEF AttemptsInv
<1>2. ASSUME NEW t \in TabIds, NEW terminal \in BOOLEAN, NEW auto \in BOOLEAN,
             StartFresh(t, terminal, auto),
             auto => terminal /\ Cardinality(InProgress) < MaxReconnects
      PROVE  LimitInv'
  <2>1. PICK s \in FreeSlots : s = First(FreeSlots)
    BY <1>2, FreeSlotIs DEF StartFresh
  <2>2. Start(t, s, terminal, auto)
    BY <1>2, <2>1 DEF StartFresh
  <2> QED
    BY <1>2, <2>2, LimitAtStart
<1>3. ASSUME NoneStarts
      PROVE  LimitInv'
  BY <1>1, <1>3, LimitKept
<1>4. ASSUME NEW t \in TabIds, OpenTab(t) \/ ReconnectTab(t)
      PROVE  LimitInv'
  <2>1. StartFresh(t, TRUE, FALSE)
    BY <1>4 DEF OpenTab, ReconnectTab, ReconnectTabInWindow
  <2> QED
    BY <1>2, <2>1
<1>5. CASE PasswordSubmit /\ IsOpen(prompt)
  <2>1. PICK t \in TabIds, terminal \in BOOLEAN :
          t = prompt /\ terminal = tabs[prompt].terminal
    BY <1>1, <1>5 DEF PasswordSubmit, TypeOK, Tab
  <2>2. StartFresh(t, terminal, FALSE)
    BY <1>5, <2>1 DEF PasswordSubmit
  <2> QED
    BY <1>2, <2>2
<1>6. CASE AutoReconnectTick
  <2>1. In("Reconnecting") \in SUBSET Nat /\ In("Reconnecting") # {}
    BY <1>6, TabIdsAssumption DEF In, AutoReconnectTick
  <2>2. PICK t \in In("Reconnecting") : t = First(In("Reconnecting"))
    BY <2>1, FirstIs
  <2>3. t \in TabIds /\ StartFresh(t, TRUE, TRUE) /\ Cardinality(InProgress) < MaxReconnects
    BY <1>6, <2>2 DEF AutoReconnectTick, ReconnectTabInWindow, In
  <2> QED
    BY <1>2, <2>3
<1>7. CASE SshConnectedOk \/ SshConnectedErr \/ SshConnectedRefused
  BY <1>1, <1>3, <1>7, AnswersStartNone
<1>8. CASE SessionExited \/ SshDisconnected
  BY <1>3, <1>8, ReportQuiet, QuietStartsNone
<1>9. CASE \/ \E t \in TabIds : RemoveTab(t) \/ CancelConnect(t) \/ MarkGone(t)
           \/ PasswordCancel \/ (PasswordSubmit /\ ~IsOpen(prompt))
           \/ NetworkChanged \/ ReachChanges \/ UNCHANGED vars
  BY <1>3, <1>9, UserQuiet, QuietStartsNone
<1>10. CASE \/ \E t \in TabIds : StreamStarts(t) \/ \E reason \in Reason : StreamEnds(t, reason)
            \/ \E s \in Slots : AttemptEnds(s)
  BY <1>1, <1>3, <1>10, TasksStartNone
<1> QED
  BY <1>4, <1>5, <1>6, <1>7, <1>8, <1>9, <1>10 DEF Next, HandleMessage

LEMMA LimitInit == Init => LimitInv
<1> SUFFICES ASSUME Init
             PROVE  LimitInv
  OBVIOUS
<1>1. In("Connecting") = {}
  BY DEF Init, In, Unborn
<1>2. AutoConnecting = {} /\ AutoHasTerminal
  BY <1>1 DEF AutoConnecting, AutoHasTerminal
<1>3. Cardinality(AutoConnecting) = 0
  BY <1>2, FS_EmptySet
<1> QED
  BY <1>2, <1>3, LimitsAssumption DEF LimitInv, ReconnectsLimited, AutoConnecting

(***************************************************************************)
(* Theorems.                                                               *)
(***************************************************************************)
\* The inductive invariant holds: tabs, attempts, holders, messages and streams
\* agree with one another.
THEOREM AttemptsInvariant == Spec => []AttemptsInv
<1>1. Init => AttemptsInv
  BY AttemptsInit
<1>2. AttemptsInv /\ [Next]_vars => AttemptsInv'
  BY AttemptsStep
<1> QED
  BY <1>1, <1>2, PTL DEF Spec

\* Types, and what the variants of ConnectionState carry.
THEOREM TypeCorrect == Spec => []TypeOK
<1>1. AttemptsInv => TypeOK
  BY DEF AttemptsInv
<1> QED
  BY <1>1, AttemptsInvariant, PTL

\* No tab waits for an answer that will never come.
THEOREM ConnectingHasAttempt == Spec => []ConnectingIsUnderway
<1>1. AttemptsInv => ConnectingIsUnderway
  BY DEF AttemptsInv
<1> QED
  BY <1>1, AttemptsInvariant, PTL

\* A tab whose attempts did not overlap is never connected to nothing.
THEOREM ConnectedHasStream == Spec => []ConnectedIsServed
<1>1. AttemptsInv => ConnectedIsServed
  BY DEF AttemptsInv
<1> QED
  BY <1>1, AttemptsInvariant, PTL

\* Answering the password dialog never tears down a connection.
THEOREM PromptIsSafe == Spec => []PromptedTabWaits
<1>1. AttemptsInv => PromptedTabWaits
  BY DEF AttemptsInv
<1> QED
  BY <1>1, AttemptsInvariant, PTL

\* No message, timer or network change takes a tab from a working connection.
THEOREM WorkingLeftAlone == Spec => WorkingTabsStay
<1>1. AttemptsInv /\ [Next]_vars =>
        [\A t \in In("Connected") \ overtaken' :
            streams[t] = "reading" /\ tabs[t].terminal =>
                tabs'[t].state \in {"Connected", "closed"}]_vars
  BY WorkingStep
<1> QED
  BY <1>1, AttemptsInvariant, PTL DEF Spec, WorkingTabsStay

\* FR-RECONNECT-05: the limit on automatic reconnects.
THEOREM LimitHolds == Spec => []ReconnectsLimited
<1>1. Init => AttemptsInv /\ LimitInv
  BY AttemptsInit, LimitInit
<1>2. AttemptsInv /\ LimitInv /\ [Next]_vars => AttemptsInv' /\ LimitInv'
  <2> SUFFICES ASSUME AttemptsInv, LimitInv, [Next]_vars
               PROVE  AttemptsInv' /\ LimitInv'
    OBVIOUS
  <2>1. AttemptsInv'
    BY AttemptsStep
  <2>2. TypeOK'
    BY <2>1 DEF AttemptsInv
  <2> QED
    BY <2>1, <2>2, LimitStep
<1>3. LimitInv => ReconnectsLimited
  BY DEF LimitInv
<1> QED
  BY <1>1, <1>2, <1>3, PTL DEF Spec
=============================================================================
