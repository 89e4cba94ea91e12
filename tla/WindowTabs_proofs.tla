-------------------------- MODULE WindowTabs_proofs --------------------------
(***************************************************************************)
(* Theorems of WindowTabs: types and layout, sessions within reach, focus, *)
(* and the tabs a dialog closes, for any number of windows and tabs.       *)
(***************************************************************************)
EXTENDS WindowTabs, SequenceTheorems, FiniteSetTheorems, TLAPS

-----------------------------------------------------------------------------
(***************************************************************************)
(* Lists: induction over their length, and what the operators on them do.  *)
(***************************************************************************)
\* Induction, for what a set of numbers says.
LEMMA Inductive ==
    ASSUME NEW S, 0 \in S, \A n \in Nat : n \in S => n + 1 \in S
    PROVE  Nat \subseteq S
<1> SUFFICES ASSUME ~(Nat \subseteq S) PROVE FALSE
  OBVIOUS
<1> DEFINE Less == {ss \in Nat \X Nat : ss[1] < ss[2]}
           Missing == Nat \ S
<1>1. IsWellFoundedOn(Less, Nat)
  BY NatLessThanWellFounded DEF OpToRel
<1>2. Missing \in SUBSET Nat /\ Missing # {}
  OBVIOUS
<1> HIDE DEF Less, Missing
<1>3. PICK x \in Missing : \A y \in Missing : <<y, x>> \notin Less
  BY <1>1, <1>2, WFMin
<1>4. x \in Nat /\ x \notin S
  BY DEF Missing
<1>5. x # 0 /\ x - 1 \in Nat
  BY <1>4
<1>6. x - 1 \notin S
  BY <1>4, <1>5
<1>7. <<x - 1, x>> \in Less
  BY <1>4, <1>5 DEF Less
<1>8. x - 1 \in Missing
  BY <1>5, <1>6 DEF Missing
<1> QED BY <1>3, <1>7, <1>8

LEMMA RemoveIs ==
    ASSUME NEW T, NEW s \in Seq(T), NEW i \in 1 .. Len(s)
    PROVE  /\ RemoveAt(s, i) \in Seq(T)
           /\ Len(RemoveAt(s, i)) = Len(s) - 1
           /\ \A k \in 1 .. Len(s) - 1 :
                 RemoveAt(s, i)[k] = IF k < i THEN s[k] ELSE s[k + 1]
<1>1. Len(s) \in Nat /\ \A k \in 1 .. Len(s) : s[k] \in T
  OBVIOUS
<1>2. PICK n \in Nat : n = Len(s)
  BY <1>1
<1> DEFINE a == SubSeq(s, 1, i - 1)
           b == SubSeq(s, i + 1, n)
<1>3. /\ a \in Seq(T) /\ Len(a) = i - 1
      /\ \A k \in 1 .. i - 1 : a[k] = s[k]
  <2>1. \A k \in 1 .. i - 1 : s[k] \in T
    BY <1>1, <1>2
  <2>2. i - 1 \in Int /\ 1 \in Int
    BY <1>2
  <2>3. /\ a \in Seq(T)
        /\ Len(a) = IF 1 <= i - 1 THEN i - 1 - 1 + 1 ELSE 0
        /\ \A k \in 1 .. i - 1 - 1 + 1 : a[k] = s[1 + k - 1]
    BY <2>1, <2>2, SubSeqProperties
  <2> HIDE DEF a
  <2> QED BY <2>2, <2>3, <1>2
<1>4. /\ b \in Seq(T) /\ Len(b) = n - i
      /\ \A k \in 1 .. n - i : b[k] = s[k + i]
  <2>1. \A k \in i + 1 .. n : s[k] \in T
    BY <1>1, <1>2
  <2>2. i + 1 \in Int /\ n \in Int
    BY <1>2
  <2>3. /\ b \in Seq(T)
        /\ Len(b) = IF i + 1 <= n THEN n - (i + 1) + 1 ELSE 0
        /\ \A k \in 1 .. n - (i + 1) + 1 : b[k] = s[i + 1 + k - 1]
    BY <2>1, <2>2, SubSeqProperties
  <2> HIDE DEF b
  <2> QED BY <2>2, <2>3, <1>2
<1>5. RemoveAt(s, i) = a \o b
  BY <1>2 DEF RemoveAt
<1> HIDE DEF a, b
<1>6. /\ a \o b \in Seq(T) /\ Len(a \o b) = Len(a) + Len(b)
      /\ \A k \in 1 .. Len(a) + Len(b) :
            (a \o b)[k] = IF k <= Len(a) THEN a[k] ELSE b[k - Len(a)]
  BY <1>3, <1>4, ConcatProperties
<1> QED BY <1>2, <1>3, <1>4, <1>5, <1>6

LEMMA AppendIs ==
    ASSUME NEW T, NEW s \in Seq(T), NEW e \in T
    PROVE  /\ Append(s, e) \in Seq(T)
           /\ Len(Append(s, e)) = Len(s) + 1
           /\ \A k \in 1 .. Len(s) : Append(s, e)[k] = s[k]
           /\ Append(s, e)[Len(s) + 1] = e
           /\ ToSet(Append(s, e)) = ToSet(s) \union {e}
<1>1. /\ Append(s, e) \in Seq(T)
      /\ Len(Append(s, e)) = Len(s) + 1
      /\ \A k \in 1 .. Len(s) : Append(s, e)[k] = s[k]
      /\ Append(s, e)[Len(s) + 1] = e
      /\ DOMAIN s = 1 .. Len(s) /\ DOMAIN Append(s, e) = 1 .. Len(s) + 1
  OBVIOUS
<1>2. Len(s) \in Nat
  OBVIOUS
<1> QED BY <1>1, <1>2 DEF ToSet

\* kept is the list of what is left of the first 0, 1, ..., n elements of s.
KeptSoFar(kept, s, T, n) ==
    kept = [i \in 0 .. n |->
              IF i = 0 THEN <<>>
              ELSE IF s[i] \in T THEN Append(kept[i - 1], s[i]) ELSE kept[i - 1]]

\* q holds the elements of the first n of s that are in T, as often as s.
KeepsOf(q, s, T, n) ==
    /\ \A k \in DOMAIN q : q[k] \in T
    /\ ToSet(q) = {s[i] : i \in 1 .. n} \intersect T
    /\ IsInjective(s) => IsInjective(q)

LEMMA KeptExists ==
    ASSUME NEW s, NEW T, NEW n \in Nat
    PROVE  \E kept : KeptSoFar(kept, s, T, n)
<1> DEFINE S == {m \in Nat : \E kept : KeptSoFar(kept, s, T, m)}
<1>1. 0 \in S
  <2> DEFINE k == [i \in 0 .. 0 |-> <<>>]
  <2>1. KeptSoFar(k, s, T, 0)
    BY DEF KeptSoFar
  <2> QED BY <2>1
<1>2. ASSUME NEW m \in Nat, m \in S PROVE m + 1 \in S
  <2>1. PICK kept : KeptSoFar(kept, s, T, m)
    BY <1>2
  <2> DEFINE last == IF s[m + 1] \in T THEN Append(kept[m], s[m + 1]) ELSE kept[m]
             k == [i \in 0 .. m + 1 |-> IF i = m + 1 THEN last ELSE kept[i]]
  <2>2. \A i \in 0 .. m : kept[i] = IF i = 0 THEN <<>>
              ELSE IF s[i] \in T THEN Append(kept[i - 1], s[i]) ELSE kept[i - 1]
    BY <2>1 DEF KeptSoFar
  <2>3. \A i \in 0 .. m + 1 : k[i] = IF i = 0 THEN <<>>
              ELSE IF s[i] \in T THEN Append(k[i - 1], s[i]) ELSE k[i - 1]
    <3> SUFFICES ASSUME NEW i \in 0 .. m + 1
                 PROVE  k[i] = IF i = 0 THEN <<>>
                    ELSE IF s[i] \in T THEN Append(k[i - 1], s[i]) ELSE k[i - 1]
      OBVIOUS
    <3>1. CASE i = m + 1
      <4>1. i # 0 /\ i - 1 = m /\ i - 1 \in 0 .. m + 1 /\ i - 1 # m + 1
        BY <3>1
      <4>2. k[i] = last /\ k[i - 1] = kept[m]
        BY <3>1, <4>1
      <4> HIDE DEF k
      <4> QED BY <3>1, <4>1, <4>2
    <3>2. CASE i # m + 1
      <4>1. i \in 0 .. m /\ k[i] = kept[i]
        BY <3>2
      <4>2. i # 0 => i - 1 \in 0 .. m + 1 /\ i - 1 # m + 1
        BY <4>1
      <4>3. i # 0 => k[i - 1] = kept[i - 1]
        BY <4>2
      <4> HIDE DEF k, last
      <4> QED BY <2>2, <4>1, <4>3
    <3> QED BY <3>1, <3>2
  <2>4. KeptSoFar(k, s, T, m + 1)
    <3> k = [i \in 0 .. m + 1 |-> k[i]]
      OBVIOUS
    <3> HIDE DEF k, last
    <3> QED BY <2>3 DEF KeptSoFar
  <2> HIDE DEF k
  <2> QED BY <2>4
<1> HIDE DEF S
<1>3. n \in S
  BY <1>1, <1>2, Inductive
<1> QED BY <1>3 DEF S

LEMMA AmongIs ==
    ASSUME NEW U, NEW s \in Seq(U), NEW T
    PROVE  /\ Among(s, T) \in Seq(U)
           /\ ToSet(Among(s, T)) = ToSet(s) \intersect T
           /\ IsInjective(s) => IsInjective(Among(s, T))
<1>1. PICK n \in Nat : n = Len(s)
  OBVIOUS
<1>2. \A i \in 1 .. n : s[i] \in U
  BY <1>1
<1>3. DOMAIN s = 1 .. n
  BY <1>1
<1> DEFINE k == CHOOSE g : g = [i \in 0 .. n |->
              IF i = 0 THEN <<>>
              ELSE IF s[i] \in T THEN Append(g[i - 1], s[i]) ELSE g[i - 1]]
<1>4. KeptSoFar(k, s, T, n)
  <2>1. \E g : KeptSoFar(g, s, T, n)
    BY KeptExists
  <2> QED BY <2>1 DEF KeptSoFar
<1>5. Among(s, T) = k[n]
  BY <1>1 DEF Among
<1> HIDE DEF k
<1>6. \A i \in 0 .. n : k[i] = IF i = 0 THEN <<>>
              ELSE IF s[i] \in T THEN Append(k[i - 1], s[i]) ELSE k[i - 1]
  BY <1>4 DEF KeptSoFar
<1> DEFINE S == {m \in Nat : m <= n => k[m] \in Seq(U) /\ KeepsOf(k[m], s, T, m)}
<1>7. 0 \in S
  <2>1. k[0] = <<>>
    BY <1>6
  <2>2. PICK none : none = <<>>
    OBVIOUS
  <2>3. none \in Seq(U) /\ DOMAIN none = {}
    BY <2>2
  <2>4. KeepsOf(none, s, T, 0)
    BY <2>3 DEF KeepsOf, ToSet, IsInjective
  <2> QED BY <2>1, <2>2, <2>3, <2>4
<1>8. ASSUME NEW m \in Nat, m \in S PROVE m + 1 \in S
  <2> SUFFICES ASSUME m + 1 <= n PROVE k[m + 1] \in Seq(U) /\ KeepsOf(k[m + 1], s, T, m + 1)
    OBVIOUS
  <2>1. k[m] \in Seq(U) /\ KeepsOf(k[m], s, T, m)
    BY <1>8
  <2>2. m + 1 \in 1 .. n /\ s[m + 1] \in U
    BY <1>2
  <2>3. k[m + 1] = IF s[m + 1] \in T THEN Append(k[m], s[m + 1]) ELSE k[m]
    <3>1. m + 1 \in 0 .. n /\ m + 1 # 0 /\ m + 1 - 1 = m
      BY <2>2
    <3> QED BY <1>6, <3>1
  <2>4. PICK q, x : q = k[m] /\ x = s[m + 1]
    OBVIOUS
  <2>5. {s[i] : i \in 1 .. m + 1} = {s[i] : i \in 1 .. m} \union {x}
    <3>1. \A i : i \in 1 .. m + 1 <=> i \in 1 .. m \/ i = m + 1
      OBVIOUS
    <3> QED BY <3>1, <2>4
  <2>6. q \in Seq(U) /\ KeepsOf(q, s, T, m) /\ x \in U
    BY <2>1, <2>2, <2>4
  <2>7. CASE x \notin T
    <3>1. k[m + 1] = q
      BY <2>3, <2>4, <2>7
    <3>2. KeepsOf(q, s, T, m + 1)
      BY <2>5, <2>6, <2>7 DEF KeepsOf
    <3> QED BY <2>6, <3>1, <3>2
  <2>8. CASE x \in T
    <3> DEFINE p == Append(q, x)
    <3>1. k[m + 1] = p
      BY <2>3, <2>4, <2>8
    <3>2. /\ p \in Seq(U) /\ Len(p) = Len(q) + 1 /\ p[Len(q) + 1] = x
          /\ \A j \in 1 .. Len(q) : p[j] = q[j]
          /\ ToSet(p) = ToSet(q) \union {x}
      BY <2>6, AppendIs
    <3> HIDE DEF p
    <3>3. PICK l \in Nat : l = Len(q)
      BY <2>6
    <3>4. DOMAIN p = 1 .. l + 1 /\ DOMAIN q = 1 .. l
      BY <2>6, <3>2, <3>3
    <3>5. \A j \in 1 .. l + 1 : j \in 1 .. l \/ j = l + 1
      OBVIOUS
    <3>6. \A j \in DOMAIN p : p[j] \in T
      BY <2>6, <2>8, <3>2, <3>3, <3>4, <3>5 DEF KeepsOf
    <3>7. ToSet(p) = {s[i] : i \in 1 .. m + 1} \intersect T
      BY <2>5, <2>6, <2>8, <3>2 DEF KeepsOf
    <3>8. ASSUME IsInjective(s) PROVE IsInjective(p)
      <4>1. x \notin ToSet(q)
        <5>1. \A i \in 1 .. m : s[i] # x
          <6>1. \A i \in 1 .. m : i \in DOMAIN s /\ i # m + 1
            BY <1>3, <2>2
          <6>2. m + 1 \in DOMAIN s
            BY <1>3, <2>2
          <6> QED BY <2>4, <3>8, <6>1, <6>2 DEF IsInjective
        <5> QED BY <5>1, <2>6 DEF KeepsOf
      <4>2. \A j \in 1 .. l : q[j] # x
        BY <4>1, <3>4 DEF ToSet
      <4>3. IsInjective(q)
        BY <2>6, <3>8 DEF KeepsOf
      <4>4. \A i, j \in 1 .. l : q[i] = q[j] => i = j
        BY <4>3, <3>4 DEF IsInjective
      <4>5. \A i, j \in 1 .. l + 1 : p[i] = p[j] => i = j
        BY <3>2, <3>3, <3>5, <4>2, <4>4
      <4> QED BY <4>5, <3>4 DEF IsInjective
    <3>9. KeepsOf(p, s, T, m + 1)
      BY <3>6, <3>7, <3>8 DEF KeepsOf
    <3> QED BY <3>1, <3>2, <3>9
  <2> QED BY <2>7, <2>8
<1> HIDE DEF S
<1>9. n \in S
  BY <1>7, <1>8, Inductive
<1>10. k[n] \in Seq(U) /\ KeepsOf(k[n], s, T, n)
  BY <1>9 DEF S
<1>11. ToSet(s) = {s[i] : i \in 1 .. n}
  BY <1>3 DEF ToSet
<1> QED BY <1>5, <1>10, <1>11 DEF KeepsOf
-----------------------------------------------------------------------------
(***************************************************************************)
(* The inductive invariant, in three parts: windows with their tabs; the   *)
(* order and the focus; the dialog.                                        *)
(***************************************************************************)
\* The windows ws are such that the selection is a tab, and only open windows
\* have tabs; and no tab is twice in them.
Sound(ws) ==
    /\ ws \in [Windows -> Window]
    /\ \A w \in Windows : ws[w].tabs # <<>> => ws[w].active \in DOMAIN ws[w].tabs
    /\ \A w \in Windows : ws[w].kind \in {"unborn", "gone"} => ws[w].tabs = <<>>

Once(ws) ==
    \A v, w \in Windows : \A i \in DOMAIN ws[v].tabs, j \in DOMAIN ws[w].tabs :
        ws[v].tabs[i] = ws[w].tabs[j] => v = w /\ i = j

Born == {t \in Tabs : tab[t].state # "unborn"}

\* Tabs are numbered in the order they are opened in.
NumberedTabs == \E n \in 0 .. MaxTab : \A t \in Tabs : t \in Born <=> t <= n

TabsType ==
    /\ tab \in [Tabs -> [state : TabState, session : Nat]]
    /\ hidden \subseteq Tabs
    /\ hiddenWins \in Seq(Seq(Tabs))
    /\ conn \in BOOLEAN

TabsKnown ==
    /\ \A w \in Windows : ToSet(win[w].tabs) \subseteq Born
    /\ hidden \subseteq Born
    /\ \A k \in DOMAIN hiddenWins : ToSet(hiddenWins[k]) \subseteq Born

\* What windows showed, and nobody put away or dropped, they show, or it is hidden.
WithinShown == within \subseteq Session(Shown(win) \union hidden)

TabsInv ==
    /\ Sound(win) /\ Once(win)
    /\ TabsType /\ NumberedTabs /\ TabsKnown
    /\ WithinShown

\* Every window of the order is there, or about to be reported closed.
LayoutInv ==
    /\ order \in Seq(Windows) /\ IsInjective(order)
    /\ focus \in Windows \union {0}
    /\ control \in Windows /\ win[control].kind \in {"control", "gone"}
    /\ events \subseteq Windows
    /\ Open(win, "control") \union Open(win, "session") \subseteq ToSet(order)
    /\ Open(win, "control") \subseteq {control}
    /\ \A w \in ToSet(order) : Exists(w) \/ w \in events
    /\ \A w \in events : win[w].kind = "gone"
    /\ FocusRecovers

\* A dialog speaks of a session window, and of tabs that were there, by their
\* indices in ascending order.
Ascending(s) == \A j, k \in DOMAIN s : j < k => s[j] < s[k]

DialogInv ==
    /\ dialog \in [window : Windows \union {0}, indices : Seq(Nat \ {0}), seen : Seq(Tabs)]
    /\ dialog # NoDialog =>
         /\ dialog.window # 0 /\ win[dialog.window].kind \in {"session", "gone"}
         /\ dialog.seen # <<>>
         /\ \A k \in DOMAIN dialog.indices : dialog.indices[k] \in DOMAIN dialog.seen
         /\ Ascending(dialog.indices)

WindowInv == TabsInv /\ LayoutInv /\ DialogInv

LEMMA InvTypes == WindowInv => TypeOK
BY DEF WindowInv, TabsInv, LayoutInv, DialogInv, Sound, TabsType, TypeOK

-----------------------------------------------------------------------------
(***************************************************************************)
(* Closing tabs.                                                           *)
(***************************************************************************)
\* A window stays what it is, or is a session window that goes.
KindStep(old, new) == new = old \/ (old = "session" /\ new = "gone")

\* The windows zs show less than ws: tabs are gone, and session windows.
Less(ws, zs) ==
    /\ Sound(zs) /\ Once(zs)
    /\ \A w \in Windows :
          /\ KindStep(ws[w].kind, zs[w].kind)
          /\ ToSet(zs[w].tabs) \subseteq ToSet(ws[w].tabs)

LEMMA LessRefl == ASSUME NEW ws, Sound(ws), Once(ws) PROVE Less(ws, ws)
BY DEF Less, KindStep

LEMMA LessTrans ==
    ASSUME NEW ws, NEW xs, NEW zs, Less(ws, xs), Less(xs, zs)
    PROVE  Less(ws, zs)
<1>1. Sound(zs) /\ Once(zs)
  BY DEF Less
<1>2. ASSUME NEW w \in Windows
      PROVE  /\ KindStep(ws[w].kind, zs[w].kind)
             /\ ToSet(zs[w].tabs) \subseteq ToSet(ws[w].tabs)
  <2>1. /\ KindStep(xs[w].kind, zs[w].kind)
        /\ ToSet(zs[w].tabs) \subseteq ToSet(xs[w].tabs)
    BY DEF Less
  <2>2. /\ KindStep(ws[w].kind, xs[w].kind)
        /\ ToSet(xs[w].tabs) \subseteq ToSet(ws[w].tabs)
    BY DEF Less
  <2> QED BY <2>1, <2>2 DEF KindStep
<1> QED BY <1>1, <1>2 DEF Less

LEMMA WithoutIs ==
    ASSUME NEW r \in Window, NEW i \in DOMAIN r.tabs, r.active \in DOMAIN r.tabs,
           IsInjective(r.tabs)
    PROVE  LET q == Without(r, i) IN
           /\ q \in Window /\ q.kind = r.kind
           /\ Len(q.tabs) = Len(r.tabs) - 1
           /\ \A k \in DOMAIN q.tabs : q.tabs[k] = IF k < i THEN r.tabs[k] ELSE r.tabs[k + 1]
           /\ q.tabs # <<>> => q.active \in DOMAIN q.tabs
           /\ ToSet(q.tabs) = ToSet(r.tabs) \ {r.tabs[i]}
           /\ IsInjective(q.tabs)
<1> DEFINE q == Without(r, i)
<1>1. PICK s : s = r.tabs
  OBVIOUS
<1>2. PICK n \in Nat : n = Len(s)
  BY <1>1 DEF Window
<1>3. s \in Seq(Tabs) /\ DOMAIN s = 1 .. n /\ i \in 1 .. n /\ r.active \in 1 .. n
  BY <1>1, <1>2 DEF Window
<1>4. PICK z : z = RemoveAt(s, i)
  OBVIOUS
<1>5. /\ z \in Seq(Tabs) /\ Len(z) = n - 1
      /\ \A k \in 1 .. n - 1 : z[k] = IF k < i THEN s[k] ELSE s[k + 1]
  <2>1. i \in 1 .. Len(s)
    BY <1>2, <1>3
  <2> QED BY <1>2, <1>3, <1>4, <2>1, RemoveIs
<1>6. DOMAIN z = 1 .. n - 1
  BY <1>2, <1>5
<1>7. PICK a : a = ActiveTabAfterRemoval(r.active, n, i)
  OBVIOUS
<1>8. a \in Nat /\ (n # 1 => a \in 1 .. n - 1)
  BY <1>2, <1>3, <1>7 DEF ActiveTabAfterRemoval
<1>9. q = [r EXCEPT !.tabs = z, !.active = a]
  BY <1>1, <1>2, <1>4, <1>7 DEF Without
<1>10. q \in Window /\ q.kind = r.kind /\ q.tabs = z /\ q.active = a
  BY <1>5, <1>8, <1>9 DEF Window
<1>11. z # <<>> => n # 1
  BY <1>2, <1>5
<1>12. \A j, k \in 1 .. n : s[j] = s[k] => j = k
  BY <1>1, <1>3 DEF IsInjective
<1>13. ToSet(z) = ToSet(s) \ {s[i]}
  <2>1. ASSUME NEW k \in 1 .. n - 1 PROVE z[k] \in ToSet(s) /\ z[k] # s[i]
    <3>1. k \in 1 .. n /\ k + 1 \in 1 .. n
      BY <1>2
    <3>2. CASE k < i
      BY <1>3, <1>5, <1>12, <3>1, <3>2 DEF ToSet
    <3>3. CASE ~(k < i)
      <4>1. k + 1 # i
        BY <1>2, <1>3, <3>3
      <4> QED BY <1>3, <1>5, <1>12, <3>1, <3>3, <4>1 DEF ToSet
    <3> QED BY <3>2, <3>3
  <2>2. ASSUME NEW j \in 1 .. n, j # i PROVE \E k \in 1 .. n - 1 : z[k] = s[j]
    <3>1. CASE j < i
      <4>1. j \in 1 .. n - 1
        BY <1>2, <1>3, <3>1
      <4> QED BY <1>5, <3>1, <4>1
    <3>2. CASE ~(j < i)
      <4>1. j - 1 \in 1 .. n - 1 /\ ~(j - 1 < i) /\ j - 1 + 1 = j
        BY <1>2, <1>3, <2>2, <3>2
      <4> QED BY <1>5, <4>1
    <3> QED BY <3>1, <3>2
  <2>3. ToSet(z) = {z[k] : k \in 1 .. n - 1} /\ ToSet(s) = {s[j] : j \in 1 .. n}
    BY <1>3, <1>6 DEF ToSet
  <2>4. ASSUME NEW x \in ToSet(s), x # s[i] PROVE x \in ToSet(z)
    <3>1. PICK j \in 1 .. n : x = s[j]
      BY <2>3
    <3>2. PICK k \in 1 .. n - 1 : z[k] = s[j]
      BY <2>2, <2>4, <3>1
    <3> QED BY <2>3, <3>1, <3>2
  <2>5. \A x \in ToSet(z) : x \in ToSet(s) /\ x # s[i]
    BY <2>1, <2>3
  <2> QED BY <2>4, <2>5
<1>14. IsInjective(z)
  <2> SUFFICES ASSUME NEW j \in 1 .. n - 1, NEW k \in 1 .. n - 1, z[j] = z[k] PROVE j = k
    BY <1>6 DEF IsInjective
  <2>1. j \in 1 .. n /\ j + 1 \in 1 .. n /\ k \in 1 .. n /\ k + 1 \in 1 .. n
    BY <1>2
  <2>2. j \in Nat /\ k \in Nat
    BY <1>2
  <2> QED BY <1>3, <1>5, <1>12, <2>1, <2>2
<1> HIDE DEF q
<1>15. /\ q \in Window /\ q.kind = r.kind
       /\ Len(q.tabs) = Len(r.tabs) - 1
       /\ \A k \in DOMAIN q.tabs : q.tabs[k] = IF k < i THEN r.tabs[k] ELSE r.tabs[k + 1]
       /\ q.tabs # <<>> => q.active \in DOMAIN q.tabs
       /\ ToSet(q.tabs) = ToSet(r.tabs) \ {r.tabs[i]}
       /\ IsInjective(q.tabs)
  BY <1>1, <1>2, <1>5, <1>6, <1>8, <1>10, <1>11, <1>13, <1>14
<1> QED BY <1>15 DEF q

\* Windows in which only window w differs, and has fewer tabs.
LEMMA LessAt ==
    ASSUME NEW ws, Sound(ws), Once(ws), NEW w \in Windows, NEW r \in Window,
           KindStep(ws[w].kind, r.kind),
           r.tabs # <<>> => r.active \in DOMAIN r.tabs,
           r.kind \in {"unborn", "gone"} => r.tabs = <<>>,
           ToSet(r.tabs) \subseteq ToSet(ws[w].tabs),
           IsInjective(r.tabs)
    PROVE  Less(ws, [ws EXCEPT ![w] = r])
<1>1. PICK zs : zs = [ws EXCEPT ![w] = r]
  OBVIOUS
<1>2. ws \in [Windows -> Window]
  BY DEF Sound
<1>3. zs \in [Windows -> Window] /\ zs[w] = r /\ \A v \in Windows : v # w => zs[v] = ws[v]
  BY <1>1, <1>2
<1>4. Sound(zs)
  BY <1>3 DEF Sound
<1>5. Once(zs)
  <2> SUFFICES ASSUME NEW u \in Windows, NEW v \in Windows,
                      NEW i \in DOMAIN zs[u].tabs, NEW j \in DOMAIN zs[v].tabs,
                      zs[u].tabs[i] = zs[v].tabs[j]
               PROVE  u = v /\ i = j
    BY DEF Once
  <2>1. \A x \in Windows : ToSet(zs[x].tabs) \subseteq ToSet(ws[x].tabs)
    BY <1>3
  <2>2. zs[u].tabs[i] \in ToSet(ws[u].tabs) /\ zs[v].tabs[j] \in ToSet(ws[v].tabs)
    BY <2>1 DEF ToSet
  <2>3. u = v
    BY <2>2 DEF ToSet, Once
  <2>4. CASE u = w
    BY <1>3, <2>3, <2>4 DEF IsInjective
  <2>5. CASE u # w
    BY <1>3, <2>3, <2>5 DEF Once
  <2> QED BY <2>3, <2>4, <2>5
<1>6. \A v \in Windows :
        /\ KindStep(ws[v].kind, zs[v].kind)
        /\ ToSet(zs[v].tabs) \subseteq ToSet(ws[v].tabs)
  BY <1>3 DEF KindStep
<1> QED BY <1>1, <1>4, <1>5, <1>6 DEF Less

LEMMA CloseIsLess ==
    ASSUME NEW ws, Sound(ws), Once(ws), NEW w \in Windows, NEW i
    PROVE  Less(ws, CloseTabIn(ws, w, i))
<1>1. CASE i \notin DOMAIN ws[w].tabs
  BY <1>1, LessRefl DEF CloseTabIn
<1>2. CASE i \in DOMAIN ws[w].tabs
  <2>1. PICK r : r = ws[w]
    OBVIOUS
  <2>2. r \in Window /\ i \in DOMAIN r.tabs /\ r.active \in DOMAIN r.tabs /\ IsInjective(r.tabs)
    <3>1. r \in Window /\ i \in DOMAIN r.tabs
      BY <1>2, <2>1 DEF Sound
    <3>2. r.tabs # <<>>
      BY <3>1
    <3> QED BY <2>1, <3>1, <3>2 DEF Sound, Once, IsInjective
  <2>3. PICK q : q = Without(r, i)
    OBVIOUS
  <2>4. /\ q \in Window /\ q.kind = r.kind
        /\ q.tabs # <<>> => q.active \in DOMAIN q.tabs
        /\ ToSet(q.tabs) = ToSet(r.tabs) \ {r.tabs[i]}
        /\ IsInjective(q.tabs)
    BY <2>2, <2>3, WithoutIs
  <2>5. r.kind \notin {"unborn", "gone"}
    BY <1>2, <2>1 DEF Sound
  <2>6. CASE q.tabs = <<>> /\ q.kind = "session"
    <3>1. PICK g : g = NoWindow("gone")
      OBVIOUS
    <3>2. g \in Window /\ g.kind = "gone" /\ g.tabs = <<>>
      BY <3>1 DEF NoWindow, Window
    <3>3. ToSet(g.tabs) \subseteq ToSet(r.tabs) /\ IsInjective(g.tabs)
      BY <3>2 DEF ToSet, IsInjective
    <3>4. CloseTabIn(ws, w, i) = [ws EXCEPT ![w] = g]
      BY <1>2, <2>1, <2>3, <2>6, <3>1 DEF CloseTabIn
    <3>5. Less(ws, [ws EXCEPT ![w] = g])
      <4> KindStep(ws[w].kind, g.kind)
        BY <2>1, <2>4, <2>6, <3>2 DEF KindStep
      <4> QED BY <2>1, <3>2, <3>3, LessAt
    <3> QED BY <3>4, <3>5
  <2>7. CASE ~(q.tabs = <<>> /\ q.kind = "session")
    <3>1. CloseTabIn(ws, w, i) = [ws EXCEPT ![w] = q]
      BY <1>2, <2>1, <2>3, <2>7 DEF CloseTabIn
    <3>2. KindStep(r.kind, q.kind) /\ ToSet(q.tabs) \subseteq ToSet(r.tabs)
      BY <2>4 DEF KindStep
    <3>3. q.kind \notin {"unborn", "gone"}
      BY <2>4, <2>5
    <3>4. Less(ws, [ws EXCEPT ![w] = q])
      BY <2>1, <2>4, <3>2, <3>3, LessAt
    <3> QED BY <3>1, <3>4
  <2> QED BY <2>6, <2>7
<1> QED BY <1>1, <1>2
\* What closing tab i does to its window.
LEMMA CloseAtIs ==
    ASSUME NEW ws, Sound(ws), Once(ws), NEW w \in Windows, NEW i \in DOMAIN ws[w].tabs,
           NEW zs, zs = CloseTabIn(ws, w, i)
    PROVE  /\ \A v \in Windows : v # w => zs[v] = ws[v]
           /\ ToSet(zs[w].tabs) = ToSet(ws[w].tabs) \ {ws[w].tabs[i]}
           /\ \A k \in DOMAIN ws[w].tabs :
                 k < i => k \in DOMAIN zs[w].tabs /\ zs[w].tabs[k] = ws[w].tabs[k]
<1>1. PICK r : r = ws[w]
  OBVIOUS
<1>2. ws \in [Windows -> Window]
  BY DEF Sound
<1>3. r \in Window /\ i \in DOMAIN r.tabs /\ r.active \in DOMAIN r.tabs /\ IsInjective(r.tabs)
  <2>1. r \in Window /\ i \in DOMAIN r.tabs
    BY <1>1, <1>2
  <2>2. r.tabs # <<>>
    BY <2>1
  <2> QED BY <1>1, <2>1, <2>2 DEF Sound, Once, IsInjective
<1>4. PICK q : q = Without(r, i)
  OBVIOUS
<1>5. /\ q \in Window
      /\ Len(q.tabs) = Len(r.tabs) - 1
      /\ \A k \in DOMAIN q.tabs : q.tabs[k] = IF k < i THEN r.tabs[k] ELSE r.tabs[k + 1]
      /\ ToSet(q.tabs) = ToSet(r.tabs) \ {r.tabs[i]}
  BY <1>3, <1>4, WithoutIs
<1>6. \A v \in Windows : v # w => zs[v] = ws[v]
  BY <1>2 DEF CloseTabIn
<1>7. zs[w].tabs = q.tabs
  BY <1>1, <1>2, <1>3, <1>4 DEF CloseTabIn, NoWindow
<1>8. ASSUME NEW k \in DOMAIN r.tabs, k < i
      PROVE  k \in DOMAIN q.tabs /\ q.tabs[k] = r.tabs[k]
  <2>1. PICK n \in Nat : n = Len(r.tabs)
    BY <1>3 DEF Window
  <2>2. DOMAIN r.tabs = 1 .. n /\ DOMAIN q.tabs = 1 .. n - 1
    BY <1>3, <1>5, <2>1 DEF Window
  <2>3. k \in 1 .. n - 1
    BY <1>3, <1>8, <2>1, <2>2
  <2> QED BY <1>5, <1>8, <2>2, <2>3
<1> QED BY <1>1, <1>5, <1>6, <1>7, <1>8

\* The windows after 0, 1, ..., m of the n indices s are closed.
ClosedSoFar(left, ws, w, s, n, m) ==
    left = [k \in 0 .. m |->
              IF k = 0 THEN ws ELSE CloseTabIn(left[k - 1], w, s[n + 1 - k])]

LEMMA ClosedExists ==
    ASSUME NEW ws, NEW w, NEW s, NEW n \in Nat, NEW l \in Nat
    PROVE  \E left : ClosedSoFar(left, ws, w, s, n, l)
<1> DEFINE S == {m \in Nat : \E left : ClosedSoFar(left, ws, w, s, n, m)}
<1>1. 0 \in S
  <2> DEFINE k == [i \in 0 .. 0 |-> ws]
  <2>1. ClosedSoFar(k, ws, w, s, n, 0)
    BY DEF ClosedSoFar
  <2> QED BY <2>1
<1>2. ASSUME NEW m \in Nat, m \in S PROVE m + 1 \in S
  <2>1. PICK left : ClosedSoFar(left, ws, w, s, n, m)
    BY <1>2
  <2> DEFINE last == CloseTabIn(left[m], w, s[n + 1 - (m + 1)])
             k == [i \in 0 .. m + 1 |-> IF i = m + 1 THEN last ELSE left[i]]
  <2>2. \A i \in 0 .. m :
          left[i] = IF i = 0 THEN ws ELSE CloseTabIn(left[i - 1], w, s[n + 1 - i])
    BY <2>1 DEF ClosedSoFar
  <2>3. \A i \in 0 .. m + 1 :
          k[i] = IF i = 0 THEN ws ELSE CloseTabIn(k[i - 1], w, s[n + 1 - i])
    <3> SUFFICES ASSUME NEW i \in 0 .. m + 1
                 PROVE  k[i] = IF i = 0 THEN ws ELSE CloseTabIn(k[i - 1], w, s[n + 1 - i])
      OBVIOUS
    <3>1. CASE i = m + 1
      <4>1. i # 0 /\ i - 1 = m /\ i - 1 \in 0 .. m + 1 /\ i - 1 # m + 1
        BY <3>1
      <4>2. k[i] = last /\ k[i - 1] = left[m]
        BY <3>1, <4>1
      <4> HIDE DEF k
      <4> QED BY <3>1, <4>1, <4>2
    <3>2. CASE i # m + 1
      <4>1. i \in 0 .. m /\ k[i] = left[i]
        BY <3>2
      <4>2. i # 0 => i - 1 \in 0 .. m + 1 /\ i - 1 # m + 1
        BY <4>1
      <4>3. i # 0 => k[i - 1] = left[i - 1]
        BY <4>2
      <4> HIDE DEF k, last
      <4> QED BY <2>2, <4>1, <4>3
    <3> QED BY <3>1, <3>2
  <2>4. ClosedSoFar(k, ws, w, s, n, m + 1)
    <3> k = [i \in 0 .. m + 1 |-> k[i]]
      OBVIOUS
    <3> HIDE DEF k, last
    <3> QED BY <2>3 DEF ClosedSoFar
  <2> HIDE DEF k
  <2> QED BY <2>4
<1> HIDE DEF S
<1>3. l \in S
  BY <1>1, <1>2, Inductive
<1> QED BY <1>3 DEF S

\* Closing the n tabs s leads from the windows ws to the windows zs.
ClosesInTurn(left, ws, w, s, n, zs) ==
    /\ left[0] = ws
    /\ \A k \in 0 .. n - 1 : left[k + 1] = CloseTabIn(left[k], w, s[n - k])
    /\ zs = left[n]

LEMMA CloseTabsAre ==
    ASSUME NEW ws, NEW w, NEW s, NEW n, n \in Nat, n = Len(s)
    PROVE  \E left : ClosesInTurn(left, ws, w, s, n, CloseTabsIn(ws, w, s))
<1> DEFINE left == CHOOSE g : g = [k \in 0 .. n |->
              IF k = 0 THEN ws ELSE CloseTabIn(g[k - 1], w, s[n + 1 - k])]
<1>1. ClosedSoFar(left, ws, w, s, n, n)
  <2>1. \E g : ClosedSoFar(g, ws, w, s, n, n)
    BY ClosedExists
  <2> QED BY <2>1 DEF ClosedSoFar
<1>2. CloseTabsIn(ws, w, s) = left[n]
  BY DEF CloseTabsIn
<1> HIDE DEF left
<1>3. \A k \in 0 .. n : left[k] =
          IF k = 0 THEN ws ELSE CloseTabIn(left[k - 1], w, s[n + 1 - k])
  BY <1>1 DEF ClosedSoFar
<1>4. left[0] = ws
  BY <1>3
<1>5. ASSUME NEW k \in 0 .. n - 1 PROVE left[k + 1] = CloseTabIn(left[k], w, s[n - k])
  <2>1. k + 1 \in 0 .. n /\ k + 1 # 0 /\ k + 1 - 1 = k /\ n + 1 - (k + 1) = n - k
    OBVIOUS
  <2> QED BY <1>3, <2>1
<1> QED BY <1>2, <1>4, <1>5 DEF ClosesInTurn

LEMMA CloseTabsLess ==
    ASSUME NEW ws, Sound(ws), Once(ws), NEW w \in Windows, NEW s, Len(s) \in Nat
    PROVE  Less(ws, CloseTabsIn(ws, w, s))
<1>1. PICK n \in Nat : n = Len(s)
  OBVIOUS
<1>2. PICK left : /\ left[0] = ws
                  /\ \A k \in 0 .. n - 1 : left[k + 1] = CloseTabIn(left[k], w, s[n - k])
                  /\ CloseTabsIn(ws, w, s) = left[n]
  <2>1. \E left : ClosesInTurn(left, ws, w, s, n, CloseTabsIn(ws, w, s))
    BY <1>1, CloseTabsAre, Zenon
  <2> QED BY <2>1 DEF ClosesInTurn
<1> DEFINE S == {k \in Nat : k <= n => Less(ws, left[k])}
<1>3. 0 \in S
  BY <1>2, LessRefl
<1>4. ASSUME NEW k \in Nat, k \in S PROVE k + 1 \in S
  <2> SUFFICES ASSUME k + 1 <= n PROVE Less(ws, left[k + 1])
    OBVIOUS
  <2>1. Less(ws, left[k]) /\ left[k + 1] = CloseTabIn(left[k], w, s[n - k])
    BY <1>2, <1>4
  <2>2. Less(left[k], left[k + 1])
    <3> Sound(left[k]) /\ Once(left[k])
      BY <2>1 DEF Less
    <3> QED BY <2>1, CloseIsLess
  <2> QED BY <2>1, <2>2, LessTrans
<1> HIDE DEF S
<1>5. n \in S
  BY <1>3, <1>4, Inductive
<1> QED BY <1>2, <1>5 DEF S

\* The windows zs are ws without the tabs at the indices s of window w.
LessTheTabs(ws, w, s, zs) ==
    /\ Less(ws, zs)
    /\ \A v \in Windows : v # w => zs[v] = ws[v]
    /\ ToSet(zs[w].tabs) = ToSet(ws[w].tabs) \ {ws[w].tabs[s[k]] : k \in DOMAIN s}

\* Closed from the last one to the first, the tabs at ascending indices are the
\* ones that were there before.
LEMMA CloseTabsChosen ==
    ASSUME NEW ws, Sound(ws), Once(ws), NEW w \in Windows,
           NEW s \in Seq(Nat \ {0}), Ascending(s),
           \A k \in DOMAIN s : s[k] \in DOMAIN ws[w].tabs,
           NEW zs, zs = CloseTabsIn(ws, w, s)
    PROVE  LessTheTabs(ws, w, s, zs)
<1>1. PICK n \in Nat : n = Len(s)
  OBVIOUS
<1>2. DOMAIN s = 1 .. n
  BY <1>1
<1>3. PICK left : /\ left[0] = ws
                  /\ \A k \in 0 .. n - 1 : left[k + 1] = CloseTabIn(left[k], w, s[n - k])
                  /\ zs = left[n]
  <2>1. \E left : ClosesInTurn(left, ws, w, s, n, CloseTabsIn(ws, w, s))
    BY <1>1, CloseTabsAre, Zenon
  <2> QED BY <2>1 DEF ClosesInTurn
<1>4. PICK tabs : tabs = ws[w].tabs
  OBVIOUS
<1>5. \A k \in 1 .. n : s[k] \in DOMAIN tabs /\ s[k] \in Nat
  BY <1>2, <1>4
<1>6. \A j, k \in 1 .. n : j < k => s[j] < s[k]
  BY <1>2 DEF Ascending
<1> DEFINE Chosen(k) == {tabs[s[j]] : j \in n + 1 - k .. n}
           Behind(k, i) == \A j \in n + 1 - k .. n : i < s[j]
           S == {k \in Nat : k <= n =>
                   /\ Less(ws, left[k])
                   /\ \A v \in Windows : v # w => left[k][v] = ws[v]
                   /\ ToSet(left[k][w].tabs) = ToSet(tabs) \ Chosen(k)
                   /\ \A i \in DOMAIN tabs : Behind(k, i) =>
                         i \in DOMAIN left[k][w].tabs /\ left[k][w].tabs[i] = tabs[i]}
<1>7. 0 \in S
  <2>1. Chosen(0) = {}
    OBVIOUS
  <2> QED BY <1>3, <1>4, <2>1, LessRefl
<1>8. ASSUME NEW k \in Nat, k \in S PROVE k + 1 \in S
  <2> SUFFICES ASSUME k + 1 <= n
               PROVE  /\ Less(ws, left[k + 1])
                      /\ \A v \in Windows : v # w => left[k + 1][v] = ws[v]
                      /\ ToSet(left[k + 1][w].tabs) = ToSet(tabs) \ Chosen(k + 1)
                      /\ \A i \in DOMAIN tabs : Behind(k + 1, i) =>
                            i \in DOMAIN left[k + 1][w].tabs /\ left[k + 1][w].tabs[i] = tabs[i]
    OBVIOUS
  <2>1. PICK xs, ys, x : xs = left[k] /\ ys = left[k + 1] /\ x = s[n - k]
    OBVIOUS
  <2>2. /\ Less(ws, xs)
        /\ \A v \in Windows : v # w => xs[v] = ws[v]
        /\ ToSet(xs[w].tabs) = ToSet(tabs) \ Chosen(k)
        /\ \A i \in DOMAIN tabs : Behind(k, i) => i \in DOMAIN xs[w].tabs /\ xs[w].tabs[i] = tabs[i]
    BY <1>8, <2>1
  <2>3. ys = CloseTabIn(xs, w, x)
    BY <1>3, <2>1
  <2>4. n - k \in 1 .. n /\ n + 1 - (k + 1) = n - k
    OBVIOUS
  <2>5. x \in DOMAIN tabs /\ x \in Nat
    BY <1>5, <2>1, <2>4
  <2>6. Behind(k, x)
    BY <1>6, <2>1, <2>4
  <2>7. x \in DOMAIN xs[w].tabs /\ xs[w].tabs[x] = tabs[x]
    BY <2>2, <2>5, <2>6
  <2>8. Sound(xs) /\ Once(xs)
    BY <2>2 DEF Less
  <2>9. /\ \A v \in Windows : v # w => ys[v] = xs[v]
        /\ ToSet(ys[w].tabs) = ToSet(xs[w].tabs) \ {tabs[x]}
        /\ \A i \in DOMAIN xs[w].tabs :
              i < x => i \in DOMAIN ys[w].tabs /\ ys[w].tabs[i] = xs[w].tabs[i]
    <3>1. /\ \A v \in Windows : v # w => ys[v] = xs[v]
          /\ ToSet(ys[w].tabs) = ToSet(xs[w].tabs) \ {xs[w].tabs[x]}
          /\ \A i \in DOMAIN xs[w].tabs :
                i < x => i \in DOMAIN ys[w].tabs /\ ys[w].tabs[i] = xs[w].tabs[i]
      <4>1. x \in DOMAIN xs[w].tabs
        BY <2>7
      <4> QED BY <2>3, <2>8, <4>1, CloseAtIs
    <3> QED BY <2>7, <3>1
  <2>10. Less(ws, ys)
    BY <2>2, <2>3, <2>8, CloseIsLess, LessTrans
  <2>11. \A j : j \in n - k .. n <=> j = n - k \/ j \in n + 1 - k .. n
    OBVIOUS
  <2>12. Chosen(k + 1) = Chosen(k) \union {tabs[x]}
    <3>1. Chosen(k + 1) = {tabs[s[j]] : j \in n - k .. n}
      BY <2>4
    <3> QED BY <2>1, <2>11, <3>1
  <2>13. ASSUME NEW i \in DOMAIN tabs, Behind(k + 1, i)
         PROVE  i \in DOMAIN ys[w].tabs /\ ys[w].tabs[i] = tabs[i]
    <3>1. \A j \in n - k .. n : i < s[j]
      BY <2>4, <2>13
    <3>2. Behind(k, i) /\ i < x
      BY <2>1, <2>11, <3>1
    <3> QED BY <2>2, <2>9, <3>2
  <2>14. ToSet(ys[w].tabs) = ToSet(tabs) \ Chosen(k + 1)
    <3> HIDE DEF Chosen
    <3> QED BY <2>2, <2>9, <2>12
  <2>15. \A v \in Windows : v # w => ys[v] = ws[v]
    BY <2>2, <2>9
  <2> HIDE DEF Chosen, Behind
  <2> QED BY <2>1, <2>10, <2>13, <2>14, <2>15
<1> HIDE DEF S
<1>9. n \in S
  BY <1>7, <1>8, Inductive
<1>10. /\ Less(ws, left[n])
       /\ \A v \in Windows : v # w => left[n][v] = ws[v]
       /\ ToSet(left[n][w].tabs) = ToSet(tabs) \ Chosen(n)
  BY <1>9 DEF S
<1>11. Chosen(n) = {tabs[s[k]] : k \in DOMAIN s}
  <2> n + 1 - n = 1
    OBVIOUS
  <2> QED BY <1>2
<1> HIDE DEF Chosen
<1> QED BY <1>3, <1>4, <1>10, <1>11 DEF LessTheTabs
-----------------------------------------------------------------------------
(***************************************************************************)
(* Steps and the layout.                                                   *)
(***************************************************************************)
LEMMA ActiveIs ==
    ASSUME WindowInv
    PROVE  /\ ActiveId \in Windows \union {0} /\ 0 \notin Windows
           /\ \A i : HasTab(i) => /\ ActiveId \in Windows /\ win[ActiveId] \in Window
                                  /\ win[ActiveId].kind = "session"
                                  /\ i \in DOMAIN win[ActiveId].tabs
<1>1. order \in Seq(Windows) /\ focus \in Windows \union {0}
  BY DEF WindowInv, LayoutInv
<1>2. order # <<>> => Head(order) \in Windows
  BY <1>1, HeadTailProperties
<1>3. ActiveId \in Windows \union {0} /\ 0 \notin Windows
  BY <1>1, <1>2, BoundsAssumption DEF ActiveId, Windows
<1>4. win \in [Windows -> Window]
  BY DEF WindowInv, TabsInv, Sound
<1> QED BY <1>3, <1>4 DEF HasTab

\* No window changes its kind, but for session windows that go.
LEMMA KindsLayout ==
    ASSUME WindowInv, win' \in [Windows -> Window],
           \A w \in Windows : KindStep(win[w].kind, win'[w].kind),
           order' = order, control' = control, events' = events \union Gone(win'),
           \/ focus' = focus
           \/ focus' \in Windows /\ win'[focus'].kind \in {"control", "session"}
    PROVE  LayoutInv'
<1>1. LayoutInv
  BY DEF WindowInv
<1>2. events' = events \union {w \in Windows : win[w].kind \in {"control", "session"}
                                                /\ win'[w].kind = "gone"}
  BY DEF Gone, Exists
<1>3. \A w \in Windows : win'[w].kind = win[w].kind
                          \/ (win[w].kind = "session" /\ win'[w].kind = "gone" /\ w \in events')
  BY <1>2 DEF KindStep
<1>4. /\ order' \in Seq(Windows) /\ IsInjective(order')
      /\ focus' \in Windows \union {0} /\ control' \in Windows /\ events' \subseteq Windows
  BY <1>1, <1>2 DEF LayoutInv
<1>5. win'[control'].kind \in {"control", "gone"}
  BY <1>1, <1>3 DEF LayoutInv
<1>6. Open(win', "control") \subseteq Open(win, "control")
      /\ Open(win', "session") \subseteq Open(win, "session")
  BY <1>3 DEF Open
<1>7. \A w \in Windows : Exists(w) => Exists(w)' \/ w \in events'
  BY <1>3 DEF Exists
<1>8. \A w \in ToSet(order') : Exists(w)' \/ w \in events'
  <2>1. \A w \in ToSet(order) : w \in Windows /\ (Exists(w) \/ w \in events)
    BY <1>1 DEF LayoutInv, Exists
  <2> QED BY <1>2, <1>7, <2>1
<1>9. \A w \in events' : win'[w].kind = "gone"
  BY <1>1, <1>2, <1>3 DEF LayoutInv
<1>10. FocusRecovers'
  <2>1. CASE focus' = focus
    <3>1. PICK f : f = focus
      OBVIOUS
    <3>2. f # 0 => f \in Windows /\ (Exists(f) \/ f = control \/ f \in events)
      BY <1>1, <3>1 DEF LayoutInv, FocusRecovers
    <3>3. f # 0 => Exists(f)' \/ f = control \/ f \in events'
      BY <1>2, <1>7, <3>2
    <3> QED BY <2>1, <3>1, <3>3 DEF FocusRecovers, Exists
  <2>2. CASE focus' \in Windows /\ win'[focus'].kind \in {"control", "session"}
    BY <2>2 DEF FocusRecovers, Exists
  <2> QED BY <2>1, <2>2
<1>11. /\ Open(win', "control") \union Open(win', "session") \subseteq ToSet(order')
       /\ Open(win', "control") \subseteq {control'}
  BY <1>1, <1>6 DEF LayoutInv
<1>12. /\ Open(win, "control")' \union Open(win, "session")' \subseteq ToSet(order')
       /\ Open(win, "control")' \subseteq {control'}
  BY <1>11 DEF Open
<1> QED BY <1>4, <1>5, <1>8, <1>9, <1>10, <1>12 DEF LayoutInv

\* Focus and the order lose the windows W, which are gone.
LEMMA ClosedLayout ==
    ASSUME WindowInv, win' \in [Windows -> Window],
           NEW W \in SUBSET Windows,
           \A v \in Windows \ W : win'[v].kind = win[v].kind,
           \A v \in W : win'[v].kind = "gone",
           order' = Unlisted(W), control' = control,
           events \ W \subseteq events', events' \subseteq events \union W,
           \/ Refocus(W)
           \/ focus' = focus /\ (focus \in W => focus = control)
    PROVE  LayoutInv'
<1>1. LayoutInv
  BY DEF WindowInv
<1>2. order \in Seq(Windows) /\ IsInjective(order)
  BY <1>1 DEF LayoutInv
<1>3. PICK left : left = Unlisted(W)
  OBVIOUS
<1>4. left \in Seq(Windows) /\ IsInjective(left) /\ ToSet(left) = ToSet(order) \intersect (Windows \ W)
  BY <1>2, <1>3, AmongIs DEF Unlisted
<1>5. \A w \in ToSet(order) : w \in Windows
  BY <1>2 DEF ToSet
<1>6. \A w \in Windows \ W : Exists(w) => Exists(w)'
  BY DEF Exists
<1>7. \A w \in ToSet(left) : w \in Windows \ W /\ (Exists(w)' \/ w \in events')
  <2>1. \A w \in ToSet(order) : Exists(w) \/ w \in events
    BY <1>1 DEF LayoutInv
  <2> QED BY <1>4, <1>6, <2>1
<1>8. events' \subseteq Windows /\ \A w \in events' : win'[w].kind = "gone"
  <2>1. events \subseteq Windows /\ \A w \in events : win[w].kind = "gone"
    BY <1>1 DEF LayoutInv
  <2> QED BY <2>1
<1>9. control' \in Windows /\ win'[control'].kind \in {"control", "gone"}
  BY <1>1 DEF LayoutInv
<1>10. \A w \in Windows : win'[w].kind \in {"control", "session"} =>
          w \notin W /\ win'[w].kind = win[w].kind
  OBVIOUS
<1>11. /\ Open(win, "control")' \subseteq ToSet(left) /\ Open(win, "session")' \subseteq ToSet(left)
       /\ Open(win, "control")' \subseteq {control'}
  <2>1. /\ Open(win, "control") \subseteq ToSet(order) /\ Open(win, "session") \subseteq ToSet(order)
        /\ Open(win, "control") \subseteq {control}
    BY <1>1 DEF LayoutInv
  <2> QED BY <1>4, <1>10, <2>1 DEF Open
<1>12. focus' \in Windows \union {0} /\ FocusRecovers'
  <2>1. focus \in Windows \union {0} /\ (focus # 0 => Exists(focus) \/ focus = control \/ focus \in events)
    BY <1>1 DEF LayoutInv, FocusRecovers
  <2>2. CASE focus' = focus /\ (focus \in W => focus = control)
    <3>1. PICK f : f = focus
      OBVIOUS
    <3>2. f # 0 /\ f \notin W => Exists(f)' \/ f = control \/ f \in events'
      BY <1>6, <2>1, <3>1
    <3> QED BY <2>1, <2>2, <3>1, <3>2 DEF FocusRecovers, Exists
  <2>3. CASE Refocus(W)
    <3>1. focus' = IF focus \notin W THEN focus ELSE IF left = <<>> THEN 0 ELSE Head(left)
      BY <1>3, <2>3 DEF Refocus
    <3>2. CASE focus \notin W
      BY <2>2, <3>1, <3>2
    <3>3. CASE focus \in W /\ left = <<>>
      BY <3>1, <3>3 DEF FocusRecovers
    <3>4. CASE focus \in W /\ left # <<>>
      <4>1. focus' = Head(left)
        BY <3>1, <3>4
      <4>2. Head(left) \in ToSet(left)
        BY <1>4, <3>4 DEF ToSet
      <4>3. PICK f : f = Head(left)
        OBVIOUS
      <4>4. f \in Windows /\ (Exists(f)' \/ f \in events')
        BY <1>7, <4>2, <4>3
      <4> QED BY <4>1, <4>3, <4>4 DEF FocusRecovers, Exists
    <3> QED BY <3>2, <3>3, <3>4
  <2> QED BY <2>2, <2>3
<1>13. \A w \in ToSet(order') : Exists(w)' \/ w \in events'
  BY <1>3, <1>7
<1> QED BY <1>3, <1>4, <1>8, <1>9, <1>11, <1>12, <1>13 DEF LayoutInv

\* A window w is opened, last in the order, and has the focus.
LEMMA OpenedLayout ==
    ASSUME WindowInv, win' \in [Windows -> Window], NEW w \in NextWindow,
           \A v \in Windows \ {w} : win'[v].kind = win[v].kind,
           order' = Append(order, w), focus' = w, events' = events,
           \/ win'[w].kind = "session" /\ control' = control
           \/ win'[w].kind = "control" /\ control' = w /\ ~Exists(control)
    PROVE  LayoutInv'
<1>1. LayoutInv
  BY DEF WindowInv
<1>2. w \in Windows /\ win[w].kind = "unborn"
  BY DEF NextWindow
<1>3. order \in Seq(Windows) /\ IsInjective(order)
  BY <1>1 DEF LayoutInv
<1>4. w \notin ToSet(order)
  <2>1. ~Exists(w) /\ w \notin events
    BY <1>1, <1>2 DEF LayoutInv, Exists
  <2> QED BY <1>1, <2>1 DEF LayoutInv
<1>5. PICK n \in Nat : n = Len(order)
  BY <1>3
<1>6. PICK more : more = order'
  OBVIOUS
<1>7. /\ more \in Seq(Windows) /\ ToSet(more) = ToSet(order) \union {w}
      /\ Len(more) = n + 1 /\ more[n + 1] = w /\ \A k \in 1 .. n : more[k] = order[k]
  BY <1>2, <1>3, <1>5, <1>6, AppendIs
<1>8. DOMAIN order = 1 .. n /\ DOMAIN more = 1 .. n + 1
  BY <1>3, <1>5, <1>7
<1>9. IsInjective(more)
  <2>1. \A k \in 1 .. n : order[k] # w
    BY <1>4, <1>8 DEF ToSet
  <2>2. \A j, k \in 1 .. n : order[j] = order[k] => j = k
    BY <1>3, <1>8 DEF IsInjective
  <2>3. \A k \in 1 .. n + 1 : k \in 1 .. n \/ k = n + 1
    OBVIOUS
  <2>4. \A j, k \in 1 .. n + 1 : more[j] = more[k] => j = k
    BY <1>7, <2>1, <2>2, <2>3
  <2> QED BY <1>8, <2>4 DEF IsInjective
<1>10. \A v \in Windows : v # w => (Exists(v)' <=> Exists(v))
  BY DEF Exists
<1>11. Exists(w)'
  BY <1>2 DEF Exists
<1>12. /\ control' \in Windows /\ win'[control'].kind \in {"control", "gone"}
       /\ Open(win, "control")' \subseteq {control'}
       /\ Open(win, "control")' \subseteq ToSet(more) /\ Open(win, "session")' \subseteq ToSet(more)
  <2>1. /\ control \in Windows /\ win[control].kind \in {"control", "gone"}
        /\ Open(win, "control") \subseteq {control}
        /\ Open(win, "control") \subseteq ToSet(order) /\ Open(win, "session") \subseteq ToSet(order)
    BY <1>1 DEF LayoutInv
  <2>2. control # w
    BY <1>2, <2>1
  <2>3. \A v \in Windows \ {w}, k \in {"control", "session"} :
          win'[v].kind = k => v \in Open(win, k)
    BY DEF Open
  <2>4. Open(win, "control")' \subseteq ToSet(more) /\ Open(win, "session")' \subseteq ToSet(more)
    BY <1>7, <2>1, <2>3 DEF Open
  <2>5. CASE win'[w].kind = "session" /\ control' = control
    BY <2>1, <2>2, <2>3, <2>4, <2>5 DEF Open
  <2>6. CASE win'[w].kind = "control" /\ control' = w /\ ~Exists(control)
    <3>1. Open(win, "control") = {}
      BY <2>1, <2>6 DEF Open, Exists
    <3> QED BY <1>2, <2>3, <2>4, <2>6, <3>1 DEF Open
  <2> QED BY <2>5, <2>6
<1>13. \A v \in ToSet(more) : Exists(v)' \/ v \in events'
  <2>1. \A v \in ToSet(order) : Exists(v) \/ v \in events
    BY <1>1 DEF LayoutInv
  <2>2. \A v \in ToSet(order) : v \in Windows
    BY <1>3 DEF ToSet
  <2> QED BY <1>7, <1>10, <1>11, <2>1, <2>2
<1>14. events' \subseteq Windows /\ \A v \in events' : win'[v].kind = "gone"
  BY <1>1, <1>2 DEF LayoutInv
<1>15. focus' \in Windows \union {0} /\ FocusRecovers'
  BY <1>2, <1>11 DEF FocusRecovers, Exists
<1> QED BY <1>6, <1>7, <1>9, <1>12, <1>13, <1>14, <1>15 DEF LayoutInv

\* The dialog is as it was, or closed.
LEMMA DialogKept ==
    ASSUME WindowInv, dialog' \in {dialog, NoDialog},
           \A w \in Windows : win[w].kind \in {"session", "gone"} =>
                                 win'[w].kind \in {"session", "gone"}
    PROVE  DialogInv'
<1>1. DialogInv
  BY DEF WindowInv
<1>2. CASE dialog' = dialog
  <2>1. dialog # NoDialog => dialog.window \in Windows
    BY <1>1 DEF DialogInv
  <2> QED BY <1>1, <1>2, <2>1 DEF DialogInv
<1>3. CASE dialog' = NoDialog
  <2>1. NoDialog \in [window : Windows \union {0}, indices : Seq(Nat \ {0}), seen : Seq(Tabs)]
    BY DEF NoDialog
  <2> QED BY <1>3, <2>1 DEF DialogInv
<1> QED BY <1>2, <1>3
-----------------------------------------------------------------------------
(***************************************************************************)
(* Steps and the tabs.                                                     *)
(***************************************************************************)
LEMMA ShownIs ==
    ASSUME NEW ws, Sound(ws)
    PROVE  /\ Shown(ws) \subseteq Tabs
           /\ \A t : t \in Shown(ws) <=>
                 \E w \in Windows : ws[w].kind = "session" /\ t \in ToSet(ws[w].tabs)
<1>1. \A t : t \in Shown(ws) <=>
        \E w \in Windows : ws[w].kind = "session" /\ t \in ToSet(ws[w].tabs)
  BY DEF Shown, Open
<1>2. ASSUME NEW w \in Windows PROVE ToSet(ws[w].tabs) \subseteq Tabs
  <2>1. ws[w].tabs \in Seq(Tabs)
    BY DEF Sound, Window
  <2> QED BY <2>1 DEF ToSet
<1> QED BY <1>1, <1>2

\* No tab is opened, or shown where it was not.
LEMMA TabsKept ==
    ASSUME WindowInv, Sound(win'), Once(win'),
           \A w \in Windows : ToSet(win'[w].tabs) \subseteq ToSet(win[w].tabs),
           tab' \in [Tabs -> [state : TabState, session : Nat]],
           \A t \in Tabs : /\ tab'[t].session = tab[t].session
                           /\ tab'[t].state = "unborn" <=> tab[t].state = "unborn",
           hidden' \subseteq Born, hiddenWins' \in Seq(Seq(Tabs)), conn' \in BOOLEAN,
           \A k \in DOMAIN hiddenWins' : ToSet(hiddenWins'[k]) \subseteq Born,
           within' \subseteq Session(Shown(win') \union hidden')
    PROVE  TabsInv'
<1>1. TabsInv
  BY DEF WindowInv
<1>2. PICK born : born = Born
  OBVIOUS
<1>3. Born' = born /\ born \subseteq Tabs
  BY <1>2 DEF Born
<1>4. NumberedTabs'
  <2>1. \E n \in 0 .. MaxTab : \A t \in Tabs : t \in born <=> t <= n
    BY <1>1, <1>2 DEF TabsInv, NumberedTabs
  <2> QED BY <1>3, <2>1 DEF NumberedTabs
<1>5. TabsKnown'
  <2>1. \A w \in Windows : ToSet(win[w].tabs) \subseteq born
    BY <1>1, <1>2 DEF TabsInv, TabsKnown
  <2>2. \A w \in Windows : ToSet(win'[w].tabs) \subseteq born
    BY <2>1
  <2> QED BY <1>2, <1>3, <2>2 DEF TabsKnown
<1>6. TabsType'
  BY <1>2, <1>3 DEF TabsType
<1>7. WithinShown'
  <2>1. PICK S : S = Shown(win') \union hidden'
    OBVIOUS
  <2>2. S \subseteq Tabs
    BY <1>2, <1>3, <2>1, ShownIs
  <2>3. Shown(win)' = Shown(win')
    BY DEF Shown, Open
  <2>4. within' \subseteq {tab[t].session : t \in S}
    BY <2>1 DEF Session
  <2>5. \A t \in S : tab'[t].session = tab[t].session
    BY <2>2
  <2>6. within' \subseteq {tab'[t].session : t \in S}
    BY <2>4, <2>5
  <2>7. Session(Shown(win) \union hidden)' = {tab'[t].session : t \in S}
    BY <2>1, <2>3 DEF Session
  <2> QED BY <2>6, <2>7 DEF WithinShown
<1>8. Sound(win)' /\ Once(win)'
  BY DEF Sound, Once
<1> QED BY <1>4, <1>5, <1>6, <1>7, <1>8 DEF TabsInv

\* Tabs are closed, and windows by the program: they will be reported.
LEMMA CloseStep ==
    ASSUME WindowInv, NEW ws, Less(win, ws), SetWindows(ws), PutAway(ws),
           UNCHANGED <<order, focus, control, hidden, hiddenWins>>,
           conn' \in BOOLEAN, dialog' \in {dialog, NoDialog}
    PROVE  WindowInv'
<1>1. win' = ws /\ Sound(ws) /\ Once(ws)
  BY DEF SetWindows, Less
<1>2. /\ ws \in [Windows -> Window]
      /\ \A w \in Windows : /\ KindStep(win[w].kind, ws[w].kind)
                            /\ ToSet(ws[w].tabs) \subseteq ToSet(win[w].tabs)
  BY <1>1 DEF Less, Sound
<1>3. TabsInv /\ TabsType
  BY DEF WindowInv, TabsInv
<1>4. PICK T : T = Shown(win) \ Shown(ws)
  OBVIOUS
<1>5. tab' = [t \in Tabs |-> IF t \in T THEN [tab[t] EXCEPT !.state = "gone"] ELSE tab[t]]
  BY <1>4 DEF SetWindows, Leave
<1>6. T \subseteq Born
  <2>1. \A w \in Windows : ToSet(win[w].tabs) \subseteq Born
    BY <1>3 DEF TabsInv, TabsKnown
  <2>2. Sound(win)
    BY <1>3 DEF TabsInv
  <2> QED BY <1>4, <2>1, <2>2, ShownIs
<1>7. /\ tab' \in [Tabs -> [state : TabState, session : Nat]]
      /\ \A t \in Tabs : /\ tab'[t].session = tab[t].session
                         /\ tab'[t].state = "unborn" <=> tab[t].state = "unborn"
  <2>1. tab \in [Tabs -> [state : TabState, session : Nat]]
    BY <1>3 DEF TabsType
  <2> QED BY <1>5, <1>6, <2>1 DEF Born, TabState
<1>8. within' \subseteq Session(Shown(win') \union hidden')
  <2>1. within' = within \ Session(T)
    BY <1>4 DEF PutAway
  <2>2. within \subseteq Session(Shown(win) \union hidden)
    BY <1>3 DEF TabsInv, WithinShown
  <2>3. Shown(win) \union hidden \subseteq T \union (Shown(win') \union hidden')
    BY <1>1, <1>4
  <2> QED BY <2>1, <2>2, <2>3 DEF Session
<1>9. TabsInv'
  <2>1. hidden' \subseteq Born /\ hiddenWins' \in Seq(Seq(Tabs))
        /\ \A k \in DOMAIN hiddenWins' : ToSet(hiddenWins'[k]) \subseteq Born
    BY <1>3 DEF TabsInv, TabsKnown, TabsType
  <2> QED BY <1>1, <1>2, <1>7, <1>8, <2>1, TabsKept
<1>10. LayoutInv'
  <2>1. events' = events \union Gone(win')
    BY <1>1 DEF SetWindows
  <2> QED BY <1>1, <1>2, <2>1, KindsLayout
<1>11. DialogInv'
  <2>1. \A w \in Windows : win[w].kind \in {"session", "gone"} =>
                              win'[w].kind \in {"session", "gone"}
    BY <1>1, <1>2 DEF KindStep
  <2> QED BY <2>1, DialogKept
<1> QED BY <1>9, <1>10, <1>11 DEF WindowInv

\* Tabs are shown in another way, or hidden: windows stay what they are.
LEMMA RearrangeStep ==
    ASSUME WindowInv, Sound(win'), Once(win'),
           \A w \in Windows : /\ win'[w].kind = win[w].kind
                              /\ ToSet(win'[w].tabs) \subseteq ToSet(win[w].tabs),
           tab' \in [Tabs -> [state : TabState, session : Nat]],
           \A t \in Tabs : /\ tab'[t].session = tab[t].session
                           /\ tab'[t].state = "unborn" <=> tab[t].state = "unborn",
           Shown(win) \union hidden \subseteq Shown(win') \union hidden', hidden' \subseteq Born,
           UNCHANGED <<order, focus, control, hiddenWins, events, conn, within>>,
           dialog' \in {dialog, NoDialog}
    PROVE  WindowInv'
<1>1. TabsInv /\ TabsType
  BY DEF WindowInv, TabsInv
<1>2. TabsInv'
  <2>1. hiddenWins' \in Seq(Seq(Tabs)) /\ conn' \in BOOLEAN
        /\ \A k \in DOMAIN hiddenWins' : ToSet(hiddenWins'[k]) \subseteq Born
    BY <1>1 DEF TabsInv, TabsKnown, TabsType
  <2>2. within' \subseteq Session(Shown(win') \union hidden')
    <3>1. within \subseteq Session(Shown(win) \union hidden)
      BY <1>1 DEF TabsInv, WithinShown
    <3> QED BY <3>1 DEF Session
  <2> QED BY <2>1, <2>2, TabsKept
<1>3. LayoutInv'
  <2>1. \A w \in Windows : KindStep(win[w].kind, win'[w].kind)
    BY DEF KindStep
  <2>2. Gone(win') = {}
    BY DEF Gone, Exists
  <2>3. win' \in [Windows -> Window]
    BY DEF Sound
  <2> QED BY <2>1, <2>2, <2>3, KindsLayout
<1>4. DialogInv'
  BY DialogKept
<1> QED BY <1>2, <1>3, <1>4 DEF WindowInv
-----------------------------------------------------------------------------
(***************************************************************************)
(* The actions that close tabs.                                            *)
(***************************************************************************)
LEMMA IndicesAre ==
    ASSUME NEW n \in Nat, NEW i \in 1 .. n
    PROVE  /\ IndicesWithout(i, n) \in Seq(Nat \ {0}) /\ Ascending(IndicesWithout(i, n))
           /\ \A k \in DOMAIN IndicesWithout(i, n) : IndicesWithout(i, n)[k] \in 1 .. n
           /\ IndicesAfter(i, n) \in Seq(Nat \ {0}) /\ Ascending(IndicesAfter(i, n))
           /\ \A k \in DOMAIN IndicesAfter(i, n) : IndicesAfter(i, n)[k] \in 1 .. n
<1>1. PICK s : s = IndicesWithout(i, n)
  OBVIOUS
<1>2. PICK r : r = IndicesAfter(i, n)
  OBVIOUS
<1>3. s = [k \in 1 .. n - 1 |-> IF k < i THEN k ELSE k + 1]
  BY <1>1 DEF IndicesWithout
<1>4. r = [k \in 1 .. n - i |-> i + k]
  BY <1>2 DEF IndicesAfter
<1>5. n - 1 \in Nat /\ n - i \in Nat
  OBVIOUS
<1>6. /\ DOMAIN s = 1 .. n - 1
      /\ \A k \in 1 .. n - 1 : s[k] \in 1 .. n /\ s[k] = IF k < i THEN k ELSE k + 1
  BY <1>3
<1>7. /\ DOMAIN r = 1 .. n - i
      /\ \A k \in 1 .. n - i : r[k] \in 1 .. n /\ r[k] = i + k
  BY <1>4
<1>8. s \in Seq(Nat \ {0}) /\ r \in Seq(Nat \ {0})
  BY <1>3, <1>4, <1>5
<1>9. Ascending(s) /\ Ascending(r)
  BY <1>6, <1>7 DEF Ascending
<1> QED BY <1>1, <1>2, <1>6, <1>7, <1>8, <1>9

\* The user is asked about tabs of the active window.
LEMMA AskStep ==
    ASSUME WindowInv, NEW i, HasTab(i), NEW s \in Seq(Nat \ {0}), Ascending(s),
           \A k \in DOMAIN s : s[k] \in DOMAIN win[ActiveId].tabs,
           AskFor(s), UNCHANGED <<win, tab, events, within, order, focus, control>>,
           UNCHANGED Rest
    PROVE  WindowInv'
<1>1. Sound(win) /\ Once(win) /\ TabsType
  BY DEF WindowInv, TabsInv
<1>2. TabsInv'
  BY DEF WindowInv, TabsInv, Sound, Once, TabsType, NumberedTabs, Born, TabsKnown,
         WithinShown, Shown, Open, Session, Rest
<1>3. LayoutInv'
  BY DEF WindowInv, LayoutInv, Open, Exists, FocusRecovers
<1>4. PICK a : a = ActiveId
  OBVIOUS
<1>5. a \in Windows /\ a # 0 /\ win[a] \in Window /\ win[a].kind = "session" /\ i \in DOMAIN win[a].tabs
  BY <1>4, ActiveIs
<1>6. dialog' = [window |-> a, indices |-> s, seen |-> win[a].tabs]
  BY <1>4 DEF AskFor
<1>7. PICK d : d = dialog'
  OBVIOUS
<1>8. d.window = a /\ d.indices = s /\ d.seen = win[a].tabs
  BY <1>6, <1>7
<1>9. d \in [window : Windows \union {0}, indices : Seq(Nat \ {0}), seen : Seq(Tabs)]
  BY <1>5, <1>6, <1>7 DEF Window
<1>10. d.seen # <<>>
  BY <1>5, <1>8
<1>11. DialogInv'
  <2>1. \A k \in DOMAIN d.indices : d.indices[k] \in DOMAIN d.seen
    BY <1>4, <1>8
  <2>2. Ascending(d.indices) /\ d.window # 0 /\ win'[d.window].kind \in {"session", "gone"}
    BY <1>5, <1>8
  <2> QED BY <1>7, <1>9, <1>10, <2>1, <2>2 DEF DialogInv, Ascending
<1> QED BY <1>2, <1>3, <1>11 DEF WindowInv

LEMMA CloseOrAskStep ==
    ASSUME WindowInv, NEW i, HasTab(i), NEW s \in Seq(Nat \ {0}), Ascending(s),
           \A k \in DOMAIN s : s[k] \in DOMAIN win[ActiveId].tabs,
           NEW ws, Less(win, ws), CloseOrAsk(s, ws)
    PROVE  WindowInv'
<1>1. conn' \in BOOLEAN /\ conn' = conn
  BY DEF CloseOrAsk, Rest, WindowInv, TabsInv, TabsType
<1>2. CASE \E k \in DOMAIN s : Asks(s[k])
  BY <1>2, AskStep DEF CloseOrAsk
<1>3. CASE ~(\E k \in DOMAIN s : Asks(s[k]))
  <2>1. /\ SetWindows(ws) /\ PutAway(ws) /\ dialog' \in {dialog, NoDialog}
        /\ UNCHANGED <<order, focus, control, hidden, hiddenWins>>
    BY <1>3 DEF CloseOrAsk, Rest
  <2> QED BY <1>1, <2>1, CloseStep
<1> QED BY <1>2, <1>3

LEMMA CloseTabStep == ASSUME WindowInv, NEW i, CloseTab(i) PROVE WindowInv'
<1>1. HasTab(i) /\ CloseOrAsk(<<i>>, CloseTabIn(win, ActiveId, i))
  BY DEF CloseTab
<1>2. PICK s : s = <<i>>
  OBVIOUS
<1>3. /\ ActiveId \in Windows /\ win[ActiveId] \in Window /\ i \in DOMAIN win[ActiveId].tabs
  BY <1>1, ActiveIs
<1>4. i \in Nat \ {0}
  <2>1. win[ActiveId].tabs \in Seq(Tabs)
    BY <1>3 DEF Window
  <2> QED BY <1>3, <2>1
<1>5. /\ s \in Seq(Nat \ {0}) /\ Ascending(s)
      /\ \A k \in DOMAIN s : s[k] \in DOMAIN win[ActiveId].tabs
  BY <1>2, <1>3, <1>4 DEF Ascending
<1>6. Less(win, CloseTabIn(win, ActiveId, i))
  BY <1>3, CloseIsLess DEF WindowInv, TabsInv
<1> QED BY <1>1, <1>2, <1>5, <1>6, CloseOrAskStep

LEMMA CloseOtherTabsStep == ASSUME WindowInv, NEW i, CloseOtherTabs(i) PROVE WindowInv'
<1>1. PICK a : a = ActiveId
  OBVIOUS
<1>2. PICK n : n = Len(win[a].tabs)
  OBVIOUS
<1>3. PICK s : s = IndicesWithout(i, n)
  OBVIOUS
<1>4. PICK zs : zs = CloseTabsIn(win, a, s)
  OBVIOUS
<1>5. PICK ws : ws = [zs EXCEPT ![a].active = 1]
  OBVIOUS
<1>6. HasTab(i) /\ CloseOrAsk(s, ws)
  BY <1>1, <1>2, <1>3, <1>4, <1>5 DEF CloseOtherTabs
<1>7. a \in Windows /\ i \in DOMAIN win[a].tabs /\ win[a].tabs \in Seq(Tabs)
  BY <1>1, <1>6, ActiveIs DEF Window
<1>8. n \in Nat /\ i \in 1 .. n /\ DOMAIN win[a].tabs = 1 .. n
  BY <1>2, <1>7
<1>9. s \in Seq(Nat \ {0}) /\ Ascending(s) /\ \A k \in DOMAIN s : s[k] \in DOMAIN win[a].tabs
  BY <1>3, <1>8, IndicesAre
<1>10. Less(win, zs)
  <2>1. Len(s) \in Nat
    BY <1>9
  <2> QED BY <1>4, <1>7, <2>1, CloseTabsLess DEF WindowInv, TabsInv
<1>11. Less(win, ws)
  <2>1. Sound(zs) /\ Once(zs) /\ zs \in [Windows -> Window]
    BY <1>10 DEF Less, Sound
  <2>2. PICK r : r = [zs[a] EXCEPT !.active = 1]
    OBVIOUS
  <2>3. zs[a] \in Window
    BY <1>7, <2>1
  <2>4. r \in Window /\ r.kind = zs[a].kind /\ r.tabs = zs[a].tabs /\ r.active = 1
    BY <2>2, <2>3 DEF Window
  <2>5. ws = [zs EXCEPT ![a] = r]
    BY <1>5, <1>7, <2>1, <2>2
  <2>6. r.tabs # <<>> => r.active \in DOMAIN r.tabs
    <3>1. r.tabs \in Seq(Tabs)
      BY <2>4 DEF Window
    <3>2. r.tabs # <<>> => 1 \in DOMAIN r.tabs
      BY <3>1
    <3> QED BY <2>4, <3>2
  <2>7. IsInjective(r.tabs)
    BY <1>7, <2>1, <2>4 DEF Once, IsInjective
  <2>8. r.kind \in {"unborn", "gone"} => r.tabs = <<>>
    BY <1>7, <2>1, <2>4 DEF Sound
  <2>9. KindStep(zs[a].kind, r.kind) /\ ToSet(r.tabs) \subseteq ToSet(zs[a].tabs)
    BY <2>4 DEF KindStep
  <2>10. Less(zs, ws)
    BY <1>7, <2>1, <2>4, <2>5, <2>6, <2>7, <2>8, <2>9, LessAt
  <2> QED BY <1>10, <2>10, LessTrans
<1> QED BY <1>1, <1>6, <1>9, <1>11, CloseOrAskStep

LEMMA CloseTabsToRightStep == ASSUME WindowInv, NEW i, CloseTabsToRight(i) PROVE WindowInv'
<1>1. PICK a : a = ActiveId
  OBVIOUS
<1>2. PICK n : n = Len(win[a].tabs)
  OBVIOUS
<1>3. PICK s : s = IndicesAfter(i, n)
  OBVIOUS
<1>4. PICK ws : ws = CloseTabsIn(win, a, s)
  OBVIOUS
<1>5. HasTab(i) /\ CloseOrAsk(s, ws)
  BY <1>1, <1>2, <1>3, <1>4 DEF CloseTabsToRight
<1>6. a \in Windows /\ i \in DOMAIN win[a].tabs /\ win[a].tabs \in Seq(Tabs)
  BY <1>1, <1>5, ActiveIs DEF Window
<1>7. n \in Nat /\ i \in 1 .. n /\ DOMAIN win[a].tabs = 1 .. n
  BY <1>2, <1>6
<1>8. s \in Seq(Nat \ {0}) /\ Ascending(s) /\ \A k \in DOMAIN s : s[k] \in DOMAIN win[a].tabs
  BY <1>3, <1>7, IndicesAre
<1>9. Less(win, ws)
  <2>1. Len(s) \in Nat
    BY <1>8
  <2> QED BY <1>4, <1>6, <2>1, CloseTabsLess DEF WindowInv, TabsInv
<1> QED BY <1>1, <1>5, <1>8, <1>9, CloseOrAskStep

LEMMA ConfirmCloseTabsStep == ASSUME WindowInv, ConfirmCloseTabs PROVE WindowInv'
<1>1. PICK ws : ws = CloseTabsIn(win, dialog.window, dialog.indices)
  OBVIOUS
<1>2. /\ dialog # NoDialog /\ dialog' \in {dialog, NoDialog}
      /\ SetWindows(ws) /\ PutAway(ws)
      /\ UNCHANGED <<order, focus, control, hidden, hiddenWins, conn>>
  BY <1>1 DEF ConfirmCloseTabs, AnswerDialog, Rest
<1>3. dialog.window \in Windows /\ Len(dialog.indices) \in Nat
  BY <1>2 DEF WindowInv, DialogInv
<1>4. Less(win, ws)
  BY <1>1, <1>3, CloseTabsLess DEF WindowInv, TabsInv
<1>5. conn' \in BOOLEAN
  BY <1>2 DEF WindowInv, TabsInv, TabsType
<1> QED BY <1>2, <1>4, <1>5, CloseStep

LEMMA SessionExitedStep == ASSUME WindowInv, NEW t, SessionExited(t) PROVE WindowInv'
<1>0. PICK w \in Windows : \E i \in DOMAIN win[w].tabs :
          SetWindows(CloseTabIn(win, w, i)) /\ PutAway(CloseTabIn(win, w, i))
  BY DEF SessionExited
<1>1. PICK i \in DOMAIN win[w].tabs :
          SetWindows(CloseTabIn(win, w, i)) /\ PutAway(CloseTabIn(win, w, i))
  BY <1>0
<1>2. /\ dialog' \in {dialog, NoDialog}
      /\ UNCHANGED <<order, focus, control, hidden, hiddenWins, conn>>
  BY DEF SessionExited, Rest
<1>3. Less(win, CloseTabIn(win, w, i))
  BY CloseIsLess DEF WindowInv, TabsInv
<1>4. conn' \in BOOLEAN
  BY <1>2 DEF WindowInv, TabsInv, TabsType
<1> QED BY <1>1, <1>2, <1>3, <1>4, CloseStep

LEMMA ConfirmCloseServerStep == ASSUME WindowInv, ConfirmCloseServer PROVE WindowInv'
<1>1. PICK ws : ws = [w \in Windows |-> IF w \in Sessions /\ win[w].tabs # <<>>
                                        THEN NoWindow("gone") ELSE win[w]]
  OBVIOUS
<1>2. /\ SetWindows(ws) /\ PutAway(ws) /\ conn' = FALSE /\ dialog' \in {dialog, NoDialog}
      /\ UNCHANGED <<order, focus, control, hidden, hiddenWins>>
  BY <1>1 DEF ConfirmCloseServer
<1>3. Sound(win) /\ Once(win)
  BY DEF WindowInv, TabsInv
<1>4. PICK g : g = NoWindow("gone")
  OBVIOUS
<1>5. g \in Window /\ g.kind = "gone" /\ g.tabs = <<>> /\ DOMAIN g.tabs = {} /\ ToSet(g.tabs) = {}
  BY <1>4 DEF NoWindow, Window, ToSet
<1>6. \A w \in Windows : ws[w] = win[w] \/ (ws[w] = g /\ win[w].kind = "session")
  BY <1>1, <1>4 DEF Sessions, Open
<1>7. ws \in [Windows -> Window]
  <2>1. ws = [w \in Windows |-> ws[w]]
    BY <1>1
  <2> QED BY <1>3, <1>5, <1>6, <2>1 DEF Sound
<1>8. Sound(ws)
  BY <1>3, <1>5, <1>6, <1>7 DEF Sound
<1>9. Once(ws)
  BY <1>3, <1>5, <1>6 DEF Once
<1>10. \A w \in Windows : KindStep(win[w].kind, ws[w].kind)
                          /\ ToSet(ws[w].tabs) \subseteq ToSet(win[w].tabs)
  BY <1>5, <1>6 DEF KindStep
<1>11. Less(win, ws)
  BY <1>8, <1>9, <1>10 DEF Less
<1> QED BY <1>2, <1>11, CloseStep-----------------------------------------------------------------------------
(***************************************************************************)
(* The actions that show the same tabs in another way, or hide them.       *)
(***************************************************************************)
LEMMA TabTyped ==
    ASSUME WindowInv
    PROVE  /\ tab \in [Tabs -> [state : TabState, session : Nat]]
           /\ hidden \subseteq Born /\ Born \subseteq Tabs
           /\ Sound(win) /\ Once(win) /\ win \in [Windows -> Window]
BY DEF WindowInv, TabsInv, TabsType, TabsKnown, Born, Sound

LEMMA CancelCloseTabsStep == ASSUME WindowInv, CancelCloseTabs PROVE WindowInv'
<1>1. /\ UNCHANGED <<win, order, focus, control, tab, events, within, hidden, hiddenWins, conn>>
      /\ dialog' \in {dialog, NoDialog}
  BY DEF CancelCloseTabs, AnswerDialog, Rest
<1>2. Sound(win') /\ Once(win') /\ Shown(win') = Shown(win)
  BY <1>1, TabTyped
<1>3. hidden' \subseteq Born
  BY <1>1, TabTyped
<1>4. tab' \in [Tabs -> [state : TabState, session : Nat]]
  BY <1>1, TabTyped
<1> QED BY <1>1, <1>2, <1>3, <1>4, RearrangeStep

LEMMA ConnectionChangesStep ==
    ASSUME WindowInv, NEW t, NEW state, ConnectionChanges(t, state) PROVE WindowInv'
<1>1. /\ UNCHANGED <<win, order, focus, control, events, within, hidden, hiddenWins, conn>>
      /\ dialog' \in {dialog, NoDialog}
      /\ state \in {"live", "waiting", "dead"}
      /\ tab' = [tab EXCEPT ![t].state = state]
  BY DEF ConnectionChanges, Rest
<1>2. PICK w \in Windows : t \in ToSet(win[w].tabs)
  BY DEF ConnectionChanges
<1>3. Sound(win') /\ Once(win') /\ Shown(win') = Shown(win) /\ hidden' \subseteq Born
  BY <1>1, TabTyped
<1>4. t \in Born
  BY <1>2 DEF WindowInv, TabsInv, TabsKnown
<1>5. tab' \in [Tabs -> [state : TabState, session : Nat]]
      /\ \A u \in Tabs : /\ tab'[u].session = tab[u].session
                         /\ tab'[u].state = "unborn" <=> tab[u].state = "unborn"
  BY <1>1, <1>4, TabTyped DEF TabState, Born
<1> QED BY <1>1, <1>3, <1>5, RearrangeStep

\* The active window is r now, with the same tabs.
LEMMA SetActiveStep ==
    ASSUME WindowInv, NEW i, HasTab(i), NEW r \in Window,
           r.kind = "session", r.active \in DOMAIN r.tabs,
           ToSet(r.tabs) = ToSet(win[ActiveId].tabs), IsInjective(r.tabs),
           SetActive(r)
    PROVE  WindowInv'
<1>1. PICK a : a = ActiveId
  OBVIOUS
<1>2. a \in Windows /\ win[a].kind = "session"
  BY <1>1, ActiveIs
<1>3. win' = [win EXCEPT ![a] = r]
      /\ UNCHANGED <<order, focus, control, tab, dialog, events, within, hidden, hiddenWins, conn>>
  BY <1>1 DEF SetActive, Rest
<1>4. Less(win, win')
  <2>1. KindStep(win[a].kind, r.kind) /\ ToSet(r.tabs) \subseteq ToSet(win[a].tabs)
    BY <1>1, <1>2 DEF KindStep
  <2>2. r.kind \in {"unborn", "gone"} => r.tabs = <<>>
    OBVIOUS
  <2> QED BY <1>2, <1>3, <2>1, <2>2, TabTyped, LessAt
<1>5. \A w \in Windows : win'[w].kind = win[w].kind /\ ToSet(win'[w].tabs) = ToSet(win[w].tabs)
  BY <1>1, <1>2, <1>3, TabTyped
<1>6. Shown(win) \subseteq Shown(win')
  BY <1>4, <1>5, TabTyped, ShownIs DEF Less
<1>7. hidden' \subseteq Born /\ tab' \in [Tabs -> [state : TabState, session : Nat]]
  BY <1>3, TabTyped
<1>8. Sound(win') /\ Once(win')
  BY <1>4 DEF Less
<1>9. \A t \in Tabs : /\ tab'[t].session = tab[t].session
                      /\ tab'[t].state = "unborn" <=> tab[t].state = "unborn"
  BY <1>3
<1>10. Shown(win) \union hidden \subseteq Shown(win') \union hidden'
  BY <1>3, <1>6
<1>11. dialog' \in {dialog, NoDialog}
  BY <1>3
<1> QED BY <1>3, <1>5, <1>7, <1>8, <1>9, <1>10, <1>11, RearrangeStep

\* The active window with another selection.
LEMMA SelectStep ==
    ASSUME WindowInv, NEW i, HasTab(i), NEW k \in DOMAIN win[ActiveId].tabs,
           SetActive([win[ActiveId] EXCEPT !.active = k])
    PROVE  WindowInv'
<1>1. PICK old : old = win[ActiveId]
  OBVIOUS
<1>2. PICK r : r = [old EXCEPT !.active = k]
  OBVIOUS
<1>3. old \in Window /\ old.kind = "session" /\ old.tabs \in Seq(Tabs) /\ ActiveId \in Windows
  BY <1>1, ActiveIs DEF Window
<1>4. k \in Nat
  BY <1>1, <1>3
<1>5. r \in Window /\ r.kind = "session" /\ r.tabs = old.tabs /\ r.active = k
  BY <1>2, <1>3, <1>4 DEF Window
<1>6. IsInjective(r.tabs)
  BY <1>1, <1>3, <1>5, TabTyped DEF Once, IsInjective
<1>7. SetActive(r)
  BY <1>1, <1>2
<1> QED BY <1>1, <1>5, <1>6, <1>7, SetActiveStep

LEMMA SelectTabStep == ASSUME WindowInv, NEW i, SelectTab(i) PROVE WindowInv'
<1>1. HasTab(i) /\ SetActive([win[ActiveId] EXCEPT !.active = i])
  BY DEF SelectTab
<1>2. i \in DOMAIN win[ActiveId].tabs
  BY <1>1 DEF HasTab
<1> QED BY <1>1, <1>2, SelectStep

LEMMA StartRenameStep == ASSUME WindowInv, NEW i, StartRename(i) PROVE WindowInv'
<1>1. HasTab(i) /\ SetActive([win[ActiveId] EXCEPT !.active = i])
  BY DEF StartRename
<1>2. i \in DOMAIN win[ActiveId].tabs
  BY <1>1 DEF HasTab
<1> QED BY <1>1, <1>2, SelectStep

LEMMA CycleTabStep == ASSUME WindowInv, NEW step, CycleTab(step) PROVE WindowInv'
<1>1. PICK old : old = win[ActiveId]
  OBVIOUS
<1>2. PICK n : n = Len(old.tabs)
  OBVIOUS
<1>3. PICK k : k = ((old.active - 1 + (IF step = "next" THEN 1 ELSE n - 1)) % n) + 1
  OBVIOUS
<1>4. HasTab(1) /\ SetActive([old EXCEPT !.active = k])
  BY <1>1, <1>2, <1>3 DEF CycleTab
<1>5. old \in Window /\ old.tabs \in Seq(Tabs) /\ 1 \in DOMAIN old.tabs
  BY <1>1, <1>4, ActiveIs DEF Window
<1>6. n \in Nat /\ n # 0 /\ DOMAIN old.tabs = 1 .. n
  BY <1>2, <1>5
<1>7. old.active \in 1 .. n
  BY <1>1, <1>4, <1>5, <1>6, ActiveIs, TabTyped DEF Sound
<1>8. PICK x : x = old.active - 1 + (IF step = "next" THEN 1 ELSE n - 1)
  OBVIOUS
<1>9. x \in Nat /\ k = (x % n) + 1
  BY <1>3, <1>6, <1>7, <1>8
<1>10. x % n \in 0 .. n - 1
  BY <1>6, <1>9, Z3
<1>11. k \in DOMAIN win[ActiveId].tabs
  BY <1>1, <1>6, <1>9, <1>10
<1> QED BY <1>1, <1>4, <1>11, SelectStep

LEMMA TabMoveStep == ASSUME WindowInv, NEW i, NEW k, TabMove(i, k) PROVE WindowInv'
<1>1. PICK old : old = win[ActiveId]
  OBVIOUS
<1>2. PICK s : s = Swapped(old.tabs, i, k)
  OBVIOUS
<1>3. PICK m : m = IF old.active = i THEN k ELSE IF old.active = k THEN i ELSE old.active
  OBVIOUS
<1>4. PICK r : r = [old EXCEPT !.tabs = s, !.active = m]
  OBVIOUS
<1>5. HasTab(i) /\ HasTab(k) /\ SetActive(r)
  BY <1>1, <1>2, <1>3, <1>4 DEF TabMove, Neighbours
<1>6. /\ old \in Window /\ old.kind = "session" /\ old.tabs \in Seq(Tabs)
      /\ i \in DOMAIN old.tabs /\ k \in DOMAIN old.tabs /\ ActiveId \in Windows
  BY <1>1, <1>5, ActiveIs DEF Window
<1>7. PICK n \in Nat : n = Len(old.tabs)
  BY <1>6
<1>8. DOMAIN old.tabs = 1 .. n
  BY <1>6, <1>7
<1>9. old.active \in 1 .. n
  BY <1>1, <1>6, <1>8, TabTyped DEF Sound
<1>10. /\ s \in Seq(Tabs) /\ DOMAIN s = 1 .. n
       /\ s[i] = old.tabs[k] /\ s[k] = old.tabs[i]
       /\ \A j \in 1 .. n : j # i /\ j # k => s[j] = old.tabs[j]
  BY <1>2, <1>6, <1>7, <1>8 DEF Swapped
<1>11. r \in Window /\ r.kind = "session" /\ r.tabs = s /\ r.active = m /\ m \in 1 .. n
  <2>1. m \in 1 .. n
    BY <1>3, <1>6, <1>8, <1>9
  <2>2. m \in Nat
    BY <2>1
  <2> QED BY <1>4, <1>6, <1>10, <2>1, <2>2 DEF Window
<1>12. ToSet(s) = ToSet(old.tabs)
  BY <1>6, <1>8, <1>10 DEF ToSet
<1>13. IsInjective(old.tabs)
  BY <1>1, <1>6, TabTyped DEF Once, IsInjective
<1>14. IsInjective(s)
  <2>1. \A j, l \in 1 .. n : old.tabs[j] = old.tabs[l] => j = l
    BY <1>8, <1>13 DEF IsInjective
  <2> QED BY <1>6, <1>8, <1>10, <2>1 DEF IsInjective
<1> QED BY <1>1, <1>5, <1>10, <1>11, <1>12, <1>14, SetActiveStep

LEMMA HideTabStep == ASSUME WindowInv, NEW i, HideTab(i) PROVE WindowInv'
<1>1. PICK a, old : a = ActiveId /\ old = win[a]
  OBVIOUS
<1>2. PICK q, t : q = Without(old, i) /\ t = old.tabs[i]
  OBVIOUS
<1>3. /\ HasTab(i) /\ win' = [win EXCEPT ![a] = Without(@, i)]
      /\ hidden' = hidden \union {t} /\ dialog' \in {dialog, NoDialog}
      /\ Leave({t})
      /\ UNCHANGED <<order, focus, control, hiddenWins, events, conn, within>>
  BY <1>1, <1>2 DEF HideTab
<1>4. a \in Windows /\ a # 0 /\ old \in Window /\ old.kind = "session" /\ i \in DOMAIN old.tabs
  BY <1>1, <1>3, ActiveIs
<1>5. win' = [win EXCEPT ![a] = q]
  BY <1>1, <1>2, <1>3, <1>4, TabTyped
<1>6. old.active \in DOMAIN old.tabs /\ IsInjective(old.tabs)
  <2>1. old.tabs # <<>>
    BY <1>4
  <2> QED BY <1>1, <1>4, <2>1, TabTyped DEF Sound, Once, IsInjective
<1>7. /\ q \in Window /\ q.kind = "session"
      /\ q.tabs # <<>> => q.active \in DOMAIN q.tabs
      /\ ToSet(q.tabs) = ToSet(old.tabs) \ {t}
      /\ IsInjective(q.tabs)
  BY <1>2, <1>4, <1>6, WithoutIs
<1>8. Less(win, win')
  <2>1. KindStep(win[a].kind, q.kind) /\ ToSet(q.tabs) \subseteq ToSet(win[a].tabs)
    BY <1>1, <1>4, <1>7 DEF KindStep
  <2>2. q.kind \in {"unborn", "gone"} => q.tabs = <<>>
    BY <1>7
  <2> QED BY <1>4, <1>5, <1>7, <2>1, <2>2, TabTyped, LessAt
<1>9. t \in Born
  <2>1. t \in ToSet(win[a].tabs)
    BY <1>1, <1>2, <1>4 DEF ToSet
  <2> QED BY <1>4, <2>1 DEF WindowInv, TabsInv, TabsKnown
<1>10. tab' \in [Tabs -> [state : TabState, session : Nat]]
      /\ \A u \in Tabs : /\ tab'[u].session = tab[u].session
                         /\ tab'[u].state = "unborn" <=> tab[u].state = "unborn"
  BY <1>3, <1>9, TabTyped DEF Leave, Born, TabState
<1>11. Sound(win') /\ Once(win')
  BY <1>8 DEF Less
<1>12. \A w \in Windows : /\ win'[w].kind = win[w].kind
                          /\ ToSet(win'[w].tabs) \subseteq ToSet(win[w].tabs)
                          /\ ToSet(win[w].tabs) \subseteq ToSet(win'[w].tabs) \union {t}
  BY <1>1, <1>4, <1>5, <1>7, TabTyped
<1>13. Shown(win) \union hidden \subseteq Shown(win') \union hidden'
  <2>1. Shown(win) \subseteq Shown(win') \union {t}
    BY <1>11, <1>12, TabTyped, ShownIs
  <2> QED BY <1>3, <2>1
<1>14. hidden' \subseteq Born
  BY <1>3, <1>9, TabTyped
<1> QED BY <1>3, <1>10, <1>11, <1>12, <1>13, <1>14, RearrangeStep-----------------------------------------------------------------------------
(***************************************************************************)
(* The actions that open tabs.                                             *)
(***************************************************************************)
LEMMA NextTabIs ==
    ASSUME WindowInv, NEW t \in NextTab
    PROVE  /\ t \in Tabs /\ t \notin Born
           /\ t - 1 \in 0 .. MaxTab - 1
           /\ \A u \in Tabs : u \in Born <=> u <= t - 1
<1>1. PICK n \in 0 .. MaxTab : \A u \in Tabs : u \in Born <=> u <= n
  BY DEF WindowInv, TabsInv, NumberedTabs
<1>2. t \in Tabs /\ t \notin Born /\ \A u \in 1 .. t - 1 : tab[u].state # "unborn"
  BY DEF NextTab, Born
<1>3. MaxTab \in Nat /\ t \in 1 .. MaxTab /\ n \in Nat
  BY <1>1, <1>2, BoundsAssumption DEF Tabs
<1>4. ~(t <= n)
  BY <1>1, <1>2
<1>5. t - 1 <= n
  <2>1. CASE t = 1
    BY <1>3, <2>1
  <2>2. CASE t # 1
    <3>1. t - 1 \in 1 .. t - 1 /\ t - 1 \in Tabs
      BY <1>3, <2>2 DEF Tabs
    <3>2. t - 1 \in Born
      BY <1>2, <3>1 DEF Born
    <3> QED BY <1>1, <3>1, <3>2
  <2> QED BY <2>1, <2>2
<1>6. n = t - 1
  BY <1>3, <1>4, <1>5
<1> QED BY <1>1, <1>2, <1>3, <1>6

\* Tabs are opened, up to number n; none is shown that is not.
LEMMA TabsBorn ==
    ASSUME WindowInv, Sound(win'), Once(win'),
           NEW n \in 0 .. MaxTab, \A u \in Tabs : tab'[u].state # "unborn" <=> u <= n,
           tab' \in [Tabs -> [state : TabState, session : Nat]],
           \A u \in Born : tab'[u].state # "unborn",
           \A w \in Windows, u \in Tabs : u \in ToSet(win'[w].tabs) => tab'[u].state # "unborn",
           hidden' \subseteq hidden, hiddenWins' \in Seq(Seq(Tabs)), conn' \in BOOLEAN,
           \A k \in DOMAIN hiddenWins' : ToSet(hiddenWins'[k]) \subseteq Born,
           \A s \in within' : \E u \in Shown(win') \union hidden' : s = tab'[u].session
    PROVE  TabsInv'
<1>1. PICK born : born = {u \in Tabs : tab'[u].state # "unborn"}
  OBVIOUS
<1>2. Born' = born /\ Born \subseteq born /\ hidden \subseteq Born
  BY <1>1, TabTyped DEF Born
<1>3. NumberedTabs'
  <2>1. \A u \in Tabs : u \in born <=> u <= n
    BY <1>1
  <2> QED BY <1>2, <2>1 DEF NumberedTabs
<1>4. \A w \in Windows : ToSet(win'[w].tabs) \subseteq born
  <2> SUFFICES ASSUME NEW w \in Windows, NEW u \in ToSet(win'[w].tabs) PROVE u \in born
    OBVIOUS
  <2>1. win'[w].tabs \in Seq(Tabs)
    BY DEF Sound, Window
  <2>2. u \in Tabs
    BY <2>1 DEF ToSet
  <2> QED BY <1>1, <2>2
<1>5. TabsKnown'
  <2>1. hidden' \subseteq born /\ \A k \in DOMAIN hiddenWins' : ToSet(hiddenWins'[k]) \subseteq born
    BY <1>2
  <2> QED BY <1>2, <1>4, <2>1 DEF TabsKnown
<1>6. TabsType'
  BY TabTyped DEF TabsType
<1>7. WithinShown'
  <2>1. Shown(win)' = Shown(win')
    BY DEF Shown, Open
  <2>2. Session(Shown(win) \union hidden)' = {tab'[u].session : u \in Shown(win') \union hidden'}
    BY <2>1 DEF Session
  <2> QED BY <2>2 DEF WithinShown
<1>8. Sound(win)' /\ Once(win)'
  BY DEF Sound, Once
<1> QED BY <1>3, <1>5, <1>6, <1>7, <1>8 DEF TabsInv

\* One tab t of a session is opened; what is not hidden any more is shown by it.
LEMMA OpensKeep ==
    ASSUME WindowInv, Sound(win'), Once(win'), NEW t \in NextTab, NEW session \in Nat,
           Opens(t, session, win'),
           \A w \in Windows : ToSet(win'[w].tabs) \subseteq ToSet(win[w].tabs) \union {t},
           Shown(win) \subseteq Shown(win'),
           hidden' \subseteq hidden,
           \A h \in hidden \ hidden' : tab[h].session = session /\ t \in Shown(win'),
           hiddenWins' = hiddenWins, conn' \in BOOLEAN
    PROVE  TabsInv'
<1>1. /\ t \in Tabs /\ t \notin Born /\ t - 1 \in 0 .. MaxTab - 1
      /\ \A u \in Tabs : u \in Born <=> u <= t - 1
  BY NextTabIs
<1>2. /\ tab' = [tab EXCEPT ![t] = [state |-> "live", session |-> session]]
      /\ within' = within \union (IF t \in Shown(win') THEN {session} ELSE {})
  BY DEF Opens
<1>3. /\ tab'[t].state = "live" /\ tab'[t].session = session
      /\ \A u \in Tabs : u # t => tab'[u] = tab[u]
      /\ tab' \in [Tabs -> [state : TabState, session : Nat]]
  BY <1>1, <1>2, TabTyped DEF TabState
<1>4. t \in 0 .. MaxTab /\ t \in Nat
  BY <1>1, BoundsAssumption DEF Tabs
<1>5. \A u \in Tabs : tab'[u].state # "unborn" <=> u \in Born \union {t}
  BY <1>3 DEF Born
<1>6. \A u \in Tabs : u \in Nat
  BY DEF Tabs
<1>7. \A u \in Tabs : tab'[u].state # "unborn" <=> u <= t
  BY <1>1, <1>4, <1>5, <1>6
<1>8. \A u \in Born : tab'[u].state # "unborn"
  BY <1>5, TabTyped
<1>9. TabsInv
  BY DEF WindowInv
<1>10. \A w \in Windows, u \in Tabs : u \in ToSet(win'[w].tabs) => tab'[u].state # "unborn"
  <2>1. \A w \in Windows : ToSet(win[w].tabs) \subseteq Born
    BY <1>9 DEF TabsInv, TabsKnown
  <2> QED BY <1>5, <2>1
<1>11. hiddenWins' \in Seq(Seq(Tabs)) /\ \A k \in DOMAIN hiddenWins' : ToSet(hiddenWins'[k]) \subseteq Born
  BY <1>9 DEF TabsInv, TabsType, TabsKnown
<1>12. ASSUME NEW s \in within' PROVE \E u \in Shown(win') \union hidden' : s = tab'[u].session
  <2>1. CASE s \in within
    <3>1. within \subseteq Session(Shown(win) \union hidden)
      BY <1>9 DEF TabsInv, WithinShown
    <3>2. PICK u \in Shown(win) \union hidden : s = tab[u].session
      BY <2>1, <3>1 DEF Session
    <3>3. \A w \in Windows : ToSet(win[w].tabs) \subseteq Born
      BY <1>9 DEF TabsInv, TabsKnown
    <3>4. u \in Born /\ u \in Tabs
      BY <3>2, <3>3, TabTyped, ShownIs
    <3>5. tab'[u] = tab[u]
      BY <1>1, <1>3, <3>4
    <3>6. CASE u \in Shown(win') \union hidden'
      BY <3>2, <3>5, <3>6
    <3>7. CASE u \notin Shown(win') \union hidden'
      <4>1. u \in hidden \ hidden'
        BY <3>2, <3>7
      <4> QED BY <1>3, <3>2, <4>1
    <3> QED BY <3>6, <3>7
  <2>2. CASE s \notin within
    <3>1. s = session /\ t \in Shown(win')
      BY <1>2, <2>2
    <3> QED BY <1>3, <3>1
  <2> QED BY <2>1, <2>2
<1> QED BY <1>3, <1>4, <1>7, <1>8, <1>10, <1>11, <1>12, TabsBorn

LEMMA OpenTabInIs ==
    ASSUME NEW ws, Sound(ws), Once(ws), NEW w, NEW t \in Tabs,
           \A v \in Windows : t \notin ToSet(ws[v].tabs),
           NEW zs, zs = OpenTabIn(ws, w, t)
    PROVE  /\ Sound(zs) /\ Once(zs)
           /\ \A v \in Windows : /\ zs[v].kind = ws[v].kind
                                 /\ ToSet(zs[v].tabs) \subseteq ToSet(ws[v].tabs) \union {t}
                                 /\ ToSet(ws[v].tabs) \subseteq ToSet(zs[v].tabs)
           /\ w \in Windows /\ ws[w].kind = "session" => t \in ToSet(zs[w].tabs)
<1>1. CASE ~(w \in Windows /\ ws[w].kind \in {"control", "session"})
  <2>1. zs = ws
    BY <1>1 DEF OpenTabIn
  <2> QED BY <1>1, <2>1
<1>2. CASE w \in Windows /\ ws[w].kind \in {"control", "session"}
  <2>1. ws \in [Windows -> Window]
    BY DEF Sound
  <2>2. PICK old : old = ws[w]
    OBVIOUS
  <2>3. old \in Window /\ old.tabs \in Seq(Tabs) /\ old.kind \in {"control", "session"}
    BY <1>2, <2>1, <2>2 DEF Window
  <2>4. PICK n \in Nat : n = Len(old.tabs)
    BY <2>3
  <2>5. PICK s : s = Append(old.tabs, t)
    OBVIOUS
  <2>6. /\ s \in Seq(Tabs) /\ Len(s) = n + 1 /\ s[n + 1] = t
        /\ \A k \in 1 .. n : s[k] = old.tabs[k]
        /\ ToSet(s) = ToSet(old.tabs) \union {t}
    BY <2>3, <2>4, <2>5, AppendIs
  <2>7. DOMAIN s = 1 .. n + 1 /\ DOMAIN old.tabs = 1 .. n
    BY <2>3, <2>4, <2>6
  <2>8. PICK r : r = [old EXCEPT !.tabs = s, !.active = n + 1]
    OBVIOUS
  <2>9. r \in Window /\ r.kind = old.kind /\ r.tabs = s /\ r.active = n + 1
    <3>1. PICK m \in Nat : m = n + 1
      OBVIOUS
    <3> QED BY <2>3, <2>6, <2>8, <3>1 DEF Window
  <2>10. zs = [ws EXCEPT ![w] = r]
    <3>1. zs = [ws EXCEPT ![w].tabs = Append(@, t), ![w].active = Len(ws[w].tabs) + 1]
      BY <1>2 DEF OpenTabIn
    <3> QED BY <1>2, <2>1, <2>2, <2>3, <2>4, <2>5, <2>8, <3>1 DEF Window
  <2>11. /\ zs \in [Windows -> Window] /\ zs[w] = r
         /\ \A v \in Windows : v # w => zs[v] = ws[v]
    BY <1>2, <2>1, <2>9, <2>10
  <2>12. Sound(zs)
    <3>1. r.active \in DOMAIN r.tabs /\ r.kind \notin {"unborn", "gone"}
      BY <2>3, <2>7, <2>9
    <3> QED BY <2>11, <3>1 DEF Sound
  <2>13. \A v \in Windows : /\ zs[v].kind = ws[v].kind
                            /\ ToSet(zs[v].tabs) \subseteq ToSet(ws[v].tabs) \union {t}
                            /\ ToSet(ws[v].tabs) \subseteq ToSet(zs[v].tabs)
    BY <2>2, <2>6, <2>9, <2>11
  <2>14. t \in ToSet(zs[w].tabs)
    BY <2>6, <2>9, <2>11
  <2>15. \A v \in Windows : \A i \in DOMAIN ws[v].tabs : ws[v].tabs[i] # t
    BY DEF ToSet
  <2>16. ASSUME NEW v \in Windows, NEW i \in DOMAIN zs[v].tabs
         PROVE  IF v = w /\ i = n + 1 THEN zs[v].tabs[i] = t
                ELSE i \in DOMAIN ws[v].tabs /\ zs[v].tabs[i] = ws[v].tabs[i]
    <3>1. CASE v # w
      BY <2>11, <3>1
    <3>2. CASE v = w
      <4>1. i \in 1 .. n + 1 /\ zs[v].tabs = s /\ ws[v].tabs = old.tabs
        BY <2>2, <2>7, <2>9, <2>11, <3>2
      <4>2. i = n + 1 \/ i \in 1 .. n
        BY <4>1
      <4>3. n + 1 \notin 1 .. n
        OBVIOUS
      <4> QED BY <2>6, <2>7, <3>2, <4>1, <4>2, <4>3
    <3> QED BY <3>1, <3>2
  <2>17. Once(zs)
    <3> SUFFICES ASSUME NEW u \in Windows, NEW v \in Windows,
                        NEW i \in DOMAIN zs[u].tabs, NEW j \in DOMAIN zs[v].tabs,
                        zs[u].tabs[i] = zs[v].tabs[j]
                 PROVE  u = v /\ i = j
      BY DEF Once
    <3>1. CASE u = w /\ i = n + 1
      BY <2>15, <2>16, <3>1
    <3>2. CASE v = w /\ j = n + 1
      BY <2>15, <2>16, <3>2
    <3>3. CASE ~(u = w /\ i = n + 1) /\ ~(v = w /\ j = n + 1)
      BY <2>16, <3>3 DEF Once
    <3> QED BY <3>1, <3>2, <3>3
  <2> QED BY <2>12, <2>13, <2>14, <2>17
<1> QED BY <1>1, <1>2

LEMMA ShownGrows ==
    ASSUME NEW ws, NEW zs, Sound(ws), Sound(zs),
           \A v \in Windows : ws[v].kind = "session" =>
               zs[v].kind = "session" /\ ToSet(ws[v].tabs) \subseteq ToSet(zs[v].tabs)
    PROVE  Shown(ws) \subseteq Shown(zs)
<1> SUFFICES ASSUME NEW t \in Shown(ws) PROVE t \in Shown(zs)
  OBVIOUS
<1>1. PICK v \in Windows : ws[v].kind = "session" /\ t \in ToSet(ws[v].tabs)
  BY ShownIs
<1>2. zs[v].kind = "session" /\ t \in ToSet(zs[v].tabs)
  BY <1>1
<1> QED BY <1>2, ShownIs

LEMMA WithWindowIs ==
    ASSUME NEW ws, ws = win, Sound(ws), Once(ws), NEW w \in NextWindow,
           NEW zs, zs = WithWindow(w)
    PROVE  /\ Sound(zs) /\ Once(zs)
           /\ w \in Windows /\ zs[w].kind = "session" /\ ws[w].kind = "unborn"
           /\ \A v \in Windows : zs[v].tabs = ws[v].tabs /\ (v # w => zs[v] = ws[v])
<1>1. PICK r : r = NoWindow("session")
  OBVIOUS
<1>2. r \in Window /\ r.kind = "session" /\ r.tabs = <<>>
  BY <1>1 DEF NoWindow, Window
<1>3. ws \in [Windows -> Window] /\ w \in Windows /\ ws[w].kind = "unborn"
  BY DEF Sound, NextWindow
<1>4. ws[w].tabs = <<>>
  BY <1>3 DEF Sound
<1>5. zs = [ws EXCEPT ![w] = r]
  BY <1>1 DEF WithWindow
<1>6. zs \in [Windows -> Window] /\ zs[w] = r /\ \A v \in Windows : v # w => zs[v] = ws[v]
  BY <1>2, <1>3, <1>5
<1>7. \A v \in Windows : zs[v].tabs = ws[v].tabs
  BY <1>2, <1>4, <1>6
<1>8. Sound(zs)
  BY <1>2, <1>6 DEF Sound
<1>9. Once(zs)
  BY <1>7 DEF Once
<1> QED BY <1>2, <1>3, <1>6, <1>7, <1>8, <1>9
\* The tabs of one window that are not born are not in any.
LEMMA FreshTab ==
    ASSUME WindowInv, NEW t \in NextTab
    PROVE  /\ t \in Tabs /\ t \in Nat /\ 0 \notin Tabs
           /\ \A v \in Windows : t \notin ToSet(win[v].tabs)
<1>1. \A v \in Windows : ToSet(win[v].tabs) \subseteq Born
  BY DEF WindowInv, TabsInv, TabsKnown
<1> QED BY <1>1, NextTabIs DEF Tabs

\* A tab is opened in the windows there are.
LEMMA OpenHereStep ==
    ASSUME WindowInv, NEW t \in NextTab, NEW session \in Nat, NEW w,
           win' = OpenTabIn(win, w, t), Opens(t, session, win'),
           hidden' \subseteq hidden,
           \A h \in hidden \ hidden' : /\ tab[h].session = session
                                       /\ w \in Windows /\ win[w].kind = "session",
           \/ focus' = focus
           \/ focus' \in Windows /\ win[focus'].kind \in {"control", "session"},
           UNCHANGED <<order, control, hiddenWins, events>>, conn' \in BOOLEAN,
           dialog' \in {dialog, NoDialog}
    PROVE  WindowInv'
<1>1. t \in Tabs /\ \A v \in Windows : t \notin ToSet(win[v].tabs)
  BY FreshTab
<1>2. PICK zs : zs = win'
  OBVIOUS
<1>3. /\ Sound(zs) /\ Once(zs)
      /\ \A v \in Windows : /\ zs[v].kind = win[v].kind
                            /\ ToSet(zs[v].tabs) \subseteq ToSet(win[v].tabs) \union {t}
                            /\ ToSet(win[v].tabs) \subseteq ToSet(zs[v].tabs)
      /\ w \in Windows /\ win[w].kind = "session" => t \in ToSet(zs[w].tabs)
  <2>1. PICK ws : ws = win
    OBVIOUS
  <2>2. Sound(ws) /\ Once(ws) /\ zs = OpenTabIn(ws, w, t)
    BY <1>2, <2>1, TabTyped
  <2>3. \A v \in Windows : t \notin ToSet(ws[v].tabs)
    BY <1>1, <2>1
  <2>4. /\ Sound(zs) /\ Once(zs)
        /\ \A v \in Windows : /\ zs[v].kind = ws[v].kind
                              /\ ToSet(zs[v].tabs) \subseteq ToSet(ws[v].tabs) \union {t}
                              /\ ToSet(ws[v].tabs) \subseteq ToSet(zs[v].tabs)
        /\ w \in Windows /\ ws[w].kind = "session" => t \in ToSet(zs[w].tabs)
    BY <1>1, <2>2, <2>3, OpenTabInIs
  <2> QED BY <2>1, <2>4
<1>4. Shown(win) \subseteq Shown(zs)
  <2>1. Sound(win)
    BY TabTyped
  <2> QED BY <1>3, <2>1, ShownGrows
<1>5. \A h \in hidden \ hidden' : tab[h].session = session /\ t \in Shown(zs)
  BY <1>3, ShownIs
<1>6. TabsInv'
  BY <1>2, <1>3, <1>4, <1>5, OpensKeep
<1>7. LayoutInv'
  <2>1. \A v \in Windows : KindStep(win[v].kind, zs[v].kind)
    BY <1>3 DEF KindStep
  <2>2. Gone(zs) = {} /\ zs \in [Windows -> Window]
    BY <1>3 DEF Gone, Exists, Sound
  <2>3. events' = events \union Gone(win')
    BY <1>2, <2>2
  <2>4. focus' = focus \/ (focus' \in Windows /\ win'[focus'].kind \in {"control", "session"})
    BY <1>2, <1>3
  <2> QED BY <1>2, <2>1, <2>2, <2>3, <2>4, KindsLayout
<1>8. DialogInv'
  BY <1>2, <1>3, DialogKept
<1> QED BY <1>6, <1>7, <1>8 DEF WindowInv

LEMMA NewTabStep == ASSUME WindowInv, NewTab PROVE WindowInv'
<1>1. PICK t \in NextTab :
        /\ \E w \in IF win[ActiveId].kind = "control" THEN Open(win, "session") ELSE {ActiveId} :
            /\ win' = OpenTabIn(win, w, t)
            /\ focus' = IF win[ActiveId].kind = "control" THEN w ELSE focus
        /\ Opens(t, t, win')
  BY DEF NewTab
<1>2. PICK w \in IF win[ActiveId].kind = "control" THEN Open(win, "session") ELSE {ActiveId} :
            /\ win' = OpenTabIn(win, w, t)
            /\ focus' = IF win[ActiveId].kind = "control" THEN w ELSE focus
  BY <1>1
<1>3. UNCHANGED <<order, control, dialog, events, hidden, hiddenWins, conn>>
  BY DEF NewTab, Rest
<1>4. focus' = focus \/ (focus' \in Windows /\ win[focus'].kind \in {"control", "session"})
  BY <1>2 DEF Open
<1>5. conn' \in BOOLEAN
  BY <1>3 DEF WindowInv, TabsInv, TabsType
<1>6. t \in Nat /\ dialog' \in {dialog, NoDialog}
  BY <1>3, FreshTab
<1> QED BY <1>1, <1>2, <1>3, <1>4, <1>5, <1>6, OpenHereStep

LEMMA RemoteTabStep == ASSUME WindowInv, RemoteTab PROVE WindowInv'
<1>1. PICK t \in NextTab, w \in Open(win, "session") \union {ActiveId} :
        win' = OpenTabIn(win, w, t) /\ Opens(t, t, win')
  BY DEF RemoteTab
<1>2. UNCHANGED <<order, focus, control, hidden, hiddenWins, dialog, events, conn>>
  BY DEF RemoteTab
<1>3. conn' \in BOOLEAN
  BY <1>2 DEF WindowInv, TabsInv, TabsType
<1>4. t \in Nat /\ dialog' \in {dialog, NoDialog}
  BY <1>2, FreshTab
<1> QED BY <1>1, <1>2, <1>3, <1>4, OpenHereStep

LEMMA RestoreHiddenSessionStep ==
    ASSUME WindowInv, NEW h, RestoreHiddenSession(h) PROVE WindowInv'
<1>1. /\ h \in hidden /\ Exists(ActiveId) /\ win[ActiveId].kind = "session"
      /\ hidden' = hidden \ {h}
      /\ UNCHANGED <<order, focus, control, hiddenWins, dialog, events, conn>>
  BY DEF RestoreHiddenSession
<1>2. /\ hidden' \subseteq hidden /\ conn' \in BOOLEAN /\ dialog' \in {dialog, NoDialog}
      /\ \A g \in hidden \ hidden' : g = h
      /\ ActiveId \in Windows
  BY <1>1 DEF WindowInv, TabsInv, TabsType, Exists
<1>3. CASE \E t \in NextTab : win' = OpenTabIn(win, ActiveId, t) /\ Opens(t, tab[h].session, win')
  <2>1. PICK t \in NextTab : win' = OpenTabIn(win, ActiveId, t) /\ Opens(t, tab[h].session, win')
    BY <1>3
  <2>2. tab[h].session \in Nat
    BY <1>1, TabTyped
  <2>3. PICK session, a : session = tab[h].session /\ a = ActiveId
    OBVIOUS
  <2>4. \A g \in hidden \ hidden' : /\ tab[g].session = session
                                    /\ a \in Windows /\ win[a].kind = "session"
    BY <1>1, <1>2, <2>3
  <2> QED BY <1>1, <1>2, <2>1, <2>2, <2>3, <2>4, OpenHereStep
<1>4. CASE within' = within \ Session({h}) /\ UNCHANGED <<win, tab>>
  <2>1. Sound(win') /\ Once(win') /\ Shown(win') = Shown(win)
    BY <1>4, TabTyped
  <2>2. TabsInv
    BY DEF WindowInv
  <2>3. within' \subseteq Session(Shown(win') \union hidden')
    <3>1. within \subseteq Session(Shown(win) \union hidden)
      BY <2>2 DEF TabsInv, WithinShown
    <3> QED BY <1>1, <1>4, <2>1, <3>1 DEF Session
  <2>4. /\ tab' \in [Tabs -> [state : TabState, session : Nat]]
        /\ hidden' \subseteq Born /\ hiddenWins' \in Seq(Seq(Tabs))
        /\ \A k \in DOMAIN hiddenWins' : ToSet(hiddenWins'[k]) \subseteq Born
    BY <1>1, <1>4, <2>2, TabTyped DEF TabsInv, TabsKnown, TabsType
  <2>5. TabsInv'
    <3>1. \A w \in Windows : ToSet(win'[w].tabs) \subseteq ToSet(win[w].tabs)
      BY <1>4
    <3>2. \A t \in Tabs : /\ tab'[t].session = tab[t].session
                          /\ tab'[t].state = "unborn" <=> tab[t].state = "unborn"
      BY <1>4
    <3> QED BY <1>2, <2>1, <2>3, <2>4, <3>1, <3>2, TabsKept
  <2>6. LayoutInv'
    BY <1>1, <1>4 DEF WindowInv, LayoutInv, Open, Exists, FocusRecovers
  <2>7. DialogInv'
    BY <1>1, <1>4 DEF WindowInv, DialogInv, Ascending
  <2> QED BY <2>5, <2>6, <2>7 DEF WindowInv
<1> QED BY <1>3, <1>4 DEF RestoreHiddenSession

\* A new window is opened, with a tab.
LEMMA OpenThereStep ==
    ASSUME WindowInv, NEW w \in NextWindow, NEW t \in NextTab,
           win' = OpenTabIn(WithWindow(w), w, t), Opens(t, t, win'),
           OpenWindow(w), UNCHANGED <<control, dialog, hidden, hiddenWins>>, conn' \in BOOLEAN
    PROVE  WindowInv'
<1>1. t \in Tabs /\ t \in Nat /\ \A v \in Windows : t \notin ToSet(win[v].tabs)
  BY FreshTab
<1>2. PICK ws, xs, zs : ws = win /\ xs = WithWindow(w) /\ zs = win'
  OBVIOUS
<1>3. /\ Sound(xs) /\ Once(xs)
      /\ w \in Windows /\ xs[w].kind = "session" /\ ws[w].kind = "unborn"
      /\ \A v \in Windows : xs[v].tabs = ws[v].tabs /\ (v # w => xs[v] = ws[v])
  BY <1>2, TabTyped, WithWindowIs
<1>4. /\ Sound(zs) /\ Once(zs)
      /\ \A v \in Windows : /\ zs[v].kind = xs[v].kind
                            /\ ToSet(zs[v].tabs) \subseteq ToSet(xs[v].tabs) \union {t}
                            /\ ToSet(xs[v].tabs) \subseteq ToSet(zs[v].tabs)
  <2>1. \A v \in Windows : t \notin ToSet(xs[v].tabs)
    BY <1>1, <1>2, <1>3
  <2>2. zs = OpenTabIn(xs, w, t)
    BY <1>2
  <2> QED BY <1>1, <1>3, <2>1, <2>2, OpenTabInIs
<1>5. \A v \in Windows : /\ v # w => zs[v].kind = win[v].kind
                         /\ ToSet(zs[v].tabs) \subseteq ToSet(win[v].tabs) \union {t}
                         /\ ToSet(win[v].tabs) \subseteq ToSet(zs[v].tabs)
  BY <1>2, <1>3, <1>4
<1>6. Shown(win) \subseteq Shown(zs)
  <2>1. \A v \in Windows : win[v].kind = "session" => v # w /\ zs[v].kind = "session"
    BY <1>2, <1>3, <1>5
  <2>2. Sound(win)
    BY TabTyped
  <2> QED BY <1>4, <1>5, <2>1, <2>2, ShownGrows
<1>7. TabsInv'
  BY <1>1, <1>2, <1>4, <1>5, <1>6, OpensKeep
<1>8. LayoutInv'
  <2>1. win'[w].kind = "session" /\ win' \in [Windows -> Window]
    BY <1>2, <1>3, <1>4 DEF Sound
  <2>2. \A v \in Windows \ {w} : win'[v].kind = win[v].kind
    BY <1>2, <1>5
  <2> QED BY <2>1, <2>2, OpenedLayout DEF OpenWindow
<1>9. DialogInv'
  <2>1. \A v \in Windows : win[v].kind \in {"session", "gone"} => win'[v].kind \in {"session", "gone"}
    BY <1>2, <1>3, <1>5
  <2> QED BY <2>1, DialogKept
<1> QED BY <1>7, <1>8, <1>9 DEF WindowInv

LEMMA ServerConnectedStep == ASSUME WindowInv, ServerConnected PROVE WindowInv'
<1>1. conn' \in BOOLEAN /\ UNCHANGED <<control, hidden, hiddenWins, dialog>>
  BY DEF ServerConnected
<1>2. CASE Open(win, "session") = {}
  <2>1. PICK w \in NextWindow, t \in NextTab :
          win' = OpenTabIn(WithWindow(w), w, t) /\ OpenWindow(w) /\ Opens(t, t, win')
    BY <1>2 DEF ServerConnected
  <2> QED BY <1>1, <2>1, OpenThereStep
<1>3. CASE Open(win, "session") # {}
  <2>1. PICK t \in NextTab :
          /\ win' = OpenTabIn(win, ActiveId, t) /\ Opens(t, t, win')
          /\ UNCHANGED <<order, focus, events>>
    BY <1>3 DEF ServerConnected
  <2>2. t \in Nat
    BY FreshTab
  <2> QED BY <1>1, <2>1, <2>2, OpenHereStep
<1> QED BY <1>2, <1>3

LEMMA NewWindowStep == ASSUME WindowInv, NewWindow PROVE WindowInv'
<1>1. PICK w \in NextWindow :
        /\ IF conn
           THEN \E t \in NextTab : win' = OpenTabIn(WithWindow(w), w, t) /\ Opens(t, t, win')
           ELSE win' = WithWindow(w) /\ UNCHANGED <<tab, within>>
        /\ OpenWindow(w)
  BY DEF NewWindow
<1>2. UNCHANGED <<control, dialog, hidden, hiddenWins, conn>>
  BY DEF NewWindow, Rest
<1>3. TabsInv /\ TabsType
  BY DEF WindowInv, TabsInv
<1>4. conn' \in BOOLEAN
  BY <1>2, <1>3 DEF TabsType
<1>5. CASE conn
  <2>1. PICK t \in NextTab : win' = OpenTabIn(WithWindow(w), w, t) /\ Opens(t, t, win')
    BY <1>1, <1>5
  <2> QED BY <1>1, <1>2, <1>4, <2>1, OpenThereStep
<1>6. CASE ~conn
  <2>1. win' = WithWindow(w) /\ UNCHANGED <<tab, within>>
    BY <1>1, <1>6
  <2>2. PICK ws, zs : ws = win /\ zs = win'
    OBVIOUS
  <2>3. /\ Sound(zs) /\ Once(zs)
        /\ w \in Windows /\ zs[w].kind = "session" /\ ws[w].kind = "unborn"
        /\ \A v \in Windows : zs[v].tabs = ws[v].tabs /\ (v # w => zs[v] = ws[v])
    BY <2>1, <2>2, TabTyped, WithWindowIs
  <2>4. Shown(win) \subseteq Shown(win')
    <3>1. \A v \in Windows : win[v].kind = "session" => zs[v] = win[v]
      BY <2>2, <2>3
    <3> QED BY <2>2, <2>3, <3>1, TabTyped, ShownIs
  <2>5. TabsInv'
    <3>1. within' \subseteq Session(Shown(win') \union hidden')
      <4>1. within \subseteq Session(Shown(win) \union hidden)
        BY <1>3 DEF TabsInv, WithinShown
      <4> QED BY <1>2, <2>1, <2>4, <4>1 DEF Session
    <3>2. \A v \in Windows : ToSet(win'[v].tabs) \subseteq ToSet(win[v].tabs)
      BY <2>2, <2>3
    <3>3. \A t \in Tabs : /\ tab'[t].session = tab[t].session
                          /\ tab'[t].state = "unborn" <=> tab[t].state = "unborn"
      BY <2>1
    <3>4. /\ hidden' \subseteq Born /\ hiddenWins' \in Seq(Seq(Tabs))
          /\ \A k \in DOMAIN hiddenWins' : ToSet(hiddenWins'[k]) \subseteq Born
          /\ tab' \in [Tabs -> [state : TabState, session : Nat]]
      BY <1>2, <1>3, <2>1 DEF TabsInv, TabsKnown, TabsType
    <3> QED BY <1>4, <2>2, <2>3, <3>1, <3>2, <3>3, <3>4, TabsKept
  <2>6. LayoutInv'
    <3>1. win'[w].kind = "session" /\ win' \in [Windows -> Window]
      BY <2>2, <2>3 DEF Sound
    <3>2. \A v \in Windows \ {w} : win'[v].kind = win[v].kind
      BY <2>2, <2>3
    <3> QED BY <1>1, <1>2, <3>1, <3>2, OpenedLayout DEF OpenWindow
  <2>7. DialogInv'
    <3>1. \A v \in Windows : win[v].kind \in {"session", "gone"} => win'[v].kind \in {"session", "gone"}
      BY <2>2, <2>3
    <3> QED BY <1>2, <3>1, DialogKept
  <2> QED BY <2>5, <2>6, <2>7 DEF WindowInv
<1> QED BY <1>5, <1>6
LEMMA CreateNewSessionStep == ASSUME WindowInv, NEW i, CreateNewSession(i) PROVE WindowInv'
<1>1. PICK a, old, x : a = ActiveId /\ old = win[a] /\ x = old.tabs[i]
  OBVIOUS
<1>2. PICK t \in NextTab :
        /\ HasTab(i)
        /\ win' = [win EXCEPT ![a].tabs[i] = t]
        /\ tab' = [tab EXCEPT ![t] = [state |-> "live", session |-> t], ![x].state = "gone"]
        /\ within' = (within \ Session({x})) \union {t}
        /\ UNCHANGED <<order, focus, control, dialog, events, hidden, hiddenWins, conn>>
  BY <1>1 DEF CreateNewSession, Rest
<1>3. a \in Windows /\ old \in Window /\ old.kind = "session" /\ i \in DOMAIN old.tabs
  BY <1>1, <1>2, ActiveIs
<1>4. old.tabs \in Seq(Tabs)
  BY <1>3 DEF Window
<1>5. PICK n \in Nat : n = Len(old.tabs)
  BY <1>4
<1>6. DOMAIN old.tabs = 1 .. n /\ x \in Tabs
  BY <1>1, <1>3, <1>4, <1>5
<1>7. t \in Tabs /\ t \in Nat /\ \A v \in Windows : t \notin ToSet(win[v].tabs)
  BY FreshTab
<1>8. PICK s : s = [old.tabs EXCEPT ![i] = t]
  OBVIOUS
<1>9. /\ s \in Seq(Tabs) /\ DOMAIN s = 1 .. n /\ s[i] = t
      /\ \A k \in 1 .. n : k # i => s[k] = old.tabs[k]
  BY <1>3, <1>4, <1>5, <1>6, <1>7, <1>8
<1>10. PICK r : r = [old EXCEPT !.tabs = s]
  OBVIOUS
<1>11. r \in Window /\ r.kind = "session" /\ r.tabs = s /\ r.active = old.active
  BY <1>3, <1>9, <1>10 DEF Window
<1>12. PICK zs : zs = win'
  OBVIOUS
<1>13. win \in [Windows -> Window] /\ Sound(win) /\ Once(win)
  BY TabTyped
<1>14. zs = [win EXCEPT ![a] = r]
  BY <1>1, <1>2, <1>3, <1>8, <1>10, <1>12, <1>13
<1>15. zs \in [Windows -> Window] /\ zs[a] = r /\ \A v \in Windows : v # a => zs[v] = win[v]
  BY <1>3, <1>11, <1>13, <1>14
<1>16. Sound(zs)
  <2>1. old.active \in 1 .. n
    <3> old.tabs # <<>>
      BY <1>3
    <3> QED BY <1>1, <1>3, <1>6, <1>13 DEF Sound
  <2> QED BY <1>9, <1>11, <1>13, <1>15, <2>1 DEF Sound
<1>17. \A v \in Windows : \A k \in DOMAIN zs[v].tabs :
         IF v = a /\ k = i THEN zs[v].tabs[k] = t
         ELSE k \in DOMAIN win[v].tabs /\ zs[v].tabs[k] = win[v].tabs[k]
  BY <1>1, <1>6, <1>9, <1>11, <1>15
<1>18. \A v \in Windows : \A k \in DOMAIN win[v].tabs : win[v].tabs[k] # t
  BY <1>7 DEF ToSet
<1>19. Once(zs)
  <2> SUFFICES ASSUME NEW u \in Windows, NEW v \in Windows,
                      NEW k \in DOMAIN zs[u].tabs, NEW j \in DOMAIN zs[v].tabs,
                      zs[u].tabs[k] = zs[v].tabs[j]
               PROVE  u = v /\ k = j
    BY DEF Once
  <2>1. CASE u = a /\ k = i
    BY <1>17, <1>18, <2>1
  <2>2. CASE v = a /\ j = i
    BY <1>17, <1>18, <2>2
  <2>3. CASE ~(u = a /\ k = i) /\ ~(v = a /\ j = i)
    BY <1>13, <1>17, <2>3 DEF Once
  <2> QED BY <2>1, <2>2, <2>3
<1>20. /\ ToSet(s) \subseteq ToSet(old.tabs) \union {t}
       /\ ToSet(old.tabs) \subseteq ToSet(s) \union {x}
       /\ t \in ToSet(s) /\ x \in ToSet(old.tabs)
  BY <1>1, <1>3, <1>6, <1>9 DEF ToSet
<1>21. \A v \in Windows : /\ zs[v].kind = win[v].kind
                          /\ ToSet(zs[v].tabs) \subseteq ToSet(win[v].tabs) \union {t}
                          /\ ToSet(win[v].tabs) \subseteq ToSet(zs[v].tabs) \union {x}
  BY <1>1, <1>3, <1>11, <1>15, <1>20
<1>22. Shown(win) \subseteq Shown(zs) \union {x} /\ t \in Shown(zs)
  <2>1. t \in Shown(zs)
    BY <1>3, <1>11, <1>15, <1>16, <1>20, ShownIs
  <2>2. ASSUME NEW u \in Shown(win), u # x PROVE u \in Shown(zs)
    <3>1. PICK v \in Windows : win[v].kind = "session" /\ u \in ToSet(win[v].tabs)
      BY <1>13, ShownIs
    <3>2. zs[v].kind = "session" /\ u \in ToSet(zs[v].tabs)
      BY <1>21, <2>2, <3>1
    <3> QED BY <1>16, <3>2, ShownIs
  <2> QED BY <2>1, <2>2
<1>23. TabsInv
  BY DEF WindowInv
<1>24. \A v \in Windows : ToSet(win[v].tabs) \subseteq Born
  BY <1>23 DEF TabsInv, TabsKnown
<1>25. x \in Born /\ t \notin Born
  BY <1>1, <1>3, <1>20, <1>24, NextTabIs
<1>26. /\ tab'[t] = [state |-> "live", session |-> t]
       /\ \A u \in Tabs : u # t => tab'[u].session = tab[u].session
       /\ \A u \in Tabs : tab'[u].state # "unborn" <=> u \in Born \union {t}
       /\ tab' \in [Tabs -> [state : TabState, session : Nat]]
  <2>1. x # t
    BY <1>25
  <2> QED BY <1>2, <1>6, <1>7, <1>25, <2>1, TabTyped DEF TabState, Born
<1>27. TabsInv'
  <2>1. \A u \in Tabs : u \in Born <=> u <= t - 1
    BY NextTabIs
  <2>2. t \in 0 .. MaxTab
    BY <1>7, BoundsAssumption DEF Tabs
  <2>3. \A u \in Tabs : u \in Nat
    BY DEF Tabs
  <2>4. \A u \in Tabs : tab'[u].state # "unborn" <=> u <= t
    BY <1>7, <1>26, <2>1, <2>3
  <2>5. /\ \A u \in Born : tab'[u].state # "unborn"
        /\ \A w \in Windows, u \in Tabs : u \in ToSet(win'[w].tabs) => tab'[u].state # "unborn"
    BY <1>12, <1>21, <1>24, <1>26, TabTyped
  <2>6. /\ hidden' \subseteq hidden /\ hiddenWins' \in Seq(Seq(Tabs)) /\ conn' \in BOOLEAN
        /\ \A k \in DOMAIN hiddenWins' : ToSet(hiddenWins'[k]) \subseteq Born
    BY <1>2, <1>23 DEF TabsInv, TabsType, TabsKnown
  <2>7. ASSUME NEW q \in within' PROVE \E u \in Shown(win') \union hidden' : q = tab'[u].session
    <3>1. CASE q = t
      BY <1>12, <1>22, <1>26, <3>1
    <3>2. CASE q # t
      <4>1. q \in within /\ q # tab[x].session
        BY <1>2, <3>2 DEF Session
      <4>2. within \subseteq Session(Shown(win) \union hidden)
        BY <1>23 DEF TabsInv, WithinShown
      <4>3. PICK u \in Shown(win) \union hidden : q = tab[u].session
        BY <4>1, <4>2 DEF Session
      <4>4. u # x
        BY <4>1, <4>3
      <4>5. u \in Born /\ u \in Tabs
        BY <1>13, <1>24, <4>3, TabTyped, ShownIs
      <4>6. u \in Shown(win') \union hidden'
        BY <1>2, <1>12, <1>22, <4>3, <4>4
      <4>7. tab'[u].session = q
        BY <1>25, <1>26, <4>3, <4>5
      <4> QED BY <4>6, <4>7
    <3> QED BY <3>1, <3>2
  <2> QED BY <1>12, <1>16, <1>19, <1>26, <2>2, <2>4, <2>5, <2>6, <2>7, TabsBorn
<1>28. LayoutInv'
  <2>1. \A v \in Windows : KindStep(win[v].kind, win'[v].kind)
    BY <1>12, <1>21 DEF KindStep
  <2>2. Gone(win') = {}
    BY <1>12, <1>21 DEF Gone, Exists
  <2> QED BY <1>2, <1>12, <1>15, <2>1, <2>2, KindsLayout
<1>29. DialogInv'
  BY <1>2, <1>12, <1>21, DialogKept
<1> QED BY <1>27, <1>28, <1>29 DEF WindowInv

LEMMA BornCount ==
    ASSUME WindowInv, NEW n \in 0 .. MaxTab, \A u \in Tabs : u \in Born <=> u <= n
    PROVE  Cardinality({t \in Tabs : tab[t].state # "unborn"}) = n
<1>1. n \in Nat /\ MaxTab \in Nat /\ n <= MaxTab
  BY BoundsAssumption
<1>2. Born = 1 .. n
  BY <1>1 DEF Born, Tabs
<1>3. Cardinality(1 .. n) = IF 1 > n THEN 0 ELSE n - 1 + 1
  BY <1>1, FS_Interval
<1>4. Cardinality(1 .. n) = n
  BY <1>1, <1>3
<1>5. {t \in Tabs : tab[t].state # "unborn"} = 1 .. n
  BY <1>2 DEF Born
<1> QED BY <1>4, <1>5

LEMMA RestoreHiddenWindowStep == ASSUME WindowInv, RestoreHiddenWindow PROVE WindowInv'
<1>1. TabsInv /\ TabsType
  BY DEF WindowInv, TabsInv
<1>2. PICK n \in 0 .. MaxTab : \A u \in Tabs : u \in Born <=> u <= n
  BY <1>1 DEF TabsInv, NumberedTabs
<1>3. PICK olds : olds = Head(hiddenWins)
  OBVIOUS
<1>4. PICK l : l = Len(olds)
  OBVIOUS
<1>5. PICK s : s = [k \in DOMAIN olds |-> n + k]
  OBVIOUS
<1>6. PICK w \in NextWindow :
        /\ n + l <= MaxTab
        /\ win' = [win EXCEPT ![w] = [NoWindow("session") EXCEPT !.tabs = s, !.active = l]]
        /\ OpenWindow(w)
        /\ hidden' = hidden \ ToSet(olds)
        /\ tab' = [t \in Tabs |->
                    IF t > n /\ t - n \in DOMAIN olds
                    THEN [state |-> "live", session |-> tab[olds[t - n]].session]
                    ELSE tab[t]]
        /\ within' = within \union Session(ToSet(olds))
  <2>1. Cardinality({t \in Tabs : tab[t].state # "unborn"}) = n
    BY <1>2, BornCount
  <2> QED BY <1>3, <1>4, <1>5, <2>1 DEF RestoreHiddenWindow
<1>7. /\ hiddenWins # <<>> /\ hiddenWins' = Tail(hiddenWins)
      /\ UNCHANGED <<control, dialog, conn>>
  BY DEF RestoreHiddenWindow
<1>8. /\ olds \in Seq(Tabs)
      /\ ToSet(olds) \subseteq Born
      /\ hiddenWins' \in Seq(Seq(Tabs))
      /\ \A k \in DOMAIN hiddenWins' : ToSet(hiddenWins'[k]) \subseteq Born
  <2>1. hiddenWins \in Seq(Seq(Tabs)) /\ \A k \in DOMAIN hiddenWins : ToSet(hiddenWins[k]) \subseteq Born
    BY <1>1 DEF TabsInv, TabsKnown, TabsType
  <2>2. PICK m \in Nat : m = Len(hiddenWins)
    BY <2>1
  <2>3. m # 0 /\ DOMAIN hiddenWins = 1 .. m
    BY <1>7, <2>1, <2>2
  <2>4. olds = hiddenWins[1] /\ 1 \in 1 .. m
    BY <1>3, <1>7, <2>1, <2>3
  <2>5. /\ hiddenWins' \in Seq(Seq(Tabs))
        /\ \A k \in DOMAIN hiddenWins' : k + 1 \in 1 .. m /\ hiddenWins'[k] = hiddenWins[k + 1]
    BY <1>7, <2>1, <2>2, <2>3
  <2> QED BY <2>1, <2>3, <2>4, <2>5
<1>9. l \in Nat /\ DOMAIN olds = 1 .. l /\ \A k \in 1 .. l : olds[k] \in Tabs
  BY <1>4, <1>8
<1>10. n \in Nat /\ MaxTab \in Nat /\ \A u \in Tabs : u \in Nat /\ u <= MaxTab
  BY BoundsAssumption DEF Tabs
<1>11. \A k \in 1 .. l : n + k \in Tabs
  BY <1>6, <1>9, <1>10 DEF Tabs
<1>12. s \in Seq(Tabs) /\ DOMAIN s = 1 .. l /\ \A k \in 1 .. l : s[k] = n + k
  BY <1>5, <1>9, <1>11
<1>13. PICK r : r = [NoWindow("session") EXCEPT !.tabs = s, !.active = l]
  OBVIOUS
<1>14. r \in Window /\ r.kind = "session" /\ r.tabs = s /\ r.active = l
  BY <1>9, <1>12, <1>13 DEF NoWindow, Window
<1>15. w \in Windows /\ win[w].kind = "unborn"
  BY DEF NextWindow
<1>16. PICK ws, zs : ws = win /\ zs = win'
  OBVIOUS
<1>17. Sound(ws) /\ Once(ws) /\ ws \in [Windows -> Window]
  BY <1>16, TabTyped
<1>18. zs = [ws EXCEPT ![w] = r]
  BY <1>6, <1>13, <1>16
<1>19. zs \in [Windows -> Window] /\ zs[w] = r /\ \A v \in Windows : v # w => zs[v] = ws[v]
  BY <1>14, <1>15, <1>17, <1>18
<1>20. Sound(zs)
  <2>1. r.tabs # <<>> => r.active \in DOMAIN r.tabs
    BY <1>9, <1>12, <1>14
  <2> QED BY <1>14, <1>17, <1>19, <2>1 DEF Sound
<1>21. \A v \in Windows : ToSet(ws[v].tabs) \subseteq Born
  BY <1>1, <1>16 DEF TabsInv, TabsKnown
<1>22. \A v \in Windows : \A k \in DOMAIN ws[v].tabs : ws[v].tabs[k] \in Tabs /\ ws[v].tabs[k] <= n
  BY <1>2, <1>21, TabTyped DEF ToSet
<1>23. \A k \in 1 .. l : ~(n + k <= n)
  BY <1>9, <1>10
<1>24. Once(zs)
  <2> SUFFICES ASSUME NEW u \in Windows, NEW v \in Windows,
                      NEW i \in DOMAIN zs[u].tabs, NEW j \in DOMAIN zs[v].tabs,
                      zs[u].tabs[i] = zs[v].tabs[j]
               PROVE  u = v /\ i = j
    BY DEF Once
  <2>1. CASE u = w /\ v = w
    <3>1. i \in 1 .. l /\ j \in 1 .. l /\ n + i = n + j
      BY <1>12, <1>14, <1>19, <2>1
    <3> QED BY <1>9, <1>10, <2>1, <3>1
  <2>2. CASE u = w /\ v # w
    BY <1>12, <1>14, <1>19, <1>22, <1>23, <2>2
  <2>3. CASE u # w /\ v = w
    <3>1. zs[u].tabs[i] \in Tabs /\ zs[u].tabs[i] <= n
      BY <1>19, <1>22, <2>3
    <3>2. j \in 1 .. l /\ zs[v].tabs[j] = n + j
      BY <1>12, <1>14, <1>19, <2>3
    <3>3. ~(n + j <= n)
      BY <1>23, <3>2
    <3> QED BY <3>1, <3>2, <3>3
  <2>4. CASE u # w /\ v # w
    BY <1>17, <1>19, <2>4 DEF Once
  <2> QED BY <2>1, <2>2, <2>3, <2>4
<1>25. Shown(ws) \subseteq Shown(zs)
  <2>1. \A v \in Windows : ws[v].kind = "session" => zs[v] = ws[v]
    BY <1>15, <1>16, <1>19
  <2> QED BY <1>17, <1>20, <2>1, ShownGrows
<1>26. \A k \in 1 .. l : n + k \in Shown(zs)
  <2>1. \A k \in 1 .. l : n + k \in ToSet(zs[w].tabs)
    BY <1>12, <1>14, <1>19 DEF ToSet
  <2> QED BY <1>14, <1>15, <1>19, <1>20, <2>1, ShownIs
<1>27. /\ \A u \in Tabs : u <= n => tab'[u] = tab[u]
       /\ \A k \in 1 .. l : tab'[n + k].state = "live" /\ tab'[n + k].session = tab[olds[k]].session
       /\ \A u \in Tabs : u > n /\ ~(u <= n + l) => tab'[u] = tab[u]
  <2>1. \A u \in Tabs : u <= n => ~(u > n)
    BY <1>10
  <2>2. \A k \in 1 .. l : n + k > n /\ n + k - n = k
    BY <1>9, <1>10
  <2>3. \A u \in Tabs : u > n /\ ~(u <= n + l) => u - n \notin 1 .. l
    BY <1>9, <1>10
  <2> QED BY <1>6, <1>9, <1>11, <2>1, <2>2, <2>3
<1>28. tab' \in [Tabs -> [state : TabState, session : Nat]]
  BY <1>6, <1>9, TabTyped DEF TabState
<1>29. \A u \in Tabs : tab'[u].state # "unborn" <=> u <= n + l
  <2> SUFFICES ASSUME NEW u \in Tabs PROVE tab'[u].state # "unborn" <=> u <= n + l
    OBVIOUS
  <2>1. CASE u <= n
    <3>1. u <= n + l
      BY <1>9, <1>10, <2>1
    <3> QED BY <1>2, <1>27, <2>1, <3>1 DEF Born
  <2>2. CASE ~(u <= n) /\ u <= n + l
    <3>1. u - n \in 1 .. l /\ n + (u - n) = u
      BY <1>9, <1>10, <2>2
    <3>2. tab'[n + (u - n)].state = "live"
      BY <1>27, <3>1
    <3> QED BY <2>2, <3>1, <3>2
  <2>3. CASE ~(u <= n + l)
    <3>1. u > n /\ ~(u <= n)
      BY <1>9, <1>10, <2>3
    <3> QED BY <1>2, <1>27, <2>3, <3>1 DEF Born
  <2> QED BY <2>1, <2>2, <2>3
<1>30. TabsInv'
  <2>1. n + l \in 0 .. MaxTab
    BY <1>6, <1>9, <1>10
  <2>2. \A u \in Born : u \in Tabs /\ u <= n /\ tab'[u].state # "unborn"
    BY <1>2, <1>27, TabTyped DEF Born
  <2>3. \A v \in Windows, u \in Tabs : u \in ToSet(win'[v].tabs) => tab'[u].state # "unborn"
    <3> SUFFICES ASSUME NEW v \in Windows, NEW u \in Tabs, u \in ToSet(zs[v].tabs)
                 PROVE  tab'[u].state # "unborn"
      BY <1>16
    <3>1. CASE v # w
      BY <1>19, <1>21, <2>2, <3>1
    <3>2. CASE v = w
      <4>1. PICK k \in 1 .. l : u = n + k
        BY <1>12, <1>14, <1>19, <3>2 DEF ToSet
      <4> QED BY <1>27, <4>1
    <3> QED BY <3>1, <3>2
  <2>4. hidden' \subseteq hidden /\ conn' \in BOOLEAN
    BY <1>1, <1>6, <1>7 DEF TabsType
  <2>5. ASSUME NEW k \in 1 .. l
        PROVE  \E u \in Shown(win') \union hidden' : tab[olds[k]].session = tab'[u].session
    BY <1>16, <1>26, <1>27
  <2>6. ASSUME NEW u \in ToSet(olds)
        PROVE  \E v \in Shown(win') \union hidden' : tab[u].session = tab'[v].session
    <3>1. PICK k \in 1 .. l : u = olds[k]
      BY <1>9 DEF ToSet
    <3> QED BY <2>5, <3>1
  <2>7. ASSUME NEW q \in within' PROVE \E u \in Shown(win') \union hidden' : q = tab'[u].session
    <3>1. CASE q \in Session(ToSet(olds))
      BY <2>6, <3>1 DEF Session
    <3>2. CASE q \in within
      <4>1. within \subseteq Session(Shown(win) \union hidden)
        BY <1>1 DEF TabsInv, WithinShown
      <4>2. PICK u \in Shown(win) \union hidden : q = tab[u].session
        BY <3>2, <4>1 DEF Session
      <4>3. CASE u \in ToSet(olds)
        BY <2>6, <4>2, <4>3
      <4>4. CASE u \notin ToSet(olds)
        <5>1. u \in Born
          BY <1>16, <1>17, <1>21, <4>2, TabTyped, ShownIs
        <5>2. tab'[u] = tab[u]
          BY <1>27, <2>2, <5>1
        <5>3. u \in Shown(win') \union hidden'
          BY <1>6, <1>16, <1>25, <4>2, <4>4
        <5> QED BY <4>2, <5>2, <5>3
      <4> QED BY <4>3, <4>4
    <3> QED BY <1>6, <3>1, <3>2
  <2>8. \A u \in Born : tab'[u].state # "unborn"
    BY <2>2
  <2> QED BY <1>8, <1>16, <1>20, <1>24, <1>28, <1>29, <2>1, <2>3, <2>4, <2>7, <2>8, TabsBorn
<1>31. LayoutInv'
  <2>1. win'[w].kind = "session" /\ \A v \in Windows \ {w} : win'[v].kind = win[v].kind
    BY <1>14, <1>16, <1>19
  <2> QED BY <1>6, <1>7, <1>16, <1>19, <2>1, OpenedLayout DEF OpenWindow
<1>32. DialogInv'
  <2>1. \A v \in Windows : win[v].kind \in {"session", "gone"} => win'[v].kind \in {"session", "gone"}
    BY <1>15, <1>16, <1>19
  <2> QED BY <1>7, <2>1, DialogKept
<1> QED BY <1>30, <1>31, <1>32 DEF WindowInv-----------------------------------------------------------------------------
(***************************************************************************)
(* The actions that close and focus windows.                               *)
(***************************************************************************)
\* The windows ws, without the windows W.
Closed(ws, W) == [v \in Windows |-> IF v \in W THEN NoWindow("gone") ELSE ws[v]]

LeftOf(ws, W, zs) ==
    /\ Sound(zs) /\ Once(zs) /\ zs \in [Windows -> Window]
    /\ \A v \in W : zs[v].kind = "gone"
    /\ \A v \in Windows \ W : zs[v] = ws[v]
    /\ \A v \in Windows : ToSet(zs[v].tabs) \subseteq ToSet(ws[v].tabs)

LEMMA ClosedIs ==
    ASSUME NEW ws, Sound(ws), Once(ws), NEW W \in SUBSET Windows, NEW zs, zs = Closed(ws, W)
    PROVE  LeftOf(ws, W, zs)
<1>1. PICK g : g = NoWindow("gone")
  OBVIOUS
<1>2. g \in Window /\ g.kind = "gone" /\ g.tabs = <<>> /\ DOMAIN g.tabs = {} /\ ToSet(g.tabs) = {}
  BY <1>1 DEF NoWindow, Window, ToSet
<1>3. ws \in [Windows -> Window]
  BY DEF Sound
<1>4. /\ zs \in [Windows -> Window]
      /\ \A v \in W : zs[v] = g
      /\ \A v \in Windows \ W : zs[v] = ws[v]
  BY <1>1, <1>2, <1>3 DEF Closed
<1>5. \A v \in Windows : zs[v] = g \/ zs[v] = ws[v]
  BY <1>4
<1>6. Sound(zs)
  BY <1>2, <1>4, <1>5 DEF Sound
<1>7. Once(zs)
  BY <1>2, <1>5 DEF Once
<1>8. \A v \in Windows : ToSet(zs[v].tabs) \subseteq ToSet(ws[v].tabs)
  BY <1>2, <1>5
<1> QED BY <1>2, <1>4, <1>6, <1>7, <1>8 DEF LeftOf

LEMMA ControlClosedStep == ASSUME WindowInv, NEW w \in Windows, ControlClosed(w) PROVE WindowInv'
<1>1. /\ win[w].kind = "control"
      /\ win' = [win EXCEPT ![w] = NoWindow("gone")]
      /\ order' = Unlisted({w})
      /\ UNCHANGED <<focus, control, tab, dialog, events, within, hidden, hiddenWins, conn>>
  BY DEF ControlClosed, Rest
<1>2. PICK ws, zs : ws = win /\ zs = win'
  OBVIOUS
<1>3. Sound(ws) /\ Once(ws) /\ ws \in [Windows -> Window]
  BY <1>2, TabTyped
<1>4. zs = Closed(ws, {w})
  BY <1>1, <1>2, <1>3 DEF Closed
<1>5. /\ Sound(zs) /\ Once(zs) /\ zs \in [Windows -> Window]
      /\ zs[w].kind = "gone"
      /\ \A v \in Windows \ {w} : zs[v] = ws[v]
      /\ \A v \in Windows : ToSet(zs[v].tabs) \subseteq ToSet(ws[v].tabs)
  BY <1>3, <1>4, ClosedIs DEF LeftOf
<1>6. Shown(ws) \subseteq Shown(zs)
  <2>1. \A v \in Windows : ws[v].kind = "session" => zs[v] = ws[v]
    BY <1>1, <1>2, <1>5
  <2> QED BY <1>3, <1>5, <2>1, ShownGrows
<1>7. TabsInv
  BY DEF WindowInv
<1>8. TabsInv'
  <2>1. within' \subseteq Session(Shown(win') \union hidden')
    <3>1. within \subseteq Session(Shown(win) \union hidden)
      BY <1>7 DEF TabsInv, WithinShown
    <3> QED BY <1>1, <1>2, <1>6, <3>1 DEF Session
  <2>2. \A t \in Tabs : /\ tab'[t].session = tab[t].session
                        /\ tab'[t].state = "unborn" <=> tab[t].state = "unborn"
    BY <1>1
  <2>3. /\ hidden' \subseteq Born /\ hiddenWins' \in Seq(Seq(Tabs)) /\ conn' \in BOOLEAN
        /\ \A k \in DOMAIN hiddenWins' : ToSet(hiddenWins'[k]) \subseteq Born
        /\ tab' \in [Tabs -> [state : TabState, session : Nat]]
    BY <1>1, <1>7 DEF TabsInv, TabsKnown, TabsType
  <2> QED BY <1>2, <1>5, <2>1, <2>2, <2>3, TabsKept
<1>9. LayoutInv'
  <2>1. w = control
    BY <1>1 DEF WindowInv, LayoutInv, Open
  <2>2. focus' = focus /\ (focus \in {w} => focus = control)
    BY <1>1, <2>1
  <2>3. \A v \in Windows \ {w} : win'[v].kind = win[v].kind
    BY <1>2, <1>5
  <2>4. \A v \in {w} : win'[v].kind = "gone"
    BY <1>2, <1>5
  <2>5. events \ {w} \subseteq events' /\ events' \subseteq events \union {w}
    BY <1>1
  <2> QED BY <1>1, <1>2, <1>5, <2>2, <2>3, <2>4, <2>5, ClosedLayout
<1>10. DialogInv'
  <2>1. \A v \in Windows : win[v].kind \in {"session", "gone"} => win'[v].kind \in {"session", "gone"}
    BY <1>1, <1>2, <1>5
  <2> QED BY <1>1, <2>1, DialogKept
<1> QED BY <1>8, <1>9, <1>10 DEF WindowInv

LEMMA SessionWindowClosedStep ==
    ASSUME WindowInv, NEW w \in Windows, SessionWindowClosed(w) PROVE WindowInv'
<1>1. PICK tabs, kept : tabs = win[w].tabs /\ kept = Among(tabs, Tabs \ In("dead"))
  OBVIOUS
<1>2. /\ win[w].kind = "session"
      /\ hidden' = hidden \union ToSet(kept)
      /\ hiddenWins' = IF kept = <<>> THEN hiddenWins ELSE Append(hiddenWins, kept)
      /\ within' = within \ Session(ToSet(tabs) \intersect In("dead"))
      /\ win' = [win EXCEPT ![w] = NoWindow("gone")]
      /\ order' = Unlisted({w})
      /\ Refocus({w})
      /\ Leave(ToSet(tabs))
      /\ UNCHANGED <<control, dialog, events, conn>>
  BY <1>1 DEF SessionWindowClosed
<1>3. PICK ws, zs : ws = win /\ zs = win'
  OBVIOUS
<1>4. Sound(ws) /\ Once(ws) /\ ws \in [Windows -> Window]
  BY <1>3, TabTyped
<1>5. zs = Closed(ws, {w})
  BY <1>2, <1>3, <1>4 DEF Closed
<1>6. /\ Sound(zs) /\ Once(zs) /\ zs \in [Windows -> Window]
      /\ zs[w].kind = "gone"
      /\ \A v \in Windows \ {w} : zs[v] = ws[v]
      /\ \A v \in Windows : ToSet(zs[v].tabs) \subseteq ToSet(ws[v].tabs)
  BY <1>4, <1>5, ClosedIs DEF LeftOf
<1>7. TabsInv /\ TabsType
  BY DEF WindowInv, TabsInv
<1>8. tabs \in Seq(Tabs) /\ ToSet(tabs) \subseteq Born
  BY <1>1, <1>3, <1>4, <1>7 DEF Window, TabsInv, TabsKnown
<1>9. kept \in Seq(Tabs) /\ ToSet(kept) = ToSet(tabs) \intersect (Tabs \ In("dead"))
  BY <1>1, <1>8, AmongIs
<1>10. /\ tab' \in [Tabs -> [state : TabState, session : Nat]]
       /\ \A t \in Tabs : /\ tab'[t].session = tab[t].session
                          /\ tab'[t].state = "unborn" <=> tab[t].state = "unborn"
  BY <1>2, <1>8, TabTyped DEF Leave, Born, TabState
<1>11. hiddenWins' \in Seq(Seq(Tabs)) /\ \A k \in DOMAIN hiddenWins' : ToSet(hiddenWins'[k]) \subseteq Born
  <2>1. hiddenWins \in Seq(Seq(Tabs)) /\ \A k \in DOMAIN hiddenWins : ToSet(hiddenWins[k]) \subseteq Born
    BY <1>7 DEF TabsInv, TabsKnown, TabsType
  <2>2. CASE kept = <<>>
    BY <1>2, <2>1, <2>2
  <2>3. CASE kept # <<>>
    <3>1. PICK more : more = Append(hiddenWins, kept)
      OBVIOUS
    <3>2. PICK m \in Nat : m = Len(hiddenWins)
      BY <2>1
    <3>3. /\ more \in Seq(Seq(Tabs)) /\ Len(more) = m + 1 /\ more[m + 1] = kept
          /\ \A k \in 1 .. m : more[k] = hiddenWins[k]
      BY <1>9, <2>1, <3>1, <3>2, AppendIs
    <3>4. DOMAIN more = 1 .. m + 1 /\ DOMAIN hiddenWins = 1 .. m
      BY <2>1, <3>2, <3>3
    <3>5. \A k \in 1 .. m + 1 : k \in 1 .. m \/ k = m + 1
      OBVIOUS
    <3>6. ToSet(kept) \subseteq Born
      BY <1>8, <1>9
    <3>7. \A k \in DOMAIN more : ToSet(more[k]) \subseteq Born
      BY <2>1, <3>3, <3>4, <3>5, <3>6
    <3> QED BY <1>2, <2>3, <3>1, <3>3, <3>7
  <2> QED BY <2>2, <2>3
<1>12. within' \subseteq Session(Shown(win') \union hidden')
  <2>1. within \subseteq Session(Shown(win) \union hidden)
    BY <1>7 DEF TabsInv, WithinShown
  <2>2. Shown(ws) \subseteq Shown(zs) \union ToSet(tabs)
    <3> SUFFICES ASSUME NEW u \in Shown(ws), u \notin ToSet(tabs) PROVE u \in Shown(zs)
      OBVIOUS
    <3>1. PICK v \in Windows : ws[v].kind = "session" /\ u \in ToSet(ws[v].tabs)
      BY <1>4, ShownIs
    <3>2. v # w
      BY <1>1, <1>3, <3>1
    <3>3. zs[v] = ws[v]
      BY <1>6, <3>2
    <3> QED BY <1>6, <3>1, <3>3, ShownIs
  <2>3. ToSet(tabs) \subseteq hidden' \union (ToSet(tabs) \intersect In("dead"))
    BY <1>2, <1>8, <1>9, TabTyped
  <2>4. Shown(win) \union hidden \subseteq
            (Shown(win') \union hidden') \union (ToSet(tabs) \intersect In("dead"))
    BY <1>2, <1>3, <2>2, <2>3
  <2> QED BY <1>2, <2>1, <2>4 DEF Session
<1>13. TabsInv'
  <2>1. hidden' \subseteq Born /\ conn' \in BOOLEAN
    BY <1>2, <1>7, <1>8, <1>9, TabTyped DEF TabsType
  <2> QED BY <1>3, <1>6, <1>10, <1>11, <1>12, <2>1, TabsKept
<1>14. LayoutInv'
  <2>1. \A v \in Windows \ {w} : win'[v].kind = win[v].kind
    BY <1>3, <1>6
  <2>2. \A v \in {w} : win'[v].kind = "gone"
    BY <1>3, <1>6
  <2>3. events \ {w} \subseteq events' /\ events' \subseteq events \union {w}
    BY <1>2
  <2>4. win' \in [Windows -> Window]
    BY <1>3, <1>6
  <2>5. order' = Unlisted({w}) /\ control' = control /\ Refocus({w})
    BY <1>2
  <2> QED BY <2>1, <2>2, <2>3, <2>4, <2>5, ClosedLayout
<1>15. DialogInv'
  <2>1. \A v \in Windows : win[v].kind \in {"session", "gone"} => win'[v].kind \in {"session", "gone"}
    BY <1>3, <1>6
  <2> QED BY <1>2, <2>1, DialogKept
<1> QED BY <1>13, <1>14, <1>15 DEF WindowInv

\* Only the layout changes.
LEMMA SameTabs ==
    ASSUME WindowInv, UNCHANGED <<win, tab, hidden, hiddenWins, conn, within>>
    PROVE  TabsInv'
BY DEF WindowInv, TabsInv, Sound, Once, TabsType, NumberedTabs, Born, TabsKnown,
       WithinShown, Shown, Open, Session

LEMMA ClosedReportedStep == ASSUME WindowInv, NEW w \in Windows, ClosedReported(w) PROVE WindowInv'
<1>1. /\ w \in events /\ events' = events \ {w}
      /\ order' = Unlisted({w}) /\ Refocus({w})
      /\ UNCHANGED <<win, control, tab, dialog, within, hidden, hiddenWins, conn>>
  BY DEF ClosedReported, Rest
<1>2. win[w].kind = "gone" /\ win \in [Windows -> Window]
  BY <1>1, TabTyped DEF WindowInv, LayoutInv
<1>3. LayoutInv'
  <2>1. events \ {w} \subseteq events' /\ events' \subseteq events \union {w}
    BY <1>1
  <2>2. win' \in [Windows -> Window] /\ \A v \in Windows \ {w} : win'[v].kind = win[v].kind
    BY <1>1, <1>2
  <2>3. \A v \in {w} : win'[v].kind = "gone"
    BY <1>1, <1>2
  <2> QED BY <1>1, <2>1, <2>2, <2>3, ClosedLayout
<1>4. DialogInv'
  BY <1>1, DialogKept
<1> QED BY <1>1, <1>3, <1>4, SameTabs DEF WindowInv

LEMMA WindowFocusedStep == ASSUME WindowInv, NEW w \in Windows, WindowFocused(w) PROVE WindowInv'
<1>1. /\ Exists(w) \/ w \in events
      /\ focus' = w
      /\ UNCHANGED <<win, order, control, tab, dialog, events, within, hidden, hiddenWins, conn>>
  BY DEF WindowFocused, Rest
<1>2. LayoutInv'
  BY <1>1 DEF WindowInv, LayoutInv, Open, Exists, FocusRecovers
<1>3. DialogInv'
  BY <1>1, DialogKept
<1> QED BY <1>1, <1>2, <1>3, SameTabs DEF WindowInv

LEMMA ShowControlWindowStep == ASSUME WindowInv, ShowControlWindow PROVE WindowInv'
<1>1. UNCHANGED <<tab, dialog, events, within, hidden, hiddenWins, conn>>
  BY DEF ShowControlWindow, Rest
<1>2. CASE Exists(control)
  <2>1. focus' = control /\ UNCHANGED <<win, order, control>>
    BY <1>2 DEF ShowControlWindow
  <2>2. LayoutInv'
    BY <1>1, <1>2, <2>1 DEF WindowInv, LayoutInv, Open, Exists, FocusRecovers
  <2>3. DialogInv'
    BY <1>1, <2>1, DialogKept
  <2> QED BY <1>1, <2>1, <2>2, <2>3, SameTabs DEF WindowInv
<1>3. CASE ~Exists(control)
  <2>1. PICK w \in NextWindow :
          /\ win' = [win EXCEPT ![w] = NoWindow("control")]
          /\ order' = Append(order, w)
          /\ control' = w /\ focus' = w
    BY <1>3 DEF ShowControlWindow
  <2>2. PICK ws, zs, r : ws = win /\ zs = win' /\ r = NoWindow("control")
    OBVIOUS
  <2>3. w \in Windows /\ ws[w].kind = "unborn" /\ Sound(ws) /\ Once(ws) /\ ws \in [Windows -> Window]
    BY <2>2, TabTyped DEF NextWindow
  <2>4. r \in Window /\ r.kind = "control" /\ r.tabs = <<>>
    BY <2>2 DEF NoWindow, Window
  <2>5. zs \in [Windows -> Window] /\ zs[w] = r /\ \A v \in Windows : v # w => zs[v] = ws[v]
    BY <2>1, <2>2, <2>3, <2>4
  <2>6. ws[w].tabs = <<>>
    BY <2>3 DEF Sound
  <2>7. \A v \in Windows : zs[v].tabs = ws[v].tabs
    BY <2>4, <2>5, <2>6
  <2>8. Sound(zs)
    BY <2>3, <2>4, <2>5 DEF Sound
  <2>9. Once(zs)
    BY <2>3, <2>7 DEF Once
  <2>10. Shown(ws) \subseteq Shown(zs)
    <3>1. \A v \in Windows : ws[v].kind = "session" => zs[v] = ws[v]
      BY <2>3, <2>5
    <3> QED BY <2>3, <2>8, <3>1, ShownGrows
  <2>11. TabsInv
    BY DEF WindowInv
  <2>12. TabsInv'
    <3>1. within' \subseteq Session(Shown(win') \union hidden')
      <4>1. within \subseteq Session(Shown(win) \union hidden)
        BY <2>11 DEF TabsInv, WithinShown
      <4> QED BY <1>1, <2>2, <2>10, <4>1 DEF Session
    <3>2. \A t \in Tabs : /\ tab'[t].session = tab[t].session
                          /\ tab'[t].state = "unborn" <=> tab[t].state = "unborn"
      BY <1>1
    <3>3. /\ hidden' \subseteq Born /\ hiddenWins' \in Seq(Seq(Tabs)) /\ conn' \in BOOLEAN
          /\ \A k \in DOMAIN hiddenWins' : ToSet(hiddenWins'[k]) \subseteq Born
          /\ tab' \in [Tabs -> [state : TabState, session : Nat]]
      BY <1>1, <2>11 DEF TabsInv, TabsKnown, TabsType
    <3>4. \A v \in Windows : ToSet(win'[v].tabs) \subseteq ToSet(win[v].tabs)
      BY <2>2, <2>7
    <3> QED BY <2>2, <2>8, <2>9, <3>1, <3>2, <3>3, <3>4, TabsKept
  <2>13. LayoutInv'
    <3>1. win'[w].kind = "control" /\ win' \in [Windows -> Window]
      BY <2>2, <2>4, <2>5
    <3>2. \A v \in Windows \ {w} : win'[v].kind = win[v].kind
      BY <2>2, <2>5
    <3> QED BY <1>1, <1>3, <2>1, <3>1, <3>2, OpenedLayout
  <2>14. DialogInv'
    <3>1. \A v \in Windows : win[v].kind \in {"session", "gone"} => win'[v].kind \in {"session", "gone"}
      BY <2>2, <2>3, <2>5
    <3> QED BY <1>1, <3>1, DialogKept
  <2> QED BY <2>12, <2>13, <2>14 DEF WindowInv
<1> QED BY <1>2, <1>3

LEMMA DisconnectServerStep == ASSUME WindowInv, DisconnectServer PROVE WindowInv'
<1>1. PICK ws, zs, W : ws = win /\ zs = win' /\ W = Sessions
  OBVIOUS
<1>2. /\ conn' = FALSE /\ hidden' = hidden \union Shown(win)
      /\ SetWindows([w \in Windows |-> IF w \in W THEN NoWindow("gone") ELSE win[w]])
      /\ order' = Unlisted(W) /\ Refocus(W)
      /\ UNCHANGED <<control, hiddenWins, dialog, within>>
  BY <1>1 DEF DisconnectServer
<1>3. /\ zs = Closed(ws, W) /\ events' = events \union Gone(zs)
      /\ Leave(Shown(ws) \ Shown(zs))
  BY <1>1, <1>2 DEF SetWindows, Closed
<1>4. /\ Sound(ws) /\ Once(ws) /\ ws \in [Windows -> Window]
      /\ W \in SUBSET Windows /\ \A v \in W : ws[v].kind = "session"
  BY <1>1, TabTyped DEF Sessions, Open
<1>5. /\ Sound(zs) /\ Once(zs) /\ zs \in [Windows -> Window]
      /\ \A v \in W : zs[v].kind = "gone"
      /\ \A v \in Windows \ W : zs[v] = ws[v]
      /\ \A v \in Windows : ToSet(zs[v].tabs) \subseteq ToSet(ws[v].tabs)
  <2>1. zs = Closed(ws, W) /\ Sound(ws) /\ Once(ws) /\ W \in SUBSET Windows
    BY <1>3, <1>4
  <2>2. LeftOf(ws, W, zs)
    BY <2>1, ClosedIs, Zenon
  <2> QED BY <2>2 DEF LeftOf
<1>6. TabsInv
  BY DEF WindowInv
<1>7. Shown(ws) \subseteq Born
  BY <1>1, <1>4, <1>6, ShownIs DEF TabsInv, TabsKnown
<1>8. /\ tab' \in [Tabs -> [state : TabState, session : Nat]]
      /\ \A t \in Tabs : /\ tab'[t].session = tab[t].session
                         /\ tab'[t].state = "unborn" <=> tab[t].state = "unborn"
  BY <1>3, <1>7, TabTyped DEF Leave, Born, TabState
<1>9. TabsInv'
  <2>1. within' \subseteq Session(Shown(win') \union hidden')
    <3>1. within \subseteq Session(Shown(win) \union hidden)
      BY <1>6 DEF TabsInv, WithinShown
    <3> QED BY <1>2, <3>1 DEF Session
  <2>2. /\ hidden' \subseteq Born /\ hiddenWins' \in Seq(Seq(Tabs)) /\ conn' \in BOOLEAN
        /\ \A k \in DOMAIN hiddenWins' : ToSet(hiddenWins'[k]) \subseteq Born
    BY <1>1, <1>2, <1>6, <1>7 DEF TabsInv, TabsKnown, TabsType
  <2> QED BY <1>1, <1>5, <1>8, <2>1, <2>2, TabsKept
<1>10. LayoutInv'
  <2>1. \A v \in Windows \ W : win'[v].kind = win[v].kind
    BY <1>1, <1>5
  <2>2. \A v \in W : win'[v].kind = "gone"
    BY <1>1, <1>5
  <2>3. Gone(zs) \subseteq W
    BY <1>1, <1>5 DEF Gone, Exists
  <2>4. events \ W \subseteq events' /\ events' \subseteq events \union W
    BY <1>3, <2>3
  <2> QED BY <1>1, <1>2, <1>4, <1>5, <2>1, <2>2, <2>4, ClosedLayout
<1>11. DialogInv'
  <2>1. \A v \in Windows : win[v].kind \in {"session", "gone"} => win'[v].kind \in {"session", "gone"}
    BY <1>1, <1>5
  <2> QED BY <1>2, <2>1, DialogKept
<1> QED BY <1>9, <1>10, <1>11 DEF WindowInv-----------------------------------------------------------------------------
(***************************************************************************)
(* The invariant, and the theorems.                                        *)
(***************************************************************************)
LEMMA WindowInit == Init => WindowInv
<1> SUFFICES ASSUME Init PROVE WindowInv
  OBVIOUS
<1>1. /\ win = [w \in Windows |-> NoWindow(IF w = 1 THEN "control" ELSE "unborn")]
      /\ order = <<1>> /\ focus = 1 /\ control = 1
      /\ tab = [t \in Tabs |-> Unopened]
      /\ hidden = {} /\ hiddenWins = <<>> /\ dialog = NoDialog
      /\ events = {} /\ conn = FALSE /\ within = {}
  BY DEF Init
<1>2. 1 \in Windows
  BY BoundsAssumption DEF Windows
<1>3. \A w \in Windows : /\ win[w].tabs = <<>> /\ win[w].active = 1
                         /\ win[w].kind = IF w = 1 THEN "control" ELSE "unborn"
                         /\ win[w] \in Window
  BY <1>1 DEF NoWindow, Window
<1>4. Sound(win)
  BY <1>1, <1>3 DEF Sound
<1>5. Once(win)
  BY <1>3 DEF Once
<1>6. \A t \in Tabs : tab[t].state = "unborn" /\ tab[t].session = 0
  BY <1>1 DEF Unopened
<1>7. TabsType
  <2>1. tab \in [Tabs -> [state : TabState, session : Nat]]
    BY <1>1 DEF Unopened, TabState
  <2>2. PICK h : h = hiddenWins
    OBVIOUS
  <2>3. h \in Seq(Seq(Tabs))
    BY <1>1, <2>2
  <2> QED BY <1>1, <2>1, <2>2, <2>3 DEF TabsType
<1>8. Born = {}
  BY <1>6 DEF Born
<1>9. NumberedTabs
  <2>1. 0 \in 0 .. MaxTab /\ \A t \in Tabs : ~(t <= 0)
    BY BoundsAssumption DEF Tabs
  <2> QED BY <1>8, <2>1 DEF NumberedTabs
<1>10. TabsKnown
  <2>1. \A w \in Windows : ToSet(win[w].tabs) = {}
    BY <1>3 DEF ToSet
  <2> QED BY <1>1, <1>8, <2>1 DEF TabsKnown
<1>11. WithinShown
  BY <1>1 DEF WithinShown
<1>12. LayoutInv
  <2>1. PICK o : o = order
    OBVIOUS
  <2>2. o \in Seq(Windows) /\ DOMAIN o = {1} /\ o[1] = 1
    BY <1>1, <1>2, <2>1
  <2>3. IsInjective(o) /\ ToSet(o) = {1}
    BY <2>2 DEF IsInjective, ToSet
  <2>4. Open(win, "control") = {1} /\ Open(win, "session") = {} /\ Exists(1)
    BY <1>2, <1>3 DEF Open, Exists
  <2>5. FocusRecovers
    BY <1>1, <2>4 DEF FocusRecovers
  <2> QED BY <1>1, <1>2, <1>3, <2>1, <2>2, <2>3, <2>4, <2>5 DEF LayoutInv
<1>13. DialogInv
  <2>1. NoDialog \in [window : Windows \union {0}, indices : Seq(Nat \ {0}), seen : Seq(Tabs)]
    BY DEF NoDialog
  <2> QED BY <1>1, <2>1 DEF DialogInv
<1> QED BY <1>4, <1>5, <1>7, <1>9, <1>10, <1>11, <1>12, <1>13 DEF WindowInv, TabsInv

LEMMA WindowStutters == WindowInv /\ UNCHANGED vars => WindowInv'
<1> SUFFICES ASSUME WindowInv, UNCHANGED vars PROVE WindowInv'
  OBVIOUS
<1>1. UNCHANGED <<win, order, focus, control, tab, hidden, hiddenWins, dialog, events, conn, within>>
  BY DEF vars
<1>2. TabsInv'
  BY <1>1, SameTabs
<1>3. LayoutInv'
  BY <1>1 DEF WindowInv, LayoutInv, Open, Exists, FocusRecovers
<1>4. DialogInv'
  BY <1>1, DialogKept
<1> QED BY <1>2, <1>3, <1>4 DEF WindowInv

LEMMA WindowNext == WindowInv /\ [Next]_vars => WindowInv'
<1> SUFFICES ASSUME WindowInv, [Next]_vars PROVE WindowInv'
  OBVIOUS
<1>1. ASSUME NEW i \in Tabs, CloseTab(i) PROVE WindowInv'
  BY <1>1, CloseTabStep
<1>2. ASSUME NEW i \in Tabs, CloseOtherTabs(i) PROVE WindowInv'
  BY <1>2, CloseOtherTabsStep
<1>3. ASSUME NEW i \in Tabs, CloseTabsToRight(i) PROVE WindowInv'
  BY <1>3, CloseTabsToRightStep
<1>4. ASSUME NEW i \in Tabs, HideTab(i) PROVE WindowInv'
  BY <1>4, HideTabStep
<1>5. ASSUME NEW i \in Tabs, SelectTab(i) PROVE WindowInv'
  BY <1>5, SelectTabStep
<1>6. ASSUME NEW i \in Tabs, StartRename(i) PROVE WindowInv'
  BY <1>6, StartRenameStep
<1>7. ASSUME NEW i \in Tabs, CreateNewSession(i) PROVE WindowInv'
  BY <1>7, CreateNewSessionStep
<1>8. ASSUME NEW i \in Tabs, TabMove(i, i + 1) PROVE WindowInv'
  BY <1>8, TabMoveStep
<1>9. ASSUME NEW i \in Tabs, TabMove(i + 1, i) PROVE WindowInv'
  BY <1>9, TabMoveStep
<1>10. ASSUME NEW t \in Tabs, SessionExited(t) PROVE WindowInv'
  BY <1>10, SessionExitedStep
<1>11. ASSUME NEW t \in Tabs, RestoreHiddenSession(t) PROVE WindowInv'
  BY <1>11, RestoreHiddenSessionStep
<1>12. ASSUME NEW t \in Tabs, NEW state \in {"live", "waiting", "dead"}, ConnectionChanges(t, state)
       PROVE  WindowInv'
  BY <1>12, ConnectionChangesStep
<1>13. ASSUME NEW step \in {"next", "previous"}, CycleTab(step) PROVE WindowInv'
  BY <1>13, CycleTabStep
<1>14. ASSUME NEW w \in Windows, ControlClosed(w) PROVE WindowInv'
  BY <1>14, ControlClosedStep
<1>15. ASSUME NEW w \in Windows, SessionWindowClosed(w) PROVE WindowInv'
  BY <1>15, SessionWindowClosedStep
<1>16. ASSUME NEW w \in Windows, ClosedReported(w) PROVE WindowInv'
  BY <1>16, ClosedReportedStep
<1>17. ASSUME NEW w \in Windows, WindowFocused(w) PROVE WindowInv'
  BY <1>17, WindowFocusedStep
<1>18. CASE ConfirmCloseTabs
  BY <1>18, ConfirmCloseTabsStep
<1>19. CASE CancelCloseTabs
  BY <1>19, CancelCloseTabsStep
<1>20. CASE NewTab
  BY <1>20, NewTabStep
<1>21. CASE NewWindow
  BY <1>21, NewWindowStep
<1>22. CASE RemoteTab
  BY <1>22, RemoteTabStep
<1>23. CASE RestoreHiddenWindow
  BY <1>23, RestoreHiddenWindowStep
<1>24. CASE ServerConnected
  BY <1>24, ServerConnectedStep
<1>25. CASE DisconnectServer
  BY <1>25, DisconnectServerStep
<1>26. CASE ConfirmCloseServer
  BY <1>26, ConfirmCloseServerStep
<1>27. CASE ShowControlWindow
  BY <1>27, ShowControlWindowStep
<1>28. CASE UNCHANGED vars
  BY <1>28, WindowStutters
<1> QED BY <1>1, <1>2, <1>3, <1>4, <1>5, <1>6, <1>7, <1>8, <1>9, <1>10, <1>11, <1>12, <1>13,
           <1>14, <1>15, <1>16, <1>17, <1>18, <1>19, <1>20, <1>21, <1>22, <1>23, <1>24,
           <1>25, <1>26, <1>27, <1>28 DEF Next

\* Windows, their tabs and the dialog have their types, the selection is a tab of
\* the window, and every open window is in window_order, from which the layout is
\* saved, whatever handlers of update.rs run in whatever order.
THEOREM TypeCorrect == Spec => []TypeOK
<1>1. Init => WindowInv
  BY WindowInit
<1>2. WindowInv /\ [Next]_vars => WindowInv'
  BY WindowNext
<1>3. WindowInv => TypeOK
  BY InvTypes
<1> QED BY <1>1, <1>2, <1>3, PTL DEF Spec

\* A session that a window showed and whose user did not let go of it since is in
\* a window, or in hidden_sessions, or RestoreHiddenSession was asked for it and did
\* not find it in the cached state; no other handler of update.rs loses one.
THEOREM SessionsStayInReach == Spec => []SessionsWithinReach
<1>1. Init => WindowInv
  BY WindowInit
<1>2. WindowInv /\ [Next]_vars => WindowInv'
  BY WindowNext
<1>3. WindowInv => SessionsWithinReach
  BY DEF WindowInv, TabsInv, WithinShown, Owned, SessionsWithinReach
<1> QED BY <1>1, <1>2, <1>3, PTL DEF Spec

\* What focused_window names is open, or its closing is still to be reported, or
\* it is the control window.
THEOREM FocusIsRecovered == Spec => []FocusRecovers
<1>1. Init => WindowInv
  BY WindowInit
<1>2. WindowInv /\ [Next]_vars => WindowInv'
  BY WindowNext
<1>3. WindowInv => FocusRecovers
  BY DEF WindowInv, LayoutInv
<1> QED BY <1>1, <1>2, <1>3, PTL DEF Spec

\* ConfirmCloseTabs closes the tabs of pending_close_tabs, from the last to the
\* first, and none other: the first removals do not shift the later ones.
LEMMA ChosenStep ==
    ASSUME WindowInv, dialog # NoDialog, ConfirmCloseTabs,
           win[dialog.window].tabs = dialog.seen
    PROVE  Shown(win') = Shown(win) \ {dialog.seen[i] : i \in ToSet(dialog.indices)}
<1>1. PICK ws, zs, w, s, seen :
        ws = win /\ zs = win' /\ w = dialog.window /\ s = dialog.indices /\ seen = dialog.seen
  OBVIOUS
<1>2. Sound(ws) /\ Once(ws)
  BY <1>1, TabTyped
<1>3. DialogInv
  BY DEF WindowInv
<1>4. /\ w \in Windows /\ ws[w].tabs = seen /\ seen # <<>>
      /\ ws[w].kind \in {"session", "gone"}
      /\ s \in Seq(Nat \ {0}) /\ Ascending(s)
      /\ \A k \in DOMAIN s : s[k] \in DOMAIN ws[w].tabs
  BY <1>1, <1>3 DEF DialogInv
<1>5. ws[w].kind = "session"
  BY <1>2, <1>4 DEF Sound
<1>6. zs = CloseTabsIn(ws, w, s)
  BY <1>1 DEF ConfirmCloseTabs, SetWindows
<1>7. PICK C : C = {seen[s[k]] : k \in DOMAIN s}
  OBVIOUS
<1>8. /\ Less(ws, zs)
      /\ \A v \in Windows : v # w => zs[v] = ws[v]
      /\ ToSet(zs[w].tabs) = ToSet(seen) \ C
  <2>1. /\ Less(ws, zs)
        /\ \A v \in Windows : v # w => zs[v] = ws[v]
        /\ ToSet(zs[w].tabs) = ToSet(ws[w].tabs) \ {ws[w].tabs[s[k]] : k \in DOMAIN s}
    <3>1. Ascending(s) /\ \A k \in DOMAIN s : s[k] \in DOMAIN ws[w].tabs
      BY <1>4
    <3>2. w \in Windows /\ s \in Seq(Nat \ {0})
      BY <1>4
    <3>3. LessTheTabs(ws, w, s, zs)
      BY <1>2, <1>6, <3>1, <3>2, CloseTabsChosen, Zenon
    <3> QED BY <3>3 DEF LessTheTabs
  <2> QED BY <1>4, <1>7, <2>1
<1>9. Sound(zs)
  BY <1>8 DEF Less
<1>10. \A t \in C : t \in ToSet(ws[w].tabs)
  BY <1>4, <1>7 DEF ToSet
<1>11. \A v \in Windows, t \in C : t \in ToSet(ws[v].tabs) => v = w
  BY <1>2, <1>4, <1>10 DEF Once, ToSet
<1>12. ASSUME NEW t \in Shown(zs) PROVE t \in Shown(ws) /\ t \notin C
  <2>1. PICK v \in Windows : zs[v].kind = "session" /\ t \in ToSet(zs[v].tabs)
    BY <1>9, ShownIs
  <2>2. ws[v].kind = "session" /\ t \in ToSet(ws[v].tabs)
    BY <1>8, <2>1 DEF Less, KindStep
  <2>3. t \notin C
    BY <1>8, <1>11, <2>1, <2>2
  <2> QED BY <1>2, <2>2, <2>3, ShownIs
<1>13. ASSUME NEW t \in Shown(ws), t \notin C PROVE t \in Shown(zs)
  <2>1. PICK v \in Windows : ws[v].kind = "session" /\ t \in ToSet(ws[v].tabs)
    BY <1>2, ShownIs
  <2>2. t \in ToSet(zs[v].tabs)
    BY <1>4, <1>8, <1>13, <2>1
  <2>3. zs[v].tabs # <<>>
    BY <2>2 DEF ToSet
  <2>4. zs[v].kind = "session"
    BY <1>8, <1>9, <2>1, <2>3 DEF Less, KindStep, Sound
  <2> QED BY <1>9, <2>2, <2>4, ShownIs
<1>14. Shown(zs) = Shown(ws) \ C
  BY <1>12, <1>13
<1>15. C = {seen[i] : i \in ToSet(s)}
  BY <1>7 DEF ToSet
<1> QED BY <1>1, <1>14, <1>15

\* Confirming the dialog closes the tabs it was opened for, and no others, as
\* long as the tabs of its window are as they were.
THEOREM ChosenTabsOnly == Spec => ChosenTabsClose
<1>1. Init => WindowInv
  BY WindowInit
<1>2. WindowInv /\ [Next]_vars => WindowInv'
  BY WindowNext
<1>3. WindowInv => [dialog # NoDialog /\ ConfirmCloseTabs /\ win[dialog.window].tabs = dialog.seen
        => Shown(win') = Shown(win) \ {dialog.seen[i] : i \in ToSet(dialog.indices)}]_vars
  BY ChosenStep
<1> QED BY <1>1, <1>2, <1>3, PTL DEF Spec, ChosenTabsClose-----------------------------------------------------------------------------
(***************************************************************************)
(* The tab in front: only moving tabs keeps the tabs and not their order.  *)
(***************************************************************************)
\* A window has the tabs it had, in their order, or other ones.
SameOrOther(ws, zs) ==
    \A v \in Windows : zs[v].tabs = ws[v].tabs \/ ToSet(zs[v].tabs) # ToSet(ws[v].tabs)

FrontHolds(ws, zs) ==
    \A v \in Windows :
        zs[v].tabs # ws[v].tabs /\ ToSet(zs[v].tabs) = ToSet(ws[v].tabs)
            => TabInFront(zs[v]) = TabInFront(ws[v])

LEMMA OtherHolds == ASSUME NEW ws, NEW zs, SameOrOther(ws, zs) PROVE FrontHolds(ws, zs)
BY DEF SameOrOther, FrontHolds

LEMMA SameHolds ==
    ASSUME NEW ws, NEW zs, \A v \in Windows : zs[v].tabs = ws[v].tabs PROVE FrontHolds(ws, zs)
BY DEF FrontHolds

\* Windows that had no tab, or have none, or the same.
LEMMA EmptyHolds ==
    ASSUME NEW ws, NEW zs, Sound(ws), Sound(zs),
           \A v \in Windows : \/ zs[v].tabs = ws[v].tabs
                              \/ zs[v].tabs = <<>> \/ ws[v].tabs = <<>>
    PROVE  FrontHolds(ws, zs)
<1>1. ASSUME NEW s \in Seq(Tabs), s # <<>> PROVE ToSet(s) # {}
  <2>1. 1 \in DOMAIN s
    BY <1>1
  <2> QED BY <2>1 DEF ToSet
<1>2. PICK none : none = <<>>
  OBVIOUS
<1>3. ToSet(none) = {}
  BY <1>2 DEF ToSet
<1>4. \A v \in Windows : ws[v].tabs \in Seq(Tabs) /\ zs[v].tabs \in Seq(Tabs)
  BY DEF Sound, Window
<1>5. SameOrOther(ws, zs)
  BY <1>1, <1>2, <1>3, <1>4 DEF SameOrOther
<1> QED BY <1>5, OtherHolds

LEMMA CloseOther ==
    ASSUME NEW ws, Sound(ws), Once(ws), NEW w \in Windows, NEW i, NEW zs, zs = CloseTabIn(ws, w, i)
    PROVE  SameOrOther(ws, zs)
<1>1. CASE i \notin DOMAIN ws[w].tabs
  BY <1>1 DEF CloseTabIn, SameOrOther
<1>2. CASE i \in DOMAIN ws[w].tabs
  <2>1. /\ \A v \in Windows : v # w => zs[v] = ws[v]
        /\ ToSet(zs[w].tabs) = ToSet(ws[w].tabs) \ {ws[w].tabs[i]}
    BY <1>2, CloseAtIs
  <2>2. ws[w].tabs[i] \in ToSet(ws[w].tabs)
    BY <1>2 DEF ToSet
  <2> QED BY <2>1, <2>2 DEF SameOrOther
<1> QED BY <1>1, <1>2

LEMMA LessOther ==
    ASSUME NEW ws, NEW xs, NEW zs, Less(ws, xs), Less(xs, zs),
           SameOrOther(ws, xs), SameOrOther(xs, zs)
    PROVE  SameOrOther(ws, zs)
<1> SUFFICES ASSUME NEW v \in Windows, ToSet(zs[v].tabs) = ToSet(ws[v].tabs)
             PROVE  zs[v].tabs = ws[v].tabs
  BY DEF SameOrOther
<1>1. ToSet(zs[v].tabs) \subseteq ToSet(xs[v].tabs) /\ ToSet(xs[v].tabs) \subseteq ToSet(ws[v].tabs)
  BY DEF Less
<1>2. ToSet(xs[v].tabs) = ToSet(ws[v].tabs) /\ ToSet(zs[v].tabs) = ToSet(xs[v].tabs)
  BY <1>1
<1> QED BY <1>2 DEF SameOrOther

LEMMA CloseTabsOther ==
    ASSUME NEW ws, Sound(ws), Once(ws), NEW w \in Windows, NEW s, Len(s) \in Nat
    PROVE  SameOrOther(ws, CloseTabsIn(ws, w, s))
<1>1. PICK n \in Nat : n = Len(s)
  OBVIOUS
<1>2. PICK left : /\ left[0] = ws
                  /\ \A k \in 0 .. n - 1 : left[k + 1] = CloseTabIn(left[k], w, s[n - k])
                  /\ CloseTabsIn(ws, w, s) = left[n]
  <2>1. \E left : ClosesInTurn(left, ws, w, s, n, CloseTabsIn(ws, w, s))
    BY <1>1, CloseTabsAre, Zenon
  <2> QED BY <2>1 DEF ClosesInTurn
<1> DEFINE S == {k \in Nat : k <= n => Less(ws, left[k]) /\ SameOrOther(ws, left[k])}
<1>3. 0 \in S
  BY <1>2, LessRefl DEF SameOrOther
<1>4. ASSUME NEW k \in Nat, k \in S PROVE k + 1 \in S
  <2> SUFFICES ASSUME k + 1 <= n PROVE Less(ws, left[k + 1]) /\ SameOrOther(ws, left[k + 1])
    OBVIOUS
  <2>1. PICK xs, zs : xs = left[k] /\ zs = left[k + 1]
    OBVIOUS
  <2>2. Less(ws, xs) /\ SameOrOther(ws, xs) /\ zs = CloseTabIn(xs, w, s[n - k])
    BY <1>2, <1>4, <2>1
  <2>3. Sound(xs) /\ Once(xs)
    BY <2>2 DEF Less
  <2>4. Less(xs, zs) /\ SameOrOther(xs, zs)
    BY <2>2, <2>3, CloseIsLess, CloseOther
  <2> QED BY <2>1, <2>2, <2>4, LessTrans, LessOther
<1> HIDE DEF S
<1>5. n \in S
  BY <1>3, <1>4, Inductive
<1> QED BY <1>2, <1>5 DEF S

\* Closing tabs at once, or asking first.
LEMMA CloseOrAskHolds ==
    ASSUME NEW s, NEW zs, CloseOrAsk(s, zs), FrontHolds(win, zs)
    PROVE  FrontHolds(win, win')
<1>1. win' = zs \/ win' = win
  BY DEF CloseOrAsk, SetWindows
<1> QED BY <1>1, SameHolds

LEMMA OpenOther ==
    ASSUME NEW ws, Sound(ws), NEW w, NEW t \in Tabs,
           \A v \in Windows : t \notin ToSet(ws[v].tabs),
           NEW zs, zs = OpenTabIn(ws, w, t)
    PROVE  SameOrOther(ws, zs)
<1>1. CASE ~(w \in Windows /\ ws[w].kind \in {"control", "session"})
  BY <1>1 DEF OpenTabIn, SameOrOther
<1>2. CASE w \in Windows /\ ws[w].kind \in {"control", "session"}
  <2>1. ws \in [Windows -> Window] /\ ws[w].tabs \in Seq(Tabs)
    BY <1>2 DEF Sound, Window
  <2>2. /\ \A v \in Windows : v # w => zs[v].tabs = ws[v].tabs
        /\ zs[w].tabs = Append(ws[w].tabs, t)
    BY <1>2, <2>1 DEF OpenTabIn, Window
  <2>3. t \in ToSet(zs[w].tabs)
    BY <2>1, <2>2, AppendIs
  <2> QED BY <1>2, <2>2, <2>3 DEF SameOrOther
<1> QED BY <1>1, <1>2

LEMMA OpenHolds ==
    ASSUME WindowInv, NEW t \in NextTab, NEW w, win' = OpenTabIn(win, w, t)
    PROVE  FrontHolds(win, win')
<1>1. t \in Tabs /\ \A v \in Windows : t \notin ToSet(win[v].tabs)
  BY FreshTab
<1>2. Sound(win)
  BY TabTyped
<1>3. SameOrOther(win, win')
  BY <1>1, <1>2, OpenOther
<1> QED BY <1>3, OtherHolds

LEMMA OpenThereHolds ==
    ASSUME WindowInv, NEW t \in NextTab, NEW w \in NextWindow,
           win' = OpenTabIn(WithWindow(w), w, t)
    PROVE  FrontHolds(win, win')
<1>1. t \in Tabs /\ \A v \in Windows : t \notin ToSet(win[v].tabs)
  BY FreshTab
<1>2. PICK ws, xs : ws = win /\ xs = WithWindow(w)
  OBVIOUS
<1>3. Sound(xs) /\ \A v \in Windows : xs[v].tabs = ws[v].tabs
  BY <1>2, TabTyped, WithWindowIs
<1>4. \A v \in Windows : t \notin ToSet(xs[v].tabs)
  BY <1>1, <1>2, <1>3
<1>5. SameOrOther(xs, win')
  BY <1>1, <1>2, <1>3, <1>4, OpenOther
<1>6. SameOrOther(win, win')
  BY <1>2, <1>3, <1>5 DEF SameOrOther
<1> QED BY <1>6, OtherHolds

\* Another tab is selected.
LEMMA SelectHolds ==
    ASSUME WindowInv, NEW i, HasTab(i), NEW k,
           win' = [win EXCEPT ![ActiveId] = [win[ActiveId] EXCEPT !.active = k]]
    PROVE  FrontHolds(win, win')
<1>1. ActiveId \in Windows /\ win \in [Windows -> Window] /\ win[ActiveId] \in Window
  BY ActiveIs, TabTyped
<1>2. PICK ws, zs : ws = win /\ zs = win'
  OBVIOUS
<1>3. \A v \in Windows : zs[v].tabs = ws[v].tabs
  BY <1>1, <1>2 DEF Window
<1>4. FrontHolds(ws, zs)
  BY <1>3, SameHolds
<1> QED BY <1>2, <1>4
LEMMA TabMoveHolds == ASSUME WindowInv, NEW i, NEW k, TabMove(i, k) PROVE FrontHolds(win, win')
<1>1. PICK a, old : a = ActiveId /\ old = win[a]
  OBVIOUS
<1>2. PICK s, m : s = Swapped(old.tabs, i, k)
                  /\ m = IF old.active = i THEN k ELSE IF old.active = k THEN i ELSE old.active
  OBVIOUS
<1>3. HasTab(i) /\ HasTab(k) /\ win' = [win EXCEPT ![a] = [old EXCEPT !.tabs = s, !.active = m]]
  BY <1>1, <1>2 DEF TabMove, Neighbours, SetActive
<1>4. /\ a \in Windows /\ old \in Window /\ old.tabs \in Seq(Tabs)
      /\ i \in DOMAIN old.tabs /\ k \in DOMAIN old.tabs
  BY <1>1, <1>3, ActiveIs DEF Window
<1>5. PICK ws, zs : ws = win /\ zs = win'
  OBVIOUS
<1>6. ws \in [Windows -> Window]
  BY <1>5, TabTyped
<1>7. zs[a].tabs = s /\ zs[a].active = m /\ \A v \in Windows : v # a => zs[v] = ws[v]
  BY <1>3, <1>4, <1>5, <1>6 DEF Window
<1>8. old.active \in DOMAIN old.tabs
  <2>1. old.tabs # <<>>
    BY <1>4
  <2> QED BY <1>1, <1>4, <2>1, TabTyped DEF Sound
<1>9. s[m] = old.tabs[old.active]
  BY <1>2, <1>4, <1>8 DEF Swapped
<1>10. FrontHolds(ws, zs)
  BY <1>1, <1>5, <1>7, <1>9 DEF FrontHolds, TabInFront
<1> QED BY <1>5, <1>10

LEMMA HideTabHolds == ASSUME WindowInv, NEW i, HideTab(i) PROVE FrontHolds(win, win')
<1>1. PICK a, old : a = ActiveId /\ old = win[a]
  OBVIOUS
<1>2. PICK q : q = Without(old, i)
  OBVIOUS
<1>3. HasTab(i) /\ win' = [win EXCEPT ![a] = Without(@, i)]
  BY <1>1 DEF HideTab
<1>4. a \in Windows /\ old \in Window /\ i \in DOMAIN old.tabs
  BY <1>1, <1>3, ActiveIs
<1>5. PICK ws, zs : ws = win /\ zs = win'
  OBVIOUS
<1>6. ws \in [Windows -> Window]
  BY <1>5, TabTyped
<1>7. zs[a] = q /\ \A v \in Windows : v # a => zs[v] = ws[v]
  BY <1>1, <1>2, <1>3, <1>4, <1>5, <1>6
<1>8. ToSet(q.tabs) = ToSet(old.tabs) \ {old.tabs[i]}
  <2>1. old.tabs # <<>>
    BY <1>4
  <2>2. old.active \in DOMAIN old.tabs /\ IsInjective(old.tabs)
    BY <1>1, <1>4, <2>1, TabTyped DEF Sound, Once, IsInjective
  <2> QED BY <1>2, <1>4, <2>2, WithoutIs
<1>9. old.tabs[i] \in ToSet(old.tabs)
  BY <1>4 DEF ToSet
<1>10. SameOrOther(ws, zs)
  BY <1>1, <1>5, <1>7, <1>8, <1>9 DEF SameOrOther
<1> QED BY <1>5, <1>10, OtherHolds

LEMMA CreateNewSessionHolds ==
    ASSUME WindowInv, NEW i, CreateNewSession(i) PROVE FrontHolds(win, win')
<1>1. PICK a : a = ActiveId
  OBVIOUS
<1>2. PICK t \in NextTab : HasTab(i) /\ win' = [win EXCEPT ![a].tabs[i] = t]
  BY <1>1 DEF CreateNewSession
<1>3. a \in Windows /\ win[a] \in Window /\ win[a].tabs \in Seq(Tabs) /\ i \in DOMAIN win[a].tabs
  BY <1>1, <1>2, ActiveIs DEF Window
<1>4. PICK ws, zs : ws = win /\ zs = win'
  OBVIOUS
<1>5. ws \in [Windows -> Window]
  BY <1>4, TabTyped
<1>6. PICK s : s = [ws[a].tabs EXCEPT ![i] = t]
  OBVIOUS
<1>7. zs[a].tabs = s /\ \A v \in Windows : v # a => zs[v] = ws[v]
  BY <1>2, <1>3, <1>4, <1>5, <1>6 DEF Window
<1>8. t \in ToSet(s) /\ t \notin ToSet(ws[a].tabs)
  <2>1. s[i] = t /\ i \in DOMAIN s
    BY <1>3, <1>4, <1>6
  <2> QED BY <1>3, <1>4, <2>1, FreshTab DEF ToSet
<1>9. SameOrOther(ws, zs)
  BY <1>7, <1>8 DEF SameOrOther
<1> QED BY <1>4, <1>9, OtherHolds

\* Every step.
LEMMA CloseTabHolds == ASSUME WindowInv, NEW i, CloseTab(i) PROVE FrontHolds(win, win')
<1>1. PICK zs : zs = CloseTabIn(win, ActiveId, i)
  OBVIOUS
<1>2. HasTab(i) /\ CloseOrAsk(<<i>>, zs)
  BY <1>1 DEF CloseTab
<1>3. ActiveId \in Windows
  BY <1>2, ActiveIs
<1>4. SameOrOther(win, zs)
  BY <1>1, <1>3, TabTyped, CloseOther
<1> QED BY <1>2, <1>4, OtherHolds, CloseOrAskHolds

LEMMA CloseOtherTabsHolds == ASSUME WindowInv, NEW i, CloseOtherTabs(i) PROVE FrontHolds(win, win')
<1>1. PICK a, s : a = ActiveId /\ s = IndicesWithout(i, Len(win[ActiveId].tabs))
  OBVIOUS
<1>2. PICK xs : xs = CloseTabsIn(win, a, s)
  OBVIOUS
<1>3. PICK zs : zs = [xs EXCEPT ![a].active = 1]
  OBVIOUS
<1>4. HasTab(i) /\ CloseOrAsk(s, zs)
  BY <1>1, <1>2, <1>3 DEF CloseOtherTabs
<1>5. a \in Windows /\ win[a].tabs \in Seq(Tabs) /\ i \in DOMAIN win[a].tabs
  BY <1>1, <1>4, ActiveIs DEF Window
<1>6. Len(s) \in Nat
  <2>1. Len(win[a].tabs) \in Nat /\ i \in 1 .. Len(win[a].tabs)
    BY <1>5
  <2> QED BY <1>1, <2>1, IndicesAre
<1>7. SameOrOther(win, xs) /\ Less(win, xs)
  BY <1>2, <1>5, <1>6, TabTyped, CloseTabsOther, CloseTabsLess
<1>8. xs \in [Windows -> Window]
  BY <1>7 DEF Less, Sound
<1>9. \A v \in Windows : zs[v].tabs = xs[v].tabs
  BY <1>3, <1>5, <1>8 DEF Window
<1>10. SameOrOther(win, zs)
  BY <1>7, <1>9 DEF SameOrOther
<1> QED BY <1>4, <1>10, OtherHolds, CloseOrAskHolds

LEMMA CloseTabsToRightHolds == ASSUME WindowInv, NEW i, CloseTabsToRight(i) PROVE FrontHolds(win, win')
<1>1. PICK a, s : a = ActiveId /\ s = IndicesAfter(i, Len(win[ActiveId].tabs))
  OBVIOUS
<1>2. PICK zs : zs = CloseTabsIn(win, a, s)
  OBVIOUS
<1>3. HasTab(i) /\ CloseOrAsk(s, zs)
  BY <1>1, <1>2 DEF CloseTabsToRight
<1>4. a \in Windows /\ win[a].tabs \in Seq(Tabs) /\ i \in DOMAIN win[a].tabs
  BY <1>1, <1>3, ActiveIs DEF Window
<1>5. Len(s) \in Nat
  <2>1. Len(win[a].tabs) \in Nat /\ i \in 1 .. Len(win[a].tabs)
    BY <1>4
  <2> QED BY <1>1, <2>1, IndicesAre
<1>6. SameOrOther(win, zs)
  BY <1>2, <1>4, <1>5, TabTyped, CloseTabsOther
<1> QED BY <1>3, <1>6, OtherHolds, CloseOrAskHolds

LEMMA ConfirmCloseTabsHolds == ASSUME WindowInv, ConfirmCloseTabs PROVE FrontHolds(win, win')
<1>1. dialog # NoDialog /\ win' = CloseTabsIn(win, dialog.window, dialog.indices)
  BY DEF ConfirmCloseTabs, AnswerDialog, SetWindows
<1>2. dialog.window \in Windows /\ Len(dialog.indices) \in Nat
  BY <1>1 DEF WindowInv, DialogInv
<1>3. SameOrOther(win, win')
  BY <1>1, <1>2, TabTyped, CloseTabsOther
<1> QED BY <1>3, OtherHolds

LEMMA SessionExitedHolds == ASSUME WindowInv, NEW t, SessionExited(t) PROVE FrontHolds(win, win')
<1>1. PICK w \in Windows : \E i \in DOMAIN win[w].tabs : win' = CloseTabIn(win, w, i)
  BY DEF SessionExited, SetWindows
<1>2. PICK i \in DOMAIN win[w].tabs : win' = CloseTabIn(win, w, i)
  BY <1>1
<1>3. SameOrOther(win, win')
  BY <1>2, TabTyped, CloseOther
<1> QED BY <1>3, OtherHolds

\* Windows that come and go, without their tabs.
LEMMA WindowsHold ==
    ASSUME WindowInv, Sound(win'),
           \A v \in Windows : \/ win'[v].tabs = win[v].tabs
                              \/ win'[v].tabs = <<>> \/ win[v].tabs = <<>>
    PROVE  FrontHolds(win, win')
<1>1. PICK ws, zs : ws = win /\ zs = win'
  OBVIOUS
<1>2. Sound(ws) /\ Sound(zs)
  BY <1>1, TabTyped
<1>3. \A v \in Windows : zs[v].tabs = ws[v].tabs \/ zs[v].tabs = <<>> \/ ws[v].tabs = <<>>
  BY <1>1
<1>4. FrontHolds(ws, zs)
  BY <1>2, <1>3, EmptyHolds
<1> QED BY <1>1, <1>4

LEMMA WindowsClosedHold ==
    ASSUME WindowInv, WindowInv', \/ \E w \in Windows : ControlClosed(w) \/ SessionWindowClosed(w)
                                  \/ DisconnectServer \/ ConfirmCloseServer
    PROVE  FrontHolds(win, win')
<1>1. PICK g : g = NoWindow("gone")
  OBVIOUS
<1>2. g.tabs = <<>>
  BY <1>1 DEF NoWindow
<1>3. win \in [Windows -> Window]
  BY TabTyped
<1>4. \A v \in Windows : win'[v] = win[v] \/ win'[v] = g
  <2>1. ASSUME NEW w \in Windows, ControlClosed(w) \/ SessionWindowClosed(w)
        PROVE  win' = [win EXCEPT ![w] = g]
    BY <1>1, <2>1 DEF ControlClosed, SessionWindowClosed
  <2>2. CASE \E w \in Windows : ControlClosed(w) \/ SessionWindowClosed(w)
    BY <1>3, <2>1, <2>2
  <2>3. CASE DisconnectServer \/ ConfirmCloseServer
    <3>1. \/ win' = [w \in Windows |-> IF w \in Sessions THEN g ELSE win[w]]
          \/ win' = [w \in Windows |-> IF w \in Sessions /\ win[w].tabs # <<>> THEN g ELSE win[w]]
      BY <1>1, <2>3 DEF DisconnectServer, ConfirmCloseServer, SetWindows
    <3> QED BY <3>1
  <2> QED BY <2>2, <2>3
<1>5. Sound(win')
  BY DEF WindowInv, TabsInv, Sound
<1> QED BY <1>2, <1>4, <1>5, WindowsHold

LEMMA WindowsOpenedHold ==
    ASSUME WindowInv, WindowInv', NewWindow \/ ShowControlWindow \/ RestoreHiddenWindow
    PROVE  FrontHolds(win, win')
<1>1. CASE \E w \in NextWindow, t \in NextTab : win' = OpenTabIn(WithWindow(w), w, t)
  BY <1>1, OpenThereHolds
<1>2. CASE ~(\E w \in NextWindow, t \in NextTab : win' = OpenTabIn(WithWindow(w), w, t))
  <2>1. win' = win \/ \E w \in NextWindow : \E r : win' = [win EXCEPT ![w] = r]
    BY <1>2 DEF NewWindow, ShowControlWindow, RestoreHiddenWindow, WithWindow
  <2>2. win \in [Windows -> Window]
    BY TabTyped
  <2>3. \A w \in NextWindow : w \in Windows /\ win[w].tabs = <<>>
    BY TabTyped DEF NextWindow, Sound
  <2>4. \A v \in Windows : win'[v] = win[v] \/ win[v].tabs = <<>>
    BY <2>1, <2>2, <2>3
  <2>5. Sound(win')
    BY DEF WindowInv, TabsInv, Sound
  <2> QED BY <2>4, <2>5, WindowsHold
<1> QED BY <1>1, <1>2

LEMMA FrontStep == WindowInv /\ [Next]_vars => FrontHolds(win, win')
<1> SUFFICES ASSUME WindowInv, [Next]_vars PROVE FrontHolds(win, win')
  OBVIOUS
<1>1. WindowInv'
  BY WindowNext
<1>2. CASE UNCHANGED win
  BY <1>2, SameHolds
<1>3. ASSUME NEW i \in Tabs,
             CloseTab(i) \/ CloseOtherTabs(i) \/ CloseTabsToRight(i) \/ HideTab(i) \/ CreateNewSession(i)
      PROVE  FrontHolds(win, win')
  BY <1>3, CloseTabHolds, CloseOtherTabsHolds, CloseTabsToRightHolds, HideTabHolds,
     CreateNewSessionHolds
<1>4. ASSUME NEW i \in Tabs, SelectTab(i) \/ StartRename(i) PROVE FrontHolds(win, win')
  <2>1. HasTab(i) /\ win' = [win EXCEPT ![ActiveId] = [win[ActiveId] EXCEPT !.active = i]]
    BY <1>4 DEF SelectTab, StartRename, SetActive
  <2> QED BY <2>1, SelectHolds
<1>5. ASSUME NEW i \in Tabs, TabMove(i, i + 1) \/ TabMove(i + 1, i) PROVE FrontHolds(win, win')
  BY <1>5, TabMoveHolds
<1>6. ASSUME NEW step, CycleTab(step) PROVE FrontHolds(win, win')
  <2>1. HasTab(1) /\ \E k : win' = [win EXCEPT ![ActiveId] = [win[ActiveId] EXCEPT !.active = k]]
    BY <1>6 DEF CycleTab, SetActive
  <2> QED BY <2>1, SelectHolds
<1>7. ASSUME NEW t \in Tabs, SessionExited(t) PROVE FrontHolds(win, win')
  BY <1>7, SessionExitedHolds
<1>8. ASSUME NEW h \in Tabs, RestoreHiddenSession(h) PROVE FrontHolds(win, win')
  <2>1. UNCHANGED win \/ \E t \in NextTab : win' = OpenTabIn(win, ActiveId, t)
    BY <1>8 DEF RestoreHiddenSession
  <2> QED BY <1>2, <2>1, OpenHolds
<1>9. CASE NewTab \/ RemoteTab \/ ServerConnected
  <2>1. \/ \E t \in NextTab : \E w : win' = OpenTabIn(win, w, t)
        \/ \E w \in NextWindow, t \in NextTab : win' = OpenTabIn(WithWindow(w), w, t)
    BY <1>9 DEF NewTab, RemoteTab, ServerConnected
  <2> QED BY <2>1, OpenHolds, OpenThereHolds
<1>10. CASE NewWindow \/ ShowControlWindow \/ RestoreHiddenWindow
  BY <1>1, <1>10, WindowsOpenedHold
<1>11. CASE \/ \E w \in Windows : ControlClosed(w) \/ SessionWindowClosed(w)
            \/ DisconnectServer \/ ConfirmCloseServer
  BY <1>1, <1>11, WindowsClosedHold
<1>12. CASE ConfirmCloseTabs
  BY <1>12, ConfirmCloseTabsHolds
<1>13. ASSUME NEW t, NEW state, ConnectionChanges(t, state) PROVE UNCHANGED win
  BY <1>13 DEF ConnectionChanges
<1>14. ASSUME NEW w, ClosedReported(w) \/ WindowFocused(w) PROVE UNCHANGED win
  BY <1>14 DEF ClosedReported, WindowFocused
<1>15. CASE CancelCloseTabs
  BY <1>2, <1>15 DEF CancelCloseTabs
<1>16. CASE UNCHANGED vars
  BY <1>2, <1>16 DEF vars
<1> QED BY <1>2, <1>3, <1>4, <1>5, <1>6, <1>7, <1>8, <1>9, <1>10, <1>11, <1>12, <1>13, <1>14,
           <1>15, <1>16 DEF Next

\* Reordering the tabs of a window (TabMoveLeft, TabMoveRight) leaves the tab in
\* front; nothing else in update.rs reorders tabs.
THEOREM TabInFrontStays == Spec => FrontTabStays
<1>1. Init => WindowInv
  BY WindowInit
<1>2. WindowInv /\ [Next]_vars => WindowInv'
  BY WindowNext
<1>3. WindowInv /\ [Next]_vars =>
        [\A w \in Windows :
            (win'[w].tabs # win[w].tabs /\ ToSet(win'[w].tabs) = ToSet(win[w].tabs))
                => TabInFront(win'[w]) = TabInFront(win[w])]_vars
  BY FrontStep DEF FrontHolds
<1> QED BY <1>1, <1>2, <1>3, PTL DEF Spec, FrontTabStays
=============================================================================
