--------------------------- MODULE Workspaces_proofs ---------------------------
(***************************************************************************)
(* Proofs about Workspaces: the type invariant, and that no session gets   *)
(* out of reach of a user who has one device and takes no name that is     *)
(* taken.                                                                  *)
(***************************************************************************)
EXTENDS Workspaces, FiniteSetTheorems, WellFoundedInduction, NaturalsInduction, TLAPS

-----------------------------------------------------------------------------
(* Induction for what a set of numbers says. *)

\* A set of numbers with 0, and with n + 1 whenever with n, has them all.
LEMMA Inductive ==
    ASSUME NEW S, 0 \in S, \A n \in Nat : n \in S => n + 1 \in S
    PROVE  Nat \subseteq S
<1> SUFFICES ASSUME ~(Nat \subseteq S) PROVE FALSE
  OBVIOUS
<1> DEFINE Less == {ss \in Nat \X Nat : ss[1] < ss[2]}
           Missing == Nat \ S
<1>1. IsWellFoundedOn(Less, Nat)
  BY NatLessThanWellFounded DEF OpToRel
<1>2. Missing \in SUBSET Nat /\ Missing # {}
  OBVIOUS
<1> HIDE DEF Less, Missing
<1>3. PICK x \in Missing : \A y \in Missing : <<y, x>> \notin Less
  BY <1>1, <1>2, WFMin
<1>4. x \in Nat /\ x \notin S
  BY DEF Missing
<1>5. x # 0 /\ x - 1 \in Nat
  BY <1>4
<1>6. x - 1 \notin S
  BY <1>4, <1>5
<1>7. <<x - 1, x>> \in Less
  BY <1>4, <1>5 DEF Less
<1>8. x - 1 \in Missing
  BY <1>5, <1>6 DEF Missing
<1> QED BY <1>3, <1>7, <1>8

\* A loop of n rounds: step leads from what a round finds, in T[i - 1], to what
\* the next one finds, in T[i].
Looping(f, a, n, T, step) ==
    /\ f = [i \in 0 .. n |-> f[i]]
    /\ f[0] = a
    /\ \A i \in 1 .. n : f[i] = step[i][f[i - 1]]
    /\ \A i \in 0 .. n : f[i] \in T[i]

\* Such a loop comes to its end.
LEMMA LoopEnds ==
    ASSUME NEW n \in Nat, NEW T, NEW step, NEW a, a \in T[0],
           \A i \in 1 .. n : \A x \in T[i - 1] : step[i][x] \in T[i]
    PROVE  \E f : Looping(f, a, n, T, step)
<1> DEFINE S == {m \in Nat : m <= n => \E f : Looping(f, a, m, T, step)}
<1>1. 0 \in S
  <2> DEFINE g == [i \in 0 .. 0 |-> a]
  <2>1. Looping(g, a, 0, T, step)
    BY DEF Looping
  <2> HIDE DEF g
  <2> QED BY <2>1
<1>2. ASSUME NEW m \in Nat, m \in S PROVE m + 1 \in S
  <2> SUFFICES ASSUME m + 1 <= n PROVE \E f : Looping(f, a, m + 1, T, step)
    OBVIOUS
  <2>1. PICK f : Looping(f, a, m, T, step)
    BY <1>2
  <2> DEFINE last == step[m + 1][f[m]]
             g == [i \in 0 .. m + 1 |-> IF i = m + 1 THEN last ELSE f[i]]
  <2>2. f[m] \in T[m] /\ m + 1 \in 1 .. n /\ m + 1 - 1 = m
    BY <2>1 DEF Looping
  <2>3. last \in T[m + 1]
    BY <2>2
  <2>4. /\ g = [i \in 0 .. m + 1 |-> g[i]]
        /\ g[m + 1] = last
        /\ \A i \in 0 .. m : g[i] = f[i]
    <3> HIDE DEF last
    <3> QED OBVIOUS
  <2> HIDE DEF g
  <2>5. g[0] = a
    BY <2>1, <2>4 DEF Looping
  <2>6. \A i \in 1 .. m + 1 : g[i] = step[i][g[i - 1]]
    <3> SUFFICES ASSUME NEW i \in 1 .. m + 1 PROVE g[i] = step[i][g[i - 1]]
      OBVIOUS
    <3> HIDE DEF last
    <3>0. i - 1 \in 0 .. m
      BY <1>2
    <3>1. g[i - 1] = f[i - 1]
      BY <2>4, <3>0
    <3>2. CASE i = m + 1
      BY <2>2, <2>4, <3>1, <3>2 DEF last
    <3>3. CASE i # m + 1
      <4>1. i \in 1 .. m
        BY <3>3
      <4>2. f[i] = step[i][f[i - 1]]
        BY <4>1, <2>1 DEF Looping
      <4>3. i \in 0 .. m
        BY <4>1
      <4>4. g[i] = f[i]
        BY <4>3, <2>4
      <4> QED BY <4>2, <4>4, <3>1
    <3> QED BY <3>2, <3>3
  <2>7. \A i \in 0 .. m + 1 : g[i] \in T[i]
    <3> SUFFICES ASSUME NEW i \in 0 .. m + 1 PROVE g[i] \in T[i]
      OBVIOUS
    <3>1. CASE i = m + 1
      BY <2>3, <2>4, <3>1
    <3>2. CASE i # m + 1
      <4>1. i \in 0 .. m
        BY <3>2
      <4> QED BY <4>1, <2>1, <2>4 DEF Looping
    <3> QED BY <3>1, <3>2
  <2> HIDE DEF last
  <2>8. Looping(g, a, m + 1, T, step)
    BY <2>4, <2>5, <2>6, <2>7 DEF Looping
  <2> QED BY <2>8
<1> HIDE DEF S
<1>3. n \in S
  BY <1>1, <1>2, Inductive
<1> QED BY <1>3 DEF S

\* What holds before a loop, and after a round when before it, holds throughout.
LEMMA LoopStays ==
    ASSUME NEW n \in Nat, NEW T, NEW g, g[0] \in T[0],
           \A i \in 1 .. n : g[i - 1] \in T[i - 1] => g[i] \in T[i]
    PROVE  \A i \in 0 .. n : g[i] \in T[i]
<1> DEFINE S == {i \in Nat : i <= n => g[i] \in T[i]}
<1>1. 0 \in S
  OBVIOUS
<1>2. ASSUME NEW m \in Nat, m \in S PROVE m + 1 \in S
  <2> SUFFICES ASSUME m + 1 <= n PROVE g[m + 1] \in T[m + 1]
    OBVIOUS
  <2>1. m + 1 \in 1 .. n /\ m + 1 - 1 = m /\ g[m] \in T[m]
    BY <1>2
  <2> QED BY <2>1
<1> HIDE DEF S
<1>3. Nat \subseteq S
  BY <1>1, <1>2, Inductive
<1> QED BY <1>3 DEF S

-----------------------------------------------------------------------------
(* Lists of names. *)

Ascends(s) == \A i, j \in DOMAIN s : i < j => s[i] <= s[j]

\* A name put into its place leaves the list sorted.
LEMMA InsertedAscends ==
    ASSUME NEW s \in Seq(Name), NEW n \in Name, Ascends(s)
    PROVE  Inserted(s, n) \in Seq(Name) /\ Ascends(Inserted(s, n)) /\ Len(Inserted(s, n)) = Len(s) + 1
<1> DEFINE t == Inserted(s, n)
<1>1. Len(s) \in Nat /\ DOMAIN s = 1 .. Len(s) /\ Name \subseteq Nat
  BY NameAssumption
<1>2. \A i \in 1 .. Len(s) : s[i] \in Name
  BY <1>1
<1>3. DOMAIN t = 1 .. Len(s) + 1
  BY DEF Inserted
<1>4. \A i \in 1 .. Len(s) + 1 :
        t[i] = IF i <= Len(s) /\ s[i] <= n THEN s[i]
               ELSE IF i = 1 \/ s[i - 1] <= n THEN n ELSE s[i - 1]
  BY DEF Inserted
<1> HIDE DEF t
<1>5. \A i \in 1 .. Len(s) + 1 : t[i] \in Name
  BY <1>1, <1>2, <1>4
<1>6. t \in [1 .. Len(s) + 1 -> Name]
  BY <1>3, <1>5 DEF t, Inserted
<1>7. Len(s) + 1 \in Nat
  BY <1>1
<1>8. t \in Seq(Name) /\ Len(t) = Len(s) + 1
  BY <1>6, <1>7
<1>9. ASSUME NEW i \in 1 .. Len(s) + 1, NEW j \in 1 .. Len(s) + 1, i < j
      PROVE  t[i] <= t[j]
  <2>1. \A k, l \in 1 .. Len(s) : k < l => s[k] <= s[l]
    BY <1>1 DEF Ascends
  <2>2. \A k \in 1 .. Len(s) : s[k] \in Nat
    BY <1>1, <1>2
  <2>3. n \in Nat
    BY <1>1
  <2>4. i \in 1 .. Len(s) /\ j - 1 \in 1 .. Len(s) /\ i <= j - 1
    BY <1>1, <1>9
  <2>5. s[i] <= s[j - 1]
    BY <2>1, <2>2, <2>4
  <2>6. CASE s[i] <= n
    <3>1. t[i] = s[i]
      BY <1>4, <2>4, <2>6
    <3> QED BY <1>4, <2>2, <2>3, <2>4, <2>5, <2>6, <3>1, <2>1
  <2>7. CASE ~(s[i] <= n)
    <3>1. t[j] = s[j - 1]
      BY <1>1, <1>4, <2>1, <2>2, <2>3, <2>4, <2>5, <2>7
    <3>2. t[i] = n \/ (i # 1 /\ t[i] = s[i - 1])
      BY <1>4, <2>4, <2>7
    <3>3. i # 1 => i - 1 \in 1 .. Len(s) /\ s[i - 1] <= s[i]
      BY <1>1, <2>1, <2>4
    <3>4. i # 1 => s[i - 1] \in Nat
      BY <2>2, <3>3
    <3> QED BY <2>2, <2>3, <2>4, <2>5, <2>7, <3>1, <3>2, <3>3, <3>4
  <2> QED BY <2>6, <2>7
<1>10. Ascends(t)
  BY <1>3, <1>9 DEF Ascends
<1> QED BY <1>8, <1>10 DEF t

\* sort() gives a sorted list.
LEMMA SortedAscends ==
    ASSUME NEW s \in Seq(Name)
    PROVE  Sorted(s) \in Seq(Name) /\ Ascends(Sorted(s))
<1> DEFINE n == Len(s)
           L == {t \in Seq(Name) : Ascends(t)}
           T == [i \in 0 .. n |-> L]
           step == [i \in 1 .. n |-> [t \in L |-> Inserted(t, s[i])]]
           Loop(f) == [i \in 0 .. n |-> IF i = 0 THEN <<>> ELSE Inserted(f[i - 1], s[i])]
           up == CHOOSE f : f = Loop(f)
<1>1. n \in Nat /\ \A i \in 1 .. n : s[i] \in Name
  OBVIOUS
<1>2. <<>> \in L
  BY DEF Ascends
<1>3. \A i \in 1 .. n : \A t \in L : step[i][t] = Inserted(t, s[i]) /\ Inserted(t, s[i]) \in L
  BY <1>1, InsertedAscends
<1>4. \A i \in 0 .. n : T[i] = L
  OBVIOUS
<1> HIDE DEF L, step, T, n
<1>5. /\ <<>> \in T[0]
      /\ \A i \in 1 .. n : \A x \in T[i - 1] : step[i][x] \in T[i]
  BY <1>1, <1>2, <1>3, <1>4
<1>6. PICK f : Looping(f, <<>>, n, T, step)
  BY <1>1, <1>5, LoopEnds
<1>7. f = Loop(f)
  <2>1. \A i \in 0 .. n : f[i] = IF i = 0 THEN <<>> ELSE Inserted(f[i - 1], s[i])
    <3> SUFFICES ASSUME NEW i \in 0 .. n
                 PROVE  f[i] = IF i = 0 THEN <<>> ELSE Inserted(f[i - 1], s[i])
      OBVIOUS
    <3>1. CASE i = 0
      BY <1>6, <3>1 DEF Looping
    <3>2. CASE i # 0
      <4>1. i \in 1 .. n /\ i - 1 \in 0 .. n
        BY <1>1, <3>2
      <4>2. f[i - 1] \in L /\ f[i] = step[i][f[i - 1]]
        BY <1>4, <1>6, <4>1 DEF Looping
      <4> QED BY <1>3, <3>2, <4>1, <4>2
    <3> QED BY <3>1, <3>2
  <2>2. f = [i \in 0 .. n |-> f[i]]
    BY <1>6 DEF Looping
  <2> QED BY <2>1, <2>2
<1>8. up = Loop(up)
  BY <1>7
<1>9. Sorted(s) = up[n]
  BY DEF Sorted, n
<1>10. DOMAIN up = 0 .. n /\ \A i \in 0 .. n : up[i] = IF i = 0 THEN <<>> ELSE Inserted(up[i - 1], s[i])
  BY <1>8
<1> HIDE DEF up
<1>11. up[n] \in L
  <2>1. up[0] \in T[0]
    BY <1>1, <1>2, <1>4, <1>10
  <2>2. ASSUME NEW i \in 1 .. n, up[i - 1] \in T[i - 1] PROVE up[i] \in T[i]
    <3>1. i \in 0 .. n /\ i - 1 \in 0 .. n /\ i # 0
      BY <1>1
    <3> QED BY <1>3, <1>4, <1>10, <2>2, <3>1
  <2>3. \A i \in 0 .. n : up[i] \in T[i]
    BY <1>1, <2>1, <2>2, LoopStays
  <2> QED BY <1>1, <1>4, <2>3
<1> QED BY <1>1, <1>9, <1>11 DEF L

\* What is left of a sorted list is sorted.
LEMMA ListWithoutAscends ==
    ASSUME list \in Seq(Name), Ascends(list), NEW old
    PROVE  ListWithout(old) \in Seq(Name) /\ Ascends(ListWithout(old))
<1> DEFINE n == Len(list)
           Left(i) == {t \in Seq(Name) : /\ Ascends(t)
                                         /\ \A k \in DOMAIN t : \A j \in i + 1 .. n : t[k] <= list[j]}
           Round(i, t) == IF list[i] = old THEN t ELSE Append(t, list[i])
           T == [i \in 0 .. n |-> Left(i)]
           step == [i \in 1 .. n |-> [t \in Left(i - 1) |-> Round(i, t)]]
           Loop(f) == [i \in 0 .. n |->
                        IF i = 0 THEN <<>>
                        ELSE IF list[i] = old THEN f[i - 1] ELSE Append(f[i - 1], list[i])]
           left == CHOOSE f : f = Loop(f)
<1>1. n \in Nat /\ DOMAIN list = 1 .. n /\ \A i \in 1 .. n : list[i] \in Name /\ list[i] \in Nat
  <2>1. n \in Nat /\ DOMAIN list = 1 .. n /\ \A i \in 1 .. n : list[i] \in Name
    OBVIOUS
  <2> QED BY <2>1, NameAssumption
<1>2. <<>> \in Left(0)
  BY DEF Ascends
<1>3. ASSUME NEW i \in 1 .. n, NEW t \in Left(i - 1) PROVE Round(i, t) \in Left(i)
  <2>1. /\ t \in Seq(Name) /\ Ascends(t) /\ i - 1 + 1 = i
        /\ \A k \in DOMAIN t : \A j \in i .. n : t[k] <= list[j]
    BY <1>1
  <2>2. i \in i .. n /\ \A j \in i + 1 .. n : j \in i .. n /\ j \in 1 .. n /\ i < j
    BY <1>1
  <2>3. CASE list[i] = old
    BY <2>1, <2>2, <2>3
  <2>4. CASE list[i] # old
    <3> DEFINE u == Append(t, list[i])
    <3>1. /\ u \in Seq(Name) /\ Len(u) = Len(t) + 1 /\ u[Len(t) + 1] = list[i]
          /\ \A k \in 1 .. Len(t) : u[k] = t[k]
          /\ DOMAIN t = 1 .. Len(t) /\ DOMAIN u = 1 .. Len(t) + 1 /\ Len(t) \in Nat
      BY <1>1, <2>1
    <3> HIDE DEF u
    <3>2. \A k \in 1 .. Len(t) : u[k] <= list[i]
      BY <2>1, <2>2, <3>1
    <3>3. Ascends(u)
      <4>1. \A k, l \in 1 .. Len(t) : k < l => u[k] <= u[l]
        BY <2>1, <3>1 DEF Ascends
      <4> QED BY <3>1, <3>2, <4>1 DEF Ascends
    <3>4. \A j \in i + 1 .. n : list[i] <= list[j]
      BY <1>1, <2>2 DEF Ascends
    <3>5. \A k \in 1 .. Len(t) + 1 : \A j \in i + 1 .. n : u[k] <= list[j]
      BY <2>1, <2>2, <3>1, <3>4
    <3> QED BY <2>4, <3>1, <3>3, <3>5 DEF u
  <2> QED BY <2>3, <2>4
<1>4. \A i \in 1 .. n : \A t \in Left(i - 1) : step[i][t] = Round(i, t)
  OBVIOUS
<1>5. \A i \in 0 .. n : T[i] = Left(i)
  OBVIOUS
<1>6. \A i \in 1 .. n : i - 1 \in 0 .. n /\ i \in 0 .. n
  BY <1>1
<1>7. \A t \in Left(n) : t \in Seq(Name) /\ Ascends(t)
  OBVIOUS
<1> HIDE DEF step, T, n, Left
<1>8. /\ <<>> \in T[0]
      /\ \A i \in 1 .. n : \A x \in T[i - 1] : step[i][x] \in T[i]
  <2> HIDE DEF Round
  <2>1. 0 \in 0 .. n
    BY <1>1
  <2>2. ASSUME NEW i \in 1 .. n, NEW x \in T[i - 1] PROVE step[i][x] \in T[i]
    <3>1. x \in Left(i - 1) /\ T[i] = Left(i)
      BY <1>5, <1>6
    <3> QED BY <3>1, <1>3, <1>4
  <2> QED BY <1>2, <1>5, <2>1, <2>2
<1>9. PICK f : Looping(f, <<>>, n, T, step)
  BY <1>1, <1>8, LoopEnds
<1>10. f = Loop(f)
  <2>1. ASSUME NEW i \in 0 .. n
        PROVE  f[i] = IF i = 0 THEN <<>> ELSE Round(i, f[i - 1])
    <3>1. CASE i = 0
      BY <1>9, <3>1 DEF Looping
    <3>2. CASE i # 0
      <4>1. i \in 1 .. n
        BY <1>1, <3>2
      <4>2. f[i - 1] \in Left(i - 1) /\ f[i] = step[i][f[i - 1]]
        BY <1>5, <1>6, <1>9, <4>1 DEF Looping
      <4> HIDE DEF Round
      <4> QED BY <1>4, <3>2, <4>1, <4>2
    <3> QED BY <3>1, <3>2
  <2>2. f = [i \in 0 .. n |-> f[i]]
    BY <1>9 DEF Looping
  <2> QED BY <2>1, <2>2
<1>11. left = Loop(left)
  BY <1>10
<1>12. ListWithout(old) = left[n]
  BY DEF ListWithout, n
<1>13. \A i \in 0 .. n : left[i] = IF i = 0 THEN <<>> ELSE Round(i, left[i - 1])
  BY <1>11
<1> HIDE DEF left, Round
<1>14. left[0] \in T[0]
  BY <1>1, <1>8, <1>13
<1>15. ASSUME NEW i \in 1 .. n, left[i - 1] \in T[i - 1] PROVE left[i] \in T[i]
  BY <1>1, <1>3, <1>5, <1>6, <1>13, <1>15
<1>16. \A i \in 0 .. n : left[i] \in T[i]
  BY <1>1, <1>14, <1>15, LoopStays
<1> QED BY <1>1, <1>5, <1>7, <1>12, <1>16

\* The names of a document, sorted.
LEMMA SortedNamesAscend ==
    ASSUME NEW ws, IsFiniteSet(Names(ws))
    PROVE  SortedNames(ws) \in Seq(Name) /\ Ascends(SortedNames(ws))
<1> DEFINE N == Names(ws)
           c == Cardinality(N)
<1>1. c \in Nat /\ \E f : ExistsBijection(1 .. c, N)
  BY FS_CardinalityType
<1>2. PICK f \in Bijection(1 .. c, N) : TRUE
  BY <1>1 DEF ExistsBijection
<1>3. f \in [1 .. c -> N] /\ IsInjective(f)
  BY <1>2 DEF Bijection, Injection, Surjection, IsInjective
<1>4. SetToSeq(N) \in [1 .. c -> N]
  BY <1>3 DEF SetToSeq
<1>5. N \subseteq Name
  BY DEF Names
<1>6. SetToSeq(N) \in Seq(Name)
  BY <1>1, <1>4, <1>5
<1> QED BY <1>6, SortedAscends DEF SortedNames

LEMMA ReplaceFirstTyped ==
    ASSUME list \in Seq(Name), NEW old, NEW new \in Name
    PROVE  ReplaceFirst(old, new) \in Seq(Name)
<1>1. Len(list) \in Nat /\ DOMAIN list = 1 .. Len(list) /\ \A i \in 1 .. Len(list) : list[i] \in Name
  OBVIOUS
<1>2. ReplaceFirst(old, new) \in [1 .. Len(list) -> Name]
  BY <1>1 DEF ReplaceFirst
<1> QED BY <1>1, <1>2

LEMMA FallbackTyped ==
    ASSUME NEW names \in Seq(Name)
    PROVE  Fallback(names) \in Name
BY NameAssumption DEF Fallback

-----------------------------------------------------------------------------
(* Counting tabs. *)

LEMMA TabsAreFinite == IsFiniteSet(Session) /\ IsFiniteSet(Tab) /\ IsFiniteSet(Saved)
<1> DEFINE U == 1 .. MaxUuid
           W == 0 .. MaxWindow
           f == [t \in Tab |-> <<t.uuid, t.tmux>>]
           g == [t \in Saved |-> <<<<t.uuid, t.tmux>>, t.win>>]
<1>1. IsFiniteSet(U) /\ IsFiniteSet(W) /\ IsFiniteSet(Session)
  <2> 1 \in Int /\ 0 \in Int /\ MaxUuid \in Int /\ MaxWindow \in Int /\ MaxSession \in Int
    BY BoundAssumption
  <2> QED BY FS_Interval DEF Session
<1>2. IsFiniteSet(U \X Session)
  BY <1>1, FS_Product
<1>3. IsFiniteSet((U \X Session) \X W)
  BY <1>1, <1>2, FS_Product
<1> HIDE DEF W
<1>4. f \in Injection(Tab, U \X Session)
  <2>1. f \in [Tab -> U \X Session]
    BY DEF Tab
  <2>2. \A t, u \in Tab : f[t] = f[u] => t = u
    BY DEF Tab
  <2> HIDE DEF f
  <2> QED BY <2>1, <2>2 DEF Injection, IsInjective
<1>5. g \in Injection(Saved, (U \X Session) \X W)
  <2>1. g \in [Saved -> (U \X Session) \X W]
    BY DEF Saved, W
  <2>2. \A t, u \in Saved : g[t] = g[u] => t = u
    BY DEF Saved
  <2> HIDE DEF g
  <2> QED BY <2>1, <2>2 DEF Injection, IsInjective
<1> HIDE DEF f, g
<1>6. IsFiniteSet(Tab)
  BY <1>2, <1>4, FS_Injection
<1>7. IsFiniteSet(Saved)
  BY <1>3, <1>5, FS_Injection
<1> QED BY <1>1, <1>6, <1>7

\* Fewer than all are before one of them.
LEMMA RankIsLess ==
    ASSUME NEW S, IsFiniteSet(S), NEW T \in SUBSET S, T # S
    PROVE  /\ Cardinality(S) \in Nat /\ Cardinality(T) \in Nat
           /\ Cardinality(T) < Cardinality(S)
<1>1. IsFiniteSet(T) /\ Cardinality(T) <= Cardinality(S) /\ Cardinality(S) # Cardinality(T)
  BY FS_Subset
<1>2. Cardinality(S) \in Nat /\ Cardinality(T) \in Nat
  BY <1>1, FS_CardinalityType
<1> QED BY <1>1, <1>2

-----------------------------------------------------------------------------
(***************************************************************************)
(* The type invariant, in parts, with the counters and with the number of  *)
(* workspaces, which is finite because each was created.                   *)
(***************************************************************************)
DocTyped(ws) == ws \in [Name -> Entry] /\ IsFiniteSet(Names(ws))

FlagsTyped == conn \in BOOLEAN /\ seen \in BOOLEAN /\ dirty \in BOOLEAN /\ recent \in BOOLEAN

NamesTyped == current \in Name /\ list \in Seq(Name) /\ Ascends(list)

DialogTyped == dialog \in [kind : {"none", "create", "rename", "remove"}, name : Name]

WinTyped ==
    /\ windows \subseteq Window /\ hiddenWindows \subseteq Window
    /\ hidden \subseteq 1 .. MaxUuid

FilesTyped ==
    /\ file \in [there : BOOLEAN, ws : [Name -> Entry], hidden : SUBSET Window]
    /\ IsFiniteSet(Names(file.ws))
    /\ devfile \in [there : BOOLEAN, hidden : SUBSET (1 .. MaxUuid), last : Name]

LiveTyped ==
    /\ live \subseteq Session /\ kills \subseteq Session
    /\ ended \subseteq Session /\ leftover \subseteq Session /\ replaced \subseteq Session
    /\ named \in [Session -> 0 .. MaxWorkspace]

Counted ==
    next \in [uuid : 1 .. MaxUuid + 1, session : 1 .. MaxSession + 1,
              ws : 1 .. MaxWorkspace + 1, win : 1 .. MaxWindow + 1, ops : 0 .. MaxOps]

Typed ==
    /\ FlagsTyped /\ NamesTyped /\ DocTyped(cached) /\ DialogTyped
    /\ WinTyped /\ FilesTyped /\ LiveTyped /\ Counted

LEMMA TypedIsTypeOK == Typed => TypeOK
BY DEF Typed, TypeOK, FlagsTyped, NamesTyped, DocTyped, DialogTyped, WinTyped, FilesTyped,
       LiveTyped, Ascends

LEMMA TakeCounts ==
    ASSUME Counted, NEW a \in Nat, NEW b \in Nat, NEW c \in Nat, NEW d \in Nat, NEW e \in Nat,
           Take(a, b, c, d, e)
    PROVE  /\ Counted'
           /\ next.uuid \in Nat /\ next.session \in Nat /\ next.ws \in Nat /\ next.win \in Nat
           /\ next.uuid >= 1 /\ next.session >= 1 /\ next.ws >= 1 /\ next.win >= 1
           /\ next.uuid + a <= MaxUuid + 1 /\ next.session + b <= MaxSession + 1
           /\ next.ws + c <= MaxWorkspace + 1 /\ next.win + d <= MaxWindow + 1
<1>1. /\ MaxUuid \in Nat /\ MaxSession \in Nat /\ MaxWorkspace \in Nat
      /\ MaxWindow \in Nat /\ MaxOps \in Nat
  BY BoundAssumption
<1>2. /\ next.uuid \in 1 .. MaxUuid + 1 /\ next.session \in 1 .. MaxSession + 1
      /\ next.ws \in 1 .. MaxWorkspace + 1 /\ next.win \in 1 .. MaxWindow + 1
      /\ next.ops \in 0 .. MaxOps
  BY DEF Counted
<1>3. /\ next' = [uuid |-> next.uuid + a, session |-> next.session + b,
                  ws |-> next.ws + c, win |-> next.win + d, ops |-> next.ops + e]
      /\ next.uuid + a <= MaxUuid + 1 /\ next.session + b <= MaxSession + 1
      /\ next.ws + c <= MaxWorkspace + 1 /\ next.win + d <= MaxWindow + 1
      /\ next.ops + e <= MaxOps
  BY DEF Take
<1>4. /\ next.uuid + a \in 1 .. MaxUuid + 1 /\ next.session + b \in 1 .. MaxSession + 1
      /\ next.ws + c \in 1 .. MaxWorkspace + 1 /\ next.win + d \in 1 .. MaxWindow + 1
      /\ next.ops + e \in 0 .. MaxOps
  BY <1>1, <1>2, <1>3
<1>5. Counted'
  BY <1>3, <1>4 DEF Counted
<1> QED BY <1>1, <1>2, <1>3, <1>5

-----------------------------------------------------------------------------
(* What a flush writes. *)

LEMMA SavedTyped ==
    ASSUME NEW wins, wins \subseteq Window
    PROVE  SavedTabs(wins) \subseteq Saved
BY DEF SavedTabs, Window, Tab, Saved

\* There is room for the uuid of a workspace that is written for the first time.
Room(ws, n) == Counted /\ next.ws + NewUuids(ws, n) <= MaxWorkspace + 1

LEMMA UuidTyped ==
    ASSUME NEW ws, DocTyped(ws), NEW n \in Name, Room(ws, n)
    PROVE  UuidOf(ws, n) \in 1 .. MaxWorkspace
<1>1. MaxWorkspace \in Nat /\ next.ws \in 1 .. MaxWorkspace + 1
  BY BoundAssumption DEF Room, Counted
<1>2. ws[n].uuid \in 0 .. MaxWorkspace
  BY DEF DocTyped, Entry
<1> QED BY <1>1, <1>2 DEF Room, UuidOf, NewUuids

LEMMA LayoutTyped ==
    ASSUME NEW ws, DocTyped(ws), NEW cur \in Name, Room(ws, cur), NEW wins, wins \subseteq Window
    PROVE  /\ DocTyped(Layout(ws, cur, wins))
           /\ Names(Layout(ws, cur, wins)) = Names(ws) \cup {cur}
           /\ \A n \in Names(ws) : Layout(ws, cur, wins)[n].uuid = ws[n].uuid
<1> DEFINE doc == Layout(ws, cur, wins)
           e == [uuid |-> UuidOf(ws, cur), tabs |-> SavedTabs(wins)]
<1>1. UuidOf(ws, cur) \in 1 .. MaxWorkspace
  BY UuidTyped
<1>2. e \in Entry /\ e.uuid # 0 /\ e.uuid = UuidOf(ws, cur)
  BY <1>1, SavedTyped, BoundAssumption DEF Entry
<1> HIDE DEF e
<1>3. ws \in [Name -> Entry] /\ doc = [ws EXCEPT ![cur] = e]
  BY DEF DocTyped, Layout, e
<1>4. doc \in [Name -> Entry] /\ doc[cur] = e /\ \A n \in Name : n # cur => doc[n] = ws[n]
  BY <1>2, <1>3
<1>5. Names(doc) = Names(ws) \cup {cur}
  BY <1>2, <1>4 DEF Names
<1>6. IsFiniteSet(Names(doc))
  BY <1>5, FS_AddElement DEF DocTyped
<1>7. \A n \in Names(ws) : doc[n].uuid = ws[n].uuid
  BY <1>2, <1>4 DEF Names, UuidOf
<1> QED BY <1>4, <1>5, <1>6, <1>7 DEF DocTyped

LEMMA MergeTyped ==
    ASSUME NEW doc, DocTyped(doc), NEW ws, DocTyped(ws)
    PROVE  /\ DocTyped(MergeWorkspaces(doc, ws))
           /\ Names(MergeWorkspaces(doc, ws)) = Names(doc) \cup Names(ws)
           /\ \A n \in Names(doc) : MergeWorkspaces(doc, ws)[n].uuid = doc[n].uuid
           /\ \A n \in Names(ws) \ Names(doc) : MergeWorkspaces(doc, ws)[n].uuid = ws[n].uuid
<1> DEFINE m == MergeWorkspaces(doc, ws)
<1>1. \A e \in Entry : Alive(e) \in Entry /\ Alive(e).uuid = e.uuid
  BY DEF Alive, Entry
<1>2. ASSUME NEW n \in Name
      PROVE  /\ MergeEntry(doc[n], ws[n]) \in Entry
             /\ MergeEntry(doc[n], ws[n]).uuid =
                    IF doc[n].uuid = 0 THEN ws[n].uuid ELSE doc[n].uuid
  <2>1. doc[n] \in Entry /\ ws[n] \in Entry
    BY DEF DocTyped
  <2>2. CASE doc[n].uuid = 0
    BY <1>1, <2>1, <2>2 DEF MergeEntry
  <2>3. CASE doc[n].uuid # 0
    <3> DEFINE mine == Alive(doc[n])
               others == {t \in Alive(ws[n]).tabs : t.uuid \notin Uuids(mine.tabs)}
    <3>1. MergeEntry(doc[n], ws[n]) = [mine EXCEPT !.tabs = @ \cup others]
      BY <2>3 DEF MergeEntry
    <3>2. mine \in Entry /\ mine.uuid = doc[n].uuid /\ others \subseteq Saved
      BY <1>1, <2>1 DEF Entry
    <3> HIDE DEF mine, others
    <3> QED BY <2>3, <3>1, <3>2 DEF Entry
  <2> QED BY <2>2, <2>3
<1>3. m \in [Name -> Entry] /\ \A n \in Name : m[n] = MergeEntry(doc[n], ws[n])
  BY <1>2 DEF MergeWorkspaces
<1> HIDE DEF m
<1>4. Names(m) = Names(doc) \cup Names(ws)
  BY <1>2, <1>3 DEF Names
<1>5. IsFiniteSet(Names(m))
  BY <1>4, FS_Union DEF DocTyped
<1>6. \A n \in Names(doc) : m[n].uuid = doc[n].uuid
  BY <1>2, <1>3 DEF Names
<1>7. \A n \in Names(ws) \ Names(doc) : m[n].uuid = ws[n].uuid
  BY <1>2, <1>3 DEF Names
<1> QED BY <1>3, <1>4, <1>5, <1>6, <1>7 DEF DocTyped, m

LEMMA MergeHiddenTyped ==
    ASSUME NEW wins, wins \subseteq Window, NEW others, others \subseteq Window
    PROVE  MergeHidden(wins, others) \subseteq Window
BY DEF MergeHidden

WorkspaceUuids(ws) == {ws[n].uuid : n \in Names(ws)}

\* The cache and the file after a write of ws with the workspace cur: both have
\* every workspace of ws, and cur, under one uuid.
Written(ws, cur) ==
    /\ DocTyped(cached') /\ FilesTyped'
    /\ file'.there /\ devfile'.there /\ devfile'.last = cur
    /\ cur \in Names(cached')
    /\ \A n \in Names(ws) : n \in Names(cached') /\ cached'[n].uuid = ws[n].uuid
    /\ \A n \in Names(cached') : n \in Names(file'.ws) /\ file'.ws[n].uuid = cached'[n].uuid

LEMMA WriteWrites ==
    ASSUME FilesTyped, NEW ws, DocTyped(ws), NEW cur \in Name, Room(ws, cur),
           NEW wins, wins \subseteq Window, NEW hiddenWins, hiddenWins \subseteq Window,
           NEW hid, hid \subseteq 1 .. MaxUuid,
           Write(ws, cur, wins, hiddenWins, hid)
    PROVE  Written(ws, cur) /\ seen' = FALSE
<1> DEFINE doc == Layout(ws, cur, wins)
           out == IF Conflict THEN MergeWorkspaces(doc, file.ws) ELSE doc
           hws == IF Conflict THEN MergeHidden(hiddenWins, file.hidden) ELSE hiddenWins
<1>1. /\ cached' = doc
      /\ file' = [there |-> TRUE, ws |-> out, hidden |-> hws]
      /\ devfile' = [there |-> TRUE, hidden |-> hid, last |-> cur]
      /\ seen' = FALSE
  BY DEF Write
<1>2. /\ DocTyped(doc)
      /\ Names(doc) = Names(ws) \cup {cur}
      /\ \A n \in Names(ws) : doc[n].uuid = ws[n].uuid
  BY LayoutTyped
<1>3. DocTyped(file.ws) /\ file.hidden \subseteq Window
  BY DEF FilesTyped, DocTyped
<1> HIDE DEF doc
<1>4. /\ DocTyped(MergeWorkspaces(doc, file.ws))
      /\ Names(MergeWorkspaces(doc, file.ws)) = Names(doc) \cup Names(file.ws)
      /\ \A n \in Names(doc) : MergeWorkspaces(doc, file.ws)[n].uuid = doc[n].uuid
  BY <1>2, <1>3, MergeTyped
<1>5. /\ DocTyped(out)
      /\ \A n \in Names(doc) : n \in Names(out) /\ out[n].uuid = doc[n].uuid
  BY <1>2, <1>4
<1>6. hws \subseteq Window
  BY <1>3, MergeHiddenTyped
<1> HIDE DEF out, hws
<1>7. FilesTyped'
  <2>1. file' \in [there : BOOLEAN, ws : [Name -> Entry], hidden : SUBSET Window]
    BY <1>1, <1>5, <1>6 DEF DocTyped
  <2>2. IsFiniteSet(Names(file'.ws))
    BY <1>1, <1>5 DEF DocTyped
  <2>3. devfile' \in [there : BOOLEAN, hidden : SUBSET (1 .. MaxUuid), last : Name]
    BY <1>1
  <2> QED BY <2>1, <2>2, <2>3 DEF FilesTyped
<1>8. /\ file'.there /\ devfile'.there /\ devfile'.last = cur
      /\ \A n \in Names(doc) : n \in Names(file'.ws) /\ file'.ws[n].uuid = doc[n].uuid
  BY <1>1, <1>5
<1> QED BY <1>1, <1>2, <1>7, <1>8 DEF Written

LEMMA FlushWrites ==
    ASSUME FilesTyped, NEW ws, DocTyped(ws), NEW cur \in Name, Room(ws, cur),
           NEW wins, wins \subseteq Window, NEW hiddenWins, hiddenWins \subseteq Window,
           NEW hid, hid \subseteq 1 .. MaxUuid,
           Flush(ws, cur, wins, hiddenWins, hid)
    PROVE  Written(ws, cur) /\ seen' = FALSE /\ dirty' = FALSE /\ recent' = TRUE
<1>1. Write(ws, cur, wins, hiddenWins, hid) /\ dirty' = FALSE /\ recent' = TRUE
  BY DEF Flush
<1> QED BY <1>1, WriteWrites

\* What save_state leaves when it waits for the timer.
Deferred == cached' = cached /\ file' = file /\ devfile' = devfile

LEMMA SaveSaves ==
    ASSUME FilesTyped, FlagsTyped, Counted, DocTyped(cached), NEW cur \in Name,
           next.ws + SaveUuids(cached, cur) <= MaxWorkspace + 1,
           NEW wins, wins \subseteq Window, NEW hiddenWins, hiddenWins \subseteq Window,
           NEW hid, hid \subseteq 1 .. MaxUuid,
           SaveState(cached, cur, wins, hiddenWins, hid)
    PROVE  /\ Written(cached, cur) \/ Deferred
           /\ seen' \in BOOLEAN /\ dirty' \in BOOLEAN /\ recent' \in BOOLEAN
<1>1. CASE ~recent /\ Flush(cached, cur, wins, hiddenWins, hid)
  <2>1. Room(cached, cur)
    BY <1>1 DEF SaveUuids, Room
  <2> QED BY <1>1, <2>1, FlushWrites
<1>2. CASE recent /\ cached' = cached /\ dirty' = TRUE /\ UNCHANGED <<seen, recent, fileVars>>
  BY <1>2 DEF Deferred, fileVars, FlagsTyped
<1> QED BY <1>1, <1>2 DEF SaveState

LEMMA NewUuidsTyped ==
    ASSUME NEW ws, NEW n
    PROVE  NewUuids(ws, n) \in Nat /\ SaveUuids(ws, n) \in Nat
BY DEF NewUuids, SaveUuids

-----------------------------------------------------------------------------
(* Windows with tabs. *)

LEMMA ReopenedTyped ==
    ASSUME NEW all, IsFiniteSet(all), \A t \in all : t.uuid \in Nat /\ t.tmux \in Session,
           NEW ts \in SUBSET all, Counted,
           next.uuid + Cardinality(all) <= MaxUuid + 1
    PROVE  Reopened(ts, all) \subseteq Tab
<1> DEFINE Number(t) == next.uuid + Cardinality({u \in all : u.uuid < t.uuid})
<1>1. ASSUME NEW t \in ts PROVE Number(t) \in 1 .. MaxUuid
  <2> DEFINE before == {u \in all : u.uuid < t.uuid}
  <2>1. before \in SUBSET all /\ t \in all /\ t \notin before
    OBVIOUS
  <2>2. /\ Cardinality(all) \in Nat /\ Cardinality(before) \in Nat
        /\ Cardinality(before) < Cardinality(all)
    BY <2>1, RankIsLess
  <2>3. next.uuid \in 1 .. MaxUuid + 1 /\ MaxUuid \in Nat
    BY BoundAssumption DEF Counted
  <2> HIDE DEF before
  <2>4. next.uuid + Cardinality(before) \in 1 .. MaxUuid
    BY <2>2, <2>3
  <2> QED BY <2>4 DEF before
<1>2. Reopened(ts, all) = {[uuid |-> Number(t), tmux |-> t.tmux] : t \in ts}
  BY Zenon DEF Reopened
<1> HIDE DEF Number
<1> QED BY <1>1, <1>2 DEF Tab

LEMMA TabsOfTyped ==
    ASSUME NEW wins, wins \subseteq Window
    PROVE  /\ TabsOf(wins) \subseteq Tab /\ IsFiniteSet(TabsOf(wins))
           /\ Uuids(TabsOf(wins)) \subseteq 1 .. MaxUuid
<1>1. TabsOf(wins) \subseteq Tab
  BY DEF TabsOf, Window
<1>2. TabsOf(wins) \in SUBSET Tab
  BY <1>1
<1>3. IsFiniteSet(TabsOf(wins))
  BY <1>2, TabsAreFinite, FS_Subset
<1>4. Uuids(TabsOf(wins)) \subseteq 1 .. MaxUuid
  BY <1>1 DEF Uuids, Tab
<1> QED BY <1>1, <1>3, <1>4

LEMMA WindowFields ==
    ASSUME NEW w \in Window
    PROVE  /\ w = [id |-> w.id, env |-> w.env, tabs |-> w.tabs]
           /\ w.id \in 0 .. MaxWindow /\ w.env \in Name \cup {0} /\ w.tabs \subseteq Tab
           /\ Uuids(w.tabs) \subseteq 1 .. MaxUuid
           /\ \A ts \in SUBSET Tab : [w EXCEPT !.tabs = ts] \in Window
BY DEF Window, Uuids, Tab

LEMMA FreshTabTyped ==
    ASSUME Counted, next.uuid + 1 <= MaxUuid + 1, next.session + 1 <= MaxSession + 1
    PROVE  FreshTab \in Tab /\ next.session \in Session
<1>1. /\ MaxUuid \in Nat /\ MaxSession \in Nat
      /\ next.uuid \in 1 .. MaxUuid + 1 /\ next.session \in 1 .. MaxSession + 1
  BY BoundAssumption DEF Counted
<1>2. next.uuid \in 1 .. MaxUuid /\ next.session \in 1 .. MaxSession
  BY <1>1
<1> QED BY <1>2 DEF FreshTab, Tab, Session

LEMMA StartSessionTyped ==
    ASSUME LiveTyped, DocTyped(cached), Counted, next.session + 1 <= MaxSession + 1,
           NEW n \in Name, StartSession(n)
    PROVE  LiveTyped'
<1>1. next.session \in Session
  <2> MaxSession \in Nat /\ next.session \in 1 .. MaxSession + 1
    BY BoundAssumption DEF Counted
  <2> QED BY DEF Session
<1>2. cached[n].uuid \in 0 .. MaxWorkspace
  BY DEF DocTyped, Entry
<1> QED BY <1>1, <1>2 DEF StartSession, LiveTyped, ghostVars

-----------------------------------------------------------------------------
(***************************************************************************)
(* Every action keeps the types; and what it leaves in the cache and in    *)
(* the files.                                                              *)
(***************************************************************************)
LEMMA NewTabTyped ==
    ASSUME Typed, NEW w \in windows, NewTab(w)
    PROVE  Typed' /\ (Written(cached, current) \/ Deferred)
<1>1. /\ Take(1, 1, SaveUuids(cached, current), 0, 1)
      /\ windows' = Replace(w, [w EXCEPT !.tabs = @ \cup {FreshTab}])
      /\ StartSession(current)
      /\ SaveState(cached, current, windows', hiddenWindows, hidden)
      /\ UNCHANGED <<conn, current, list, hiddenWindows, hidden, dialog>>
  BY DEF NewTab
<1>2. SaveUuids(cached, current) \in Nat
  BY NewUuidsTyped
<1>3. /\ Counted'
      /\ next.uuid + 1 <= MaxUuid + 1 /\ next.session + 1 <= MaxSession + 1
      /\ next.ws + SaveUuids(cached, current) <= MaxWorkspace + 1
  BY <1>1, <1>2, TakeCounts DEF Typed
<1>4. FreshTab \in Tab
  BY <1>3, FreshTabTyped DEF Typed
<1>5. windows' \subseteq Window
  <2>1. w \in Window /\ windows \subseteq Window
    BY DEF Typed, WinTyped
  <2>2. w.tabs \cup {FreshTab} \in SUBSET Tab
    BY <1>4, <2>1, WindowFields
  <2>3. [w EXCEPT !.tabs = w.tabs \cup {FreshTab}] \in Window
    BY <2>1, <2>2, WindowFields
  <2> QED BY <1>1, <2>1, <2>3 DEF Replace
<1>6. /\ Written(cached, current) \/ Deferred
      /\ seen' \in BOOLEAN /\ dirty' \in BOOLEAN /\ recent' \in BOOLEAN
  BY <1>1, <1>3, <1>5, SaveSaves DEF Typed, NamesTyped, WinTyped
<1>7. LiveTyped'
  BY <1>1, <1>3, StartSessionTyped DEF Typed, NamesTyped
<1>8. DocTyped(cached') /\ FilesTyped'
  BY <1>6 DEF Typed, Written, Deferred, FilesTyped
<1>9. FlagsTyped' /\ NamesTyped' /\ WinTyped' /\ DialogTyped'
  BY <1>1, <1>5, <1>6 DEF Typed, FlagsTyped, NamesTyped, WinTyped, DialogTyped
<1> QED BY <1>3, <1>6, <1>7, <1>8, <1>9 DEF Typed

LEMMA NewWindowTyped ==
    ASSUME Counted, NEW env \in Name,
           next.uuid + 1 <= MaxUuid + 1, next.session + 1 <= MaxSession + 1,
           next.win + 1 <= MaxWindow + 1
    PROVE  [id |-> next.win, env |-> env, tabs |-> {FreshTab}] \in Window
<1>1. FreshTab \in Tab
  BY FreshTabTyped
<1>2. next.win \in 0 .. MaxWindow
  BY BoundAssumption DEF Counted
<1> QED BY <1>1, <1>2 DEF Window

LEMMA OpenWindowTyped ==
    ASSUME Typed, NEW n \in Name, NEW env \in Name,
           Take(1, 1, SaveUuids(cached, n), 1, 1),
           windows' = windows \cup {[id |-> next.win, env |-> env, tabs |-> {FreshTab}]},
           StartSession(n),
           SaveState(cached, n, windows', hiddenWindows, hidden),
           UNCHANGED <<conn, current, list, hiddenWindows, hidden, dialog>>
    PROVE  Typed' /\ (Written(cached, n) \/ Deferred)
<1>1. SaveUuids(cached, n) \in Nat
  BY NewUuidsTyped
<1>2. /\ Counted'
      /\ next.uuid + 1 <= MaxUuid + 1 /\ next.session + 1 <= MaxSession + 1
      /\ next.ws + SaveUuids(cached, n) <= MaxWorkspace + 1
      /\ next.win + 1 <= MaxWindow + 1
  BY <1>1, TakeCounts DEF Typed
<1>3. windows' \subseteq Window
  <2>1. [id |-> next.win, env |-> env, tabs |-> {FreshTab}] \in Window
    BY <1>2, NewWindowTyped DEF Typed
  <2> QED BY <2>1 DEF Typed, WinTyped
<1>4. /\ Written(cached, n) \/ Deferred
      /\ seen' \in BOOLEAN /\ dirty' \in BOOLEAN /\ recent' \in BOOLEAN
  BY <1>2, <1>3, SaveSaves DEF Typed, WinTyped
<1>5. LiveTyped'
  BY <1>2, StartSessionTyped DEF Typed
<1>6. DocTyped(cached') /\ FilesTyped'
  BY <1>4 DEF Typed, Written, Deferred, FilesTyped
<1>7. FlagsTyped' /\ NamesTyped' /\ WinTyped' /\ DialogTyped'
  BY <1>3, <1>4 DEF Typed, FlagsTyped, NamesTyped, WinTyped, DialogTyped
<1> QED BY <1>2, <1>4, <1>5, <1>6, <1>7 DEF Typed

LEMMA NewWindowKeepsTypes ==
    ASSUME Typed, NewWindow
    PROVE  Typed' /\ (Written(cached, current) \/ Deferred)
<1>1. PICK env \in {current} \cup ({w.env : w \in windows} \cap Name) :
        windows' = windows \cup {[id |-> next.win, env |-> env, tabs |-> {FreshTab}]}
  BY DEF NewWindow
<1>2. current \in Name /\ env \in Name
  BY <1>1 DEF Typed, NamesTyped
<1> QED BY <1>1, <1>2, OpenWindowTyped DEF NewWindow

LEMMA NewWindowForWorkspaceTyped ==
    ASSUME Typed, NEW n \in Name, NewWindowForWorkspace(n)
    PROVE  Typed' /\ (Written(cached, n) \/ Deferred)
BY OpenWindowTyped DEF NewWindowForWorkspace

\* What a flush of the cache leaves of the types.
LEMMA FlushedTyped ==
    ASSUME Typed, NEW ws, DocTyped(ws), NEW cur \in Name, NEW ops \in Nat,
           Take(0, 0, NewUuids(ws, cur), 0, ops),
           NEW wins, wins \subseteq Window, NEW hiddenWins, hiddenWins \subseteq Window,
           NEW hid, hid \subseteq 1 .. MaxUuid,
           Flush(ws, cur, wins, hiddenWins, hid),
           conn' \in BOOLEAN
    PROVE  /\ Written(ws, cur) /\ Counted' /\ FlagsTyped'
           /\ DocTyped(cached') /\ FilesTyped'
<1>1. NewUuids(ws, cur) \in Nat
  BY NewUuidsTyped
<1>2. Counted' /\ Room(ws, cur)
  BY <1>1, TakeCounts DEF Typed, Room
<1>3. Written(ws, cur) /\ seen' = FALSE /\ dirty' = FALSE /\ recent' = TRUE
  BY <1>2, FlushWrites DEF Typed
<1> QED BY <1>2, <1>3 DEF Written, FlagsTyped

LEMMA FlushTimerTyped ==
    ASSUME Typed, FlushTimer
    PROVE  Typed' /\ Written(cached, current)
<1>1. /\ Flush(cached, current, windows, hiddenWindows, hidden)
      /\ Take(0, 0, NewUuids(cached, current), 0, 0)
      /\ UNCHANGED <<conn, current, list, winVars, dialog, liveVars>>
  BY DEF FlushTimer
<1>2. /\ Written(cached, current) /\ Counted' /\ FlagsTyped'
      /\ DocTyped(cached') /\ FilesTyped'
  BY <1>1, FlushedTyped DEF Typed, NamesTyped, WinTyped, FlagsTyped
<1> QED BY <1>1, <1>2 DEF Typed, NamesTyped, WinTyped, DialogTyped, LiveTyped, winVars, liveVars, ghostVars

LEMMA DebounceOverTyped == Typed /\ DebounceOver => Typed' /\ Deferred
<1> SUFFICES ASSUME Typed, DebounceOver PROVE Typed' /\ Deferred
  OBVIOUS
<1>1. Counted'
  BY TakeCounts DEF Typed, DebounceOver
<1> QED BY <1>1 DEF DebounceOver, Deferred, Typed, FlagsTyped, NamesTyped, DocTyped, DialogTyped,
           WinTyped, FilesTyped, LiveTyped, winVars, fileVars, liveVars, ghostVars

LEMMA CloseTabTyped ==
    ASSUME Typed, NEW w \in windows, NEW t \in w.tabs, CloseTab(w, t)
    PROVE  Typed' /\ Written(cached, current)
<1> DEFINE rest == [w EXCEPT !.tabs = @ \ {t}]
           ops == IF t.tmux \in live THEN 1 ELSE 0
<1>1. /\ windows' = IF rest.tabs = {} /\ w.id # 0 THEN windows \ {w} ELSE Replace(w, rest)
      /\ Flush(cached, current, Replace(w, rest), hiddenWindows, hidden)
      /\ kills' = kills \cup {t.tmux}
      /\ ended' = ended \cup {t.tmux} /\ UNCHANGED <<leftover, replaced>>
      /\ Take(0, 0, NewUuids(cached, current), 0, ops)
      /\ UNCHANGED <<conn, current, list, hiddenWindows, hidden, dialog, live, named>>
  BY DEF CloseTab
<1>2. windows \subseteq Window /\ w \in Window /\ w.tabs \subseteq Tab /\ t.tmux \in Session
  BY WindowFields DEF Typed, WinTyped, Tab
<1>3. rest \in Window
  <2>1. w.tabs \ {t} \in SUBSET Tab
    BY <1>2
  <2> QED BY <1>2, <2>1, WindowFields
<1>4. ops \in Nat
  OBVIOUS
<1> HIDE DEF rest, ops
<1>5. Replace(w, rest) \subseteq Window /\ windows' \subseteq Window
  BY <1>1, <1>2, <1>3 DEF Replace
<1>6. /\ Written(cached, current) /\ Counted' /\ FlagsTyped'
      /\ DocTyped(cached') /\ FilesTyped'
  BY <1>1, <1>4, <1>5, FlushedTyped DEF Typed, NamesTyped, WinTyped, FlagsTyped
<1>7. LiveTyped'
  BY <1>1, <1>2 DEF Typed, LiveTyped
<1> QED BY <1>1, <1>5, <1>6, <1>7 DEF Typed, NamesTyped, WinTyped, DialogTyped

LEMMA ExecuteKillTyped ==
    ASSUME Typed, NEW s \in kills, ExecuteKill(s)
    PROVE  Typed' /\ Deferred
BY DEF ExecuteKill, Deferred, Typed, FlagsTyped, NamesTyped, DocTyped, DialogTyped, Counted,
       WinTyped, FilesTyped, LiveTyped, ghostVars, cacheVars, winVars, fileVars

LEMMA CloseWindowTyped ==
    ASSUME Typed, NEW w \in windows, CloseWindow(w)
    PROVE  Typed' /\ Written(cached, current)
<1>1. /\ windows' = windows \ {w}
      /\ hiddenWindows' = IF w.tabs = {} THEN hiddenWindows ELSE hiddenWindows \cup {w}
      /\ hidden' = hidden \cup Uuids(w.tabs)
      /\ Flush(cached, current, windows', hiddenWindows', hidden')
      /\ Take(0, 0, NewUuids(cached, current), 0, 1)
      /\ UNCHANGED <<conn, current, list, dialog, liveVars>>
  BY DEF CloseWindow
<1>2. windows \subseteq Window /\ w \in Window /\ Uuids(w.tabs) \subseteq 1 .. MaxUuid
  BY WindowFields DEF Typed, WinTyped
<1>3. windows' \subseteq Window /\ hiddenWindows' \subseteq Window /\ hidden' \subseteq 1 .. MaxUuid
  BY <1>1, <1>2 DEF Typed, WinTyped
<1>4. /\ Written(cached, current) /\ Counted' /\ FlagsTyped'
      /\ DocTyped(cached') /\ FilesTyped'
  BY <1>1, <1>3, FlushedTyped DEF Typed, NamesTyped, FlagsTyped
<1> QED BY <1>1, <1>3, <1>4 DEF Typed, NamesTyped, WinTyped, DialogTyped, LiveTyped, liveVars, ghostVars

LEMMA RestoreHiddenWindowsTyped ==
    ASSUME Typed, NEW n \in Name, RestoreHiddenWindows(n)
    PROVE  Typed' /\ n \in Cards /\ (Written(cached, n) \/ Deferred)
<1> DEFINE restored == {h \in hiddenWindows : h.env = n}
           all == TabsOf(restored)
<1>1. /\ n \in Cards
      /\ hiddenWindows' = hiddenWindows \ restored
      /\ hidden' = hidden \ Uuids(all)
      /\ windows' = windows \cup {[h EXCEPT !.tabs = Reopened(@, all)] : h \in restored}
      /\ \/ recent /\ UNCHANGED <<cached, seen, fileVars>>
         \/ ~recent /\ \E h \in restored : \E t \in Reopened(h.tabs, all) :
              Write(cached, n, windows \cup {[h EXCEPT !.tabs = {t}]}, hiddenWindows',
                    hidden \ Uuids(h.tabs))
      /\ dirty' = TRUE /\ recent' = TRUE
      /\ Take(Cardinality(all), 0, 0, 0, 1)
      /\ UNCHANGED <<conn, current, list, dialog, liveVars>>
  BY DEF RestoreHiddenWindows
<1>2. restored \subseteq Window /\ windows \subseteq Window /\ hidden \subseteq 1 .. MaxUuid
  BY DEF Typed, WinTyped
<1>3. all \subseteq Tab /\ IsFiniteSet(all)
  BY <1>2, TabsOfTyped
<1>4. \A h \in restored : h.tabs \in SUBSET all
  BY DEF TabsOf
<1>5. \A h \in restored : h \in hiddenWindows
  OBVIOUS
<1> HIDE DEF restored, all
<1>6. Cardinality(all) \in Nat
  BY <1>3, FS_CardinalityType
<1>7. Counted' /\ next.uuid + Cardinality(all) <= MaxUuid + 1
  BY <1>1, <1>6, TakeCounts DEF Typed
<1>8. \A t \in all : t.uuid \in Nat /\ t.tmux \in Session
  BY <1>3, BoundAssumption DEF Tab
<1>9. ASSUME NEW h \in restored PROVE Reopened(h.tabs, all) \subseteq Tab
  BY <1>3, <1>4, <1>7, <1>8, ReopenedTyped DEF Typed
<1>10. windows' \subseteq Window
  <2>1. ASSUME NEW h \in restored PROVE [h EXCEPT !.tabs = Reopened(@, all)] \in Window
    <3>1. h \in Window /\ Reopened(h.tabs, all) \in SUBSET Tab
      BY <1>2, <1>9
    <3> QED BY <3>1, WindowFields
  <2> QED BY <1>1, <1>2, <2>1
<1>11. hiddenWindows' \subseteq Window /\ hidden' \subseteq 1 .. MaxUuid
  BY <1>1, <1>2 DEF Typed, WinTyped
<1>12. /\ Written(cached, n) \/ Deferred
       /\ seen' \in BOOLEAN
  <2>1. CASE recent /\ UNCHANGED <<cached, seen, fileVars>>
    BY <2>1 DEF Deferred, fileVars, Typed, FlagsTyped
  <2>2. CASE ~recent /\ \E h \in restored : \E t \in Reopened(h.tabs, all) :
              Write(cached, n, windows \cup {[h EXCEPT !.tabs = {t}]}, hiddenWindows',
                    hidden \ Uuids(h.tabs))
    <3>1. PICK h \in restored, t \in Tab :
              Write(cached, n, windows \cup {[h EXCEPT !.tabs = {t}]}, hiddenWindows',
                    hidden \ Uuids(h.tabs))
      BY <1>9, <2>2
    <3>2. [h EXCEPT !.tabs = {t}] \in Window
      BY <1>2, WindowFields
    <3>3. windows \cup {[h EXCEPT !.tabs = {t}]} \subseteq Window
      BY <1>2, <3>2
    <3>4. hidden \ Uuids(h.tabs) \subseteq 1 .. MaxUuid
      BY <1>2
    <3>5. Room(cached, n)
      <4>1. NewUuids(cached, n) = 0
        BY <1>1 DEF Cards, Names, NewUuids
      <4>2. next.ws \in 1 .. MaxWorkspace + 1 /\ MaxWorkspace \in Nat
        BY BoundAssumption DEF Typed, Counted
      <4> QED BY <4>1, <4>2 DEF Room, Typed
    <3> QED BY <1>11, <3>1, <3>3, <3>4, <3>5, WriteWrites DEF Typed
  <2> QED BY <1>1, <2>1, <2>2
<1>13. DocTyped(cached') /\ FilesTyped'
  BY <1>12 DEF Typed, Written, Deferred, FilesTyped
<1> QED BY <1>1, <1>7, <1>10, <1>11, <1>12, <1>13
        DEF Typed, FlagsTyped, NamesTyped, WinTyped, DialogTyped, LiveTyped, liveVars, ghostVars

LEMMA DialogStepTyped ==
    ASSUME Typed,
           \/ \E kind \in {"create", "rename", "remove"}, n \in Name : ShowDialog(kind, n)
           \/ CancelDialog
    PROVE  Typed' /\ Deferred
<1>1. dialog' \in [kind : {"none", "create", "rename", "remove"}, name : Name]
  BY NameAssumption DEF ShowDialog, CancelDialog, NoDialog
<1>2. UNCHANGED <<conn, current, list, cacheVars, winVars, fileVars, liveVars, next>>
  BY DEF ShowDialog, CancelDialog
<1> QED BY <1>1, <1>2 DEF Deferred, Typed, FlagsTyped, NamesTyped, DocTyped, DialogTyped, Counted,
           WinTyped, FilesTyped, LiveTyped, cacheVars, winVars, fileVars, liveVars, ghostVars

LEMMA ConfirmTyped ==
    ASSUME NEW kind, Confirm(kind)
    PROVE  DialogTyped' /\ conn
BY NameAssumption DEF Confirm, DialogTyped, NoDialog

LEMMA ConfirmNewWorkspaceTyped ==
    ASSUME Typed, NEW new \in Name, ConfirmNewWorkspace(new)
    PROVE  /\ Typed'
           /\ \/ Written(cached, new) /\ current' = new
              \/ Deferred /\ current' = current
<1>1. DialogTyped'
  BY ConfirmTyped DEF ConfirmNewWorkspace
<1>2. CASE UNCHANGED <<current, list, cacheVars, fileVars, next>>
  BY <1>1, <1>2 DEF ConfirmNewWorkspace, Deferred, Typed, FlagsTyped, NamesTyped, DocTyped,
     Counted, WinTyped, FilesTyped, LiveTyped, cacheVars, winVars, fileVars, liveVars, ghostVars
<1>3. CASE /\ list' = WithName(new) /\ current' = new
           /\ Flush(cached, new, windows, hiddenWindows, hidden)
           /\ Take(0, 0, NewUuids(cached, new), 0, 1)
  <2>1. list' \in Seq(Name) /\ Ascends(list')
    <3>1. Append(list, new) \in Seq(Name)
      BY DEF Typed, NamesTyped
    <3> QED BY <1>3, <3>1, SortedAscends DEF WithName
  <2>2. conn' \in BOOLEAN /\ UNCHANGED <<conn, winVars, liveVars>>
    BY DEF ConfirmNewWorkspace, Typed, FlagsTyped
  <2>3. /\ Written(cached, new) /\ Counted' /\ FlagsTyped'
        /\ DocTyped(cached') /\ FilesTyped'
    BY <1>3, <2>2, FlushedTyped DEF Typed, WinTyped
  <2>4. NamesTyped'
    BY <1>3, <2>1 DEF NamesTyped, Ascends
  <2> QED BY <1>1, <1>3, <2>2, <2>3, <2>4 DEF Typed, WinTyped, LiveTyped, winVars, liveVars, ghostVars
<1> QED BY <1>2, <1>3 DEF ConfirmNewWorkspace

\* The names of the workspaces move, their uuids stay, but for that of a workspace
\* whose name is taken.
LEMMA RenamedTyped ==
    ASSUME DocTyped(cached), NEW old \in Name, NEW new \in Name, new # old
    PROVE  /\ DocTyped(RenamedEntry(old, new))
           /\ \A n \in Names(cached) : (n = new => cached[old].uuid = 0) =>
                cached[n].uuid \in WorkspaceUuids(RenamedEntry(old, new))
           /\ \A n \in Name \ {old, new} : RenamedEntry(old, new)[n] = cached[n]
           /\ old \in Names(cached) => new \in Names(RenamedEntry(old, new))
<1> DEFINE r == RenamedEntry(old, new)
<1>1. cached \in [Name -> Entry] /\ IsFiniteSet(Names(cached))
  BY DEF DocTyped
<1>2. CASE cached[old].uuid = 0
  BY <1>1, <1>2 DEF RenamedEntry, Names, DocTyped, WorkspaceUuids
<1>3. CASE cached[old].uuid # 0
  <2>1. r = [cached EXCEPT ![new] = cached[old], ![old] = NoEntry]
    BY <1>3 DEF RenamedEntry
  <2>2. NoEntry \in Entry /\ NoEntry.uuid = 0
    BY BoundAssumption DEF NoEntry, Entry
  <2>3. /\ r \in [Name -> Entry] /\ r[new] = cached[old] /\ r[old] = NoEntry
        /\ \A n \in Name \ {old, new} : r[n] = cached[n]
    BY <1>1, <2>1, <2>2
  <2> HIDE DEF r
  <2>4. Names(r) = (Names(cached) \ {old}) \cup {new}
    BY <1>3, <2>2, <2>3 DEF Names
  <2>5. IsFiniteSet(Names(r))
    <3>1. IsFiniteSet(Names(cached) \ {old})
      BY <1>1, FS_RemoveElement
    <3> QED BY <2>4, <3>1, FS_AddElement
  <2>6. ASSUME NEW n \in Names(cached), n # new
        PROVE  cached[n].uuid \in WorkspaceUuids(r)
    BY <1>3, <2>3, <2>4, <2>6 DEF WorkspaceUuids, Names
  <2> QED BY <1>3, <2>3, <2>4, <2>5, <2>6 DEF DocTyped, r
<1> QED BY <1>2, <1>3

LEMMA RenamedInTyped ==
    ASSUME NEW wins, wins \subseteq Window, NEW old, NEW new \in Name
    PROVE  RenamedIn(wins, old, new) \subseteq Window
BY DEF RenamedIn, Window

LEMMA ConfirmRenameWorkspaceTyped ==
    ASSUME Typed, NEW new \in Name, ConfirmRenameWorkspace(new)
    PROVE  /\ Typed'
           /\ \/ Deferred /\ current' = current
              \/ /\ new # dialog.name
                 /\ cached[dialog.name].uuid # 0 => NamedAfter(new) \subseteq replaced'
                 /\ Written(RenamedEntry(dialog.name, new), current')
<1> DEFINE old == dialog.name
<1>1. DialogTyped' /\ old \in Name
  BY ConfirmTyped DEF ConfirmRenameWorkspace, Typed, DialogTyped
<1>2. /\ UNCHANGED <<conn, hidden, live, named, kills, ended, leftover>>
      /\ \/ UNCHANGED <<current, list, cacheVars, windows, hiddenWindows, fileVars, replaced, next>>
         \/ /\ new # old
            /\ list' = Sorted(ReplaceFirst(old, new))
            /\ current' = IF current = old THEN new ELSE current
            /\ windows' = RenamedIn(windows, old, new)
            /\ hiddenWindows' = RenamedIn(hiddenWindows, old, new)
            /\ Flush(RenamedEntry(old, new), current', windows', hiddenWindows', hidden)
            /\ replaced' = replaced \cup (IF cached[old].uuid = 0 THEN {} ELSE NamedAfter(new))
            /\ Take(0, 0, NewUuids(RenamedEntry(old, new), current'), 0, 1)
  BY DEF ConfirmRenameWorkspace
<1> HIDE DEF old
<1>3. CASE UNCHANGED <<current, list, cacheVars, windows, hiddenWindows, fileVars, replaced, next>>
  BY <1>1, <1>2, <1>3 DEF Deferred, Typed, FlagsTyped, NamesTyped, DocTyped,
     Counted, WinTyped, FilesTyped, LiveTyped, cacheVars, fileVars, liveVars, ghostVars
<1>4. CASE /\ new # old
           /\ list' = Sorted(ReplaceFirst(old, new))
           /\ current' = IF current = old THEN new ELSE current
           /\ windows' = RenamedIn(windows, old, new)
           /\ hiddenWindows' = RenamedIn(hiddenWindows, old, new)
           /\ Flush(RenamedEntry(old, new), current', windows', hiddenWindows', hidden)
           /\ replaced' = replaced \cup (IF cached[old].uuid = 0 THEN {} ELSE NamedAfter(new))
           /\ Take(0, 0, NewUuids(RenamedEntry(old, new), current'), 0, 1)
  <2>1. list' \in Seq(Name) /\ Ascends(list')
    BY <1>4, ReplaceFirstTyped, SortedAscends DEF Typed, NamesTyped
  <2>2. current' \in Name
    BY <1>4 DEF Typed, NamesTyped
  <2>3. windows' \subseteq Window /\ hiddenWindows' \subseteq Window /\ hidden \subseteq 1 .. MaxUuid
    BY <1>4, RenamedInTyped DEF Typed, WinTyped
  <2>4. DocTyped(RenamedEntry(old, new))
    BY <1>1, <1>4, RenamedTyped DEF Typed
  <2>5. conn' \in BOOLEAN
    BY <1>2 DEF Typed, FlagsTyped
  <2>6. /\ Written(RenamedEntry(old, new), current') /\ Counted' /\ FlagsTyped'
        /\ DocTyped(cached') /\ FilesTyped'
    BY <1>4, <2>2, <2>3, <2>4, <2>5, FlushedTyped
  <2>7. NamesTyped' /\ WinTyped' /\ LiveTyped'
    BY <1>2, <1>4, <2>1, <2>2, <2>3
       DEF Typed, NamesTyped, WinTyped, LiveTyped, Ascends, NamedAfter
  <2>8. cached[old].uuid # 0 => NamedAfter(new) \subseteq replaced'
    BY <1>4
  <2> QED BY <1>1, <1>2, <1>4, <2>6, <2>7, <2>8 DEF Typed, old
<1> QED BY <1>2, <1>3, <1>4

LEMMA RemovedTyped ==
    ASSUME DocTyped(cached), NEW old \in Name
    PROVE  /\ DocTyped([cached EXCEPT ![old] = NoEntry])
           /\ \A n \in Names(cached) \ {old} :
                /\ n \in Names([cached EXCEPT ![old] = NoEntry])
                /\ [cached EXCEPT ![old] = NoEntry][n].uuid = cached[n].uuid
<1> DEFINE rest == [cached EXCEPT ![old] = NoEntry]
<1>1. NoEntry \in Entry /\ NoEntry.uuid = 0
  BY BoundAssumption DEF NoEntry, Entry
<1>2. cached \in [Name -> Entry] /\ IsFiniteSet(Names(cached))
  BY DEF DocTyped
<1>3. /\ rest \in [Name -> Entry] /\ rest[old] = NoEntry
      /\ \A n \in Name \ {old} : rest[n] = cached[n]
  BY <1>1, <1>2
<1> HIDE DEF rest
<1>4. Names(rest) = Names(cached) \ {old}
  BY <1>1, <1>3 DEF Names
<1>5. IsFiniteSet(Names(rest))
  BY <1>2, <1>4, FS_RemoveElement
<1>6. \A n \in Names(cached) \ {old} : n \in Names(rest) /\ rest[n].uuid = cached[n].uuid
  BY <1>3, <1>4 DEF Names
<1> QED BY <1>3, <1>5, <1>6 DEF DocTyped, rest

LEMMA SessionsTyped ==
    ASSUME DocTyped(cached), NEW n \in Name
    PROVE  Sessions(cached[n].tabs) \subseteq Session /\ Uuids(cached[n].tabs) \subseteq 1 .. MaxUuid
<1>1. cached[n] \in Entry
  BY DEF DocTyped
<1>2. cached[n].tabs \subseteq Saved
  BY <1>1 DEF Entry
<1> QED BY <1>2 DEF Sessions, Uuids, Saved

LEMMA ConfirmDeleteWorkspaceTyped ==
    ASSUME Typed, ConfirmDeleteWorkspace
    PROVE  /\ Typed' /\ dialog.name \in Name
           /\ Written([cached EXCEPT ![dialog.name] = NoEntry], current')
<1> DEFINE old == dialog.name
           rest == [cached EXCEPT ![old] = NoEntry]
           named1 == NamedAfter(old)
<1>1. DialogTyped' /\ old \in Name
  BY ConfirmTyped DEF ConfirmDeleteWorkspace, Typed, DialogTyped
<1>2. /\ list' = ListWithout(old)
      /\ current' = IF current = old THEN Fallback(list') ELSE current
      /\ hidden' = hidden \ Uuids(cached[old].tabs)
      /\ kills' = kills \cup Sessions(cached[old].tabs)
      /\ ended' = ended \cup Sessions(cached[old].tabs)
      /\ leftover' = leftover \cup (named1 \ Sessions(cached[old].tabs)) /\ replaced' = replaced
      /\ Flush(rest, current', windows, hiddenWindows, hidden')
      /\ Take(0, 0, NewUuids(rest, current'), 0, 1)
      /\ UNCHANGED <<conn, windows, hiddenWindows, live, named>>
  BY DEF ConfirmDeleteWorkspace
<1>3. named1 \subseteq live
  BY DEF NamedAfter
<1>4. DocTyped(rest)
  BY <1>1, RemovedTyped DEF Typed
<1> HIDE DEF old, rest, named1
<1>5. list' \in Seq(Name) /\ Ascends(list')
  BY <1>2, ListWithoutAscends DEF Typed, NamesTyped
<1>6. current' \in Name
  BY <1>2, <1>5, FallbackTyped DEF Typed, NamesTyped
<1>7. hidden' \subseteq 1 .. MaxUuid /\ WinTyped'
  BY <1>2 DEF Typed, WinTyped
<1>8. LiveTyped'
  <2>1. Sessions(cached[old].tabs) \subseteq Session
    BY <1>1, SessionsTyped DEF Typed
  <2> QED BY <1>2, <1>3, <2>1 DEF Typed, LiveTyped
<1>9. /\ Written(rest, current') /\ Counted' /\ FlagsTyped'
      /\ DocTyped(cached') /\ FilesTyped'
  BY <1>2, <1>4, <1>6, <1>7, FlushedTyped DEF Typed, WinTyped, FlagsTyped
<1>10. NamesTyped'
  BY <1>5, <1>6 DEF NamesTyped, Ascends
<1> QED BY <1>1, <1>7, <1>8, <1>9, <1>10 DEF Typed, old, rest

LEMMA NothingTyped ==
    /\ DocTyped(NoWorkspaces) /\ Names(NoWorkspaces) = {}
    /\ NoFile \in [there : BOOLEAN, ws : [Name -> Entry], hidden : SUBSET Window]
    /\ NoDevFile \in [there : BOOLEAN, hidden : SUBSET (1 .. MaxUuid), last : Name]
    /\ NoFile.ws = NoWorkspaces /\ NoFile.there = FALSE /\ NoDevFile.there = FALSE
<1>1. NoEntry \in Entry /\ NoEntry.uuid = 0
  BY BoundAssumption DEF NoEntry, Entry
<1>2. NoWorkspaces \in [Name -> Entry] /\ Names(NoWorkspaces) = {}
  BY <1>1 DEF NoWorkspaces, Names
<1>3. NoDevFile \in [there : BOOLEAN, hidden : SUBSET (1 .. MaxUuid), last : Name]
  BY NameAssumption DEF NoDevFile
<1> QED BY <1>2, <1>3, FS_EmptySet DEF DocTyped, NoFile, NoDevFile

LEMMA NoListTyped == <<>> \in Seq(Name) /\ Ascends(<<>>)
BY DEF Ascends

LEMMA ClearAndDisconnectTyped ==
    ASSUME Typed, ClearAndDisconnect
    PROVE  Typed'
<1>1. DialogTyped'
  BY ConfirmTyped DEF ClearAndDisconnect
<1>2. Counted'
  BY TakeCounts DEF Typed, ClearAndDisconnect
<1>3. DocTyped(cached') /\ FilesTyped'
  BY NothingTyped DEF ClearAndDisconnect, DocTyped, FilesTyped
<1>4. NamesTyped'
  BY NoListTyped, NameAssumption DEF ClearAndDisconnect, NamesTyped, Ascends
<1>5. LiveTyped'
  <2>1. Sessions(cached[dialog.name].tabs) \subseteq Session
    BY SessionsTyped DEF Typed, DialogTyped
  <2> QED BY <2>1 DEF ClearAndDisconnect, Typed, LiveTyped
<1>6. FlagsTyped' /\ WinTyped'
  BY DEF ClearAndDisconnect, Typed, FlagsTyped, WinTyped
<1> QED BY <1>1, <1>2, <1>3, <1>4, <1>5, <1>6 DEF Typed

LEMMA DisconnectServerTyped ==
    ASSUME Typed, DisconnectServer
    PROVE  Typed'
<1>1. Counted'
  BY TakeCounts DEF Typed, DisconnectServer
<1>2. DocTyped(cached')
  BY NothingTyped DEF DisconnectServer
<1>3. WinTyped'
  BY TabsOfTyped DEF DisconnectServer, Typed, WinTyped
<1>4. FilesTyped' /\ LiveTyped' /\ NamesTyped' /\ DialogTyped' /\ FlagsTyped'
  BY DEF DisconnectServer, Typed, FilesTyped, LiveTyped, NamesTyped, DialogTyped, FlagsTyped,
         fileVars, liveVars, ghostVars
<1> QED BY <1>1, <1>2, <1>3, <1>4 DEF Typed

LEMMA RestartTyped ==
    ASSUME Typed, Restart
    PROVE  Typed'
<1>1. Counted'
  BY TakeCounts DEF Typed, Restart
<1>2. DocTyped(cached')
  BY NothingTyped DEF Restart
<1>3. NamesTyped'
  BY NoListTyped, NameAssumption DEF Restart, NamesTyped, Ascends
<1>4. FilesTyped' /\ LiveTyped' /\ FlagsTyped' /\ WinTyped'
  BY DEF Restart, Typed, FilesTyped, LiveTyped, FlagsTyped, WinTyped, fileVars, ghostVars
<1>5. DialogTyped'
  BY NameAssumption DEF Restart, DialogTyped, NoDialog
<1> QED BY <1>1, <1>2, <1>3, <1>4, <1>5 DEF Typed

LEMMA OtherDeviceCreatesTyped ==
    ASSUME Typed, NEW n \in Name, OtherDeviceCreates(n)
    PROVE  Typed'
<1> DEFINE e == [uuid |-> next.ws,
                 tabs |-> {[uuid |-> next.uuid, tmux |-> next.session, win |-> next.win]}]
<1>1. /\ Take(1, 1, 1, 1, 1)
      /\ file' = [file EXCEPT !.ws[n] = e]
      /\ seen' = FALSE
      /\ live' = live \cup {next.session}
      /\ named' = [named EXCEPT ![next.session] = next.ws]
      /\ UNCHANGED <<conn, current, list, cached, dirty, recent, winVars, dialog, devfile, kills, ghostVars>>
  BY DEF OtherDeviceCreates
<1>2. /\ Counted'
      /\ next.uuid + 1 <= MaxUuid + 1 /\ next.session + 1 <= MaxSession + 1
      /\ next.ws + 1 <= MaxWorkspace + 1 /\ next.win + 1 <= MaxWindow + 1
  BY <1>1, TakeCounts DEF Typed
<1>3. /\ next.uuid \in 1 .. MaxUuid /\ next.session \in Session
      /\ next.ws \in 1 .. MaxWorkspace /\ next.win \in 0 .. MaxWindow
      /\ next.ws \in 0 .. MaxWorkspace
  BY <1>2, BoundAssumption DEF Typed, Counted, Session
<1>4. e \in Entry
  BY <1>3 DEF Entry, Saved
<1> HIDE DEF e
<1>5. FilesTyped'
  <2>1. file \in [there : BOOLEAN, ws : [Name -> Entry], hidden : SUBSET Window]
    BY DEF Typed, FilesTyped
  <2>2. /\ file'.there = file.there /\ file'.hidden = file.hidden
        /\ file'.ws = [file.ws EXCEPT ![n] = e]
        /\ file' \in [there : BOOLEAN, ws : [Name -> Entry], hidden : SUBSET Window]
    BY <1>1, <1>4, <2>1
  <2>3. Names(file'.ws) \in SUBSET (Names(file.ws) \cup {n})
    BY <2>1, <2>2 DEF Names
  <2>4. IsFiniteSet(Names(file.ws) \cup {n})
    BY FS_AddElement DEF Typed, FilesTyped
  <2>5. IsFiniteSet(Names(file'.ws))
    BY <2>3, <2>4, FS_Subset
  <2> QED BY <1>1, <2>2, <2>5 DEF Typed, FilesTyped
<1>6. LiveTyped'
  BY <1>1, <1>3 DEF Typed, LiveTyped, ghostVars
<1>7. FlagsTyped' /\ NamesTyped' /\ WinTyped' /\ DialogTyped' /\ DocTyped(cached')
  BY <1>1 DEF Typed, FlagsTyped, NamesTyped, WinTyped, DialogTyped, winVars
<1> QED BY <1>2, <1>5, <1>6, <1>7 DEF Typed

LEMMA LoadedTyped ==
    ASSUME Typed, ~file.there => next.ws + 1 <= MaxWorkspace + 1
    PROVE  LET ws == IF file.there THEN file.ws
                     ELSE [NoWorkspaces EXCEPT ![current].uuid = next.ws]
           IN  DocTyped(ws) /\ (~file.there => Names(ws) = {current})
<1> DEFINE ws == IF file.there THEN file.ws
                 ELSE [NoWorkspaces EXCEPT ![current].uuid = next.ws]
<1>1. CASE file.there
  BY <1>1 DEF Typed, FilesTyped, DocTyped
<1>2. CASE ~file.there
  <2>1. NoWorkspaces \in [Name -> Entry] /\ current \in Name
    BY NothingTyped DEF DocTyped, Typed, NamesTyped
  <2>2. next.ws \in 0 .. MaxWorkspace /\ next.ws # 0
    BY <1>2, BoundAssumption DEF Typed, Counted
  <2>3. ws = [NoWorkspaces EXCEPT ![current].uuid = next.ws]
    BY <1>2
  <2>4. /\ ws \in [Name -> Entry] /\ ws[current].uuid = next.ws
        /\ \A n \in Name \ {current} : ws[n] = NoWorkspaces[n]
    <3> DEFINE e == [NoWorkspaces[current] EXCEPT !.uuid = next.ws]
    <3>1. NoWorkspaces[current] \in Entry
      BY <2>1
    <3>2. e \in Entry /\ e.uuid = next.ws
      BY <2>2, <3>1 DEF Entry
    <3>3. ws = [NoWorkspaces EXCEPT ![current] = e]
      BY <2>3
    <3> HIDE DEF e, ws
    <3> QED BY <2>1, <3>2, <3>3
  <2>5. \A n \in Name : NoWorkspaces[n].uuid = 0
    BY DEF NoWorkspaces, NoEntry
  <2> HIDE DEF ws
  <2>6. Names(ws) = {current}
    BY <2>1, <2>2, <2>4, <2>5 DEF Names
  <2>7. IsFiniteSet(Names(ws))
    BY <2>6, FS_Singleton
  <2> QED BY <2>4, <2>6, <2>7 DEF DocTyped, ws
<1> QED BY <1>1, <1>2

\* The tab of the session s when those in restored get new uuids in their order.
NewTabOf(s, restored) ==
    [uuid |-> next.uuid + Cardinality({r \in restored : r < s}), tmux |-> s]

LEMMA NewTabOfTyped ==
    ASSUME Counted, NEW restored \in SUBSET Session, NEW s \in restored,
           next.uuid + Cardinality(restored) <= MaxUuid + 1
    PROVE  NewTabOf(s, restored) \in Tab
<1> DEFINE before == {r \in restored : r < s}
<1>1. IsFiniteSet(restored)
  BY TabsAreFinite, FS_Subset
<1>2. before \in SUBSET restored /\ before # restored
  <2> Session \subseteq Nat
    BY DEF Session
  <2> QED OBVIOUS
<1>3. /\ Cardinality(restored) \in Nat /\ Cardinality(before) \in Nat
      /\ Cardinality(before) < Cardinality(restored)
  BY <1>1, <1>2, RankIsLess
<1>4. next.uuid \in 1 .. MaxUuid + 1 /\ MaxUuid \in Nat
  BY BoundAssumption DEF Counted
<1>5. NewTabOf(s, restored) = [uuid |-> next.uuid + Cardinality(before), tmux |-> s]
  BY DEF NewTabOf
<1> HIDE DEF before
<1>6. next.uuid + Cardinality(before) \in 1 .. MaxUuid
  BY <1>3, <1>4
<1> QED BY <1>5, <1>6 DEF Tab

\* On connecting, the cache and the file are the same.
ServerConnectedWrites(ws, cur) ==
    /\ DocTyped(ws) /\ cur \in Name
    /\ ws = IF file.there THEN file.ws ELSE [NoWorkspaces EXCEPT ![current].uuid = next.ws]
    /\ ~file.there => Names(ws) = {current}
    /\ cur = IF devfile.there THEN devfile.last ELSE current
    /\ current' = cur
    /\ Written(ws, cur)
    /\ UNCHANGED ghostVars
    /\ \/ UNCHANGED <<live, named>>
       \/ /\ live' = live \cup {next.session}
          /\ named' = [named EXCEPT ![next.session] = ws[cur].uuid]

LEMMA RestoredWindowsTyped ==
    ASSUME NEW saved, saved \subseteq Saved, current \in Name, Counted,
           saved = {} => next.win + 1 <= MaxWindow + 1
    PROVE  RestoredWindows(saved) \subseteq Window
<1> DEFINE ids == IF saved = {} THEN {next.win} ELSE {t.win : t \in saved}
<1>1. ids \subseteq 0 .. MaxWindow
  BY BoundAssumption DEF Counted, Saved
<1>2. RestoredWindows(saved) = {[id |-> i, env |-> current, tabs |-> {}] : i \in ids}
  BY DEF RestoredWindows
<1> HIDE DEF ids
<1> QED BY <1>1, <1>2 DEF Window

LEMMA ServerConnectedTyped ==
    ASSUME Typed, ServerConnected
    PROVE  Typed' /\ conn' = TRUE /\ ~conn /\ \E ws, cur : ServerConnectedWrites(ws, cur)
<1> DEFINE ws == IF file.there THEN file.ws
                 ELSE [NoWorkspaces EXCEPT ![current].uuid = next.ws]
           wins == RestoredWindows(ws[current].tabs)
           cur == IF devfile.there THEN devfile.last ELSE current
           entry == ws[cur]
           loaded == IF devfile.there THEN devfile.hidden ELSE hidden
           hid == IF entry.tabs = {} THEN loaded ELSE loaded \cap Uuids(entry.tabs)
           restored == Restorable(entry, hid)
           hws == IF file.there THEN file.hidden ELSE hiddenWindows
           uuids == IF restored = {} THEN 1 ELSE Cardinality(restored)
           sessions == IF restored = {} THEN 1 ELSE 0
           wss == IF file.there THEN NewUuids(ws, cur) ELSE 1
           newWins == IF ws[current].tabs = {} THEN 1 ELSE 0
           doc == Layout(ws, cur, windows')
<1>1. /\ ~conn
      /\ Take(uuids, sessions, wss, newWins, 0)
      /\ conn' = TRUE /\ current' = cur /\ list' = SortedNames(ws)
      /\ hidden' = hid /\ hiddenWindows' = hws
      /\ cached' = doc
      /\ file' = [there |-> TRUE, ws |-> doc, hidden |-> hws]
      /\ devfile' = [there |-> TRUE, hidden |-> hid, last |-> cur]
      /\ seen' = FALSE /\ dirty' = FALSE /\ recent' = TRUE
      /\ UNCHANGED <<dialog, kills, ghostVars>>
  BY DEF ServerConnected
<1>2. IF restored = {}
      THEN /\ live' = live \cup {next.session}
           /\ named' = [named EXCEPT ![next.session] = entry.uuid]
      ELSE UNCHANGED <<live, named>>
  BY DEF ServerConnected
<1>3. PICK focused \in wins :
        windows' = {[w EXCEPT !.tabs =
             IF restored # {}
             THEN {NewTabOf(s, restored) : s \in RestoredIn(w, focused, wins, entry, restored)}
             ELSE IF w = focused THEN {FreshTab} ELSE {}] : w \in wins}
  BY Zenon DEF ServerConnected, NewTabOf
<1>4. restored \subseteq live /\ restored \subseteq Session
  BY DEF Restorable, Typed, LiveTyped
<1>5. \A w : RestoredIn(w, focused, wins, entry, restored) \subseteq restored
  BY DEF RestoredIn
<1>6. loaded \subseteq 1 .. MaxUuid /\ cur \in Name /\ hws \subseteq Window /\ current \in Name
  BY DEF Typed, WinTyped, FilesTyped, NamesTyped
<1>7. hid \subseteq 1 .. MaxUuid
  BY <1>6
<1>8. (file.there => wss = NewUuids(ws, cur)) /\ (~file.there => wss = 1)
  OBVIOUS
<1>9. /\ wss \in Nat /\ uuids \in Nat /\ sessions \in Nat /\ newWins \in Nat
      /\ restored # {} => uuids = Cardinality(restored)
      /\ restored = {} => uuids = 1 /\ sessions = 1
      /\ ws[current].tabs = {} => newWins = 1
  BY <1>4, NewUuidsTyped, TabsAreFinite, FS_Subset, FS_CardinalityType
<1> HIDE DEF wss, uuids, sessions, newWins, restored, hws, loaded
<1>10. /\ Counted'
       /\ next.uuid + uuids <= MaxUuid + 1 /\ next.session + sessions <= MaxSession + 1
       /\ next.ws + wss <= MaxWorkspace + 1 /\ next.win + newWins <= MaxWindow + 1
  BY <1>1, <1>9, TakeCounts DEF Typed
<1>11. DocTyped(ws) /\ (~file.there => Names(ws) = {current})
  BY <1>8, <1>10, LoadedTyped
<1>12. Room(ws, cur)
  <2>1. next.ws \in Nat /\ MaxWorkspace \in Nat
    BY BoundAssumption DEF Typed, Counted
  <2>2. NewUuids(ws, cur) \in {0, 1}
    BY DEF NewUuids
  <2> HIDE DEF ws, cur
  <2> QED BY <1>8, <1>10, <2>1, <2>2 DEF Room, Typed
<1>13. ws = IF file.there THEN file.ws ELSE [NoWorkspaces EXCEPT ![current].uuid = next.ws]
  OBVIOUS
<1>14. cur = IF devfile.there THEN devfile.last ELSE current
  OBVIOUS
<1> HIDE DEF ws, cur, hid
<1>15. wins \subseteq Window
  <2>1. ws[current] \in Entry
    BY <1>6, <1>11 DEF DocTyped
  <2>2. ws[current].tabs \subseteq Saved
    BY <2>1 DEF Entry
  <2> QED BY <1>6, <1>9, <1>10, <2>2, RestoredWindowsTyped DEF Typed
<1> HIDE DEF wins
<1>16. windows' \subseteq Window
  <2> DEFINE tabs(w) ==
             IF restored # {}
             THEN {NewTabOf(s, restored) : s \in RestoredIn(w, focused, wins, entry, restored)}
             ELSE IF w = focused THEN {FreshTab} ELSE {}
  <2>1. windows' = {[w EXCEPT !.tabs = tabs(w)] : w \in wins}
    BY <1>3
  <2>2. ASSUME NEW w \in wins PROVE tabs(w) \in SUBSET Tab
    <3>1. CASE restored # {}
      <4>1. \A s \in restored : NewTabOf(s, restored) \in Tab
        BY <1>4, <1>9, <1>10, <3>1, NewTabOfTyped DEF Typed
      <4> HIDE DEF entry
      <4>2. RestoredIn(w, focused, wins, entry, restored) \subseteq restored
        BY <1>5
      <4>3. tabs(w) = {NewTabOf(s, restored) : s \in RestoredIn(w, focused, wins, entry, restored)}
        BY <3>1
      <4> QED BY <4>1, <4>2, <4>3
    <3>2. CASE restored = {}
      <4>1. FreshTab \in Tab
        BY <1>9, <1>10, <3>2, FreshTabTyped DEF Typed
      <4> QED BY <3>2, <4>1
    <3> QED BY <3>1, <3>2
  <2> HIDE DEF tabs
  <2>3. \A w \in wins : [w EXCEPT !.tabs = tabs(w)] \in Window
    BY <1>15, <2>2, WindowFields
  <2> QED BY <2>1, <2>3
<1>17. /\ DocTyped(doc)
       /\ Names(doc) = Names(ws) \cup {cur}
       /\ \A n \in Names(ws) : doc[n].uuid = ws[n].uuid
  BY <1>6, <1>11, <1>12, <1>16, LayoutTyped
<1> HIDE DEF doc
<1>18. DocTyped(cached') /\ FilesTyped'
  <2>1. file' \in [there : BOOLEAN, ws : [Name -> Entry], hidden : SUBSET Window]
    BY <1>1, <1>6, <1>17 DEF DocTyped
  <2>2. devfile' \in [there : BOOLEAN, hidden : SUBSET (1 .. MaxUuid), last : Name]
    BY <1>1, <1>6, <1>7
  <2> QED BY <1>1, <1>17, <2>1, <2>2 DEF FilesTyped, DocTyped
<1>19. Written(ws, cur)
  BY <1>1, <1>17, <1>18 DEF Written
<1>20. LiveTyped' /\ UNCHANGED ghostVars
       /\ \/ UNCHANGED <<live, named>>
          \/ /\ live' = live \cup {next.session}
             /\ named' = [named EXCEPT ![next.session] = ws[cur].uuid]
  <2>1. CASE restored = {}
    <3>1. next.session \in Session
      BY <1>9, <1>10, <2>1, FreshTabTyped DEF Typed
    <3>2. ws[cur].uuid \in 0 .. MaxWorkspace
      BY <1>6, <1>11 DEF DocTyped, Entry
    <3> QED BY <1>1, <1>2, <2>1, <3>1, <3>2 DEF Typed, LiveTyped, ghostVars
  <2>2. CASE restored # {}
    BY <1>1, <1>2, <2>2 DEF Typed, LiveTyped, ghostVars
  <2> QED BY <2>1, <2>2
<1>21. NamesTyped'
  <2>1. SortedNames(ws) \in Seq(Name) /\ Ascends(SortedNames(ws))
    BY <1>11, SortedNamesAscend DEF DocTyped
  <2> QED BY <1>1, <1>6, <2>1 DEF NamesTyped, Ascends
<1>22. FlagsTyped' /\ WinTyped' /\ DialogTyped'
  BY <1>1, <1>6, <1>7, <1>16 DEF Typed, FlagsTyped, WinTyped, DialogTyped
<1>23. ServerConnectedWrites(ws, cur)
  BY <1>1, <1>6, <1>11, <1>13, <1>14, <1>19, <1>20 DEF ServerConnectedWrites
<1> QED BY <1>1, <1>10, <1>18, <1>20, <1>21, <1>22, <1>23 DEF Typed

LEMMA AddedTyped ==
    ASSUME Counted, NEW news \in SUBSET Saved, next.uuid + Cardinality(news) <= MaxUuid + 1,
           NEW w \in Window, NEW ts \in SUBSET news
    PROVE  [w EXCEPT !.tabs = @ \cup Reopened(ts, news)] \in Window
<1>1. IsFiniteSet(news)
  BY TabsAreFinite, FS_Subset
<1>2. \A t \in news : t.uuid \in Nat /\ t.tmux \in Session
  BY BoundAssumption DEF Saved
<1>3. Reopened(ts, news) \subseteq Tab
  BY <1>1, <1>2, ReopenedTyped
<1>4. w.tabs \cup Reopened(ts, news) \in SUBSET Tab
  BY <1>3, WindowFields
<1> QED BY <1>4, WindowFields

LEMMA ControlWindowTyped == ControlWindow \in Window
BY BoundAssumption DEF ControlWindow, Window

\* The cache after a report is the file as it was; a flush in the handler writes
\* the old cache, with the current workspace, over it.
Reported ==
    /\ cached' = file.ws
    /\ \/ file' = file /\ devfile' = devfile
       \/ /\ file'.there /\ devfile'.there /\ devfile'.last = current
          /\ current \in Names(file'.ws)
          /\ \A n \in Names(cached) : n \in Names(file'.ws) /\ file'.ws[n].uuid = cached[n].uuid
          /\ \A n \in Names(file.ws) :
                /\ n \in Names(file'.ws)
                /\ n \notin Names(cached) \cup {current} => file'.ws[n].uuid = file.ws[n].uuid

LEMMA RemoteStateChangedTyped ==
    ASSUME Typed, RemoteStateChanged
    PROVE  Typed' /\ Reported /\ conn /\ file.there /\ UNCHANGED <<conn, current, live, named, ghostVars>>
<1> DEFINE news == {t \in file.ws[current].tabs :
                      t.uuid \notin Uuids(TabsOf(windows)) \cup hidden}
           wins == IF windows = {} THEN {ControlWindow} ELSE windows
           In(w, focused) ==
               {t \in news : IF t.win \in {v.id : v \in wins} THEN w.id = t.win ELSE w = focused}
           Opened(ts) == {[w EXCEPT !.tabs = @ \cup Reopened(In(w, ts.focused) \cap ts.tabs, news)] : w \in wins}
           wss == IF news = {} \/ recent THEN 0 ELSE NewUuids(cached, current)
<1>1. /\ conn /\ file.there
      /\ list' = SortedNames(file.ws)
      /\ cached' = file.ws
      /\ Take(Cardinality(news), 0, wss, 0, 0)
      /\ UNCHANGED <<conn, current, hiddenWindows, hidden, dialog, liveVars>>
  BY DEF RemoteStateChanged, ListAfter
<1>2. IF news = {}
      THEN /\ seen' = TRUE
           /\ UNCHANGED <<windows, dirty, recent, fileVars>>
      ELSE \E focused \in wins :
            /\ windows' = Opened([focused |-> focused, tabs |-> news])
            /\ \/ /\ recent
                  /\ seen' = TRUE /\ dirty' = TRUE
                  /\ UNCHANGED <<recent, fileVars>>
               \/ /\ ~recent
                  /\ \E t \in news :
                       LET doc == Layout(cached, current, Opened([focused |-> focused, tabs |-> {t}])) IN
                       /\ file' = [there |-> TRUE, ws |-> MergeWorkspaces(doc, file.ws),
                                   hidden |-> MergeHidden(hiddenWindows, file.hidden)]
                       /\ devfile' = [there |-> TRUE, hidden |-> hidden, last |-> current]
                  /\ seen' = FALSE /\ recent' = TRUE
                  /\ dirty' = (Cardinality(news) > 1)
  BY DEF RemoteStateChanged
<1>3. /\ DocTyped(file.ws) /\ file.hidden \subseteq Window /\ current \in Name
      /\ windows \subseteq Window /\ hiddenWindows \subseteq Window /\ hidden \subseteq 1 .. MaxUuid
  BY DEF Typed, FilesTyped, DocTyped, NamesTyped, WinTyped
<1>4. news \in SUBSET Saved
  <2>1. file.ws[current] \in Entry
    BY <1>3 DEF DocTyped
  <2> QED BY <2>1 DEF Entry
<1>5. wins \subseteq Window
  BY <1>3, ControlWindowTyped
<1>6. \A w, focused : In(w, focused) \subseteq news
  OBVIOUS
<1>7. ~(news = {} \/ recent) => wss = NewUuids(cached, current)
  OBVIOUS
<1>8. wss \in Nat
  BY NewUuidsTyped
<1> HIDE DEF news, wins, In, wss
<1>9. Cardinality(news) \in Nat
  BY <1>4, TabsAreFinite, FS_Subset, FS_CardinalityType
<1>10. /\ Counted' /\ next.uuid + Cardinality(news) <= MaxUuid + 1
       /\ next.ws + wss <= MaxWorkspace + 1
  BY <1>1, <1>8, <1>9, TakeCounts DEF Typed
<1>11. ASSUME NEW ts
       PROVE  Opened(ts) \subseteq Window
  <2>1. ASSUME NEW w \in wins
        PROVE  [w EXCEPT !.tabs = @ \cup Reopened(In(w, ts.focused) \cap ts.tabs, news)] \in Window
    <3>1. In(w, ts.focused) \cap ts.tabs \in SUBSET news /\ w \in Window
      BY <1>5, <1>6
    <3> QED BY <1>4, <1>10, <3>1, AddedTyped DEF Typed
  <2> QED BY <2>1
<1> HIDE DEF Opened
<1>12. /\ windows' \subseteq Window /\ seen' \in BOOLEAN /\ dirty' \in BOOLEAN /\ recent' \in BOOLEAN
       /\ FilesTyped' /\ Reported
  <2>1. CASE news = {}
    BY <1>1, <1>2, <1>3, <2>1 DEF Typed, FlagsTyped, FilesTyped, Reported, fileVars
  <2>2. CASE news # {}
    <3>1. PICK focused \in wins :
            /\ windows' = Opened([focused |-> focused, tabs |-> news])
            /\ \/ /\ recent
                  /\ seen' = TRUE /\ dirty' = TRUE
                  /\ UNCHANGED <<recent, fileVars>>
               \/ /\ ~recent
                  /\ \E t \in news :
                       LET doc == Layout(cached, current, Opened([focused |-> focused, tabs |-> {t}])) IN
                       /\ file' = [there |-> TRUE, ws |-> MergeWorkspaces(doc, file.ws),
                                   hidden |-> MergeHidden(hiddenWindows, file.hidden)]
                       /\ devfile' = [there |-> TRUE, hidden |-> hidden, last |-> current]
                  /\ seen' = FALSE /\ recent' = TRUE
                  /\ dirty' = (Cardinality(news) > 1)
      BY <1>2, <2>2
    <3>2. windows' \subseteq Window
      BY <1>11, <3>1
    <3>3. CASE recent /\ seen' = TRUE /\ dirty' = TRUE /\ UNCHANGED <<recent, fileVars>>
      BY <1>1, <3>2, <3>3 DEF Typed, FlagsTyped, FilesTyped, Reported, fileVars
    <3>4. CASE /\ ~recent
               /\ \E t \in news :
                    LET doc == Layout(cached, current, Opened([focused |-> focused, tabs |-> {t}])) IN
                    /\ file' = [there |-> TRUE, ws |-> MergeWorkspaces(doc, file.ws),
                                hidden |-> MergeHidden(hiddenWindows, file.hidden)]
                    /\ devfile' = [there |-> TRUE, hidden |-> hidden, last |-> current]
               /\ seen' = FALSE /\ recent' = TRUE
               /\ dirty' = (Cardinality(news) > 1)
      <4>1. PICK t \in news :
              /\ file' = [there |-> TRUE,
                          ws |-> MergeWorkspaces(
                              Layout(cached, current, Opened([focused |-> focused, tabs |-> {t}])),
                              file.ws),
                          hidden |-> MergeHidden(hiddenWindows, file.hidden)]
              /\ devfile' = [there |-> TRUE, hidden |-> hidden, last |-> current]
        BY <3>4
      <4> DEFINE doc == Layout(cached, current, Opened([focused |-> focused, tabs |-> {t}]))
                 m == MergeWorkspaces(doc, file.ws)
                 hw == MergeHidden(hiddenWindows, file.hidden)
      <4>2. Opened([focused |-> focused, tabs |-> {t}]) \subseteq Window
        BY <1>11
      <4>3. Room(cached, current)
        BY <1>7, <1>10, <2>2, <3>4 DEF Room, Typed
      <4>4. /\ DocTyped(doc) /\ Names(doc) = Names(cached) \cup {current}
            /\ \A n \in Names(cached) : doc[n].uuid = cached[n].uuid
        BY <1>3, <4>2, <4>3, LayoutTyped DEF Typed
      <4> HIDE DEF doc
      <4>5. /\ DocTyped(m) /\ Names(m) = Names(doc) \cup Names(file.ws)
            /\ \A n \in Names(doc) : m[n].uuid = doc[n].uuid
            /\ \A n \in Names(file.ws) \ Names(doc) : m[n].uuid = file.ws[n].uuid
        BY <1>3, <4>4, MergeTyped
      <4>6. hw \subseteq Window
        BY <1>3, MergeHiddenTyped
      <4>7. /\ file' = [there |-> TRUE, ws |-> m, hidden |-> hw]
            /\ devfile' = [there |-> TRUE, hidden |-> hidden, last |-> current]
        BY <4>1 DEF doc
      <4> HIDE DEF m, hw
      <4>8. FilesTyped'
        <5>1. file' \in [there : BOOLEAN, ws : [Name -> Entry], hidden : SUBSET Window]
          BY <4>5, <4>6, <4>7 DEF DocTyped
        <5>2. devfile' \in [there : BOOLEAN, hidden : SUBSET (1 .. MaxUuid), last : Name]
          BY <1>3, <4>7
        <5>3. IsFiniteSet(Names(file'.ws))
          BY <4>5, <4>7 DEF DocTyped
        <5> QED BY <5>1, <5>2, <5>3 DEF FilesTyped
      <4>9. Reported
        BY <1>1, <4>4, <4>5, <4>7 DEF Reported
      <4>10. dirty' \in BOOLEAN
        BY <3>4
      <4> QED BY <3>2, <3>4, <4>8, <4>9, <4>10
    <3> QED BY <3>1, <3>3, <3>4
  <2> QED BY <2>1, <2>2
<1>13. NamesTyped'
  <2>1. SortedNames(file.ws) \in Seq(Name) /\ Ascends(SortedNames(file.ws))
    BY <1>3, SortedNamesAscend DEF DocTyped
  <2> QED BY <1>1, <1>3, <2>1 DEF NamesTyped, Ascends
<1>14. DocTyped(cached')
  BY <1>1, <1>3
<1>15. LiveTyped' /\ DialogTyped' /\ WinTyped' /\ FlagsTyped'
  BY <1>1, <1>12 DEF Typed, LiveTyped, DialogTyped, WinTyped, FlagsTyped, liveVars, ghostVars
<1> QED BY <1>1, <1>10, <1>12, <1>13, <1>14, <1>15 DEF Typed, liveVars, ghostVars

-----------------------------------------------------------------------------
(* The type invariant. *)

LEMMA TypedInit == Init => Typed
<1> SUFFICES ASSUME Init PROVE Typed
  OBVIOUS
<1>1. DocTyped(cached) /\ FilesTyped
  BY NothingTyped DEF Init, FilesTyped, DocTyped
<1>2. NamesTyped /\ DialogTyped
  BY NoListTyped, NameAssumption DEF Init, NamesTyped, DialogTyped, NoDialog
<1>3. LiveTyped
  BY BoundAssumption DEF Init, LiveTyped
<1>4. Counted
  BY BoundAssumption DEF Init, Counted
<1> QED BY <1>1, <1>2, <1>3, <1>4 DEF Init, Typed, FlagsTyped, WinTyped

LEMMA TypedNext == Typed /\ [Next]_vars => Typed'
<1> SUFFICES ASSUME Typed, [Next]_vars PROVE Typed'
  OBVIOUS
<1>1. CASE ServerConnected
  BY <1>1, ServerConnectedTyped
<1>2. CASE DisconnectServer
  BY <1>2, DisconnectServerTyped
<1>3. CASE Restart
  BY <1>3, RestartTyped
<1>4. CASE NewWindow
  BY <1>4, NewWindowKeepsTypes
<1>5. ASSUME NEW w \in windows, NewTab(w) PROVE Typed'
  BY <1>5, NewTabTyped
<1>6. ASSUME NEW w \in windows, CloseWindow(w) PROVE Typed'
  BY <1>6, CloseWindowTyped
<1>7. ASSUME NEW w \in windows, NEW t \in w.tabs, CloseTab(w, t) PROVE Typed'
  BY <1>7, CloseTabTyped
<1>8. ASSUME NEW n \in Name, NewWindowForWorkspace(n) PROVE Typed'
  BY <1>8, NewWindowForWorkspaceTyped
<1>9. ASSUME NEW n \in Name, RestoreHiddenWindows(n) PROVE Typed'
  BY <1>9, RestoreHiddenWindowsTyped
<1>10. ASSUME NEW s \in kills, ExecuteKill(s) PROVE Typed'
  BY <1>10, ExecuteKillTyped
<1>11. CASE \/ \E kind \in {"create", "rename", "remove"}, n \in Name : ShowDialog(kind, n)
            \/ CancelDialog
  BY <1>11, DialogStepTyped
<1>12. ASSUME NEW n \in Name, ConfirmNewWorkspace(n) PROVE Typed'
  BY <1>12, ConfirmNewWorkspaceTyped
<1>13. ASSUME NEW n \in Name, ConfirmRenameWorkspace(n) PROVE Typed'
  BY <1>13, ConfirmRenameWorkspaceTyped
<1>14. CASE ConfirmDeleteWorkspace
  BY <1>14, ConfirmDeleteWorkspaceTyped
<1>15. CASE ClearAndDisconnect
  BY <1>15, ClearAndDisconnectTyped
<1>16. CASE FlushTimer
  BY <1>16, FlushTimerTyped
<1>17. CASE DebounceOver
  BY <1>17, DebounceOverTyped
<1>18. CASE RemoteStateChanged
  BY <1>18, RemoteStateChangedTyped
<1>19. ASSUME NEW n \in Name, OtherDeviceCreates(n) PROVE Typed'
  BY <1>19, OtherDeviceCreatesTyped
<1>20. CASE UNCHANGED vars
  BY <1>20 DEF vars, cacheVars, winVars, fileVars, liveVars, ghostVars, Typed, FlagsTyped, NamesTyped,
     DocTyped, DialogTyped, WinTyped, FilesTyped, LiveTyped, Counted
<1> QED BY <1>1, <1>2, <1>3, <1>4, <1>5, <1>6, <1>7, <1>8, <1>9, <1>10, <1>11, <1>12, <1>13,
           <1>14, <1>15, <1>16, <1>17, <1>18, <1>19, <1>20 DEF Next

LEMMA AlwaysTyped == Spec => []Typed
<1>1. Init => Typed
  BY TypedInit
<1>2. Typed /\ [Next]_vars => Typed'
  BY TypedNext
<1> QED BY <1>1, <1>2, PTL DEF Spec

\* Whatever becomes of the connection, the windows and the workspaces, every
\* variable has its type; the workspace that is current, and each that the dialogs
\* list, has a name a workspace can have, and the list stays sorted.
THEOREM TypeCorrect == Spec => []TypeOK
<1>1. Typed => TypeOK
  BY TypedIsTypeOK
<1> QED BY <1>1, AlwaysTyped, PTL

-----------------------------------------------------------------------------
(***************************************************************************)
(* No session gets out of reach.  A session is found again by the uuid in  *)
(* its name, so what is kept is that this uuid belongs to a workspace: of  *)
(* the cache while a server is connected, of the file when none is.  For   *)
(* the one to become the other, on a disconnect, the file must have every  *)
(* workspace of the cache under the same uuid; and for the next connection *)
(* to start sessions under a uuid that is kept, the device file must name  *)
(* a workspace of the file, and the file be there whenever it is.          *)
(***************************************************************************)
\* The sessions of which SessionsKept says nothing.
Exempt == ended \cup leftover \cup replaced

InStep ==
    /\ file.there /\ current \in Names(cached)
    /\ \A n \in Names(cached) : n \in Names(file.ws) /\ file.ws[n].uuid = cached[n].uuid

DeviceKnows ==
    /\ file.there = devfile.there
    /\ file.there => devfile.last \in Names(file.ws)
    /\ ~file.there => Names(file.ws) = {}

Carried ==
    \A s \in live \ Exempt : named[s] \in WorkspaceUuids(IF conn THEN cached ELSE file.ws)

Kept == (conn => InStep) /\ DeviceKnows /\ Carried

LEMMA KeptIsSessionsKept == Kept => SessionsKept
<1> SUFFICES ASSUME Kept, NEW s \in live \ Exempt PROVE Reachable(s)
  BY DEF SessionsKept, Exempt
<1>1. named[s] \in WorkspaceUuids(cached) \cup WorkspaceUuids(file.ws)
  BY DEF Kept, Carried
<1>2. \E entry \in Known : named[s] = entry.uuid
  BY <1>1 DEF WorkspaceUuids, Known
<1> QED BY <1>2 DEF Reachable

LEMMA WrittenUuids ==
    ASSUME NEW ws, NEW cur, Written(ws, cur)
    PROVE  WorkspaceUuids(ws) \subseteq WorkspaceUuids(cached')
BY DEF Written, WorkspaceUuids

LEMMA KeptByWrite ==
    ASSUME NEW ws, NEW cur, Written(ws, cur), conn', current' \in Names(cached'),
           \A s \in live' \ Exempt' : named'[s] \in WorkspaceUuids(ws)
    PROVE  Kept'
<1>1. \A s \in live' \ Exempt' : named'[s] \in WorkspaceUuids(cached')
  BY WrittenUuids
<1>2. InStep'
  BY DEF Written, InStep
<1>3. DeviceKnows'
  BY DEF Written, DeviceKnows
<1>4. Carried'
  BY <1>1 DEF Carried, WorkspaceUuids
<1> QED BY <1>2, <1>3, <1>4 DEF Kept

\* What most actions do: write the cache or put it off.
LEMMA KeptBySave ==
    ASSUME Kept, conn, UNCHANGED <<conn, current>>, NEW n, Written(cached, n) \/ Deferred,
           \A s \in live' \ Exempt' : named'[s] \in WorkspaceUuids(cached)
    PROVE  Kept'
<1>1. current \in Names(cached)
  BY DEF Kept, InStep
<1>2. CASE Written(cached, n)
  <2>1. conn' /\ current' \in Names(cached')
    BY <1>1, <1>2 DEF Written
  <2> QED BY <1>2, <2>1, KeptByWrite
<1>3. CASE Deferred
  BY <1>3 DEF Deferred, Kept, InStep, DeviceKnows, Carried, WorkspaceUuids, Names
<1> QED BY <1>2, <1>3

\* The sessions are those that were there, some of them ended.
LEMMA SessionsStay ==
    ASSUME Kept, conn, live' \subseteq live, Exempt \subseteq Exempt', named' = named
    PROVE  \A s \in live' \ Exempt' : named'[s] \in WorkspaceUuids(cached)
BY DEF Kept, Carried

LEMMA SessionStarts ==
    ASSUME Kept, Typed, conn, NEW n \in Names(cached), StartSession(n),
           NEW a, NEW c, NEW d, Take(a, 1, c, d, 1)
    PROVE  \A s \in live' \ Exempt' : named'[s] \in WorkspaceUuids(cached)
<1>1. /\ live' = live \cup {next.session}
      /\ named' = [named EXCEPT ![next.session] = cached[n].uuid]
      /\ Exempt' = Exempt
  BY DEF StartSession, Exempt, ghostVars
<1>2. \A s \in live \ Exempt : named[s] \in WorkspaceUuids(cached)
  BY DEF Kept, Carried
<1>3. cached[n].uuid \in WorkspaceUuids(cached)
  BY DEF WorkspaceUuids
<1>4. live \subseteq Session /\ named \in [Session -> 0 .. MaxWorkspace]
  BY DEF Typed, LiveTyped
<1>5. next.session \in Session
  <2>1. MaxSession \in Nat /\ next.session \in 1 .. MaxSession + 1
    BY BoundAssumption DEF Typed, Counted
  <2>2. next.session + 1 <= MaxSession + 1
    BY DEF Take
  <2> QED BY <2>1, <2>2 DEF Session
<1> HIDE DEF WorkspaceUuids
<1> QED BY <1>1, <1>2, <1>3, <1>4, <1>5

LEMMA KeptByRename ==
    ASSUME Typed, Kept, NEW new \in Name, ConfirmRenameWorkspace(new)
    PROVE  Kept'
<1> DEFINE old == dialog.name
           ws == RenamedEntry(old, new)
<1>1. /\ conn /\ conn' = conn /\ live' = live /\ named' = named
      /\ replaced \subseteq replaced' /\ UNCHANGED <<ended, leftover>>
  BY DEF ConfirmRenameWorkspace, Confirm
<1>2. \A s \in live' \ Exempt' : named'[s] \in WorkspaceUuids(cached)
  BY <1>1, SessionsStay DEF Exempt
<1>3. CASE Deferred /\ current' = current
  BY <1>1, <1>2, <1>3, KeptBySave
<1>4. CASE /\ new # old
           /\ cached[old].uuid # 0 => NamedAfter(new) \subseteq replaced'
           /\ Written(ws, current')
  <2>1. old \in Name
    BY DEF Typed, DialogTyped
  <2>2. \A n \in Names(cached) : (n = new => cached[old].uuid = 0) =>
            cached[n].uuid \in WorkspaceUuids(ws)
    BY <1>4, <2>1, RenamedTyped DEF Typed
  <2>3. conn' /\ current' \in Names(cached')
    BY <1>1, <1>4 DEF Written
  <2> HIDE DEF ws
  <2>4. ASSUME NEW s \in live' \ Exempt'
        PROVE  named'[s] \in WorkspaceUuids(ws)
    <3>1. PICK n \in Names(cached) : named[s] = cached[n].uuid
      BY <1>1, <1>2 DEF WorkspaceUuids
    <3>2. n = new => cached[old].uuid = 0
      BY <1>1, <1>4, <3>1 DEF Exempt, NamedAfter, UuidOf, Names
    <3> QED BY <1>1, <2>2, <3>1, <3>2
  <2> QED BY <1>4, <2>3, <2>4, KeptByWrite
<1> QED BY <1>3, <1>4, ConfirmRenameWorkspaceTyped

\* The sessions that carry the uuid of the workspace are killed or left running.
LEMMA KeptByDelete ==
    ASSUME Typed, Kept, ConfirmDeleteWorkspace
    PROVE  Kept'
<1> DEFINE old == dialog.name
           rest == [cached EXCEPT ![old] = NoEntry]
<1>1. /\ conn /\ conn' = conn /\ live' = live /\ named' = named
      /\ Exempt' = Exempt \cup Sessions(cached[old].tabs) \cup NamedAfter(old)
  BY DEF ConfirmDeleteWorkspace, Confirm, Exempt
<1>2. old \in Name /\ Written(rest, current')
  BY ConfirmDeleteWorkspaceTyped
<1>3. \A n \in Names(cached) \ {old} : n \in Names(rest) /\ rest[n].uuid = cached[n].uuid
  BY <1>2, RemovedTyped DEF Typed
<1> HIDE DEF rest
<1>4. ASSUME NEW s \in live' \ Exempt'
      PROVE  named'[s] \in WorkspaceUuids(rest)
  <2>1. s \in live \ Exempt /\ named[s] # UuidOf(cached, old)
    BY <1>1, <1>4 DEF NamedAfter
  <2>2. PICK n \in Names(cached) : named[s] = cached[n].uuid
    BY <1>1, <2>1 DEF Kept, Carried, WorkspaceUuids
  <2>3. n # old
    BY <2>1, <2>2 DEF UuidOf, Names
  <2> QED BY <1>1, <1>3, <2>2, <2>3 DEF WorkspaceUuids
<1>5. conn' /\ current' \in Names(cached')
  BY <1>1, <1>2 DEF Written
<1> QED BY <1>2, <1>4, <1>5, KeptByWrite

LEMMA KeptByClear ==
    ASSUME Typed, Kept, ClearAndDisconnect
    PROVE  Kept'
<1>1. /\ conn' = FALSE /\ file' = NoFile /\ devfile' = NoDevFile /\ live' \subseteq Exempt'
  BY DEF ClearAndDisconnect, Exempt
<1>2. DeviceKnows'
  BY <1>1, NothingTyped DEF DeviceKnows
<1>3. Carried'
  BY <1>1 DEF Carried
<1> QED BY <1>1, <1>2, <1>3 DEF Kept

\* The file has what the cache had.
LEMMA KeptByLeaving ==
    ASSUME Kept, conn' = FALSE, UNCHANGED <<fileVars, live, named, Exempt>>
    PROVE  Kept'
<1>1. WorkspaceUuids(IF conn THEN cached ELSE file.ws) \subseteq WorkspaceUuids(file.ws)
  BY DEF Kept, InStep, WorkspaceUuids
<1>2. \A s \in live \ Exempt : named[s] \in WorkspaceUuids(file.ws)
  BY <1>1 DEF Kept, Carried
<1>3. Carried'
  BY <1>2 DEF Carried, WorkspaceUuids, Names, fileVars
<1>4. DeviceKnows'
  BY DEF Kept, DeviceKnows, Names, fileVars
<1> QED BY <1>3, <1>4 DEF Kept

LEMMA KeptByConnecting ==
    ASSUME Typed, Kept, ServerConnected
    PROVE  Kept'
<1>1. conn' = TRUE /\ ~conn
  BY ServerConnectedTyped
<1>2. PICK ws, cur : ServerConnectedWrites(ws, cur)
  BY ServerConnectedTyped
<1>3. /\ Written(ws, cur) /\ current' = cur /\ Exempt' = Exempt
      /\ ws = IF file.there THEN file.ws ELSE [NoWorkspaces EXCEPT ![current].uuid = next.ws]
      /\ ~file.there => Names(ws) = {current}
      /\ cur = IF devfile.there THEN devfile.last ELSE current
      /\ \/ UNCHANGED <<live, named>>
         \/ /\ live' = live \cup {next.session}
            /\ named' = [named EXCEPT ![next.session] = ws[cur].uuid]
  BY <1>2 DEF ServerConnectedWrites, ghostVars, Exempt
<1>4. cur \in Names(ws)
  BY <1>3 DEF Kept, DeviceKnows
<1>5. \A s \in live \ Exempt : named[s] \in WorkspaceUuids(ws)
  <2>1. CASE file.there
    BY <1>1, <1>3, <2>1 DEF Kept, Carried
  <2>2. CASE ~file.there
    BY <1>1, <2>2 DEF Kept, Carried, DeviceKnows, WorkspaceUuids
  <2> QED BY <2>1, <2>2
<1>6. ws[cur].uuid \in WorkspaceUuids(ws)
  BY <1>4 DEF WorkspaceUuids
<1>7. named \in [Session -> 0 .. MaxWorkspace] /\ (live' = live \/ next.session \in Session)
  BY <1>3, TypedNext DEF Next, Typed, LiveTyped
<1>8. \A s \in live' \ Exempt' : named'[s] \in WorkspaceUuids(ws)
  <2> HIDE DEF WorkspaceUuids
  <2>1. CASE UNCHANGED <<live, named>>
    BY <1>3, <1>5, <2>1
  <2>2. CASE /\ live' = live \cup {next.session}
             /\ named' = [named EXCEPT ![next.session] = ws[cur].uuid]
    <3>1. next.session \in Session \/ next.session \in live
      BY <1>7, <2>2
    <3>2. live \subseteq Session
      BY DEF Typed, LiveTyped
    <3> QED BY <1>3, <1>5, <1>6, <1>7, <2>2, <3>1, <3>2
  <2> QED BY <1>3, <2>1, <2>2
<1>9. conn' /\ current' \in Names(cached')
  BY <1>1, <1>3 DEF Written
<1> QED BY <1>3, <1>8, <1>9, KeptByWrite

LEMMA KeptByReport ==
    ASSUME Typed, Kept, RemoteStateChanged
    PROVE  Kept'
<1>1. /\ Reported /\ conn /\ file.there /\ UNCHANGED <<conn, current, live, named, Exempt>>
  BY RemoteStateChangedTyped DEF ghostVars, Exempt
<1>2. /\ current \in Names(cached) /\ current \in Names(file.ws)
      /\ \A n \in Names(cached) : n \in Names(file.ws) /\ file.ws[n].uuid = cached[n].uuid
  BY <1>1 DEF Kept, InStep
<1>3. cached' = file.ws
  BY <1>1 DEF Reported
<1>4. InStep' /\ DeviceKnows'
  <2>1. CASE file' = file /\ devfile' = devfile
    BY <1>1, <1>2, <1>3, <2>1 DEF InStep, DeviceKnows, Kept, Names
  <2>2. CASE /\ file'.there /\ devfile'.there /\ devfile'.last = current
             /\ current \in Names(file'.ws)
             /\ \A n \in Names(cached) : n \in Names(file'.ws) /\ file'.ws[n].uuid = cached[n].uuid
             /\ \A n \in Names(file.ws) :
                   /\ n \in Names(file'.ws)
                   /\ n \notin Names(cached) \cup {current} => file'.ws[n].uuid = file.ws[n].uuid
    <3>1. \A n \in Names(file.ws) : n \in Names(file'.ws) /\ file'.ws[n].uuid = file.ws[n].uuid
      BY <1>2, <2>2
    <3>2. InStep'
      BY <1>1, <1>2, <1>3, <2>2, <3>1 DEF InStep
    <3>3. DeviceKnows'
      BY <2>2 DEF DeviceKnows
    <3> QED BY <3>2, <3>3
  <2> QED BY <1>1, <2>1, <2>2 DEF Reported
<1>5. WorkspaceUuids(cached) \subseteq WorkspaceUuids(cached')
  BY <1>2, <1>3 DEF WorkspaceUuids
<1>6. \A s \in live \ Exempt : named[s] \in WorkspaceUuids(cached')
  BY <1>1, <1>5 DEF Kept, Carried
<1>7. Carried'
  BY <1>1, <1>6 DEF Carried, WorkspaceUuids, Names
<1> QED BY <1>4, <1>7 DEF Kept

LEMMA KeptInit == Init => Kept
<1> SUFFICES ASSUME Init PROVE Kept
  OBVIOUS
<1>1. DeviceKnows
  BY NothingTyped DEF Init, DeviceKnows
<1> QED BY <1>1 DEF Init, Kept, Carried

LEMMA KeptNext ==
    ASSUME "other" \notin UserOps, Typed, Kept, [Next]_vars
    PROVE  Kept'
<1> USE DEF Op
<1>1. CASE ServerConnected
  BY <1>1, KeptByConnecting
<1>2. CASE DisconnectServer \/ Restart
  BY <1>2, KeptByLeaving DEF DisconnectServer, Restart, liveVars, ghostVars, Exempt
<1>3. CASE NewWindow
  <2>1. current \in Names(cached) /\ conn
    BY <1>3 DEF NewWindow, Kept, InStep
  <2>2. \A s \in live' \ Exempt' : named'[s] \in WorkspaceUuids(cached)
    BY <1>3, <2>1, SessionStarts DEF NewWindow
  <2> QED BY <1>3, <2>1, <2>2, NewWindowKeepsTypes, KeptBySave DEF NewWindow
<1>4. ASSUME NEW w \in windows, NewTab(w) PROVE Kept'
  <2>1. current \in Names(cached) /\ conn
    BY <1>4 DEF NewTab, Kept, InStep
  <2>2. \A s \in live' \ Exempt' : named'[s] \in WorkspaceUuids(cached)
    BY <1>4, <2>1, SessionStarts DEF NewTab
  <2> QED BY <1>4, <2>1, <2>2, NewTabTyped, KeptBySave DEF NewTab
<1>5. ASSUME NEW n \in Name, NewWindowForWorkspace(n) PROVE Kept'
  <2>1. n \in Names(cached) /\ conn
    BY <1>5 DEF NewWindowForWorkspace, Cards
  <2>2. \A s \in live' \ Exempt' : named'[s] \in WorkspaceUuids(cached)
    BY <1>5, <2>1, SessionStarts DEF NewWindowForWorkspace
  <2> QED BY <1>5, <2>1, <2>2, NewWindowForWorkspaceTyped, KeptBySave DEF NewWindowForWorkspace
<1>6. ASSUME NEW w \in windows, CloseWindow(w) PROVE Kept'
  <2>1. conn /\ UNCHANGED <<conn, current, live, named, Exempt>>
    BY <1>6 DEF CloseWindow, liveVars, ghostVars, Exempt
  <2> QED BY <1>6, <2>1, CloseWindowTyped, SessionsStay, KeptBySave
<1>7. ASSUME NEW w \in windows, NEW t \in w.tabs, CloseTab(w, t) PROVE Kept'
  <2>1. conn /\ UNCHANGED <<conn, current, live, named>> /\ Exempt \subseteq Exempt'
    BY <1>7 DEF CloseTab, Exempt
  <2> QED BY <1>7, <2>1, CloseTabTyped, SessionsStay, KeptBySave
<1>8. ASSUME NEW n \in Name, RestoreHiddenWindows(n) PROVE Kept'
  <2>1. conn /\ UNCHANGED <<conn, current, live, named, Exempt>>
    BY <1>8 DEF RestoreHiddenWindows, liveVars, ghostVars, Exempt
  <2> QED BY <1>8, <2>1, RestoreHiddenWindowsTyped, SessionsStay, KeptBySave
<1>9. ASSUME NEW s \in kills, ExecuteKill(s) PROVE Kept'
  <2>1. Deferred /\ live' \subseteq live /\ UNCHANGED <<conn, current, named, Exempt>>
    BY <1>9 DEF ExecuteKill, ghostVars, Exempt, Deferred, cacheVars, fileVars
  <2> QED BY <2>1 DEF Deferred, Kept, InStep, DeviceKnows, Carried, WorkspaceUuids, Names
<1>10. CASE \/ \E kind \in {"create", "rename", "remove"}, n \in Name : ShowDialog(kind, n)
            \/ CancelDialog
  <2>1. Deferred /\ UNCHANGED <<conn, current, live, named, Exempt>>
    BY <1>10 DEF ShowDialog, CancelDialog, Deferred, cacheVars, fileVars, liveVars, ghostVars, Exempt
  <2> QED BY <2>1 DEF Deferred, Kept, InStep, DeviceKnows, Carried, WorkspaceUuids, Names
<1>11. ASSUME NEW n \in Name, ConfirmNewWorkspace(n) PROVE Kept'
  <2>1. conn /\ UNCHANGED <<conn, live, named, Exempt>>
    BY <1>11 DEF ConfirmNewWorkspace, Confirm, liveVars, ghostVars, Exempt
  <2>2. \A s \in live' \ Exempt' : named'[s] \in WorkspaceUuids(cached)
    BY <2>1, SessionsStay
  <2>3. CASE Deferred /\ current' = current
    BY <2>1, <2>2, <2>3, KeptBySave
  <2>4. CASE Written(cached, n) /\ current' = n
    <3>1. conn' /\ current' \in Names(cached')
      BY <2>1, <2>4 DEF Written
    <3> QED BY <2>2, <2>4, <3>1, KeptByWrite
  <2> QED BY <1>11, <2>3, <2>4, ConfirmNewWorkspaceTyped
<1>12. ASSUME NEW n \in Name, ConfirmRenameWorkspace(n) PROVE Kept'
  BY <1>12, KeptByRename
<1>13. CASE ConfirmDeleteWorkspace
  BY <1>13, KeptByDelete
<1>14. CASE ClearAndDisconnect
  BY <1>14, KeptByClear
<1>15. CASE FlushTimer
  <2>1. conn /\ UNCHANGED <<conn, current, live, named, Exempt>>
    BY <1>15 DEF FlushTimer, liveVars, ghostVars, Exempt
  <2> QED BY <1>15, <2>1, FlushTimerTyped, SessionsStay, KeptBySave
<1>16. CASE DebounceOver
  <2>1. conn /\ UNCHANGED <<conn, current, live, named, Exempt>>
    BY <1>16 DEF DebounceOver, liveVars, ghostVars, Exempt
  <2> QED BY <1>16, <2>1, DebounceOverTyped, SessionsStay, KeptBySave
<1>17. CASE RemoteStateChanged
  BY <1>17, KeptByReport
<1>18. ASSUME NEW n \in Name, OtherDeviceCreates(n) PROVE Kept'
  BY <1>18 DEF OtherDeviceCreates
<1>19. CASE UNCHANGED vars
  BY <1>19 DEF vars, cacheVars, fileVars, liveVars, ghostVars, Exempt, Kept, InStep, DeviceKnows, Carried,
     WorkspaceUuids, Names
<1> QED BY <1>1, <1>2, <1>3, <1>4, <1>5, <1>6, <1>7, <1>8, <1>9, <1>10, <1>11, <1>12, <1>13,
           <1>14, <1>15, <1>16, <1>17, <1>18, <1>19 DEF Next

\* Whatever the user of a single device does with tabs, windows, workspaces and
\* the connection, for however many of each, no tmux session gets out of his reach
\* before he ends it, but for those that the removal of their workspace leaves
\* running, and those whose workspace loses its name to another.  With a second
\* device that creates a workspace this one has not heard of yet it is not so.
THEOREM SessionsStayInReach ==
    ASSUME "other" \notin UserOps
    PROVE  Spec => []SessionsKept
<1>1. Init => Typed /\ Kept
  BY TypedInit, KeptInit
<1>2. Typed /\ Kept /\ [Next]_vars => (Typed /\ Kept)'
  BY TypedNext, KeptNext
<1>3. Typed /\ Kept => SessionsKept
  BY KeptIsSessionsKept
<1> QED BY <1>1, <1>2, <1>3, PTL DEF Spec
=============================================================================
