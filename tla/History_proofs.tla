----------------------------- MODULE History_proofs -----------------------------
(***************************************************************************)
(* Proofs about History: what is read back was printed in that order, and  *)
(* what a cut append costs.                                                *)
(***************************************************************************)
EXTENDS History, FiniteSetTheorems, SequenceTheorems, WellFoundedInduction, TLAPS

-----------------------------------------------------------------------------
(* Induction for what a set of numbers says. *)

\* A set of numbers with 0, and with n + 1 whenever with n, has them all.
LEMMA Inductive ==
    ASSUME NEW S, 0 \in S, \A n \in Nat : n \in S => n + 1 \in S
    PROVE  Nat \subseteq S
<1> SUFFICES ASSUME ~(Nat \subseteq S) PROVE FALSE
  OBVIOUS
<1> DEFINE Less == {ss \in Nat \X Nat : ss[1] < ss[2]}
           Missing == Nat \ S
<1>1. IsWellFoundedOn(Less, Nat)
  BY NatLessThanWellFounded DEF OpToRel
<1>2. Missing \in SUBSET Nat /\ Missing # {}
  OBVIOUS
<1> HIDE DEF Less, Missing
<1>3. PICK x \in Missing : \A y \in Missing : <<y, x>> \notin Less
  BY <1>1, <1>2, WFMin
<1>4. x \in Nat /\ x \notin S
  BY DEF Missing
<1>5. x # 0 /\ x - 1 \in Nat
  BY <1>4
<1>6. x - 1 \notin S
  BY <1>4, <1>5
<1>7. <<x - 1, x>> \in Less
  BY <1>4, <1>5 DEF Less
<1>8. x - 1 \in Missing
  BY <1>5, <1>6 DEF Missing
<1> QED BY <1>3, <1>7, <1>8

\* A loop of n rounds: step leads from what a round finds, in T[i - 1], to what
\* the next one finds, in T[i].
Looping(f, a, n, T, step) ==
    /\ f = [i \in 0 .. n |-> f[i]]
    /\ f[0] = a
    /\ \A i \in 1 .. n : f[i] = step[i][f[i - 1]]
    /\ \A i \in 0 .. n : f[i] \in T[i]

\* Such a loop comes to its end.
LEMMA LoopEnds ==
    ASSUME NEW n \in Nat, NEW T, NEW step, NEW a, a \in T[0],
           \A i \in 1 .. n : \A x \in T[i - 1] : step[i][x] \in T[i]
    PROVE  \E f : Looping(f, a, n, T, step)
<1> DEFINE S == {m \in Nat : m <= n => \E f : Looping(f, a, m, T, step)}
<1>1. 0 \in S
  <2> DEFINE g == [i \in 0 .. 0 |-> a]
  <2>1. Looping(g, a, 0, T, step)
    BY DEF Looping
  <2> HIDE DEF g
  <2> QED BY <2>1
<1>2. ASSUME NEW m \in Nat, m \in S PROVE m + 1 \in S
  <2> SUFFICES ASSUME m + 1 <= n PROVE \E f : Looping(f, a, m + 1, T, step)
    OBVIOUS
  <2>1. PICK f : Looping(f, a, m, T, step)
    BY <1>2
  <2> DEFINE last == step[m + 1][f[m]]
             g == [i \in 0 .. m + 1 |-> IF i = m + 1 THEN last ELSE f[i]]
  <2>2. f[m] \in T[m] /\ m + 1 \in 1 .. n /\ m + 1 - 1 = m
    BY <2>1 DEF Looping
  <2>3. last \in T[m + 1]
    BY <2>2
  <2>4. /\ g = [i \in 0 .. m + 1 |-> g[i]]
        /\ g[m + 1] = last
        /\ \A i \in 0 .. m : g[i] = f[i]
    <3> HIDE DEF last
    <3> QED OBVIOUS
  <2> HIDE DEF g
  <2>5. g[0] = a
    BY <2>1, <2>4 DEF Looping
  <2>6. \A i \in 1 .. m + 1 : g[i] = step[i][g[i - 1]]
    <3> SUFFICES ASSUME NEW i \in 1 .. m + 1 PROVE g[i] = step[i][g[i - 1]]
      OBVIOUS
    <3> HIDE DEF last
    <3>0. i - 1 \in 0 .. m
      BY <1>2
    <3>1. g[i - 1] = f[i - 1]
      BY <2>4, <3>0
    <3>2. CASE i = m + 1
      BY <2>2, <2>4, <3>1, <3>2 DEF last
    <3>3. CASE i # m + 1
      <4>1. i \in 1 .. m
        BY <3>3
      <4>2. f[i] = step[i][f[i - 1]]
        BY <4>1, <2>1 DEF Looping
      <4>3. i \in 0 .. m
        BY <4>1
      <4>4. g[i] = f[i]
        BY <4>3, <2>4
      <4> QED BY <4>2, <4>4, <3>1
    <3> QED BY <3>2, <3>3
  <2>7. \A i \in 0 .. m + 1 : g[i] \in T[i]
    <3> SUFFICES ASSUME NEW i \in 0 .. m + 1 PROVE g[i] \in T[i]
      OBVIOUS
    <3>1. CASE i = m + 1
      BY <2>3, <2>4, <3>1
    <3>2. CASE i # m + 1
      <4>1. i \in 0 .. m
        BY <3>2
      <4> QED BY <4>1, <2>1, <2>4 DEF Looping
    <3> QED BY <3>1, <3>2
  <2> HIDE DEF last
  <2>8. Looping(g, a, m + 1, T, step)
    BY <2>4, <2>5, <2>6, <2>7 DEF Looping
  <2> QED BY <2>8
<1> HIDE DEF S
<1>3. n \in S
  BY <1>1, <1>2, Inductive
<1> QED BY <1>3 DEF S

\* What holds before a loop, and after a round when before it, holds throughout.
LEMMA LoopStays ==
    ASSUME NEW n \in Nat, NEW T, NEW g, g[0] \in T[0],
           \A i \in 1 .. n : g[i - 1] \in T[i - 1] => g[i] \in T[i]
    PROVE  \A i \in 0 .. n : g[i] \in T[i]
<1> DEFINE S == {i \in Nat : i <= n => g[i] \in T[i]}
<1>1. 0 \in S
  OBVIOUS
<1>2. ASSUME NEW m \in Nat, m \in S PROVE m + 1 \in S
  <2> SUFFICES ASSUME m + 1 <= n PROVE g[m + 1] \in T[m + 1]
    OBVIOUS
  <2>1. m + 1 \in 1 .. n /\ m + 1 - 1 = m /\ g[m] \in T[m]
    BY <1>2
  <2> QED BY <2>1
<1> HIDE DEF S
<1>3. Nat \subseteq S
  BY <1>1, <1>2, Inductive
<1> QED BY <1>3 DEF S

-----------------------------------------------------------------------------
(* What is read of a file. *)

\* A line holds something, and the chunks in later lines were printed later.
InOrder(lines, n) ==
    /\ \A i \in 1 .. Len(lines) :
          /\ lines[i] # <<>>
          /\ \A k \in 1 .. Len(lines[i]) : lines[i][k] >= -1 /\ lines[i][k] <= n
    /\ \A i, j \in 1 .. Len(lines) : i < j =>
          \A k \in 1 .. Len(lines[i]) : \A m \in 1 .. Len(lines[j]) :
              lines[j][m] > 0 => lines[i][k] < lines[j][m]

Upto(lines, n) == {i \in 1 .. n : IsEntry(lines[i])}

EntryCount(lines) == Cardinality(Upto(lines, Len(lines)))

LEMMA UptoCounts ==
    ASSUME NEW lines, NEW n \in Nat
    PROVE  /\ IsFiniteSet(Upto(lines, n)) /\ Cardinality(Upto(lines, n)) \in Nat
           /\ Cardinality(Upto(lines, n + 1)) =
                Cardinality(Upto(lines, n)) + (IF IsEntry(lines[n + 1]) THEN 1 ELSE 0)
<1>1. IsFiniteSet(1 .. n)
  BY FS_Interval
<1>2. Upto(lines, n) \in SUBSET (1 .. n)
  BY DEF Upto
<1>3. IsFiniteSet(Upto(lines, n)) /\ Cardinality(Upto(lines, n)) \in Nat
  BY <1>1, <1>2, FS_Subset, FS_CardinalityType
<1>4. CASE IsEntry(lines[n + 1])
  <2>1. Upto(lines, n + 1) = Upto(lines, n) \cup {n + 1}
    BY <1>4 DEF Upto
  <2>2. n + 1 \notin Upto(lines, n)
    BY DEF Upto
  <2> QED BY <1>3, <1>4, <2>1, <2>2, FS_AddElement
<1>5. CASE ~IsEntry(lines[n + 1])
  <2>1. ASSUME NEW i \in Upto(lines, n + 1) PROVE i \in Upto(lines, n)
    BY <1>5 DEF Upto
  <2>2. Upto(lines, n) \subseteq Upto(lines, n + 1)
    BY DEF Upto
  <2>3. Upto(lines, n + 1) = Upto(lines, n)
    BY <2>1, <2>2
  <2> QED BY <1>3, <1>5, <2>3
<1> QED BY <1>3, <1>4, <1>5

LEMMA UptoNothing ==
    ASSUME NEW lines
    PROVE  Upto(lines, 0) = {} /\ Cardinality(Upto(lines, 0)) = 0
<1>1. Upto(lines, 0) = {}
  BY DEF Upto
<1> QED BY <1>1, FS_EmptySet

LEMMA OneMore ==
    ASSUME NEW a \in Nat, NEW k \in 1 .. a + 1, NEW l \in 1 .. a + 1, k < l
    PROVE  k \in 1 .. a /\ (l \in 1 .. a \/ l = a + 1)
OBVIOUS

\* The entries of a text are read in the order of the lines, all of them.
LEMMA EntriesRead ==
    ASSUME NEW lines \in Seq(Seq(Int)), NEW p \in Nat, InOrder(lines, p),
           \A i \in 1 .. Len(lines) : Cut \notin ToSet(lines[i])
    PROVE  /\ Entries(lines) \in Seq(Nat) /\ Len(Entries(lines)) = EntryCount(lines)
           /\ \A k \in DOMAIN Entries(lines) : Entries(lines)[k] <= p
           /\ \A k, l \in DOMAIN Entries(lines) :
                k < l => Entries(lines)[k] < Entries(lines)[l]
<1> DEFINE n == Len(lines)
           Count(i) == Cardinality(Upto(lines, i))
           Read(i) == {t \in Seq(Nat) :
               /\ Len(t) = Count(i)
               /\ \A k \in 1 .. Len(t) : t[k] <= p
               /\ \A k, l \in 1 .. Len(t) : k < l => t[k] < t[l]
               /\ \A k \in 1 .. Len(t) : \A j \in i + 1 .. n :
                     IsEntry(lines[j]) => t[k] < lines[j][1]}
           Round(i, t) == IF IsEntry(lines[i]) THEN Append(t, lines[i][1]) ELSE t
           T == [i \in 0 .. n |-> Read(i)]
           step == [i \in 1 .. n |-> [t \in Read(i - 1) |-> Round(i, t)]]
           Loop(f) == [i \in 0 .. n |->
                        IF i = 0 THEN <<>>
                        ELSE IF IsEntry(lines[i]) THEN Append(f[i - 1], lines[i][1])
                             ELSE f[i - 1]]
           entries == CHOOSE f : f = Loop(f)
<1>1. n \in Nat /\ \A i \in 1 .. n : lines[i] \in Seq(Int)
  OBVIOUS
<1>2. ASSUME NEW i \in 1 .. n, IsEntry(lines[i])
      PROVE  lines[i][1] \in Nat /\ lines[i][1] > 0 /\ lines[i][1] <= p
  <2>1. lines[i] \in Seq(Int) /\ Len(lines[i]) = 1 /\ lines[i][1] # 0
    BY <1>1, <1>2 DEF IsEntry, Part
  <2>2. 1 \in 1 .. Len(lines[i]) /\ 1 \in DOMAIN lines[i] /\ lines[i][1] \in Int
    BY <2>1
  <2>3. lines[i][1] # -1
    BY <2>2 DEF Cut, ToSet
  <2>4. lines[i][1] >= -1 /\ lines[i][1] <= p
    BY <2>2 DEF InOrder
  <2> QED BY <2>1, <2>2, <2>3, <2>4
<1>3. ASSUME NEW i \in 1 .. n, NEW j \in 1 .. n, i < j, IsEntry(lines[i]), IsEntry(lines[j])
      PROVE  lines[i][1] < lines[j][1]
  <2>1. Len(lines[i]) = 1 /\ Len(lines[j]) = 1
    BY <1>3 DEF IsEntry
  <2>2. 1 \in 1 .. Len(lines[i]) /\ 1 \in 1 .. Len(lines[j])
    BY <2>1
  <2>3. lines[j][1] > 0
    BY <1>2, <1>3
  <2> QED BY <1>3, <2>2, <2>3 DEF InOrder
<1>4. <<>> \in Read(0)
  BY UptoNothing
<1>5. \A i \in 1 .. n : Count(i) = Count(i - 1) + (IF IsEntry(lines[i]) THEN 1 ELSE 0)
  <2> SUFFICES ASSUME NEW i \in 1 .. n
               PROVE  Count(i) = Count(i - 1) + (IF IsEntry(lines[i]) THEN 1 ELSE 0)
    OBVIOUS
  <2>1. i - 1 \in Nat /\ i - 1 + 1 = i
    OBVIOUS
  <2> QED BY <2>1, UptoCounts
<1>6. \A i \in 0 .. n : Count(i) \in Nat
  BY UptoCounts
<1> HIDE DEF Count
<1>7. ASSUME NEW i \in 1 .. n, NEW t \in Read(i - 1) PROVE Round(i, t) \in Read(i)
  <2>1. /\ t \in Seq(Nat) /\ i - 1 + 1 = i /\ Len(t) = Count(i - 1) /\ Len(t) \in Nat
        /\ \A k \in 1 .. Len(t) : t[k] <= p /\ t[k] \in Nat
        /\ \A k, l \in 1 .. Len(t) : k < l => t[k] < t[l]
        /\ \A k \in 1 .. Len(t) : \A j \in i .. n : IsEntry(lines[j]) => t[k] < lines[j][1]
    BY <1>1
  <2>2. i \in i .. n /\ \A j \in i + 1 .. n : j \in i .. n /\ j \in 1 .. n /\ i < j
    BY <1>1
  <2>3. CASE ~IsEntry(lines[i])
    <3>1. Count(i) = Count(i - 1)
      BY <1>5, <1>6, <2>3
    <3> QED BY <2>1, <2>2, <2>3, <3>1
  <2>4. CASE IsEntry(lines[i])
    <3> DEFINE e == lines[i][1]
               u == Append(t, e)
    <3>1. e \in Nat /\ e <= p
      BY <1>2, <2>4
    <3>2. \A j \in i + 1 .. n : IsEntry(lines[j]) => e < lines[j][1]
      BY <1>3, <2>2, <2>4
    <3>3. \A k \in 1 .. Len(t) : t[k] < e
      BY <2>1, <2>2, <2>4
    <3> HIDE DEF e
    <3>4. /\ u \in Seq(Nat) /\ Len(u) = Len(t) + 1 /\ u[Len(t) + 1] = e
          /\ \A k \in 1 .. Len(t) : u[k] = t[k]
      <4>1. t \in Seq(Nat)
        BY <2>1
      <4> HIDE DEF Read
      <4> QED BY <3>1, <4>1, AppendProperties
    <3> HIDE DEF u
    <3>5. Len(u) = Count(i)
      BY <1>5, <1>6, <2>1, <2>4, <3>4
    <3>6. \A k \in 1 .. Len(u) : k \in 1 .. Len(t) \/ k = Len(t) + 1
      BY <2>1, <3>4
    <3>7. \A k \in 1 .. Len(u) : u[k] <= p
      BY <2>1, <3>1, <3>4, <3>6
    <3>8. ASSUME NEW k \in 1 .. Len(u), NEW l \in 1 .. Len(u), k < l PROVE u[k] < u[l]
      <4> HIDE DEF Read, Round, T, step, Loop, entries
      <4>0. Len(t) \in Nat /\ Len(u) = Len(t) + 1
        BY <2>1, <3>4
      <4>1. k \in 1 .. Len(t) /\ (l \in 1 .. Len(t) \/ l = Len(t) + 1)
        <5>1. k \in 1 .. Len(t) + 1 /\ l \in 1 .. Len(t) + 1 /\ k < l
          BY <3>8, <4>0, Zenon
        <5> QED BY <4>0, <5>1, OneMore
      <4>2. CASE l \in 1 .. Len(t)
        BY <2>1, <3>4, <3>8, <4>1, <4>2
      <4>3. CASE l = Len(t) + 1
        BY <3>3, <3>4, <4>1, <4>3
      <4> QED BY <4>1, <4>2, <4>3
    <3>9. \A k \in 1 .. Len(u) : \A j \in i + 1 .. n : IsEntry(lines[j]) => u[k] < lines[j][1]
      BY <2>1, <2>2, <3>2, <3>4, <3>6
    <3> QED BY <2>4, <3>4, <3>5, <3>7, <3>8, <3>9 DEF u, e
  <2> QED BY <2>3, <2>4
<1>8. \A i \in 1 .. n : \A t \in Read(i - 1) : step[i][t] = Round(i, t)
  OBVIOUS
<1>9. \A i \in 0 .. n : T[i] = Read(i)
  OBVIOUS
<1>10. \A i \in 1 .. n : i - 1 \in 0 .. n /\ i \in 0 .. n
  BY <1>1
<1>11. \A t \in Read(n) : /\ t \in Seq(Nat) /\ Len(t) = Count(n)
                          /\ \A k \in 1 .. Len(t) : t[k] <= p
                          /\ \A k, l \in 1 .. Len(t) : k < l => t[k] < t[l]
  OBVIOUS
<1>12. Count(n) = EntryCount(lines)
  BY DEF EntryCount, Count
<1> HIDE DEF step, T, n, Read
<1>13. /\ <<>> \in T[0]
       /\ \A i \in 1 .. n : \A x \in T[i - 1] : step[i][x] \in T[i]
  <2> HIDE DEF Round
  <2>1. 0 \in 0 .. n
    BY <1>1
  <2>2. ASSUME NEW i \in 1 .. n, NEW x \in T[i - 1] PROVE step[i][x] \in T[i]
    <3>1. x \in Read(i - 1) /\ T[i] = Read(i)
      BY <1>9, <1>10
    <3> QED BY <3>1, <1>7, <1>8
  <2> QED BY <1>4, <1>9, <2>1, <2>2
<1>14. PICK f : Looping(f, <<>>, n, T, step)
  BY <1>1, <1>13, LoopEnds
<1>15. f = Loop(f)
  <2>1. ASSUME NEW i \in 0 .. n
        PROVE  f[i] = IF i = 0 THEN <<>> ELSE Round(i, f[i - 1])
    <3>1. CASE i = 0
      BY <1>14, <3>1 DEF Looping
    <3>2. CASE i # 0
      <4>1. i \in 1 .. n
        BY <1>1, <3>2
      <4>2. f[i - 1] \in Read(i - 1) /\ f[i] = step[i][f[i - 1]]
        BY <1>9, <1>10, <1>14, <4>1 DEF Looping
      <4> HIDE DEF Round
      <4> QED BY <1>8, <3>2, <4>1, <4>2
    <3> QED BY <3>1, <3>2
  <2>2. f = [i \in 0 .. n |-> f[i]]
    BY <1>14 DEF Looping
  <2> QED BY <2>1, <2>2
<1>16. entries = Loop(entries)
  BY <1>15
<1>17. Entries(lines) = entries[n]
  BY DEF Entries, n
<1>18. \A i \in 0 .. n : entries[i] = IF i = 0 THEN <<>> ELSE Round(i, entries[i - 1])
  BY <1>16
<1> HIDE DEF entries, Round
<1>19. entries[0] \in T[0]
  BY <1>1, <1>13, <1>18
<1>20. ASSUME NEW i \in 1 .. n, entries[i - 1] \in T[i - 1] PROVE entries[i] \in T[i]
  BY <1>1, <1>7, <1>9, <1>10, <1>18, <1>20
<1>21. \A i \in 0 .. n : entries[i] \in T[i]
  BY <1>1, <1>19, <1>20, LoopStays
<1>22. entries[n] \in Read(n)
  BY <1>1, <1>9, <1>21
<1>23. DOMAIN entries[n] = 1 .. Len(entries[n])
  BY <1>11, <1>22
<1> QED BY <1>11, <1>12, <1>17, <1>22, <1>23

-----------------------------------------------------------------------------
(* Files. *)

FileState == [exists : BOOLEAN, lines : Seq(Seq(Int)), ended : BOOLEAN]

\* A file of a session that has printed p chunks.
Sound(f, p) == f \in FileState /\ (f.ended \/ f.lines # <<>>) /\ InOrder(f.lines, p)

\* What the next line that is appended may cost: itself, and the entry it goes behind.
Owed(f) == IF f.ended THEN 0 ELSE IF IsEntry(f.lines[Len(f.lines)]) THEN 2 ELSE 1

LEMMA NothingSound ==
    ASSUME NEW p \in Nat
    PROVE  Sound(NoFile, p) /\ EntryCount(NoFile.lines) = 0 /\ Owed(NoFile) = 0
<1>1. NoFile.lines = <<>> /\ Len(NoFile.lines) = 0 /\ NoFile.ended /\ NoFile \in FileState
  BY DEF NoFile, FileState
<1> QED BY <1>1, UptoNothing DEF Sound, InOrder, EntryCount, Owed

LEMMA CountTyped ==
    ASSUME NEW lines \in Seq(Seq(Int))
    PROVE  EntryCount(lines) \in Nat
BY UptoCounts DEF EntryCount

LEMMA OlderSound ==
    ASSUME NEW p \in Nat, NEW f, Sound(f, p)
    PROVE  Sound(f, p + 1)
<1>1. \A i \in 1 .. Len(f.lines) : \A k \in 1 .. Len(f.lines[i]) : f.lines[i][k] \in Int
  BY DEF Sound, FileState
<1>2. /\ f \in FileState /\ (f.ended \/ f.lines # <<>>)
      /\ \A i \in 1 .. Len(f.lines) :
            f.lines[i] # <<>> /\ \A k \in 1 .. Len(f.lines[i]) : f.lines[i][k] >= -1 /\ f.lines[i][k] <= p
      /\ \A i, j \in 1 .. Len(f.lines) : i < j =>
            \A k \in 1 .. Len(f.lines[i]) : \A m \in 1 .. Len(f.lines[j]) :
                f.lines[j][m] > 0 => f.lines[i][k] < f.lines[j][m]
  BY Zenon DEF Sound, InOrder
<1>3. ASSUME NEW x \in Int, x <= p PROVE x <= p + 1
  BY <1>3
<1>4. \A i \in 1 .. Len(f.lines) : \A k \in 1 .. Len(f.lines[i]) : f.lines[i][k] <= p + 1
  BY <1>1, <1>2, <1>3, Zenon
<1> QED BY <1>2, <1>4, Zenon DEF Sound, InOrder

\* Without its first lines.
LEMMA RotatedSound ==
    ASSUME NEW p \in Nat, NEW f, Sound(f, p)
    PROVE  Sound(Rotated(f), p)
<1> DEFINE n == Len(f.lines)
           m == n \div 4 + 1
           kept == SubSeq(f.lines, m, n)
<1>1. f.lines \in Seq(Seq(Int)) /\ n \in Nat /\ \A i \in 1 .. n : f.lines[i] \in Seq(Int)
  BY DEF Sound, FileState
<1>2. m \in 1 .. n + 1
  <2> HIDE DEF n
  <2>1. n \div 4 \in 0 .. n
    BY <1>1, Z3
  <2> QED BY <1>1, <2>1
<1> HIDE DEF m
<1>3. /\ kept \in Seq(Seq(Int)) /\ Len(kept) = n - m + 1
      /\ \A i \in 1 .. n - m + 1 : kept[i] = f.lines[m + i - 1]
  <2>1. m \in Int /\ n \in Int /\ \A i \in m .. n : f.lines[i] \in Seq(Int)
    BY <1>1, <1>2
  <2>2. /\ kept \in Seq(Seq(Int)) /\ Len(kept) = IF m <= n THEN n - m + 1 ELSE 0
        /\ \A i \in 1 .. n - m + 1 : kept[i] = f.lines[m + i - 1]
    BY <2>1, SubSeqProperties
  <2> QED BY <1>1, <1>2, <2>2
<1>4. f \in FileState /\ Rotated(f) = [f EXCEPT !.lines = kept, !.ended = kept = <<>>]
  BY Zenon DEF Rotated, Sound, m
<1> HIDE DEF kept
<1>5. InOrder(kept, p)
  <2>1. \A i \in 1 .. Len(kept) : m + i - 1 \in 1 .. n /\ kept[i] = f.lines[m + i - 1]
    BY <1>1, <1>2, <1>3
  <2>2. InOrder(f.lines, p)
    BY DEF Sound
  <2>3. \A i \in 1 .. Len(kept) :
          /\ kept[i] # <<>>
          /\ \A k \in 1 .. Len(kept[i]) : kept[i][k] >= -1 /\ kept[i][k] <= p
    BY <2>1, <2>2 DEF InOrder
  <2>4. ASSUME NEW i \in 1 .. Len(kept), NEW j \in 1 .. Len(kept), i < j
        PROVE  \A k \in 1 .. Len(kept[i]) : \A l \in 1 .. Len(kept[j]) :
                  kept[j][l] > 0 => kept[i][k] < kept[j][l]
    <3>1. m + i - 1 < m + j - 1
      BY <1>2, <1>3, <2>4
    <3> QED BY <2>1, <2>2, <3>1 DEF InOrder
  <2> QED BY <2>3, <2>4 DEF InOrder
<1>6. /\ Rotated(f) \in FileState
      /\ Rotated(f).lines = kept /\ Rotated(f).ended = (kept = <<>>)
  BY <1>3, <1>4 DEF FileState
<1> QED BY <1>5, <1>6 DEF Sound

LEMMA LineAppended ==
    ASSUME NEW lines \in Seq(Seq(Int)), NEW line \in Seq(Int)
    PROVE  /\ Append(lines, line) \in Seq(Seq(Int))
           /\ Len(Append(lines, line)) = Len(lines) + 1
           /\ Append(lines, line) # <<>>
           /\ \A i \in 1 .. Len(lines) : Append(lines, line)[i] = lines[i]
           /\ Append(lines, line)[Len(lines) + 1] = line
<1> DEFINE S == Seq(Int)
<1>1. lines \in Seq(S) /\ line \in S
  OBVIOUS
<1> HIDE DEF S
<1>2. /\ Append(lines, line) \in Seq(S)
      /\ Len(Append(lines, line)) = Len(lines) + 1
      /\ Append(lines, line) # <<>>
      /\ \A i \in 1 .. Len(lines) : Append(lines, line)[i] = lines[i]
      /\ Append(lines, line)[Len(lines) + 1] = line
  BY <1>1, AppendProperties
<1> QED BY <1>2 DEF S

\* A line of its own.
LEMMA AddedLine ==
    ASSUME NEW p \in Nat, NEW f, Sound(f, p), f.ended,
           NEW c \in Int, c >= -1, c <= 0 \/ c = p + 1, NEW newline \in BOOLEAN
    PROVE  /\ Sound(Append1(f, c, newline), p + 1)
           /\ EntryCount(Append1(f, c, newline).lines) =
                EntryCount(f.lines) + (IF c # Part THEN 1 ELSE 0)
           /\ Owed(Append1(f, c, newline)) =
                IF newline THEN 0 ELSE IF c # Part THEN 2 ELSE 1
<1> DEFINE n == Len(f.lines)
           lines == Append(f.lines, <<c>>)
           g == Append1(f, c, newline)
<1>1. f.lines \in Seq(Seq(Int)) /\ n \in Nat
  BY DEF Sound, FileState
<1>2. g = [f EXCEPT !.lines = lines, !.ended = newline]
  BY Zenon DEF Append1
<1>3. <<c>> \in Seq(Int) /\ Len(<<c>>) = 1 /\ <<c>>[1] = c /\ <<c>> # <<>>
  OBVIOUS
<1>4. /\ lines \in Seq(Seq(Int)) /\ Len(lines) = n + 1 /\ lines # <<>>
      /\ \A i \in 1 .. n : lines[i] = f.lines[i]
      /\ lines[n + 1] = <<c>>
  BY <1>1, <1>3, LineAppended
<1>5. /\ \A i \in 1 .. n :
            /\ f.lines[i] # <<>> /\ f.lines[i] \in Seq(Int)
            /\ \A k \in 1 .. Len(f.lines[i]) : f.lines[i][k] >= -1 /\ f.lines[i][k] <= p
      /\ \A i, j \in 1 .. n : i < j =>
            \A k \in 1 .. Len(f.lines[i]) : \A m \in 1 .. Len(f.lines[j]) :
                f.lines[j][m] > 0 => f.lines[i][k] < f.lines[j][m]
  <2>1. \A i \in 1 .. n : f.lines[i] \in Seq(Int)
    BY <1>1
  <2>2. /\ \A i \in 1 .. n :
              f.lines[i] # <<>>
              /\ \A k \in 1 .. Len(f.lines[i]) : f.lines[i][k] >= -1 /\ f.lines[i][k] <= p
        /\ \A i, j \in 1 .. n : i < j =>
              \A k \in 1 .. Len(f.lines[i]) : \A m \in 1 .. Len(f.lines[j]) :
                  f.lines[j][m] > 0 => f.lines[i][k] < f.lines[j][m]
    BY Zenon DEF Sound, InOrder
  <2> QED BY <2>1, <2>2, Zenon
<1>6. EntryCount(f.lines) = Cardinality(Upto(f.lines, n))
  BY DEF EntryCount
<1> HIDE DEF lines, n, g
<1>7. \A i \in 1 .. n : \A k \in 1 .. Len(f.lines[i]) : f.lines[i][k] \in Int
  BY <1>5
<1>8. \A i \in 1 .. n + 1 : i \in 1 .. n \/ i = n + 1
  BY <1>1
<1>9. InOrder(lines, p + 1)
  <2>1. ASSUME NEW i \in 1 .. n + 1, NEW k \in 1 .. Len(lines[i])
        PROVE  lines[i] # <<>> /\ lines[i][k] >= -1 /\ lines[i][k] <= p + 1
    <3>1. CASE i \in 1 .. n
      <4>1. lines[i] = f.lines[i] /\ k \in 1 .. Len(f.lines[i])
        BY <1>4, <3>1
      <4>2. /\ f.lines[i] # <<>> /\ f.lines[i][k] >= -1 /\ f.lines[i][k] <= p
            /\ f.lines[i][k] \in Int
        BY <1>5, <1>7, <3>1, <4>1
      <4> QED BY <4>1, <4>2
    <3>2. CASE i = n + 1
      <4>1. lines[i] = <<c>> /\ k \in 1 .. Len(<<c>>)
        BY <1>4, <3>2
      <4>2. k = 1
        BY <1>3, <4>1
      <4> QED BY <1>3, <4>1, <4>2
    <3> QED BY <1>8, <3>1, <3>2
  <2>2. ASSUME NEW i \in 1 .. n + 1 PROVE lines[i] # <<>>
    <3>1. CASE i \in 1 .. n
      BY <1>4, <1>5, <3>1
    <3>2. CASE i = n + 1
      BY <1>3, <1>4, <3>2
    <3> QED BY <1>8, <3>1, <3>2
  <2>3. ASSUME NEW i \in 1 .. n + 1, NEW j \in 1 .. n + 1, i < j,
               NEW k \in 1 .. Len(lines[i]), NEW l \in 1 .. Len(lines[j]), lines[j][l] > 0
        PROVE  lines[i][k] < lines[j][l]
    <3>1. i \in 1 .. n
      BY <1>1, <1>8, <2>3
    <3>2. lines[i] = f.lines[i] /\ k \in 1 .. Len(f.lines[i])
      BY <1>4, <2>3, <3>1
    <3>3. CASE j \in 1 .. n
      <4>1. lines[j] = f.lines[j] /\ l \in 1 .. Len(f.lines[j])
        BY <1>4, <2>3, <3>3
      <4> QED BY <1>5, <2>3, <3>1, <3>2, <3>3, <4>1
    <3>4. CASE j = n + 1
      <4>1. lines[j] = <<c>> /\ l = 1
        BY <1>3, <1>4, <2>3, <3>4
      <4>2. lines[j][l] = p + 1
        BY <1>3, <2>3, <4>1
      <4>3. f.lines[i][k] \in Int /\ f.lines[i][k] <= p
        BY <1>5, <1>7, <3>1, <3>2
      <4> QED BY <3>2, <4>2, <4>3
    <3> QED BY <1>8, <2>3, <3>3, <3>4
  <2> QED BY <1>4, <2>1, <2>2, <2>3 DEF InOrder
<1>10. IsEntry(lines[n + 1]) <=> c # Part
  BY <1>3, <1>4 DEF IsEntry
<1>11. EntryCount(lines) = EntryCount(f.lines) + (IF c # Part THEN 1 ELSE 0)
  <2>1. Upto(lines, n) = Upto(f.lines, n)
    BY <1>4 DEF Upto
  <2>2. Cardinality(Upto(lines, n + 1)) =
          Cardinality(Upto(lines, n)) + (IF IsEntry(lines[n + 1]) THEN 1 ELSE 0)
    BY <1>1, UptoCounts
  <2> QED BY <1>4, <1>6, <1>10, <2>1, <2>2 DEF EntryCount
<1>12. g \in FileState /\ g.lines = lines /\ g.ended = newline
  BY <1>2, <1>4 DEF Sound, FileState
<1>13. Owed(g) = IF newline THEN 0 ELSE IF c # Part THEN 2 ELSE 1
  <2>1. g.lines[Len(g.lines)] = lines[n + 1]
    BY <1>4, <1>12
  <2>2. IsEntry(g.lines[Len(g.lines)]) <=> c # Part
    BY <1>10, <2>1
  <2> QED BY <1>12, <2>2, Zenon DEF Owed
<1> QED BY <1>4, <1>9, <1>11, <1>12, <1>13 DEF Sound, g

\* Behind a line without its end: neither that one nor this is an entry any more.
LEMMA GluedLine ==
    ASSUME NEW p \in Nat, NEW f, Sound(f, p), ~f.ended,
           NEW c \in Int, c >= -1, c <= 0 \/ c = p + 1, NEW newline \in BOOLEAN
    PROVE  /\ Sound(Append1(f, c, newline), p + 1)
           /\ EntryCount(Append1(f, c, newline).lines) =
                EntryCount(f.lines) - (IF IsEntry(f.lines[Len(f.lines)]) THEN 1 ELSE 0)
           /\ Owed(Append1(f, c, newline)) = IF newline THEN 0 ELSE 1
<1> DEFINE n == Len(f.lines)
           old == f.lines[n]
           last == Append(old, c)
           lines == [f.lines EXCEPT ![n] = last]
           g == Append1(f, c, newline)
           glued == IF IsEntry(old) THEN 1 ELSE 0
<1>1. f.lines \in Seq(Seq(Int)) /\ n \in Nat /\ \A i \in 1 .. n : f.lines[i] \in Seq(Int)
  BY DEF Sound, FileState
<1>2. g.lines = lines /\ g.ended = newline /\ g.exists = f.exists
      /\ g = [exists |-> f.exists, lines |-> lines, ended |-> newline]
  <2>1. g = [f EXCEPT !.lines = lines, !.ended = newline]
    BY Zenon DEF Append1
  <2>2. f \in FileState
    BY DEF Sound
  <2> HIDE DEF lines, g
  <2> QED BY <2>1, <2>2 DEF FileState
<1>3. n > 0 /\ n \in 1 .. n /\ old \in Seq(Int)
  <2>1. n # 0
    BY <1>1, EmptySeq DEF Sound
  <2> QED BY <1>1, <2>1
<1>4. /\ \A i \in 1 .. n :
            /\ f.lines[i] # <<>>
            /\ \A k \in 1 .. Len(f.lines[i]) : f.lines[i][k] >= -1 /\ f.lines[i][k] <= p
      /\ \A i, j \in 1 .. n : i < j =>
            \A k \in 1 .. Len(f.lines[i]) : \A m \in 1 .. Len(f.lines[j]) :
                f.lines[j][m] > 0 => f.lines[i][k] < f.lines[j][m]
  BY DEF Sound, InOrder
<1>5. EntryCount(f.lines) = Cardinality(Upto(f.lines, n))
  BY DEF EntryCount
<1>6. glued = IF IsEntry(f.lines[Len(f.lines)]) THEN 1 ELSE 0
  OBVIOUS
<1>7. old = f.lines[n]
  OBVIOUS
<1> HIDE DEF n, lines, g, old
<1>8. /\ last \in Seq(Int) /\ Len(last) = Len(old) + 1 /\ last # <<>>
      /\ \A k \in 1 .. Len(old) : last[k] = old[k]
      /\ last[Len(old) + 1] = c
  BY <1>3, AppendProperties
<1> HIDE DEF last
<1>9. Len(old) \in Nat /\ Len(old) > 0
  <2>1. old # <<>>
    BY <1>3, <1>4, <1>7
  <2> QED BY <1>3, <2>1, EmptySeq
<1>10. /\ lines \in Seq(Seq(Int)) /\ Len(lines) = n /\ lines[n] = last
       /\ \A i \in 1 .. n : i # n => lines[i] = f.lines[i]
  BY <1>1, <1>3, <1>8, ExceptSeq DEF lines, n
<1>11. \A i \in 1 .. n : \A k \in 1 .. Len(f.lines[i]) : f.lines[i][k] \in Int
  BY <1>1
<1>12. \A k \in 1 .. Len(last) :
         \/ k \in 1 .. Len(old) /\ last[k] = old[k]
         \/ last[k] = c
  BY <1>8, <1>9
<1>13. \A k \in 1 .. Len(last) : last[k] >= -1 /\ last[k] <= p + 1
  <2>1. \A k \in 1 .. Len(old) : old[k] \in Int /\ old[k] >= -1 /\ old[k] <= p
    BY <1>3, <1>4, <1>7, <1>11
  <2> QED BY <1>12, <2>1
<1>14. InOrder(lines, p + 1)
  <2>1. ASSUME NEW i \in 1 .. n
        PROVE  /\ lines[i] # <<>>
               /\ \A k \in 1 .. Len(lines[i]) : lines[i][k] >= -1 /\ lines[i][k] <= p + 1
    <3>1. CASE i # n
      <4>1. lines[i] = f.lines[i]
        BY <1>10, <3>1
      <4>2. \A k \in 1 .. Len(f.lines[i]) :
               f.lines[i][k] >= -1 /\ f.lines[i][k] <= p /\ f.lines[i][k] \in Int
        BY <1>4, <1>11
      <4>3. \A k \in 1 .. Len(f.lines[i]) : f.lines[i][k] <= p + 1
        BY <4>2
      <4> QED BY <1>4, <4>1, <4>2, <4>3
    <3>2. CASE i = n
      BY <1>8, <1>10, <1>13, <3>2
    <3> QED BY <3>1, <3>2
  <2>2. ASSUME NEW i \in 1 .. n, NEW j \in 1 .. n, i < j,
               NEW k \in 1 .. Len(lines[i]), NEW l \in 1 .. Len(lines[j]), lines[j][l] > 0
        PROVE  lines[i][k] < lines[j][l]
    <3>1. i # n
      BY <1>1, <2>2
    <3>2. lines[i] = f.lines[i] /\ k \in 1 .. Len(f.lines[i])
      BY <1>10, <2>2, <3>1
    <3>3. CASE j # n
      <4>1. lines[j] = f.lines[j] /\ l \in 1 .. Len(f.lines[j])
        BY <1>10, <2>2, <3>3
      <4> QED BY <1>4, <2>2, <3>2, <4>1
    <3>4. CASE j = n
      <4>1. lines[j] = last
        BY <1>10, <3>4
      <4>2. CASE l \in 1 .. Len(old) /\ last[l] = old[l]
        BY <1>3, <1>4, <1>7, <2>2, <3>2, <3>4, <4>1, <4>2
      <4>3. CASE last[l] = c
        <5>1. c = p + 1
          BY <2>2, <4>1, <4>3
        <5>2. f.lines[i][k] \in Int /\ f.lines[i][k] <= p
          BY <1>4, <1>11, <3>2
        <5> QED BY <3>2, <4>1, <4>3, <5>1, <5>2
      <4> QED BY <1>12, <2>2, <4>1, <4>2, <4>3
    <3> QED BY <3>3, <3>4
  <2> QED BY <1>10, <2>1, <2>2 DEF InOrder
<1>15. ~IsEntry(lines[n])
  BY <1>8, <1>9, <1>10 DEF IsEntry
<1>16. EntryCount(lines) = EntryCount(f.lines) - glued
  <2>1. n - 1 \in Nat /\ n - 1 + 1 = n
    BY <1>1, <1>3
  <2>2. Upto(lines, n - 1) = Upto(f.lines, n - 1)
    <3>1. \A i \in 1 .. n - 1 : i \in 1 .. n /\ i # n
      BY <1>1
    <3>2. \A i \in 1 .. n - 1 : lines[i] = f.lines[i]
      BY <1>10, <3>1
    <3> QED BY <3>2 DEF Upto
  <2>3. /\ Cardinality(Upto(f.lines, n - 1)) \in Nat
        /\ Cardinality(Upto(f.lines, n)) =
             Cardinality(Upto(f.lines, n - 1)) + (IF IsEntry(f.lines[n]) THEN 1 ELSE 0)
    BY <2>1, UptoCounts
  <2>4. Cardinality(Upto(lines, n)) =
             Cardinality(Upto(lines, n - 1)) + (IF IsEntry(lines[n]) THEN 1 ELSE 0)
    BY <2>1, UptoCounts
  <2>5. EntryCount(lines) = Cardinality(Upto(lines, n))
    BY <1>10 DEF EntryCount
  <2> QED BY <1>5, <1>7, <1>15, <2>2, <2>3, <2>4, <2>5
<1> HIDE DEF glued
<1>17. g \in FileState /\ lines # <<>>
  BY <1>2, <1>3, <1>10 DEF Sound, FileState
<1>18. Owed(g) = IF newline THEN 0 ELSE 1
  <2>1. ~IsEntry(g.lines[Len(g.lines)])
    BY <1>2, <1>10, <1>15
  <2> QED BY <1>2, <2>1, Zenon DEF Owed
<1> QED BY <1>2, <1>6, <1>14, <1>16, <1>17, <1>18 DEF Sound, g

Balance(f) == EntryCount(f.lines) - Owed(f)

\* An entry counts, or makes good what was owed; an append that is cut may take one.
LEMMA AppendCosts ==
    ASSUME NEW p \in Nat, NEW f, Sound(f, p),
           NEW c \in Int, c >= -1, c <= 0 \/ c = p + 1, NEW newline \in BOOLEAN
    PROVE  /\ Sound(Append1(f, c, newline), p + 1)
           /\ Balance(f) \in Int /\ Balance(Append1(f, c, newline)) \in Int
           /\ newline /\ c = p + 1 => Balance(Append1(f, c, newline)) = Balance(f) + 1
           /\ ~newline => Balance(Append1(f, c, newline)) >= Balance(f) - 1
<1> DEFINE g == Append1(f, c, newline)
           count == EntryCount(f.lines)
<1>1. count \in Nat
  BY CountTyped DEF Sound, FileState
<1> HIDE DEF g, count
<1>2. CASE f.ended
  <2>1. /\ Sound(g, p + 1)
        /\ EntryCount(g.lines) = count + (IF c # 0 THEN 1 ELSE 0)
        /\ Owed(g) = IF newline THEN 0 ELSE IF c # 0 THEN 2 ELSE 1
    BY <1>2, AddedLine DEF g, count, Part
  <2>2. Owed(f) = 0
    BY <1>2 DEF Owed
  <2> QED BY <1>1, <2>1, <2>2 DEF Balance, g, count
<1>3. CASE ~f.ended
  <2> DEFINE glued == IF IsEntry(f.lines[Len(f.lines)]) THEN 1 ELSE 0
  <2>1. /\ Sound(g, p + 1)
        /\ EntryCount(g.lines) = count - glued
        /\ Owed(g) = IF newline THEN 0 ELSE 1
    BY <1>3, GluedLine DEF g, count
  <2>2. Owed(f) = 1 + glued /\ glued \in {0, 1}
    BY <1>3 DEF Owed
  <2> HIDE DEF glued
  <2>3. Balance(g) = count - glued - (IF newline THEN 0 ELSE 1) /\ Balance(f) = count - (1 + glued)
    BY <2>1, <2>2 DEF Balance, count
  <2> QED BY <1>1, <2>1, <2>2, <2>3 DEF g
<1> QED BY <1>2, <1>3

-----------------------------------------------------------------------------
(***************************************************************************)
(* The invariant.  Of each session: its file is sound, a writer that does  *)
(* not reach the file of that name belongs to one that is not whole, and   *)
(* what is missing of a whole one, with what the next append may cost, is  *)
(* no more than two chunks a fault.                                        *)
(***************************************************************************)
Typed ==
    /\ file \in [Session -> FileState] /\ writer \in [Session -> WriterState]
    /\ printed \in [Session -> Nat] /\ faults \in [Session -> Nat]
    /\ whole \in [Session -> BOOLEAN]

Apart(w) == w \in {"failed", "nameless"}

Kept(s) ==
    /\ Sound(file[s], printed[s])
    /\ Apart(writer[s]) => ~whole[s]
    /\ whole[s] => printed[s] - Balance(file[s]) <= 2 * faults[s]

Recorded == Typed /\ \A s \in Session : Kept(s)

LEMMA BalanceTyped ==
    ASSUME NEW f \in FileState
    PROVE  Balance(f) \in Int
<1>1. EntryCount(f.lines) \in Nat
  BY CountTyped DEF FileState
<1>2. Owed(f) \in {0, 1, 2}
  BY DEF Owed
<1> QED BY <1>1, <1>2 DEF Balance

LEMMA NoFileTyped == NoFile \in FileState /\ \A p \in Nat : Sound(NoFile, p)
<1>1. \A p \in Nat : Sound(NoFile, p)
  BY NothingSound
<1>2. NoFile \in FileState
  BY <1>1 DEF Sound
<1> QED BY <1>1, <1>2

\* What becomes of the files and the writers when some files are removed.
LEMMA DirectoryDoes ==
    ASSUME NEW files \in [Session -> FileState], NEW ages,
           NEW writers \in [Session -> WriterState], NEW removed,
           Directory(files, ages, writers, removed)
    PROVE  /\ file' \in [Session -> FileState] /\ writer' \in [Session -> WriterState]
           /\ \A t \in Session :
                /\ file'[t] = IF t \in removed THEN NoFile ELSE files[t]
                /\ writer'[t] = writers[t] \/ t \in removed
<1>1. /\ file' = [t \in Session |-> IF t \in removed THEN NoFile ELSE files[t]]
      /\ writer' = [t \in Session |-> IF t \in removed /\ writers[t] = "named"
                                      THEN "nameless" ELSE writers[t]]
  BY DEF Directory
<1>2. \A t \in Session : files[t] \in FileState /\ NoFile \in FileState
  BY NoFileTyped
<1>3. \A t \in Session : writers[t] \in WriterState /\ "nameless" \in WriterState
  BY DEF WriterState
<1> QED BY <1>1, <1>2, <1>3

\* The end of an append: a file stays, or is no longer whole.
LEMMA RotateDoes ==
    ASSUME Typed, NEW s \in Session, NEW files \in [Session -> FileState], NEW ages, NEW bytes,
           \A t \in Session : Apart(writer[t]) => ~whole[t],
           NEW p \in [Session -> Nat], \A t \in Session : Sound(files[t], p[t]),
           Rotate(s, files, ages, bytes)
    PROVE  /\ file' \in [Session -> FileState] /\ writer' \in [Session -> WriterState]
           /\ whole' \in [Session -> BOOLEAN]
           /\ \A t \in Session :
                /\ Sound(file'[t], p[t])
                /\ Apart(writer'[t]) => ~whole'[t]
                /\ whole'[t] => whole[t] /\ file'[t] = files[t]
<1> DEFINE rotated == [files EXCEPT ![s] = Rotated(@)]
           newest  == Append(SelectSeq(ages, LAMBDA t : t # s), s)
           oldest  == ToSet(SubSeq(newest, 1, Excess(rotated, newest)))
           old     == ToSet(SubSeq(ages, 1, Excess(files, ages)))
<1>1. \/ Directory(files, ages, writer, {}) /\ whole' = whole
      \/ \E removed \in SUBSET oldest :
            /\ Directory(rotated, newest, [writer EXCEPT ![s] = "nameless"], removed)
            /\ whole' = [t \in Session |-> whole[t] /\ t # s /\ t \notin removed]
      \/ \E removed \in SUBSET old :
            /\ Directory(files, ages, writer, removed)
            /\ whole' = [t \in Session |-> whole[t] /\ t \notin removed]
  BY Zenon DEF Rotate
<1>2. /\ writer \in [Session -> WriterState] /\ whole \in [Session -> BOOLEAN]
      /\ "nameless" \in WriterState
  BY DEF Typed, WriterState
<1>3. Sound(Rotated(files[s]), p[s]) /\ p[s] \in Nat /\ Rotated(files[s]) \in FileState
  <2>1. p[s] \in Nat /\ Sound(files[s], p[s])
    OBVIOUS
  <2>2. Sound(Rotated(files[s]), p[s])
    BY <2>1, RotatedSound
  <2> QED BY <2>1, <2>2 DEF Sound
<1>4. /\ rotated \in [Session -> FileState]
      /\ \A t \in Session : Sound(rotated[t], p[t])
      /\ \A t \in Session : t # s => rotated[t] = files[t]
  BY <1>3
<1>5. \A t \in Session : Sound(NoFile, p[t])
  BY NoFileTyped
<1> HIDE DEF rotated, newest, oldest, old
<1>6. CASE Directory(files, ages, writer, {}) /\ whole' = whole
  <2>1. PICK removed : removed = {} /\ Directory(files, ages, writer, removed)
    BY <1>6
  <2>2. /\ file' \in [Session -> FileState] /\ writer' \in [Session -> WriterState]
        /\ \A t \in Session :
             /\ file'[t] = IF t \in removed THEN NoFile ELSE files[t]
             /\ writer'[t] = writer[t] \/ t \in removed
    BY <1>2, <2>1, DirectoryDoes
  <2> QED BY <1>2, <1>6, <2>1, <2>2
<1>7. CASE \E removed \in SUBSET oldest :
            /\ Directory(rotated, newest, [writer EXCEPT ![s] = "nameless"], removed)
            /\ whole' = [t \in Session |-> whole[t] /\ t # s /\ t \notin removed]
  <2>1. PICK removed :
            /\ Directory(rotated, newest, [writer EXCEPT ![s] = "nameless"], removed)
            /\ whole' = [t \in Session |-> whole[t] /\ t # s /\ t \notin removed]
    BY <1>7
  <2>6. PICK writers, left, order :
            /\ writers = [writer EXCEPT ![s] = "nameless"] /\ left = rotated
            /\ Directory(left, order, writers, removed)
    BY <2>1
  <2>2. writers \in [Session -> WriterState] /\ \A t \in Session : t # s => writers[t] = writer[t]
    BY <1>2, <2>6
  <2>3. /\ file' \in [Session -> FileState] /\ writer' \in [Session -> WriterState]
        /\ \A t \in Session :
             /\ file'[t] = IF t \in removed THEN NoFile ELSE left[t]
             /\ writer'[t] = writers[t] \/ t \in removed
    <3>1. left \in [Session -> FileState]
      BY <1>4, <2>6
    <3>2. Directory(left, order, writers, removed)
      BY <2>6
    <3> QED BY <2>2, <3>1, <3>2, DirectoryDoes
  <2>4. \A t \in Session : whole'[t] = (whole[t] /\ t # s /\ t \notin removed)
    BY <2>1
  <2>5. whole' \in [Session -> BOOLEAN]
    BY <2>1
  <2> QED BY <1>2, <1>4, <1>5, <2>2, <2>3, <2>4, <2>5, <2>6
<1>8. CASE \E removed \in SUBSET old :
            /\ Directory(files, ages, writer, removed)
            /\ whole' = [t \in Session |-> whole[t] /\ t \notin removed]
  <2>1. PICK removed :
            /\ Directory(files, ages, writer, removed)
            /\ whole' = [t \in Session |-> whole[t] /\ t \notin removed]
    BY <1>8
  <2>2. /\ file' \in [Session -> FileState] /\ writer' \in [Session -> WriterState]
        /\ \A t \in Session :
             /\ file'[t] = IF t \in removed THEN NoFile ELSE files[t]
             /\ writer'[t] = writer[t] \/ t \in removed
    BY <1>2, <2>1, DirectoryDoes
  <2>3. \A t \in Session : whole'[t] = (whole[t] /\ t \notin removed)
    BY <2>1
  <2>4. whole' \in [Session -> BOOLEAN]
    BY <2>1
  <2> QED BY <1>2, <1>5, <2>2, <2>3, <2>4
<1> QED BY <1>1, <1>6, <1>7, <1>8

LEMMA RecordedByRotate ==
    ASSUME Recorded, NEW s \in Session, NEW files \in [Session -> FileState], NEW ages, NEW bytes,
           NEW p \in [Session -> Nat], NEW f \in [Session -> Nat],
           printed' = p, faults' = f,
           \A t \in Session : /\ Sound(files[t], p[t])
                              /\ whole[t] => p[t] - Balance(files[t]) <= 2 * f[t],
           Rotate(s, files, ages, bytes)
    PROVE  Recorded'
<1>1. /\ file' \in [Session -> FileState] /\ writer' \in [Session -> WriterState]
      /\ whole' \in [Session -> BOOLEAN]
      /\ \A t \in Session :
           /\ Sound(file'[t], p[t])
           /\ Apart(writer'[t]) => ~whole'[t]
           /\ whole'[t] => whole[t] /\ file'[t] = files[t]
  BY RotateDoes DEF Recorded, Kept
<1>2. Typed'
  BY <1>1 DEF Typed
<1>3. \A t \in Session : Kept(t)'
  BY <1>1 DEF Kept
<1> QED BY <1>2, <1>3 DEF Recorded

\* A line is appended to the file of s, whole or cut short.
Appended(s, c, newline, files, p, f) ==
    /\ c \in Int /\ c >= -1 /\ newline \in BOOLEAN
    /\ files = [file EXCEPT ![s] = Append1(@, c, newline)]
    /\ p = [printed EXCEPT ![s] = @ + 1]
    /\ IF newline THEN f = faults /\ c = printed[s] + 1
       ELSE f = [faults EXCEPT ![s] = @ + 1] /\ (c <= 0 \/ c = printed[s] + 1)

Accounted(files, p, f) ==
    /\ files \in [Session -> FileState] /\ p \in [Session -> Nat] /\ f \in [Session -> Nat]
    /\ \A t \in Session : /\ Sound(files[t], p[t])
                          /\ whole[t] => p[t] - Balance(files[t]) <= 2 * f[t]

LEMMA FilesByAppend ==
    ASSUME Recorded, NEW s \in Session, NEW c, NEW newline, NEW files, NEW p, NEW f,
           Appended(s, c, newline, files, p, f)
    PROVE  Accounted(files, p, f)
<1>0. /\ c \in Int /\ c >= -1 /\ newline \in BOOLEAN /\ (c <= 0 \/ c = printed[s] + 1)
      /\ files = [file EXCEPT ![s] = Append1(@, c, newline)]
      /\ p = [printed EXCEPT ![s] = @ + 1]
      /\ newline => f = faults /\ c = printed[s] + 1
      /\ ~newline => f = [faults EXCEPT ![s] = @ + 1]
  BY DEF Appended
<1> DEFINE g == Append1(file[s], c, newline)
<1>1. /\ file \in [Session -> FileState] /\ printed \in [Session -> Nat] /\ faults \in [Session -> Nat]
      /\ \A t \in Session :
           /\ Sound(file[t], printed[t])
           /\ whole[t] => printed[t] - Balance(file[t]) <= 2 * faults[t]
  BY DEF Recorded, Typed, Kept
<1>2. /\ Sound(g, printed[s] + 1)
      /\ Balance(file[s]) \in Int /\ Balance(g) \in Int
      /\ newline /\ c = printed[s] + 1 => Balance(g) = Balance(file[s]) + 1
      /\ ~newline => Balance(g) >= Balance(file[s]) - 1
  BY <1>0, <1>1, AppendCosts
<1>3. g \in FileState
  BY <1>2 DEF Sound
<1>4. files = [file EXCEPT ![s] = g]
  BY <1>0
<1> HIDE DEF g
<1>5. /\ files \in [Session -> FileState] /\ files[s] = g
      /\ \A t \in Session : t # s => files[t] = file[t]
  BY <1>1, <1>3, <1>4
<1>6. /\ p \in [Session -> Nat] /\ p[s] = printed[s] + 1
      /\ \A t \in Session : t # s => p[t] = printed[t]
  BY <1>0, <1>1
<1>7. /\ f \in [Session -> Nat] /\ f[s] = (IF newline THEN faults[s] ELSE faults[s] + 1)
      /\ \A t \in Session : t # s => f[t] = faults[t]
  <2>1. CASE newline
    BY <1>0, <1>1, <2>1
  <2>2. CASE ~newline
    BY <1>0, <1>1, <2>2
  <2> QED BY <2>1, <2>2
<1>8. whole[s] => p[s] - Balance(files[s]) <= 2 * f[s]
  <2>1. printed[s] \in Nat /\ faults[s] \in Nat
    BY <1>1
  <2>2. whole[s] => printed[s] - Balance(file[s]) <= 2 * faults[s]
    BY <1>1
  <2>3. Balance(files[s]) = Balance(g)
    BY <1>5
  <2>4. CASE newline
    <3>1. Balance(g) = Balance(file[s]) + 1 /\ f[s] = faults[s]
      BY <1>0, <1>2, <1>7, <2>4
    <3> QED BY <1>2, <1>6, <2>1, <2>2, <2>3, <3>1
  <2>5. CASE ~newline
    <3>1. Balance(g) >= Balance(file[s]) - 1 /\ f[s] = faults[s] + 1
      BY <1>2, <1>7, <2>5
    <3> QED BY <1>2, <1>6, <2>1, <2>2, <2>3, <3>1
  <2> QED BY <2>4, <2>5
<1>9. ASSUME NEW t \in Session
      PROVE  Sound(files[t], p[t]) /\ (whole[t] => p[t] - Balance(files[t]) <= 2 * f[t])
  BY <1>1, <1>2, <1>5, <1>6, <1>7, <1>8
<1> QED BY <1>5, <1>6, <1>7, <1>9 DEF Accounted

LEMMA AppendOutputRecorded ==
    ASSUME Recorded, NEW s \in Session, AppendOutput(s)
    PROVE  Recorded'
<1>1. /\ printed' = [printed EXCEPT ![s] = @ + 1] /\ faults' = faults
      /\ writer[s] \notin {"none", "closed"}
  BY DEF AppendOutput, Prints
<1>2. /\ file \in [Session -> FileState] /\ printed \in [Session -> Nat] /\ faults \in [Session -> Nat]
      /\ \A t \in Session :
           /\ Sound(file[t], printed[t]) /\ file[t] \in FileState
           /\ Apart(writer[t]) => ~whole[t]
           /\ whole[t] => printed[t] - Balance(file[t]) <= 2 * faults[t]
  BY DEF Recorded, Typed, Kept
<1>3. PICK p : p = [printed EXCEPT ![s] = @ + 1]
  OBVIOUS
<1>4. /\ p \in [Session -> Nat] /\ p[s] = printed[s] + 1
      /\ \A t \in Session : t # s => p[t] = printed[t]
  BY <1>2, <1>3
\* A writer that does not reach the file leaves it behind.
<1>5. ASSUME Apart(writer[s])
      PROVE  \A t \in Session : /\ Sound(file[t], p[t])
                                /\ whole[t] => p[t] - Balance(file[t]) <= 2 * faults[t]
  <2> SUFFICES ASSUME NEW t \in Session
               PROVE  /\ Sound(file[t], p[t])
                      /\ whole[t] => p[t] - Balance(file[t]) <= 2 * faults[t]
    OBVIOUS
  <2>1. CASE t # s
    BY <1>2, <1>4, <2>1
  <2>2. CASE t = s
    <3>1. Sound(file[s], printed[s] + 1)
      BY <1>2, OlderSound
    <3> QED BY <1>2, <1>4, <1>5, <2>2, <3>1
  <2> QED BY <2>1, <2>2
<1>6. CASE writer[s] = "failed"
  <2>1. UNCHANGED <<file, writer, whole>>
    BY <1>6 DEF AppendOutput
  <2>2. Apart(writer[s])
    BY <1>6 DEF Apart
  <2>3. Typed'
    BY <1>1, <1>3, <1>4, <2>1 DEF Recorded, Typed
  <2>4. \A t \in Session : Kept(t)'
    BY <1>1, <1>2, <1>3, <1>5, <2>1, <2>2 DEF Kept
  <2> QED BY <2>3, <2>4 DEF Recorded
<1>7. CASE writer[s] = "nameless"
  <2>1. Rotate(s, file, byAge, size[s] + 1)
    BY <1>7 DEF AppendOutput
  <2>2. Apart(writer[s])
    BY <1>7 DEF Apart
  <2>3. PICK files, ages, bytes, f :
          files = file /\ f = faults /\ Rotate(s, files, ages, bytes)
    BY <2>1
  <2>4. files \in [Session -> FileState] /\ f \in [Session -> Nat]
    BY <1>2, <2>3
  <2>5. \A t \in Session : /\ Sound(files[t], p[t])
                           /\ whole[t] => p[t] - Balance(files[t]) <= 2 * f[t]
    BY <1>5, <2>2, <2>3
  <2>6. Rotate(s, files, ages, bytes) /\ printed' = p /\ faults' = f
    BY <1>1, <1>3, <2>3
  <2> QED BY <1>4, <2>4, <2>5, <2>6, RecordedByRotate
<1>8. CASE writer[s] = "named"
  <2>1. Rotate(s, [file EXCEPT ![s] = Append1(@, printed[s] + 1, TRUE)], Touched(s), size[s] + 1)
    BY <1>8 DEF AppendOutput
  <2>2. PICK c : c = printed[s] + 1
    OBVIOUS
  <2>3. c \in Int /\ c >= -1
    BY <1>2, <2>2
  <2>4. PICK files, ages, bytes, f :
          /\ files = [file EXCEPT ![s] = Append1(@, c, TRUE)] /\ f = faults
          /\ Rotate(s, files, ages, bytes)
    BY <2>1, <2>2
  <2>5. Accounted(files, p, f)
    <3>1. Appended(s, c, TRUE, files, p, f)
      BY <1>3, <2>2, <2>3, <2>4 DEF Appended
    <3> QED BY <3>1, FilesByAppend
  <2>6. Rotate(s, files, ages, bytes) /\ printed' = p /\ faults' = f
    BY <1>1, <1>3, <2>4
  <2> QED BY <2>5, <2>6, RecordedByRotate DEF Accounted
<1>9. writer[s] \in WriterState
  BY DEF Recorded, Typed
<1> QED BY <1>1, <1>6, <1>7, <1>8, <1>9 DEF WriterState

LEMMA AppendRefusedRecorded ==
    ASSUME Recorded, NEW s \in Session, AppendRefused(s)
    PROVE  Recorded'
<1>1. PICK c : /\ c \in {Part, Cut, printed[s] + 1}
               /\ Rotate(s, [file EXCEPT ![s] = Append1(@, c, FALSE)], Touched(s), size[s])
  BY DEF AppendRefused
<1>2. c \in Int /\ c >= -1 /\ (c <= 0 \/ c = printed[s] + 1)
  <2>1. printed[s] \in Nat
    BY DEF Recorded, Typed
  <2> QED BY <1>1, <2>1 DEF Part, Cut
<1>3. PICK files, p, f :
        /\ files = [file EXCEPT ![s] = Append1(@, c, FALSE)]
        /\ p = [printed EXCEPT ![s] = @ + 1]
        /\ f = [faults EXCEPT ![s] = @ + 1]
  OBVIOUS
<1>4. Accounted(files, p, f)
  <2>1. Appended(s, c, FALSE, files, p, f)
    BY <1>2, <1>3 DEF Appended
  <2> QED BY <2>1, FilesByAppend
<1>5. PICK ages, bytes : Rotate(s, files, ages, bytes)
  BY <1>1, <1>3
<1>6. printed' = p /\ faults' = f
  BY <1>3 DEF AppendRefused, Prints
<1> QED BY <1>4, <1>5, <1>6, RecordedByRotate DEF Accounted

LEMMA CrashRecorded ==
    ASSUME Recorded, NEW s \in Session, Crash(s)
    PROVE  Recorded'
<1>1. PICK c : c = printed[s] + 1
  OBVIOUS
<1>2. PICK files, p, f :
        /\ files = [file EXCEPT ![s] = Append1(@, c, FALSE)]
        /\ p = [printed EXCEPT ![s] = @ + 1]
        /\ f = [faults EXCEPT ![s] = @ + 1]
  OBVIOUS
<1>3. c \in Int /\ c >= -1
  <2>1. printed[s] \in Nat
    BY DEF Recorded, Typed
  <2> QED BY <1>1, <2>1
<1>4. Accounted(files, p, f)
  <2>1. Appended(s, c, FALSE, files, p, f)
    BY <1>1, <1>2, <1>3 DEF Appended
  <2> QED BY <2>1, FilesByAppend
<1>5. /\ file' = files /\ printed' = p /\ faults' = f /\ whole' = whole
      /\ writer' = AllClosed
  BY <1>1, <1>2 DEF Crash, Prints
<1>6. \A t \in Session : writer'[t] \in {"none", "closed"}
  BY <1>5 DEF AllClosed
<1>7. Typed'
  BY <1>4, <1>5 DEF Accounted, Recorded, Typed, WriterState, AllClosed
<1>8. \A t \in Session : Kept(t)'
  BY <1>4, <1>5, <1>6 DEF Accounted, Kept, Apart
<1> QED BY <1>7, <1>8 DEF Recorded

LEMMA OpenTabRecorded ==
    ASSUME Recorded, NEW s \in Session, OpenTab(s)
    PROVE  Recorded'
<1> DEFINE g == [file[s] EXCEPT !.exists = TRUE]
<1>1. /\ file \in [Session -> FileState] /\ writer \in [Session -> WriterState]
      /\ \A t \in Session : Kept(t)
  BY DEF Recorded, Typed
<1>2. /\ writer[s] = "none" /\ writer' = [writer EXCEPT ![s] = "named"]
      /\ printed' = printed /\ faults' = faults /\ whole' = whole
  BY DEF OpenTab
<1>3. file' = [file EXCEPT ![s] = g]
  BY DEF OpenTab
<1>4. g \in FileState /\ g.lines = file[s].lines /\ g.ended = file[s].ended
  BY <1>1 DEF FileState
<1> HIDE DEF g
<1>5. Balance(g) = Balance(file[s])
  BY <1>4 DEF Balance, Owed
<1>6. \A p \in {printed[s]} : Sound(g, p)
  BY <1>1, <1>4 DEF Kept, Sound
<1>7. /\ file' \in [Session -> FileState] /\ writer' \in [Session -> WriterState]
      /\ file'[s] = g /\ writer'[s] = "named"
      /\ \A t \in Session : t # s => file'[t] = file[t] /\ writer'[t] = writer[t]
  BY <1>1, <1>2, <1>3, <1>4 DEF WriterState
<1>8. Typed'
  BY <1>2, <1>7 DEF Recorded, Typed
<1>9. ASSUME NEW t \in Session PROVE Kept(t)'
  <2>1. CASE t = s
    BY <1>1, <1>2, <1>5, <1>6, <1>7, <2>1 DEF Kept, Apart
  <2>2. CASE t # s
    BY <1>1, <1>2, <1>7, <2>2 DEF Kept
  <2> QED BY <2>1, <2>2
<1> QED BY <1>8, <1>9 DEF Recorded

LEMMA OpenTabFailsRecorded ==
    ASSUME Recorded, NEW s \in Session, OpenTabFails(s)
    PROVE  Recorded'
<1>1. Typed /\ \A t \in Session : Kept(t)
  BY DEF Recorded
<1>2. /\ writer' = [writer EXCEPT ![s] = "failed"] /\ whole' = [whole EXCEPT ![s] = FALSE]
      /\ faults' = [faults EXCEPT ![s] = @ + 1] /\ printed' = printed /\ file' = file
  BY DEF OpenTabFails
<1>3. Typed'
  BY <1>1, <1>2 DEF Typed, WriterState
<1>4. /\ \A t \in Session : whole'[t] => whole[t] /\ t # s
      /\ \A t \in Session : t # s => writer'[t] = writer[t] /\ faults'[t] = faults[t]
  BY <1>1, <1>2 DEF Typed
<1>5. ASSUME NEW t \in Session PROVE Kept(t)'
  BY <1>1, <1>2, <1>4 DEF Kept
<1> QED BY <1>3, <1>5 DEF Recorded

LEMMA CloseTabRecorded ==
    ASSUME Recorded, NEW s \in Session, CloseTab(s)
    PROVE  Recorded'
<1>1. Typed /\ \A t \in Session : Kept(t)
  BY DEF Recorded
<1>2. /\ writer' = [writer EXCEPT ![s] = "closed"]
      /\ UNCHANGED <<file, printed, faults, whole>>
  BY DEF CloseTab
<1>3. Typed'
  BY <1>1, <1>2 DEF Typed, WriterState
<1>4. \A t \in Session : writer'[t] = writer[t] \/ writer'[t] = "closed"
  BY <1>1, <1>2 DEF Typed
<1>5. ASSUME NEW t \in Session PROVE Kept(t)'
  BY <1>1, <1>2, <1>4 DEF Kept, Apart
<1> QED BY <1>3, <1>5 DEF Recorded

LEMMA RestartRecorded ==
    ASSUME Recorded, Restart
    PROVE  Recorded'
<1>1. Typed /\ \A t \in Session : Kept(t)
  BY DEF Recorded
<1>2. PICK removed :
        /\ Directory(file, byAge, AllClosed, removed)
        /\ whole' = [s \in Session |-> whole[s] /\ s \notin removed]
  BY DEF Restart
<1>3. printed' = printed /\ faults' = faults
  BY DEF Restart
<1>4. PICK files, ages, writers :
        /\ files = file /\ writers = AllClosed
        /\ Directory(files, ages, writers, removed)
  BY <1>2
<1>5. /\ file' \in [Session -> FileState] /\ writer' \in [Session -> WriterState]
      /\ \A t \in Session :
           /\ file'[t] = IF t \in removed THEN NoFile ELSE files[t]
           /\ writer'[t] = writers[t] \/ t \in removed
  <2>1. files \in [Session -> FileState]
    BY <1>1, <1>4 DEF Typed
  <2>2. writers \in [Session -> WriterState]
    BY <1>4 DEF WriterState, AllClosed
  <2>3. Directory(files, ages, writers, removed)
    BY <1>4
  <2> QED BY <2>1, <2>2, <2>3, DirectoryDoes
<1>6. \A t \in Session : writers[t] \in {"none", "closed"}
  BY <1>4 DEF AllClosed
<1>7. Typed'
  BY <1>1, <1>2, <1>3, <1>5 DEF Typed
<1>8. \A t \in Session : whole'[t] = (whole[t] /\ t \notin removed)
  BY <1>2
<1>9. ASSUME NEW t \in Session PROVE Kept(t)'
  <2>1. CASE t \in removed
    <3>1. Sound(NoFile, printed[t])
      BY <1>1, NoFileTyped DEF Typed
    <3>2. file'[t] = NoFile /\ ~whole'[t]
      BY <1>5, <1>8, <2>1
    <3> QED BY <1>3, <3>1, <3>2 DEF Kept
  <2>2. CASE t \notin removed
    <3>1. file'[t] = file[t] /\ writer'[t] \in {"none", "closed"}
      BY <1>4, <1>5, <1>6, <2>2
    <3>2. whole'[t] => whole[t]
      BY <1>8
    <3> QED BY <1>1, <1>3, <3>1, <3>2 DEF Kept, Apart
  <2> QED BY <2>1, <2>2
<1> QED BY <1>7, <1>9 DEF Recorded

LEMMA RecordedInit == Init => Recorded
<1> SUFFICES ASSUME Init PROVE Recorded
  OBVIOUS
<1>1. Typed
  BY NoFileTyped DEF Init, Typed, WriterState
<1>2. ASSUME NEW s \in Session PROVE Kept(s)
  <2>1. /\ file[s] = NoFile /\ printed[s] = 0 /\ faults[s] = 0 /\ writer[s] = "none"
    BY DEF Init
  <2>2. Sound(NoFile, 0) /\ Balance(NoFile) = 0
    BY NothingSound DEF Balance
  <2> QED BY <2>1, <2>2 DEF Kept, Apart
<1> QED BY <1>1, <1>2 DEF Recorded

LEMMA RecordedNext == Recorded /\ [Next]_vars => Recorded'
<1> SUFFICES ASSUME Recorded, [Next]_vars PROVE Recorded'
  OBVIOUS
<1>1. ASSUME NEW s \in Session, OpenTab(s) PROVE Recorded'
  BY <1>1, OpenTabRecorded
<1>2. ASSUME NEW s \in Session, OpenTabFails(s) PROVE Recorded'
  BY <1>2, OpenTabFailsRecorded
<1>3. ASSUME NEW s \in Session, CloseTab(s) PROVE Recorded'
  BY <1>3, CloseTabRecorded
<1>4. ASSUME NEW s \in Session, AppendOutput(s) PROVE Recorded'
  BY <1>4, AppendOutputRecorded
<1>5. ASSUME NEW s \in Session, AppendRefused(s) PROVE Recorded'
  BY <1>5, AppendRefusedRecorded
<1>6. ASSUME NEW s \in Session, Crash(s) PROVE Recorded'
  BY <1>6, CrashRecorded
<1>7. CASE Restart
  BY <1>7, RestartRecorded
<1>8. CASE UNCHANGED vars
  BY <1>8 DEF vars, Recorded, Typed, Kept, Apart
<1> QED BY <1>1, <1>2, <1>3, <1>4, <1>5, <1>6, <1>7, <1>8 DEF Next

-----------------------------------------------------------------------------
(* What is read back. *)

LEMMA ShownOfText ==
    ASSUME Recorded, NEW s \in Session, IsText(file[s])
    PROVE  /\ ReadHistory(s) \in Seq(Nat) /\ Len(ReadHistory(s)) = EntryCount(file[s].lines)
           /\ \A k \in DOMAIN ReadHistory(s) : ReadHistory(s)[k] <= printed[s]
           /\ \A k, l \in DOMAIN ReadHistory(s) :
                k < l => ReadHistory(s)[k] < ReadHistory(s)[l]
<1>1. PICK lines, p : lines = file[s].lines /\ p = printed[s]
  OBVIOUS
<1>2. file[s] \in FileState /\ p \in Nat /\ Sound(file[s], p)
  BY <1>1 DEF Recorded, Typed, Kept
<1>3. lines \in Seq(Seq(Int)) /\ InOrder(lines, p)
  BY <1>1, <1>2 DEF Sound, FileState
<1>4. \A i \in 1 .. Len(lines) : Cut \notin ToSet(lines[i])
  BY <1>1, <1>3 DEF IsText
<1>5. /\ Entries(lines) \in Seq(Nat) /\ Len(Entries(lines)) = EntryCount(lines)
      /\ \A k \in DOMAIN Entries(lines) : Entries(lines)[k] <= p
      /\ \A k, l \in DOMAIN Entries(lines) :
           k < l => Entries(lines)[k] < Entries(lines)[l]
  BY <1>2, <1>3, <1>4, EntriesRead
<1>6. ReadHistory(s) = Entries(lines)
  BY <1>1 DEF ReadHistory
<1> QED BY <1>1, <1>5, <1>6

LEMMA RecordedReads == Recorded => ReadsInOrder
<1> SUFFICES ASSUME Recorded, NEW s \in Session, NEW i \in DOMAIN ReadHistory(s)
             PROVE  /\ ReadHistory(s)[i] <= printed[s]
                    /\ i > 1 => ReadHistory(s)[i - 1] < ReadHistory(s)[i]
  BY DEF ReadsInOrder
<1>1. CASE ~IsText(file[s])
  <2>1. ReadHistory(s) = <<>>
    BY <1>1 DEF ReadHistory
  <2> QED BY <2>1
<1>2. CASE IsText(file[s])
  <2>1. /\ ReadHistory(s) \in Seq(Nat)
        /\ ReadHistory(s)[i] <= printed[s]
        /\ \A k, l \in DOMAIN ReadHistory(s) :
                k < l => ReadHistory(s)[k] < ReadHistory(s)[l]
    BY <1>2, ShownOfText
  <2>2. i \in Nat /\ (i > 1 => i - 1 \in DOMAIN ReadHistory(s) /\ i - 1 < i)
    BY <2>1
  <2> QED BY <2>1, <2>2
<1> QED BY <1>1, <1>2

LEMMA RecordedCosts == Recorded => FaultsCostLittle
<1> SUFFICES ASSUME Recorded, NEW s \in Session, whole[s], IsText(file[s])
             PROVE  printed[s] - Len(ReadHistory(s)) <= 2 * faults[s]
  BY DEF FaultsCostLittle
<1>1. Len(ReadHistory(s)) = EntryCount(file[s].lines)
  BY ShownOfText
<1>2. /\ printed[s] \in Nat /\ faults[s] \in Nat /\ file[s] \in FileState
      /\ printed[s] - Balance(file[s]) <= 2 * faults[s]
  BY DEF Recorded, Typed, Kept
<1>3. EntryCount(file[s].lines) \in Nat
  BY <1>2, CountTyped DEF FileState
<1>4. Owed(file[s]) \in {0, 1, 2}
  BY DEF Owed
<1>5. Balance(file[s]) = EntryCount(file[s].lines) - Owed(file[s])
  BY DEF Balance
<1> QED BY <1>1, <1>2, <1>3, <1>4, <1>5

\* What a dead tab shows of its session was printed in that order, and never
\* twice, however often its file was cut short, glued, rotated, removed and begun
\* anew: read_history (history.rs) after any run of the writers.
THEOREM ReadInOrder == Spec => []ReadsInOrder
<1>1. Spec => []Recorded
  BY RecordedInit, RecordedNext, PTL DEF Spec
<1> QED BY <1>1, RecordedReads, PTL

\* Of a session whose file was neither rotated nor removed, a cut append costs
\* itself and the line behind it, and nothing else that was printed is missing.
THEOREM CutsBounded == Spec => []FaultsCostLittle
<1>1. Spec => []Recorded
  BY RecordedInit, RecordedNext, PTL DEF Spec
<1> QED BY <1>1, RecordedCosts, PTL
=============================================================================
