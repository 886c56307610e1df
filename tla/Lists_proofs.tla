---------------------------- MODULE Lists_proofs ----------------------------
(***************************************************************************)
(* Facts about lists and about Keeping, for every list.                    *)
(*                                                                         *)
(* Keeping is a recursion over the list.  The induction principles of the  *)
(* library take an operator; InductionOnSet takes the set of the numbers   *)
(* that an argument is about instead, and RecursionHasSolution the         *)
(* function that makes one value of a recursion from the one before.       *)
(***************************************************************************)
EXTENDS Lists, SequenceTheorems, FiniteSetTheorems, WellFoundedInduction, TLAPS

\* Induction over the naturals, for a set of them.
LEMMA InductionOnSet ==
    ASSUME NEW S, 0 \in S, \A n \in Nat : n \in S => n + 1 \in S
    PROVE  Nat \subseteq S
<1> SUFFICES ASSUME ~(Nat \subseteq S) PROVE FALSE
  OBVIOUS
<1> DEFINE T == Nat \ S
<1>1. T \subseteq Nat /\ T # {}
  OBVIOUS
<1>2. \E m \in T : \A y \in T : ~(<<y, m>> \in OpToRel(<, Nat))
  BY <1>1, NatLessThanWellFounded, WFMin
<1>3. PICK m \in T : \A y \in T : ~(y < m)
  BY <1>2 DEF OpToRel
<1>4. m # 0 /\ m - 1 \in Nat /\ m - 1 \notin T
  BY <1>3
<1> QED
  BY <1>4

\* A recursion over 0 .. n has a solution.
LEMMA RecursionHasSolution ==
    ASSUME NEW V, NEW v \in V, NEW n \in Nat, NEW step \in [1 .. n -> [V -> V]]
    PROVE  \E g \in [0 .. n -> V] :
              g[0] = v /\ \A i \in 1 .. n : g[i] = step[i][g[i - 1]]
<1> DEFINE Solves(g, k) ==
             g[0] = v /\ \A i \in 1 .. k : g[i] = step[i][g[i - 1]]
           S == {k \in Nat : k <= n => \E g \in [0 .. k -> V] : Solves(g, k)}
<1>1. 0 \in S
  <2>1. [i \in 0 .. 0 |-> v] \in [0 .. 0 -> V]
    OBVIOUS
  <2>2. Solves([i \in 0 .. 0 |-> v], 0)
    OBVIOUS
  <2> QED
    BY <2>1, <2>2
<1>2. ASSUME NEW k \in Nat, k \in S PROVE k + 1 \in S
  <2> SUFFICES ASSUME k + 1 <= n PROVE \E g \in [0 .. k + 1 -> V] : Solves(g, k + 1)
    OBVIOUS
  <2>1. PICK g \in [0 .. k -> V] : Solves(g, k)
    BY <1>2
  <2> DEFINE h == [i \in 0 .. k + 1 |-> IF i <= k THEN g[i] ELSE step[k + 1][g[k]]]
  <2>2. g[k] \in V /\ k + 1 \in 1 .. n
    BY <2>1
  <2>3. h \in [0 .. k + 1 -> V]
    BY <2>2
  <2>4. \A i \in 0 .. k : h[i] = g[i]
    OBVIOUS
  <2>5. h[k + 1] = step[k + 1][g[k]]
    OBVIOUS
  <2>6. Solves(h, k + 1)
    <3> HIDE DEF h
    <3>1. h[0] = v
      BY <2>1, <2>4
    <3>2. ASSUME NEW i \in 1 .. k + 1 PROVE h[i] = step[i][h[i - 1]]
      <4>1. CASE i \in 1 .. k
        BY <2>1, <2>4, <4>1
      <4>2. CASE i = k + 1
        BY <2>4, <2>5, <4>2
      <4> QED
        BY <4>1, <4>2
    <3> QED
      BY <3>1, <3>2
  <2> QED
    BY <2>3, <2>6
<1>3. n \in S
  <2> HIDE DEF S
  <2> QED
    BY <1>1, <1>2, InductionOnSet
<1> QED
  BY <1>3

\* The loop of Keeping, unrolled.
KeepingLoop(kept, s, S) ==
    /\ kept[0] = <<>>
    /\ \A n \in 1 .. Len(s) :
          kept[n] = IF s[n] \in S THEN Append(kept[n - 1], s[n]) ELSE kept[n - 1]
    /\ Keeping(s, S) = kept[Len(s)]

LEMMA KeepingUnrolled ==
    ASSUME NEW X, NEW s \in Seq(X), NEW S
    PROVE  \E kept \in [0 .. Len(s) -> Seq(X)] : KeepingLoop(kept, s, S)
<1> DEFINE N == Len(s)
           Body(f) == [n \in 0 .. N |->
             IF n = 0 THEN <<>>
             ELSE IF s[n] \in S THEN Append(f[n - 1], s[n]) ELSE f[n - 1]]
           step == [n \in 1 .. N |-> [t \in Seq(X) |->
             IF s[n] \in S THEN Append(t, s[n]) ELSE t]]
<1>1. N \in Nat /\ \A n \in 1 .. N : s[n] \in X
  OBVIOUS
<1>2. step \in [1 .. N -> [Seq(X) -> Seq(X)]]
  BY <1>1, AppendProperties
<1>3. <<>> \in Seq(X)
  BY EmptySeq
<1>4. PICK g \in [0 .. N -> Seq(X)] :
        g[0] = <<>> /\ \A n \in 1 .. N : g[n] = step[n][g[n - 1]]
  <2> HIDE DEF step, N
  <2>1. \E g \in [0 .. N -> Seq(X)] :
          g[0] = <<>> /\ \A i \in 1 .. N : g[i] = step[i][g[i - 1]]
    <3> DEFINE V == Seq(X)
               v == <<>>
    <3>1. v \in V /\ N \in Nat /\ step \in [1 .. N -> [V -> V]]
      BY <1>1, <1>2, <1>3
    <3> HIDE DEF V, v
    <3>2. \E g \in [0 .. N -> V] : g[0] = v /\ \A i \in 1 .. N : g[i] = step[i][g[i - 1]]
      BY <3>1, RecursionHasSolution
    <3> QED
      BY <3>2 DEF V, v
  <2> QED
    BY <2>1
<1>5. \A n \in 1 .. N :
        g[n] = IF s[n] \in S THEN Append(g[n - 1], s[n]) ELSE g[n - 1]
  <2> SUFFICES ASSUME NEW n \in 1 .. N
               PROVE  g[n] = IF s[n] \in S THEN Append(g[n - 1], s[n]) ELSE g[n - 1]
    OBVIOUS
  <2>1. g[n - 1] \in Seq(X)
    BY <1>1, <1>4
  <2>2. g[n] = step[n][g[n - 1]]
    BY <1>4
  <2> QED
    BY <2>1, <2>2
<1>6. g = Body(g)
  <2>1. g = [n \in 0 .. N |-> g[n]]
    BY <1>4
  <2>2. \A n \in 0 .. N : g[n] = Body(g)[n]
    <3> SUFFICES ASSUME NEW n \in 0 .. N PROVE g[n] = Body(g)[n]
      OBVIOUS
    <3>1. CASE n = 0
      BY <3>1, <1>4
    <3>2. CASE n \in 1 .. N
      <4>1. n # 0
        BY <3>2, <1>1
      <4>2. Body(g)[n] = IF s[n] \in S THEN Append(g[n - 1], s[n]) ELSE g[n - 1]
        BY <4>1
      <4> HIDE DEF Body, N
      <4> QED
        BY <3>2, <4>2, <1>5
    <3>3. n = 0 \/ n \in 1 .. N
      BY <1>1
    <3> HIDE DEF Body, N
    <3> QED
      BY <3>1, <3>2, <3>3
  <2> QED
    BY <2>1, <2>2
<1> DEFINE f == CHOOSE h : h = Body(h)
<1>7. f = Body(f)
  BY <1>6
<1>8. Keeping(s, S) = f[N]
  BY DEF Keeping
<1> HIDE DEF f
<1>9. f[0] = <<>> /\ \A n \in 1 .. N :
        f[n] = IF s[n] \in S THEN Append(f[n - 1], s[n]) ELSE f[n - 1]
  <2>1. \A n \in 0 .. N : f[n] = Body(f)[n]
    BY <1>7
  <2> QED
    BY <1>1, <2>1
<1>10. f \in [0 .. N -> Seq(X)]
  <2> DEFINE T == {n \in Nat : n <= N => f[n] \in Seq(X)}
  <2>1. 0 \in T
    BY <1>3, <1>9
  <2>2. \A n \in Nat : n \in T => n + 1 \in T
    <3> SUFFICES ASSUME NEW n \in Nat, n \in T, n + 1 <= N PROVE f[n + 1] \in Seq(X)
      OBVIOUS
    <3>1. n \in 0 .. N /\ n + 1 \in 1 .. N /\ f[n] \in Seq(X) /\ s[n + 1] \in X
      BY <1>1
    <3>2. f[n + 1] = IF s[n + 1] \in S THEN Append(f[n], s[n + 1]) ELSE f[n]
      BY <1>9, <3>1
    <3> QED
      BY <3>1, <3>2, AppendProperties
  <2>3. \A n \in 0 .. N : f[n] \in Seq(X)
    <3> HIDE DEF T
    <3>1. Nat \subseteq T
      BY <2>1, <2>2, InductionOnSet
    <3> QED
      BY <1>1, <3>1 DEF T
  <2> QED
    BY <1>7, <2>3
<1> QED
  BY <1>8, <1>9, <1>10 DEF KeepingLoop

\* t consists of the elements of s that are in S, each once and in order: at
\* names the place in s each element comes from.
Embeds(at, t, s, S) ==
    /\ \A i \in 1 .. Len(t) : t[i] = s[at[i]] /\ s[at[i]] \in S
    /\ \A i, j \in 1 .. Len(t) : i < j => at[i] < at[j]
    /\ \A k \in 1 .. Len(s) : s[k] \in S => \E i \in 1 .. Len(t) : at[i] = k

LEMMA KeepingEmbeds ==
    ASSUME NEW X, NEW s \in Seq(X), NEW S
    PROVE  /\ Keeping(s, S) \in Seq(X)
           /\ \E at \in [1 .. Len(Keeping(s, S)) -> 1 .. Len(s)] :
                 Embeds(at, Keeping(s, S), s, S)
<1>1. PICK kept \in [0 .. Len(s) -> Seq(X)] : KeepingLoop(kept, s, S)
  BY KeepingUnrolled
<1> DEFINE N == Len(s)
           \* the same of the first n elements of s
           EmbedsIn(at, t, n) ==
             /\ \A i \in 1 .. Len(t) : t[i] = s[at[i]] /\ s[at[i]] \in S
             /\ \A i, j \in 1 .. Len(t) : i < j => at[i] < at[j]
             /\ \A k \in 1 .. n : s[k] \in S => \E i \in 1 .. Len(t) : at[i] = k
<1>2. N \in Nat /\ \A n \in 1 .. N : s[n] \in X
  OBVIOUS
<1> DEFINE T == {n \in Nat : n <= N =>
                   \E at \in [1 .. Len(kept[n]) -> 1 .. n] : EmbedsIn(at, kept[n], n)}
<1>3. 0 \in T
  <2>1. Len(kept[0]) = 0
    BY <1>1 DEF KeepingLoop
  <2>2. [i \in 1 .. 0 |-> i] \in [1 .. Len(kept[0]) -> 1 .. 0]
    BY <2>1
  <2>3. EmbedsIn([i \in 1 .. 0 |-> i], kept[0], 0)
    BY <2>1
  <2> QED
    BY <2>2, <2>3
<1>4. ASSUME NEW n \in Nat, n \in T PROVE n + 1 \in T
  <2> DEFINE m == n + 1
  <2> SUFFICES ASSUME m <= N
               PROVE  \E at \in [1 .. Len(kept[m]) -> 1 .. m] : EmbedsIn(at, kept[m], m)
    OBVIOUS
  <2>1. PICK at \in [1 .. Len(kept[n]) -> 1 .. n] : EmbedsIn(at, kept[n], n)
    BY <1>4
  <2>2. kept[n] \in Seq(X) /\ Len(kept[n]) \in Nat /\ m \in 1 .. N /\ s[m] \in X
    <3>1. m \in 1 .. N /\ n \in 0 .. N
      BY <1>2
    <3> QED
      BY <1>1, <1>2 , <3>1 DEF KeepingLoop
  <2>3. kept[m] = IF s[m] \in S THEN Append(kept[n], s[m]) ELSE kept[n]
    BY <1>1, <2>2, SMTT(30) DEF KeepingLoop
  <2>4. CASE s[m] \notin S
    <3>1. at \in [1 .. Len(kept[m]) -> 1 .. m]
      BY <2>1, <2>3, <2>4
    <3>2. EmbedsIn(at, kept[m], m)
      BY <2>1, <2>3, <2>4
    <3> QED
      BY <3>1, <3>2
  <2>5. CASE s[m] \in S
    <3> DEFINE l == Len(kept[n]) + 1
               bt == [i \in 1 .. l |-> IF i < l THEN at[i] ELSE m]
    <3>1. /\ Len(kept[m]) = l /\ kept[m][l] = s[m]
          /\ \A i \in 1 .. l - 1 : kept[m][i] = kept[n][i]
      BY <2>2, <2>3, <2>5, AppendProperties
    <3>2. bt \in [1 .. l -> 1 .. m]
      BY <2>1, <2>2
    <3>3. bt[l] = m /\ \A i \in 1 .. l - 1 : bt[i] = at[i] /\ at[i] \in 1 .. n
      BY <2>1, <2>2
    <3> HIDE DEF bt
    <3>4. l \in Nat /\ m \in Nat /\ (\A i \in 1 .. l : i = l \/ i \in 1 .. l - 1)
          /\ l \in 1 .. l /\ \A i \in 1 .. l - 1 : i \in 1 .. l
      BY <2>2
    <3>5. \A i \in 1 .. l : kept[m][i] = s[bt[i]] /\ s[bt[i]] \in S
      <4> SUFFICES ASSUME NEW i \in 1 .. l PROVE kept[m][i] = s[bt[i]] /\ s[bt[i]] \in S
        OBVIOUS
      <4>1. CASE i = l
        BY <2>5, <3>1, <3>3, <4>1
      <4>2. CASE i \in 1 .. l - 1
        BY <2>1, <3>1, <3>3, <4>2
      <4> QED
        BY <3>4, <4>1, <4>2
    <3>6. \A i, j \in 1 .. l : i < j => bt[i] < bt[j]
      <4> SUFFICES ASSUME NEW i \in 1 .. l, NEW j \in 1 .. l, i < j PROVE bt[i] < bt[j]
        OBVIOUS
      <4>1. i \in 1 .. l - 1
        BY <3>4
      <4>2. CASE j = l
        BY <3>3, <4>1, <4>2
      <4>3. CASE j \in 1 .. l - 1
        BY <2>1, <3>3, <4>1, <4>3
      <4> QED
        BY <3>4, <4>2, <4>3
    <3>7. \A k \in 1 .. m : s[k] \in S => \E i \in 1 .. l : bt[i] = k
      <4> SUFFICES ASSUME NEW k \in 1 .. m, s[k] \in S PROVE \E i \in 1 .. l : bt[i] = k
        OBVIOUS
      <4>1. CASE k = m
        BY <3>3, <3>4, <4>1
      <4>2. CASE k \in 1 .. n
        <5>1. PICK i \in 1 .. l - 1 : at[i] = k
          BY <2>1, <4>2
        <5> QED
          BY <3>3, <3>4, <5>1
      <4> QED
        BY <4>1, <4>2
    <3>8. bt \in [1 .. Len(kept[m]) -> 1 .. m] /\ EmbedsIn(bt, kept[m], m)
      BY <3>1, <3>2, <3>5, <3>6, <3>7
    <3> QED
      BY <3>8
  <2> QED
    BY <2>4, <2>5
<1>5. N \in T
  <2> HIDE DEF T
  <2> QED
    BY <1>2, <1>3, <1>4, InductionOnSet
<1>6. Keeping(s, S) = kept[N] /\ Keeping(s, S) \in Seq(X)
  BY <1>1, <1>2 DEF KeepingLoop
<1>7. \E at \in [1 .. Len(kept[N]) -> 1 .. N] : EmbedsIn(at, kept[N], N)
  BY <1>2, <1>5
<1>8. \E at \in [1 .. Len(Keeping(s, S)) -> 1 .. N] : EmbedsIn(at, Keeping(s, S), N)
  <2> HIDE DEF EmbedsIn, N
  <2> QED
    BY <1>6, <1>7
<1> QED
  BY <1>6, <1>8 DEF Embeds

------------------------------------------------------------------------------
\* What is in a list, and that it is there once.
Elements(s) == {s[i] : i \in 1 .. Len(s)}
NoTwice(s) == \A i, j \in 1 .. Len(s) : s[i] = s[j] => i = j

LEMMA KeepingElements ==
    ASSUME NEW X, NEW s \in Seq(X), NEW S
    PROVE  /\ Keeping(s, S) \in Seq(X)
           /\ Elements(Keeping(s, S)) = Elements(s) \cap S
           /\ NoTwice(s) => NoTwice(Keeping(s, S))
<1> DEFINE k == Keeping(s, S)
<1>1. k \in Seq(X)
  BY KeepingEmbeds
<1>2. PICK at \in [1 .. Len(k) -> 1 .. Len(s)] : Embeds(at, k, s, S)
  BY KeepingEmbeds
<1> HIDE DEF k
<1>3. Elements(k) = Elements(s) \cap S
  BY <1>2 DEF Elements, Embeds
<1>4. ASSUME NoTwice(s), NEW i \in 1 .. Len(k), NEW j \in 1 .. Len(k), k[i] = k[j]
      PROVE  i = j
  <2>1. at[i] = at[j] /\ at[i] \in Nat
    BY <1>2, <1>4 DEF NoTwice, Embeds
  <2>2. ~(i < j) /\ ~(j < i)
    BY <1>2, <2>1 DEF Embeds
  <2> QED
    BY <2>2
<1> QED
  BY <1>1, <1>3, <1>4 DEF NoTwice, k

LEMMA AppendElements ==
    ASSUME NEW X, NEW s \in Seq(X), NEW x \in X
    PROVE  /\ Append(s, x) \in Seq(X) /\ Len(Append(s, x)) = Len(s) + 1
           /\ Elements(Append(s, x)) = Elements(s) \cup {x}
           /\ NoTwice(s) /\ x \notin Elements(s) => NoTwice(Append(s, x))
<1> DEFINE t == Append(s, x)
<1>1. /\ t \in Seq(X) /\ Len(s) \in Nat /\ Len(t) = Len(s) + 1
      /\ t[Len(t)] = x /\ \A i \in 1 .. Len(s) : t[i] = s[i]
  BY AppendProperties
<1>2. \A i : i \in 1 .. Len(t) <=> i \in 1 .. Len(s) \/ i = Len(t)
  BY <1>1
<1> HIDE DEF t
<1>3. Elements(t) = Elements(s) \cup {x}
  <2>1. \A i \in 1 .. Len(t) : t[i] \in Elements(s) \cup {x}
    BY <1>1, <1>2 DEF Elements
  <2>2. \A i \in 1 .. Len(s) : s[i] \in Elements(t)
    BY <1>1, <1>2 DEF Elements
  <2>3. x \in Elements(t)
    BY <1>1, <1>2 DEF Elements
  <2> QED
    BY <2>1, <2>2, <2>3 DEF Elements
<1>4. NoTwice(s) /\ x \notin Elements(s) => NoTwice(t)
  BY <1>1, <1>2 DEF Elements, NoTwice
<1> QED
  BY <1>1, <1>3, <1>4 DEF t

LEMMA TailElements ==
    ASSUME NEW X, NEW s \in Seq(X), s # <<>>
    PROVE  /\ Head(s) \in Elements(s) /\ Head(s) \in X
           /\ Tail(s) \in Seq(X) /\ Len(Tail(s)) = Len(s) - 1
           /\ NoTwice(s) => NoTwice(Tail(s)) /\ Elements(Tail(s)) = Elements(s) \ {Head(s)}
<1> DEFINE t == Tail(s)
<1>1. /\ t \in Seq(X) /\ Len(s) \in Nat \ {0} /\ Len(t) = Len(s) - 1
      /\ \A i \in 1 .. Len(t) : t[i] = s[i + 1]
      /\ Head(s) = s[1]
  BY HeadTailProperties, EmptySeq
<1> HIDE DEF t
<1>2. Head(s) \in Elements(s) /\ Head(s) \in X
  BY <1>1 DEF Elements
<1>3. ASSUME NoTwice(s) PROVE NoTwice(t)
  BY <1>1, <1>3 DEF NoTwice
<1>4. ASSUME NoTwice(s) PROVE Elements(t) = Elements(s) \ {Head(s)}
  <2>1. \A i \in 1 .. Len(t) : t[i] \in Elements(s) /\ t[i] # Head(s)
    BY <1>1, <1>4 DEF Elements, NoTwice
  <2>2. ASSUME NEW i \in 1 .. Len(s), s[i] # Head(s) PROVE s[i] \in Elements(t)
    <3>1. i - 1 \in 1 .. Len(t) /\ t[i - 1] = s[i]
      BY <1>1, <2>2
    <3> QED
      BY <3>1 DEF Elements
  <2> QED
    BY <2>1, <2>2 DEF Elements
<1> QED
  BY <1>1, <1>2, <1>3, <1>4 DEF t

\* How often x is in a list that has nothing twice.
LEMMA CountedOnce ==
    ASSUME NEW X, NEW s \in Seq(X), NoTwice(s), NEW x
    PROVE  Cardinality({i \in DOMAIN s : s[i] = x}) = IF x \in Elements(s) THEN 1 ELSE 0
<1>1. DOMAIN s = 1 .. Len(s)
  OBVIOUS
<1>2. CASE x \in Elements(s)
  <2>1. PICK k \in 1 .. Len(s) : s[k] = x
    BY <1>2 DEF Elements
  <2>2. {i \in DOMAIN s : s[i] = x} = {k}
    BY <1>1, <2>1 DEF NoTwice
  <2> QED
    BY <1>2, <2>2, FS_Singleton
<1>3. CASE x \notin Elements(s)
  <2>1. {i \in DOMAIN s : s[i] = x} = {}
    BY <1>1, <1>3 DEF Elements
  <2> QED
    BY <1>3, <2>1, FS_EmptySet
<1> QED
  BY <1>2, <1>3
==============================================================================
