---------------------------- MODULE History_proofs ----------------------------
(***************************************************************************)
(* The history list for any packets, of any length and over any number of  *)
(* restarts: where two packets of one kind may stand, that a young          *)
(* duplicate is recognised, that nothing is lost early and that a restart   *)
(* brings back every station it reads.                                     *)
(*                                                                         *)
(* Each function of history.cpp deletes some entries in a loop and appends *)
(* at most one; AddedEffect says what becomes of the properties of a list, *)
(* and is used for a packet that arrives and for each line of the file.    *)
(***************************************************************************)
EXTENDS History, Lists_proofs

USE TimesAssumption

ClashAtFront(l) ==
    \A i, j \in 1 .. Len(l) : i < j /\ SameKey(l[i], l[j]) => i = 1 /\ j = 2

\* An entry may be stored behind one that was created later, but not much.
Behind(x, y) == x.timestamp - MaxLag <= y.timestamp
Lagging(l) == \A i, j \in 1 .. Len(l) : i < j => Behind(l[i], l[j])

ScrapTexts == {s.data : s \in Scraps}

\* What a station has sent is a packet that arrived, or what is left of one
\* whose line was too long.
WellParsed(e) ==
    e.src # Blank.src /\ e.data \notin ScrapTexts =>
      [src |-> e.src, type |-> e.type, data |-> e.data] \in Parsed

Dated(l, t) == \A e \in Elements(l) : e.timestamp <= t /\ WellParsed(e)

ListInv == list \in Seq(Entries) /\ ClashAtFront(list) /\ Lagging(list) /\ Dated(list, now)

Follows(l, m) == \A x \in Elements(l), y \in Elements(m) : Behind(x, y)

\* A file that was looked at.
SoundFile(file, t) ==
    /\ file.lines \in Seq(Entries) /\ file.tail \in Seq(Entries)
    /\ Lagging(file.lines) /\ Lagging(file.tail) /\ Follows(file.lines, file.tail)
    /\ Dated(file.lines, t) /\ Dated(file.tail, t)

DiskInv ==
    /\ disk \in [lines : Seq(Entries), tail : Seq(Entries) \cup {NoFile}]
    /\ Lagging(disk.lines) /\ Dated(disk.lines, now)
    /\ disk.tail # NoFile => SoundFile(disk, now)

RestInv ==
    /\ now \in Nat
    /\ verdict = NoCall \/ verdict \in [item : Entries, dup : BOOLEAN]
    /\ restarts \in 0 .. MaxRestarts

IInv == ListInv /\ (disk = NoFile \/ DiskInv) /\ RestInv

------------------------------------------------------------------------------
LEMMA ListedIsElements == ASSUME NEW X, NEW s \in Seq(X) PROVE ToSet(s) = Elements(s)
<1>1. DOMAIN s = 1 .. Len(s)
  OBVIOUS
<1> QED
  BY <1>1 DEF ToSet, Elements

LEMMA SameKeyIsEquivalence ==
    ASSUME NEW x, NEW y, NEW z
    PROVE  /\ SameKey(x, y) => SameKey(y, x)
           /\ SameKey(x, y) /\ SameKey(y, z) => SameKey(x, z)
  BY DEF SameKey

\* Two entries of k are in s too, in the same order, and in front in s only if
\* they are in front in k.
Thins(k, s) ==
    \A i, j \in 1 .. Len(k) : i < j =>
       \E a, b \in 1 .. Len(s) :
          /\ a < b /\ k[i] = s[a] /\ k[j] = s[b]
          /\ a = 1 /\ b = 2 => i = 1 /\ j = 2

LEMMA KeepingThins ==
    ASSUME NEW X, NEW s \in Seq(X), NEW S
    PROVE  Thins(Keeping(s, S), s)
<1> DEFINE k == Keeping(s, S)
<1> SUFFICES ASSUME NEW i \in 1 .. Len(k), NEW j \in 1 .. Len(k), i < j
             PROVE  \E a, b \in 1 .. Len(s) :
                       /\ a < b /\ k[i] = s[a] /\ k[j] = s[b]
                       /\ a = 1 /\ b = 2 => i = 1 /\ j = 2
  BY DEF Thins
<1>1. PICK at \in [1 .. Len(k) -> 1 .. Len(s)] : Embeds(at, k, s, S)
  BY KeepingEmbeds
<1>2. k \in Seq(X)
  BY KeepingEmbeds
<1> HIDE DEF k
<1>3. at[i] < at[j] /\ k[i] = s[at[i]] /\ k[j] = s[at[j]]
  BY <1>1 DEF Embeds
<1>4. ASSUME at[i] = 1, at[j] = 2 PROVE i = 1 /\ j = 2
  <2>1. ASSUME i # 1 PROVE FALSE
    <3>1. 1 \in 1 .. Len(k) /\ 1 < i
      BY <1>2, <2>1
    <3>2. at[1] < at[i] /\ at[1] \in 1 .. Len(s)
      BY <1>1, <3>1 DEF Embeds
    <3> QED
      BY <1>2, <1>4, <3>2
  <2>2. ASSUME j # 2 PROVE FALSE
    <3>1. 2 \in 1 .. Len(k) /\ 2 < j /\ i < 2
      BY <1>2, <2>1, <2>2
    <3>2. at[2] < at[j] /\ at[i] < at[2] /\ at[2] \in 1 .. Len(s)
      BY <1>1, <3>1 DEF Embeds
    <3> QED
      BY <1>2, <1>4, <3>2
  <2> QED
    BY <2>1, <2>2
<1> QED
  BY <1>3, <1>4

LEMMA KeepingPreserves ==
    ASSUME NEW X, NEW l \in Seq(X), NEW S, NEW k, k = Keeping(l, S)
    PROVE  /\ k \in Seq(X) /\ Elements(k) = Elements(l) \cap S
           /\ ClashAtFront(l) => ClashAtFront(k)
           /\ Lagging(l) => Lagging(k)
<1>1. k \in Seq(X) /\ Elements(k) = Elements(l) \cap S
  BY KeepingElements
<1>2. Thins(k, l)
  BY KeepingThins
<1>3. ASSUME ClashAtFront(l) PROVE ClashAtFront(k)
  <2> SUFFICES ASSUME NEW i \in 1 .. Len(k), NEW j \in 1 .. Len(k), i < j, SameKey(k[i], k[j])
               PROVE  i = 1 /\ j = 2
    BY DEF ClashAtFront
  <2>1. PICK a \in 1 .. Len(l), b \in 1 .. Len(l) :
           /\ a < b /\ k[i] = l[a] /\ k[j] = l[b]
           /\ a = 1 /\ b = 2 => i = 1 /\ j = 2
    BY <1>2 DEF Thins
  <2> QED
    BY <1>3, <2>1 DEF ClashAtFront
<1>4. ASSUME Lagging(l) PROVE Lagging(k)
  <2> SUFFICES ASSUME NEW i \in 1 .. Len(k), NEW j \in 1 .. Len(k), i < j
               PROVE  Behind(k[i], k[j])
    BY DEF Lagging
  <2>1. PICK a \in 1 .. Len(l), b \in 1 .. Len(l) :
           /\ a < b /\ k[i] = l[a] /\ k[j] = l[b]
           /\ a = 1 /\ b = 2 => i = 1 /\ j = 2
    BY <1>2 DEF Thins
  <2> QED
    BY <1>4, <2>1 DEF Lagging
<1> QED
  BY <1>1, <1>3, <1>4

LEMMA AppendPreserves ==
    ASSUME NEW l \in Seq(Entries), NEW e \in Entries
    PROVE  /\ Append(l, e) \in Seq(Entries)
           /\ Elements(Append(l, e)) = Elements(l) \cup {e}
           /\ (ClashAtFront(l) /\ \A x \in Elements(l) : ~SameKey(x, e)) \/ Len(l) <= 1
                => ClashAtFront(Append(l, e))
           /\ Lagging(l) /\ (\A x \in Elements(l) : Behind(x, e)) => Lagging(Append(l, e))
<1> DEFINE m == Append(l, e)
           n == Len(l) + 1
<1>1. /\ m \in Seq(Entries) /\ Len(m) = n /\ n \in Nat /\ Elements(m) = Elements(l) \cup {e}
      /\ m[n] = e /\ \A i \in 1 .. Len(l) : m[i] = l[i] /\ l[i] \in Elements(l)
  BY AppendElements, AppendProperties DEF Elements
<1> HIDE DEF m
<1>2. \A i, j \in 1 .. n : i < j => i \in 1 .. Len(l) /\ (j = n \/ j \in 1 .. Len(l))
  OBVIOUS
<1>3. ASSUME ClashAtFront(l), \A x \in Elements(l) : ~SameKey(x, e) PROVE ClashAtFront(m)
  BY <1>1, <1>2, <1>3 DEF ClashAtFront
<1>4. ASSUME Len(l) <= 1 PROVE ClashAtFront(m)
  <2>1. \A i, j \in 1 .. n : i < j => i = 1 /\ j = 2
    BY <1>1, <1>4
  <2> QED
    BY <1>1, <2>1 DEF ClashAtFront
<1>5. ASSUME Lagging(l), \A x \in Elements(l) : Behind(x, e) PROVE Lagging(m)
  BY <1>1, <1>2, <1>5 DEF Lagging
<1> QED
  BY <1>1, <1>3, <1>4, <1>5 DEF m

\* A packet is added, or is a duplicate of one that is listed; who is lost is
\* replaced by a packet of the same kind.
LEMMA AddedEffect ==
    ASSUME NEW l \in Seq(Entries), NEW e \in Entries, ClashAtFront(l)
    PROVE  /\ Added(l, e) \in Seq(Entries) /\ ClashAtFront(Added(l, e))
           /\ Elements(Added(l, e)) \subseteq Elements(l) \cup {e}
           /\ Lagging(l) /\ (\A x \in Elements(l) : Behind(x, e)) => Lagging(Added(l, e))
           /\ IsDup(l, e) => /\ Added(l, e) = l
                             /\ \E x \in Elements(l) : SamePacket(e, x)
           /\ ~IsDup(l, e) => /\ Added(l, e) # <<>> /\ Last(Added(l, e)) = e
                              /\ e \in Elements(Added(l, e))
           /\ \A x \in Elements(l) : x \in Elements(Added(l, e)) \/ (~IsDup(l, e) /\ SameKey(x, e))
<1>1. CASE IsDup(l, e)
  <2>1. Added(l, e) = l
    BY <1>1 DEF Added
  <2>2. \E i \in DOMAIN l : SamePacket(e, l[i])
    BY <1>1 DEF IsDup, DupCheck
  <2>3. \E x \in Elements(l) : SamePacket(e, x)
    <3>1. DOMAIN l = 1 .. Len(l)
      OBVIOUS
    <3> QED
      BY <2>2, <3>1 DEF Elements
  <2> QED
    BY <1>1, <2>1, <2>3
<1>2. CASE ~IsDup(l, e)
  <2> DEFINE d == DeleteItem(l, e)
  <2>1. /\ d \in Seq(Entries) /\ Elements(d) \subseteq Elements(l)
        /\ ClashAtFront(d) /\ (Lagging(l) => Lagging(d))
        /\ (\A x \in Elements(d) : ~SameKey(x, e)) \/ Len(d) <= 1
        /\ \A x \in Elements(l) : x \in Elements(d) \/ SameKey(x, e)
    <3>1. CASE Len(l) <= 1
      BY <3>1 DEF DeleteItem
    <3>2. CASE ~(Len(l) <= 1)
      <4>1. d = Keeping(l, {x \in ToSet(l) : ~SameKey(x, e)})
        BY <3>2 DEF DeleteItem
      <4>2. /\ d \in Seq(Entries) /\ ClashAtFront(d) /\ (Lagging(l) => Lagging(d))
            /\ Elements(d) = Elements(l) \cap {x \in ToSet(l) : ~SameKey(x, e)}
        BY <4>1, KeepingPreserves
      <4> QED
        BY <4>2, ListedIsElements
    <3> QED
      BY <3>1, <3>2
  <2>2. Added(l, e) = Append(d, e)
    BY <1>2 DEF Added
  <2> HIDE DEF d
  <2>3. /\ Append(d, e) \in Seq(Entries) /\ ClashAtFront(Append(d, e))
        /\ Elements(Append(d, e)) = Elements(d) \cup {e}
        /\ Lagging(l) /\ (\A x \in Elements(l) : Behind(x, e)) => Lagging(Append(d, e))
    BY <2>1, AppendPreserves
  <2>4. Append(d, e) # <<>> /\ Last(Append(d, e)) = e
    BY <2>1, AppendProperties DEF Last
  <2> QED
    BY <1>2, <2>1, <2>2, <2>3, <2>4
<1> QED
  BY <1>1, <1>2

\* An entry with another ttl.
WithTtl(e, n) == [e EXCEPT !.ttl = n]

LEMMA OlderEntry ==
    ASSUME NEW e \in Entries, NEW n \in Int
    PROVE  /\ WithTtl(e, n).ttl = n
           /\ WithTtl(e, n).timestamp = e.timestamp
           /\ WithTtl(e, n).src = e.src /\ WithTtl(e, n).type = e.type
           /\ WithTtl(e, n).dest = e.dest /\ WithTtl(e, n).data = e.data
           /\ n >= 0 => WithTtl(e, n) \in Entries
  BY DEF WithTtl, Entries

\* Five minutes change nothing but the ttl, and delete what has no more.
LEMMA AgedEffect ==
    ASSUME NEW l \in Seq(Entries), ClashAtFront(l), Lagging(l)
    PROVE  /\ Aged(l) \in Seq(Entries) /\ ClashAtFront(Aged(l)) /\ Lagging(Aged(l))
           /\ \A x \in Elements(Aged(l)) : \E y \in Elements(l) : x = WithTtl(y, x.ttl)
           /\ \A y \in Elements(l) :
                 y.ttl > AgeStep => WithTtl(y, y.ttl - AgeStep) \in Elements(Aged(l))
<1> DEFINE o == Older(l)
           X == {o[i] : i \in 1 .. Len(l)}
           S == {e \in ToSet(o) : e.ttl > 0}
           k == Aged(l)
<1>1. DOMAIN l = 1 .. Len(l) /\ Len(l) \in Nat /\ \A i \in 1 .. Len(l) : l[i] \in Entries
  OBVIOUS
<1>2. \A i \in 1 .. Len(l) : l[i].ttl - AgeStep \in Int
  BY <1>1 DEF Entries, AgeStep
<1>3. o = [i \in 1 .. Len(l) |-> WithTtl(l[i], l[i].ttl - AgeStep)]
  BY <1>1 DEF Older, WithTtl
<1>4. o \in Seq(X) /\ Len(o) = Len(l)
  BY <1>1, <1>3
<1>5. \A i \in 1 .. Len(l) :
        /\ o[i] = WithTtl(l[i], l[i].ttl - AgeStep)
        /\ o[i].ttl = l[i].ttl - AgeStep /\ o[i].timestamp = l[i].timestamp
        /\ o[i].src = l[i].src /\ o[i].type = l[i].type /\ o[i].dest = l[i].dest
        /\ o[i].ttl > 0 => o[i] \in Entries
  <2> SUFFICES ASSUME NEW i \in 1 .. Len(l), NEW e, e = l[i], NEW n \in Int,
                      n = e.ttl - AgeStep
               PROVE  /\ o[i] = WithTtl(e, n) /\ o[i].ttl = n
                      /\ o[i].timestamp = e.timestamp /\ o[i].src = e.src
                      /\ o[i].type = e.type /\ o[i].dest = e.dest
                      /\ o[i].ttl > 0 => o[i] \in Entries
    BY <1>2
  <2>1. o[i] = WithTtl(e, n)
    BY <1>3
  <2>2. e \in Entries
    BY <1>1
  <2>3. /\ WithTtl(e, n).ttl = n /\ WithTtl(e, n).timestamp = e.timestamp
        /\ WithTtl(e, n).src = e.src /\ WithTtl(e, n).type = e.type
        /\ WithTtl(e, n).dest = e.dest
        /\ n > 0 => WithTtl(e, n) \in Entries
    BY <2>2, OlderEntry
  <2> HIDE DEF o
  <2> QED
    BY <2>1, <2>3
<1>6. k = Keeping(o, S)
  BY DEF Aged
<1> HIDE DEF o, k, X
<1>7. ClashAtFront(o) /\ Lagging(o)
  BY <1>4, <1>5 DEF ClashAtFront, Lagging, SameKey, Behind
<1>8. /\ k \in Seq(X) /\ Elements(k) = Elements(o) \cap S
      /\ ClashAtFront(k) /\ Lagging(k)
  <2> HIDE DEF S
  <2> QED
    BY <1>4, <1>6, <1>7, KeepingPreserves
<1>9. ToSet(o) = Elements(o)
  BY <1>4, ListedIsElements
<1>10. \A x \in Elements(k) : /\ x \in Entries
                              /\ \E y \in Elements(l) : x = WithTtl(y, x.ttl)
  <2> SUFFICES ASSUME NEW x \in Elements(k)
               PROVE  x \in Entries /\ \E y \in Elements(l) : x = WithTtl(y, x.ttl)
    OBVIOUS
  <2>1. PICK i \in 1 .. Len(l) : x = o[i] /\ x.ttl > 0
    BY <1>4, <1>8, <1>9 DEF Elements
  <2>2. l[i] \in Elements(l)
    BY DEF Elements
  <2> QED
    BY <1>5, <2>1, <2>2
<1>11. k \in Seq(Entries)
  <2>1. \A i \in 1 .. Len(k) : k[i] \in Entries
    BY <1>10 DEF Elements
  <2>2. k = [i \in 1 .. Len(k) |-> k[i]] /\ Len(k) \in Nat
    BY <1>8
  <2> QED
    BY <2>1, <2>2
<1>12. ASSUME NEW y \in Elements(l), y.ttl > AgeStep
       PROVE  WithTtl(y, y.ttl - AgeStep) \in Elements(k)
  <2>1. PICK i \in 1 .. Len(l) : y = l[i]
    BY DEF Elements
  <2>2. o[i] = WithTtl(y, y.ttl - AgeStep) /\ o[i].ttl > 0
    BY <1>1, <1>5, <1>12, <2>1 DEF Entries, AgeStep
  <2>3. o[i] \in Elements(o)
    BY <1>4 DEF Elements
  <2> QED
    BY <1>8, <1>9, <2>2, <2>3
<1> QED
  BY <1>8, <1>10, <1>11, <1>12 DEF k

------------------------------------------------------------------------------
(* A restart.                                                              *)

\* The loop of ReadHistory over the lines of the file, unrolled.
ReadLoop(read, line) ==
    /\ read[0] = <<>>
    /\ \A n \in 1 .. Len(line) :
          read[n] = IF Age(line[n]) <= FileLife THEN Added(read[n - 1], line[n])
                    ELSE read[n - 1]

LEMMA ReadUnrolled ==
    ASSUME NEW file, Lines(file) \in Seq(Entries)
    PROVE  \E read : /\ ReadLoop(read, Lines(file))
                     /\ ReadHistory(file) = read[Len(Lines(file))]
<1> DEFINE line == Lines(file)
           N == Len(line)
           V == {l \in Seq(Entries) : ClashAtFront(l)}
           v == <<>>
           Body(f) == [n \in 0 .. N |->
             IF n = 0 THEN <<>>
             ELSE IF Age(line[n]) <= FileLife THEN Added(f[n - 1], line[n]) ELSE f[n - 1]]
           step == [n \in 1 .. N |-> [l \in V |->
             IF Age(line[n]) <= FileLife THEN Added(l, line[n]) ELSE l]]
<1>1. N \in Nat /\ \A n \in 1 .. N : line[n] \in Entries
  OBVIOUS
<1> HIDE DEF line
<1>2. step \in [1 .. N -> [V -> V]]
  <2>1. ASSUME NEW n \in 1 .. N, NEW l \in V PROVE Added(l, line[n]) \in V
    BY <1>1, AddedEffect
  <2> QED
    BY <2>1
<1>3. v \in V
  BY EmptySeq DEF ClashAtFront
<1>4. PICK g \in [0 .. N -> V] :
        g[0] = v /\ \A n \in 1 .. N : g[n] = step[n][g[n - 1]]
  <2>1. N \in Nat
    BY <1>1
  <2> HIDE DEF step, N, V, v
  <2>2. \E g \in [0 .. N -> V] :
          g[0] = v /\ \A i \in 1 .. N : g[i] = step[i][g[i - 1]]
    BY <1>2, <1>3, <2>1, RecursionHasSolution
  <2> QED
    BY <2>2
<1>5. \A n \in 1 .. N :
        g[n] = IF Age(line[n]) <= FileLife THEN Added(g[n - 1], line[n]) ELSE g[n - 1]
  <2> SUFFICES ASSUME NEW n \in 1 .. N
               PROVE  g[n] = IF Age(line[n]) <= FileLife THEN Added(g[n - 1], line[n])
                             ELSE g[n - 1]
    OBVIOUS
  <2>1. g[n - 1] \in V
    <3>1. n - 1 \in 0 .. N
      BY <1>1
    <3> HIDE DEF N, V
    <3> QED
      BY <1>4, <3>1
  <2>2. g[n] = step[n][g[n - 1]]
    BY <1>4
  <2> HIDE DEF V, N
  <2> QED
    BY <2>1, <2>2
<1>6. g = Body(g)
  <2>1. g = [n \in 0 .. N |-> g[n]]
    BY <1>4
  <2>2. \A n \in 0 .. N : g[n] = Body(g)[n]
    <3> SUFFICES ASSUME NEW n \in 0 .. N PROVE g[n] = Body(g)[n]
      OBVIOUS
    <3>1. CASE n = 0
      BY <3>1, <1>4
    <3>2. CASE n \in 1 .. N
      <4>1. n # 0
        BY <3>2, <1>1
      <4>2. Body(g)[n] = IF Age(line[n]) <= FileLife THEN Added(g[n - 1], line[n])
                         ELSE g[n - 1]
        BY <4>1
      <4> HIDE DEF Body, N
      <4> QED
        BY <3>2, <4>2, <1>5
    <3>3. n = 0 \/ n \in 1 .. N
      BY <1>1
    <3> HIDE DEF Body, N
    <3> QED
      BY <3>1, <3>2, <3>3
  <2> QED
    BY <2>1, <2>2
<1> DEFINE f == CHOOSE h : h = Body(h)
<1>7. f = Body(f)
  BY <1>6
<1>8. ReadHistory(file) = f[N]
  BY DEF ReadHistory, line
<1> HIDE DEF f
<1>9. ReadLoop(f, line)
  <2>1. \A n \in 0 .. N : f[n] = Body(f)[n]
    BY <1>7
  <2> QED
    BY <1>1, <2>1 DEF ReadLoop
<1> QED
  BY <1>8, <1>9 DEF line

\* What a line or the end of the file is read as: it was not created before the
\* entry it stands for, nor after it.
Like(x, e) == x \in Entries /\ x.timestamp = e.timestamp /\ WellParsed(x)

AllLike(s, e) == s \in Seq(Entries) /\ \A x \in Elements(s) : Like(x, e)

LEMMA CutTexts ==
    /\ \A p \in Arriving : /\ p.data \in DOMAIN cut => cut[p.data] \in Texts
                           /\ p.data \in DOMAIN cut =>
                                [src |-> p.src, type |-> p.type, data |-> cut[p.data]] \in Parsed
    /\ \A p \in Parsed : p.data \in DOMAIN cut => p \in Arriving
    /\ \A p \in Parsed : p = [src |-> p.src, type |-> p.type, data |-> p.data]
<1>1. ASSUME NEW p \in Arriving
      PROVE  /\ p = [src |-> p.src, type |-> p.type, data |-> p.data]
             /\ p.data \in DOMAIN cut =>
                  CutShort(p) = [src |-> p.src, type |-> p.type, data |-> cut[p.data]]
             /\ p.data \notin DOMAIN cut => CutShort(p) = p
             /\ CutShort(p) \in Parsed
  <2>1. p = [src |-> p.src, type |-> p.type, data |-> p.data]
    BY ParserAssumption
  <2> DEFINE s == p.src
             k == p.type
             d == p.data
  <2>2. [[src |-> s, type |-> k, data |-> d] EXCEPT !.data = cut[d]]
          = [src |-> s, type |-> k, data |-> cut[d]]
    OBVIOUS
  <2>3. p.data \in DOMAIN cut => CutShort(p) = [p EXCEPT !.data = cut[d]]
    BY DEF CutShort
  <2>4. CutShort(p) \in Parsed
    BY DEF Parsed
  <2> QED
    BY <2>1, <2>2, <2>3, <2>4 DEF CutShort
<1>2. ASSUME NEW p \in Arriving, p.data \in DOMAIN cut
      PROVE  /\ cut[p.data] \in Texts
             /\ [src |-> p.src, type |-> p.type, data |-> cut[p.data]] \in Parsed
  <2>1. CutShort(p) \in Parsed /\ CutShort(p).data = cut[p.data]
    BY <1>1, <1>2
  <2>2. cut[p.data] \in Texts
    BY <2>1 DEF Texts
  <2> QED
    BY <1>1, <1>2, <2>1, <2>2
<1>3. ASSUME NEW p \in Parsed, p \notin Arriving
      PROVE  /\ p.data \notin DOMAIN cut
             /\ p = [src |-> p.src, type |-> p.type, data |-> p.data]
  <2>1. PICK q \in Arriving : p = CutShort(q)
    BY <1>3 DEF Parsed
  <2>2. q.data \in DOMAIN cut
    BY <1>1, <1>3, <2>1
  <2>3. p = [src |-> q.src, type |-> q.type, data |-> cut[q.data]]
    BY <1>1, <2>1, <2>2
  <2> QED
    BY <2>2, <2>3, TextsAssumption
<1> QED
  BY <1>1, <1>2, <1>3

\* A line as it is read, and an entry without a text, belong to the time of
\* their entry and to a packet that arrived, or to nobody.
LEMMA LineIsLike ==
    ASSUME NEW e \in Entries, WellParsed(e)
    PROVE  /\ Like(FromLine(e), e) /\ FromLine(e).src = e.src /\ FromLine(e).type = e.type
           /\ \A x \in Entries :
                 x.timestamp = e.timestamp /\ (x.src = Blank.src \/ x.data \in ScrapTexts) =>
                    Like(x, e)
<1> DEFINE d == IF IsLong(e) THEN cut[e.data] ELSE e.data
           f == FromLine(e)
<1>1. d \in Texts
  <2>1. CASE ~IsLong(e)
    BY <2>1 DEF Entries
  <2>2. CASE IsLong(e)
    <3>1. PICK p \in Parsed \cup {Blank} \cup Scraps : e.data = p.data
      <4>1. e.data \in Texts
        BY DEF Entries
      <4> QED
        BY <4>1 DEF Texts
    <3>2. p \in Parsed
      BY <2>2, <3>1, TextsAssumption DEF IsLong
    <3> QED
      BY <2>2, <3>1, <3>2, CutTexts DEF IsLong
  <2> QED
    BY <2>1, <2>2
<1>2. f = [e EXCEPT !.dest = destNONE, !.allowdup = FALSE, !.data = d]
  BY DEF FromLine
<1> HIDE DEF d, f
<1>3. /\ f \in Entries /\ f.timestamp = e.timestamp
      /\ f.src = e.src /\ f.type = e.type /\ f.data = d
  BY <1>1, <1>2 DEF Entries, destNONE, destINET, destTNC
<1>4. WellParsed(f)
  <2>1. CASE ~IsLong(e)
    BY <1>3, <2>1 DEF WellParsed, d
  <2>2. CASE IsLong(e)
    <3> SUFFICES ASSUME e.src # Blank.src
                 PROVE  [src |-> e.src, type |-> e.type, data |-> cut[e.data]] \in Parsed
      BY <1>3, <2>2 DEF WellParsed, d
    <3>1. e.data \notin ScrapTexts
      BY <2>2, TextsAssumption DEF ScrapTexts, IsLong
    <3> DEFINE p == [src |-> e.src, type |-> e.type, data |-> e.data]
    <3>2. p \in Parsed /\ p.src = e.src /\ p.type = e.type /\ p.data = e.data
      BY <3>1 DEF WellParsed
    <3> HIDE DEF p
    <3>3. p \in Arriving
      BY <2>2, <3>2, CutTexts DEF IsLong
    <3>4. [src |-> p.src, type |-> p.type, data |-> cut[p.data]] \in Parsed
      BY <2>2, <3>2, <3>3, CutTexts DEF IsLong
    <3> QED
      BY <3>2, <3>4
  <2> QED
    BY <2>1, <2>2
<1> QED
  BY <1>3, <1>4 DEF Like, WellParsed, f

LEMMA UnreadIsLike ==
    ASSUME NEW e \in Entries, WellParsed(e), NEW n \in Nat, NEW k \in Types
    PROVE  /\ Like(Unread(e), e) /\ Like(LeftOver(e), e)
           /\ Like([Unread(e) EXCEPT !.ttl = n], e) /\ Like([Unread(e) EXCEPT !.type = k], e)
<1> DEFINE u == Unread(e)
           f == FromLine(e)
<1>1. f \in Entries /\ f.timestamp = e.timestamp
  BY LineIsLike DEF Like
<1>2. Blank.src \in Sources /\ Blank.data \in Texts
  BY DEF Sources, Texts
<1>3. u = [f EXCEPT !.src = Blank.src, !.data = Blank.data]
  BY DEF Unread
<1> HIDE DEF u, f
<1>4. u \in Entries /\ u.timestamp = e.timestamp /\ u.src = Blank.src
  BY <1>1, <1>2, <1>3 DEF Entries
<1>5. ASSUME NEW m \in Nat
      PROVE  /\ [u EXCEPT !.ttl = m] \in Entries
             /\ [u EXCEPT !.ttl = m].timestamp = e.timestamp
             /\ [u EXCEPT !.ttl = m].src = Blank.src
  BY <1>4 DEF Entries
<1>6. /\ [u EXCEPT !.type = k] \in Entries /\ [u EXCEPT !.type = k].timestamp = e.timestamp
      /\ [u EXCEPT !.type = k].src = Blank.src
  BY <1>4 DEF Entries
<1>7. LeftOver(e) = [u EXCEPT !.ttl = 0]
  BY DEF LeftOver, u
<1>8. \A x \in Entries : x.timestamp = e.timestamp /\ x.src = Blank.src => Like(x, e)
  BY LineIsLike
<1>9. Like(u, e)
  BY <1>4, <1>8
<1>10. Like([u EXCEPT !.ttl = n], e)
  BY <1>5, <1>8
<1>11. Like([u EXCEPT !.ttl = 0], e)
  BY <1>5, <1>8
<1>12. Like([u EXCEPT !.type = k], e)
  BY <1>6, <1>8
<1> QED
  BY <1>7, <1>9, <1>10, <1>11, <1>12 DEF u

LEMMA FewLike ==
    ASSUME NEW e
    PROVE  /\ AllLike(<<>>, e)
           /\ \A x : Like(x, e) => AllLike(<<x>>, e)
           /\ \A x, y : Like(x, e) /\ Like(y, e) => AllLike(<<x, y>>, e)
<1>1. <<>> \in Seq(Entries) /\ Elements(<<>>) = {}
  BY EmptySeq DEF Elements
<1>2. ASSUME NEW x, NEW y, Like(x, e), Like(y, e)
      PROVE  AllLike(<<x>>, e) /\ AllLike(<<x, y>>, e)
  <2>1. x \in Entries /\ y \in Entries
    BY <1>2 DEF Like
  <2>2. /\ <<x>> \in Seq(Entries) /\ Len(<<x>>) = 1 /\ <<x>>[1] = x
        /\ <<x, y>> \in Seq(Entries) /\ Len(<<x, y>>) = 2
        /\ <<x, y>>[1] = x /\ <<x, y>>[2] = y
    BY <2>1
  <2>3. Elements(<<x>>) = {x} /\ Elements(<<x, y>>) = {x, y}
    BY <2>2 DEF Elements
  <2> QED
    BY <1>2, <2>2, <2>3 DEF AllLike
<1> QED
  BY <1>1, <1>2 DEF AllLike

\* The entries of s belong to the time of the i-th of l, or of a later one.
LEMMA LikeFollows ==
    ASSUME NEW l \in Seq(Entries), Lagging(l), Dated(l, now), now \in Nat,
           NEW i \in 1 .. Len(l), NEW s, AllLike(s, l[i]), NEW n \in 0 .. i
    PROVE  /\ Lagging(s) /\ Dated(s, now)
           /\ \A j \in 1 .. n, x \in Elements(s) : Behind(l[j], x)
<1>1. l[i] \in Entries /\ l[i].timestamp \in Nat /\ l[i].timestamp <= now
  <2>1. l[i] \in Entries /\ l[i] \in Elements(l)
    BY DEF Elements
  <2> QED
    BY <2>1 DEF Dated, Entries
<1>2. \A x \in Elements(s) : x.timestamp = l[i].timestamp /\ WellParsed(x)
  BY DEF AllLike, Like
<1>3. \A j \in 1 .. Len(s) : s[j] \in Elements(s)
  BY DEF Elements
<1>4. Lagging(s)
  BY <1>1, <1>2, <1>3 DEF Lagging, Behind
<1>5. Dated(s, now)
  BY <1>1, <1>2 DEF Dated
<1>6. ASSUME NEW j \in 1 .. n, NEW x \in Elements(s) PROVE Behind(l[j], x)
  <2>1. CASE j = i
    BY <1>1, <1>2, <2>1 DEF Behind
  <2>2. CASE j < i
    <3>1. j \in 1 .. Len(l) /\ Behind(l[j], l[i])
      BY <2>2 DEF Lagging
    <3> QED
      BY <1>2, <3>1 DEF Behind
  <2> QED
    BY <2>1, <2>2
<1> QED
  BY <1>4, <1>5, <1>6

LEMMA SubSeqEffect ==
    ASSUME NEW l \in Seq(Entries), NEW n \in 0 .. Len(l), NEW k, k = SubSeq(l, 1, n)
    PROVE  /\ k \in Seq(Entries) /\ Len(k) = n /\ \A i \in 1 .. n : k[i] = l[i]
           /\ Elements(k) \subseteq Elements(l)
           /\ Lagging(l) => Lagging(k)
           /\ Dated(l, now) => Dated(k, now)
<1>1. k \in Seq(Entries) /\ Len(k) = n /\ \A i \in 1 .. n : k[i] = l[i]
  OBVIOUS
<1>2. Elements(k) \subseteq Elements(l)
  BY <1>1 DEF Elements
<1>3. Lagging(l) => Lagging(k)
  BY <1>1 DEF Lagging
<1> QED
  BY <1>1, <1>2, <1>3 DEF Dated

LEMMA BrokenTextIsLike ==
    ASSUME NEW e \in Entries, WellParsed(e), NEW end \in BrokenText(e)
    PROVE  AllLike(end, e)
<1>1. Like(FromLine(e), e) /\ Like(LeftOver(e), e)
  <2>1. 0 \in Nat /\ e.type \in Types
    BY DEF Entries
  <2> QED
    BY <2>1, LineIsLike, UnreadIsLike
<1>2. ASSUME NEW s \in Scraps PROVE Like([FromLine(e) EXCEPT !.src = s.src, !.data = s.data], e)
  <2> DEFINE f == FromLine(e)
  <2>1. f \in Entries /\ f.timestamp = e.timestamp
    BY <1>1 DEF Like
  <2>2. s.src \in Sources /\ s.data \in Texts /\ s.data \in ScrapTexts
    BY DEF Sources, Texts, ScrapTexts
  <2> HIDE DEF f
  <2> DEFINE x == [f EXCEPT !.src = s.src, !.data = s.data]
  <2>3. x \in Entries /\ x.timestamp = e.timestamp /\ x.data \in ScrapTexts
    BY <2>1, <2>2 DEF Entries
  <2> HIDE DEF x
  <2>4. Like(x, e)
    BY <2>3, LineIsLike
  <2> QED
    BY <2>4 DEF x, f
<1>3. \/ \E s \in Scraps : end = <<[FromLine(e) EXCEPT !.src = s.src, !.data = s.data]>>
      \/ end = <<FromLine(e)>> \/ end = <<FromLine(e), LeftOver(e)>>
  BY DEF BrokenText
<1> QED
  BY <1>1, <1>2, <1>3, FewLike

LEMMA BrokenNumbersAreLike ==
    ASSUME NEW p \in Entries, NEW e \in Entries, WellParsed(p), WellParsed(e),
           NEW end \in BrokenNumbers(p, e)
    PROVE  AllLike(end, p) \/ AllLike(end, e)
<1>1. /\ p.ttl \in Nat /\ e.ttl \in Nat /\ e.ttl \div 10 \in Nat
      /\ p.type \in Types /\ e.type \in Types
  BY DEF Entries
<1>2. \/ end = <<>>
      \/ \E n \in Nat : end = <<[Unread(p) EXCEPT !.ttl = n]>>
      \/ \E k \in Types : end = <<[Unread(e) EXCEPT !.type = k]>>
  BY <1>1 DEF BrokenNumbers
<1>3. ASSUME NEW n \in Nat PROVE Like([Unread(p) EXCEPT !.ttl = n], p)
  BY <1>1, UnreadIsLike
<1>4. ASSUME NEW k \in Types PROVE Like([Unread(e) EXCEPT !.type = k], e)
  BY <1>1, UnreadIsLike
<1> QED
  BY <1>2, <1>3, <1>4, FewLike

\* Wherever a file ends, and whatever its end is taken for.
LEMMA EndsEffect ==
    ASSUME NEW l \in Seq(Entries), Lagging(l), Dated(l, now), now \in Nat,
           NEW n \in 0 .. Len(l), NEW end \in Ends(l, n)
    PROVE  /\ end \in Seq(Entries) /\ Lagging(end) /\ Dated(end, now)
           /\ Follows(SubSeq(l, 1, n), end)
<1> DEFINE k == SubSeq(l, 1, n)
<1>1. k \in Seq(Entries) /\ Len(k) = n /\ \A i \in 1 .. n : k[i] = l[i]
  BY SubSeqEffect
<1>2. \A i \in 1 .. Len(l) : l[i] \in Entries /\ WellParsed(l[i]) /\ l[i].type \in Types
  <2>1. \A i \in 1 .. Len(l) : l[i] \in Entries /\ l[i] \in Elements(l)
    BY DEF Elements
  <2> QED
    BY <2>1 DEF Dated, Entries
<1>3. end = <<>> \/ \E i \in 1 .. Len(l) : n <= i /\ AllLike(end, l[i])
  <2>1. CASE end = AtEof(k)
    <3>1. CASE n = 0
      <4>1. k = <<>>
        BY <1>1, <3>1
      <4> QED
        BY <2>1, <4>1 DEF AtEof
    <3>2. CASE n # 0
      <4>1. k # <<>> /\ Last(k) = l[n] /\ n \in 1 .. Len(l)
        BY <1>1, <3>2 DEF Last
      <4>2. end = <<Unread(l[n])>>
        BY <2>1, <4>1 DEF AtEof
      <4>3. Like(Unread(l[n]), l[n])
        BY <1>2, <4>1, UnreadIsLike
      <4>4. AllLike(end, l[n])
        BY <4>2, <4>3, FewLike
      <4> QED
        BY <4>1, <4>4
    <3> QED
      BY <3>1, <3>2
  <2>2. CASE n < Len(l) /\ end \in BrokenText(l[n + 1])
    <3>1. n + 1 \in 1 .. Len(l) /\ n <= n + 1
      BY <2>2
    <3>2. AllLike(end, l[n + 1])
      BY <1>2, <2>2, <3>1, BrokenTextIsLike
    <3> QED
      BY <3>1, <3>2
  <2>3. CASE n \in 1 .. Len(l) - 1 /\ end \in BrokenNumbers(l[n], l[n + 1])
    <3>1. n \in 1 .. Len(l) /\ n + 1 \in 1 .. Len(l) /\ n <= n /\ n <= n + 1
      BY <2>3
    <3>2. AllLike(end, l[n]) \/ AllLike(end, l[n + 1])
      BY <1>2, <2>3, <3>1, BrokenNumbersAreLike
    <3> QED
      BY <3>1, <3>2
  <2> QED
    BY <2>1, <2>2, <2>3 DEF Ends
<1> HIDE DEF k
<1>4. CASE end = <<>>
  <2>1. <<>> \in Seq(Entries) /\ Len(<<>>) = 0 /\ Elements(<<>>) = {}
    BY EmptySeq DEF Elements
  <2> QED
    BY <1>4, <2>1 DEF Lagging, Dated, Follows
<1>5. ASSUME NEW i \in 1 .. Len(l), n <= i, AllLike(end, l[i])
      PROVE  end \in Seq(Entries) /\ Lagging(end) /\ Dated(end, now) /\ Follows(k, end)
  <2>1. n \in 0 .. i
    BY <1>5
  <2>2. /\ Lagging(end) /\ Dated(end, now)
        /\ \A j \in 1 .. n, x \in Elements(end) : Behind(l[j], x)
    BY <1>5, <2>1, LikeFollows
  <2>3. Follows(k, end)
    BY <1>1, <2>2 DEF Follows, Elements
  <2> QED
    BY <1>5, <2>2, <2>3 DEF AllLike
<1> QED
  BY <1>3, <1>4, <1>5 DEF k

LEMMA FoundEffect ==
    ASSUME DiskInv, now \in Nat, NEW file \in Found
    PROVE  /\ SoundFile(file, now)
           /\ file \in [lines : Seq(Entries), tail : Seq(Entries) \cup {NoFile}]
<1>1. CASE disk.tail # NoFile
  BY <1>1 DEF Found, DiskInv
<1>2. CASE disk.tail = NoFile
  <2> DEFINE l == disk.lines
  <2>1. l \in Seq(Entries) /\ Lagging(l) /\ Dated(l, now)
    BY DEF DiskInv
  <2>2. PICK n \in 0 .. Len(l) : \E end \in Ends(l, n) :
           file = [lines |-> SubSeq(l, 1, n), tail |-> end]
    BY <1>2 DEF Found
  <2>3. PICK end \in Ends(l, n) : file = [lines |-> SubSeq(l, 1, n), tail |-> end]
    BY <2>2
  <2> HIDE DEF l
  <2>4. /\ SubSeq(l, 1, n) \in Seq(Entries) /\ Lagging(SubSeq(l, 1, n))
        /\ Dated(SubSeq(l, 1, n), now)
    BY <2>1, SubSeqEffect
  <2>5. /\ end \in Seq(Entries) /\ Lagging(end) /\ Dated(end, now)
        /\ Follows(SubSeq(l, 1, n), end)
    BY <2>1, EndsEffect
  <2> QED
    BY <2>3, <2>4, <2>5 DEF SoundFile
<1> QED
  BY <1>1, <1>2

\* The loop reads at least the first line, and ends at one of them.
LEMMA SomeLineIsLast ==
    ASSUME NEW l \in Seq(Entries), l # <<>>
    PROVE  \E m \in DOMAIN l : IsLastRead(l, m)
<1> DEFINE N == Len(l)
           T == {n \in Nat : n <= N => \/ \A j \in 1 .. n : ~Stops(l[j])
                                       \/ \E k \in 1 .. N : IsLastRead(l, k)}
<1>1. N \in Nat \ {0} /\ DOMAIN l = 1 .. N
  BY EmptySeq
<1>2. 0 \in T
  OBVIOUS
<1>3. ASSUME NEW n \in Nat, n \in T PROVE n + 1 \in T
  <2> SUFFICES ASSUME n + 1 <= N, \A j \in 1 .. n : ~Stops(l[j]), Stops(l[n + 1])
               PROVE  \E k \in 1 .. N : IsLastRead(l, k)
    <3>1. \A j \in 1 .. n + 1 : j \in 1 .. n \/ j = n + 1
      OBVIOUS
    <3>2. n + 1 <= N => n <= N
      BY <1>1
    <3> QED
      BY <1>3, <3>1, <3>2
  <2>1. n + 1 \in 1 .. N /\ n + 1 - 1 = n
    BY <1>1
  <2> QED
    BY <2>1 DEF IsLastRead
<1>4. N \in T
  <2>1. N \in Nat
    BY <1>1
  <2> HIDE DEF T, N
  <2> QED
    BY <1>2, <1>3, <2>1, InductionOnSet
<1>5. CASE \A j \in 1 .. N : ~Stops(l[j])
  <2>1. N \in 1 .. N /\ \A j \in 1 .. N - 1 : j \in 1 .. N
    BY <1>1
  <2> QED
    BY <1>1, <1>5, <2>1 DEF IsLastRead
<1> QED
  BY <1>1, <1>4, <1>5

LEMMA ConcatPreserves ==
    ASSUME NEW l \in Seq(Entries), NEW m \in Seq(Entries), Lagging(l), Lagging(m), Follows(l, m),
           Dated(l, now), Dated(m, now)
    PROVE  /\ l \o m \in Seq(Entries) /\ Lagging(l \o m) /\ Dated(l \o m, now)
           /\ Len(l) <= Len(l \o m) /\ \A i \in 1 .. Len(l) : (l \o m)[i] = l[i]
<1> DEFINE c == l \o m
<1>1. /\ c \in Seq(Entries) /\ Len(c) = Len(l) + Len(m) /\ Len(l) \in Nat /\ Len(m) \in Nat
      /\ \A i \in 1 .. Len(l) : c[i] = l[i]
      /\ \A i \in 1 .. Len(c) : i > Len(l) => i - Len(l) \in 1 .. Len(m) /\ c[i] = m[i - Len(l)]
  OBVIOUS
<1> HIDE DEF c
<1>2. \A i \in 1 .. Len(c) :
        \/ i \in 1 .. Len(l)
        \/ i > Len(l) /\ i - Len(l) \in 1 .. Len(m) /\ c[i] = m[i - Len(l)]
  BY <1>1
<1>3. Elements(c) \subseteq Elements(l) \cup Elements(m)
  BY <1>1, <1>2 DEF Elements
<1>4. ASSUME NEW i \in 1 .. Len(c), NEW j \in 1 .. Len(c), i < j PROVE Behind(c[i], c[j])
  <2>1. CASE j \in 1 .. Len(l)
    BY <1>1, <1>4, <2>1 DEF Lagging
  <2>2. CASE i \in 1 .. Len(l) /\ j > Len(l)
    <3>1. c[i] \in Elements(l) /\ c[j] \in Elements(m)
      BY <1>1, <2>2 DEF Elements
    <3> QED
      BY <3>1 DEF Follows
  <2>3. CASE i > Len(l)
    <3>1. /\ i - Len(l) \in 1 .. Len(m) /\ j - Len(l) \in 1 .. Len(m)
          /\ i - Len(l) < j - Len(l)
          /\ c[i] = m[i - Len(l)] /\ c[j] = m[j - Len(l)]
      BY <1>1, <1>4, <2>3
    <3> QED
      BY <3>1 DEF Lagging
  <2> QED
    BY <1>1, <2>1, <2>2, <2>3
<1>5. Lagging(c)
  BY <1>4 DEF Lagging
<1>6. Dated(c, now)
  BY <1>3 DEF Dated
<1> QED
  BY <1>1, <1>5, <1>6 DEF c

\* What the loop is given: every line it reaches, each in its place.
LinesFine(file) ==
    /\ Lines(file) \in Seq(Entries) /\ Lagging(Lines(file)) /\ Dated(Lines(file), now)
    /\ \A i \in 1 .. Len(file.lines) :
          (\A j \in 1 .. i - 1 : ~Stops(file.lines[j])) =>
            i \in 1 .. Len(Lines(file)) /\ Lines(file)[i] = FromLine(file.lines[i])

LEMMA LinesEffect ==
    ASSUME NEW file, SoundFile(file, now), now \in Nat
    PROVE  LinesFine(file)
<1> DEFINE l == file.lines
<1>1. /\ l \in Seq(Entries) /\ Len(l) \in Nat /\ DOMAIN l = 1 .. Len(l)
      /\ Lagging(l) /\ Dated(l, now)
      /\ file.tail \in Seq(Entries) /\ Lagging(file.tail) /\ Dated(file.tail, now)
      /\ Follows(l, file.tail)
  BY DEF SoundFile
<1>2. CASE l = <<>>
  <2>1. Lines(file) = file.tail
    BY <1>2 DEF Lines
  <2>2. Len(l) = 0
    BY <1>2
  <2> QED
    BY <1>1, <2>1, <2>2 DEF LinesFine
<1>3. CASE l # <<>>
  <2> DEFINE m == CHOOSE k \in DOMAIN l : IsLastRead(l, k)
             rest == CASE IsLong(l[m])  -> <<LeftOver(l[m])>>
                       [] IsEmpty(l[m]) -> <<>>
                       [] OTHER         -> file.tail
             s == [i \in 1 .. m |-> FromLine(l[i])]
  <2>1. m \in 1 .. Len(l) /\ IsLastRead(l, m)
    <3>1. \E k \in DOMAIN l : IsLastRead(l, k)
      BY <1>1, <1>3, SomeLineIsLast
    <3> QED
      BY <1>1, <3>1
  <2>2. Lines(file) = s \o rest
    BY <1>3 DEF Lines
  <2> HIDE DEF m, l
  <2>3. \A i \in 1 .. Len(l) : /\ l[i] \in Entries /\ WellParsed(l[i]) /\ l[i].type \in Types
                               /\ l[i].timestamp \in Nat /\ l[i].timestamp <= now
    <3>1. \A i \in 1 .. Len(l) : l[i] \in Entries /\ l[i] \in Elements(l)
      BY <1>1 DEF Elements
    <3> QED
      BY <1>1, <3>1 DEF Dated, Entries
  <2>4. \A i \in 1 .. m : i \in 1 .. Len(l)
    BY <1>1, <2>1
  <2>5. \A i \in 1 .. m : Like(FromLine(l[i]), l[i])
    BY <2>3, <2>4, LineIsLike
  <2>6. s \in Seq(Entries) /\ Len(s) = m /\ \A i \in 1 .. m : s[i] = FromLine(l[i])
    BY <2>1, <2>5 DEF Like
  <2> HIDE DEF s
  <2>7. \A i \in 1 .. m : s[i].timestamp = l[i].timestamp /\ WellParsed(s[i])
    BY <2>5, <2>6 DEF Like
  <2>8. Lagging(s) /\ Dated(s, now)
    <3>1. Lagging(s)
      BY <1>1, <2>4, <2>6, <2>7 DEF Lagging, Behind
    <3>2. Dated(s, now)
      BY <2>3, <2>4, <2>6, <2>7 DEF Dated, Elements
    <3> QED
      BY <3>1, <3>2
  <2>9. rest \in Seq(Entries) /\ Lagging(rest) /\ Dated(rest, now) /\ Follows(s, rest)
    <3>1. CASE IsLong(l[m])
      <4>1. Like(LeftOver(l[m]), l[m])
        <5>1. 0 \in Nat
          OBVIOUS
        <5> QED
          BY <2>1, <2>3, <5>1, UnreadIsLike
      <4>2. rest = <<LeftOver(l[m])>>
        <5>1. ~IsEmpty(l[m])
          BY <3>1, TextsAssumption DEF IsLong, IsEmpty
        <5> QED
          BY <3>1, <5>1
      <4> HIDE DEF rest
      <4>3. AllLike(rest, l[m])
        BY <4>1, <4>2, FewLike
      <4>4. m \in 0 .. m
        BY <2>1
      <4>5. /\ Lagging(rest) /\ Dated(rest, now)
            /\ \A j \in 1 .. m, x \in Elements(rest) : Behind(l[j], x)
        BY <1>1, <2>1, <4>3, <4>4, LikeFollows
      <4>6. Follows(s, rest)
        BY <2>6, <2>7, <4>5 DEF Follows, Elements, Behind
      <4> QED
        BY <4>3, <4>5, <4>6 DEF AllLike
    <3>2. CASE ~IsLong(l[m]) /\ IsEmpty(l[m])
      <4>1. rest = <<>>
        BY <3>2
      <4>2. <<>> \in Seq(Entries) /\ Len(<<>>) = 0 /\ Elements(<<>>) = {}
        BY EmptySeq DEF Elements
      <4> QED
        <5> HIDE DEF rest
        <5> QED
          BY <4>1, <4>2 DEF Lagging, Dated, Follows
    <3>3. CASE ~IsLong(l[m]) /\ ~IsEmpty(l[m])
      <4>1. rest = file.tail
        BY <3>3
      <4> HIDE DEF rest
      <4>2. Follows(s, rest)
        <5> SUFFICES ASSUME NEW x \in Elements(s), NEW y \in Elements(rest) PROVE Behind(x, y)
          BY DEF Follows
        <5>1. PICK i \in 1 .. m : x = s[i]
          BY <2>6 DEF Elements
        <5>2. l[i] \in Elements(l) /\ x.timestamp = l[i].timestamp
          BY <2>4, <2>7, <5>1 DEF Elements
        <5>3. Behind(l[i], y)
          BY <1>1, <4>1, <5>2 DEF Follows
        <5> QED
          BY <5>2, <5>3 DEF Behind
      <4> QED
        BY <1>1, <4>1, <4>2
    <3> QED
      BY <3>1, <3>2, <3>3
  <2> HIDE DEF rest
  <2>10. /\ s \o rest \in Seq(Entries) /\ Lagging(s \o rest) /\ Dated(s \o rest, now)
         /\ Len(s) <= Len(s \o rest) /\ \A i \in 1 .. Len(s) : (s \o rest)[i] = s[i]
    BY <2>6, <2>8, <2>9, ConcatPreserves
  <2>11. ASSUME NEW i \in 1 .. Len(l), \A j \in 1 .. i - 1 : ~Stops(l[j])
         PROVE  i \in 1 .. m
    <3>1. m = Len(l) \/ Stops(l[m])
      BY <2>1 DEF IsLastRead
    <3>2. ~(m < i)
      <4>1. ASSUME m < i PROVE FALSE
        <5>1. m \in 1 .. i - 1
          BY <1>1, <2>1, <4>1
        <5> QED
          BY <1>1, <2>1, <2>11, <3>1, <4>1, <5>1
      <4> QED
        BY <4>1
    <3> QED
      BY <1>1, <2>1, <3>2
  <2>12. ASSUME NEW i \in 1 .. Len(l), \A j \in 1 .. i - 1 : ~Stops(l[j])
         PROVE  i \in 1 .. Len(s \o rest) /\ (s \o rest)[i] = FromLine(l[i])
    <3>1. i \in 1 .. m
      BY <2>11, <2>12
    <3>2. i \in 1 .. Len(s)
      BY <2>6, <3>1
    <3>3. Len(s \o rest) \in Nat /\ i \in 1 .. Len(s \o rest)
      BY <2>10, <3>2
    <3> QED
      BY <2>6, <2>10, <3>1, <3>2, <3>3
  <2> QED
    BY <2>2, <2>10, <2>12 DEF LinesFine, l
<1> QED
  BY <1>2, <1>3

\* A station, and the whole of what it has sent.
Known(e) == e.src # Blank.src /\ e.data \notin ScrapTexts

\* The list after the first n lines.
ReadSoFar(l, line, n) ==
    /\ l \in Seq(Entries) /\ ClashAtFront(l) /\ Lagging(l) /\ Dated(l, now)
    /\ \A x \in Elements(l), k \in n + 1 .. Len(line) : Behind(x, line[k])
    /\ \A k \in 1 .. n : Age(line[k]) <= FileLife /\ Known(line[k]) =>
          \E x \in Elements(l) : x.src = line[k].src /\ x.type = line[k].type

LEMMA ReadLine ==
    ASSUME NEW line \in Seq(Entries), Lagging(line), Dated(line, now),
           NEW n \in Nat, n + 1 \in 1 .. Len(line), NEW l, ReadSoFar(l, line, n)
    PROVE  ReadSoFar(IF Age(line[n + 1]) <= FileLife THEN Added(l, line[n + 1]) ELSE l,
                     line, n + 1)
<1> DEFINE e == line[n + 1]
<1>1. /\ e \in Entries /\ e \in Elements(line) /\ e.timestamp <= now /\ WellParsed(e)
      /\ \A k \in n + 2 .. Len(line) : Behind(e, line[k])
  BY DEF Dated, Elements, Lagging
<1>2. CASE ~(Age(e) <= FileLife)
  <2>1. ReadSoFar(l, line, n + 1)
    <3>1. \A k \in 1 .. n + 1 : k \in 1 .. n \/ k = n + 1
      OBVIOUS
    <3>2. \A k \in n + 1 + 1 .. Len(line) : k \in n + 1 .. Len(line)
      OBVIOUS
    <3> QED
      BY <1>2, <3>1, <3>2 DEF ReadSoFar
  <2> QED
    BY <1>2, <2>1
<1>3. CASE Age(e) <= FileLife
  <2> DEFINE m == Added(l, e)
  <2>1. l \in Seq(Entries) /\ ClashAtFront(l) /\ \A x \in Elements(l) : Behind(x, e)
    BY DEF ReadSoFar
  <2> HIDE DEF e
  <2>2. /\ m \in Seq(Entries) /\ ClashAtFront(m) /\ Lagging(m)
        /\ Elements(m) \subseteq Elements(l) \cup {e}
    BY <1>1, <2>1, AddedEffect DEF ReadSoFar
  <2>3. /\ IsDup(l, e) => \E x \in Elements(l) : SamePacket(e, x)
        /\ ~IsDup(l, e) => e \in Elements(m)
        /\ \A x \in Elements(l) : x \in Elements(m) \/ (~IsDup(l, e) /\ SameKey(x, e))
    BY <1>1, <2>1, AddedEffect
  <2> HIDE DEF m
  <2>4. Dated(m, now)
    BY <1>1, <2>2 DEF Dated, ReadSoFar
  <2>5. \A x \in Elements(m), k \in n + 2 .. Len(line) : Behind(x, line[k])
    <3>1. \A k \in n + 2 .. Len(line) : k \in n + 1 .. Len(line)
      OBVIOUS
    <3> QED
      BY <1>1, <2>2, <3>1 DEF ReadSoFar
  <2>6. \A x \in Elements(l) : \E y \in Elements(m) : y.src = x.src /\ y.type = x.type
    BY <2>3 DEF SameKey
  <2>7. Known(e) => \E y \in Elements(m) : y.src = e.src /\ y.type = e.type
    <3> SUFFICES ASSUME Known(e), IsDup(l, e)
                 PROVE  \E y \in Elements(m) : y.src = e.src /\ y.type = e.type
      BY <2>3
    <3>1. PICK x \in Elements(l) : SamePacket(e, x)
      BY <2>3
    <3>2. x.src = e.src /\ x.data = e.data
      BY <3>1 DEF SamePacket
    <3>3. WellParsed(x) /\ x \in Elements(m)
      BY <2>3 DEF ReadSoFar, Dated
    <3> DEFINE p == [src |-> e.src, type |-> e.type, data |-> e.data]
               q == [src |-> x.src, type |-> x.type, data |-> x.data]
    <3>4. p \in Parsed /\ q \in Parsed
      BY <1>1, <3>2, <3>3 DEF WellParsed, Known
    <3>5. p.type = q.type
      BY <3>2, <3>4, ParserAssumption
    <3> QED
      BY <3>2, <3>3, <3>5
  <2>8. \A k \in 1 .. n + 1 : Age(line[k]) <= FileLife /\ Known(line[k]) =>
          \E y \in Elements(m) : y.src = line[k].src /\ y.type = line[k].type
    <3>1. ASSUME NEW k \in 1 .. n, Age(line[k]) <= FileLife, Known(line[k])
          PROVE  \E y \in Elements(m) : y.src = line[k].src /\ y.type = line[k].type
      BY <2>6, <3>1 DEF ReadSoFar
    <3>2. \A k \in 1 .. n + 1 : k \in 1 .. n \/ k = n + 1
      OBVIOUS
    <3> QED
      BY <2>7, <3>1, <3>2 DEF e
  <2>9. ReadSoFar(m, line, n + 1)
    <3>1. n + 1 + 1 = n + 2
      OBVIOUS
    <3> QED
      BY <2>2, <2>4, <2>5, <2>8, <3>1 DEF ReadSoFar
  <2> QED
    BY <1>3, <2>9 DEF m, e
<1> QED
  BY <1>2, <1>3

LEMMA ReadHistoryEffect ==
    ASSUME NEW file, SoundFile(file, now), now \in Nat
    PROVE  ReadSoFar(ReadHistory(file), Lines(file), Len(Lines(file)))
<1> DEFINE line == Lines(file)
           N == Len(line)
<1>1. line \in Seq(Entries) /\ Lagging(line) /\ Dated(line, now)
  <2>1. LinesFine(file)
    BY LinesEffect
  <2> QED
    BY <2>1 DEF LinesFine
<1>2. PICK read : ReadLoop(read, line) /\ ReadHistory(file) = read[N]
  BY <1>1, ReadUnrolled
<1> HIDE DEF line
<1> DEFINE T == {n \in Nat : n <= N => ReadSoFar(read[n], line, n)}
<1>3. 0 \in T
  <2>1. read[0] = <<>> /\ Elements(<<>>) = {} /\ <<>> \in Seq(Entries) /\ Len(<<>>) = 0
    BY <1>2, EmptySeq DEF ReadLoop, Elements
  <2>2. ReadSoFar(<<>>, line, 0)
    BY <2>1 DEF ReadSoFar, ClashAtFront, Lagging, Dated
  <2> QED
    BY <2>1, <2>2
<1>4. ASSUME NEW n \in Nat, n \in T PROVE n + 1 \in T
  <2> SUFFICES ASSUME n + 1 <= N PROVE ReadSoFar(read[n + 1], line, n + 1)
    OBVIOUS
  <2>1. N \in Nat /\ n + 1 \in 1 .. N /\ n <= N
    BY <1>1
  <2>2. read[n + 1] = IF Age(line[n + 1]) <= FileLife THEN Added(read[n], line[n + 1])
                      ELSE read[n]
    <3>1. n + 1 - 1 = n
      OBVIOUS
    <3> QED
      BY <1>2, <2>1, <3>1 DEF ReadLoop
  <2>3. ReadSoFar(read[n], line, n)
    BY <1>4, <2>1
  <2> QED
    BY <1>1, <2>1, <2>2, <2>3, ReadLine
<1>5. N \in Nat /\ N \in T
  <2>1. N \in Nat
    BY <1>1
  <2> HIDE DEF T
  <2> QED
    BY <1>3, <1>4, <2>1, InductionOnSet
<1> QED
  BY <1>2, <1>5 DEF line

------------------------------------------------------------------------------
(* The steps.                                                              *)

LEMMA InitIInv == Init => IInv
<1> SUFFICES ASSUME Init PROVE IInv
  OBVIOUS
<1>1. <<>> \in Seq(Entries) /\ Len(<<>>) = 0 /\ Elements(<<>>) = {}
  BY EmptySeq DEF Elements
<1>2. ListInv
  BY <1>1 DEF Init, ListInv, ClashAtFront, Lagging, Dated
<1>3. RestInv
  BY DEF Init, RestInv
<1> QED
  BY <1>2, <1>3 DEF Init, IInv

\* A packet that has just been created.
JustCreated(hp) ==
    hp \in Entries /\ hp.timestamp <= now /\ now - hp.timestamp <= MaxLag /\ WellParsed(hp)

LEMMA EntryArrives ==
    ASSUME NEW p \in Arriving, NEW dest \in {destINET, destTNC},
           NEW ttl \in Nat \ {0}, now \in Nat, NEW t \in Created,
           NEW echo \in BOOLEAN, NEW allowdup \in BOOLEAN
    PROVE  JustCreated(Entry(p, dest, ttl, t, echo, allowdup))
<1>1. t \in Nat /\ t <= now /\ now - t <= MaxLag
  BY DEF Created
<1>2. p \in Parsed /\ p.src \in Sources /\ p.type \in Types /\ p.data \in Texts
  BY DEF Parsed, Sources, Types, Texts
<1>3. [src |-> p.src, type |-> p.type, data |-> p.data] \in Parsed
  BY <1>2, ParserAssumption
<1> DEFINE e == Entry(p, dest, ttl, t, echo, allowdup)
<1>4. /\ e \in Entries /\ e.timestamp = t
      /\ e.src = p.src /\ e.type = p.type /\ e.data = p.data
  BY <1>1, <1>2 DEF Entry, Entries
<1> HIDE DEF e
<1>5. JustCreated(e)
  BY <1>1, <1>3, <1>4 DEF JustCreated, WellParsed
<1> QED
  BY <1>5 DEF e

\* Both producers of entries.
LEMMA AddedEntryArrives ==
    ASSUME IInv,
           \/ \E p \in Packets, t \in Created : AddInet(p, t)
           \/ \E p \in RfPackets, t \in Created, a \in BOOLEAN : AddTnc(p, t, a)
    PROVE  \E hp : JustCreated(hp) /\ AddHistoryItem(hp)
<1>1. now \in Nat /\ ttlTNC \in Nat \ {0}
  BY DEF IInv, RestInv, ttlTNC
<1>2. ASSUME NEW p \in Packets, NEW t \in Created, AddInet(p, t)
      PROVE  \E hp : JustCreated(hp) /\ AddHistoryItem(hp)
  <2>1. JustCreated(Entry(p, destINET, ttlDefault, t, TRUE, FALSE))
    BY <1>1, EntryArrives DEF Arriving
  <2> QED
    BY <1>2, <2>1 DEF AddInet
<1>3. ASSUME NEW p \in RfPackets, NEW t \in Created, NEW a \in BOOLEAN, AddTnc(p, t, a)
      PROVE  \E hp : JustCreated(hp) /\ AddHistoryItem(hp)
  <2>1. JustCreated(Entry(p, destTNC, ttlTNC, t, FALSE, a))
    BY <1>1, EntryArrives DEF Arriving
  <2> QED
    BY <1>3, <2>1 DEF AddTnc
<1> QED
  BY <1>2, <1>3

LEMMA AddHistoryItemKeeps ==
    ASSUME IInv, NEW hp, JustCreated(hp), AddHistoryItem(hp)
    PROVE  IInv'
<1>1. /\ list' = Added(list, hp) /\ verdict' = [item |-> hp, dup |-> IsDup(list, hp)]
      /\ UNCHANGED <<now, disk, restarts>>
  BY DEF AddHistoryItem
<1>2. \A x \in Elements(list) : Behind(x, hp)
  <2> SUFFICES ASSUME NEW x \in Elements(list) PROVE Behind(x, hp)
    OBVIOUS
  <2>1. x \in Entries
    BY DEF IInv, ListInv, Elements
  <2>2. x.timestamp \in Nat /\ x.timestamp <= now
    BY <2>1 DEF IInv, ListInv, Dated, Entries
  <2>3. hp.timestamp \in Nat /\ now \in Nat /\ now - hp.timestamp <= MaxLag
    BY DEF JustCreated, IInv, RestInv, Entries
  <2> QED
    BY <2>2, <2>3 DEF Behind
<1>3. /\ list' \in Seq(Entries) /\ ClashAtFront(list') /\ Lagging(list')
      /\ Elements(list') \subseteq Elements(list) \cup {hp}
  BY <1>1, <1>2, AddedEffect DEF IInv, ListInv, JustCreated
<1>4. ListInv'
  BY <1>1, <1>3 DEF IInv, ListInv, Dated, JustCreated
<1>5. RestInv'
  <2>1. IsDup(list, hp) \in BOOLEAN
    BY DEF IsDup, DupCheck
  <2> QED
    BY <1>1, <2>1 DEF IInv, RestInv, JustCreated
<1>6. DiskInv => DiskInv'
  BY <1>1 DEF DiskInv, SoundFile
<1> QED
  BY <1>1, <1>4, <1>5, <1>6 DEF IInv

LEMMA TickKeeps ==
    ASSUME IInv, Tick
    PROVE  IInv'
<1>1. now' = now + 1 /\ verdict' = NoCall /\ UNCHANGED <<list, disk, restarts>>
  BY DEF Tick
<1>2. \A l \in Seq(Entries) : Dated(l, now) => Dated(l, now')
  <2> SUFFICES ASSUME NEW l \in Seq(Entries), Dated(l, now), NEW x \in Elements(l)
               PROVE  x.timestamp <= now' /\ WellParsed(x)
    BY DEF Dated
  <2>1. x \in Entries
    BY DEF Elements
  <2>2. x.timestamp \in Nat /\ x.timestamp <= now /\ WellParsed(x)
    BY <2>1 DEF Dated, Entries
  <2> QED
    BY <1>1, <2>2 DEF IInv, RestInv
<1>3. ListInv'
  BY <1>1, <1>2 DEF IInv, ListInv
<1>4. DiskInv => DiskInv'
  BY <1>1, <1>2 DEF DiskInv, SoundFile
<1>5. RestInv'
  BY <1>1 DEF IInv, RestInv
<1> QED
  BY <1>1, <1>3, <1>4, <1>5 DEF IInv

LEMMA DeleteOldItemsKeeps ==
    ASSUME IInv, DeleteOldItems
    PROVE  IInv'
<1>1. /\ verdict' = NoCall /\ UNCHANGED <<now, disk, restarts>>
      /\ list' = list \/ list' = Aged(list)
  BY DEF DeleteOldItems
<1>2. ListInv'
  <2>1. CASE list' = list
    BY <1>1, <2>1 DEF IInv, ListInv
  <2>2. CASE list' = Aged(list)
    <3>1. list \in Seq(Entries) /\ ClashAtFront(list) /\ Lagging(list) /\ Dated(list, now)
      BY DEF IInv, ListInv
    <3>2. /\ list' \in Seq(Entries) /\ ClashAtFront(list') /\ Lagging(list')
          /\ \A x \in Elements(list') : \E y \in Elements(list) : x = WithTtl(y, x.ttl)
      BY <2>2, <3>1, AgedEffect
    <3>3. ASSUME NEW x \in Elements(list') PROVE x.timestamp <= now /\ WellParsed(x)
      <4>1. PICK y \in Elements(list) : x = WithTtl(y, x.ttl)
        BY <3>2
      <4>2. y \in Entries /\ x \in Entries /\ y.timestamp <= now /\ WellParsed(y)
        BY <3>1, <3>2 DEF Dated, Elements
      <4>3. x.ttl \in Int
        BY <4>2 DEF Entries
      <4>4. /\ x.timestamp = y.timestamp /\ x.src = y.src
            /\ x.type = y.type /\ x.data = y.data
        BY <4>1, <4>2, <4>3, OlderEntry
      <4> QED
        BY <4>2, <4>4 DEF WellParsed
    <3> QED
      BY <1>1, <3>2, <3>3 DEF ListInv, Dated
  <2> QED
    BY <1>1, <2>1, <2>2
<1>3. DiskInv => DiskInv'
  BY <1>1 DEF DiskInv, SoundFile
<1>4. RestInv'
  BY <1>1 DEF IInv, RestInv
<1> QED
  BY <1>1, <1>2, <1>3, <1>4 DEF IInv

LEMMA SaveHistoryKeeps ==
    ASSUME IInv, SaveHistory
    PROVE  IInv'
<1> DEFINE saved == Keeping(list, {e \in ToSet(list) : e.echo})
<1>1. /\ disk' = [lines |-> saved, tail |-> NoFile] /\ verdict' = NoCall
      /\ UNCHANGED <<list, now, restarts>>
  BY DEF SaveHistory
<1>2. list \in Seq(Entries) /\ Lagging(list) /\ Dated(list, now)
  BY DEF IInv, ListInv
<1>3. /\ saved \in Seq(Entries) /\ Lagging(saved) /\ Elements(saved) \subseteq Elements(list)
  BY <1>2, KeepingPreserves
<1>4. DiskInv'
  <2>1. PICK s : s = saved
    OBVIOUS
  <2> HIDE DEF saved
  <2>2. disk' = [lines |-> s, tail |-> NoFile] /\ now' = now
    BY <1>1, <2>1
  <2>3. s \in Seq(Entries) /\ Lagging(s) /\ Dated(s, now)
    BY <1>2, <1>3, <2>1 DEF Dated
  <2> QED
    BY <2>2, <2>3 DEF DiskInv
<1>5. ListInv' /\ RestInv'
  BY <1>1 DEF IInv, ListInv, RestInv
<1> QED
  BY <1>4, <1>5 DEF IInv

\* What a process finds and reads when it starts.
LEMMA RestartReads ==
    ASSUME IInv, Restart, disk # NoFile
    PROVE  /\ disk' \in Found /\ SoundFile(disk', now) /\ DiskInv' /\ LinesFine(disk')
           /\ disk'.lines # <<>> =>
                ReadSoFar(list', Lines(disk'), Len(Lines(disk')))
           /\ list' \in {<<>>} \cup {<<e>> : e \in Garbage}
              \/ ReadSoFar(list', Lines(disk'), Len(Lines(disk')))
<1>1. PICK file : file = disk'
  OBVIOUS
<1>2. /\ file \in Found /\ now' = now
      /\ IF file.lines = <<>> /\ file.tail = <<>>
         THEN list' \in {<<>>} \cup {<<e>> : e \in Garbage}
         ELSE list' = ReadHistory(file)
  BY <1>1 DEF Restart
<1>3. now \in Nat /\ DiskInv
  BY DEF IInv, RestInv
<1>4. /\ SoundFile(file, now)
      /\ file \in [lines : Seq(Entries), tail : Seq(Entries) \cup {NoFile}]
  BY <1>2, <1>3, FoundEffect
<1>5. ReadSoFar(ReadHistory(file), Lines(file), Len(Lines(file)))
  BY <1>3, <1>4, ReadHistoryEffect
<1>6. LinesFine(file)
  BY <1>3, <1>4, LinesEffect
<1>7. DiskInv'
  <2>1. SoundFile(file, now')
    BY <1>2, <1>4
  <2> QED
    BY <1>1, <1>4, <2>1 DEF DiskInv, SoundFile
<1> QED
  BY <1>1, <1>2, <1>4, <1>5, <1>6, <1>7

LEMMA RestartKeeps ==
    ASSUME IInv, Restart
    PROVE  IInv'
<1>1. /\ verdict' = NoCall /\ restarts' = restarts + 1 /\ now' = now
      /\ restarts < MaxRestarts
  BY DEF Restart
<1>2. ListInv'
  <2>1. CASE list' = <<>>
    <3>1. <<>> \in Seq(Entries) /\ Len(<<>>) = 0 /\ Elements(<<>>) = {}
      BY EmptySeq DEF Elements
    <3> QED
      BY <2>1, <3>1 DEF ListInv, ClashAtFront, Lagging, Dated
  <2>2. ASSUME NEW e \in Garbage, list' = <<e>> PROVE ListInv'
    <3>1. Blank.src \in Sources /\ Blank.type \in Types /\ Blank.data \in Texts
      BY DEF Sources, Types, Texts
    <3>2. now \in Nat /\ ttlDefault \in Nat
      BY DEF IInv, RestInv
    <3>3. e \in Entries /\ e.timestamp <= now /\ e.src = Blank.src
      <4>1. \A x \in {0, ttlDefault} \cup 0 .. now : x \in Nat
        BY <3>2
      <4>2. \A x \in 0 .. now : x <= now
        BY <3>2
      <4> QED
        BY <3>1, <4>1, <4>2 DEF Garbage, Entries
    <3>4. <<e>> \in Seq(Entries) /\ Len(<<e>>) = 1 /\ Elements(<<e>>) = {e}
      BY <3>3 DEF Elements
    <3>5. ClashAtFront(<<e>>) /\ Lagging(<<e>>)
      BY <3>4 DEF ClashAtFront, Lagging
    <3>6. WellParsed(e)
      BY <3>3 DEF WellParsed
    <3> QED
      BY <1>1, <2>2, <3>3, <3>4, <3>5, <3>6 DEF ListInv, Dated
  <2>3. ASSUME ReadSoFar(list', Lines(disk'), Len(Lines(disk'))) PROVE ListInv'
    BY <1>1, <2>3 DEF ReadSoFar, ListInv
  <2>4. CASE disk = NoFile
    BY <2>1, <2>4 DEF Restart
  <2>5. CASE disk # NoFile
    BY <2>1, <2>2, <2>3, <2>5, RestartReads
  <2> QED
    BY <2>4, <2>5
<1>3. disk' = NoFile \/ DiskInv'
  <2>1. CASE disk = NoFile
    BY <2>1 DEF Restart
  <2>2. CASE disk # NoFile
    BY <2>2, RestartReads
  <2> QED
    BY <2>1, <2>2
<1>4. RestInv'
  BY <1>1 DEF IInv, RestInv
<1> QED
  BY <1>2, <1>3, <1>4 DEF IInv

LEMMA Invariance == Spec => []IInv
<1>1. IInv /\ [Next]_vars => IInv'
  <2> SUFFICES ASSUME IInv, [Next]_vars PROVE IInv'
    OBVIOUS
  <2>1. CASE UNCHANGED vars
    BY <2>1 DEF vars, IInv, ListInv, DiskInv, SoundFile, RestInv
  <2>2. CASE Next
    BY <2>2, TickKeeps, AddedEntryArrives, AddHistoryItemKeeps, DeleteOldItemsKeeps,
       SaveHistoryKeeps, RestartKeeps DEF Next
  <2> QED
    BY <2>1, <2>2
<1> QED
  BY <1>1, InitIInv, PTL DEF Spec

------------------------------------------------------------------------------
\* Lists and file hold well-formed entries whose ttl has not run below zero and
\* that were created in the past, whatever a broken file is taken for
\* (history.cpp 103-251, 540-635).
THEOREM TypeCorrect == Spec => []TypeOK
<1>1. ASSUME IInv PROVE TypeOK
  <2>1. \A i \in DOMAIN list : list[i].timestamp <= now
    <3>1. DOMAIN list = 1 .. Len(list)
      BY <1>1 DEF IInv, ListInv
    <3> QED
      BY <1>1, <3>1 DEF IInv, ListInv, Dated, Elements
  <2> QED
    BY <1>1, <2>1 DEF IInv, ListInv, DiskInv, RestInv, TypeOK
<1>2. IInv => TypeOK
  BY <1>1
<1> QED
  BY <1>2, Invariance, PTL

\* Two packets of one kind of a station stand in front of the list or nowhere
\* (history.cpp 226).
THEOREM ClashesStayInFront == Spec => []KeyClashOnlyAtFront
<1>1. ASSUME IInv PROVE KeyClashOnlyAtFront
  <2>1. DOMAIN list = 1 .. Len(list)
    BY <1>1 DEF IInv, ListInv
  <2> QED
    BY <1>1, <2>1 DEF IInv, ListInv, ClashAtFront, KeyClashOnlyAtFront
<1>2. IInv => KeyClashOnlyAtFront
  BY <1>1
<1> QED
  BY <1>2, Invariance, PTL

\* An added packet is no young duplicate, in whatever order the listed ones
\* were created (history.cpp 259-295).
THEOREM YoungDuplicatesAreCaught == Spec => RecentDuplicateCaught
<1>1. IInv /\ [Next]_vars =>
        [Accepted /\ ~verdict'.item.allowdup =>
           \A i \in DOMAIN list :
              SamePacket(list[i], verdict'.item) => Age(list[i]) > DupWindow - MaxLag]_vars
  <2> SUFFICES ASSUME IInv, Next, Accepted, ~verdict'.item.allowdup, NEW i \in DOMAIN list,
                      SamePacket(list[i], verdict'.item), ~(Age(list[i]) > DupWindow - MaxLag)
               PROVE  FALSE
    OBVIOUS
  <2>1. PICK hp : JustCreated(hp) /\ AddHistoryItem(hp)
    BY AddedEntryArrives DEF Next, Tick, DeleteOldItems, SaveHistory, Restart, Accepted
  <2>2. ~IsDup(list, hp) /\ verdict'.item = hp
    BY <2>1 DEF AddHistoryItem, Accepted
  <2>3. /\ list \in Seq(Entries) /\ DOMAIN list = 1 .. Len(list) /\ Len(list) \in Nat
        /\ Lagging(list) /\ now \in Nat
    BY DEF IInv, ListInv, RestInv
  <2>4. \A j \in 1 .. Len(list) : list[j].timestamp \in Nat
    <3>1. \A j \in 1 .. Len(list) : list[j] \in Entries
      BY <2>3
    <3> QED
      BY <3>1 DEF Entries
  <2>5. \A j \in i + 1 .. Len(list) : Age(list[j]) <= DupWindow
    <3> SUFFICES ASSUME NEW j \in i + 1 .. Len(list) PROVE Age(list[j]) <= DupWindow
      OBVIOUS
    <3>1. Behind(list[i], list[j])
      BY <2>3 DEF Lagging
    <3>2. list[i].timestamp \in Nat /\ list[j].timestamp \in Nat
      BY <2>3, <2>4
    <3> QED
      BY <2>3, <3>1, <3>2 DEF Behind, Age
  <2>6. Age(list[i]) <= DupWindow
    BY <2>3, <2>4 DEF Age
  <2>7. Scanned(list, i)
    <3>1. Age(Last(list)) <= DupWindow
      <4>1. Last(list) = list[Len(list)]
        BY DEF Last
      <4> QED
        BY <2>3, <2>5, <2>6, <4>1
    <3> QED
      BY <2>5, <3>1 DEF Scanned
  <2>8. SamePacket(hp, list[i]) /\ list # <<>>
    BY <2>2, <2>3 DEF SamePacket
  <2> QED
    BY <2>2, <2>7, <2>8 DEF IsDup, DupCheck
<1> QED
  BY <1>1, Invariance, PTL DEF Spec, RecentDuplicateCaught

\* Nothing but a newer packet of its kind, its age and a restart takes a packet
\* out of the list (history.cpp 192-251).
THEOREM NothingIsLostEarly == Spec => NothingLostEarly
<1>1. IInv /\ [Next]_vars =>
        [restarts' = restarts =>
           \A i \in DOMAIN list :
              \/ \E j \in DOMAIN list' :
                    list'[j] = [list[i] EXCEPT !.ttl = list'[j].ttl]
              \/ list[i].ttl <= AgeStep /\ verdict' = NoCall
              \/ Accepted /\ SameKey(list[i], Last(list'))]_vars
  <2> SUFFICES ASSUME IInv, Next, restarts' = restarts, NEW i \in DOMAIN list
               PROVE  \/ \E j \in DOMAIN list' :
                            list'[j] = [list[i] EXCEPT !.ttl = list'[j].ttl]
                      \/ list[i].ttl <= AgeStep /\ verdict' = NoCall
                      \/ Accepted /\ SameKey(list[i], Last(list'))
    OBVIOUS
  <2>1. /\ list \in Seq(Entries) /\ DOMAIN list = 1 .. Len(list)
        /\ ClashAtFront(list) /\ Lagging(list)
    BY DEF IInv, ListInv
  <2>2. list[i] \in Entries /\ list[i] \in Elements(list)
    BY <2>1 DEF Elements
  <2>3. ASSUME NEW n, WithTtl(list[i], n) \in Elements(list'), list' \in Seq(Entries)
        PROVE  \E j \in DOMAIN list' : list'[j] = [list[i] EXCEPT !.ttl = list'[j].ttl]
    <3>1. PICK j \in DOMAIN list' : list'[j] = WithTtl(list[i], n)
      <4>1. DOMAIN list' = 1 .. Len(list')
        BY <2>3
      <4> QED
        BY <2>3, <4>1 DEF Elements
    <3>2. list'[j].ttl = n
      BY <2>2, <3>1 DEF WithTtl, Entries
    <3> QED
      BY <3>1, <3>2 DEF WithTtl
  <2>4. list[i] = WithTtl(list[i], list[i].ttl)
    BY <2>2 DEF WithTtl, Entries
  <2>5. CASE list' = list
    BY <2>1, <2>2, <2>3, <2>4, <2>5
  <2>6. ASSUME NEW hp, JustCreated(hp), AddHistoryItem(hp)
        PROVE  \/ \E j \in DOMAIN list' :
                     list'[j] = [list[i] EXCEPT !.ttl = list'[j].ttl]
               \/ Accepted /\ SameKey(list[i], Last(list'))
    <3>1. list' = Added(list, hp) /\ verdict' = [item |-> hp, dup |-> IsDup(list, hp)]
      BY <2>6 DEF AddHistoryItem
    <3>2. hp \in Entries
      BY <2>6 DEF JustCreated
    <3>3. /\ list' \in Seq(Entries) /\ (~IsDup(list, hp) => Last(list') = hp)
          /\ list[i] \in Elements(list') \/ (~IsDup(list, hp) /\ SameKey(list[i], hp))
      BY <2>1, <2>2, <3>1, <3>2, AddedEffect
    <3>4. CASE list[i] \in Elements(list')
      BY <2>3, <2>4, <3>3, <3>4
    <3>5. CASE ~IsDup(list, hp) /\ SameKey(list[i], hp)
      <4>1. IsDup(list, hp) = FALSE
        BY <3>5 DEF IsDup, DupCheck
      <4>2. verdict' = [item |-> hp, dup |-> FALSE]
        BY <3>1, <4>1
      <4>3. verdict' \in [item : Entries, dup : BOOLEAN] /\ ~verdict'.dup
        BY <3>2, <4>2
      <4>4. Accepted
        BY <4>3, NoCallAssumption DEF Accepted
      <4> QED
        BY <3>3, <3>5, <4>4
    <3> QED
      BY <3>3, <3>4, <3>5
  <2>7. CASE list' = Aged(list) /\ verdict' = NoCall
    <3>1. list' \in Seq(Entries)
      BY <2>1, <2>7, AgedEffect
    <3>2. CASE list[i].ttl > AgeStep
      <4>1. WithTtl(list[i], list[i].ttl - AgeStep) \in Elements(list')
        BY <2>1, <2>2, <2>7, <3>2, AgedEffect
      <4> QED
        BY <2>3, <3>1, <4>1
    <3>3. CASE ~(list[i].ttl > AgeStep)
      BY <2>2, <2>7, <3>3 DEF Entries, AgeStep
    <3> QED
      BY <3>2, <3>3
  <2>8. restarts' # restarts + 1
    BY DEF IInv, RestInv
  <2>9. \/ list' = list
        \/ list' = Aged(list) /\ verdict' = NoCall
        \/ \E hp : JustCreated(hp) /\ AddHistoryItem(hp)
    BY <2>8, AddedEntryArrives DEF Next, Tick, DeleteOldItems, SaveHistory, Restart
  <2> QED
    BY <2>5, <2>6, <2>7, <2>9
<1> QED
  BY <1>1, Invariance, PTL DEF Spec, NothingLostEarly

\* A restart brings back every station with a young packet among the whole lines
\* it reads, with one of each kind (history.cpp 540-635).
THEOREM RestartKeepsStations == Spec => RestartBringsBackWhatIsRead
<1>1. IInv /\ [Next]_vars =>
        [restarts' # restarts /\ disk' # NoFile =>
           \A i \in DOMAIN disk'.lines :
              LET e == FromLine(disk'.lines[i]) IN
              /\ \A j \in 1 .. i - 1 : ~Stops(disk'.lines[j])
              /\ Age(e) <= FileLife /\ e.src # Blank.src
              /\ e.data \notin {s.data : s \in Scraps}
              => \E j \in DOMAIN list' : list'[j].src = e.src /\ list'[j].type = e.type]_vars
  <2> SUFFICES ASSUME IInv, Next, restarts' # restarts, disk' # NoFile,
                      NEW file, file = disk', NEW i \in DOMAIN file.lines,
                      NEW e, e = FromLine(file.lines[i]),
                      \A j \in 1 .. i - 1 : ~Stops(file.lines[j]),
                      Age(e) <= FileLife, Known(e)
               PROVE  \E j \in DOMAIN list' : list'[j].src = e.src /\ list'[j].type = e.type
    BY DEF vars, Known, ScrapTexts
  <2>1. Restart /\ disk # NoFile
    BY DEF Next, Tick, AddInet, AddTnc, AddHistoryItem, DeleteOldItems, SaveHistory, Restart
  <2>2. SoundFile(file, now) /\ LinesFine(file)
    BY <2>1, RestartReads
  <2>3. /\ file.lines \in Seq(Entries) /\ DOMAIN file.lines = 1 .. Len(file.lines)
        /\ file.lines # <<>>
    BY <2>2 DEF SoundFile
  <2>4. ReadSoFar(list', Lines(file), Len(Lines(file)))
    BY <2>1, <2>3, RestartReads
  <2>5. i \in 1 .. Len(Lines(file)) /\ Lines(file)[i] = e
    BY <2>2, <2>3 DEF LinesFine
  <2>6. \E x \in Elements(list') : x.src = e.src /\ x.type = e.type
    BY <2>4, <2>5 DEF ReadSoFar
  <2>7. DOMAIN list' = 1 .. Len(list')
    BY <2>4 DEF ReadSoFar
  <2> QED
    BY <2>6, <2>7 DEF Elements
<1> QED
  BY <1>1, Invariance, PTL DEF Spec, RestartBringsBackWhatIsRead
==============================================================================
