-------------------------- MODULE HistoryList_proofs --------------------------
(***************************************************************************)
(* The linked history list, for any addresses, packets and times and any   *)
(* length: its pointers are well linked in every state, no packet leaks,   *)
(* and it implements the sequence of module History.                       *)
(*                                                                         *)
(* The invariant names the packets of the list in their order, s.  What    *)
(* the pointers are is read off s; what the items are follows from how far *)
(* the loop that holds the lock has come: in front of hp there is what the *)
(* loop has kept, from hp on there is what the list was before.            *)
(***************************************************************************)
EXTENDS HistoryList, Lists_proofs

USE AddressAssumption, NumbersAssumption

Refs == Objs \cup {NULL}

\* The element at place i; NULL beyond either end.
At(s, i) == IF i \in 1 .. Len(s) THEN s[i] ELSE NULL

From(s, i) == SubSeq(s, i, Len(s))

------------------------------------------------------------------------------
\* Reading a list by its pointers.

LEMMA FromStep ==
    ASSUME NEW X, NEW s \in Seq(X), NEW i \in 1 .. Len(s)
    PROVE  From(s, i) = <<s[i]>> \o From(s, i + 1)
<1>1. Len(s) \in Nat /\ \A j \in 1 .. Len(s) : s[j] \in X
  OBVIOUS
<1> DEFINE u == From(s, i + 1)
           w == From(s, i)
           t == <<s[i]>> \o u
<1>2. /\ w \in Seq(X) /\ Len(w) = Len(s) - i + 1
      /\ \A j \in 1 .. Len(s) - i + 1 : w[j] = s[i + j - 1]
  BY <1>1 DEF From
<1>3. /\ u \in Seq(X) /\ Len(u) = Len(s) - i
      /\ \A j \in 1 .. Len(s) - i : u[j] = s[i + j]
  BY <1>1 DEF From
<1>4. <<s[i]>> \in Seq(X) /\ Len(<<s[i]>>) = 1 /\ <<s[i]>>[1] = s[i]
  BY <1>1
<1>5. /\ t \in Seq(X) /\ Len(t) = 1 + Len(u)
      /\ \A j \in 1 .. 1 + Len(u) : t[j] = IF j <= 1 THEN s[i] ELSE u[j - 1]
  <2>1. u \in Seq(X)
    BY <1>3
  <2> HIDE DEF u
  <2> DEFINE v == <<s[i]>>
  <2>2. v \in Seq(X) /\ Len(v) = 1 /\ v[1] = s[i]
    BY <1>4
  <2> HIDE DEF v
  <2>3. /\ v \o u \in Seq(X) /\ Len(v \o u) = Len(v) + Len(u)
        /\ \A j \in 1 .. Len(v) + Len(u) :
              (v \o u)[j] = IF j <= Len(v) THEN v[j] ELSE u[j - Len(v)]
    BY <2>1, <2>2, ConcatProperties
  <2>4. t = v \o u
    BY DEF v
  <2> HIDE DEF t
  <2> QED
    BY <2>1, <2>2, <2>3, <2>4
<1>6. w = t
  <2> HIDE DEF t, u, w
  <2>1. Len(w) = Len(t)
    BY <1>1, <1>2, <1>3, <1>5
  <2>2. ASSUME NEW j \in 1 .. Len(w) PROVE w[j] = t[j]
    <3>1. j \in 1 .. Len(s) - i + 1 /\ j \in 1 .. 1 + Len(u)
      BY <1>1, <1>2, <1>3
    <3>2. CASE j = 1
      BY <1>1, <1>2, <1>5, <3>1, <3>2
    <3>3. CASE j # 1
      <4>1. j - 1 \in 1 .. Len(s) - i /\ i + (j - 1) = i + j - 1 /\ ~(j <= 1)
        BY <1>1, <3>1, <3>3
      <4> QED
        BY <1>2, <1>3, <1>5, <3>1, <4>1
    <3> QED
      BY <3>2, <3>3
  <2> QED
    BY <1>2, <1>5, <2>1, <2>2, SeqEqual
<1> QED
  BY <1>6

\* f is what a loop from any packet finds, if next leads from one to the next.
Reads(f, D, next) ==
    f = [p \in D \cup {NULL} |-> IF p = NULL THEN <<>> ELSE <<p>> \o f[next[p]]]

\* next leads through s; the other packets are alone.
LeadsThrough(next, D, s) ==
    /\ Elements(s) \subseteq D /\ D \subseteq Objs
    /\ \A i \in 1 .. Len(s) : next[s[i]] = At(s, i + 1)
    /\ \A p \in D \ Elements(s) : next[p] = NULL

LEMMA ReadExists ==
    ASSUME NEW s \in Seq(Objs), NoTwice(s), NEW D, NEW next, LeadsThrough(next, D, s)
    PROVE  \E f : Reads(f, D, next)
<1> DEFINE place(p) == CHOOSE i \in 1 .. Len(s) : s[i] = p
           f == [p \in D \cup {NULL} |->
                   IF p = NULL THEN <<>>
                   ELSE IF p \in Elements(s) THEN From(s, place(p)) ELSE <<p>>]
<1>1. \A i \in 1 .. Len(s) : place(s[i]) = i
  BY DEF NoTwice
<1>2. f[NULL] = <<>> /\ NULL \notin D
  BY DEF LeadsThrough
<1>3. \A i \in 1 .. Len(s) : f[s[i]] = From(s, i)
  <2>1. \A i \in 1 .. Len(s) : s[i] \in D /\ s[i] \in Elements(s) /\ s[i] # NULL
    BY <1>2 DEF LeadsThrough, Elements
  <2>2. \A i \in 1 .. Len(s) : f[s[i]] = From(s, place(s[i]))
    <3> HIDE DEF place
    <3> QED
      BY <2>1
  <2> HIDE DEF f, place
  <2> QED
    BY <1>1, <2>2
<1>4. f[At(s, Len(s) + 1)] = From(s, Len(s) + 1)
  BY <1>2 DEF At, From
<1>5. \A i \in 1 .. Len(s) : f[At(s, i + 1)] = From(s, i + 1)
  <2> HIDE DEF f
  <2> SUFFICES ASSUME NEW i \in 1 .. Len(s) PROVE f[At(s, i + 1)] = From(s, i + 1)
    OBVIOUS
  <2>1. CASE i = Len(s)
    BY <1>4, <2>1
  <2>2. CASE i + 1 \in 1 .. Len(s)
    BY <1>3, <2>2 DEF At
  <2> QED
    BY <2>1, <2>2
<1>6. \A p \in D \ Elements(s) : f[p] = <<p>>
  BY <1>2
<1> DEFINE g == [p \in D \cup {NULL} |-> IF p = NULL THEN <<>> ELSE <<p>> \o f[next[p]]]
<1>7. \A p \in D \cup {NULL} : f[p] = g[p]
  <2> SUFFICES ASSUME NEW p \in D \cup {NULL} PROVE f[p] = g[p]
    OBVIOUS
  <2> HIDE DEF f
  <2>1. CASE p = NULL
    BY <1>2, <2>1
  <2>2. CASE p \in Elements(s)
    <3>1. PICK i \in 1 .. Len(s) : p = s[i]
      BY <2>2 DEF Elements
    <3>2. p # NULL /\ p \in D
      BY <1>2, <2>2 DEF LeadsThrough
    <3>3. g[p] = <<s[i]>> \o f[At(s, i + 1)]
      BY <3>1, <3>2 DEF LeadsThrough
    <3>4. From(s, i) = <<s[i]>> \o From(s, i + 1)
      BY FromStep
    <3> HIDE DEF g
    <3> QED
      BY <1>3, <1>5, <3>1, <3>3, <3>4
  <2>3. CASE p \in D \ Elements(s)
    <3>1. p # NULL
      BY <1>2, <2>3
    <3>2. g[p] = <<p>> \o f[NULL]
      BY <2>3, <3>1 DEF LeadsThrough
    <3>3. <<p>> \o <<>> = <<p>>
      OBVIOUS
    <3> HIDE DEF g
    <3> QED
      BY <1>2, <1>6, <2>3, <3>2, <3>3
  <2> QED
    BY <2>1, <2>2, <2>3
<1>8. f = g
  BY <1>7
<1>9. Reads(f, D, next)
  BY <1>8 DEF Reads
<1> QED
  BY <1>9

LEMMA ReadIsList ==
    ASSUME NEW s \in Seq(Objs), NEW D, NEW next, LeadsThrough(next, D, s),
           NEW f, Reads(f, D, next)
    PROVE  f[At(s, 1)] = s
<1> DEFINE N == Len(s)
           T == {j \in Nat : j <= N => f[At(s, N - j + 1)] = From(s, N - j + 1)}
<1>1. N \in Nat /\ NULL \notin D /\ \A i \in 1 .. N : s[i] \in D
  BY DEF LeadsThrough, Elements
<1>2. f[NULL] = <<>> /\ \A p \in D : f[p] = <<p>> \o f[next[p]]
  BY <1>1 DEF Reads
<1>3. 0 \in T
  <2>1. At(s, N + 1) = NULL /\ From(s, N + 1) = <<>>
    BY <1>1 DEF At, From
  <2> QED
    BY <1>1, <1>2, <2>1
<1>4. ASSUME NEW j \in Nat, j \in T PROVE j + 1 \in T
  <2> SUFFICES ASSUME j + 1 <= N
               PROVE  f[At(s, N - (j + 1) + 1)] = From(s, N - (j + 1) + 1)
    OBVIOUS
  <2> DEFINE i == N - j
  <2>1. i \in 1 .. N /\ N - (j + 1) + 1 = i /\ N - j + 1 = i + 1
    BY <1>1
  <2>2. f[At(s, i + 1)] = From(s, i + 1)
    BY <1>1, <1>4, <2>1
  <2>3. At(s, i) = s[i] /\ next[s[i]] = At(s, i + 1)
    BY <2>1 DEF At, LeadsThrough
  <2>4. f[s[i]] = <<s[i]>> \o f[At(s, i + 1)]
    BY <1>1, <1>2, <2>1, <2>3
  <2>5. From(s, i) = <<s[i]>> \o From(s, i + 1)
    BY <2>1, FromStep
  <2> HIDE DEF i
  <2> QED
    BY <2>1, <2>2, <2>3, <2>4, <2>5
<1>5. N \in T
  <2> HIDE DEF T
  <2> QED
    BY <1>1, <1>3, <1>4, InductionOnSet
<1>6. f[At(s, 1)] = From(s, 1)
  BY <1>1, <1>5
<1>7. From(s, 1) = s
  BY <1>1 DEF From
<1> QED
  BY <1>6, <1>7

------------------------------------------------------------------------------
\* The pointers of a list.

Items == [src : H!Sources, type : H!Types, data : H!Texts,
          dest : {H!destINET, H!destTNC}, ttl : Int, timestamp : Nat,
          echo : BOOLEAN, allowdup : BOOLEAN]

Nodes == [item : Items, next : Refs, last : Refs]

\* head, tail and the members next and last say that the list is s.
Linked(nodes, head, tail, s) ==
    /\ s \in Seq(Objs) /\ NoTwice(s) /\ Elements(s) \subseteq DOMAIN nodes
    /\ nodes \in [DOMAIN nodes -> Nodes] /\ DOMAIN nodes \subseteq Objs
    /\ head = At(s, 1) /\ tail = At(s, Len(s))
    /\ \A i \in 1 .. Len(s) : /\ nodes[s[i]].next = At(s, i + 1)
                              /\ nodes[s[i]].last = At(s, i - 1)

Alone(nodes, o) == nodes[o].next = NULL /\ nodes[o].last = NULL

\* All there is are the packets of the list and the one that is being added.
HeapInv(s) ==
    /\ Linked(node, pHead, pTail, s)
    /\ call.ref \in Refs \ Elements(s)
    /\ DOMAIN node = Elements(s) \cup ({call.ref} \ {NULL})
    /\ call.ref # NULL => Alone(node, call.ref)
    /\ ItemCount = Len(s)
    /\ Len(s) + (IF call.ref = NULL THEN 0 ELSE 1) <= MaxItems

ItemsOf(nodes, s) == [i \in 1 .. Len(s) |-> nodes[s[i]].item]

LEMMA ReverseProperties ==
    ASSUME NEW s \in Seq(Objs), NoTwice(s)
    PROVE  /\ Reverse(s) \in Seq(Objs) /\ Len(Reverse(s)) = Len(s)
           /\ NoTwice(Reverse(s)) /\ Elements(Reverse(s)) = Elements(s)
           /\ \A i \in 1 .. Len(s) : Reverse(s)[i] = s[Len(s) - i + 1]
           /\ Reverse(Reverse(s)) = s
<1> DEFINE r == Reverse(s)
<1>1. Len(s) \in Nat /\ \A i \in 1 .. Len(s) : s[i] \in Objs /\ Len(s) - i + 1 \in 1 .. Len(s)
  OBVIOUS
<1>2. /\ r \in Seq(Objs) /\ Len(r) = Len(s)
      /\ \A i \in 1 .. Len(s) : r[i] = s[Len(s) - i + 1]
  BY <1>1 DEF Reverse
<1>3. Reverse(r) = [i \in 1 .. Len(r) |-> r[Len(r) - i + 1]]
  BY DEF Reverse
<1> HIDE DEF r
<1>4. NoTwice(r)
  <2> SUFFICES ASSUME NEW i \in 1 .. Len(s), NEW j \in 1 .. Len(s), r[i] = r[j] PROVE i = j
    BY <1>2 DEF NoTwice
  <2>1. Len(s) - i + 1 = Len(s) - j + 1
    BY <1>1, <1>2 DEF NoTwice
  <2> QED
    BY <1>1, <2>1
<1>5. Elements(r) = Elements(s)
  <2>1. Elements(r) \subseteq Elements(s)
    BY <1>1, <1>2 DEF Elements
  <2>2. ASSUME NEW i \in 1 .. Len(s) PROVE s[i] \in Elements(r)
    <3>1. Len(s) - i + 1 \in 1 .. Len(s) /\ Len(s) - (Len(s) - i + 1) + 1 = i
      BY <1>1
    <3>2. r[Len(s) - i + 1] = s[i]
      BY <1>2, <3>1
    <3> QED
      BY <1>2, <3>1, <3>2 DEF Elements
  <2> QED
    BY <2>1, <2>2 DEF Elements
<1>6. Reverse(r) = s
  <2>1. Reverse(r) \in Seq(Objs) /\ Len(Reverse(r)) = Len(s)
    <3>1. \A i \in 1 .. Len(s) : r[Len(s) - i + 1] \in Objs
      BY <1>1, <1>2
    <3> QED
      BY <1>1, <1>2, <1>3, <3>1
  <2>2. ASSUME NEW i \in 1 .. Len(s) PROVE Reverse(r)[i] = s[i]
    <3>1. Len(s) - i + 1 \in 1 .. Len(s) /\ Len(s) - (Len(s) - i + 1) + 1 = i
      BY <1>1
    <3>2. Reverse(r)[i] = r[Len(s) - i + 1]
      BY <1>2, <1>3
    <3> QED
      BY <1>2, <3>1, <3>2
  <2> QED
    BY <2>1, <2>2, SeqEqual
<1> QED
  BY <1>2, <1>4, <1>5, <1>6 DEF r

LEMMA ListIsRead ==
    ASSUME NEW s \in Seq(Objs), HeapInv(s)
    PROVE  Forwards = s /\ Backwards = Reverse(s)
<1> DEFINE D == DOMAIN node
           next == [p \in D |-> node[p].next]
           last == [p \in D |-> node[p].last]
           r == Reverse(s)
<1>1. /\ Linked(node, pHead, pTail, s) /\ NoTwice(s)
      /\ Elements(s) \subseteq D /\ D \subseteq Objs /\ NULL \notin D
      /\ \A p \in D \ Elements(s) : Alone(node, p)
  BY DEF HeapInv, Linked
<1>2. LeadsThrough(next, D, s)
  <2>1. \A i \in 1 .. Len(s) : s[i] \in D /\ next[s[i]] = At(s, i + 1)
    BY <1>1 DEF Linked, Elements
  <2>2. \A p \in D \ Elements(s) : next[p] = NULL
    BY <1>1 DEF Alone
  <2> HIDE DEF next, D
  <2> QED
    BY <1>1, <2>1, <2>2 DEF LeadsThrough
<1>3. r \in Seq(Objs) /\ NoTwice(r) /\ At(r, 1) = pTail
  <2>1. Len(s) \in Nat /\ (Len(s) # 0 => 1 \in 1 .. Len(s) /\ Len(s) \in 1 .. Len(s))
        /\ Len(s) - 1 + 1 = Len(s)
    OBVIOUS
  <2>2. CASE Len(s) = 0
    <3>1. r \in Seq(Objs) /\ NoTwice(r) /\ Len(r) = 0
      BY <1>1, <2>2, ReverseProperties
    <3>2. pTail = NULL
      BY <1>1, <2>2 DEF At, Linked
    <3> HIDE DEF r
    <3> QED
      BY <3>1, <3>2 DEF At
  <2>3. CASE Len(s) # 0
    <3>1. r \in Seq(Objs) /\ NoTwice(r) /\ Len(r) = Len(s) /\ r[1] = s[Len(s)]
      BY <1>1, <2>1, <2>3, ReverseProperties
    <3>2. pTail = s[Len(s)]
      BY <1>1, <2>1, <2>3 DEF At, Linked
    <3> HIDE DEF r
    <3> QED
      BY <2>1, <2>3, <3>1, <3>2 DEF At
  <2> QED
    BY <2>2, <2>3
<1>4. LeadsThrough(last, D, r)
  <2>1. \A i \in 1 .. Len(s) : s[i] \in D /\ last[s[i]] = At(s, i - 1)
    BY <1>1 DEF Linked, Elements
  <2>2. \A p \in D \ Elements(s) : last[p] = NULL
    BY <1>1 DEF Alone
  <2>3. ASSUME NEW i \in 1 .. Len(r) PROVE last[r[i]] = At(r, i + 1)
    <3> HIDE DEF r, last, D
    <3> DEFINE N == Len(s)
    <3>1. N \in Nat /\ Len(r) = N /\ \A j \in 1 .. N : r[j] = s[N - j + 1]
      BY <1>1, ReverseProperties DEF r
    <3>2. N - i + 1 \in 1 .. N
      BY <3>1
    <3>3. last[r[i]] = At(s, N - i)
      <4>1. N - i + 1 - 1 = N - i
        BY <3>1
      <4> QED
        BY <2>1, <3>1, <3>2, <4>1
    <3>4. CASE i = N
      BY <3>1, <3>3, <3>4 DEF At
    <3>5. CASE i # N
      <4>1. i + 1 \in 1 .. N /\ N - i \in 1 .. N /\ N - (i + 1) + 1 = N - i
        BY <3>1, <3>5
      <4> QED
        BY <3>1, <3>3, <4>1 DEF At
    <3> QED
      BY <3>4, <3>5
  <2>4. Elements(r) = Elements(s)
    BY <1>1, ReverseProperties
  <2> HIDE DEF last, D, r
  <2> QED
    BY <1>1, <2>2, <2>3, <2>4 DEF LeadsThrough
<1>5. Forwards = s
  <2> DEFINE Body(f) == [p \in DOMAIN node \cup {NULL} |->
               IF p = NULL THEN <<>> ELSE <<p>> \o f[node[p].next]]
             from == CHOOSE f : f = Body(f)
  <2>1. PICK f : Reads(f, D, next)
    BY <1>1, <1>2, ReadExists
  <2>2. \A g : Body(g) = [p \in D \cup {NULL} |-> IF p = NULL THEN <<>> ELSE <<p>> \o g[next[p]]]
    OBVIOUS
  <2>3. f = Body(f)
    BY <2>1, <2>2 DEF Reads
  <2>4. from = Body(from)
    BY <2>3
  <2>5. Forwards = from[pHead]
    BY DEF Forwards
  <2> HIDE DEF from
  <2>6. Reads(from, D, next)
    BY <2>2, <2>4 DEF Reads
  <2>7. pHead = At(s, 1)
    BY <1>1 DEF Linked
  <2> HIDE DEF D, next
  <2> QED
    BY <1>2, <2>5, <2>6, <2>7, ReadIsList
<1>6. Backwards = r
  <2> DEFINE Body(f) == [p \in DOMAIN node \cup {NULL} |->
               IF p = NULL THEN <<>> ELSE <<p>> \o f[node[p].last]]
             from == CHOOSE f : f = Body(f)
  <2>1. PICK f : Reads(f, D, last)
    <3> HIDE DEF D, last, r
    <3> QED
      BY <1>3, <1>4, ReadExists
  <2>2. \A g : Body(g) = [p \in D \cup {NULL} |-> IF p = NULL THEN <<>> ELSE <<p>> \o g[last[p]]]
    OBVIOUS
  <2>3. f = Body(f)
    BY <2>1, <2>2 DEF Reads
  <2>4. from = Body(from)
    BY <2>3
  <2>5. Backwards = from[pTail]
    BY DEF Backwards
  <2> HIDE DEF from
  <2>6. Reads(from, D, last)
    BY <2>2, <2>4 DEF Reads
  <2> HIDE DEF D, last, r
  <2> QED
    BY <1>3, <1>4, <2>5, <2>6, ReadIsList
<1> QED
  BY <1>5, <1>6

LEMMA ContentsRead ==
    ASSUME NEW s \in Seq(Objs), HeapInv(s)
    PROVE  Contents = ItemsOf(node, s)
<1>1. Forwards = s /\ DOMAIN s = 1 .. Len(s)
  BY ListIsRead
<1> QED
  BY <1>1 DEF Contents, ItemsOf

\* DupCheck, too, sees the list as it is, although it reads it from its end.
LEMMA DupCheckReads ==
    ASSUME NEW s \in Seq(Objs), HeapInv(s), NEW item
    PROVE  IsDup(item) <=> H!DupCheck(ItemsOf(node, s), item)
<1>1. Backwards = Reverse(s) /\ NoTwice(s)
  BY ListIsRead DEF HeapInv, Linked
<1>2. Reverse(Reverse(s)) = s /\ DOMAIN Reverse(s) = 1 .. Len(s)
  BY <1>1, ReverseProperties
<1>3. [i \in DOMAIN Backwards |-> node[Reverse(Backwards)[i]].item] = ItemsOf(node, s)
  BY <1>1, <1>2 DEF ItemsOf
<1> QED
  BY <1>3 DEF IsDup

------------------------------------------------------------------------------
\* Taking a packet out of the list.

Without(s, k) == [i \in 1 .. Len(s) - 1 |-> IF i < k THEN s[i] ELSE s[i + 1]]

LEMMA WithoutProperties ==
    ASSUME NEW s \in Seq(Objs), NoTwice(s), NEW k \in 1 .. Len(s),
           NEW t, t = Without(s, k)
    PROVE  /\ t \in Seq(Objs) /\ Len(t) = Len(s) - 1
           /\ NoTwice(t) /\ Elements(t) = Elements(s) \ {s[k]}
           /\ \A i \in Nat : At(t, i) = IF i < k THEN At(s, i) ELSE At(s, i + 1)
<1> DEFINE up(i) == IF i < k THEN i ELSE i + 1
<1>1. Len(s) \in Nat /\ k \in Nat /\ \A i \in 1 .. Len(s) : s[i] \in Objs
  OBVIOUS
<1>2. /\ t \in Seq(Objs) /\ Len(t) = Len(s) - 1
      /\ \A i \in 1 .. Len(s) - 1 : t[i] = s[up(i)] /\ up(i) \in 1 .. Len(s) /\ up(i) # k
  BY <1>1 DEF Without
<1>3. NoTwice(t)
  <2> SUFFICES ASSUME NEW i \in 1 .. Len(s) - 1, NEW j \in 1 .. Len(s) - 1, t[i] = t[j]
               PROVE  i = j
    BY <1>2 DEF NoTwice
  <2>1. up(i) = up(j)
    BY <1>2 DEF NoTwice
  <2> QED
    BY <1>1, <2>1
<1>4. Elements(t) = Elements(s) \ {s[k]}
  <2>1. \A i \in 1 .. Len(t) : t[i] \in Elements(s) \ {s[k]}
    <3> SUFFICES ASSUME NEW i \in 1 .. Len(t)
                 PROVE  t[i] \in Elements(s) \ {s[k]}
      OBVIOUS
    <3>1. t[i] = s[up(i)] /\ up(i) \in 1 .. Len(s) /\ up(i) # k
      BY <1>1, <1>2
    <3> HIDE DEF up
    <3>2. s[up(i)] # s[k]
      BY <3>1 DEF NoTwice
    <3> QED
      BY <3>1, <3>2 DEF Elements
  <2>2. ASSUME NEW i \in 1 .. Len(s), i # k PROVE s[i] \in Elements(t)
    <3> DEFINE j == IF i < k THEN i ELSE i - 1
    <3>1. j \in 1 .. Len(s) - 1 /\ up(j) = i
      BY <1>1, <2>2
    <3> HIDE DEF j, up
    <3>2. t[j] = s[i]
      BY <1>2, <3>1
    <3> QED
      BY <1>2, <3>1, <3>2 DEF Elements
  <2> QED
    BY <2>1, <2>2 DEF Elements
<1>5. ASSUME NEW i \in Nat PROVE At(t, i) = IF i < k THEN At(s, i) ELSE At(s, i + 1)
  <2>1. CASE i \in 1 .. Len(s) - 1
    BY <1>1, <1>2, <2>1 DEF At
  <2>2. CASE i \notin 1 .. Len(s) - 1
    BY <1>1, <1>2, <2>2 DEF At
  <2> QED
    BY <2>1, <2>2
<1> QED
  BY <1>2, <1>3, <1>4, <1>5

\* Where a packet of the list is, by its neighbours.
LEMMA Neighbours ==
    ASSUME NEW s \in Seq(Objs), NoTwice(s), NEW k \in 1 .. Len(s), NEW i \in 1 .. Len(s)
    PROVE  /\ At(s, k) = s[k] /\ s[k] \in Objs /\ s[k] # NULL
           /\ s[i] = At(s, k - 1) <=> i = k - 1
           /\ s[i] = At(s, k + 1) <=> i = k + 1
           /\ s[k] = At(s, 1) <=> k = 1
           /\ s[k] = At(s, Len(s)) <=> k = Len(s)
<1>1. Len(s) \in Nat /\ \A j \in 1 .. Len(s) : s[j] \in Objs /\ At(s, j) = s[j]
  BY DEF At
<1>2. \A j \in Nat : s[i] = At(s, j) <=> i = j
  BY <1>1 DEF At, NoTwice
<1>3. \A j \in Nat : s[k] = At(s, j) <=> k = j
  BY <1>1 DEF At, NoTwice
<1>4. k - 1 \in Nat /\ k + 1 \in Nat /\ 1 \in Nat
  BY <1>1
<1> QED
  BY <1>1, <1>2, <1>3, <1>4

\* Where pHead and pTail are once hp is out.
HeadWithout(nodes, head, hp) == IF hp = head THEN nodes[hp].next ELSE head
TailWithout(nodes, tail, hp) == IF hp = tail THEN nodes[hp].last ELSE tail

\* The list without its element k is linked, and nothing else has changed.
UnlinkedWell(nodes, head, tail, s, k) ==
    LET hp == s[k]
        n == Unlinked(nodes, hp)
    IN  /\ Linked(n, HeadWithout(nodes, head, hp), TailWithout(nodes, tail, hp), Without(s, k))
        /\ DOMAIN n = DOMAIN nodes \ {hp}
        /\ \A p \in DOMAIN n : n[p].item = nodes[p].item
        /\ \A p \in DOMAIN n \ Elements(s) : Alone(nodes, p) => Alone(n, p)

LEMMA UnlinkedIsLinked ==
    ASSUME NEW nodes, NEW head, NEW tail, NEW s, Linked(nodes, head, tail, s),
           NEW k \in 1 .. Len(s)
    PROVE  UnlinkedWell(nodes, head, tail, s, k)
<1> DEFINE hp == s[k]
           n == Unlinked(nodes, hp)
           t == Without(s, k)
           D == DOMAIN nodes
           li == At(s, k - 1)
           ni == At(s, k + 1)
           nextOf(p) == IF p = li THEN ni ELSE nodes[p].next
           lastOf(p) == IF p = ni THEN li ELSE nodes[p].last
<1>1. /\ s \in Seq(Objs) /\ NoTwice(s) /\ Elements(s) \subseteq D
      /\ nodes \in [D -> Nodes] /\ D \subseteq Objs
      /\ head = At(s, 1) /\ tail = At(s, Len(s))
      /\ \A i \in 1 .. Len(s) : /\ s[i] \in D /\ nodes[s[i]].next = At(s, i + 1)
                                /\ nodes[s[i]].last = At(s, i - 1)
  BY DEF Linked, Elements
<1>2. hp \in D /\ hp \in Elements(s) /\ nodes[hp].next = ni /\ nodes[hp].last = li
  BY <1>1 DEF Elements
<1>3. n = [p \in D \ {hp} |-> [nodes[p] EXCEPT !.next = nextOf(p), !.last = lastOf(p)]]
  <2>1. n = [p \in D \ {hp} |->
           [nodes[p] EXCEPT !.next = IF p = nodes[hp].last THEN nodes[hp].next ELSE @,
                            !.last = IF p = nodes[hp].next THEN nodes[hp].last ELSE @]]
    BY DEF Unlinked
  <2> HIDE DEF li, ni, D, n
  <2> QED
    BY <1>2, <2>1
<1>4. li \in Refs /\ ni \in Refs
  BY <1>1 DEF At, Refs
<1>5. \A p \in D \ {hp} : /\ n[p] \in Nodes /\ n[p].item = nodes[p].item
                          /\ n[p].next = nextOf(p) /\ n[p].last = lastOf(p)
  <2> SUFFICES ASSUME NEW p \in D \ {hp}
               PROVE  /\ n[p] \in Nodes /\ n[p].item = nodes[p].item
                      /\ n[p].next = nextOf(p) /\ n[p].last = lastOf(p)
    OBVIOUS
  <2>1. nodes[p] \in Nodes
    BY <1>1
  <2>2. n[p] = [nodes[p] EXCEPT !.next = nextOf(p), !.last = lastOf(p)]
    BY <1>3
  <2>3. nextOf(p) \in Refs /\ lastOf(p) \in Refs
    BY <1>4, <2>1 DEF Nodes
  <2> HIDE DEF nextOf, lastOf, n
  <2> QED
    BY <2>1, <2>2, <2>3 DEF Nodes
<1>6. DOMAIN n = D \ {hp}
  BY <1>3
<1> HIDE DEF n, t, D, nextOf, lastOf, li, ni
<1>7. /\ t \in Seq(Objs) /\ Len(t) = Len(s) - 1 /\ NoTwice(t)
      /\ Elements(t) = Elements(s) \ {hp}
      /\ \A i \in Nat : At(t, i) = IF i < k THEN At(s, i) ELSE At(s, i + 1)
  <2>1. s \in Seq(Objs) /\ NoTwice(s)
    BY <1>1
  <2>2. /\ t \in Seq(Objs) /\ Len(t) = Len(s) - 1 /\ NoTwice(t)
        /\ Elements(t) = Elements(s) \ {s[k]}
        /\ \A i \in Nat : At(t, i) = IF i < k THEN At(s, i) ELSE At(s, i + 1)
    BY <2>1, WithoutProperties DEF t
  <2> QED
    BY <2>2
<1>8. Len(s) \in Nat /\ k \in Nat /\ k >= 1 /\ k <= Len(s) /\ Len(s) - 1 \in Nat
  BY <1>1
<1>9. HeadWithout(nodes, head, hp) = At(t, 1)
  <2> USE DEF HeadWithout
  <2>1. hp = head <=> k = 1
    BY <1>1, Neighbours
  <2>2. CASE k = 1
    BY <1>2, <1>7, <2>1, <2>2 DEF ni
  <2>3. CASE k # 1
    <3>1. 1 < k
      BY <1>8, <2>3
    <3> QED
      BY <1>1, <1>7, <2>1, <2>3, <3>1
  <2> QED
    BY <2>2, <2>3
<1>10. TailWithout(nodes, tail, hp) = At(t, Len(t))
  <2> USE DEF TailWithout
  <2>1. hp = tail <=> k = Len(s)
    BY <1>1, Neighbours
  <2>2. CASE k = Len(s)
    <3>1. Len(s) - 1 < k /\ Len(t) = k - 1
      BY <1>7, <1>8, <2>2
    <3> QED
      BY <1>2, <1>7, <1>8, <2>1, <2>2, <3>1 DEF li
  <2>3. CASE k # Len(s)
    <3>1. ~(Len(s) - 1 < k) /\ Len(s) - 1 + 1 = Len(s)
      BY <1>8, <2>3
    <3> QED
      BY <1>1, <1>7, <1>8, <2>1, <2>3, <3>1
  <2> QED
    BY <2>2, <2>3
<1>11. ASSUME NEW i \in 1 .. Len(s) - 1
       PROVE  n[t[i]].next = At(t, i + 1) /\ n[t[i]].last = At(t, i - 1)
  <2> DEFINE j == IF i < k THEN i ELSE i + 1
  <2>1. j \in 1 .. Len(s) /\ j # k /\ i \in Nat /\ i + 1 \in Nat /\ i - 1 \in Nat
        /\ i \in 1 .. Len(t)
    <3>1. Len(t) = Len(s) - 1
      BY <1>7
    <3> QED
      BY <1>8, <3>1
  <2>2. t[i] = s[j]
    <3>1. At(t, i) = t[i] /\ At(s, j) = s[j]
      BY <2>1 DEF At
    <3> QED
      BY <1>7, <2>1, <3>1
  <2>3. s[j] \in D \ {hp}
    BY <1>1, <2>1 DEF NoTwice
  <2>4. s[j] = li <=> j = k - 1
    BY <1>1, <2>1, Neighbours DEF li
  <2>5. s[j] = ni <=> j = k + 1
    BY <1>1, <2>1, Neighbours DEF ni
  <2>6. n[t[i]].next = IF j = k - 1 THEN At(s, k + 1) ELSE At(s, j + 1)
    BY <1>1, <1>5, <2>1, <2>2, <2>3, <2>4 DEF nextOf, ni
  <2>7. n[t[i]].last = IF j = k + 1 THEN At(s, k - 1) ELSE At(s, j - 1)
    BY <1>1, <1>5, <2>1, <2>2, <2>3, <2>5 DEF lastOf, li
  <2>8. n[t[i]].next = At(t, i + 1)
    <3>1. At(t, i + 1) = IF i + 1 < k THEN At(s, i + 1) ELSE At(s, i + 2)
      BY <1>7, <2>1
    <3>2. CASE i < k
      <4>1. j = i /\ (j = k - 1 <=> ~(i + 1 < k)) /\ (j = k - 1 => i + 2 = k + 1)
        BY <1>8, <2>1, <3>2
      <4> QED
        BY <2>6, <3>1, <4>1
    <3>3. CASE ~(i < k)
      <4>1. j = i + 1 /\ j # k - 1 /\ ~(i + 1 < k) /\ j + 1 = i + 2
        BY <1>8, <2>1, <3>3
      <4> QED
        BY <2>6, <3>1, <4>1
    <3> QED
      BY <3>2, <3>3
  <2>9. n[t[i]].last = At(t, i - 1)
    <3>1. At(t, i - 1) = IF i - 1 < k THEN At(s, i - 1) ELSE At(s, i)
      <4>1. i - 1 + 1 = i
        BY <2>1
      <4> QED
        BY <1>7, <2>1, <4>1
    <3>2. CASE i < k
      <4>1. j = i /\ j # k + 1 /\ i - 1 < k
        BY <1>8, <2>1, <3>2
      <4> QED
        BY <2>7, <3>1, <4>1
    <3>3. CASE ~(i < k)
      <4>1. j = i + 1 /\ (j = k + 1 <=> i - 1 < k) /\ j - 1 = i
            /\ (j = k + 1 => i - 1 = k - 1)
        BY <1>8, <2>1, <3>3
      <4> QED
        BY <2>7, <3>1, <4>1
    <3> QED
      BY <3>2, <3>3
  <2> QED
    BY <2>8, <2>9
<1>12. Linked(n, HeadWithout(nodes, head, hp), TailWithout(nodes, tail, hp), t)
  <2>1. n \in [DOMAIN n -> Nodes]
    <3>1. n = [p \in D \ {hp} |-> n[p]]
      BY <1>3 DEF n
    <3> QED
      BY <1>5, <3>1
  <2>2. Elements(t) \subseteq DOMAIN n /\ DOMAIN n \subseteq Objs
    BY <1>1, <1>6, <1>7
  <2> QED
    BY <1>7, <1>9, <1>10, <1>11, <2>1, <2>2 DEF Linked
<1>13. ASSUME NEW p \in DOMAIN n \ Elements(s), Alone(nodes, p) PROVE Alone(n, p)
  <2>1. p \in D \ {hp} /\ p # NULL
    BY <1>1, <1>6, <1>13
  <2>2. p # li /\ p # ni
    BY <1>1, <1>13, <2>1 DEF li, ni, At, Elements
  <2> QED
    BY <1>5, <1>13, <2>1, <2>2 DEF Alone, nextOf, lastOf
<1> QED
  BY <1>5, <1>6, <1>12, <1>13 DEF n, t, D, UnlinkedWell

------------------------------------------------------------------------------
\* Putting a packet into the list.

LEMMA ArrivedIsAlone ==
    ASSUME NEW s, Linked(node, pHead, pTail, s), NEW o \in Objs \ DOMAIN node,
           NEW item \in Items, Arrives(o, item)
    PROVE  /\ Linked(node', pHead, pTail, s)
           /\ DOMAIN node' = DOMAIN node \cup {o} /\ o \notin Elements(s)
           /\ Alone(node', o) /\ node'[o].item = item
           /\ \A p \in DOMAIN node : node'[p] = node[p]
<1> DEFINE new == [item |-> item, next |-> NULL, last |-> NULL]
<1>1. node' = [p \in DOMAIN node \cup {o} |-> IF p = o THEN new ELSE node[p]]
  BY DEF Arrives
<1>2. new \in Nodes
  BY DEF Nodes, Refs
<1>3. /\ DOMAIN node' = DOMAIN node \cup {o} /\ node'[o] = new
      /\ \A p \in DOMAIN node : node'[p] = node[p]
  BY <1>1
<1>4. new.item = item /\ new.next = NULL /\ new.last = NULL
  OBVIOUS
<1> HIDE DEF new
<1>5. /\ s \in Seq(Objs) /\ NoTwice(s) /\ Elements(s) \subseteq DOMAIN node
      /\ node \in [DOMAIN node -> Nodes] /\ DOMAIN node \subseteq Objs
  BY DEF Linked
<1>6. node' \in [DOMAIN node' -> Nodes]
  <2>1. \A p \in DOMAIN node' : node'[p] \in Nodes
    BY <1>2, <1>3, <1>5
  <2>2. node' = [p \in DOMAIN node' |-> node'[p]]
    BY <1>1
  <2> QED
    BY <2>1, <2>2
<1>7. \A i \in 1 .. Len(s) : s[i] \in DOMAIN node
  BY <1>5 DEF Elements
<1>8. Linked(node', pHead, pTail, s)
  BY <1>3, <1>5, <1>6, <1>7 DEF Linked
<1> QED
  BY <1>3, <1>4, <1>5, <1>8 DEF Alone

\* o behind tail, as at the end of AddHistoryItem.
Behind(nodes, tail, s, o) ==
    IF Len(s) = 0 THEN nodes ELSE [nodes EXCEPT ![tail].next = o, ![o].last = tail]

AppendedWell(nodes, head, tail, s, o) ==
    LET n == Behind(nodes, tail, s, o)
    IN  /\ Linked(n, IF Len(s) = 0 THEN o ELSE head, o, Append(s, o))
        /\ DOMAIN n = DOMAIN nodes
        /\ \A p \in DOMAIN nodes : n[p].item = nodes[p].item

LEMMA AppendedIsLinked ==
    ASSUME NEW nodes, NEW head, NEW tail, NEW s, Linked(nodes, head, tail, s),
           NEW o \in DOMAIN nodes \ Elements(s), Alone(nodes, o)
    PROVE  AppendedWell(nodes, head, tail, s, o)
<1> DEFINE n == IF Len(s) = 0 THEN nodes
                ELSE [nodes EXCEPT ![tail].next = o, ![o].last = tail]
           t == Append(s, o)
           N == Len(s)
<1>1. /\ s \in Seq(Objs) /\ NoTwice(s) /\ Elements(s) \subseteq DOMAIN nodes
      /\ nodes \in [DOMAIN nodes -> Nodes] /\ DOMAIN nodes \subseteq Objs
      /\ head = At(s, 1) /\ tail = At(s, N) /\ o \in Objs /\ N \in Nat
      /\ \A i \in 1 .. N : /\ nodes[s[i]].next = At(s, i + 1)
                           /\ nodes[s[i]].last = At(s, i - 1)
  BY DEF Linked
<1>2. /\ t \in Seq(Objs) /\ Len(t) = N + 1 /\ t[N + 1] = o
      /\ \A i \in 1 .. N : t[i] = s[i]
      /\ NoTwice(t) /\ Elements(t) = Elements(s) \cup {o}
  BY <1>1, AppendElements, AppendProperties
<1>3. \A i \in 1 .. N : s[i] \in DOMAIN nodes /\ s[i] # o
  BY <1>1 DEF Elements
<1>4. nodes[o].next = NULL /\ nodes[o].last = NULL /\ nodes[o] \in Nodes
  BY <1>1 DEF Alone
<1>5. N # 0 => tail = s[N] /\ tail \in DOMAIN nodes /\ tail # o
  BY <1>1, <1>3 DEF At
<1> HIDE DEF t
<1>6. /\ DOMAIN n = DOMAIN nodes
      /\ \A p \in DOMAIN nodes :
           /\ n[p] \in Nodes /\ n[p].item = nodes[p].item
           /\ n[p].next = IF N # 0 /\ p = tail THEN o ELSE nodes[p].next
           /\ n[p].last = IF N # 0 /\ p = o THEN tail ELSE nodes[p].last
  <2>1. CASE N = 0
    BY <1>1, <2>1
  <2>2. CASE N # 0
    <3>1. n = [nodes EXCEPT ![tail].next = o, ![o].last = tail]
      BY <2>2
    <3>2. DOMAIN n = DOMAIN nodes
      BY <3>1
    <3>3. o \in Refs /\ tail \in Refs
      BY <1>1, <1>5, <2>2 DEF Refs
    <3>4. ASSUME NEW p \in DOMAIN nodes
          PROVE  /\ n[p] \in Nodes /\ n[p].item = nodes[p].item
                 /\ n[p].next = IF p = tail THEN o ELSE nodes[p].next
                 /\ n[p].last = IF p = o THEN tail ELSE nodes[p].last
      <4>1. nodes[p] \in Nodes
        BY <1>1
      <4>2. n[p] = IF p = tail THEN [nodes[p] EXCEPT !.next = o]
                   ELSE IF p = o THEN [nodes[p] EXCEPT !.last = tail]
                   ELSE nodes[p]
        BY <1>5, <2>2, <3>1
      <4> HIDE DEF n
      <4>3. CASE p = tail
        BY <1>5, <2>2, <3>3, <4>1, <4>2, <4>3 DEF Nodes
      <4>4. CASE p # tail
        BY <3>3, <4>1, <4>2, <4>4 DEF Nodes
      <4> QED
        BY <4>3, <4>4
    <3> HIDE DEF n
    <3> QED
      BY <2>2, <3>2, <3>4
  <2> QED
    BY <2>1, <2>2
<1>7. n \in [DOMAIN n -> Nodes]
  <2>1. n = [p \in DOMAIN nodes |-> n[p]]
    <3>1. CASE N = 0
      BY <1>1, <3>1
    <3>2. CASE N # 0
      BY <1>1, <3>2
    <3> QED
      BY <3>1, <3>2
  <2> HIDE DEF n
  <2> QED
    BY <1>6, <2>1
<1> HIDE DEF n
<1>8. \A i \in 1 .. N + 1 : At(t, i) = t[i] /\ (i \in 1 .. N => At(t, i) = At(s, i))
  BY <1>1, <1>2 DEF At
<1>9. At(t, N + 2) = NULL /\ At(t, 0) = NULL /\ At(s, N + 1) = NULL /\ At(s, 0) = NULL
  BY <1>1, <1>2 DEF At
<1>10. (IF N = 0 THEN o ELSE head) = At(t, 1) /\ o = At(t, Len(t))
  <2>1. N # 0 => 1 \in 1 .. N
    BY <1>1
  <2>2. 1 \in 1 .. N + 1 /\ N + 1 \in 1 .. N + 1
    BY <1>1
  <2> QED
    BY <1>1, <1>2, <1>8, <2>1, <2>2
<1>11. ASSUME NEW i \in 1 .. N + 1
       PROVE  n[t[i]].next = At(t, i + 1) /\ n[t[i]].last = At(t, i - 1)
  <2>1. CASE i = N + 1
    <3>1. t[i] = o /\ i + 1 = N + 2 /\ i - 1 = N
      BY <1>1, <1>2, <2>1
    <3>2. n[o].next = NULL
      BY <1>4, <1>5, <1>6
    <3>3. n[o].last = At(t, N)
      <4>1. CASE N = 0
        BY <1>4, <1>6, <1>9, <4>1
      <4>2. CASE N # 0
        <5>1. N \in 1 .. N
          BY <1>1, <4>2
        <5> QED
          BY <1>1, <1>6, <1>8, <4>2, <5>1
      <4> QED
        BY <4>1, <4>2
    <3> QED
      BY <1>9, <3>1, <3>2, <3>3
  <2>2. CASE i \in 1 .. N
    <3>1. /\ t[i] = s[i] /\ s[i] \in DOMAIN nodes /\ s[i] # o
          /\ nodes[s[i]].next = At(s, i + 1) /\ nodes[s[i]].last = At(s, i - 1)
          /\ N # 0 /\ N \in 1 .. N
      BY <1>1, <1>2, <1>3, <2>2
    <3>2. s[i] = tail <=> i = N
      BY <1>1, <1>5, <2>2, <3>1 DEF NoTwice
    <3>3. n[s[i]].last = At(t, i - 1)
      <4>1. i - 1 = 0 \/ (i - 1 \in 1 .. N /\ i - 1 \in 1 .. N + 1)
        BY <1>1, <2>2
      <4> QED
        BY <1>6, <1>8, <1>9, <3>1, <4>1
    <3>4. n[s[i]].next = At(t, i + 1)
      <4>1. CASE i = N
        <5>1. N + 1 \in 1 .. N + 1
          BY <1>1
        <5> QED
          BY <1>2, <1>6, <1>8, <3>1, <3>2, <4>1, <5>1
      <4>2. CASE i # N
        <5>1. i + 1 \in 1 .. N /\ i + 1 \in 1 .. N + 1
          BY <1>1, <2>2, <4>2
        <5> QED
          BY <1>6, <1>8, <3>1, <3>2, <4>2, <5>1
      <4> QED
        BY <4>1, <4>2
    <3> QED
      BY <3>1, <3>3, <3>4
  <2> QED
    BY <1>1, <2>1, <2>2
<1>12. Linked(n, IF N = 0 THEN o ELSE head, o, t)
  <2>1. Elements(t) \subseteq DOMAIN n
    BY <1>1, <1>2, <1>6
  <2> QED
    BY <1>1, <1>2, <1>6, <1>7, <1>10, <1>11, <2>1 DEF Linked
<1> QED
  BY <1>6, <1>12 DEF n, t, AppendedWell, Behind

------------------------------------------------------------------------------
\* The loops of DeleteItem and DeleteOldItems.

\* What DeleteItem and DeleteOldItems leave in the list.
Others(l, item) ==
    IF Len(l) <= 1 THEN ToSet(l) ELSE {e \in ToSet(l) : ~H!SameKey(e, item)}
Living(l) == {e \in ToSet(l) : e.ttl > 0}

\* The loop has seen the first m elements of l, and kept done.
Walked(nodes, l, hp, s, done, m) ==
    /\ Len(s) = Len(done) + Len(l) - m
    /\ \A i \in 1 .. Len(done) : nodes[s[i]].item = done[i]
    /\ \A i \in 1 .. Len(l) - m : nodes[s[Len(done) + i]].item = l[m + i]
    /\ hp = At(s, Len(done) + 1)

\* The loop keeps what is in S of the elements of new; it has come to hp.
Loop(nodes, l, hp, s, new, S) ==
    \E kept \in [0 .. Len(new) -> Seq(Items)] :
       /\ KeepingLoop(kept, new, S)
       /\ \E m \in 0 .. Len(new) : Walked(nodes, l, hp, s, kept[m], m)

LEMMA WalkedPlace ==
    ASSUME NEW s \in Seq(Objs), NEW l \in Seq(Items), NEW done \in Seq(Items),
           NEW m \in 0 .. Len(l), NEW nodes, NEW hp, Walked(nodes, l, hp, s, done, m)
    PROVE  /\ hp = NULL => m = Len(l) /\ Len(s) = Len(done)
           /\ hp # NULL => /\ m + 1 \in 1 .. Len(l) /\ Len(done) + 1 \in 1 .. Len(s)
                           /\ hp = s[Len(done) + 1] /\ nodes[hp].item = l[m + 1]
<1> DEFINE k == Len(done)
<1>1. /\ k \in Nat /\ Len(s) \in Nat /\ Len(l) \in Nat /\ Len(s) = k + Len(l) - m
      /\ \A i \in 1 .. Len(s) : s[i] \in Objs
  BY DEF Walked
<1>2. hp = IF k + 1 \in 1 .. Len(s) THEN s[k + 1] ELSE NULL
  BY DEF Walked, At
<1>3. k + 1 \in 1 .. Len(s) <=> m # Len(l)
  BY <1>1
<1>4. m # Len(l) => nodes[s[k + 1]].item = l[m + 1]
  <2>1. m # Len(l) => 1 \in 1 .. Len(l) - m
    BY <1>1
  <2> QED
    BY <2>1 DEF Walked
<1> QED
  BY <1>1, <1>2, <1>3, <1>4

LEMMA WalkedKeeping ==
    ASSUME NEW s \in Seq(Objs), NoTwice(s), NEW l \in Seq(Items), NEW done \in Seq(Items),
           NEW m \in 0 .. Len(l), NEW nodes, NEW hp, hp # NULL,
           Walked(nodes, l, hp, s, done, m),
           NEW n, \A p \in Elements(s) \ {hp} : n[p].item = nodes[p].item,
           n[hp].item \in Items
    PROVE  Walked(n, l, At(s, Len(done) + 2), s, Append(done, n[hp].item), m + 1)
<1> DEFINE k == Len(done)
           e == n[hp].item
           d == Append(done, e)
<1>1. /\ k \in Nat /\ Len(s) \in Nat /\ Len(l) \in Nat /\ Len(s) = k + Len(l) - m
      /\ m + 1 \in 1 .. Len(l) /\ k + 1 \in 1 .. Len(s) /\ hp = s[k + 1]
  <2>1. k \in Nat /\ Len(s) \in Nat /\ Len(l) \in Nat /\ Len(s) = k + Len(l) - m
    BY DEF Walked
  <2>2. m + 1 \in 1 .. Len(l) /\ k + 1 \in 1 .. Len(s) /\ hp = s[k + 1]
    BY WalkedPlace
  <2> QED
    BY <2>1, <2>2
<1>2. Len(d) = k + 1 /\ d[k + 1] = e /\ \A i \in 1 .. k : d[i] = done[i]
  BY AppendProperties
<1>3. \A i \in 1 .. Len(s) : i # k + 1 => n[s[i]].item = nodes[s[i]].item
  BY <1>1 DEF NoTwice, Elements
<1> HIDE DEF d
<1>4. \A i \in 1 .. k + 1 : n[s[i]].item = d[i]
  <2>1. ASSUME NEW i \in 1 .. k + 1, i # k + 1 PROVE n[s[i]].item = d[i]
    <3>1. i \in 1 .. k /\ i \in 1 .. Len(s)
      BY <1>1, <2>1
    <3> QED
      BY <1>2, <1>3, <2>1, <3>1 DEF Walked
  <2> QED
    BY <1>1, <1>2, <2>1
<1>5. ASSUME NEW i \in 1 .. Len(l) - (m + 1) PROVE n[s[k + 1 + i]].item = l[m + 1 + i]
  <2>1. i + 1 \in 1 .. Len(l) - m /\ k + (i + 1) = k + 1 + i /\ m + (i + 1) = m + 1 + i
        /\ k + 1 + i \in 1 .. Len(s) /\ k + 1 + i # k + 1
    BY <1>1
  <2>2. nodes[s[k + (i + 1)]].item = l[m + (i + 1)]
    BY <2>1 DEF Walked
  <2> QED
    BY <1>3, <2>1, <2>2
<1>6. Len(s) = k + 1 + Len(l) - (m + 1) /\ k + 1 + 1 = k + 2
  BY <1>1
<1> QED
  BY <1>2, <1>4, <1>5, <1>6 DEF Walked, d

LEMMA WalkedDropping ==
    ASSUME NEW s \in Seq(Objs), NoTwice(s), NEW l \in Seq(Items), NEW done \in Seq(Items),
           NEW m \in 0 .. Len(l), NEW nodes, NEW hp, hp # NULL,
           Walked(nodes, l, hp, s, done, m),
           NEW n, \A p \in Elements(s) \ {hp} : n[p].item = nodes[p].item,
           NEW t, t = Without(s, Len(done) + 1)
    PROVE  Walked(n, l, At(s, Len(done) + 2), t, done, m + 1)
<1> DEFINE k == Len(done)
<1>1. /\ k \in Nat /\ Len(s) \in Nat /\ Len(l) \in Nat /\ Len(s) = k + Len(l) - m
      /\ m + 1 \in 1 .. Len(l) /\ k + 1 \in 1 .. Len(s) /\ hp = s[k + 1]
  <2>1. k \in Nat /\ Len(s) \in Nat /\ Len(l) \in Nat /\ Len(s) = k + Len(l) - m
    BY DEF Walked
  <2>2. m + 1 \in 1 .. Len(l) /\ k + 1 \in 1 .. Len(s) /\ hp = s[k + 1]
    BY WalkedPlace
  <2> QED
    BY <2>1, <2>2
<1>2. /\ Len(t) = Len(s) - 1
      /\ At(t, k + 1) = At(s, k + 2)
  <2>1. ~(k + 1 < k + 1) /\ k + 1 + 1 = k + 2 /\ k + 1 \in Nat
    BY <1>1
  <2> QED
    <3>1. /\ Len(t) = Len(s) - 1
          /\ \A i \in Nat : At(t, i) = IF i < k + 1 THEN At(s, i) ELSE At(s, i + 1)
      <4> DEFINE kk == k + 1
      <4>1. kk \in 1 .. Len(s) /\ t = Without(s, kk)
        BY <1>1
      <4> HIDE DEF kk
      <4>2. /\ Len(t) = Len(s) - 1
            /\ \A i \in Nat : At(t, i) = IF i < kk THEN At(s, i) ELSE At(s, i + 1)
        BY <4>1, WithoutProperties
      <4> QED
        BY <4>2 DEF kk
    <3> QED
      BY <2>1, <3>1
<1>3. \A i \in 1 .. Len(s) - 1 : t[i] = IF i < k + 1 THEN s[i] ELSE s[i + 1]
  BY <1>1 DEF Without
<1>4. \A i \in 1 .. Len(s) : i # k + 1 => n[s[i]].item = nodes[s[i]].item
  BY <1>1 DEF NoTwice, Elements
<1>5. ASSUME NEW i \in 1 .. k PROVE n[t[i]].item = done[i]
  <2>1. i \in 1 .. Len(s) - 1 /\ i < k + 1 /\ i # k + 1 /\ i \in 1 .. Len(s)
    BY <1>1
  <2> QED
    BY <1>3, <1>4, <2>1 DEF Walked
<1>6. ASSUME NEW i \in 1 .. Len(l) - (m + 1) PROVE n[t[k + i]].item = l[m + 1 + i]
  <2>1. i + 1 \in 1 .. Len(l) - m /\ k + (i + 1) = k + i + 1 /\ m + (i + 1) = m + 1 + i
        /\ k + i + 1 \in 1 .. Len(s) /\ k + i + 1 # k + 1
        /\ k + i \in 1 .. Len(s) - 1 /\ ~(k + i < k + 1)
    BY <1>1
  <2>2. nodes[s[k + (i + 1)]].item = l[m + (i + 1)]
    BY <2>1 DEF Walked
  <2> QED
    BY <1>3, <1>4, <2>1, <2>2
<1>7. Len(t) = k + Len(l) - (m + 1)
  BY <1>1, <1>2
<1> QED
  BY <1>2, <1>5, <1>6, <1>7 DEF Walked

Calls == [by : {"nobody", "add", "age"}, ref : Refs, hp : Refs]

\* One turn: the packet hp, which new shows as the loop changed it, stays if it
\* is in S.
Turn(nodes, S) ==
    /\ IF nodes[call.hp].item \in S
       THEN node' = nodes /\ UNCHANGED <<pHead, pTail, ItemCount>>
       ELSE DeleteHistoryItem(nodes, call.hp)
    /\ Advance
    /\ before' = before

TurnDone(s, kept, m) ==
    /\ HeapInv(s)'
    /\ Walked(node', before', call'.hp, s, kept[m], m)
    /\ call'.by = call.by /\ call'.ref = call.ref /\ call' \in Calls
    /\ call.ref # NULL => node'[call.ref].item = node[call.ref].item
    /\ Len(s) <= ItemCount

LEMMA TurnGoesOn ==
    ASSUME NEW s \in Seq(Objs), HeapInv(s), call \in Calls, call.hp # NULL,
           before \in Seq(Items),
           NEW new \in Seq(Items), Len(new) = Len(before),
           NEW S, NEW kept \in [0 .. Len(new) -> Seq(Items)], KeepingLoop(kept, new, S),
           NEW m \in 0 .. Len(new), Walked(node, before, call.hp, s, kept[m], m),
           NEW nodes \in [DOMAIN node -> Nodes],
           \A p \in DOMAIN node : /\ nodes[p].next = node[p].next
                                  /\ nodes[p].last = node[p].last
                                  /\ p # call.hp => nodes[p].item = node[p].item,
           nodes[call.hp].item = new[m + 1],
           Turn(nodes, S)
    PROVE  m + 1 \in 0 .. Len(new) /\ \E t \in Seq(Objs) : TurnDone(t, kept, m + 1)
<1> DEFINE k == Len(kept[m])
           hp == call.hp
<1>1. /\ NoTwice(s) /\ Elements(s) \subseteq DOMAIN node /\ DOMAIN node \subseteq Objs
      /\ Linked(node, pHead, pTail, s) /\ call.ref \in Refs \ Elements(s)
      /\ DOMAIN node = Elements(s) \cup ({call.ref} \ {NULL})
      /\ call.ref # NULL => Alone(node, call.ref)
      /\ ItemCount = Len(s) /\ Len(s) \in Nat
      /\ Len(s) + (IF call.ref = NULL THEN 0 ELSE 1) <= MaxItems
  BY DEF HeapInv, Linked
<1>2. kept[m] \in Seq(Items) /\ k \in Nat
  <2>1. kept[m] \in Seq(Items)
    OBVIOUS
  <2> QED
    BY <2>1
<1>3. /\ m + 1 \in 1 .. Len(before) /\ k + 1 \in 1 .. Len(s) /\ hp = s[k + 1]
      /\ hp \in Elements(s) /\ hp \in DOMAIN node
  <2>1. m + 1 \in 1 .. Len(before) /\ k + 1 \in 1 .. Len(s) /\ hp = s[k + 1]
    <3> HIDE DEF k, hp
    <3>1. m \in 0 .. Len(before) /\ hp # NULL /\ Walked(node, before, hp, s, kept[m], m)
      BY DEF hp
    <3> QED
      BY <1>2, <3>1, WalkedPlace DEF k
  <2> QED
    BY <1>1, <2>1 DEF Elements
<1>4. node[hp].next = At(s, k + 2)
  <2>1. k + 1 + 1 = k + 2
    BY <1>2
  <2> QED
    BY <1>1, <1>3, <2>1 DEF Linked
<1>5. /\ call' = [call EXCEPT !.hp = At(s, k + 2)] /\ call' \in Calls
      /\ call'.hp = At(s, k + 2) /\ call'.by = call.by /\ call'.ref = call.ref
  <2>1. call' = [call EXCEPT !.hp = At(s, k + 2)]
    BY <1>4 DEF Turn, Advance
  <2>2. At(s, k + 2) \in Refs
    BY DEF At, Refs
  <2> HIDE DEF k
  <2> QED
    BY <2>1, <2>2 DEF Calls
<1>6. m + 1 \in 1 .. Len(new) /\ new[m + 1] \in Items
  BY <1>3
<1>7. kept[m + 1] = IF new[m + 1] \in S THEN Append(kept[m], new[m + 1]) ELSE kept[m]
  <2>1. m + 1 - 1 = m
    OBVIOUS
  <2> QED
    BY <1>6, <2>1 DEF KeepingLoop
<1>8. Linked(nodes, pHead, pTail, s)
  <2>1. DOMAIN nodes = DOMAIN node /\ \A i \in 1 .. Len(s) : s[i] \in DOMAIN node
    BY <1>1 DEF Elements
  <2> QED
    BY <1>1, <2>1 DEF Linked
<1>9. call.ref # NULL => /\ call.ref \in DOMAIN node /\ call.ref # hp
                         /\ Alone(nodes, call.ref)
                         /\ nodes[call.ref].item = node[call.ref].item
  <2> SUFFICES ASSUME call.ref # NULL
               PROVE  /\ call.ref \in DOMAIN node /\ call.ref # hp
                      /\ Alone(nodes, call.ref)
                      /\ nodes[call.ref].item = node[call.ref].item
    OBVIOUS
  <2>1. call.ref \in DOMAIN node /\ call.ref # hp
    BY <1>1, <1>3
  <2> HIDE DEF hp
  <2> QED
    BY <1>1, <2>1 DEF Alone, hp
<1>10. before' = before
  BY DEF Turn
<1> HIDE DEF k
<1>11. CASE nodes[hp].item \in S
  <2>1. node' = nodes /\ pHead' = pHead /\ pTail' = pTail /\ ItemCount' = ItemCount
    BY <1>11 DEF Turn
  <2>2. Walked(nodes, before, At(s, k + 2), s, Append(kept[m], nodes[hp].item), m + 1)
    <3> DEFINE done == kept[m]
    <3>1. /\ m \in 0 .. Len(before) /\ hp # NULL /\ done \in Seq(Items)
          /\ Walked(node, before, hp, s, done, m)
          /\ \A p \in Elements(s) \ {hp} : nodes[p].item = node[p].item
          /\ nodes[hp].item \in Items
      BY <1>1, <1>2, <1>6
    <3>2. NoTwice(s)
      BY <1>1
    <3> HIDE DEF hp, done
    <3>3. Walked(nodes, before, At(s, Len(done) + 2), s, Append(done, nodes[hp].item), m + 1)
      BY <3>1, <3>2, WalkedKeeping
    <3> QED
      BY <3>3 DEF k, done
  <2>3. Walked(node', before', call'.hp, s, kept[m + 1], m + 1)
    BY <1>5, <1>7, <1>10, <1>11, <2>1, <2>2
  <2>4. HeapInv(s)'
    <3>1. DOMAIN nodes = DOMAIN node
      OBVIOUS
    <3>2. Linked(node', pHead', pTail', s)
      BY <1>8, <2>1
    <3>3. DOMAIN node' = Elements(s) \cup ({call'.ref} \ {NULL})
      BY <1>1, <1>5, <2>1, <3>1
    <3>4. call'.ref # NULL => Alone(node', call'.ref)
      BY <1>5, <1>9, <2>1
    <3> QED
      BY <1>1, <1>5, <2>1, <3>2, <3>3, <3>4 DEF HeapInv
  <2>5. TurnDone(s, kept, m + 1)
    BY <1>1, <1>5, <1>9, <2>1, <2>3, <2>4 DEF TurnDone
  <2> QED
    BY <1>6, <2>5
<1>12. CASE nodes[hp].item \notin S
  <2> DEFINE t == Without(s, k + 1)
             n == Unlinked(nodes, hp)
  <2>1. /\ node' = n /\ ItemCount' = ItemCount - 1
        /\ pHead' = HeadWithout(nodes, pHead, hp)
        /\ pTail' = TailWithout(nodes, pTail, hp)
    BY <1>12 DEF Turn, DeleteHistoryItem, HeadWithout, TailWithout
  <2>2. /\ Linked(n, HeadWithout(nodes, pHead, hp), TailWithout(nodes, pTail, hp), t)
        /\ DOMAIN n = DOMAIN nodes \ {hp}
        /\ \A p \in DOMAIN n : n[p].item = nodes[p].item
        /\ \A p \in DOMAIN n \ Elements(s) : Alone(nodes, p) => Alone(n, p)
    <3>1. k + 1 \in 1 .. Len(s)
      BY <1>3
    <3>2. UnlinkedWell(nodes, pHead, pTail, s, k + 1)
      BY <1>8, <3>1, UnlinkedIsLinked
    <3> QED
      BY <1>3, <3>2 DEF UnlinkedWell
  <2>3. /\ t \in Seq(Objs) /\ Len(t) = Len(s) - 1
        /\ Elements(t) = Elements(s) \ {hp}
    <3>1. NoTwice(s) /\ k + 1 \in 1 .. Len(s)
      BY <1>1, <1>3
    <3> HIDE DEF t
    <3>2. /\ t \in Seq(Objs) /\ Len(t) = Len(s) - 1
          /\ Elements(t) = Elements(s) \ {s[k + 1]}
      BY <3>1, WithoutProperties DEF t
    <3> QED
      BY <1>3, <3>2
  <2> HIDE DEF n, t
  <2>4. DOMAIN n = DOMAIN node \ {hp}
    BY <2>2
  <2>5. Walked(n, before, At(s, k + 2), t, kept[m], m + 1)
    <3>1. /\ m \in 0 .. Len(before) /\ hp # NULL
          /\ Walked(node, before, hp, s, kept[m], m)
          /\ \A p \in Elements(s) \ {hp} : n[p].item = node[p].item
      BY <1>1, <2>2, <2>4
    <3> HIDE DEF hp
    <3> QED
      BY <1>1, <1>2, <3>1, WalkedDropping DEF k, t
  <2>6. Walked(node', before', call'.hp, t, kept[m + 1], m + 1)
    BY <1>5, <1>7, <1>10, <1>12, <2>1, <2>5
  <2>7. call.ref # NULL => Alone(n, call.ref) /\ n[call.ref].item = node[call.ref].item
    BY <1>1, <1>9, <2>2, <2>4
  <2>8. HeapInv(t)'
    <3>1. Linked(node', pHead', pTail', t)
      BY <2>1, <2>2
    <3>2. call'.ref \in Refs \ Elements(t)
      BY <1>1, <1>5, <2>3
    <3>3. DOMAIN node' = Elements(t) \cup ({call'.ref} \ {NULL})
      BY <1>1, <1>3, <1>5, <1>9, <2>1, <2>3, <2>4
    <3>4. call'.ref # NULL => Alone(node', call'.ref)
      BY <1>5, <2>1, <2>7
    <3>5. ItemCount' = Len(t) /\ Len(t) + (IF call'.ref = NULL THEN 0 ELSE 1) <= MaxItems
      BY <1>1, <1>5, <2>1, <2>3
    <3> QED
      BY <3>1, <3>2, <3>3, <3>4, <3>5 DEF HeapInv
  <2>9. TurnDone(t, kept, m + 1)
    BY <1>1, <1>5, <2>1, <2>3, <2>6, <2>7, <2>8 DEF TurnDone
  <2> QED
    BY <1>6, <2>3, <2>9
<1> QED
  BY <1>11, <1>12

LEMMA LoopBegins ==
    ASSUME NEW s \in Seq(Objs), NEW nodes, NEW l \in Seq(Items), l = ItemsOf(nodes, s),
           NEW new \in Seq(Items), Len(new) = Len(l), NEW S
    PROVE  Loop(nodes, l, At(s, 1), s, new, S)
<1>1. PICK kept \in [0 .. Len(new) -> Seq(Items)] : KeepingLoop(kept, new, S)
  BY KeepingUnrolled
<1>2. /\ Len(l) = Len(s) /\ Len(s) \in Nat
      /\ \A i \in 1 .. Len(s) : l[i] = nodes[s[i]].item
  BY DEF ItemsOf
<1>3. kept[0] = <<>>
  BY <1>1 DEF KeepingLoop
<1>4. Walked(nodes, l, At(s, 1), s, <<>>, 0)
  <2>1. Len(<<>>) = 0 /\ Len(s) = 0 + Len(l) - 0 /\ 0 + 1 = 1
    BY <1>2
  <2>2. \A i \in 1 .. Len(<<>>) : nodes[s[i]].item = (<<>>)[i]
    BY <2>1
  <2>3. \A i \in 1 .. Len(l) - 0 : nodes[s[0 + i]].item = l[0 + i]
    BY <1>2
  <2> QED
    BY <2>1, <2>2, <2>3 DEF Walked
<1>5. 0 \in 0 .. Len(new)
  BY <1>2
<1> QED
  BY <1>1, <1>3, <1>4, <1>5 DEF Loop

LEMMA ShortListIsKept ==
    ASSUME NEW l \in Seq(Items), Len(l) <= 1, NEW S, Elements(l) \subseteq S,
           NEW kept \in [0 .. Len(l) -> Seq(Items)], KeepingLoop(kept, l, S)
    PROVE  kept[Len(l)] = l
<1>1. CASE Len(l) = 0
  <2>1. kept[0] = <<>> /\ l = <<>>
    BY <1>1 DEF KeepingLoop
  <2> QED
    BY <1>1, <2>1
<1>2. CASE Len(l) = 1
  <2>1. l[1] \in S /\ 1 \in 1 .. Len(l) /\ 1 - 1 = 0 /\ l[1] \in Items
    <3>1. 1 \in 1 .. Len(l) /\ 1 - 1 = 0
      BY <1>2
    <3>2. l[1] \in Elements(l)
      BY <3>1 DEF Elements
    <3>3. l[1] \in Items
      BY <3>1
    <3> QED
      BY <3>1, <3>2, <3>3
  <2>2. kept[1] = Append(kept[0], l[1]) /\ kept[0] = <<>>
    BY <2>1 DEF KeepingLoop
  <2>3. l = Append(<<>>, l[1])
    BY <1>2, <2>1
  <2> QED
    BY <1>2, <2>2, <2>3
<1> QED
  BY <1>1, <1>2

\* DeleteItem returns at once from a list of one: its loop is at the end.
LEMMA LoopOfOne ==
    ASSUME NEW s \in Seq(Objs), NEW nodes, NEW l \in Seq(Items), l = ItemsOf(nodes, s),
           Len(l) <= 1, NEW item
    PROVE  Loop(nodes, l, NULL, s, l, Others(l, item))
<1> DEFINE S == Others(l, item)
<1>1. PICK kept \in [0 .. Len(l) -> Seq(Items)] : KeepingLoop(kept, l, S)
  BY KeepingUnrolled
<1>2. /\ Len(l) = Len(s) /\ Len(s) \in Nat
      /\ \A i \in 1 .. Len(s) : l[i] = nodes[s[i]].item
  BY DEF ItemsOf
<1>3. Elements(l) \subseteq S
  <2>1. DOMAIN l = 1 .. Len(l)
    OBVIOUS
  <2> QED
    BY <2>1 DEF Others, ToSet, Elements
<1>4. kept[Len(l)] = l
  BY <1>1, <1>3, ShortListIsKept
<1>5. Walked(nodes, l, NULL, s, l, Len(l))
  BY <1>2 DEF Walked, At
<1>6. Len(l) \in 0 .. Len(l)
  BY <1>2
<1> QED
  BY <1>1, <1>4, <1>5, <1>6 DEF Loop

LEMMA LoopEnds ==
    ASSUME NEW s \in Seq(Objs), NEW nodes, NEW l \in Seq(Items),
           NEW new \in Seq(Items), Len(new) = Len(l), NEW S,
           Loop(nodes, l, NULL, s, new, S)
    PROVE  ItemsOf(nodes, s) = Keeping(new, S)
<1>1. PICK kept \in [0 .. Len(new) -> Seq(Items)] :
        /\ KeepingLoop(kept, new, S)
        /\ \E m \in 0 .. Len(new) : Walked(nodes, l, NULL, s, kept[m], m)
  BY DEF Loop
<1>2. PICK m \in 0 .. Len(new) : Walked(nodes, l, NULL, s, kept[m], m)
  BY <1>1
<1> DEFINE done == kept[m]
<1>3. done \in Seq(Items) /\ m \in 0 .. Len(l)
  BY <1>2
<1> HIDE DEF done
<1>4. m = Len(l) /\ Len(s) = Len(done)
  <2>1. Walked(nodes, l, NULL, s, done, m)
    BY <1>2 DEF done
  <2> QED
    BY <1>3, <2>1, WalkedPlace
<1>5. Keeping(new, S) = done
  BY <1>1, <1>4 DEF KeepingLoop, done
<1>6. \A i \in 1 .. Len(s) : nodes[s[i]].item = done[i]
  BY <1>2, <1>4 DEF Walked, done
<1>7. done = [i \in 1 .. Len(done) |-> done[i]]
  BY <1>3
<1>8. ItemsOf(nodes, s) = [i \in 1 .. Len(done) |-> done[i]]
  BY <1>4, <1>6 DEF ItemsOf
<1> QED
  BY <1>5, <1>7, <1>8

\* What History says of the two loops.
LEMMA AddedKeepsOthers ==
    ASSUME NEW l \in Seq(Items), NEW item, ~H!DupCheck(l, item)
    PROVE  /\ ~H!IsDup(l, item)
           /\ H!Added(l, item) = Append(Keeping(l, Others(l, item)), item)
<1>1. ~H!IsDup(l, item)
  BY DEF H!IsDup
<1>2. \A S : H!Keeping(l, S) = Keeping(l, S)
  BY DEF H!Keeping, Keeping
<1>3. H!ToSet(l) = ToSet(l)
  BY DEF H!ToSet, ToSet
<1>4. H!DeleteItem(l, item) = Keeping(l, Others(l, item))
  <2>1. CASE Len(l) <= 1
    <3>1. Elements(l) \subseteq Others(l, item)
      <4>1. DOMAIN l = 1 .. Len(l)
        OBVIOUS
      <4> QED
        BY <2>1, <4>1 DEF Others, ToSet, Elements
    <3>2. PICK kept \in [0 .. Len(l) -> Seq(Items)] : KeepingLoop(kept, l, Others(l, item))
      BY KeepingUnrolled
    <3>3. Keeping(l, Others(l, item)) = l
      BY <2>1, <3>1, <3>2, ShortListIsKept DEF KeepingLoop
    <3> QED
      BY <2>1, <3>3 DEF H!DeleteItem
  <2>2. CASE ~(Len(l) <= 1)
    BY <1>2, <1>3, <2>2 DEF H!DeleteItem, Others
  <2> QED
    BY <2>1, <2>2
<1> QED
  BY <1>1, <1>4 DEF H!Added

LEMMA OlderProperties ==
    ASSUME NEW l \in Seq(Items)
    PROVE  /\ H!Older(l) \in Seq(Items) /\ Len(H!Older(l)) = Len(l)
           /\ \A i \in 1 .. Len(l) :
                 H!Older(l)[i] = [l[i] EXCEPT !.ttl = @ - H!AgeStep]
           /\ H!Aged(l) = Keeping(H!Older(l), Living(H!Older(l)))
<1>1. DOMAIN l = 1 .. Len(l) /\ Len(l) \in Nat /\ \A i \in 1 .. Len(l) : l[i] \in Items
  OBVIOUS
<1>2. \A e \in Items : [e EXCEPT !.ttl = @ - H!AgeStep] \in Items
  <2> SUFFICES ASSUME NEW e \in Items PROVE [e EXCEPT !.ttl = @ - H!AgeStep] \in Items
    OBVIOUS
  <2>1. e.ttl \in Int
    BY DEF Items
  <2> DEFINE x == e.ttl - H!AgeStep
  <2>2. x \in Int
    BY <2>1 DEF H!AgeStep
  <2>3. [e EXCEPT !.ttl = @ - H!AgeStep] = [e EXCEPT !.ttl = x]
    OBVIOUS
  <2> HIDE DEF x
  <2>4. [e EXCEPT !.ttl = x] \in Items
    BY <2>2 DEF Items
  <2> QED
    BY <2>3, <2>4
<1>3. H!Older(l) = [i \in 1 .. Len(l) |-> [l[i] EXCEPT !.ttl = @ - H!AgeStep]]
  BY <1>1 DEF H!Older
<1>4. H!Older(l) \in Seq(Items) /\ Len(H!Older(l)) = Len(l)
  BY <1>1, <1>2, <1>3
<1>5. H!Keeping(H!Older(l), Living(H!Older(l))) = Keeping(H!Older(l), Living(H!Older(l)))
  BY DEF H!Keeping, Keeping
<1>6. H!ToSet(H!Older(l)) = ToSet(H!Older(l))
  BY DEF H!ToSet, ToSet
<1> QED
  BY <1>3, <1>4, <1>5, <1>6 DEF H!Aged, Living

------------------------------------------------------------------------------
\* The invariant.

\* What DeQueue gives to AddHistoryItem.
Comes(item) ==
    \/ \E p \in Packets, t \in H!Created :
          item = H!Entry(p, H!destINET, ttlDefault, t, TRUE, FALSE)
    \/ \E p \in RfPackets, t \in H!Created, a \in BOOLEAN :
          item = H!Entry(p, H!destTNC, H!ttlTNC, t, FALSE, a)

Adding(s) ==
    LET item == node[call.ref].item IN
    /\ call.by = "add" /\ call.ref \in Objs
    /\ Len(before) < MaxItems /\ Comes(item) /\ ~H!DupCheck(before, item)
    /\ Len(before) <= 1 => call.hp = NULL
    /\ Loop(node, before, call.hp, s, before, Others(before, item))

Ageing(s) ==
    /\ call.by = "age" /\ call.ref = NULL
    /\ Loop(node, before, call.hp, s, H!Older(before), Living(H!Older(before)))

Busy(s) == call = Unlocked \/ Adding(s) \/ Ageing(s)

DataOK == now \in Nat /\ before \in Seq(Items) /\ call \in Calls

IInv == DataOK /\ \E s \in Seq(Objs) : HeapInv(s) /\ Busy(s)

LEMMA ItemsOfIsList ==
    ASSUME NEW s \in Seq(Objs), HeapInv(s)
    PROVE  ItemsOf(node, s) \in Seq(Items) /\ Len(ItemsOf(node, s)) = Len(s)
<1>1. \A i \in 1 .. Len(s) : s[i] \in DOMAIN node
  BY DEF HeapInv, Linked, Elements
<1>2. \A p \in DOMAIN node : node[p].item \in Items
  <2>1. node \in [DOMAIN node -> Nodes]
    BY DEF HeapInv, Linked
  <2>2. \A p \in DOMAIN node : node[p] \in Nodes
    BY <2>1
  <2> QED
    BY <2>2 DEF Nodes
<1> QED
  BY <1>1, <1>2 DEF ItemsOf

LEMMA WhatComesIsItem ==
    ASSUME now \in Nat, NEW item, Comes(item)
    PROVE  item \in Items
<1>1. \A t \in H!Created : t \in Nat
  BY DEF H!Created
<1>2. ASSUME NEW p \in Packets \cup RfPackets, NEW dest \in {H!destINET, H!destTNC},
             NEW ttl \in Int, NEW t \in Nat, NEW echo \in BOOLEAN, NEW dup \in BOOLEAN
      PROVE  H!Entry(p, dest, ttl, t, echo, dup) \in Items
  <2>1. p.src \in H!Sources /\ p.type \in H!Types /\ p.data \in H!Texts
    BY DEF H!Arriving, H!Parsed, H!Sources, H!Types, H!Texts
  <2> QED
    BY <2>1 DEF H!Entry, Items
<1>3. ttlDefault \in Int /\ H!ttlTNC \in Int
  BY DEF H!ttlTNC
<1>4. CASE \E p \in Packets, t \in H!Created :
             item = H!Entry(p, H!destINET, ttlDefault, t, TRUE, FALSE)
  <2>1. PICK p \in Packets, t \in H!Created :
               item = H!Entry(p, H!destINET, ttlDefault, t, TRUE, FALSE)
    BY <1>4
  <2>2. t \in Nat /\ p \in Packets \cup RfPackets /\ {TRUE, FALSE} \subseteq BOOLEAN
    BY <1>1
  <2>3. H!Entry(p, H!destINET, ttlDefault, t, TRUE, FALSE) \in Items
    BY <1>2, <1>3, <2>2
  <2> QED
    BY <2>1, <2>3
<1>5. CASE \E p \in RfPackets, t \in H!Created, a \in BOOLEAN :
             item = H!Entry(p, H!destTNC, H!ttlTNC, t, FALSE, a)
  <2>1. PICK p \in RfPackets, t \in H!Created, a \in BOOLEAN :
               item = H!Entry(p, H!destTNC, H!ttlTNC, t, FALSE, a)
    BY <1>5
  <2>2. t \in Nat /\ p \in Packets \cup RfPackets /\ FALSE \in BOOLEAN
    BY <1>1
  <2>3. H!Entry(p, H!destTNC, H!ttlTNC, t, FALSE, a) \in Items
    BY <1>2, <1>3, <2>2
  <2> QED
    BY <2>1, <2>3
<1> QED
  BY <1>4, <1>5 DEF Comes

\* Nobody holds the lock.
LEMMA IdleIsUnlocked ==
    ASSUME NEW s, Busy(s), call.by = "nobody"
    PROVE  call = Unlocked /\ call.ref = NULL
  BY DEF Busy, Adding, Ageing, Unlocked

LEMMA TailTellsEmpty ==
    ASSUME NEW s \in Seq(Objs), HeapInv(s)
    PROVE  /\ pTail = NULL <=> Len(s) = 0
           /\ Len(s) # 0 => (pHead = pTail <=> Len(s) = 1)
<1>1. /\ NoTwice(s) /\ pHead = At(s, 1) /\ pTail = At(s, Len(s)) /\ Len(s) \in Nat
      /\ \A i \in 1 .. Len(s) : s[i] \in Objs
  BY DEF HeapInv, Linked
<1>2. CASE Len(s) = 0
  BY <1>1, <1>2 DEF At
<1>3. CASE Len(s) # 0
  <2>1. 1 \in 1 .. Len(s) /\ Len(s) \in 1 .. Len(s)
    BY <1>1, <1>3
  <2> QED
    BY <1>1, <1>3, <2>1 DEF At, NoTwice
<1> QED
  BY <1>2, <1>3

------------------------------------------------------------------------------
\* The steps of AddHistoryItem.

Kept(t) == DataOK' /\ HeapInv(t)' /\ Busy(t)'

\* AddHistoryItem has returned, as History says it does for the list l.
Stored(t, l, item) ==
    /\ Kept(t) /\ call' = Unlocked /\ now' = now
    /\ ItemsOf(node', t) = H!Added(l, item)
    /\ verdict' = [item |-> item, dup |-> H!IsDup(l, item)]

\* The lock was taken when the list was l.
Begun(t, l) ==
    Kept(t) /\ call'.by # "nobody" /\ before' = l /\ now' = now /\ verdict' = verdict

LEMMA AddDuplicateStep ==
    ASSUME NEW s \in Seq(Objs), HeapInv(s), Busy(s), DataOK, call.by = "nobody",
           NEW item, AddDuplicate(item), UNCHANGED <<main, now>>
    PROVE  Stored(s, ItemsOf(node, s), item)
<1> DEFINE l == ItemsOf(node, s)
<1>1. call.ref = NULL
  BY IdleIsUnlocked
<1>2. /\ node' = node /\ pHead' = pHead /\ pTail' = pTail /\ ItemCount' = ItemCount
      /\ call' = Unlocked /\ before' = <<>> /\ verdict' = [item |-> item, dup |-> TRUE]
  BY DEF AddDuplicate, links, Return, Unlock
<1>3. call' \in Calls /\ call'.ref = NULL /\ before' \in Seq(Items)
  BY <1>2, EmptySeq DEF Calls, Unlocked, Refs
<1>4. HeapInv(s)'
  BY <1>1, <1>2, <1>3 DEF HeapInv
<1>5. l # <<>> /\ H!DupCheck(l, item)
  <2>1. Len(s) # 0 /\ Len(l) = Len(s)
    BY TailTellsEmpty, ItemsOfIsList DEF AddDuplicate
  <2>2. H!DupCheck(l, item)
    BY DupCheckReads DEF AddDuplicate
  <2> QED
    BY <2>1, <2>2
<1>6. H!IsDup(l, item) = TRUE /\ H!Added(l, item) = l
  BY <1>5 DEF H!IsDup, H!Added
<1>7. ItemsOf(node', s) = l
  BY <1>2
<1>8. Kept(s)
  BY <1>2, <1>3, <1>4 DEF Kept, DataOK, Busy
<1> HIDE DEF l
<1>9. Stored(s, l, item)
  BY <1>2, <1>6, <1>7, <1>8 DEF Stored
<1> QED
  BY <1>9 DEF l

LEMMA AddFirstStep ==
    ASSUME NEW s \in Seq(Objs), HeapInv(s), Busy(s), DataOK, call.by = "nobody",
           NEW item, Comes(item), NEW o \in Objs \ DOMAIN node, AddFirst(o, item),
           Len(ItemsOf(node, s)) < MaxItems, UNCHANGED <<main, now>>
    PROVE  \E t \in Seq(Objs) : Stored(t, ItemsOf(node, s), item)
<1> DEFINE t == Append(s, o)
           l == ItemsOf(node, s)
<1>1. call.ref = NULL
  BY IdleIsUnlocked
<1>2. /\ Arrives(o, item) /\ pHead' = o /\ pTail' = o /\ ItemCount' = ItemCount + 1
      /\ call' = Unlocked /\ before' = <<>> /\ verdict' = [item |-> item, dup |-> FALSE]
  BY DEF AddFirst, Return, Unlock
<1>3. call' \in Calls /\ call'.ref = NULL /\ before' \in Seq(Items)
  BY <1>2, EmptySeq DEF Calls, Unlocked, Refs
<1>4. Len(s) = 0 /\ l = <<>> /\ item \in Items
  <2>1. Len(s) = 0 /\ Len(l) = Len(s) /\ l \in Seq(Items)
    BY TailTellsEmpty, ItemsOfIsList DEF AddFirst
  <2> QED
    BY <2>1, WhatComesIsItem DEF DataOK
<1>5. /\ Linked(node, pHead, pTail, s) /\ DOMAIN node = Elements(s) /\ ItemCount = Len(s)
  BY <1>1 DEF HeapInv
<1>6. /\ Linked(node', pHead, pTail, s)
      /\ DOMAIN node' = DOMAIN node \cup {o} /\ o \notin Elements(s)
      /\ Alone(node', o) /\ node'[o].item = item
  BY <1>2, <1>4, <1>5, ArrivedIsAlone
<1>7. Linked(node', o, o, t)
  <2>1. AppendedWell(node', pHead, pTail, s, o)
    BY <1>6, AppendedIsLinked
  <2> QED
    BY <1>4, <2>1 DEF AppendedWell, Behind
<1>8. t \in Seq(Objs) /\ Len(t) = 1 /\ t[1] = o /\ Elements(t) = Elements(s) \cup {o}
  <2>1. t \in Seq(Objs) /\ Len(t) = Len(s) + 1 /\ Elements(t) = Elements(s) \cup {o}
    BY AppendElements
  <2>2. t[Len(s) + 1] = o
    BY AppendProperties
  <2> QED
    BY <1>4, <2>1, <2>2
<1> HIDE DEF t, l
<1>9. HeapInv(t)'
  <2>1. Len(l) < MaxItems /\ Len(l) = 0
    BY <1>4 DEF l
  <2>2. ItemCount' = Len(t) /\ Len(t) <= MaxItems
    BY <1>2, <1>4, <1>5, <1>8, <2>1
  <2>3. DOMAIN node' = Elements(t)
    BY <1>5, <1>6, <1>8
  <2>4. call'.ref \in Refs \ Elements(t) /\ Elements(t) \subseteq Objs
    BY <1>3, <1>7, <2>3 DEF Linked, Refs
  <2>5. Linked(node', pHead', pTail', t)
    BY <1>2, <1>7
  <2> QED
    BY <1>3, <1>8, <2>2, <2>3, <2>4, <2>5 DEF HeapInv
<1>10. ItemsOf(node', t) = <<item>>
  <2>1. \A i \in 1 .. 1 : node'[t[i]].item = item
    BY <1>6, <1>8
  <2>2. ItemsOf(node', t) = [i \in 1 .. 1 |-> node'[t[i]].item]
    BY <1>8 DEF ItemsOf
  <2>3. [i \in 1 .. 1 |-> node'[t[i]].item] = [i \in 1 .. 1 |-> item]
    BY <2>1
  <2> QED
    BY <2>2, <2>3
<1>11. H!Added(<<>>, item) = <<item>> /\ H!IsDup(<<>>, item) = FALSE
  <2>1. H!IsDup(<<>>, item) = FALSE
    BY DEF H!IsDup
  <2>2. H!DeleteItem(<<>>, item) = <<>>
    <3>1. Len(<<>>) <= 1
      OBVIOUS
    <3> QED
      BY <3>1 DEF H!DeleteItem
  <2>3. Append(<<>>, item) = <<item>>
    OBVIOUS
  <2> QED
    BY <2>1, <2>2, <2>3 DEF H!Added
<1>12. Kept(t)
  BY <1>2, <1>3, <1>9 DEF Kept, DataOK, Busy
<1>13. Stored(t, l, item)
  BY <1>2, <1>4, <1>10, <1>11, <1>12 DEF Stored
<1> QED
  BY <1>8, <1>13 DEF l

\* As long as the time stands still, what DeQueue gives and what is a duplicate
\* do not change.
LEMMA StandStill ==
    ASSUME now' = now, NEW item, NEW l
    PROVE  /\ Comes(item)' <=> Comes(item)
           /\ H!DupCheck(l, item)' <=> H!DupCheck(l, item)
<1>1. \A e : H!Age(e)' = H!Age(e)
  BY DEF H!Age
<1>2. H!Created' = H!Created
  BY DEF H!Created
<1>3. \A i : H!Scanned(l, i)' <=> H!Scanned(l, i)
  BY <1>1 DEF H!Scanned
<1>4. H!DupCheck(l, item)' <=> H!DupCheck(l, item)
  BY <1>3 DEF H!DupCheck
<1>5. Comes(item)' <=> Comes(item)
  BY <1>2 DEF Comes
<1> QED
  BY <1>4, <1>5

LEMMA AddBeginStep ==
    ASSUME NEW s \in Seq(Objs), HeapInv(s), Busy(s), DataOK, call.by = "nobody",
           NEW item, Comes(item), NEW o \in Objs \ DOMAIN node, AddBegin(o, item),
           NEW l, l = ItemsOf(node, s), Len(l) < MaxItems, UNCHANGED <<main, now>>
    PROVE  Begun(s, l)
<1>1. call.ref = NULL
  BY IdleIsUnlocked
<1>2. /\ Arrives(o, item) /\ pHead' = pHead /\ pTail' = pTail /\ ItemCount' = ItemCount
      /\ before' = l /\ verdict' = verdict /\ pTail # NULL
      /\ call' = [by |-> "add", ref |-> o, hp |-> IF pHead = pTail THEN NULL ELSE pHead]
  BY ContentsRead DEF AddBegin
<1>3. item \in Items
  BY WhatComesIsItem DEF DataOK
<1>4. l \in Seq(Items) /\ Len(l) = Len(s)
  BY ItemsOfIsList
<1>5. /\ Linked(node, pHead, pTail, s) /\ DOMAIN node = Elements(s) /\ ItemCount = Len(s)
      /\ pHead = At(s, 1) /\ Len(s) \in Nat
  BY <1>1 DEF HeapInv, Linked
<1>6. /\ Linked(node', pHead, pTail, s)
      /\ DOMAIN node' = DOMAIN node \cup {o} /\ o \notin Elements(s)
      /\ Alone(node', o) /\ node'[o].item = item
      /\ \A p \in DOMAIN node : node'[p] = node[p]
  <2>1. Arrives(o, item) /\ Linked(node, pHead, pTail, s)
    BY <1>2, <1>5
  <2> QED
    BY <1>3, <2>1, ArrivedIsAlone
<1>7. ItemsOf(node', s) = l
  <2>1. \A i \in 1 .. Len(s) : node'[s[i]].item = node[s[i]].item
    BY <1>5, <1>6 DEF Elements
  <2> QED
    BY <2>1 DEF ItemsOf
<1>8. ~H!DupCheck(l, item)
  BY DupCheckReads DEF AddBegin
<1>9. pHead = pTail <=> Len(l) <= 1
  <2>1. /\ pTail = NULL <=> Len(s) = 0
        /\ Len(s) # 0 => (pHead = pTail <=> Len(s) = 1)
    BY TailTellsEmpty
  <2> QED
    BY <1>2, <1>4, <1>5, <2>1
<1>10. call'.by = "add" /\ call'.ref = o /\ call' \in Calls
       /\ call'.hp = IF Len(l) <= 1 THEN NULL ELSE At(s, 1)
  <2>1. pHead \in Refs
    BY <1>5 DEF At, Refs
  <2> QED
    BY <1>2, <1>5, <1>9, <2>1 DEF Calls, Refs
<1>11. Loop(node', l, call'.hp, s, l, Others(l, item))
  <2>1. CASE Len(l) <= 1
    <3>1. Loop(node', l, NULL, s, l, Others(l, item))
      BY <1>4, <1>7, <2>1, LoopOfOne
    <3> QED
      BY <1>10, <2>1, <3>1
  <2>2. CASE ~(Len(l) <= 1)
    <3>1. Loop(node', l, At(s, 1), s, l, Others(l, item))
      BY <1>4, <1>7, LoopBegins
    <3> QED
      BY <1>10, <2>2, <3>1
  <2> QED
    BY <2>1, <2>2
<1>12. HeapInv(s)'
  <2>1. Len(s) + 1 <= MaxItems
    BY <1>4, <1>5
  <2>2. call'.ref # NULL /\ call'.ref \in Refs \ Elements(s)
    BY <1>6, <1>10 DEF Refs
  <2>3. DOMAIN node' = Elements(s) \cup ({call'.ref} \ {NULL})
    BY <1>5, <1>6, <1>10, <2>2
  <2> QED
    BY <1>2, <1>5, <1>6, <1>10, <2>1, <2>2, <2>3 DEF HeapInv
<1>13. Adding(s)'
  <2>1. Comes(item)' /\ ~H!DupCheck(l, item)'
    <3>1. now' = now
      OBVIOUS
    <3> QED
      BY <1>8, <3>1, StandStill
  <2>2. node'[call'.ref].item = item
    BY <1>6, <1>10
  <2>3. Comes(node[call.ref].item)' /\ ~H!DupCheck(before, node[call.ref].item)'
    <3>1. (node[call.ref].item)' = item /\ before' = l
      BY <1>2, <2>2
    <3> QED
      BY <2>1, <3>1 DEF Comes, H!DupCheck, H!Scanned, H!Age
  <2> QED
    BY <1>2, <1>10, <1>11, <2>2, <2>3 DEF Adding
<1>14. Kept(s)
  BY <1>2, <1>4, <1>10, <1>12, <1>13 DEF Kept, DataOK, Busy
<1> QED
  BY <1>2, <1>10, <1>14 DEF Begun

LEMMA DeleteItemStep ==
    ASSUME NEW s \in Seq(Objs), HeapInv(s), Busy(s), DataOK, DeleteItem
    PROVE  \E t \in Seq(Objs) : Begun(t, before)
<1>1. PICK l \in Seq(Items) : l = before
  BY DEF DataOK
<1>2. PICK item : item = node[call.ref].item
  OBVIOUS
<1>3. Adding(s) /\ call.hp # NULL /\ call \in Calls
  BY DEF DeleteItem, Busy, Ageing, Unlocked, DataOK
<1> DEFINE S == Others(l, item)
<1>4. /\ call.by = "add" /\ call.ref \in Objs /\ ~(Len(l) <= 1)
      /\ Len(l) < MaxItems /\ Comes(item) /\ ~H!DupCheck(l, item)
      /\ Loop(node, l, call.hp, s, l, S)
  BY <1>1, <1>2, <1>3 DEF Adding
<1>5. S = {e \in ToSet(l) : ~H!SameKey(e, item)}
  BY <1>4 DEF Others
<1> HIDE DEF S
<1>6. PICK kept \in [0 .. Len(l) -> Seq(Items)] :
        /\ KeepingLoop(kept, l, S)
        /\ \E m \in 0 .. Len(l) : Walked(node, l, call.hp, s, kept[m], m)
  BY <1>4 DEF Loop
<1>7. PICK m \in 0 .. Len(l) : Walked(node, l, call.hp, s, kept[m], m)
  BY <1>6
<1>8. m + 1 \in 1 .. Len(l) /\ node[call.hp].item = l[m + 1]
  <2>1. kept[m] \in Seq(Items)
    OBVIOUS
  <2> QED
    BY <1>3, <1>7, <2>1, WalkedPlace
<1>9. node[call.hp].item \in S <=> ~H!SameKey(node[call.hp].item, item)
  <2>1. l[m + 1] \in ToSet(l)
    BY <1>1, <1>8 DEF ToSet
  <2> QED
    BY <1>5, <1>8, <2>1
<1>10. Turn(node, S) /\ before' = l /\ now' = now /\ verdict' = verdict
  <2>1. IF H!SameKey(node[call.hp].item, item)
        THEN DeleteHistoryItem(node, call.hp)
        ELSE node' = node /\ UNCHANGED <<pHead, pTail, ItemCount>>
    BY <1>2 DEF DeleteItem, links
  <2>2. Advance /\ before' = before /\ now' = now /\ verdict' = verdict
    BY DEF DeleteItem
  <2> QED
    BY <1>1, <1>9, <2>1, <2>2 DEF Turn
<1>11. m + 1 \in 0 .. Len(l) /\ \E t \in Seq(Objs) : TurnDone(t, kept, m + 1)
  <2>1. Walked(node, before, call.hp, s, kept[m], m)
    BY <1>1, <1>7
  <2>2. node \in [DOMAIN node -> Nodes]
    BY DEF HeapInv, Linked
  <2> QED
    BY <1>1, <1>3, <1>6, <1>8, <1>10, <2>1, <2>2, TurnGoesOn
<1>12. PICK t \in Seq(Objs) : TurnDone(t, kept, m + 1)
  BY <1>11
<1>13. /\ HeapInv(t)' /\ Walked(node', l, call'.hp, t, kept[m + 1], m + 1)
       /\ call'.by = "add" /\ call'.ref = call.ref /\ call' \in Calls
       /\ node'[call'.ref].item = item
  BY <1>1, <1>2, <1>4, <1>10, <1>12 DEF TurnDone
<1>14. Loop(node', l, call'.hp, t, l, S)
  BY <1>6, <1>11, <1>13 DEF Loop
<1>15. Adding(t)'
  <2>1. Comes(item)' /\ ~H!DupCheck(l, item)'
    BY <1>4, <1>10, StandStill
  <2>2. (node[call.ref].item)' = item
    BY <1>13
  <2>3. Comes(node[call.ref].item)' /\ ~H!DupCheck(before, node[call.ref].item)'
    BY <1>10, <2>1, <2>2 DEF Comes, H!DupCheck, H!Scanned, H!Age
  <2> QED
    BY <1>4, <1>10, <1>13, <1>14, <2>2, <2>3 DEF Adding, S
<1>16. Kept(t)
  <2>1. now' \in Nat /\ before' \in Seq(Items)
    BY <1>10 DEF DataOK
  <2> QED
    BY <1>13, <1>15, <2>1 DEF Kept, DataOK, Busy
<1> QED
  BY <1>1, <1>10, <1>13, <1>16 DEF Begun

\* The other packets are gone; the new one goes behind pTail.
LEMMA AddLastStep ==
    ASSUME NEW s \in Seq(Objs), HeapInv(s), Busy(s), DataOK, AddLast,
           NEW l, l = before, NEW item, item = node[call.ref].item
    PROVE  /\ Comes(item) /\ Len(l) < MaxItems
           /\ \E t \in Seq(Objs) : Stored(t, l, item)
<1>0. PICK o : o = call.ref
  OBVIOUS
<1> DEFINE t == Append(s, o)
           n == IF Len(s) = 0 THEN node ELSE [node EXCEPT ![pTail].next = o, ![o].last = pTail]
           S == Others(l, item)
<1>1. Adding(s) /\ l \in Seq(Items) /\ now \in Nat
  BY DEF AddLast, Busy, Ageing, Unlocked, DataOK
<1>2. /\ o \in Objs /\ Len(l) < MaxItems /\ Comes(item) /\ ~H!DupCheck(l, item)
      /\ Loop(node, l, NULL, s, l, S)
  BY <1>0, <1>1 DEF Adding, AddLast
<1>3. ItemsOf(node, s) = Keeping(l, S)
  BY <1>1, <1>2, LoopEnds
<1>4. ~H!IsDup(l, item) /\ H!Added(l, item) = Append(Keeping(l, S), item)
  BY <1>1, <1>2, AddedKeepsOthers
<1>5. /\ Linked(node, pHead, pTail, s) /\ DOMAIN node = Elements(s) \cup {o}
      /\ o \in DOMAIN node \ Elements(s) /\ Alone(node, o)
      /\ ItemCount = Len(s) /\ Len(s) + 1 <= MaxItems /\ Len(s) \in Nat
  BY <1>0, <1>2 DEF HeapInv
<1>6. /\ node' = n /\ pHead' = IF Len(s) = 0 THEN o ELSE pHead
      /\ pTail' = o /\ ItemCount' = Len(s) + 1 /\ call' = Unlocked /\ before' = <<>>
      /\ verdict' = [item |-> item, dup |-> FALSE] /\ now' = now
  BY <1>0, <1>5 DEF AddLast, Return, Unlock
<1> HIDE DEF S
<1>7. /\ Linked(n, IF Len(s) = 0 THEN o ELSE pHead, o, t)
      /\ DOMAIN n = DOMAIN node
      /\ \A p \in DOMAIN node : n[p].item = node[p].item
  <2>1. AppendedWell(node, pHead, pTail, s, o)
    BY <1>5, AppendedIsLinked
  <2> HIDE DEF n
  <2>2. n = Behind(node, pTail, s, o)
    BY DEF n, Behind
  <2> QED
    BY <2>1, <2>2 DEF AppendedWell
<1> HIDE DEF n
<1>8. /\ t \in Seq(Objs) /\ Len(t) = Len(s) + 1 /\ t[Len(s) + 1] = o
      /\ Elements(t) = Elements(s) \cup {o} /\ \A i \in 1 .. Len(s) : t[i] = s[i]
  <2>1. t \in Seq(Objs) /\ Len(t) = Len(s) + 1 /\ Elements(t) = Elements(s) \cup {o}
    BY <1>2, AppendElements
  <2>2. t[Len(s) + 1] = o /\ \A i \in 1 .. Len(s) : t[i] = s[i]
    BY <1>2, AppendProperties
  <2> QED
    BY <2>1, <2>2
<1> HIDE DEF t
<1>9. call' \in Calls /\ call'.ref = NULL /\ before' \in Seq(Items)
  BY <1>6, EmptySeq DEF Calls, Unlocked, Refs
<1>10. HeapInv(t)'
  <2>1. Linked(node', pHead', pTail', t)
    BY <1>6, <1>7
  <2>2. DOMAIN node' = Elements(t) /\ Elements(t) \subseteq Objs
    BY <1>5, <1>6, <1>7, <1>8, <2>1 DEF Linked
  <2>3. ItemCount' = Len(t) /\ Len(t) <= MaxItems
    BY <1>5, <1>6, <1>8
  <2>4. call'.ref \in Refs \ Elements(t)
    BY <1>9, <2>2 DEF Refs
  <2> QED
    BY <1>5, <1>8, <1>9, <2>1, <2>2, <2>3, <2>4 DEF HeapInv
<1>11. ItemsOf(node', t) = Append(Keeping(l, S), item)
  <2> DEFINE k == Keeping(l, S)
             r == Append(k, item)
  <2>1. k \in Seq(Items) /\ item \in Items
    BY <1>1, <1>2, KeepingElements, WhatComesIsItem
  <2>2. Len(k) = Len(s) /\ \A i \in 1 .. Len(s) : k[i] = node[s[i]].item
    BY <1>3 DEF ItemsOf
  <2> HIDE DEF k
  <2>3. /\ r \in Seq(Items) /\ Len(r) = Len(s) + 1 /\ r[Len(s) + 1] = item
        /\ \A i \in 1 .. Len(s) : r[i] = k[i]
    BY <2>1, <2>2, AppendProperties
  <2> HIDE DEF r
  <2>4. \A i \in 1 .. Len(s) : s[i] \in DOMAIN node
    BY <1>5 DEF Elements
  <2>5. \A i \in 1 .. Len(s) + 1 : node'[t[i]].item = r[i]
    <3> SUFFICES ASSUME NEW i \in 1 .. Len(s) + 1 PROVE node'[t[i]].item = r[i]
      OBVIOUS
    <3>1. CASE i = Len(s) + 1
      BY <1>0, <1>5, <1>6, <1>7, <1>8, <2>3, <3>1
    <3>2. CASE i # Len(s) + 1
      <4>1. i \in 1 .. Len(s)
        BY <1>5, <3>2
      <4> QED
        BY <1>6, <1>7, <1>8, <2>2, <2>3, <2>4, <4>1
    <3> QED
      BY <3>1, <3>2
  <2>6. ItemsOf(node', t) = [i \in 1 .. Len(r) |-> r[i]]
    BY <1>8, <2>3, <2>5 DEF ItemsOf
  <2>7. r = [i \in 1 .. Len(r) |-> r[i]]
    BY <2>3
  <2> QED
    BY <2>6, <2>7 DEF r, k
<1>12. Kept(t)
  BY <1>1, <1>6, <1>9, <1>10 DEF Kept, DataOK, Busy
<1>13. Stored(t, l, item)
  <2>1. H!IsDup(l, item) = FALSE
    BY <1>4 DEF H!IsDup
  <2> QED
    BY <1>4, <1>6, <1>11, <1>12, <2>1 DEF Stored
<1> QED
  BY <1>2, <1>8, <1>13

------------------------------------------------------------------------------
\* The steps of DeleteOldItems.

LEMMA AgeBeginStep ==
    ASSUME NEW s \in Seq(Objs), HeapInv(s), Busy(s), DataOK, AgeBegin,
           NEW l, l = ItemsOf(node, s)
    PROVE  Begun(s, l)
<1>1. call.ref = NULL
  BY IdleIsUnlocked DEF AgeBegin
<1>2. /\ node' = node /\ pHead' = pHead /\ pTail' = pTail /\ ItemCount' = ItemCount
      /\ before' = l /\ verdict' = verdict /\ now' = now
      /\ call' = [by |-> "age", ref |-> NULL, hp |-> pHead]
  BY ContentsRead DEF AgeBegin, links
<1>3. l \in Seq(Items) /\ pHead = At(s, 1)
  BY ItemsOfIsList DEF HeapInv, Linked
<1>4. call' \in Calls /\ call'.by = "age" /\ call'.ref = NULL /\ call'.hp = At(s, 1)
  <2>1. pHead \in Refs
    BY <1>3 DEF At, Refs
  <2> QED
    BY <1>2, <1>3, <2>1 DEF Calls, Refs
<1>5. HeapInv(s)'
  BY <1>1, <1>2, <1>4 DEF HeapInv
<1>6. Loop(node', l, call'.hp, s, H!Older(l), Living(H!Older(l)))
  <2> DEFINE new == H!Older(l)
             S == Living(new)
  <2>1. new \in Seq(Items) /\ Len(new) = Len(l)
    BY <1>3, OlderProperties
  <2> HIDE DEF new, S
  <2>2. Loop(node', l, At(s, 1), s, new, S)
    BY <1>2, <1>3, <2>1, LoopBegins
  <2> QED
    BY <1>4, <2>2 DEF new, S
<1>7. Ageing(s)'
  BY <1>2, <1>4, <1>6 DEF Ageing, Living, H!Older
<1>8. Kept(s)
  BY <1>2, <1>3, <1>4, <1>5, <1>7 DEF Kept, DataOK, Busy
<1> QED
  BY <1>2, <1>4, <1>8 DEF Begun

\* The packet hp, five minutes older.
AgedAt(nodes, hp) == [nodes EXCEPT ![hp].item.ttl = @ - H!AgeStep]

AgedWell(nodes, D, hp) ==
    LET n == AgedAt(nodes, hp)
    IN  /\ n \in [D -> Nodes]
        /\ \A p \in D : /\ n[p].next = nodes[p].next
                        /\ n[p].last = nodes[p].last
                        /\ p # hp => n[p].item = nodes[p].item
        /\ n[hp].item = [nodes[hp].item EXCEPT !.ttl = @ - H!AgeStep]

LEMMA AgedIsWell ==
    ASSUME NEW D, NEW nodes \in [D -> Nodes], NEW hp \in D
    PROVE  AgedWell(nodes, D, hp)
<1> DEFINE x == [nodes[hp].item EXCEPT !.ttl = @ - H!AgeStep]
           y == [nodes[hp] EXCEPT !.item = x]
<1>1. nodes[hp] \in Nodes /\ nodes[hp].item \in Items
  <2>1. nodes[hp] \in Nodes
    OBVIOUS
  <2> QED
    BY <2>1 DEF Nodes
<1>2. AgedAt(nodes, hp) = [nodes EXCEPT ![hp] = y]
  BY DEF AgedAt
<1>3. x \in Items
  <2> DEFINE ttl == nodes[hp].item.ttl - H!AgeStep
  <2>1. ttl \in Int
    BY <1>1 DEF Items, H!AgeStep
  <2>2. x = [nodes[hp].item EXCEPT !.ttl = ttl]
    OBVIOUS
  <2> HIDE DEF ttl
  <2> QED
    BY <1>1, <2>1, <2>2 DEF Items
<1> HIDE DEF x
<1>4. y \in Nodes /\ y.item = x /\ y.next = nodes[hp].next /\ y.last = nodes[hp].last
  BY <1>1, <1>3 DEF Nodes
<1> HIDE DEF y
<1> QED
  BY <1>2, <1>4 DEF x, AgedWell

LEMMA DeleteOldItemsStep ==
    ASSUME NEW s \in Seq(Objs), HeapInv(s), Busy(s), DataOK, DeleteOldItems
    PROVE  \E t \in Seq(Objs) : Begun(t, before)
<1>1. PICK l \in Seq(Items) : l = before
  BY DEF DataOK
<1>2. PICK new : new = H!Older(l)
  OBVIOUS
<1>3. Ageing(s) /\ call.hp # NULL /\ call \in Calls
  BY DEF DeleteOldItems, Busy, Adding, Unlocked, DataOK
<1> DEFINE S == Living(new)
           nodes == AgedAt(node, call.hp)
<1>4. /\ call.by = "age" /\ call.ref = NULL
      /\ Loop(node, l, call.hp, s, new, S)
  BY <1>1, <1>2, <1>3 DEF Ageing
<1>5. /\ new \in Seq(Items) /\ Len(new) = Len(l)
      /\ \A i \in 1 .. Len(l) : new[i] = [l[i] EXCEPT !.ttl = @ - H!AgeStep]
  BY <1>2, OlderProperties
<1>6. S = {e \in ToSet(new) : e.ttl > 0}
  BY DEF Living
<1> HIDE DEF S
<1>7. PICK kept \in [0 .. Len(new) -> Seq(Items)] :
        /\ KeepingLoop(kept, new, S)
        /\ \E m \in 0 .. Len(new) : Walked(node, l, call.hp, s, kept[m], m)
  BY <1>4 DEF Loop
<1>8. PICK m \in 0 .. Len(new) : Walked(node, l, call.hp, s, kept[m], m)
  BY <1>7
<1>9. /\ m + 1 \in 1 .. Len(l) /\ node[call.hp].item = l[m + 1]
      /\ call.hp \in DOMAIN node
  <2>1. kept[m] \in Seq(Items) /\ m \in 0 .. Len(l)
    BY <1>5
  <2>2. /\ m + 1 \in 1 .. Len(l) /\ Len(kept[m]) + 1 \in 1 .. Len(s)
        /\ call.hp = s[Len(kept[m]) + 1] /\ node[call.hp].item = l[m + 1]
    BY <1>3, <1>8, <2>1, WalkedPlace
  <2> QED
    BY <2>2 DEF HeapInv, Linked, Elements
<1>10. node \in [DOMAIN node -> Nodes]
  BY DEF HeapInv, Linked
<1>11. /\ nodes \in [DOMAIN node -> Nodes]
       /\ \A p \in DOMAIN node : /\ nodes[p].next = node[p].next
                                 /\ nodes[p].last = node[p].last
                                 /\ p # call.hp => nodes[p].item = node[p].item
       /\ nodes[call.hp].item = new[m + 1]
  <2>1. new[m + 1] = [node[call.hp].item EXCEPT !.ttl = @ - H!AgeStep]
    BY <1>5, <1>9
  <2>2. AgedWell(node, DOMAIN node, call.hp)
    BY <1>9, <1>10, AgedIsWell
  <2> QED
    BY <2>1, <2>2 DEF AgedWell
<1>12. /\ IF nodes[call.hp].item.ttl <= 0
          THEN DeleteHistoryItem(nodes, call.hp)
          ELSE node' = nodes /\ UNCHANGED <<pHead, pTail, ItemCount>>
       /\ Advance /\ before' = l /\ now' = now /\ verdict' = verdict
  BY <1>1 DEF DeleteOldItems, AgedAt
<1> HIDE DEF nodes
<1>13. nodes[call.hp].item \in S <=> ~(nodes[call.hp].item.ttl <= 0)
  <2>1. new[m + 1] \in ToSet(new) /\ new[m + 1] \in Items
    BY <1>5, <1>9 DEF ToSet
  <2>2. new[m + 1].ttl \in Int
    BY <2>1 DEF Items
  <2> QED
    BY <1>6, <1>11, <2>1, <2>2
<1>14. Turn(nodes, S)
  BY <1>1, <1>12, <1>13 DEF Turn
<1>15. m + 1 \in 0 .. Len(new) /\ \E t \in Seq(Objs) : TurnDone(t, kept, m + 1)
  <2>1. Walked(node, before, call.hp, s, kept[m], m) /\ before \in Seq(Items)
        /\ Len(new) = Len(before)
    BY <1>1, <1>5, <1>8
  <2> QED
    BY <1>3, <1>5, <1>7, <1>11, <1>14, <2>1, TurnGoesOn
<1>16. PICK t \in Seq(Objs) : TurnDone(t, kept, m + 1)
  BY <1>15
<1>17. /\ HeapInv(t)' /\ Walked(node', l, call'.hp, t, kept[m + 1], m + 1)
       /\ call'.by = "age" /\ call'.ref = NULL /\ call' \in Calls
  BY <1>4, <1>12, <1>16 DEF TurnDone
<1>18. Loop(node', l, call'.hp, t, new, S)
  BY <1>7, <1>15, <1>17 DEF Loop
<1>19. Ageing(t)'
  BY <1>2, <1>12, <1>17, <1>18 DEF Ageing, S, Living, H!Older
<1>20. Kept(t)
  BY <1>12, <1>17, <1>19 DEF Kept, DataOK, Busy
<1> QED
  BY <1>1, <1>12, <1>17, <1>20 DEF Begun

LEMMA AgeEndStep ==
    ASSUME NEW s \in Seq(Objs), HeapInv(s), Busy(s), DataOK, AgeEnd
    PROVE  /\ Kept(s) /\ call' = Unlocked /\ now' = now /\ verdict' = NoCall
           /\ ItemsOf(node', s) = H!Aged(before)
<1>1. Ageing(s) /\ before \in Seq(Items) /\ now \in Nat
  BY DEF AgeEnd, Busy, Adding, Unlocked, DataOK
<1>2. /\ node' = node /\ pHead' = pHead /\ pTail' = pTail /\ ItemCount' = ItemCount
      /\ call' = Unlocked /\ before' = <<>> /\ verdict' = NoCall /\ now' = now
  BY DEF AgeEnd, links, Unlock
<1>3. call.ref = NULL /\ Loop(node, before, NULL, s, H!Older(before), Living(H!Older(before)))
  BY <1>1 DEF Ageing, AgeEnd
<1>4. ItemsOf(node, s) = H!Aged(before)
  <2> DEFINE new == H!Older(before)
             S == Living(new)
  <2>1. new \in Seq(Items) /\ Len(new) = Len(before) /\ H!Aged(before) = Keeping(new, S)
    BY <1>1, OlderProperties
  <2>2. Loop(node, before, NULL, s, new, S)
    BY <1>3
  <2> HIDE DEF new, S
  <2> QED
    BY <1>1, <2>1, <2>2, LoopEnds
<1>5. call' \in Calls /\ call'.ref = NULL /\ before' \in Seq(Items)
  BY <1>2, EmptySeq DEF Calls, Unlocked, Refs
<1>6. HeapInv(s)'
  BY <1>2, <1>3, <1>5 DEF HeapInv
<1>7. Kept(s)
  BY <1>1, <1>2, <1>5, <1>6 DEF Kept, DataOK, Busy
<1> QED
  BY <1>2, <1>4, <1>7

------------------------------------------------------------------------------
\* Every step keeps the invariant and does what History allows.

\* The list that History sees.
Shown(s) == IF call.by = "nobody" THEN ItemsOf(node, s) ELSE before

\* What a step does to the list l of History; m is the list after it.
Effect(l, m) ==
    \/ now < MaxTime /\ now' = now + 1 /\ verdict' = NoCall /\ m = l
    \/ /\ Len(l) < MaxItems /\ now' = now
       /\ \E item : /\ Comes(item) /\ m = H!Added(l, item)
                    /\ verdict' = [item |-> item, dup |-> H!IsDup(l, item)]
    \/ now' = now /\ verdict' = NoCall /\ m = H!Aged(l)
    \/ now' = now /\ verdict' = verdict /\ m = l

LEMMA QuietStep ==
    ASSUME NEW s \in Seq(Objs), HeapInv(s), Busy(s), DataOK,
           UNCHANGED <<links, call, now, verdict, before>>, NEW l, l = Shown(s)
    PROVE  Kept(s) /\ Effect(l, Shown(s)')
<1>1. /\ node' = node /\ pHead' = pHead /\ pTail' = pTail /\ ItemCount' = ItemCount
      /\ call' = call /\ now' = now /\ verdict' = verdict /\ before' = before
  BY DEF links
<1>2. HeapInv(s)' /\ DataOK' /\ Shown(s)' = l
  BY <1>1 DEF HeapInv, DataOK, Shown
<1>3. Ageing(s) => Ageing(s)'
  BY <1>1 DEF Ageing
<1>4. Adding(s) => Adding(s)'
  <2> SUFFICES ASSUME Adding(s) PROVE Adding(s)'
    OBVIOUS
  <2>1. PICK item, b : item = node[call.ref].item /\ b = before
    OBVIOUS
  <2>2. Comes(item)' /\ ~H!DupCheck(b, item)'
    BY <1>1, <2>1, StandStill DEF Adding
  <2>3. (node[call.ref].item)' = item /\ before' = b
    BY <1>1, <2>1
  <2>4. Comes(node[call.ref].item)' /\ ~H!DupCheck(before, node[call.ref].item)'
    BY <2>2, <2>3 DEF Comes, H!DupCheck, H!Scanned, H!Age
  <2> QED
    BY <1>1, <2>4 DEF Adding
<1>5. Busy(s)'
  BY <1>1, <1>3, <1>4 DEF Busy
<1> QED
  BY <1>1, <1>2, <1>5 DEF Kept, Effect

\* The time may go on while packets grow older, but not while one is added.
LEMMA TickStep ==
    ASSUME NEW s \in Seq(Objs), HeapInv(s), Busy(s), DataOK, Tick, NEW l, l = Shown(s)
    PROVE  Kept(s) /\ Effect(l, Shown(s)')
<1>1. /\ node' = node /\ pHead' = pHead /\ pTail' = pTail /\ ItemCount' = ItemCount
      /\ call' = call /\ before' = before /\ call.by # "add"
      /\ now < MaxTime /\ now' = now + 1 /\ verdict' = NoCall
  BY DEF Tick, links
<1>2. HeapInv(s)' /\ DataOK' /\ Shown(s)' = l
  BY <1>1 DEF HeapInv, DataOK, Shown
<1>3. Ageing(s) => Ageing(s)'
  BY <1>1 DEF Ageing
<1>4. Busy(s)'
  BY <1>1, <1>3 DEF Busy, Adding
<1> QED
  BY <1>1, <1>2, <1>4 DEF Kept, Effect

LEMMA BegunIsQuiet ==
    ASSUME NEW t, NEW l, Begun(t, l)
    PROVE  Kept(t) /\ Effect(l, Shown(t)')
<1>1. Kept(t) /\ now' = now /\ verdict' = verdict /\ Shown(t)' = l
  BY DEF Begun, Shown
<1> QED
  BY <1>1 DEF Effect

LEMMA StoredIsAdded ==
    ASSUME NEW t, NEW l, NEW item, Comes(item), Len(l) < MaxItems, Stored(t, l, item)
    PROVE  Kept(t) /\ Effect(l, Shown(t)')
<1>1. Kept(t) /\ now' = now /\ Shown(t)' = H!Added(l, item)
  BY DEF Stored, Shown, Unlocked
<1>2. verdict' = [item |-> item, dup |-> H!IsDup(l, item)]
  BY DEF Stored
<1> QED
  BY <1>1, <1>2 DEF Effect

LEMMA AddHistoryItemStep ==
    ASSUME NEW s \in Seq(Objs), HeapInv(s), Busy(s), DataOK,
           NEW item, Comes(item), AddHistoryItem(item), NEW l, l = Shown(s)
    PROVE  \E t \in Seq(Objs) : Kept(t) /\ Effect(l, Shown(t)')
<1>1. call.by = "nobody" /\ l = ItemsOf(node, s) /\ Len(l) < MaxItems
      /\ UNCHANGED <<main, now>>
  BY ContentsRead DEF AddHistoryItem, Shown
<1>2. CASE AddDuplicate(item)
  <2>1. Stored(s, l, item)
    BY <1>1, <1>2, AddDuplicateStep
  <2> QED
    BY <1>1, <2>1, StoredIsAdded
<1>3. ASSUME NEW o \in Objs \ DOMAIN node, AddFirst(o, item)
      PROVE  \E t \in Seq(Objs) : Kept(t) /\ Effect(l, Shown(t)')
  <2>1. PICK t \in Seq(Objs) : Stored(t, l, item)
    BY <1>1, <1>3, AddFirstStep
  <2> QED
    BY <1>1, <2>1, StoredIsAdded
<1>4. ASSUME NEW o \in Objs \ DOMAIN node, AddBegin(o, item)
      PROVE  \E t \in Seq(Objs) : Kept(t) /\ Effect(l, Shown(t)')
  <2>1. Begun(s, l)
    BY <1>1, <1>4, AddBeginStep
  <2> QED
    BY <2>1, BegunIsQuiet
<1> QED
  BY <1>2, <1>3, <1>4 DEF AddHistoryItem

LEMMA NextStep ==
    ASSUME NEW s \in Seq(Objs), HeapInv(s), Busy(s), DataOK, [Next]_vars,
           NEW l, l = Shown(s)
    PROVE  \E t \in Seq(Objs) : Kept(t) /\ Effect(l, Shown(t)')
<1>1. CASE Tick
  BY <1>1, TickStep
<1>2. ASSUME NEW item, Comes(item), AddHistoryItem(item)
      PROVE  \E t \in Seq(Objs) : Kept(t) /\ Effect(l, Shown(t)')
  BY <1>2, AddHistoryItemStep
<1>3. CASE DeleteItem
  <2>1. PICK t \in Seq(Objs) : Begun(t, before)
    BY <1>3, DeleteItemStep
  <2>2. l = before
    BY <1>3 DEF Shown, DeleteItem
  <2> QED
    BY <2>1, <2>2, BegunIsQuiet
<1>4. CASE AddLast
  <2>1. l = before
    BY <1>4 DEF Shown, AddLast
  <2>2. PICK item : item = node[call.ref].item
    OBVIOUS
  <2>3. /\ Comes(item) /\ Len(l) < MaxItems
        /\ \E t \in Seq(Objs) : Stored(t, l, item)
    BY <1>4, <2>1, <2>2, AddLastStep
  <2>4. PICK t \in Seq(Objs) : Stored(t, l, item)
    BY <2>3
  <2> QED
    BY <2>3, <2>4, StoredIsAdded
<1>5. CASE AgeLook
  <2>1. UNCHANGED <<links, call, now, verdict, before>>
    BY <1>5 DEF AgeLook
  <2> QED
    BY <2>1, QuietStep
<1>6. CASE AgeBegin
  <2>1. l = ItemsOf(node, s)
    BY <1>6 DEF AgeBegin, Shown
  <2>2. Begun(s, l)
    BY <1>6, <2>1, AgeBeginStep
  <2> QED
    BY <2>2, BegunIsQuiet
<1>7. CASE DeleteOldItems
  <2>1. PICK t \in Seq(Objs) : Begun(t, before)
    BY <1>7, DeleteOldItemsStep
  <2>2. l = before
    BY <1>7 DEF Shown, DeleteOldItems
  <2> QED
    BY <2>1, <2>2, BegunIsQuiet
<1>8. CASE AgeEnd
  <2>1. /\ Kept(s) /\ call' = Unlocked /\ now' = now /\ verdict' = NoCall
        /\ ItemsOf(node', s) = H!Aged(before)
    BY <1>8, AgeEndStep
  <2>2. l = before
    BY <1>8 DEF Shown, AgeEnd
  <2>3. Shown(s)' = H!Aged(l)
    BY <2>1, <2>2 DEF Shown, Unlocked
  <2> QED
    BY <2>1, <2>3 DEF Effect
<1>9. CASE UNCHANGED vars
  <2>1. UNCHANGED <<links, call, now, verdict, before>>
    BY <1>9 DEF vars, links
  <2> QED
    BY <2>1, QuietStep
<1>10. CASE \E p \in Packets, t \in H!Created :
              AddHistoryItem(H!Entry(p, H!destINET, ttlDefault, t, TRUE, FALSE))
  BY <1>2, <1>10 DEF Comes
<1>11. CASE \E p \in RfPackets, t \in H!Created, a \in BOOLEAN :
              AddHistoryItem(H!Entry(p, H!destTNC, H!ttlTNC, t, FALSE, a))
  BY <1>2, <1>11 DEF Comes
<1> QED
  BY <1>1, <1>3, <1>4, <1>5, <1>6, <1>7, <1>8, <1>9, <1>10, <1>11 DEF Next

------------------------------------------------------------------------------
\* The invariant holds in every state.

LEMMA EmptyList == Init => IInv /\ HeapInv(<<>>)
<1> SUFFICES ASSUME Init PROVE IInv /\ HeapInv(<<>>)
  OBVIOUS
<1> DEFINE e == <<>>
<1>1. e \in Seq(Objs) /\ e \in Seq(Items) /\ Len(e) = 0 /\ Elements(e) = {} /\ DOMAIN e = {}
  BY EmptySeq DEF Elements
<1>2. NoTwice(e) /\ \A i : At(e, i) = NULL
  BY <1>1 DEF NoTwice, At
<1>3. e \in [{} -> Nodes]
  BY <1>1
<1>4. /\ node = e /\ pHead = NULL /\ pTail = NULL /\ ItemCount = 0
      /\ call = Unlocked /\ now = 0 /\ before = e
  BY DEF Init
<1>5. call \in Calls /\ call.ref = NULL /\ NULL \in Refs
  BY <1>4 DEF Calls, Unlocked, Refs
<1> HIDE DEF e
<1>6. HeapInv(e)
  BY <1>1, <1>2, <1>3, <1>4, <1>5 DEF HeapInv, Linked
<1>7. IInv
  BY <1>1, <1>4, <1>5, <1>6 DEF IInv, DataOK, Busy
<1> QED
  BY <1>6, <1>7 DEF e

LEMMA IInvIsInductive == IInv /\ [Next]_vars => IInv'
<1> SUFFICES ASSUME IInv, [Next]_vars PROVE IInv'
  OBVIOUS
<1>1. PICK s \in Seq(Objs) : HeapInv(s) /\ Busy(s)
  BY DEF IInv
<1>2. PICK l : l = Shown(s)
  OBVIOUS
<1>3. PICK t \in Seq(Objs) : Kept(t)
  BY <1>1, <1>2, NextStep DEF IInv
<1> QED
  BY <1>3 DEF Kept, IInv

LEMMA IInvHolds == Spec => []IInv
<1>1. Init => IInv
  BY EmptyList
<1> QED
  BY <1>1, IInvIsInductive, PTL DEF Spec

\* The loop pointer is NULL or in the list.
LEMMA LoopIsInList ==
    ASSUME NEW s \in Seq(Objs), NEW nodes, NEW l \in Seq(Items), NEW hp,
           NEW new \in Seq(Items), Len(new) = Len(l), NEW S,
           Loop(nodes, l, hp, s, new, S)
    PROVE  hp \in Elements(s) \cup {NULL}
<1>1. PICK k : hp = At(s, k)
  BY DEF Loop, Walked
<1> QED
  BY <1>1 DEF At, Elements

\* pHead, pTail, the packet that is being added and the pointer of the loop are
\* NULL or the address of a packet that exists, never of one that was deleted;
\* ItemCount stays within the bound (history.cpp 103-256).
THEOREM TypeCorrect == Spec => []TypeOK
<1>1. IInv => TypeOK
  <2> SUFFICES ASSUME IInv PROVE TypeOK
    OBVIOUS
  <2>1. PICK s \in Seq(Objs) : HeapInv(s) /\ Busy(s)
    BY DEF IInv
  <2>2. call \in Calls /\ before \in Seq(Items)
    BY DEF IInv, DataOK
  <2>3. call.hp \in Elements(s) \cup {NULL}
    <3>1. CASE call = Unlocked
      BY <3>1 DEF Unlocked
    <3>2. CASE Adding(s)
      <4>1. PICK S : Loop(node, before, call.hp, s, before, S)
        BY <3>2 DEF Adding
      <4> QED
        BY <2>2, <4>1, LoopIsInList
    <3>3. CASE Ageing(s)
      <4>1. PICK new, S : new = H!Older(before) /\ Loop(node, before, call.hp, s, new, S)
        BY <3>3 DEF Ageing
      <4>2. new \in Seq(Items) /\ Len(new) = Len(before)
        BY <2>2, <4>1, OlderProperties
      <4> QED
        BY <2>2, <4>1, <4>2, LoopIsInList
    <3> QED
      BY <2>1, <3>1, <3>2, <3>3 DEF Busy
  <2>4. /\ DOMAIN node = Elements(s) \cup ({call.ref} \ {NULL})
        /\ DOMAIN node \subseteq Objs /\ ItemCount = Len(s) /\ Len(s) \in Nat
        /\ Len(s) + (IF call.ref = NULL THEN 0 ELSE 1) <= MaxItems
        /\ pHead = At(s, 1) /\ pTail = At(s, Len(s))
    BY <2>1 DEF HeapInv, Linked
  <2>5. pHead \in Elements(s) \cup {NULL} /\ pTail \in Elements(s) \cup {NULL}
    BY <2>4 DEF At, Elements
  <2>6. call.by \in {"nobody", "add", "age"}
    BY <2>2 DEF Calls
  <2>7. ItemCount \in 0 .. MaxItems
    BY <2>4
  <2> QED
    BY <2>3, <2>4, <2>5, <2>6, <2>7 DEF TypeOK
<1> QED
  BY <1>1, IInvHolds, PTL

\* In every state, also between two turns of a loop that deletes, the list
\* read by next is the list read backwards by last, and ItemCount is its
\* length (history.cpp 113-187).
THEOREM ListIsWellLinked == Spec => []WellLinked
<1>1. IInv => WellLinked
  <2> SUFFICES ASSUME IInv PROVE WellLinked
    OBVIOUS
  <2>1. PICK s \in Seq(Objs) : HeapInv(s)
    BY DEF IInv
  <2>2. Forwards = s /\ Backwards = Reverse(s) /\ ItemCount = Len(s)
    BY <2>1, ListIsRead DEF HeapInv
  <2> QED
    BY <2>2 DEF WellLinked
<1> QED
  BY <1>1, IInvHolds, PTL

\* Every packet that was stored and not deleted can be reached from pHead,
\* and none that was deleted can: only the packet that AddHistoryItem still
\* holds is in no list (history.cpp 103-187).
THEOREM NothingLeaks == Spec => []NoLeak
<1>1. IInv => NoLeak
  <2> SUFFICES ASSUME IInv PROVE NoLeak
    OBVIOUS
  <2>1. PICK s \in Seq(Objs) : HeapInv(s)
    BY DEF IInv
  <2>2. Forwards = s /\ DOMAIN node = Elements(s) \cup ({call.ref} \ {NULL})
    BY <2>1, ListIsRead DEF HeapInv
  <2>3. ToSet(s) = Elements(s)
    <3>1. DOMAIN s = 1 .. Len(s)
      OBVIOUS
    <3> QED
      BY <3>1 DEF ToSet, Elements
  <2> QED
    BY <2>2, <2>3 DEF NoLeak
<1> QED
  BY <1>1, IInvHolds, PTL

------------------------------------------------------------------------------
\* The linked list implements the sequence.

\* What History reads is what the pointers lead to.
ContentsInv == \A s \in Seq(Objs) : HeapInv(s) => Contents = ItemsOf(node, s)

LEMMA ContentsAlways == ContentsInv
  BY ContentsRead DEF ContentsInv

LEMMA EmptyIsNotAged == Len(<<>>) <= 1 /\ H!Aged(<<>>) = <<>>
<1> DEFINE e == <<>>
<1>1. e \in Seq(Items) /\ Len(e) = 0
  BY EmptySeq
<1> HIDE DEF e
<1>2. PICK new, S : /\ new \in Seq(Items) /\ Len(new) = 0
                    /\ H!Aged(e) = Keeping(new, S)
  BY <1>1, OlderProperties
<1>3. PICK kept \in [0 .. Len(new) -> Seq(Items)] : KeepingLoop(kept, new, S)
  BY <1>2, KeepingUnrolled
<1>4. Keeping(new, S) = <<>>
  BY <1>2, <1>3 DEF KeepingLoop
<1> QED
  BY <1>1, <1>2, <1>4 DEF e

\* A step of the pointers is a step of History or none.
LEMMA StepIsHistoryStep ==
    IInv /\ [Next]_vars /\ ContentsInv /\ ContentsInv' => [H!Next]_(H!vars)
<1> SUFFICES ASSUME IInv, [Next]_vars, ContentsInv, ContentsInv'
             PROVE  [H!Next]_(H!vars)
  OBVIOUS
<1>1. PICK s \in Seq(Objs) : HeapInv(s) /\ Busy(s)
  BY DEF IInv
<1>2. PICK l : l = Shown(s)
  OBVIOUS
<1>3. PICK t \in Seq(Objs) : Kept(t) /\ Effect(l, Shown(t)')
  BY <1>1, <1>2, NextStep DEF IInv
<1> DEFINE list == IF call.by = "nobody" THEN Contents ELSE before
<1>4. list = l
  BY <1>1, <1>2 DEF ContentsInv, Shown
<1>5. list' = Shown(t)'
  BY <1>3 DEF ContentsInv, Shown, Kept
<1> HIDE DEF list
<1>6. CASE now < MaxTime /\ now' = now + 1 /\ verdict' = NoCall /\ Shown(t)' = l
  <2>1. list' = list
    BY <1>4, <1>5, <1>6
  <2>2. H!Tick
    BY <1>6, <2>1 DEF H!Tick, list
  <2> QED
    BY <2>2 DEF H!Next
<1>7. ASSUME Len(l) < MaxItems, now' = now, NEW item, Comes(item),
             Shown(t)' = H!Added(l, item),
             verdict' = [item |-> item, dup |-> H!IsDup(l, item)]
      PROVE  H!Next
  <2>1. Len(list) < MaxItems /\ list' = H!Added(list, item)
        /\ verdict' = [item |-> item, dup |-> H!IsDup(list, item)]
    BY <1>4, <1>5, <1>7
  <2>2. H!AddHistoryItem(item)
    BY <1>7, <2>1 DEF H!AddHistoryItem, list
  <2>3. CASE \E p \in Packets, c \in H!Created :
               item = H!Entry(p, H!destINET, ttlDefault, c, TRUE, FALSE)
    BY <2>2, <2>3 DEF H!Next, H!AddInet
  <2>4. CASE \E p \in RfPackets, c \in H!Created, a \in BOOLEAN :
               item = H!Entry(p, H!destTNC, H!ttlTNC, c, FALSE, a)
    BY <2>2, <2>4 DEF H!Next, H!AddTnc
  <2> QED
    BY <1>7, <2>3, <2>4 DEF Comes
<1>8. CASE now' = now /\ verdict' = NoCall /\ Shown(t)' = H!Aged(l)
  <2>1. list' = H!Aged(list)
    BY <1>4, <1>5, <1>8
  <2>2. \/ Len(list) <= 1 /\ list' = list
        \/ list # <<>> /\ list' = H!Aged(list)
    <3>1. Len(<<>>) <= 1 /\ H!Aged(<<>>) = <<>>
      BY EmptyIsNotAged
    <3> QED
      BY <2>1, <3>1
  <2>3. H!DeleteOldItems
    BY <1>8, <2>2 DEF H!DeleteOldItems, list
  <2> QED
    BY <2>3 DEF H!Next
<1>9. CASE now' = now /\ verdict' = verdict /\ Shown(t)' = l
  <2>1. list' = list
    BY <1>4, <1>5, <1>9
  <2> QED
    BY <1>9, <2>1 DEF H!vars, list
<1> QED
  BY <1>3, <1>6, <1>7, <1>8, <1>9 DEF Effect

\* The linked list is a correct implementation of the sequence: while no one
\* holds the lock, what the pointers lead to is the list of module History,
\* and each call of AddHistoryItem and DeleteOldItems changes it, and answers,
\* as there, whatever the number of turns its loop makes and whatever main and
\* the clock do in between (history.cpp 103-253).
THEOREM PointersImplementHistory == Spec => ImplementsHistory
<1>1. Init => H!Init
  <2> SUFFICES ASSUME Init PROVE H!Init
    OBVIOUS
  <2>1. HeapInv(<<>>) /\ <<>> \in Seq(Objs)
    BY EmptyList, EmptySeq
  <2>2. Contents = ItemsOf(node, <<>>)
    BY <2>1, ContentsRead
  <2>3. ItemsOf(node, <<>>) = <<>>
    BY DEF ItemsOf
  <2> QED
    BY <2>2, <2>3 DEF Init, H!Init, Unlocked
<1> QED
  BY <1>1, IInvHolds, StepIsHistoryStep, ContentsAlways, PTL
     DEF Spec, ImplementsHistory, H!Spec
==============================================================================
