----------------------------- MODULE HeapProofs -----------------------------
(***************************************************************************)
(* Proofs about PageAlloc and Heap, for every number of pages, page size,  *)
(* alignment, header and set of request sizes.                             *)
(***************************************************************************)
EXTENDS Heap, FiniteSetTheorems, WellFoundedInduction, NaturalsInduction, TLAPS

Chunk == [start : Nat \ {0}, pagecnt : Nat \ {0}]
End(c) == c.start + c.pagecnt

(* Chunks ascend without overlapping; without touching either.             *)
Ascending(s) == \A i, j \in 1 .. Len(s) : i < j => End(s[i]) <= s[j].start
Separated(s) == \A i, j \in 1 .. Len(s) : i < j => End(s[i]) < s[j].start

(* Page p is in one of the first n chunks of s.                            *)
Within(p, c) == p \in Nat /\ c.start <= p /\ p < End(c)
InFirst(p, s, n) == \E i \in 1 .. n : Within(p, s[i])

(* The invariant of the page allocator: the list is canonical, and a page  *)
(* is in it exactly when nobody holds it.                                  *)
AllocInv ==
  /\ chunks \in Seq(Chunk)
  /\ Separated(chunks)
  /\ used \in SUBSET AllPages
  /\ \A p : InFirst(p, chunks, Len(chunks)) <=> p \in AllPages /\ p \notin used
  /\ kernel \in {"running", "halted"}

---------------------------------------------------------------------------
(* Numbers, loops and lists.                                               *)

(* A non-empty set of natural numbers has a least member.                  *)
LEMMA LeastNumber ==
  ASSUME NEW T, T \subseteq Nat, T # {}
  PROVE  \E x \in T : \A y \in T : x <= y
<1>1. IsWellFoundedOn(OpToRel(<, Nat), Nat)
  BY NatLessThanWellFounded
<1>2. PICK x \in T : \A y \in T : ~(<<y, x>> \in OpToRel(<, Nat))
  BY <1>1, WFMin
<1>3. \A y \in T : ~(y < x)
  BY <1>2 DEF OpToRel
<1> QED BY <1>3

(* What holds before a loop and is kept by its first n iterations.         *)
LEMMA Iterations ==
  ASSUME NEW n \in Nat, NEW T, 0 \in T, \A i \in 0 .. n : i < n /\ i \in T => i + 1 \in T
  PROVE  \A i \in 0 .. n : i \in T
<1> SUFFICES ASSUME NEW m \in 0 .. n, m \notin T PROVE FALSE
  OBVIOUS
<1>1. PICK k \in {i \in 0 .. n : i \notin T} : \A j \in {i \in 0 .. n : i \notin T} : k <= j
  <2>1. {i \in 0 .. n : i \notin T} \subseteq Nat /\ {i \in 0 .. n : i \notin T} # {}
    OBVIOUS
  <2> QED BY <2>1, LeastNumber
<1>2. k # 0 /\ k - 1 \in 0 .. n /\ ~(k <= k - 1) /\ k - 1 < n /\ (k - 1) + 1 = k
  OBVIOUS
<1>3. k - 1 \in T
  BY <1>1, <1>2
<1> QED BY <1>2, <1>3

(* f lists the values a loop of n iterations goes through from base, its   *)
(* body being the function step.                                           *)
Loop(f, S, base, step, n) ==
  f \in [0 .. n -> S] /\ f[0] = base /\ \A i \in 1 .. n : f[i] = step[i][f[i - 1]]

(* Every loop computes something.                                          *)
LEMMA LoopExists ==
  ASSUME NEW S, NEW base \in S, NEW step, \A x \in S, i \in Nat : step[i][x] \in S, NEW n \in Nat
  PROVE  \E f : Loop(f, S, base, step, n)
<1> DEFINE Computes(f, m) == /\ f \in [0 .. m -> S] /\ f[0] = base
                             /\ \A i \in 1 .. m : f[i] = step[i][f[i - 1]]
           T == {m \in 0 .. n : \E f : Computes(f, m)}
<1>1. 0 \in T
  <2> DEFINE f == [i \in 0 .. 0 |-> base]
  <2>1. Computes(f, 0)
    OBVIOUS
  <2> HIDE DEF f, Computes
  <2>2. 0 \in 0 .. n
    OBVIOUS
  <2> QED BY <2>1, <2>2
<1>2. ASSUME NEW m \in 0 .. n, m < n, m \in T PROVE m + 1 \in T
  <2> HIDE DEF Computes
  <2>1. PICK f : Computes(f, m)
    BY <1>2
  <2> DEFINE g == [i \in 0 .. m + 1 |-> IF i <= m THEN f[i] ELSE step[m + 1][f[m]]]
  <2>2. /\ f \in [0 .. m -> S] /\ f[0] = base
        /\ \A i \in 1 .. m : f[i] = step[i][f[i - 1]]
    BY <2>1 DEF Computes
  <2>3. f[m] \in S /\ step[m + 1][f[m]] \in S
    BY <2>2
  <2>4. g \in [0 .. m + 1 -> S] /\ g[0] = base
    BY <2>2, <2>3
  <2>5. ASSUME NEW i \in 1 .. m + 1 PROVE g[i] = step[i][g[i - 1]]
    <3>1. i - 1 \in 0 .. m /\ g[i - 1] = f[i - 1]
      OBVIOUS
    <3>2. CASE i <= m
      BY <3>1, <3>2, <2>2
    <3>3. CASE i = m + 1
      BY <3>1, <3>3
    <3> QED BY <3>2, <3>3
  <2> HIDE DEF g
  <2>6. Computes(g, m + 1)
    BY <2>4, <2>5 DEF Computes
  <2>7. m + 1 \in 0 .. n
    BY <1>2
  <2> QED BY <2>6, <2>7
<1> HIDE DEF T
<1>3. n \in T
  <2>1. \A i \in 0 .. n : i < n /\ i \in T => i + 1 \in T
    BY <1>2
  <2>2. \A i \in 0 .. n : i \in T
    BY <1>1, <2>1, Iterations
  <2> QED BY <2>2
<1>4. PICK f : Computes(f, n)
  BY <1>3 DEF T
<1> QED BY <1>4 DEF Loop

(* Removing a position closes the gap and keeps the order.                 *)
LEMMA RemoveAtProperties ==
  ASSUME NEW S, NEW s \in Seq(S), NEW i \in 1 .. Len(s)
  PROVE  /\ RemoveAt(s, i) \in Seq(S)
         /\ Len(RemoveAt(s, i)) = Len(s) - 1
         /\ \A j \in 1 .. Len(s) - 1 :
              RemoveAt(s, i)[j] = IF j < i THEN s[j] ELSE s[j + 1]
<1> DEFINE u == SubSeq(s, 1, i - 1)
           v == SubSeq(s, i + 1, Len(s))
<1>1. Len(s) \in Nat /\ i \in Nat /\ i >= 1 /\ i <= Len(s)
  OBVIOUS
<1>2. u \in Seq(S) /\ Len(u) = i - 1
  BY <1>1
<1>3. ASSUME NEW j \in 1 .. i - 1 PROVE u[j] = s[j]
  BY <1>1
<1>4. Len(v) = Len(s) - i
  BY <1>1
<1>5. v \in Seq(S)
  BY <1>1
<1>6. ASSUME NEW j \in 1 .. Len(s) - i PROVE v[j] = s[j + i]
  BY <1>1, <1>4
<1>7. RemoveAt(s, i) = u \o v
  BY DEF RemoveAt
<1> HIDE DEF u, v
<1>8. u \o v \in Seq(S)
  BY <1>2, <1>5
<1>9. Len(u \o v) = Len(s) - 1
  BY <1>1, <1>2, <1>4, <1>5
<1>10. ASSUME NEW j \in 1 .. Len(s) - 1
       PROVE  (u \o v)[j] = IF j < i THEN s[j] ELSE s[j + 1]
  <2>1. CASE j < i
    BY <2>1, <1>1, <1>2, <1>3, <1>4, <1>5
  <2>2. CASE ~(j < i)
    <3>1. (u \o v)[j] = v[j - (i - 1)]
      BY <2>2, <1>1, <1>2, <1>4, <1>5
    <3> QED BY <2>2, <1>1, <1>6, <3>1
  <2> QED BY <2>1, <2>2
<1> QED BY <1>7, <1>8, <1>9, <1>10

(* Inserting an element opens a gap and keeps the order of the others.     *)
LEMMA InsertAtProperties ==
  ASSUME NEW S, NEW s \in Seq(S), NEW i \in 1 .. Len(s) + 1, NEW e \in S
  PROVE  /\ InsertAt(s, i, e) \in Seq(S)
         /\ Len(InsertAt(s, i, e)) = Len(s) + 1
         /\ \A j \in 1 .. Len(s) + 1 :
              InsertAt(s, i, e)[j] = IF j < i THEN s[j] ELSE IF j = i THEN e ELSE s[j - 1]
<1> DEFINE u == SubSeq(s, 1, i - 1)
           v == SubSeq(s, i, Len(s))
           w == u \o <<e>>
<1>1. Len(s) \in Nat /\ i \in Nat /\ i >= 1 /\ i <= Len(s) + 1
  OBVIOUS
<1>2. u \in Seq(S) /\ Len(u) = i - 1
  BY <1>1
<1>3. ASSUME NEW j \in 1 .. i - 1 PROVE u[j] = s[j]
  BY <1>1
<1>4. Len(v) = Len(s) - i + 1
  BY <1>1
<1>5. v \in Seq(S)
  BY <1>1
<1>6. ASSUME NEW j \in 1 .. Len(s) - i + 1 PROVE v[j] = s[j + i - 1]
  BY <1>1, <1>4
<1>7. InsertAt(s, i, e) = w \o v
  BY DEF InsertAt
<1> HIDE DEF u, v
<1>8. w \in Seq(S) /\ Len(w) = i /\ w[i] = e
  BY <1>1, <1>2
<1>9. ASSUME NEW j \in 1 .. i - 1 PROVE w[j] = s[j]
  BY <1>1, <1>2, <1>3
<1> HIDE DEF w
<1>10. w \o v \in Seq(S) /\ Len(w \o v) = Len(s) + 1
  BY <1>1, <1>4, <1>5, <1>8
<1>11. ASSUME NEW j \in 1 .. Len(s) + 1
       PROVE  (w \o v)[j] = IF j < i THEN s[j] ELSE IF j = i THEN e ELSE s[j - 1]
  <2>1. CASE j <= i
    <3>1. (w \o v)[j] = w[j]
      BY <2>1, <1>1, <1>4, <1>5, <1>8
    <3> QED BY <3>1, <2>1, <1>1, <1>8, <1>9
  <2>2. CASE ~(j <= i)
    <3>1. (w \o v)[j] = v[j - i]
      BY <2>2, <1>1, <1>4, <1>5, <1>8
    <3>2. j - i \in 1 .. Len(s) - i + 1 /\ (j - i) + i - 1 = j - 1
      BY <2>2, <1>1
    <3> QED BY <2>2, <1>1, <1>6, <3>1, <3>2
  <2> QED BY <2>1, <2>2
<1> QED BY <1>7, <1>10, <1>11

---------------------------------------------------------------------------
(* The loops of the allocator.                                             *)

(* A chunk has at least one page and starts behind page 0.                 *)
LEMMA ChunkFields ==
  ASSUME NEW c \in Chunk
  PROVE  /\ c.start \in Nat /\ c.start >= 1 /\ c.pagecnt \in Nat /\ c.pagecnt >= 1
         /\ End(c) \in Nat /\ c.start < End(c) /\ c = [start |-> c.start, pagecnt |-> c.pagecnt]
<1>1. c.start \in Nat /\ c.start # 0 /\ c.pagecnt \in Nat /\ c.pagecnt # 0
  BY DEF Chunk
<1>2. c = [start |-> c.start, pagecnt |-> c.pagecnt]
  BY DEF Chunk
<1> QED BY <1>1, <1>2 DEF End

(* The members of a list of chunks.                                        *)
LEMMA ListFields ==
  ASSUME NEW s \in Seq(Chunk)
  PROVE  /\ Len(s) \in Nat /\ (s # <<>> <=> Len(s) >= 1) /\ (s # <<>> <=> Len(s) # 0)
         /\ \A i \in 1 .. Len(s) :
              /\ s[i] \in Chunk
              /\ s[i].start \in Nat /\ s[i].start >= 1 /\ s[i].pagecnt \in Nat /\ s[i].pagecnt >= 1
              /\ End(s[i]) \in Nat /\ s[i].start < End(s[i])
<1>1. Len(s) \in Nat
  OBVIOUS
<1>2. (s = <<>>) <=> (Len(s) = 0)
  OBVIOUS
<1>3. \A i \in 1 .. Len(s) : s[i] \in Chunk
  OBVIOUS
<1>4. ASSUME NEW i \in 1 .. Len(s)
      PROVE  /\ s[i].start \in Nat /\ s[i].start >= 1 /\ s[i].pagecnt \in Nat /\ s[i].pagecnt >= 1
             /\ End(s[i]) \in Nat /\ s[i].start < End(s[i])
  BY <1>3, ChunkFields
<1>5. (s # <<>> <=> Len(s) >= 1) /\ (s # <<>> <=> Len(s) # 0)
  BY <1>1, <1>2
<1> QED BY <1>1, <1>3, <1>4, <1>5

(* The search of alloc_phys_pages ends with a chunk that is too small only *)
(* if all are, and otherwise with a smallest one that fits.                *)
LEMMA BestFitFound ==
  ASSUME chunks \in Seq(Chunk), chunks # <<>>, NEW cnt \in Nat
  PROVE  /\ BestFit(cnt) \in 1 .. Len(chunks)
         /\ chunks[BestFit(cnt)].pagecnt < cnt =>
              \A j \in 1 .. Len(chunks) : chunks[j].pagecnt < cnt
         /\ \A j \in 1 .. Len(chunks) : chunks[j].pagecnt >= cnt =>
              chunks[BestFit(cnt)].pagecnt <= chunks[j].pagecnt
<1> DEFINE n == Len(chunks)
           step == [i \in Nat |-> [b \in Nat |-> IF Closer(b, i, cnt) THEN i ELSE b]]
           IsBest(b) == b = [i \in 0 .. n |-> IF i = 0 THEN 1
                               ELSE IF Closer(b[i - 1], i, cnt) THEN i ELSE b[i - 1]]
           best == CHOOSE b : IsBest(b)
<1>1. n \in Nat /\ n >= 1 /\ \A i \in 1 .. n : chunks[i].pagecnt \in Nat
  BY ListFields
<1>2. PICK f : Loop(f, Nat, 1, step, n)
  <2>1. \A x \in Nat, i \in Nat : step[i][x] \in Nat
    OBVIOUS
  <2>2. 1 \in Nat /\ n \in Nat
    BY <1>1
  <2> HIDE DEF step, n
  <2> QED BY <2>1, <2>2, LoopExists
<1>3. ASSUME NEW i \in 1 .. n PROVE f[i] = IF Closer(f[i - 1], i, cnt) THEN i ELSE f[i - 1]
  <2> HIDE DEF step
  <2>1. i \in Nat /\ f[i - 1] \in Nat
    BY <1>1, <1>2 DEF Loop
  <2>2. f[i] = step[i][f[i - 1]]
    BY <1>2 DEF Loop
  <2> USE DEF step
  <2> QED BY <2>1, <2>2
<1>4. IsBest(f)
  <2> DEFINE g == [i \in 0 .. n |-> IF i = 0 THEN 1
                               ELSE IF Closer(f[i - 1], i, cnt) THEN i ELSE f[i - 1]]
  <2>1. \A i \in 0 .. n : f[i] = g[i]
    BY <1>1, <1>2, <1>3 DEF Loop
  <2>2. f \in [0 .. n -> Nat]
    BY <1>2 DEF Loop
  <2>3. f = g
    BY <2>1, <2>2
  <2> QED BY <2>3
<1>5. IsBest(best)
  <2> HIDE DEF IsBest
  <2> QED BY <1>4
<1>6. BestFit(cnt) = best[n]
  BY DEF BestFit
<1> HIDE DEF best
<1>7. /\ best[0] = 1
      /\ \A i \in 1 .. n : best[i] = IF Closer(best[i - 1], i, cnt) THEN i ELSE best[i - 1]
  <2>1. \A i \in 0 .. n : best[i] = IF i = 0 THEN 1
                                   ELSE IF Closer(best[i - 1], i, cnt) THEN i ELSE best[i - 1]
    BY <1>5
  <2> QED BY <2>1, <1>1
<1> DEFINE Best(i) ==
             /\ best[i] \in 1 .. n
             /\ chunks[best[i]].pagecnt < cnt => \A j \in 1 .. i : chunks[j].pagecnt < cnt
             /\ \A j \in 1 .. i : chunks[j].pagecnt >= cnt => chunks[best[i]].pagecnt <= chunks[j].pagecnt
           T == {i \in 0 .. n : Best(i)}
<1> HIDE DEF n, step, IsBest
<1>8. 0 \in T
  BY <1>1, <1>7
<1>9. ASSUME NEW i \in 0 .. n, i < n, i \in T PROVE i + 1 \in T
  <2>1. best[i + 1] = IF Closer(best[i], i + 1, cnt) THEN i + 1 ELSE best[i]
    BY <1>1, <1>7, <1>9
  <2>2. i + 1 \in 1 .. n /\ chunks[i + 1].pagecnt \in Nat
    BY <1>1, <1>9
  <2>3. /\ best[i] \in 1 .. n /\ chunks[best[i]].pagecnt \in Nat
        /\ chunks[best[i]].pagecnt < cnt => \A j \in 1 .. i : chunks[j].pagecnt < cnt
        /\ \A j \in 1 .. i : chunks[j].pagecnt >= cnt => chunks[best[i]].pagecnt <= chunks[j].pagecnt
    <3>1. best[i] \in 1 .. n
      BY <1>9
    <3>2. chunks[best[i]].pagecnt < cnt => \A j \in 1 .. i : chunks[j].pagecnt < cnt
      BY <1>9
    <3>3. \A j \in 1 .. i : chunks[j].pagecnt >= cnt => chunks[best[i]].pagecnt <= chunks[j].pagecnt
      BY <1>9
    <3> QED BY <3>1, <3>2, <3>3, <1>1
  <2>4. \A j \in 1 .. i + 1 : j \in 1 .. i \/ j = i + 1
    BY <1>9
  <2>5. \A j \in 1 .. i : chunks[j].pagecnt \in Nat
    BY <1>1, <1>9
  <2>6. CASE Closer(best[i], i + 1, cnt)
    <3>1. best[i + 1] = i + 1
      BY <2>1, <2>6
    <3>2. chunks[i + 1].pagecnt < cnt => \A j \in 1 .. i + 1 : chunks[j].pagecnt < cnt
      <4>1. chunks[i + 1].pagecnt < cnt => chunks[best[i]].pagecnt < cnt
        BY <2>2, <2>3, <2>6 DEF Closer
      <4> QED BY <4>1, <2>3, <2>4
    <3>3. \A j \in 1 .. i + 1 : chunks[j].pagecnt >= cnt => chunks[i + 1].pagecnt <= chunks[j].pagecnt
      <4>1. ASSUME NEW j \in 1 .. i, chunks[j].pagecnt >= cnt
            PROVE  chunks[i + 1].pagecnt <= chunks[j].pagecnt
        <5>1. chunks[best[i]].pagecnt <= chunks[j].pagecnt /\ ~(chunks[best[i]].pagecnt < cnt)
          BY <4>1, <2>3, <2>5
        <5>2. chunks[i + 1].pagecnt < chunks[best[i]].pagecnt
          BY <5>1, <2>6 DEF Closer
        <5>3. PICK x \in Nat, y \in Nat, z \in Nat :
                 x = chunks[i + 1].pagecnt /\ y = chunks[best[i]].pagecnt /\ z = chunks[j].pagecnt
          BY <2>2, <2>3, <2>5
        <5>4. x < y /\ y <= z
          BY <5>1, <5>2, <5>3, Zenon
        <5>5. x <= z
          BY <5>4
        <5> QED BY <5>3, <5>5, Zenon
      <4> QED BY <4>1, <2>2, <2>4
    <3> QED BY <3>1, <3>2, <3>3, <2>2, <1>1
  <2>7. CASE ~Closer(best[i], i + 1, cnt)
    <3>1. best[i + 1] = best[i]
      BY <2>1, <2>7
    <3>2. chunks[best[i]].pagecnt < cnt => \A j \in 1 .. i + 1 : chunks[j].pagecnt < cnt
      <4>1. chunks[best[i]].pagecnt < cnt => FALSE
        BY <2>7 DEF Closer
      <4> QED BY <4>1
    <3>3. \A j \in 1 .. i + 1 : chunks[j].pagecnt >= cnt => chunks[best[i]].pagecnt <= chunks[j].pagecnt
      BY <2>2, <2>3, <2>4, <2>5, <2>7 DEF Closer
    <3> QED BY <3>1, <3>2, <3>3, <2>2, <2>3, <1>1
  <2> QED BY <2>6, <2>7
<1>10. n \in T
  <2> HIDE DEF T
  <2>1. \A i \in 0 .. n : i < n /\ i \in T => i + 1 \in T
    BY <1>9
  <2>2. \A i \in 0 .. n : i \in T
    BY <1>1, <1>8, <2>1, Iterations
  <2> QED BY <1>1, <2>2
<1> QED BY <1>6, <1>10 DEF n

(* One more chunk behind a canonical list that ends where the previous     *)
(* chunk ended.                                                            *)
LEMMA MergedProperties ==
  ASSUME NEW d \in Seq(Chunk), Separated(d), NEW c \in Chunk,
         d # <<>> => End(d[Len(d)]) <= c.start
  PROVE  /\ Merged(d, c) \in Seq(Chunk) /\ Merged(d, c) # <<>>
         /\ Separated(Merged(d, c))
         /\ End(Merged(d, c)[Len(Merged(d, c))]) = End(c)
         /\ \A p : InFirst(p, Merged(d, c), Len(Merged(d, c))) <=> InFirst(p, d, Len(d)) \/ Within(p, c)
<1> DEFINE n == Len(d)
           last == d[n]
<1>1. n \in Nat /\ c.start \in Nat \ {0} /\ c.pagecnt \in Nat \ {0}
  BY DEF Chunk
<1>2. \A i \in 1 .. n : /\ d[i] \in Chunk /\ d[i].start \in Nat \ {0} /\ d[i].pagecnt \in Nat \ {0}
                         /\ End(d[i]) \in Nat /\ d[i].start < End(d[i])
  BY ListFields
<1>3. CASE d # <<>> /\ Adjoins(last, c)
  <2> DEFINE big == [start |-> last.start, pagecnt |-> last.pagecnt + c.pagecnt]
             m == [d EXCEPT ![n] = big]
  <2>1. n \in 1 .. n /\ End(last) = c.start /\ Last(d) = last
    BY <1>1, <1>3 DEF Adjoins, End, Last
  <2>2. last \in Chunk /\ [last EXCEPT !.pagecnt = @ + c.pagecnt] = big /\ big \in Chunk
    <3>1. last \in Chunk
      BY <2>1, <1>2
    <3>2. last.start \in Nat \ {0} /\ last.pagecnt + c.pagecnt \in Nat \ {0}
      <4>1. last.start \in Nat \ {0} /\ last.pagecnt \in Nat \ {0}
        BY <2>1, <1>2
      <4> QED BY <4>1, <1>1
    <3>3. big \in Chunk
      BY <3>2 DEF Chunk
    <3>4. [last EXCEPT !.pagecnt = @ + c.pagecnt] = big
      BY <3>1 DEF Chunk
    <3> QED BY <3>1, <3>3, <3>4
  <2>3. Merged(d, c) = m
    BY <2>1, <2>2, <1>3 DEF Merged
  <2>4. /\ m \in Seq(Chunk) /\ Len(m) = n /\ m # <<>> /\ m[n] = big
        /\ \A i \in 1 .. n : i < n => m[i] = d[i]
    BY <2>1, <2>2, <1>1, <1>3
  <2> HIDE DEF m
  <2>5. big.start = last.start /\ End(big) = End(c) /\ last.start \in Nat /\ End(last) = c.start
    <3>1. last.start \in Nat /\ last.pagecnt \in Nat /\ last.start + last.pagecnt = c.start
      BY <2>1, <1>2 DEF End
    <3>2. last.start + (last.pagecnt + c.pagecnt) = c.start + c.pagecnt
      BY <3>1, <1>1
    <3> QED BY <3>1, <3>2, <2>1 DEF End
  <2> HIDE DEF big
  <2>6. Separated(m)
    <3> SUFFICES ASSUME NEW i \in 1 .. n, NEW j \in 1 .. n, i < j PROVE End(m[i]) < m[j].start
      BY <2>4 DEF Separated
    <3>1. m[i] = d[i] /\ m[j].start = d[j].start
      BY <2>4, <2>5, <1>1
    <3> QED BY <3>1 DEF Separated
  <2>7. \A p : Within(p, big) <=> Within(p, last) \/ Within(p, c)
    <3>1. /\ last.start \in Nat /\ End(last) = c.start /\ last.start < c.start /\ c.start \in Nat
          /\ End(c) \in Nat /\ c.start < End(c) /\ big.start = last.start /\ End(big) = End(c)
      BY <2>1, <2>5, <1>1, <1>2, ChunkFields
    <3> QED BY <3>1 DEF Within
  <2>8. \A p : InFirst(p, m, n) <=> InFirst(p, d, n) \/ Within(p, c)
    <3> TAKE p
    <3>1. InFirst(p, m, n) => InFirst(p, d, n) \/ Within(p, c)
      BY <2>1, <2>4, <2>7, <1>1 DEF InFirst
    <3>2. InFirst(p, d, n) => InFirst(p, m, n)
      BY <2>1, <2>4, <2>7, <1>1 DEF InFirst
    <3>3. Within(p, c) => InFirst(p, m, n)
      BY <2>1, <2>4, <2>7 DEF InFirst
    <3> QED BY <3>1, <3>2, <3>3
  <2> QED BY <2>3, <2>4, <2>5, <2>6, <2>8
<1>4. CASE ~(d # <<>> /\ Adjoins(last, c))
  <2> DEFINE m == Append(d, c)
  <2>1. Merged(d, c) = m
    <3>1. d # <<>> => Last(d) = last
      BY DEF Last
    <3> QED BY <3>1, <1>4 DEF Merged
  <2>2. /\ m \in Seq(Chunk) /\ Len(m) = n + 1 /\ m # <<>> /\ m[n + 1] = c
        /\ \A i \in 1 .. n : m[i] = d[i]
    BY <1>1
  <2> HIDE DEF m
  <2>3. ASSUME NEW i \in 1 .. n PROVE End(d[i]) < c.start
    <3>1. n \in 1 .. n /\ d # <<>>
      BY <1>1
    <3>2. End(last) < c.start /\ End(last) \in Nat /\ last.start \in Nat /\ last.start < End(last)
      <4>1. End(last) # c.start /\ End(last) <= c.start
        BY <3>1, <1>4 DEF Adjoins, End
      <4> QED BY <4>1, <3>1, <1>1, <1>2
    <3>3. i = n \/ End(d[i]) < last.start
      BY <3>1, <1>1 DEF Separated
    <3> QED BY <3>2, <3>3, <1>1, <1>2 DEF End
  <2>4. Separated(m)
    <3> SUFFICES ASSUME NEW i \in 1 .. n + 1, NEW j \in 1 .. n + 1, i < j PROVE End(m[i]) < m[j].start
      BY <2>2 DEF Separated
    <3>1. i \in 1 .. n /\ m[i] = d[i]
      BY <2>2, <1>1
    <3>2. CASE j = n + 1
      BY <3>1, <3>2, <2>2, <2>3
    <3>3. CASE j # n + 1
      <4>1. j \in 1 .. n
        BY <3>3, <1>1
      <4> QED BY <4>1, <3>1, <2>2 DEF Separated
    <3> QED BY <3>2, <3>3
  <2>5. \A p : InFirst(p, m, n + 1) <=> InFirst(p, d, n) \/ Within(p, c)
    <3> TAKE p
    <3>1. \A i \in 1 .. n + 1 : i \in 1 .. n \/ i = n + 1
      BY <1>1
    <3>2. \A i \in 1 .. n : i \in 1 .. n + 1
      BY <1>1
    <3>3. n + 1 \in 1 .. n + 1
      BY <1>1
    <3> QED BY <3>1, <3>2, <3>3, <2>2 DEF InFirst
  <2> QED BY <2>1, <2>2, <2>4, <2>5
<1> QED BY <1>3, <1>4

(* A merge step makes a list of chunks out of any list of chunks.          *)
LEMMA MergedType ==
  ASSUME NEW d \in Seq(Chunk), NEW c \in Chunk
  PROVE  Merged(d, c) \in Seq(Chunk)
<1>1. CASE d # <<>> /\ Adjoins(Last(d), c)
  <2>1. Len(d) \in 1 .. Len(d) /\ d[Len(d)] \in Chunk
    BY <1>1, ListFields
  <2>2. PICK big : big = [d[Len(d)] EXCEPT !.pagecnt = @ + c.pagecnt]
    OBVIOUS
  <2>3. big \in Chunk
    <3>1. PICK s \in Nat, k \in Nat, l \in Nat :
             /\ d[Len(d)] = [start |-> s, pagecnt |-> k] /\ s >= 1 /\ k >= 1 /\ l = c.pagecnt
      BY <2>1, ChunkFields
    <3>2. big = [start |-> s, pagecnt |-> k + l]
      BY <2>2, <3>1
    <3> QED BY <3>1, <3>2 DEF Chunk
  <2>4. Merged(d, c) = [d EXCEPT ![Len(d)] = big]
    BY <1>1, <2>2 DEF Merged
  <2> QED BY <2>1, <2>3, <2>4
<1>2. CASE ~(d # <<>> /\ Adjoins(Last(d), c))
  <2>1. Merged(d, c) = Append(d, c)
    BY <1>2 DEF Merged
  <2> QED BY <2>1
<1> QED BY <1>1, <1>2

(* coalesce: an ascending list becomes a canonical one of the same pages.  *)
LEMMA CoalesceProperties ==
  ASSUME NEW list \in Seq(Chunk), Ascending(list)
  PROVE  /\ Coalesce(list) \in Seq(Chunk)
         /\ Separated(Coalesce(list))
         /\ \A p : InFirst(p, Coalesce(list), Len(Coalesce(list))) <=> InFirst(p, list, Len(list))
<1> DEFINE n == Len(list)
           step == [i \in Nat |-> [x \in Seq(Chunk) |-> IF i \in 1 .. n THEN Merged(x, list[i]) ELSE x]]
           IsDone(d) == d = [i \in 0 .. n |-> IF i = 0 THEN <<>> ELSE Merged(d[i - 1], list[i])]
           done == CHOOSE d : IsDone(d)
<1>1. n \in Nat /\ \A i \in 1 .. n : list[i] \in Chunk
  BY ListFields
<1>2. PICK f : Loop(f, Seq(Chunk), <<>>, step, n)
  <2>1. ASSUME NEW x \in Seq(Chunk), NEW i \in Nat PROVE step[i][x] \in Seq(Chunk)
    <3>1. step[i][x] = IF i \in 1 .. n THEN Merged(x, list[i]) ELSE x
      OBVIOUS
    <3> HIDE DEF step, n
    <3>2. CASE i \in 1 .. n
      <4>1. Merged(x, list[i]) \in Seq(Chunk)
        BY <3>2, <1>1, MergedType
      <4> QED BY <3>1, <3>2, <4>1
    <3>3. CASE i \notin 1 .. n
      BY <3>1, <3>3
    <3> QED BY <3>2, <3>3
  <2>2. <<>> \in Seq(Chunk) /\ n \in Nat
    BY <1>1
  <2> HIDE DEF step, n
  <2> QED BY <2>1, <2>2, LoopExists
<1>3. ASSUME NEW i \in 1 .. n PROVE f[i] = Merged(f[i - 1], list[i])
  <2> HIDE DEF step
  <2>1. i \in Nat /\ f[i - 1] \in Seq(Chunk)
    BY <1>1, <1>2 DEF Loop
  <2>2. f[i] = step[i][f[i - 1]]
    BY <1>2 DEF Loop
  <2> USE DEF step
  <2> QED BY <2>1, <2>2
<1>4. IsDone(f)
  <2> DEFINE g == [i \in 0 .. n |-> IF i = 0 THEN <<>> ELSE Merged(f[i - 1], list[i])]
  <2>1. \A i \in 0 .. n : f[i] = g[i]
    BY <1>1, <1>2, <1>3 DEF Loop
  <2>2. f \in [0 .. n -> Seq(Chunk)]
    BY <1>2 DEF Loop
  <2>3. f = g
    BY <2>1, <2>2
  <2> QED BY <2>3
<1>5. IsDone(done)
  <2> HIDE DEF IsDone
  <2> QED BY <1>4
<1>6. Coalesce(list) = done[n]
  BY DEF Coalesce
<1> HIDE DEF done
<1>7. done[0] = <<>> /\ \A i \in 1 .. n : done[i] = Merged(done[i - 1], list[i])
  <2>1. \A i \in 0 .. n : done[i] = IF i = 0 THEN <<>> ELSE Merged(done[i - 1], list[i])
    BY <1>5
  <2> QED BY <2>1, <1>1
<1> DEFINE Good(i) ==
             /\ done[i] \in Seq(Chunk) /\ Separated(done[i])
             /\ i = 0 => done[i] = <<>>
             /\ i # 0 => End(done[i][Len(done[i])]) = End(list[i])
             /\ \A p : InFirst(p, done[i], Len(done[i])) <=> InFirst(p, list, i)
           T == {i \in 0 .. n : Good(i)}
<1> HIDE DEF n, step, IsDone
<1>8. 0 \in T
  <2>1. <<>> \in Seq(Chunk) /\ Len(<<>>) = 0 /\ Separated(<<>>)
    BY DEF Separated
  <2>2. \A p : ~InFirst(p, <<>>, 0) /\ ~InFirst(p, list, 0)
    BY DEF InFirst
  <2>3. Good(0)
    BY <1>7, <2>1, <2>2
  <2> HIDE DEF Good
  <2> QED BY <2>3, <1>1
<1>9. ASSUME NEW i \in 0 .. n, i < n, i \in T PROVE i + 1 \in T
  <2>1. Good(i) /\ i \in Nat
    BY <1>1, <1>9
  <2>2. i + 1 \in 1 .. n /\ list[i + 1] \in Chunk /\ (i + 1) - 1 = i
    BY <1>1, <1>9
  <2>3. done[i + 1] = Merged(done[i], list[i + 1])
    BY <2>2, <1>7
  <2>4. done[i] # <<>> => End(done[i][Len(done[i])]) <= list[i + 1].start
    <3>1. CASE i = 0
      BY <3>1, <2>1
    <3>2. CASE i # 0
      <4>1. i \in 1 .. n /\ i < i + 1
        BY <3>2, <2>1, <1>9
      <4>2. End(list[i]) <= list[i + 1].start
        BY <4>1, <2>2 DEF Ascending, n
      <4> QED BY <4>2, <3>2, <2>1
    <3> QED BY <3>1, <3>2
  <2>5. PICK d : d = done[i + 1]
    OBVIOUS
  <2>6. /\ d \in Seq(Chunk) /\ Separated(d) /\ End(d[Len(d)]) = End(list[i + 1])
        /\ \A p : InFirst(p, d, Len(d)) <=> InFirst(p, done[i], Len(done[i])) \/ Within(p, list[i + 1])
    BY <2>1, <2>2, <2>3, <2>4, <2>5, MergedProperties
  <2>7. \A p : InFirst(p, list, i + 1) <=> InFirst(p, list, i) \/ Within(p, list[i + 1])
    <3>1. \A k : k \in 1 .. i + 1 <=> k \in 1 .. i \/ k = i + 1
      BY <2>1
    <3> QED BY <3>1, Zenon DEF InFirst
  <2>8. Good(i + 1)
    BY <2>1, <2>2, <2>5, <2>6, <2>7
  <2> HIDE DEF Good
  <2> QED BY <2>2, <2>8, <1>1
<1>10. n \in T
  <2> HIDE DEF T
  <2>1. \A i \in 0 .. n : i < n /\ i \in T => i + 1 \in T
    BY <1>9
  <2>2. \A i \in 0 .. n : i \in T
    BY <1>1, <1>8, <2>1, Iterations
  <2> QED BY <1>1, <2>2
<1> QED BY <1>6, <1>10 DEF n

---------------------------------------------------------------------------
(* What the operations do to a canonical list.                             *)

(* The chunks of a canonical list share no page.                           *)
LEMMA DisjointChunks ==
  ASSUME NEW s \in Seq(Chunk), Separated(s), NEW i \in 1 .. Len(s), NEW j \in 1 .. Len(s), i # j,
         NEW p, Within(p, s[i])
  PROVE  ~Within(p, s[j])
<1>1. PICK a \in Nat, b \in Nat, c \in Nat, d \in Nat :
         a = s[i].start /\ b = End(s[i]) /\ c = s[j].start /\ d = End(s[j])
  BY ListFields
<1>2. b < c \/ d < a
  <2>1. i < j \/ j < i
    BY ListFields
  <2>2. i < j => End(s[i]) < s[j].start
    BY DEF Separated
  <2>3. j < i => End(s[j]) < s[i].start
    BY DEF Separated
  <2> QED BY <2>1, <2>2, <2>3, <1>1
<1>3. p \in Nat /\ a <= p /\ p < b
  BY <1>1 DEF Within
<1>4. ~(c <= p /\ p < d)
  BY <1>2, <1>3
<1> QED BY <1>1, <1>4 DEF Within

(* Taking all of a chunk removes it from the list.                         *)
LEMMA RemovedChunk ==
  ASSUME NEW s \in Seq(Chunk), Separated(s), NEW i \in 1 .. Len(s),
         NEW m, m = RemoveAt(s, i)
  PROVE  /\ m \in Seq(Chunk) /\ Separated(m)
         /\ \A p : InFirst(p, m, Len(m)) <=> InFirst(p, s, Len(s)) /\ ~Within(p, s[i])
<1>1. /\ m \in Seq(Chunk) /\ Len(m) = Len(s) - 1
      /\ \A j \in 1 .. Len(s) - 1 : m[j] = IF j < i THEN s[j] ELSE s[j + 1]
  BY RemoveAtProperties
<1> DEFINE n == Len(s)
           old == [j \in 1 .. n - 1 |-> IF j < i THEN j ELSE j + 1]
<1>2. n \in Nat /\ i \in 1 .. n
  BY ListFields
<1>3. \A j \in 1 .. n - 1 : old[j] \in 1 .. n /\ old[j] # i
  BY <1>2
<1>4. \A j, k \in 1 .. n - 1 : j < k => old[j] < old[k]
  BY <1>2
<1>5. \A k \in 1 .. n : k # i => \E j \in 1 .. n - 1 : old[j] = k
  <2> SUFFICES ASSUME NEW k \in 1 .. n, k # i PROVE \E j \in 1 .. n - 1 : old[j] = k
    OBVIOUS
  <2>1. CASE k < i
    <3>1. k \in 1 .. n - 1 /\ old[k] = k
      BY <2>1, <1>2
    <3> QED BY <3>1
  <2>2. CASE ~(k < i)
    <3>1. k - 1 \in 1 .. n - 1 /\ old[k - 1] = k
      BY <2>2, <1>2
    <3> QED BY <3>1
  <2> QED BY <2>1, <2>2
<1>6. \A j \in 1 .. n - 1 : m[j] = s[old[j]]
  BY <1>1, <1>2
<1> HIDE DEF old, n
<1>7. Len(m) = n - 1 /\ n = Len(s)
  BY <1>1 DEF n
<1>8. Separated(m)
  BY <1>3, <1>4, <1>6, <1>7 DEF Separated
<1>9. ASSUME NEW p PROVE InFirst(p, m, Len(m)) <=> InFirst(p, s, Len(s)) /\ ~Within(p, s[i])
  <2>1. ASSUME NEW j \in 1 .. n - 1, Within(p, m[j]) PROVE InFirst(p, s, n) /\ ~Within(p, s[i])
    <3>1. Within(p, s[old[j]]) /\ old[j] \in 1 .. n /\ old[j] # i
      BY <2>1, <1>3, <1>6
    <3>2. InFirst(p, s, n)
      BY <3>1 DEF InFirst
    <3>3. ~Within(p, s[i])
      BY <3>1, <1>7, DisjointChunks
    <3> QED BY <3>2, <3>3
  <2>2. ASSUME NEW k \in 1 .. n, Within(p, s[k]), ~Within(p, s[i]) PROVE InFirst(p, m, n - 1)
    <3>1. PICK j \in 1 .. n - 1 : old[j] = k
      BY <2>2, <1>5
    <3> QED BY <3>1, <2>2, <1>6 DEF InFirst
  <2> QED BY <2>1, <2>2, <1>7 DEF InFirst
<1> QED BY <1>1, <1>8, <1>9

(* The last cnt of the pages from a to a + k.                              *)
LEMMA TailPages ==
  ASSUME NEW a \in Nat, NEW k \in Nat, NEW cnt \in Nat \ {0}, cnt <= k, NEW e, e = a + k, NEW p
  PROVE  p \in e - cnt .. e - 1 <=> p \in Nat /\ a + (k - cnt) <= p /\ p < a + k
OBVIOUS

(* Taking the tail of a larger chunk leaves its head.                      *)
LEMMA ShrunkChunk ==
  ASSUME NEW s \in Seq(Chunk), Separated(s), NEW i \in 1 .. Len(s),
         NEW cnt \in Nat \ {0}, cnt < s[i].pagecnt,
         NEW m, m = [s EXCEPT ![i].pagecnt = @ - cnt]
  PROVE  /\ m \in Seq(Chunk) /\ Separated(m)
         /\ \A p : InFirst(p, m, Len(m)) <=>
                   InFirst(p, s, Len(s)) /\ ~(p \in End(s[i]) - cnt .. End(s[i]) - 1)
<1>1. PICK a \in Nat, k \in Nat : s[i] = [start |-> a, pagecnt |-> k] /\ a >= 1 /\ k >= 1
  BY ListFields, ChunkFields
<1>2. PICK small : small = [start |-> a, pagecnt |-> k - cnt]
  OBVIOUS
<1>3. /\ small \in Chunk /\ small.start = a /\ End(small) = a + k - cnt
      /\ s[i].start = a /\ End(s[i]) = a + k /\ cnt < k
  <2>1. s[i].start = a /\ s[i].pagecnt = k /\ small.start = a /\ small.pagecnt = k - cnt
    BY <1>1, <1>2
  <2>2. cnt < k /\ a \in Nat \ {0} /\ k - cnt \in Nat \ {0} /\ a + (k - cnt) = a + k - cnt
    BY <1>1, <2>1
  <2> QED BY <1>2, <2>1, <2>2 DEF Chunk, End
<1>4. m = [s EXCEPT ![i] = small]
  <2>1. [s[i] EXCEPT !.pagecnt = @ - cnt] = small
    BY <1>1, <1>2
  <2> QED BY <2>1
<1>5. /\ m \in Seq(Chunk) /\ Len(m) = Len(s) /\ m[i] = small
      /\ \A j \in 1 .. Len(s) : j # i => m[j] = s[j]
  BY <1>3, <1>4
<1>6. ASSUME NEW j \in 1 .. Len(s)
      PROVE  /\ m[j].start = s[j].start /\ End(m[j]) <= End(s[j])
             /\ End(m[j]) \in Nat /\ End(s[j]) \in Nat /\ s[j].start \in Nat
  <2>1. End(s[j]) \in Nat /\ s[j].start \in Nat
    BY ListFields
  <2>2. CASE j = i
    <3>1. a + k - cnt \in Nat /\ a + k \in Nat /\ a + k - cnt <= a + k
      BY <1>3
    <3> QED BY <3>1, <2>1, <2>2, <1>3, <1>5
  <2>3. CASE j # i
    BY <2>1, <2>3, <1>5
  <2> QED BY <2>2, <2>3
<1>7. Separated(m)
  <2> SUFFICES ASSUME NEW j \in 1 .. Len(s), NEW l \in 1 .. Len(s), j < l
               PROVE  End(m[j]) < m[l].start
    BY <1>5 DEF Separated
  <2>1. End(s[j]) < s[l].start
    BY DEF Separated
  <2>2. PICK x \in Nat, y \in Nat, z \in Nat : x = End(m[j]) /\ y = End(s[j]) /\ z = s[l].start
    BY <1>6
  <2>3. x <= y /\ y < z /\ z = m[l].start
    BY <2>1, <2>2, <1>6
  <2> QED BY <2>2, <2>3
<1>8. ASSUME NEW p PROVE InFirst(p, m, Len(m)) <=>
                   InFirst(p, s, Len(s)) /\ ~(p \in End(s[i]) - cnt .. End(s[i]) - 1)
  <2> DEFINE Cut(q) == q \in End(s[i]) - cnt .. End(s[i]) - 1
  <2>0. Cut(p) <=> p \in Nat /\ a + (k - cnt) <= p /\ p < a + k
    <3>1. cnt <= k /\ End(s[i]) = a + k
      BY <1>3
    <3> QED BY <3>1, TailPages, Zenon
  <2> HIDE DEF Cut
  <2>1. Within(p, m[i]) <=> Within(p, s[i]) /\ ~Cut(p)
    <3>1. Within(p, m[i]) <=> p \in Nat /\ a <= p /\ p < a + (k - cnt)
      BY <1>3, <1>5 DEF Within
    <3>2. Within(p, s[i]) <=> p \in Nat /\ a <= p /\ p < a + k
      BY <1>3 DEF Within
    <3> QED BY <3>1, <3>2, <2>0
  <2>2. Cut(p) => Within(p, s[i])
    <3>1. Within(p, s[i]) <=> p \in Nat /\ a <= p /\ p < a + k
      BY <1>3 DEF Within
    <3> QED BY <3>1, <2>0, <1>3
  <2>3. ASSUME NEW j \in 1 .. Len(s), Within(p, m[j]) PROVE InFirst(p, s, Len(s)) /\ ~Cut(p)
    <3>1. CASE j = i
      BY <3>1, <2>1, <2>3 DEF InFirst
    <3>2. CASE j # i
      <4>1. Within(p, s[j])
        BY <3>2, <2>3, <1>5
      <4>2. ~Within(p, s[i])
        BY <4>1, <3>2, DisjointChunks
      <4> QED BY <4>1, <4>2, <2>2 DEF InFirst
    <3> QED BY <3>1, <3>2
  <2>4. ASSUME NEW j \in 1 .. Len(s), Within(p, s[j]), ~Cut(p) PROVE InFirst(p, m, Len(s))
    <3>1. CASE j = i
      BY <3>1, <2>1, <2>4 DEF InFirst
    <3>2. CASE j # i
      BY <3>2, <2>4, <1>5 DEF InFirst
    <3> QED BY <3>1, <3>2
  <2>5. InFirst(p, m, Len(m)) <=> InFirst(p, s, Len(s)) /\ ~Cut(p)
    BY <2>3, <2>4, <1>5 DEF InFirst
  <2> QED BY <2>5 DEF Cut
<1> QED BY <1>5, <1>7, <1>8

(* A chunk that overlaps no other, put where its address belongs, gives an *)
(* ascending list.                                                         *)
LEMMA InsertedChunk ==
  ASSUME NEW s \in Seq(Chunk), Separated(s), NEW e \in Chunk, NEW i \in 1 .. Len(s) + 1,
         \A j \in 1 .. Len(s) : j < i => End(s[j]) <= e.start,
         \A j \in 1 .. Len(s) : i <= j => End(e) <= s[j].start,
         NEW m, m = InsertAt(s, i, e)
  PROVE  /\ m \in Seq(Chunk) /\ Ascending(m)
         /\ \A p : InFirst(p, m, Len(m)) <=> InFirst(p, s, Len(s)) \/ Within(p, e)
<1> DEFINE n == Len(s)
<1>1. /\ m \in Seq(Chunk) /\ Len(m) = n + 1
      /\ \A j \in 1 .. n + 1 : m[j] = IF j < i THEN s[j] ELSE IF j = i THEN e ELSE s[j - 1]
  BY InsertAtProperties
<1>2. n \in Nat /\ i \in 1 .. n + 1
  BY ListFields
<1>3. \A j \in 1 .. n + 1 : \/ j < i /\ j \in 1 .. n /\ m[j] = s[j]
                            \/ j = i /\ m[j] = e
                            \/ i < j /\ j - 1 \in 1 .. n /\ i <= j - 1 /\ m[j] = s[j - 1]
  BY <1>1, <1>2
<1>4. ASSUME NEW j \in 1 .. n + 1, NEW k \in 1 .. n + 1, j < k PROVE End(m[j]) <= m[k].start
  <2>1. ASSUME NEW x \in 1 .. n, NEW y \in 1 .. n, x < y PROVE End(s[x]) <= s[y].start
    <3>1. End(s[x]) < s[y].start
      BY <2>1 DEF Separated
    <3>2. End(s[x]) \in Nat /\ s[y].start \in Nat
      BY ListFields
    <3> QED BY <3>1, <3>2
  <2>2. CASE j < i /\ j \in 1 .. n /\ m[j] = s[j]
    <3>1. CASE k < i /\ k \in 1 .. n /\ m[k] = s[k]
      BY <2>1, <2>2, <3>1, <1>4
    <3>2. CASE k = i /\ m[k] = e
      BY <2>2, <3>2
    <3>3. CASE i < k /\ k - 1 \in 1 .. n /\ i <= k - 1 /\ m[k] = s[k - 1]
      <4>1. j < k - 1
        BY <2>2, <3>3, <1>2
      <4> QED BY <4>1, <2>1, <2>2, <3>3
    <3> QED BY <3>1, <3>2, <3>3, <1>3
  <2>3. CASE j = i /\ m[j] = e
    <3>1. i < k /\ k - 1 \in 1 .. n /\ i <= k - 1 /\ m[k] = s[k - 1]
      BY <2>3, <1>2, <1>3, <1>4
    <3> QED BY <2>3, <3>1
  <2>4. CASE i < j /\ j - 1 \in 1 .. n /\ i <= j - 1 /\ m[j] = s[j - 1]
    <3>1. i < k /\ k - 1 \in 1 .. n /\ m[k] = s[k - 1] /\ j - 1 < k - 1
      BY <2>4, <1>2, <1>3, <1>4
    <3> QED BY <2>1, <2>4, <3>1
  <2> QED BY <2>2, <2>3, <2>4, <1>3
<1>5. Ascending(m)
  BY <1>1, <1>4 DEF Ascending
<1>6. ASSUME NEW p PROVE InFirst(p, m, n + 1) <=> InFirst(p, s, n) \/ Within(p, e)
  <2>1. ASSUME NEW j \in 1 .. n + 1, Within(p, m[j]) PROVE InFirst(p, s, n) \/ Within(p, e)
    BY <2>1, <1>3 DEF InFirst
  <2>2. ASSUME NEW j \in 1 .. n, Within(p, s[j]) PROVE InFirst(p, m, n + 1)
    <3>1. CASE j < i
      <4>1. j \in 1 .. n + 1 /\ m[j] = s[j]
        BY <3>1, <1>1, <1>2
      <4> QED BY <4>1, <2>2 DEF InFirst
    <3>2. CASE ~(j < i)
      <4>1. j + 1 \in 1 .. n + 1 /\ m[j + 1] = s[(j + 1) - 1] /\ (j + 1) - 1 = j
        BY <3>2, <1>1, <1>2
      <4> QED BY <4>1, <2>2 DEF InFirst
    <3> QED BY <3>1, <3>2
  <2>3. Within(p, e) => InFirst(p, m, n + 1)
    <3>1. i \in 1 .. n + 1 /\ m[i] = e
      BY <1>1, <1>2
    <3> QED BY <3>1 DEF InFirst
  <2> QED BY <2>1, <2>2, <2>3 DEF InFirst
<1> QED BY <1>1, <1>5, <1>6

(* The scan of free_phys_pages stops between the chunks that start below   *)
(* the freed page and those that do not.                                   *)
LEMMA InsertPosFound ==
  ASSUME chunks \in Seq(Chunk), Separated(chunks), NEW p \in Nat
  PROVE  /\ InsertPos(p) \in 1 .. Len(chunks) + 1
         /\ \A j \in 1 .. Len(chunks) : j < InsertPos(p) => chunks[j].start <= p
         /\ \A j \in 1 .. Len(chunks) : InsertPos(p) <= j => p <= chunks[j].start
<1> DEFINE n == Len(chunks)
<1>1. n \in Nat /\ (chunks # <<>> <=> n >= 1) /\ \A j \in 1 .. n : chunks[j].start \in Nat
  BY ListFields
<1>2. ASSUME NEW j \in 1 .. n, NEW k \in 1 .. n, j <= k PROVE chunks[j].start <= chunks[k].start
  <2>1. CASE j = k
    BY <2>1, <1>1
  <2>2. CASE j < k
    <3>1. End(chunks[j]) < chunks[k].start /\ chunks[j].start < End(chunks[j]) /\ End(chunks[j]) \in Nat
      BY <2>2, ListFields DEF Separated
    <3> QED BY <3>1, <1>1
  <2> QED BY <2>1, <2>2, <1>2
<1>3. CASE chunks = <<>> \/ p < chunks[1].start
  <2>1. InsertPos(p) = 1
    BY <1>3 DEF InsertPos
  <2>2. ASSUME NEW j \in 1 .. n PROVE p <= chunks[j].start
    <3>1. 1 \in 1 .. n /\ 1 <= j
      BY <1>1
    <3>2. p < chunks[1].start /\ chunks[1].start <= chunks[j].start
      BY <3>1, <1>1, <1>2, <1>3
    <3> QED BY <3>1, <3>2, <1>1
  <2> QED BY <2>1, <2>2, <1>1
<1>4. CASE ~(chunks = <<>> \/ p < chunks[1].start)
  <2> DEFINE Stop(i) == i <= n => chunks[i].start >= p
             Place(i) == /\ i <= n => chunks[i].start >= p
                         /\ \A j \in 2 .. i - 1 : chunks[j].start < p
             pos == CHOOSE i \in 2 .. n + 1 : Place(i)
  <2>1. n >= 1 /\ chunks[1].start <= p /\ 1 \in 1 .. n
    BY <1>1, <1>4
  <2>2. \E i \in 2 .. n + 1 : Place(i)
    <3> DEFINE T == {i \in 2 .. n + 1 : Stop(i)}
    <3>1. n + 1 \in T /\ T \subseteq Nat
      BY <1>1, <2>1
    <3>2. PICK i \in T : \A y \in T : i <= y
      <4> HIDE DEF T
      <4> QED BY <3>1, LeastNumber
    <3>3. i \in 2 .. n + 1 /\ Stop(i)
      BY <3>2
    <3>4. ASSUME NEW j \in 2 .. i - 1 PROVE chunks[j].start < p
      <4>1. j \in 2 .. n + 1 /\ ~(i <= j) /\ j \in 1 .. n
        BY <3>3, <1>1
      <4>2. ~Stop(j)
        BY <4>1, <3>2
      <4> QED BY <4>1, <4>2, <1>1
    <3> QED BY <3>3, <3>4
  <2>3. pos \in 2 .. n + 1 /\ Place(pos)
    <3> HIDE DEF Place
    <3> QED BY <2>2
  <2>4. InsertPos(p) = pos
    BY <1>4 DEF InsertPos
  <2> HIDE DEF pos
  <2>5. ASSUME NEW j \in 1 .. n, j < pos PROVE chunks[j].start <= p
    <3>1. j = 1 \/ j \in 2 .. pos - 1
      BY <2>3, <2>5, <1>1
    <3> QED BY <3>1, <2>1, <2>3, <1>1
  <2>6. ASSUME NEW j \in 1 .. n, pos <= j PROVE p <= chunks[j].start
    <3>1. pos \in 1 .. n
      BY <2>3, <2>6, <1>1
    <3>2. p <= chunks[pos].start /\ chunks[pos].start <= chunks[j].start
      BY <3>1, <2>3, <2>6, <1>1, <1>2
    <3> QED BY <3>1, <3>2, <1>1
  <2> QED BY <2>3, <2>4, <2>5, <2>6, <1>1
<1> QED BY <1>3, <1>4

---------------------------------------------------------------------------
(* The allocator's invariant.                                              *)

(* The pages of a list of chunks.                                          *)
LEMMA ListPages ==
  ASSUME NEW s \in Seq(Chunk)
  PROVE  \A p : p \in UNION {PagesOf(s[i]) : i \in DOMAIN s} <=> InFirst(p, s, Len(s))
<1>1. DOMAIN s = 1 .. Len(s)
  OBVIOUS
<1>2. ASSUME NEW i \in 1 .. Len(s), NEW p PROVE p \in PagesOf(s[i]) <=> Within(p, s[i])
  <2>1. PICK a \in Nat, k \in Nat : a = s[i].start /\ k = s[i].pagecnt
    BY ListFields
  <2>2. p \in a .. a + k - 1 <=> p \in Nat /\ a <= p /\ p < a + k
    OBVIOUS
  <2> QED BY <2>1, <2>2 DEF PagesOf, Run, Within, End
<1> QED BY <1>1, <1>2 DEF InFirst

(* The free pages are the pages nobody holds.                              *)
LEMMA FreePagesAre == AllocInv => FreePages = AllPages \ used
<1> SUFFICES ASSUME AllocInv PROVE FreePages = AllPages \ used
  OBVIOUS
<1>1. \A p : p \in FreePages <=> InFirst(p, chunks, Len(chunks))
  BY ListPages DEF AllocInv, FreePages
<1> QED BY <1>1 DEF AllocInv

(* A run of k pages has k pages.                                           *)
LEMMA IntervalSize ==
  ASSUME NEW a \in Nat, NEW k \in Nat, k >= 1
  PROVE  IsFiniteSet(a .. a + k - 1) /\ Cardinality(a .. a + k - 1) = k
<1>1. PICK b \in Int : b = a + k - 1
  OBVIOUS
<1>2. ~(a > b) /\ (b - a) + 1 = k /\ a \in Int
  BY <1>1
<1>3. IsFiniteSet(a .. b) /\ Cardinality(a .. b) = (b - a) + 1
  BY <1>2, FS_Interval
<1> QED BY <1>1, <1>2, <1>3

(* free_phys_page_count adds up the free pages.                            *)
LEMMA CountIsRight ==
  ASSUME chunks \in Seq(Chunk), Separated(chunks)
  PROVE  free_phys_page_count = Cardinality(FreePages)
<1> DEFINE n == Len(chunks)
           step == [i \in Nat |-> [x \in Nat |-> IF i \in 1 .. n THEN x + chunks[i].pagecnt ELSE x]]
           IsCount(c) == c = [i \in 0 .. n |-> IF i = 0 THEN 0 ELSE c[i - 1] + chunks[i].pagecnt]
           count == CHOOSE c : IsCount(c)
<1>1. n \in Nat /\ \A i \in 1 .. n : chunks[i].pagecnt \in Nat
  BY ListFields
<1>2. PICK f : Loop(f, Nat, 0, step, n)
  <2>1. ASSUME NEW x \in Nat, NEW i \in Nat PROVE step[i][x] \in Nat
    BY <1>1
  <2>2. 0 \in Nat /\ n \in Nat
    BY <1>1
  <2> HIDE DEF step, n
  <2> QED BY <2>1, <2>2, LoopExists
<1>3. ASSUME NEW i \in 1 .. n PROVE f[i] = f[i - 1] + chunks[i].pagecnt
  <2> HIDE DEF step
  <2>1. i \in Nat /\ f[i - 1] \in Nat
    BY <1>1, <1>2 DEF Loop
  <2>2. f[i] = step[i][f[i - 1]]
    BY <1>2 DEF Loop
  <2> USE DEF step
  <2> QED BY <2>1, <2>2
<1>4. IsCount(f)
  <2> DEFINE g == [i \in 0 .. n |-> IF i = 0 THEN 0 ELSE f[i - 1] + chunks[i].pagecnt]
  <2>1. \A i \in 0 .. n : f[i] = g[i]
    BY <1>1, <1>2, <1>3 DEF Loop
  <2>2. f \in [0 .. n -> Nat]
    BY <1>2 DEF Loop
  <2>3. f = g
    BY <2>1, <2>2
  <2> QED BY <2>3
<1>5. IsCount(count)
  <2> HIDE DEF IsCount
  <2> QED BY <1>4
<1>6. free_phys_page_count = count[n]
  BY DEF free_phys_page_count
<1> HIDE DEF count
<1>7. count[0] = 0 /\ \A i \in 1 .. n : count[i] = count[i - 1] + chunks[i].pagecnt
  <2>1. \A i \in 0 .. n : count[i] = IF i = 0 THEN 0 ELSE count[i - 1] + chunks[i].pagecnt
    BY <1>5
  <2> QED BY <2>1, <1>1
<1> DEFINE First(i) == {p \in Nat : InFirst(p, chunks, i)}
           Counted(i) == IsFiniteSet(First(i)) /\ Cardinality(First(i)) = count[i] /\ count[i] \in Nat
           T == {i \in 0 .. n : Counted(i)}
<1> HIDE DEF n, step, IsCount
<1>8. 0 \in T
  <2>1. First(0) = {}
    BY DEF InFirst
  <2> HIDE DEF First
  <2>2. IsFiniteSet({}) /\ Cardinality({}) = 0
    BY FS_EmptySet
  <2>3. count[0] = 0 /\ count[0] \in Nat
    BY <1>7
  <2>4. Counted(0)
    BY <2>1, <2>2, <2>3, Zenon
  <2> HIDE DEF Counted
  <2> QED BY <2>4, <1>1
<1>9. ASSUME NEW i \in 0 .. n, i < n, i \in T PROVE i + 1 \in T
  <2>1. Counted(i) /\ i \in Nat
    BY <1>1, <1>9
  <2>2. i + 1 \in 1 .. n /\ (i + 1) - 1 = i
    BY <1>1, <1>9
  <2>3. PICK a \in Nat, k \in Nat : /\ a = chunks[i + 1].start /\ k = chunks[i + 1].pagecnt
                                    /\ k >= 1 /\ End(chunks[i + 1]) = a + k
    BY <2>2, ListFields DEF n, End
  <2>4. First(i + 1) = First(i) \cup (a .. a + k - 1)
    <3>1. \A j : j \in 1 .. i + 1 <=> j \in 1 .. i \/ j = i + 1
      BY <2>1
    <3>2. \A p : InFirst(p, chunks, i + 1) <=> InFirst(p, chunks, i) \/ Within(p, chunks[i + 1])
      BY <3>1, Zenon DEF InFirst
    <3>3. \A p : Within(p, chunks[i + 1]) <=> p \in Nat /\ a <= p /\ p < a + k
      BY <2>3 DEF Within
    <3>4. \A p : p \in a .. a + k - 1 <=> p \in Nat /\ a <= p /\ p < a + k
      OBVIOUS
    <3>5. \A p : p \in First(i + 1) <=> p \in First(i) \/ p \in a .. a + k - 1
      BY <3>2, <3>3, <3>4, Zenon
    <3> HIDE DEF First
    <3> QED BY <3>5
  <2>5. First(i) \cap (a .. a + k - 1) = {}
    <3> SUFFICES ASSUME NEW p \in Nat, InFirst(p, chunks, i), p \in a .. a + k - 1 PROVE FALSE
      OBVIOUS
    <3>1. PICK j \in 1 .. i : Within(p, chunks[j])
      BY DEF InFirst
    <3>2. Within(p, chunks[i + 1])
      <4>1. p \in Nat /\ a <= p /\ p < a + k
        OBVIOUS
      <4> QED BY <4>1, <2>3 DEF Within
    <3>3. j \in 1 .. n /\ j # i + 1
      BY <2>2, <1>1
    <3> QED BY <3>1, <3>2, <3>3, <2>2, DisjointChunks DEF n
  <2>6. IsFiniteSet(a .. a + k - 1) /\ Cardinality(a .. a + k - 1) = k
    BY <2>3, IntervalSize
  <2> HIDE DEF First
  <2>7. IsFiniteSet(First(i + 1)) /\ Cardinality(First(i + 1)) = Cardinality(First(i)) + k
    <3> DEFINE A == First(i)
               B == a .. a + k - 1
    <3>1. IsFiniteSet(A) /\ Cardinality(A) \in Nat /\ IsFiniteSet(B) /\ Cardinality(B) = k /\ A \cap B = {}
      BY <2>1, <2>5, <2>6
    <3> HIDE DEF A, B
    <3>2. IsFiniteSet(A \cup B) /\ Cardinality(A \cup B) = Cardinality(A) + Cardinality(B) - Cardinality(A \cap B)
      BY <3>1, FS_Union
    <3>3. Cardinality(A \cap B) = 0
      BY <3>1, FS_EmptySet
    <3>4. Cardinality(A \cup B) = Cardinality(A) + k
      BY <3>1, <3>2, <3>3
    <3> QED BY <3>2, <3>4, <2>4 DEF A, B
  <2>8. count[i + 1] = count[i] + k
    BY <2>2, <2>3, <1>7
  <2>9. Counted(i + 1)
    BY <2>1, <2>7, <2>8
  <2> HIDE DEF Counted
  <2> QED BY <2>2, <2>9, <1>1
<1>10. n \in T
  <2> HIDE DEF T
  <2>1. \A i \in 0 .. n : i < n /\ i \in T => i + 1 \in T
    BY <1>9
  <2>2. \A i \in 0 .. n : i \in T
    BY <1>1, <1>8, <2>1, Iterations
  <2> QED BY <1>1, <2>2
<1>11. FreePages = First(n)
  <2>1. \A p : p \in FreePages <=> InFirst(p, chunks, n)
    BY ListPages DEF FreePages, n
  <2>2. \A p : InFirst(p, chunks, n) => p \in Nat
    BY DEF InFirst, Within
  <2> QED BY <2>1, <2>2, Zenon
<1> HIDE DEF First
<1> QED BY <1>6, <1>10, <1>11

(* memory_init.                                                            *)
LEMMA AllocInit == Init => AllocInv
<1> SUFFICES ASSUME Init PROVE AllocInv
  OBVIOUS
<1> DEFINE all == [start |-> 1, pagecnt |-> NPAGES]
<1>1. NPAGES \in Nat \ {0} /\ all \in Chunk /\ all.start = 1 /\ End(all) = 1 + NPAGES
  BY PagesAssumption DEF Chunk, End
<1>2. chunks = <<all>>
  BY DEF Init
<1> HIDE DEF all
<1>3. chunks \in Seq(Chunk) /\ Len(chunks) = 1 /\ chunks[1] = all
  BY <1>1, <1>2
<1>4. Separated(chunks)
  BY <1>3 DEF Separated
<1>5. ASSUME NEW p PROVE InFirst(p, chunks, Len(chunks)) <=> p \in AllPages /\ p \notin used
  <2>1. InFirst(p, chunks, Len(chunks)) <=> Within(p, all)
    BY <1>3 DEF InFirst
  <2>2. Within(p, all) <=> p \in Nat /\ 1 <= p /\ p < 1 + NPAGES
    BY <1>1 DEF Within
  <2>3. p \in AllPages <=> p \in Nat /\ 1 <= p /\ p < 1 + NPAGES
    BY <1>1 DEF AllPages
  <2> QED BY <2>1, <2>2, <2>3 DEF Init
<1> QED BY <1>3, <1>4, <1>5 DEF AllocInv, Init

(* alloc_phys_pages hands out a run of pages nobody holds.                 *)
LEMMA AllocStep ==
  ASSUME AllocInv, NEW cnt \in Nat \ {0}, alloc_phys_pages(cnt)
  PROVE  /\ AllocInv'
         /\ \E t \in AllPages : Run(t, cnt) \subseteq AllPages \ used /\ used' = used \cup Run(t, cnt)
<1> DEFINE n == Len(chunks)
           i == BestFit(cnt)
           c == chunks[i]
           t == Taken(c, cnt)
<1>1. /\ chunks \in Seq(Chunk) /\ Separated(chunks) /\ chunks # <<>>
      /\ \A p : InFirst(p, chunks, n) <=> p \in AllPages /\ p \notin used
      /\ used \in SUBSET AllPages /\ kernel \in {"running", "halted"}
  BY DEF AllocInv, alloc_phys_pages
<1>2. /\ c.pagecnt >= cnt
      /\ chunks' = IF c.pagecnt = cnt THEN RemoveAt(chunks, i) ELSE [chunks EXCEPT ![i].pagecnt = @ - cnt]
      /\ used' = used \cup Run(t, cnt) /\ kernel' = kernel
  BY DEF alloc_phys_pages
<1>3. i \in 1 .. n
  BY <1>1, BestFitFound
<1> HIDE DEF i
<1>4. PICK a \in Nat, k \in Nat : /\ a = c.start /\ k = c.pagecnt /\ a >= 1 /\ cnt <= k
                                  /\ End(c) = a + k /\ t = a + k - cnt
  <2>1. c.start \in Nat /\ c.start >= 1 /\ c.pagecnt \in Nat
    BY <1>1, <1>3, ListFields
  <2> QED BY <2>1, <1>2 DEF End, Taken
<1>5. \A p : p \in Run(t, cnt) <=> p \in End(c) - cnt .. End(c) - 1
  <2>1. t = (a + k) - cnt /\ t + cnt - 1 = (a + k) - 1
    BY <1>4
  <2> QED BY <1>4, <2>1 DEF Run
<1>6. \A p : p \in Run(t, cnt) <=> p \in Nat /\ a + (k - cnt) <= p /\ p < a + k
  BY <1>4, <1>5, TailPages
<1>7. \A p : Within(p, c) <=> p \in Nat /\ a <= p /\ p < a + k
  BY <1>4 DEF Within
<1>8. /\ chunks' \in Seq(Chunk) /\ Separated(chunks')
      /\ \A p : InFirst(p, chunks', Len(chunks')) <=> InFirst(p, chunks, n) /\ p \notin Run(t, cnt)
  <2>1. CASE c.pagecnt = cnt
    <3>1. chunks' = RemoveAt(chunks, i)
      BY <2>1, <1>2
    <3>2. \A p : Within(p, c) <=> p \in Run(t, cnt)
      BY <2>1, <1>4, <1>6, <1>7
    <3> QED BY <3>1, <3>2, <1>1, <1>3, RemovedChunk
  <2>2. CASE c.pagecnt # cnt
    <3>1. chunks' = [chunks EXCEPT ![i].pagecnt = @ - cnt] /\ cnt < c.pagecnt
      BY <2>2, <1>2, <1>4
    <3>2. /\ chunks' \in Seq(Chunk) /\ Separated(chunks')
          /\ \A p : InFirst(p, chunks', Len(chunks')) <=>
                    InFirst(p, chunks, n) /\ ~(p \in End(c) - cnt .. End(c) - 1)
      <4>1. /\ chunks \in Seq(Chunk) /\ Separated(chunks) /\ i \in 1 .. Len(chunks) /\ cnt \in Nat \ {0}
            /\ cnt < chunks[i].pagecnt
        BY <3>1, <1>1, <1>3
      <4>2. PICK m : m = chunks'
        OBVIOUS
      <4>3. m = [chunks EXCEPT ![i].pagecnt = @ - cnt]
        BY <3>1, <4>2
      <4>4. /\ m \in Seq(Chunk) /\ Separated(m)
            /\ \A p : InFirst(p, m, Len(m)) <=>
                 InFirst(p, chunks, Len(chunks)) /\ ~(p \in End(chunks[i]) - cnt .. End(chunks[i]) - 1)
        BY <4>1, <4>3, ShrunkChunk, Zenon
      <4> QED BY <4>2, <4>4
    <3> HIDE DEF c, t
    <3> QED BY <3>2, <1>5, Zenon
  <2> QED BY <2>1, <2>2
<1>9. ASSUME NEW p \in Run(t, cnt) PROVE p \in AllPages /\ p \notin used
  <2>1. Within(p, c)
    BY <1>4, <1>6, <1>7
  <2>2. InFirst(p, chunks, n)
    BY <2>1, <1>3 DEF InFirst
  <2> QED BY <2>2, <1>1
<1>10. t \in AllPages
  <2>1. t \in Run(t, cnt)
    BY <1>4 DEF Run
  <2> QED BY <2>1, <1>9
<1>11. AllocInv'
  <2>1. \A p : InFirst(p, chunks', Len(chunks')) <=> p \in AllPages /\ p \notin used'
    BY <1>1, <1>2, <1>8
  <2>2. used' \in SUBSET AllPages /\ kernel' \in {"running", "halted"}
    BY <1>1, <1>2, <1>9
  <2> QED BY <2>1, <2>2, <1>8 DEF AllocInv
<1> QED BY <1>2, <1>9, <1>10, <1>11

(* A panic comes only when no run of the size is free.                     *)
LEMMA PanicStep ==
  ASSUME AllocInv, NEW cnt \in Nat \ {0}, alloc_panic(cnt)
  PROVE  /\ AllocInv'
         /\ \A t \in AllPages : ~(Run(t, cnt) \subseteq AllPages \ used)
<1>1. AllocInv'
  BY DEF AllocInv, alloc_panic
<1>2. ASSUME NEW t \in AllPages, Run(t, cnt) \subseteq AllPages \ used PROVE FALSE
  <2> DEFINE n == Len(chunks)
  <2>1. /\ chunks \in Seq(Chunk) /\ Separated(chunks) /\ n \in Nat /\ t \in Nat
        /\ \A p : InFirst(p, chunks, n) <=> p \in AllPages /\ p \notin used
    BY PagesAssumption, ListFields DEF AllocInv, AllPages
  <2>2. \A p : p \in Run(t, cnt) <=> p \in Nat /\ t <= p /\ p < t + cnt
    BY <2>1 DEF Run
  <2>3. \A p \in Run(t, cnt) : InFirst(p, chunks, n)
    BY <1>2, <2>1
  <2>4. PICK j \in 1 .. n : Within(t, chunks[j])
    <3>1. t \in Run(t, cnt)
      BY <2>1, <2>2
    <3> QED BY <3>1, <2>3 DEF InFirst
  <2>5. PICK a \in Nat, b \in Nat, k \in Nat :
           /\ a = chunks[j].start /\ b = End(chunks[j]) /\ k = chunks[j].pagecnt
           /\ b = a + k /\ a <= t /\ t < b
    BY <2>1, <2>4, ListFields DEF Within, End
  <2>6. chunks[j].pagecnt < cnt
    <3>1. chunks # <<>>
      BY <2>1, ListFields
    <3>2. chunks[BestFit(cnt)].pagecnt < cnt
      BY <3>1 DEF alloc_panic
    <3> QED BY <3>1, <3>2, <2>1, BestFitFound
  <2>7. b < t + cnt
    <3>1. k < cnt
      BY <2>5, <2>6
    <3>2. b = a + k /\ a <= t
      BY <2>5
    <3> QED BY <3>1, <3>2, <2>1
  <2>8. PICK l \in 1 .. n : Within(b, chunks[l])
    <3>1. t < b
      BY <2>5
    <3>2. b \in Run(t, cnt)
      BY <3>1, <2>1, <2>2, <2>7
    <3> QED BY <3>2, <2>3 DEF InFirst
  <2>9. PICK c \in Nat, d \in Nat : c = chunks[l].start /\ d = End(chunks[l]) /\ c <= b /\ b < d
    BY <2>1, <2>8, ListFields DEF Within
  <2>10. l # j
    <3>1. l = j => d = b
      BY <2>5, <2>9
    <3>2. b < d
      BY <2>9
    <3> QED BY <3>1, <3>2
  <2>11. b < c \/ d < a
    <3>1. j < l \/ l < j
      BY <2>1, <2>10
    <3> QED BY <3>1, <2>1, <2>5, <2>9 DEF Separated
  <2>12. a <= t /\ t < b /\ c <= b /\ b < d
    BY <2>5, <2>9
  <2> QED BY <2>1, <2>11, <2>12
<1> QED BY <1>1, <1>2

(* free_phys_pages puts the run back, whatever the neighbours are.         *)
LEMMA FreeStep ==
  ASSUME AllocInv, NEW p \in AllPages, NEW cnt \in Nat \ {0}, free_phys_pages(p, cnt)
  PROVE  AllocInv'
<1> DEFINE n == Len(chunks)
           i == InsertPos(p)
           e == [start |-> p, pagecnt |-> cnt]
           list == InsertAt(chunks, i, e)
<1>1. /\ chunks \in Seq(Chunk) /\ Separated(chunks) /\ n \in Nat
      /\ \A q : InFirst(q, chunks, n) <=> q \in AllPages /\ q \notin used
      /\ used \in SUBSET AllPages /\ kernel \in {"running", "halted"}
  BY ListFields DEF AllocInv
<1>2. p \in Nat \ {0} /\ e \in Chunk /\ e.start = p /\ End(e) = p + cnt
  BY PagesAssumption DEF AllPages, Chunk, End
<1>3. Run(p, cnt) \subseteq used /\ used' = used \ Run(p, cnt) /\ chunks' = Coalesce(list) /\ kernel' = kernel
  BY DEF free_phys_pages
<1>4. \A q : q \in Run(p, cnt) <=> q \in Nat /\ p <= q /\ q < p + cnt
  BY <1>2 DEF Run
<1>5. \A q : Within(q, e) <=> q \in Run(p, cnt)
  BY <1>2, <1>4 DEF Within
<1>6. /\ i \in 1 .. n + 1
      /\ \A j \in 1 .. n : j < i => chunks[j].start <= p
      /\ \A j \in 1 .. n : i <= j => p <= chunks[j].start
  BY <1>1, <1>2, InsertPosFound
<1> HIDE DEF i, e
<1>7. ASSUME NEW j \in 1 .. n PROVE \A q : Within(q, chunks[j]) => q \notin Run(p, cnt)
  BY <1>1, <1>3 DEF InFirst
<1>8. ASSUME NEW j \in 1 .. n, j < i PROVE End(chunks[j]) <= e.start
  <2>1. PICK a \in Nat, b \in Nat : a = chunks[j].start /\ b = End(chunks[j]) /\ a <= p
    BY <1>1, <1>6, <1>8, ListFields
  <2>2. p \in Run(p, cnt)
    BY <1>2, <1>4
  <2>3. ~(p < b)
    BY <2>1, <2>2, <1>2, <1>7 DEF Within
  <2> QED BY <2>1, <2>3, <1>2
<1>9. ASSUME NEW j \in 1 .. n, i <= j PROVE End(e) <= chunks[j].start
  <2>1. PICK a \in Nat, b \in Nat : a = chunks[j].start /\ b = End(chunks[j]) /\ a < b /\ p <= a
    BY <1>1, <1>6, <1>9, ListFields
  <2>2. Within(a, chunks[j])
    BY <2>1 DEF Within
  <2>3. a \notin Run(p, cnt)
    BY <2>2, <1>7
  <2>4. ~(a < p + cnt)
    BY <2>1, <2>3, <1>4
  <2> QED BY <2>1, <2>4, <1>2
<1>10. /\ list \in Seq(Chunk) /\ Ascending(list)
       /\ \A q : InFirst(q, list, Len(list)) <=> InFirst(q, chunks, n) \/ Within(q, e)
  BY <1>1, <1>2, <1>6, <1>8, <1>9, InsertedChunk
<1> HIDE DEF list
<1>11. /\ chunks' \in Seq(Chunk) /\ Separated(chunks')
       /\ \A q : InFirst(q, chunks', Len(chunks')) <=> InFirst(q, list, Len(list))
  BY <1>3, <1>10, CoalesceProperties
<1>12. \A q : InFirst(q, chunks', Len(chunks')) <=> q \in AllPages /\ q \notin used'
  BY <1>1, <1>3, <1>5, <1>10, <1>11
<1>13. used' \in SUBSET AllPages /\ kernel' \in {"running", "halted"}
  BY <1>1, <1>3
<1> QED BY <1>11, <1>12, <1>13 DEF AllocInv

(* What the heap does to the pages is a step of the allocator.             *)
LEMMA HeapSteps == HeapNext => Next \/ UNCHANGED vars
<1> SUFFICES ASSUME HeapNext PROVE Next \/ UNCHANGED vars
  OBVIOUS
<1>1. 1 \in 1 .. MaxCnt
  BY PagesAssumption
<1>2. ASSUME NEW size, heap_malloc_actual(size) PROVE Next \/ UNCHANGED vars
  <2>1. CASE UNCHANGED allVars
    BY <2>1 DEF allVars
  <2>2. CASE heap_panic
    BY <2>2 DEF heap_panic
  <2>3. CASE from_pool(size)
    BY <2>3 DEF from_pool
  <2>4. CASE from_page(size)
    BY <2>4, <1>1 DEF from_page, Next
  <2>5. CASE alloc_panic(1)
    BY <2>5, <1>1 DEF Next
  <2> QED BY <1>2, <2>1, <2>2, <2>3, <2>4, <2>5 DEF heap_malloc_actual
<1>3. CASE \E size \in Sizes : kmalloc(size) \/ kcalloc(size)
  BY <1>2, <1>3 DEF kmalloc, kcalloc, heap_panic
<1>4. CASE \E b \in blocks : kfree(b)
  BY <1>4 DEF kfree, heap_panic
<1>5. CASE \E cnt \in 1 .. MaxCnt : PageUser(cnt)
  BY <1>5 DEF PageUser, Next
<1>6. CASE HeapHalted
  BY <1>6 DEF HeapHalted, allVars
<1> QED BY <1>3, <1>4, <1>5, <1>6 DEF HeapNext

LEMMA AllocNext ==
  ASSUME AllocInv, [HeapNext]_allVars
  PROVE  AllocInv'
<1>1. CASE UNCHANGED vars
  BY <1>1 DEF AllocInv, vars
<1>2. CASE Next
  <2>1. \A cnt \in 1 .. MaxCnt : cnt \in Nat \ {0}
    BY PagesAssumption
  <2>2. ASSUME NEW cnt \in 1 .. MaxCnt, alloc_phys_pages(cnt) PROVE AllocInv'
    BY <2>1, <2>2, AllocStep
  <2>3. ASSUME NEW cnt \in 1 .. MaxCnt, alloc_panic(cnt) PROVE AllocInv'
    BY <2>1, <2>3, PanicStep
  <2>4. ASSUME NEW cnt \in 1 .. MaxCnt, NEW p \in AllPages, free_phys_pages(p, cnt) PROVE AllocInv'
    BY <2>1, <2>4, FreeStep
  <2>5. ASSUME Halted PROVE AllocInv'
    BY <2>5 DEF Halted, AllocInv, vars
  <2> QED BY <1>2, <2>2, <2>3, <2>4, <2>5 DEF Next
<1> QED BY <1>1, <1>2, HeapSteps DEF allVars

(* The invariant holds of the allocator under the heap and its other users.*)
THEOREM AllocInvariance == HeapSpec => []AllocInv
<1>1. heap_init => AllocInv
  BY AllocInit DEF heap_init
<1>2. AllocInv /\ [HeapNext]_allVars => AllocInv'
  BY AllocNext
<1> QED BY <1>1, <1>2, PTL DEF HeapSpec

(* No page is lost or handed out twice, and the reported count is right,   *)
(* whatever is allocated and freed in whatever order.                      *)
THEOREM ConservedPages == HeapSpec => []PagesConserved
<1>1. AllocInv => PagesConserved
  <2> SUFFICES ASSUME AllocInv PROVE PagesConserved
    OBVIOUS
  <2>1. free_phys_page_count = Cardinality(FreePages)
    BY CountIsRight DEF AllocInv
  <2>2. used \in SUBSET AllPages
    BY DEF AllocInv
  <2> QED BY <2>1, <2>2, FreePagesAre DEF PagesConserved
<1> QED BY <1>1, AllocInvariance, PTL

(* The list stays sorted, with no empty chunk and no two that touch.       *)
THEOREM CanonicalChunks == HeapSpec => []ChunksCanonical
<1>1. AllocInv => ChunksCanonical
  <2> SUFFICES ASSUME AllocInv PROVE ChunksCanonical
    OBVIOUS
  <2>1. chunks \in Seq(Chunk) /\ Separated(chunks) /\ DOMAIN chunks = 1 .. Len(chunks) /\ Len(chunks) \in Nat
    BY DEF AllocInv
  <2>2. \A i \in DOMAIN chunks : chunks[i].pagecnt > 0
    BY <2>1, ListFields
  <2>3. ASSUME NEW i \in 1 .. Len(chunks) - 1
        PROVE  chunks[i].start + chunks[i].pagecnt < chunks[i + 1].start
    <3>1. i \in 1 .. Len(chunks) /\ i + 1 \in 1 .. Len(chunks) /\ i < i + 1
      BY <2>1
    <3> QED BY <3>1, <2>1 DEF Separated, End
  <2> QED BY <2>2, <2>3 DEF ChunksCanonical
<1> QED BY <1>1, AllocInvariance, PTL

(* A step of the allocator is a step of the pool of free pages.            *)
LEMMA PoolStep ==
  ASSUME AllocInv, AllocInv', [HeapNext]_allVars
  PROVE  [Pool!Next]_<<FreePages, kernel>>
<1>1. FreePages = AllPages \ used
  BY FreePagesAre
<1>2. FreePages' = AllPages \ used'
  <2>1. \A p : p \in FreePages' <=> InFirst(p, chunks', Len(chunks'))
    BY ListPages DEF AllocInv, FreePages
  <2> QED BY <2>1 DEF AllocInv
<1>3. used \subseteq AllPages /\ Pool!AllPages = AllPages
  BY DEF AllocInv, Pool!AllPages, AllPages
<1>4. \A p, cnt : Pool!Run(p, cnt) = Run(p, cnt)
  BY DEF Pool!Run, Run
<1>5. \A cnt \in 1 .. MaxCnt : cnt \in Nat \ {0}
  BY PagesAssumption
<1>6. CASE UNCHANGED vars
  BY <1>6, <1>1, <1>2 DEF vars
<1>7. ASSUME NEW cnt \in 1 .. MaxCnt, alloc_phys_pages(cnt) PROVE Pool!Alloc(cnt)
  <2>1. PICK t \in AllPages : Run(t, cnt) \subseteq AllPages \ used /\ used' = used \cup Run(t, cnt)
    BY <1>5, <1>7, AllocStep
  <2>2. Pool!Run(t, cnt) \subseteq FreePages /\ FreePages' = FreePages \ Pool!Run(t, cnt)
    BY <2>1, <1>1, <1>2, <1>4
  <2> QED BY <2>1, <2>2, <1>3, <1>7 DEF Pool!Alloc, alloc_phys_pages
<1>8. ASSUME NEW cnt \in 1 .. MaxCnt, alloc_panic(cnt) PROVE Pool!Panic(cnt)
  <2>1. \A t \in AllPages : ~(Run(t, cnt) \subseteq FreePages)
    BY <1>1, <1>5, <1>8, PanicStep
  <2>2. FreePages' = FreePages
    BY <1>1, <1>2, <1>8 DEF alloc_panic
  <2> QED BY <2>1, <2>2, <1>3, <1>4, <1>8 DEF Pool!Panic, alloc_panic
<1>9. ASSUME NEW cnt \in 1 .. MaxCnt, NEW p \in AllPages, free_phys_pages(p, cnt) PROVE Pool!Free(p, cnt)
  <2>1. Run(p, cnt) \subseteq used /\ used' = used \ Run(p, cnt) /\ kernel = "running" /\ kernel' = kernel
    BY <1>9 DEF free_phys_pages
  <2>2. Run(p, cnt) \subseteq AllPages \ FreePages /\ FreePages' = FreePages \cup Run(p, cnt)
    BY <2>1, <1>1, <1>2, <1>3
  <2> QED BY <2>1, <2>2, <1>3, <1>4 DEF Pool!Free
<1>10. CASE Next
  BY <1>3, <1>6, <1>7, <1>8, <1>9, <1>10 DEF Next, Pool!Next, Halted
<1> QED BY <1>6, <1>10, HeapSteps DEF allVars

(* The sorted list with best fit and coalescing implements the pool: in    *)
(* particular it panics only when no run of the size asked for is free.    *)
THEOREM PoolImplemented == HeapSpec => ImplementsPool
<1>1. heap_init => Pool!Init
  <2> SUFFICES ASSUME heap_init PROVE Pool!Init
    OBVIOUS
  <2>1. FreePages = AllPages
    <3>1. AllocInv /\ used = {}
      BY AllocInit DEF heap_init, Init
    <3> QED BY <3>1, FreePagesAre
  <2> QED BY <2>1 DEF heap_init, Init, Pool!Init, Pool!AllPages, AllPages
<1>2. AllocInv /\ AllocInv' /\ [HeapNext]_allVars => [Pool!Next]_<<FreePages, kernel>>
  BY PoolStep
<1> QED BY <1>1, <1>2, AllocInvariance, PTL DEF HeapSpec, ImplementsPool, Pool!Spec

---------------------------------------------------------------------------
(* The heap.                                                               *)

Block == [ptr : Int, size : Nat \ {0}, live : BOOLEAN]

Lo(b) == b.ptr - HEADER
Hi(b) == b.ptr + b.size

(* The first byte of page q; what the kernel image leaves is page 0.       *)
Base(q) == IF q = 0 THEN kimg_end ELSE PAGE_SIZE * q

(* Bytes lo to hi - 1 lie in page q.                                       *)
InPage(lo, hi, q) == Base(q) <= lo /\ hi <= PAGE_SIZE * q + PAGE_SIZE

Apart(lo, hi, lo2, hi2) == hi <= lo2 \/ hi2 <= lo

LiesIn(b, q) == PageOf(b.ptr) = q

PagesOfBlocks(bl) == {PageOf(b.ptr) : b \in bl} \ {0}

(* Blocks lie each in its page and apart from each other ...               *)
BlocksOK(bl) ==
  /\ bl \subseteq Block
  /\ \A b \in bl : PageOf(b.ptr) \in Nat /\ InPage(Lo(b), Hi(b), PageOf(b.ptr))
  /\ \A b \in bl : \A c \in bl : b # c => Apart(Lo(b), Hi(b), Lo(c), Hi(c))

(* ... and apart from the pool, which lies in the page of a block or       *)
(* behind the kernel image.                                                *)
PoolOK(low, end, bl) ==
  /\ low \in Int /\ end \in Int /\ low <= end
  /\ \E q \in PagesOfBlocks(bl) \cup {0} : InPage(low, end, q)
  /\ \A b \in bl : Apart(Lo(b), Hi(b), low, end)

(* Block b is cut off the top of the pool, or off the end of a new page;   *)
(* new are the blocks with b marked free.                                  *)
CutsPool(low, end, bl, size, b) ==
  /\ BlocksOK(bl) /\ PoolOK(low, end, bl) /\ size \in Nat \ {0} /\ size + HEADER <= end - low
  /\ b = [ptr |-> end - size, size |-> size, live |-> TRUE]

CutsPage(low, end, bl, page, size, ptr, base, top, b) ==
  /\ BlocksOK(bl) /\ PoolOK(low, end, bl)
  /\ page \in Nat \ {0} /\ page \notin PagesOfBlocks(bl) /\ size \in 1 .. HEAP_ALLOC_MAX
  /\ ptr = PAGE_SIZE * page + PAGE_SIZE - size /\ base = PAGE_SIZE * page /\ top = ptr - HEADER
  /\ b = [ptr |-> ptr, size |-> size, live |-> TRUE]

Marks(low, end, bl, b, new) ==
  /\ BlocksOK(bl) /\ PoolOK(low, end, bl) /\ b \in bl
  /\ new = (bl \ {b}) \cup {[b EXCEPT !.live = FALSE]}

HeapInv ==
  /\ AllocInv
  /\ BlocksOK(blocks)
  /\ PoolOK(heap_low, heap_end, blocks)
  /\ PagesOfBlocks(blocks) \subseteq used

(* The constants.                                                          *)
LEMMA HeapConstants ==
  /\ PAGE_SIZE \in Nat \ {0} /\ HEADER \in Nat \ {0}
  /\ HEAP_ALLOC_MAX \in Nat /\ HEAP_ALLOC_MAX + HEADER <= PAGE_SIZE
  /\ kimg_end \in Int /\ kimg_end <= PAGE_SIZE
<1>1. \A k \in 0 .. PAGE_SIZE : HEAP_ALIGN * k \in Nat /\ (k # 0 => HEAP_ALIGN * k # 0)
  <2> TAKE k \in 0 .. PAGE_SIZE
  <2>1. HEAP_ALIGN \in Nat \ {0} /\ k \in Nat
    BY HeapAssumption
  <2> QED BY <2>1
<1>2. {PAGE_SIZE, HEADER, HEAP_INIT_MIN} \subseteq Nat \ {0} /\ KIMG_GAP \in Nat
  BY <1>1, HeapAssumption
<1>3. PAGE_SIZE \in Nat \ {0} /\ HEADER \in Nat \ {0} /\ HEAP_INIT_MIN \in Nat /\ KIMG_GAP \in Nat
  BY <1>2
<1>4. ASSUME NEW n \in Nat PROVE ROUND_UP(n, PAGE_SIZE) \in Nat
  <2>1. n + PAGE_SIZE - 1 \in Nat
    BY <1>3
  <2>2. (n + PAGE_SIZE - 1) \div PAGE_SIZE \in Nat
    BY <1>3, <2>1
  <2> QED BY <1>3, <2>2 DEF ROUND_UP
<1>5. HEAP_INIT \in Nat
  <2>1. CASE KIMG_GAP < HEAP_INIT_MIN
    <3>1. HEAP_INIT_MIN - KIMG_GAP \in Nat
      BY <1>3, <2>1
    <3> QED BY <1>3, <1>4, <2>1, <3>1 DEF HEAP_INIT
  <2> QED BY <1>3, <2>1 DEF HEAP_INIT
<1> QED BY <1>3, <1>5, HeapAssumption DEF kimg_end

(* Multiples of a number.                                                  *)
LEMMA PageArithmetic ==
  ASSUME NEW d \in Nat \ {0}, NEW q \in Nat
  PROVE  /\ d * q \in Nat /\ d * 0 = 0 /\ (q # 0 => d <= d * q)
         /\ \A r \in Nat : q < r => d * q + d <= d * r
         /\ \A a \in Nat : d * q <= a /\ a < d * q + d => a \div d = q
<1>1. d * q \in Nat /\ d * 0 = 0
  OBVIOUS
<1>2. q # 0 => d <= d * q
  OBVIOUS
<1>3. ASSUME NEW r \in Nat, q < r PROVE d * q + d <= d * r
  BY <1>3
<1>4. ASSUME NEW a \in Nat, d * q <= a, a < d * q + d PROVE a \div d = q
  <2>1. PICK r \in 0 .. d - 1 : a = d * q + r
    <3>1. a - d * q \in 0 .. d - 1 /\ a = d * q + (a - d * q)
      BY <1>1, <1>4
    <3> QED BY <3>1
  <2>2. (d * q + r) \div d = q
    OBVIOUS
  <2> QED BY <2>1, <2>2
<1> QED BY <1>1, <1>2, <1>3, <1>4

(* A page ends before the next one starts, and its bytes belong to it.     *)
LEMMA PageBounds ==
  ASSUME NEW q \in Nat
  PROVE  /\ Base(q) \in Int /\ PAGE_SIZE * q + PAGE_SIZE \in Int
         /\ \A r \in Nat : q < r => PAGE_SIZE * q + PAGE_SIZE <= Base(r)
         /\ \A a \in Int : Base(q) <= a /\ a < PAGE_SIZE * q + PAGE_SIZE => PageOf(a) = q
         /\ kimg_end <= Base(q)
<1>1. PAGE_SIZE \in Nat \ {0} /\ kimg_end \in Int /\ kimg_end <= PAGE_SIZE
  BY HeapConstants
<1>2. /\ PAGE_SIZE * q \in Nat /\ PAGE_SIZE * 0 = 0 /\ (q # 0 => PAGE_SIZE <= PAGE_SIZE * q)
      /\ \A r \in Nat : q < r => PAGE_SIZE * q + PAGE_SIZE <= PAGE_SIZE * r
      /\ \A a \in Nat : PAGE_SIZE * q <= a /\ a < PAGE_SIZE * q + PAGE_SIZE => a \div PAGE_SIZE = q
  BY <1>1, PageArithmetic
<1>3. PICK x \in Nat : x = PAGE_SIZE * q /\ (q = 0 => x = 0)
  BY <1>2
<1>4. Base(q) \in Int /\ x + PAGE_SIZE \in Int /\ kimg_end <= Base(q)
  <2>1. CASE q = 0
    BY <1>1, <2>1 DEF Base
  <2>2. CASE q # 0
    BY <1>1, <1>2, <1>3, <2>2 DEF Base
  <2> QED BY <2>1, <2>2
<1>5. ASSUME NEW r \in Nat, q < r PROVE x + PAGE_SIZE <= Base(r)
  BY <1>2, <1>3, <1>5 DEF Base
<1>6. ASSUME NEW a \in Int, Base(q) <= a, a < x + PAGE_SIZE PROVE PageOf(a) = q
  <2>1. CASE q = 0
    BY <2>1, <1>1, <1>3, <1>6 DEF PageOf
  <2>2. CASE q # 0
    <3>1. x <= a /\ PAGE_SIZE <= a /\ a \in Nat
      BY <2>2, <1>1, <1>2, <1>3, <1>6 DEF Base
    <3>2. a \div PAGE_SIZE = q
      BY <3>1, <1>2, <1>3, <1>6
    <3> QED BY <3>1, <3>2, <1>1 DEF PageOf
  <2> QED BY <2>1, <2>2
<1> QED BY <1>3, <1>4, <1>5, <1>6

(* What lies in two different pages is apart.                              *)
LEMMA PagesApart ==
  ASSUME NEW lo \in Int, NEW hi \in Int, NEW lo2 \in Int, NEW hi2 \in Int, NEW q \in Nat, NEW r \in Nat,
         q # r, InPage(lo, hi, q), InPage(lo2, hi2, r)
  PROVE  Apart(lo, hi, lo2, hi2)
<1>1. PICK x \in Int, x2 \in Int, y \in Int, y2 \in Int :
        /\ x = Base(q) /\ x2 = PAGE_SIZE * q + PAGE_SIZE /\ y = Base(r) /\ y2 = PAGE_SIZE * r + PAGE_SIZE
  BY PageBounds
<1>2. x2 <= y \/ y2 <= x
  <2>1. q < r \/ r < q
    OBVIOUS
  <2> QED BY <2>1, <1>1, PageBounds
<1>3. x <= lo /\ hi <= x2 /\ y <= lo2 /\ hi2 <= y2
  BY <1>1 DEF InPage
<1> QED BY <1>2, <1>3 DEF Apart

(* The numbers of a block.                                                 *)
LEMMA BlockFields ==
  ASSUME NEW b \in Block
  PROVE  /\ b.ptr \in Int /\ b.size \in Nat /\ b.size >= 1 /\ Lo(b) \in Int /\ Hi(b) \in Int
         /\ Lo(b) < b.ptr /\ b.ptr < Hi(b)
<1>1. b.ptr \in Int /\ b.size \in Nat \ {0}
  BY DEF Block
<1> QED BY <1>1, HeapConstants DEF Lo, Hi

(* A block that lies in page q.                                            *)
LEMMA BlockPage ==
  ASSUME NEW b \in Block, NEW q \in Nat, InPage(Lo(b), Hi(b), q)
  PROVE  PageOf(b.ptr) = q
<1>1. PICK x \in Int, y \in Int : x = Base(q) /\ y = PAGE_SIZE * q + PAGE_SIZE
  BY PageBounds
<1>2. x <= b.ptr /\ b.ptr < y /\ b.ptr \in Int
  BY <1>1, BlockFields DEF InPage
<1> QED BY <1>1, <1>2, PageBounds

(* One more block, apart from the others.                                  *)
LEMMA AddBlock ==
  ASSUME NEW bl, BlocksOK(bl), NEW b \in Block, NEW q \in Nat, InPage(Lo(b), Hi(b), q),
         \A c \in bl : Apart(Lo(b), Hi(b), Lo(c), Hi(c))
  PROVE  /\ BlocksOK(bl \cup {b}) /\ PageOf(b.ptr) = q
         /\ PagesOfBlocks(bl \cup {b}) = PagesOfBlocks(bl) \cup ({q} \ {0})
<1>1. PageOf(b.ptr) = q
  BY BlockPage
<1>2. bl \cup {b} \subseteq Block
  BY DEF BlocksOK
<1>3. ASSUME NEW c \in bl \cup {b} PROVE PageOf(c.ptr) \in Nat /\ InPage(Lo(c), Hi(c), PageOf(c.ptr))
  BY <1>1 DEF BlocksOK
<1>4. ASSUME NEW c \in bl \cup {b}, NEW d \in bl \cup {b}, c # d PROVE Apart(Lo(c), Hi(c), Lo(d), Hi(d))
  <2>1. CASE c \in bl /\ d \in bl
    BY <2>1, <1>4 DEF BlocksOK
  <2>2. CASE c = b /\ d \in bl
    BY <2>2
  <2>3. CASE c \in bl /\ d = b
    BY <2>3 DEF Apart
  <2> QED BY <1>4, <2>1, <2>2, <2>3
<1>5. BlocksOK(bl \cup {b})
  BY <1>2, <1>3, <1>4 DEF BlocksOK
<1>6. PagesOfBlocks(bl \cup {b}) = PagesOfBlocks(bl) \cup ({q} \ {0})
  BY <1>1 DEF PagesOfBlocks
<1> QED BY <1>1, <1>5, <1>6

(* A block cut off the top of the pool.                                    *)
LEMMA CutFromPool ==
  ASSUME NEW low, NEW end, NEW bl, NEW size, NEW b, CutsPool(low, end, bl, size, b)
  PROVE  /\ BlocksOK(bl \cup {b}) /\ PoolOK(low, (end - size) - HEADER, bl \cup {b})
         /\ PagesOfBlocks(bl \cup {b}) = PagesOfBlocks(bl)
<1> USE DEF CutsPool
<1>1. low \in Int /\ end \in Int /\ low <= end /\ HEADER \in Nat \ {0}
  BY HeapConstants DEF PoolOK
<1>2. PICK q \in PagesOfBlocks(bl) \cup {0} : InPage(low, end, q)
  BY DEF PoolOK
<1>3. q \in Nat /\ (q = 0 \/ q \in PagesOfBlocks(bl))
  BY <1>2 DEF PagesOfBlocks, BlocksOK
<1>4. PICK top \in Int : top = (end - size) - HEADER /\ low <= top /\ top <= end
  BY <1>1
<1>5. b \in Block /\ Lo(b) = top /\ Hi(b) = end
  <2>1. end - size \in Int /\ (end - size) + size = end
    BY <1>1
  <2> QED BY <2>1, <1>4 DEF Block, Lo, Hi
<1>6. PICK x \in Int, y \in Int : x = Base(q) /\ y = PAGE_SIZE * q + PAGE_SIZE
  BY <1>3, PageBounds
<1>7. x <= low /\ end <= y
  BY <1>2, <1>6 DEF InPage
<1>8. InPage(Lo(b), Hi(b), q) /\ InPage(low, top, q)
  <2>1. x <= top /\ top <= y
    BY <1>1, <1>4, <1>7
  <2> QED BY <2>1, <1>5, <1>6, <1>7 DEF InPage
<1>9. ASSUME NEW c \in bl
      PROVE  Apart(Lo(b), Hi(b), Lo(c), Hi(c)) /\ Apart(Lo(c), Hi(c), low, top)
  <2>1. Hi(c) <= low \/ end <= Lo(c)
    BY DEF PoolOK, Apart
  <2>2. Hi(c) \in Int /\ Lo(c) \in Int
    BY BlockFields DEF BlocksOK
  <2>3. (Hi(c) <= top \/ end <= Lo(c)) /\ (Hi(c) <= low \/ top <= Lo(c))
    BY <2>1, <2>2, <1>1, <1>4
  <2> QED BY <2>3, <1>5 DEF Apart
<1>10. /\ BlocksOK(bl \cup {b})
       /\ PagesOfBlocks(bl \cup {b}) = PagesOfBlocks(bl) \cup ({q} \ {0})
  BY <1>3, <1>5, <1>8, <1>9, AddBlock
<1>11. PagesOfBlocks(bl \cup {b}) = PagesOfBlocks(bl)
  BY <1>3, <1>10
<1>12. PoolOK(low, top, bl \cup {b})
  <2>1. \A c \in bl \cup {b} : Apart(Lo(c), Hi(c), low, top)
    <3>1. Apart(Lo(b), Hi(b), low, top)
      BY <1>5 DEF Apart
    <3> QED BY <3>1, <1>9
  <2>2. \E r \in PagesOfBlocks(bl \cup {b}) \cup {0} : InPage(low, top, r)
    BY <1>2, <1>8, <1>11
  <2> QED BY <2>1, <2>2, <1>1, <1>4 DEF PoolOK
<1> QED BY <1>4, <1>10, <1>11, <1>12

(* A block at the end of a new page; the pool may move to what is left.    *)
LEMMA CutFromPage ==
  ASSUME NEW low, NEW end, NEW bl, NEW page, NEW size, NEW ptr, NEW base, NEW top, NEW b,
         CutsPage(low, end, bl, page, size, ptr, base, top, b)
  PROVE  /\ BlocksOK(bl \cup {b})
         /\ PoolOK(low, end, bl \cup {b}) /\ PoolOK(base, top, bl \cup {b})
         /\ LiesIn(b, page)
<1> USE DEF CutsPage
<1>1. /\ HEADER \in Nat \ {0} /\ PAGE_SIZE \in Nat \ {0} /\ size \in Nat \ {0}
      /\ size + HEADER <= PAGE_SIZE
  BY HeapConstants
<1>2. PICK x \in Nat : x = PAGE_SIZE * page
  BY <1>1, PageArithmetic
<1>3. PICK y \in Nat : y = (x + PAGE_SIZE) - size /\ ptr = y
  <2>1. (x + PAGE_SIZE) - size \in Nat /\ ptr = (x + PAGE_SIZE) - size
    BY <1>1, <1>2
  <2> QED BY <2>1
<1>4. PICK z \in Nat : z = y - HEADER /\ x <= z /\ z <= x + PAGE_SIZE
  BY <1>1, <1>3
<1>5. b \in Block /\ Lo(b) = z /\ Hi(b) = x + PAGE_SIZE
  <2>1. y + size = x + PAGE_SIZE
    BY <1>1, <1>3
  <2> QED BY <2>1, <1>1, <1>3, <1>4 DEF Block, Lo, Hi
<1>6. InPage(Lo(b), Hi(b), page) /\ InPage(x, z, page)
  BY <1>1, <1>2, <1>4, <1>5 DEF InPage, Base
<1>7. ASSUME NEW c \in bl
      PROVE  Apart(Lo(b), Hi(b), Lo(c), Hi(c)) /\ Apart(Lo(c), Hi(c), x, z)
  <2>1. PICK r \in Nat : r = PageOf(c.ptr) /\ InPage(Lo(c), Hi(c), r)
    BY DEF BlocksOK
  <2>2. r # page
    BY <2>1 DEF PagesOfBlocks
  <2>3. Lo(c) \in Int /\ Hi(c) \in Int
    BY BlockFields DEF BlocksOK
  <2>4. Lo(b) \in Int /\ Hi(b) \in Int /\ x \in Int /\ z \in Int /\ page \in Nat
    BY <1>1, <1>5
  <2>5. Apart(Lo(b), Hi(b), Lo(c), Hi(c))
    BY <2>1, <2>2, <2>3, <2>4, <1>6, PagesApart
  <2>6. Apart(Lo(c), Hi(c), x, z)
    BY <2>1, <2>2, <2>3, <2>4, <1>6, PagesApart
  <2> QED BY <2>5, <2>6
<1>8. /\ BlocksOK(bl \cup {b}) /\ PageOf(b.ptr) = page
      /\ PagesOfBlocks(bl \cup {b}) = PagesOfBlocks(bl) \cup ({page} \ {0})
  BY <1>5, <1>6, <1>7, AddBlock
<1>9. PagesOfBlocks(bl \cup {b}) = PagesOfBlocks(bl) \cup {page}
  BY <1>8
<1>10. PoolOK(x, z, bl \cup {b})
  <2>1. Apart(Lo(b), Hi(b), x, z)
    BY <1>5 DEF Apart
  <2>2. x \in Int /\ z \in Int /\ x <= z
    BY <1>4
  <2>3. \A c \in bl \cup {b} : Apart(Lo(c), Hi(c), x, z)
    BY <2>1, <1>7
  <2>4. \E q \in PagesOfBlocks(bl \cup {b}) \cup {0} : InPage(x, z, q)
    BY <1>6, <1>9
  <2> QED BY <2>2, <2>3, <2>4 DEF PoolOK
<1>11. PoolOK(low, end, bl \cup {b})
  <2>1. low \in Int /\ end \in Int /\ low <= end
    BY DEF PoolOK
  <2>2. PICK q \in PagesOfBlocks(bl) \cup {0} : InPage(low, end, q)
    BY DEF PoolOK
  <2>3. q \in Nat /\ q # page
    BY <2>2 DEF PagesOfBlocks, BlocksOK
  <2>4. Apart(Lo(b), Hi(b), low, end)
    <3>1. Lo(b) \in Int /\ Hi(b) \in Int /\ low \in Int /\ end \in Int /\ page \in Nat
      BY <2>1, <1>1, <1>5
    <3> QED BY <3>1, <2>2, <2>3, <1>6, PagesApart
  <2>5. \A c \in bl \cup {b} : Apart(Lo(c), Hi(c), low, end)
    BY <2>4 DEF PoolOK
  <2> QED BY <2>1, <2>2, <2>5, <1>9 DEF PoolOK
<1>12. z = top /\ x = base
  BY <1>2, <1>3, <1>4
<1>13. LiesIn(b, page)
  BY <1>8 DEF LiesIn
<1> QED BY <1>8, <1>10, <1>11, <1>12, <1>13

(* Marking a block free moves nothing.                                     *)
LEMMA MarkFree ==
  ASSUME NEW low, NEW end, NEW bl, NEW b, NEW new, Marks(low, end, bl, b, new)
  PROVE  BlocksOK(new) /\ PoolOK(low, end, new) /\ PagesOfBlocks(new) = PagesOfBlocks(bl)
<1> USE DEF Marks
<1>0. PICK c : c = [b EXCEPT !.live = FALSE] /\ new = (bl \ {b}) \cup {c}
  OBVIOUS
<1>1. c \in Block /\ c.ptr = b.ptr /\ c.size = b.size /\ Lo(c) = Lo(b) /\ Hi(c) = Hi(b)
  <2>1. b \in Block
    BY DEF BlocksOK
  <2>2. c \in Block /\ c.ptr = b.ptr /\ c.size = b.size
    BY <2>1, <1>0 DEF Block
  <2> QED BY <2>2 DEF Lo, Hi
<1>2. PagesOfBlocks(new) = PagesOfBlocks(bl)
  BY <1>0, <1>1 DEF PagesOfBlocks
<1>3. \A d \in new : d \in Block /\ PageOf(d.ptr) \in Nat /\ InPage(Lo(d), Hi(d), PageOf(d.ptr))
  BY <1>0, <1>1 DEF BlocksOK
<1>4. ASSUME NEW d \in new, NEW e \in new, d # e PROVE Apart(Lo(d), Hi(d), Lo(e), Hi(e))
  <2>1. CASE d # c /\ e # c
    BY <2>1, <1>0, <1>4 DEF BlocksOK
  <2>2. CASE d = c /\ e # c
    <3>1. e \in bl /\ e # b
      BY <2>2, <1>0
    <3> QED BY <3>1, <2>2, <1>1 DEF BlocksOK
  <2>3. CASE d # c /\ e = c
    <3>1. d \in bl /\ d # b
      BY <2>3, <1>0
    <3> QED BY <3>1, <2>3, <1>1 DEF BlocksOK
  <2> QED BY <1>4, <2>1, <2>2, <2>3
<1>5. BlocksOK(new)
  BY <1>3, <1>4 DEF BlocksOK
<1>6. PoolOK(low, end, new)
  <2>1. \A d \in new : Apart(Lo(d), Hi(d), low, end)
    BY <1>0, <1>1 DEF PoolOK
  <2> QED BY <2>1, <1>2 DEF PoolOK
<1> QED BY <1>2, <1>5, <1>6

LEMMA HeapInit == heap_init => HeapInv
<1> SUFFICES ASSUME heap_init PROVE HeapInv
  OBVIOUS
<1>1. AllocInv
  BY AllocInit DEF heap_init
<1>2. BlocksOK(blocks) /\ PagesOfBlocks(blocks) = {}
  BY DEF heap_init, BlocksOK, PagesOfBlocks
<1>3. PoolOK(heap_low, heap_end, blocks)
  <2>1. heap_low = kimg_end /\ heap_end = PAGE_SIZE /\ blocks = {}
    BY DEF heap_init
  <2>2. PAGE_SIZE * 0 = 0
    BY HeapConstants, PageArithmetic
  <2>3. InPage(heap_low, heap_end, 0)
    BY <2>1, <2>2, HeapConstants DEF InPage, Base
  <2> QED BY <2>1, <2>3, HeapConstants DEF PoolOK
<1> QED BY <1>1, <1>2, <1>3 DEF HeapInv

(* kmalloc and kcalloc once the size is rounded.                           *)
LEMMA MallocStep ==
  ASSUME HeapInv, NEW size, heap_malloc_actual(size)
  PROVE  BlocksOK(blocks)' /\ PoolOK(heap_low, heap_end, blocks)' /\ (PagesOfBlocks(blocks) \subseteq used)'
<1>1. /\ BlocksOK(blocks) /\ PoolOK(heap_low, heap_end, blocks) /\ PagesOfBlocks(blocks) \subseteq used
      /\ AllocInv
  BY DEF HeapInv
<1>2. CASE UNCHANGED <<blocks, heap_low, heap_end, used>>
  BY <1>1, <1>2
<1>3. CASE size \in 1 .. HEAP_ALLOC_MAX /\ from_pool(size)
  <2>1. PICK b : b = [ptr |-> heap_end - size, size |-> size, live |-> TRUE]
    OBVIOUS
  <2>2. /\ size \in Nat \ {0} /\ size + HEADER <= heap_end - heap_low
        /\ heap_end' = (heap_end - size) - HEADER /\ heap_low' = heap_low
        /\ blocks' = blocks \cup {b} /\ used' = used
    BY <1>3, <2>1, HeapConstants DEF from_pool, Fits, Header, vars
  <2>3. /\ BlocksOK(blocks \cup {b}) /\ PoolOK(heap_low, (heap_end - size) - HEADER, blocks \cup {b})
        /\ PagesOfBlocks(blocks \cup {b}) = PagesOfBlocks(blocks)
    <3>1. CutsPool(heap_low, heap_end, blocks, size, b)
      BY <2>1, <2>2, <1>1 DEF CutsPool
    <3> QED BY <3>1, CutFromPool
  <2> QED BY <2>2, <2>3, <1>1
<1>4. CASE size \in 1 .. HEAP_ALLOC_MAX /\ from_page(size)
  <2> DEFINE page == CHOOSE p \in used' : p \notin used
             ptr == PAGE_SIZE * page + PAGE_SIZE - size
             b == [ptr |-> ptr, size |-> size, live |-> TRUE]
  <2>1. PICK t \in AllPages : Run(t, 1) \subseteq AllPages \ used /\ used' = used \cup Run(t, 1)
    <3>1. 1 \in Nat \ {0} /\ alloc_phys_pages(1)
      BY <1>4 DEF from_page
    <3> QED BY <3>1, <1>1, AllocStep
  <2>2. t \in Nat \ {0} /\ Run(t, 1) = {t}
    BY PagesAssumption DEF AllPages, Run
  <2>3. page \in used' /\ page \notin used
    BY <2>1, <2>2
  <2>4. page \in Nat \ {0} /\ used' = used \cup {page} /\ page \notin PagesOfBlocks(blocks)
    BY <2>1, <2>2, <2>3, <1>1
  <2>5. /\ blocks' = blocks \cup {b}
        /\ \/ heap_low' = heap_low /\ heap_end' = heap_end
           \/ heap_low' = PAGE_SIZE * page /\ heap_end' = ptr - HEADER
    BY <1>4 DEF from_page, Header
  <2> HIDE DEF page
  <2>6. /\ BlocksOK(blocks \cup {b})
        /\ PoolOK(heap_low, heap_end, blocks \cup {b}) /\ PoolOK(PAGE_SIZE * page, ptr - HEADER, blocks \cup {b})
        /\ PagesOfBlocks(blocks \cup {b}) = PagesOfBlocks(blocks) \cup {page}
    <3>1. PICK pg, x, base, top, c : pg = page /\ x = ptr /\ base = PAGE_SIZE * page /\ top = ptr - HEADER /\ c = b
      OBVIOUS
    <3>2. CutsPage(heap_low, heap_end, blocks, pg, size, x, base, top, c)
      BY <3>1, <2>4, <1>1, <1>4 DEF CutsPage
    <3>3. BlocksOK(blocks \cup {c}) /\ PoolOK(heap_low, heap_end, blocks \cup {c})
      BY <3>2, CutFromPage
    <3>4. PoolOK(base, top, blocks \cup {c})
      BY <3>2, CutFromPage
    <3>5. PagesOfBlocks(blocks \cup {c}) = PagesOfBlocks(blocks) \cup {page}
      <4>1. LiesIn(c, pg)
        BY <3>2, CutFromPage
      <4>2. page # 0 /\ page = pg
        BY <2>4, <3>1
      <4> QED BY <4>1, <4>2 DEF PagesOfBlocks, LiesIn
    <3> QED BY <3>1, <3>3, <3>4, <3>5, Zenon
  <2> HIDE DEF ptr, b
  <2>7. BlocksOK(blocks')
    BY <2>5, <2>6
  <2>8. PoolOK(heap_low', heap_end', blocks')
    BY <2>5, <2>6
  <2>9. PagesOfBlocks(blocks') \subseteq used'
    BY <2>4, <2>5, <2>6, <1>1
  <2> QED BY <2>7, <2>8, <2>9
<1>5. CASE size = 0 /\ UNCHANGED allVars
  BY <1>2, <1>5 DEF allVars, vars, heapVars
<1>6. CASE size > HEAP_ALLOC_MAX /\ heap_panic
  BY <1>2, <1>6 DEF heap_panic, vars
<1>7. CASE alloc_panic(1) /\ UNCHANGED heapVars
  BY <1>2, <1>7 DEF alloc_panic, heapVars
<1> QED BY <1>3, <1>4, <1>5, <1>6, <1>7 DEF heap_malloc_actual

LEMMA HeapStep ==
  ASSUME HeapInv, [HeapNext]_allVars
  PROVE  HeapInv'
<1>1. /\ BlocksOK(blocks) /\ PoolOK(heap_low, heap_end, blocks) /\ PagesOfBlocks(blocks) \subseteq used
      /\ AllocInv
  BY DEF HeapInv
<1> DEFINE Kept == BlocksOK(blocks)' /\ PoolOK(heap_low, heap_end, blocks)' /\ (PagesOfBlocks(blocks) \subseteq used)'
<1>2. ASSUME UNCHANGED <<blocks, heap_low, heap_end, used>> PROVE Kept
  BY <1>1, <1>2
<1>3. ASSUME heap_panic PROVE Kept
  BY <1>2, <1>3 DEF heap_panic, vars
<1>4. ASSUME NEW size \in Sizes, kmalloc(size) \/ kcalloc(size) PROVE Kept
  <2>1. heap_panic \/ \E s : heap_malloc_actual(s)
    BY <1>4 DEF kmalloc, kcalloc
  <2> HIDE DEF Kept
  <2>2. ASSUME NEW s, heap_malloc_actual(s) PROVE Kept
    BY <2>2, MallocStep DEF Kept
  <2> QED BY <2>1, <2>2, <1>3
<1>5. ASSUME NEW b \in blocks, kfree(b) PROVE Kept
  <2>1. CASE ~b.live
    BY <2>1, <1>3, <1>5 DEF kfree
  <2>2. CASE b.live
    <3>1. PICK new : new = (blocks \ {b}) \cup {[b EXCEPT !.live = FALSE]}
      OBVIOUS
    <3>2. blocks' = new /\ used' = used /\ heap_low' = heap_low /\ heap_end' = heap_end
      BY <3>1, <2>2, <1>5 DEF kfree, vars
    <3>3. BlocksOK(new) /\ PoolOK(heap_low, heap_end, new) /\ PagesOfBlocks(new) = PagesOfBlocks(blocks)
      <4>1. Marks(heap_low, heap_end, blocks, b, new)
        BY <3>1, <1>1 DEF Marks
      <4> QED BY <4>1, MarkFree
    <3> QED BY <3>2, <3>3, <1>1
  <2> QED BY <2>1, <2>2
<1>6. ASSUME NEW cnt \in 1 .. MaxCnt, PageUser(cnt) PROVE Kept
  <2>1. blocks' = blocks /\ heap_low' = heap_low /\ heap_end' = heap_end
    BY <1>6 DEF PageUser, heapVars
  <2>2. HeapPages = PagesOfBlocks(blocks)
    BY DEF HeapPages, PagesOfBlocks
  <2>3. HeapPages \subseteq used'
    <3>1. CASE alloc_phys_pages(cnt)
      BY <3>1, <2>2, <1>1 DEF alloc_phys_pages
    <3>2. CASE alloc_panic(cnt)
      BY <3>2, <2>2, <1>1 DEF alloc_panic
    <3>3. ASSUME NEW p \in AllPages, Run(p, cnt) \cap HeapPages = {}, free_phys_pages(p, cnt)
          PROVE  HeapPages \subseteq used'
      BY <3>3, <2>2, <1>1 DEF free_phys_pages
    <3> QED BY <3>1, <3>2, <3>3, <1>6 DEF PageUser
  <2> QED BY <2>1, <2>2, <2>3, <1>1
<1>7. ASSUME UNCHANGED allVars PROVE Kept
  BY <1>2, <1>7 DEF allVars, vars, heapVars
<1>8. Kept
  <2> HIDE DEF Kept
  <2> QED BY <1>4, <1>5, <1>6, <1>7 DEF HeapNext, HeapHalted
<1>9. AllocInv'
  BY <1>1, AllocNext
<1> QED BY <1>8, <1>9 DEF HeapInv

(* The invariant of the heap and the allocator together.                   *)
THEOREM HeapInvariance == HeapSpec => []HeapInv
<1>1. HeapInv /\ [HeapNext]_allVars => HeapInv'
  BY HeapStep
<1> QED BY <1>1, HeapInit, PTL DEF HeapSpec

(* No byte is handed out twice, and no page of the heap is in the list the *)
(* allocator serves others from.                                           *)
THEOREM DisjointHeap == HeapSpec => []HeapDisjoint
<1>1. HeapInv => HeapDisjoint
  <2> SUFFICES ASSUME HeapInv PROVE HeapDisjoint
    OBVIOUS
  <2>1. /\ BlocksOK(blocks) /\ PoolOK(heap_low, heap_end, blocks) /\ PagesOfBlocks(blocks) \subseteq used
        /\ HeapPages = PagesOfBlocks(blocks)
    BY DEF HeapInv, HeapPages, PagesOfBlocks
  <2>2. heap_low \in Int /\ heap_end \in Int /\ heap_low <= heap_end
    BY <2>1 DEF PoolOK
  <2>3. PICK low \in Int, end \in Int : low = heap_low /\ end = heap_end
    BY <2>2
  <2>4. ASSUME NEW lo \in Int, NEW hi \in Int, NEW q \in Nat, InPage(lo, hi, q)
        PROVE  \A a \in lo .. hi - 1 : kimg_end <= a /\ PageOf(a) = q
    <3>1. PICK x \in Int, y \in Int : x = Base(q) /\ y = PAGE_SIZE * q + PAGE_SIZE /\ kimg_end <= x
      BY PageBounds
    <3>2. x <= lo /\ hi <= y
      BY <2>4, <3>1 DEF InPage
    <3>3. ASSUME NEW a \in lo .. hi - 1 PROVE kimg_end <= a /\ PageOf(a) = q
      <4>1. a \in Int /\ x <= a /\ a < y /\ kimg_end <= a
        BY <3>1, <3>2, HeapConstants
      <4> QED BY <4>1, <3>1, PageBounds
    <3> QED BY <3>3
  <2>5. PICK q \in HeapPages \cup {0} : InPage(low, end, q)
    BY <2>1, <2>3 DEF PoolOK
  <2>6. q \in Nat
    BY <2>1, <2>5 DEF BlocksOK, PagesOfBlocks
  <2>7. \A a \in low .. end - 1 : kimg_end <= a /\ PageOf(a) = q
    BY <2>4, <2>5, <2>6
  <2>8. PoolExtent = low .. end - 1
    BY <2>3 DEF PoolExtent
  <2>10. ASSUME NEW a \in PoolExtent
         PROVE  kimg_end <= a /\ PageOf(a) \in HeapPages \cup {0} /\ PageOf(a) = PageOf(heap_low)
    <3>1. a \in low .. end - 1 /\ low \in low .. end - 1
      BY <2>8
    <3> QED BY <3>1, <2>3, <2>5, <2>7
  <2>11. ASSUME NEW b \in blocks
         PROVE  /\ Lo(b) \in Int /\ Hi(b) \in Int /\ Extent(b) = Lo(b) .. Hi(b) - 1
                /\ \A a \in Extent(b) : kimg_end <= a /\ PageOf(a) = PageOf(b.ptr)
    <3>1. PageOf(b.ptr) \in Nat /\ InPage(Lo(b), Hi(b), PageOf(b.ptr)) /\ b \in Block
      BY <2>1 DEF BlocksOK
    <3>2. Lo(b) \in Int /\ Hi(b) \in Int /\ b.ptr \in Int /\ b.size \in Nat
      BY <3>1, BlockFields
    <3>3. Extent(b) = Lo(b) .. Hi(b) - 1
      BY <3>2 DEF Extent, Lo, Hi
    <3> QED BY <3>1, <3>2, <3>3, <2>4
  <2>12. ASSUME NEW b \in blocks PROVE Extent(b) \cap PoolExtent = {}
    <3>1. PICK x \in Int, y \in Int : x = Lo(b) /\ y = Hi(b) /\ Extent(b) = x .. y - 1
      BY <2>11
    <3>2. y <= low \/ end <= x
      BY <3>1, <2>1, <2>3 DEF PoolOK, Apart
    <3>3. (x .. y - 1) \cap (low .. end - 1) = {}
      BY <3>2
    <3> QED BY <3>1, <3>3, <2>8
  <2>13. ASSUME NEW b \in blocks, NEW c \in blocks \ {b} PROVE Extent(b) \cap Extent(c) = {}
    <3>1. PICK x \in Int, y \in Int : x = Lo(b) /\ y = Hi(b) /\ Extent(b) = x .. y - 1
      BY <2>11
    <3>2. PICK u \in Int, v \in Int : u = Lo(c) /\ v = Hi(c) /\ Extent(c) = u .. v - 1
      BY <2>11
    <3>3. y <= u \/ v <= x
      BY <3>1, <3>2, <2>1 DEF BlocksOK, Apart
    <3>4. (x .. y - 1) \cap (u .. v - 1) = {}
      BY <3>3
    <3> QED BY <3>1, <3>2, <3>4
  <2> QED BY <2>1, <2>2, <2>10, <2>11, <2>12, <2>13 DEF HeapDisjoint
<1> QED BY <1>1, HeapInvariance, PTL
=============================================================================
