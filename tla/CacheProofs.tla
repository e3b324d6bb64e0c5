---------------------------- MODULE CacheProofs ----------------------------
(***************************************************************************)
(* Proofs about Cache, for every set of threads, blocks and contents and   *)
(* every number of nodes.                                                  *)
(***************************************************************************)
EXTENDS Cache, FiniteSetTheorems, WellFoundedInduction, NaturalsInduction, TLAPS

(* Where a thread can stand; Busy: with the lock, asleep in the device or  *)
(* between two transfers.                                                  *)
Places == {"user", "evict", "fetch", "flush_loop", "flush_store"}
Busy == {"evict", "fetch", "flush_loop", "flush_store"}

TypeOK ==
  /\ disk \in [Blocks -> Values]
  /\ list \in Seq(Blocks)
  /\ data \in [Blocks -> Values]
  /\ dirty \in [Blocks -> BOOLEAN]
  /\ refcnt \in [Blocks -> Nat]
  /\ lock \in Thr \cup {NoThread}
  /\ pc \in [Thr -> Places]
  /\ arg \in [Thr -> Blocks \cup {NoBlock}]
  /\ pin \in [Thr -> [Slots -> Blocks \cup {NoBlock}]]
  /\ wrote \in [Thr -> [Slots -> BOOLEAN]]
  /\ copy \in [Thr -> Values \cup {NoBlock}]
  /\ curr \in [Thr -> Nat]
  /\ refused \subseteq Blocks

(* A busy thread owns the lock, so at most one is busy.                    *)
LockHeld == \A t \in Thr : pc[t] \in Busy => lock = t

(* A get that sleeps in the device has a slot for its result.              *)
ArgsOK ==
  \A t \in Thr : pc[t] \in {"evict", "fetch"} => arg[t] \in Blocks /\ FreeSlots(t) # {}

(* What a miss found when it took the lock still holds after its sleeps:   *)
(* the block has no node, and there is room for one.                       *)
MissOK ==
  \A t \in Thr :
    /\ pc[t] \in {"evict", "fetch"} => ~Cached(arg[t])
    /\ pc[t] = "fetch" => Len(list) < NNODES

(* Nobody writes to the victim while it is written back.                   *)
EvictOK ==
  \A t \in Thr : pc[t] = "evict" =>
    \A v \in Blocks : IsVictim(v) => copy[t] = data[v]

(* Behind the position of a flush every node is clean; the device's copy   *)
(* is the node's data unless a holder has written since.                   *)
FlushOK ==
  \A t \in Thr :
    /\ pc[t] \in {"flush_loop", "flush_store"} =>
         /\ curr[t] \in 1 .. Len(list) + 1
         /\ \A j \in DOMAIN list : j < curr[t] => ~dirty[list[j]]
    /\ pc[t] = "flush_store" =>
         /\ curr[t] \in DOMAIN list
         /\ copy[t] \in Values
         /\ Modified(list[curr[t]]) \/ copy[t] = data[list[curr[t]]]

Inv == /\ TypeOK /\ LockHeld /\ ArgsOK /\ MissOK /\ EvictOK /\ FlushOK
       /\ NodesDistinct /\ PinsCounted /\ CleanOnDisk

---------------------------------------------------------------------------
(* Lists and sets of numbers.                                              *)

(* A non-empty set of natural numbers has a least member.                  *)
LEMMA LeastNumber ==
  ASSUME NEW T, T \subseteq Nat, T # {}
  PROVE  \E x \in T : \A y \in T : x <= y
<1>1. IsWellFoundedOn(OpToRel(<, Nat), Nat)
  BY NatLessThanWellFounded
<1>2. PICK x \in T : \A y \in T : ~(<<y, x>> \in OpToRel(<, Nat))
  BY <1>1, WFMin
<1>3. \A y \in T : ~(y < x)
  BY <1>2 DEF OpToRel
<1> QED BY <1>3

(* Removing a position closes the gap and keeps the order.                 *)
LEMMA RemoveAtProperties ==
  ASSUME NEW S, NEW s \in Seq(S), NEW i \in 1 .. Len(s)
  PROVE  /\ RemoveAt(s, i) \in Seq(S)
         /\ Len(RemoveAt(s, i)) = Len(s) - 1
         /\ \A j \in 1 .. Len(s) - 1 :
              RemoveAt(s, i)[j] = IF j < i THEN s[j] ELSE s[j + 1]
<1> DEFINE u == SubSeq(s, 1, i - 1)
           v == SubSeq(s, i + 1, Len(s))
<1>1. Len(s) \in Nat /\ i \in Nat /\ i >= 1 /\ i <= Len(s)
  OBVIOUS
<1>2. u \in Seq(S) /\ Len(u) = i - 1
  BY <1>1
<1>3. ASSUME NEW j \in 1 .. i - 1 PROVE u[j] = s[j]
  BY <1>1
<1>4. Len(v) = Len(s) - i
  BY <1>1
<1>5. v \in Seq(S)
  BY <1>1
<1>6. ASSUME NEW j \in 1 .. Len(s) - i PROVE v[j] = s[j + i]
  BY <1>1, <1>4
<1>7. RemoveAt(s, i) = u \o v
  BY DEF RemoveAt
<1> HIDE DEF u, v
<1>8. u \o v \in Seq(S)
  BY <1>2, <1>5
<1>9. Len(u \o v) = Len(s) - 1
  BY <1>1, <1>2, <1>4, <1>5
<1>10. ASSUME NEW j \in 1 .. Len(s) - 1
       PROVE  (u \o v)[j] = IF j < i THEN s[j] ELSE s[j + 1]
  <2>1. CASE j < i
    BY <2>1, <1>1, <1>2, <1>3, <1>4, <1>5
  <2>2. CASE ~(j < i)
    <3>1. (u \o v)[j] = v[j - (i - 1)]
      BY <2>2, <1>1, <1>2, <1>4, <1>5
    <3> QED BY <2>2, <1>1, <1>6, <3>1
  <2> QED BY <2>1, <2>2
<1> QED BY <1>7, <1>8, <1>9, <1>10

(* A node that is unlinked, moved to the front, or new at the front.       *)
LEMMA Unlinked ==
  ASSUME list \in Seq(Blocks), NodesDistinct, NEW b \in Blocks, Cached(b)
  PROVE  /\ WithoutBlock(b) \in Seq(Blocks)
         /\ Len(WithoutBlock(b)) = Len(list) - 1
         /\ \A c : (\E i \in DOMAIN WithoutBlock(b) : WithoutBlock(b)[i] = c)
                     <=> Cached(c) /\ c # b
         /\ \A i, j \in DOMAIN WithoutBlock(b) :
              WithoutBlock(b)[i] = WithoutBlock(b)[j] => i = j
<1> DEFINE p == Position(b)
           w == WithoutBlock(b)
<1>1. p \in 1 .. Len(list) /\ list[p] = b
  BY DEF Position, Cached
<1>2. /\ w \in Seq(Blocks) /\ Len(w) = Len(list) - 1
      /\ \A j \in 1 .. Len(list) - 1 : w[j] = IF j < p THEN list[j] ELSE list[j + 1]
  <2> HIDE DEF p
  <2> QED BY <1>1, RemoveAtProperties DEF WithoutBlock, p
<1> HIDE DEF p, w
<1>3. DOMAIN w = 1 .. Len(list) - 1 /\ DOMAIN list = 1 .. Len(list) /\ Len(list) \in Nat
  BY <1>2
<1>4. \A i, j \in DOMAIN w : w[i] = w[j] => i = j
  BY <1>1, <1>2, <1>3 DEF NodesDistinct
<1>5. ASSUME NEW c, NEW i \in DOMAIN w, w[i] = c PROVE Cached(c) /\ c # b
  BY <1>1, <1>2, <1>3, <1>5 DEF NodesDistinct, Cached
<1>6. ASSUME NEW c, Cached(c), c # b PROVE \E i \in DOMAIN w : w[i] = c
  <2>1. PICK k \in 1 .. Len(list) : list[k] = c
    BY <1>6, <1>3 DEF Cached
  <2>2. CASE k < p
    BY <2>1, <2>2, <1>1, <1>2, <1>3
  <2>3. CASE k > p
    <3>1. k - 1 \in DOMAIN w /\ w[k - 1] = c
      BY <2>1, <2>3, <1>1, <1>2, <1>3
    <3> QED BY <3>1
  <2> QED BY <1>1, <1>6, <2>1, <2>2, <2>3
<1> QED BY <1>2, <1>4, <1>5, <1>6 DEF w

LEMMA AtFront ==
  ASSUME NEW s \in Seq(Blocks), NEW b \in Blocks,
         \A i, j \in DOMAIN s : s[i] = s[j] => i = j,
         \A i \in DOMAIN s : s[i] # b
  PROVE  /\ <<b>> \o s \in Seq(Blocks)
         /\ Len(<<b>> \o s) = Len(s) + 1
         /\ \A c : (\E i \in DOMAIN (<<b>> \o s) : (<<b>> \o s)[i] = c)
                     <=> c = b \/ \E i \in DOMAIN s : s[i] = c
         /\ \A i, j \in DOMAIN (<<b>> \o s) :
              (<<b>> \o s)[i] = (<<b>> \o s)[j] => i = j
<1> DEFINE u == <<b>> \o s
<1>1. u \in Seq(Blocks) /\ Len(u) = Len(s) + 1 /\ Len(s) \in Nat
  OBVIOUS
<1>2. \A i \in 1 .. Len(s) + 1 : u[i] = IF i = 1 THEN b ELSE s[i - 1]
  OBVIOUS
<1> HIDE DEF u
<1>3. DOMAIN u = 1 .. Len(s) + 1 /\ DOMAIN s = 1 .. Len(s)
  BY <1>1
<1>4. ASSUME NEW i \in DOMAIN s PROVE i + 1 \in DOMAIN u /\ u[i + 1] = s[i]
  BY <1>1, <1>2, <1>3
<1>5. ASSUME NEW c PROVE (\E i \in DOMAIN u : u[i] = c) <=> c = b \/ \E i \in DOMAIN s : s[i] = c
  BY <1>1, <1>2, <1>3, <1>4
<1>6. ASSUME NEW i \in DOMAIN u, NEW j \in DOMAIN u, u[i] = u[j] PROVE i = j
  <2>1. CASE i = 1 \/ j = 1
    <3>1. ASSUME NEW k \in DOMAIN u, k # 1 PROVE u[k] # b
      <4>1. k - 1 \in DOMAIN s /\ u[k] = s[k - 1]
        BY <1>1, <1>2, <1>3, <3>1
      <4> QED BY <4>1
    <3>2. u[1] = b
      BY <1>1, <1>2
    <3> QED BY <1>6, <2>1, <3>1, <3>2
  <2>2. CASE i # 1 /\ j # 1
    <3>1. i - 1 \in DOMAIN s /\ j - 1 \in DOMAIN s /\ s[i - 1] = s[j - 1]
      BY <1>1, <1>2, <1>3, <1>6, <2>2
    <3>2. i - 1 = j - 1
      BY <3>1
    <3> QED BY <1>1, <1>3, <3>2
  <2> QED BY <2>1, <2>2
<1> QED BY <1>1, <1>5, <1>6 DEF u

LEMMA Linked ==
  ASSUME NEW s \in Seq(Blocks), NEW b \in Blocks, list' = <<b>> \o s,
         \A i, j \in DOMAIN s : s[i] = s[j] => i = j,
         \A i \in DOMAIN s : s[i] # b
  PROVE  /\ list' \in Seq(Blocks) /\ Len(list') = Len(s) + 1
         /\ \A i, j \in DOMAIN list' : list'[i] = list'[j] => i = j
         /\ \A c : Cached(c)' <=> c = b \/ \E i \in DOMAIN s : s[i] = c
<1> DEFINE f == <<b>> \o s
<1>1. /\ f \in Seq(Blocks) /\ Len(f) = Len(s) + 1
      /\ \A c : (\E i \in DOMAIN f : f[i] = c) <=> c = b \/ \E i \in DOMAIN s : s[i] = c
      /\ \A i, j \in DOMAIN f : f[i] = f[j] => i = j
  BY AtFront
<1>2. list' = f
  OBVIOUS
<1> HIDE DEF f
<1> QED BY <1>1, <1>2 DEF Cached

---------------------------------------------------------------------------
(* Pins.                                                                   *)

LEMMA FiniteHolders ==
  ASSUME NEW b
  PROVE  /\ IsFiniteSet(Holders(b)) /\ Cardinality(Holders(b)) \in Nat
         /\ Cardinality(Holders(b)) = 0 <=> Holders(b) = {}
<1>1. IsFiniteSet(Thr \X Slots)
  BY HoldersAssumption, FS_Product
<1>2. Holders(b) \in SUBSET (Thr \X Slots)
  BY DEF Holders
<1>3. IsFiniteSet(Holders(b))
  BY <1>1, <1>2, FS_Subset
<1> QED BY <1>3, FS_CardinalityType, FS_EmptySet

(* Updating one entry of a table, and of the table of writes.              *)
LEMMA TableUpdate ==
  ASSUME NEW S, NEW R, NEW V, NEW f \in [S -> [R -> V]], NEW a \in S, NEW r \in R,
         NEW v \in V, NEW g, g = [f EXCEPT ![a][r] = v]
  PROVE  /\ g \in [S -> [R -> V]]
         /\ g[a][r] = v
         /\ \A x \in S, y \in R : <<x, y>> # <<a, r>> => g[x][y] = f[x][y]
OBVIOUS

LEMMA WroteUpdate ==
  ASSUME TypeOK, NEW t \in Thr, NEW s \in Slots, NEW v \in BOOLEAN,
         wrote' = [wrote EXCEPT ![t][s] = v]
  PROVE  /\ wrote' \in [Thr -> [Slots -> BOOLEAN]]
         /\ wrote'[t][s] = v
         /\ \A h \in Thr \X Slots : h # <<t, s>> => wrote'[h[1]][h[2]] = wrote[h[1]][h[2]]
<1>1. wrote \in [Thr -> [Slots -> BOOLEAN]]
  BY DEF TypeOK
<1>2. /\ wrote' \in [Thr -> [Slots -> BOOLEAN]] /\ wrote'[t][s] = v
      /\ \A x \in Thr, y \in Slots : <<x, y>> # <<t, s>> => wrote'[x][y] = wrote[x][y]
  BY <1>1, TableUpdate
<1>3. ASSUME NEW h \in Thr \X Slots, h # <<t, s>>
      PROVE  wrote'[h[1]][h[2]] = wrote[h[1]][h[2]]
  <2>1. h[1] \in Thr /\ h[2] \in Slots /\ <<h[1], h[2]>> # <<t, s>>
    BY <1>3
  <2> QED BY <1>2, <2>1
<1> QED BY <1>2, <1>3

(* A new pointer is one more holder of its block, with nothing written.    *)
LEMMA SlotEffect ==
  ASSUME TypeOK, NEW t \in Thr, NEW s \in Slots, NEW b \in Blocks, pin[t][s] = NoBlock,
         pin' = [pin EXCEPT ![t][s] = b], wrote' = [wrote EXCEPT ![t][s] = FALSE]
  PROVE  /\ pin' \in [Thr -> [Slots -> Blocks \cup {NoBlock}]]
         /\ wrote' \in [Thr -> [Slots -> BOOLEAN]]
         /\ <<t, s>> \notin Holders(b)
         /\ Holders(b)' = Holders(b) \cup {<<t, s>>}
         /\ \A c \in Blocks \ {b} : Holders(c)' = Holders(c)
         /\ \A c \in Blocks : Modified(c)' <=> Modified(c)
         /\ \A u \in Thr \ {t} : pin'[u] = pin[u]
<1>3. NoBlock \notin Blocks
  BY StoredAssumption
<1>4. pin' \in [Thr -> [Slots -> Blocks \cup {NoBlock}]] /\ wrote' \in [Thr -> [Slots -> BOOLEAN]]
  BY TableUpdate, WroteUpdate DEF TypeOK
<1>5. \A h \in Thr \X Slots : pin'[h[1]][h[2]] = IF h = <<t, s>> THEN b ELSE pin[h[1]][h[2]]
  BY DEF TypeOK
<1>6. \A h \in Thr \X Slots : h # <<t, s>> => wrote'[h[1]][h[2]] = wrote[h[1]][h[2]]
  BY WroteUpdate
<1>7. wrote'[t][s] = FALSE
  BY WroteUpdate
<1>8. <<t, s>> \in Thr \X Slots /\ <<t, s>>[1] = t /\ <<t, s>>[2] = s
  OBVIOUS
<1>9. Holders(b)' = Holders(b) \cup {<<t, s>>}
  BY <1>5, <1>8 DEF Holders
<1>10. \A c \in Blocks : <<t, s>> \notin Holders(c)
  BY <1>3, <1>8 DEF Holders
<1>11. \A c \in Blocks \ {b} : Holders(c)' = Holders(c)
  BY <1>5, <1>8, <1>10 DEF Holders
<1>12. ASSUME NEW c \in Blocks PROVE Modified(c)' <=> Modified(c)
  <2>1. ASSUME Modified(c) PROVE Modified(c)'
    <3>1. PICK h \in Holders(c) : wrote[h[1]][h[2]]
      BY <2>1 DEF Modified
    <3>2. h \in Thr \X Slots /\ h # <<t, s>> /\ h \in Holders(c)'
      BY <3>1, <1>9, <1>10, <1>11 DEF Holders
    <3> QED BY <3>1, <3>2, <1>6 DEF Modified
  <2>2. ASSUME Modified(c)' PROVE Modified(c)
    <3>1. PICK h \in Holders(c)' : wrote'[h[1]][h[2]]
      BY <2>2 DEF Modified
    <3>2. h \in Thr \X Slots /\ h # <<t, s>>
      BY <3>1, <1>7, <1>8 DEF Holders
    <3>3. h \in Holders(c)
      BY <3>1, <3>2, <1>9, <1>11
    <3> QED BY <3>1, <3>2, <3>3, <1>6 DEF Modified
  <2> QED BY <2>1, <2>2
<1>13. \A u \in Thr \ {t} : pin'[u] = pin[u]
  BY DEF TypeOK
<1> QED BY <1>4, <1>9, <1>10, <1>11, <1>12, <1>13

LEMMA PinEffect ==
  ASSUME TypeOK, NEW t \in Thr, FreeSlots(t) # {}, NEW b \in Blocks, Pin(t, b)
  PROVE  /\ pin' \in [Thr -> [Slots -> Blocks \cup {NoBlock}]]
         /\ wrote' \in [Thr -> [Slots -> BOOLEAN]]
         /\ \E s \in Slots :
              /\ pin[t][s] = NoBlock
              /\ pin' = [pin EXCEPT ![t][s] = b]
              /\ <<t, s>> \notin Holders(b)
              /\ Holders(b)' = Holders(b) \cup {<<t, s>>}
         /\ \A c \in Blocks \ {b} : Holders(c)' = Holders(c)
         /\ \A c \in Blocks : Modified(c)' <=> Modified(c)
         /\ \A u \in Thr \ {t} : pin'[u] = pin[u]
<1>1. PICK s \in Slots : s = FreeSlot(t) /\ pin[t][s] = NoBlock
  BY DEF FreeSlot, FreeSlots
<1>2. pin' = [pin EXCEPT ![t][s] = b] /\ wrote' = [wrote EXCEPT ![t][s] = FALSE]
  BY <1>1 DEF Pin
<1> QED BY <1>1, <1>2, SlotEffect

(* A released pointer is one holder less; only its own writes are          *)
(* forgotten.                                                              *)
LEMMA ReleaseEffect ==
  ASSUME TypeOK, NEW t \in Thr, NEW s \in Slots, NEW b \in Blocks, pin[t][s] = b,
         pin' = [pin EXCEPT ![t][s] = NoBlock], wrote' = [wrote EXCEPT ![t][s] = FALSE]
  PROVE  /\ pin' \in [Thr -> [Slots -> Blocks \cup {NoBlock}]]
         /\ wrote' \in [Thr -> [Slots -> BOOLEAN]]
         /\ <<t, s>> \in Holders(b)
         /\ Holders(b)' = Holders(b) \ {<<t, s>>}
         /\ \A c \in Blocks \ {b} : Holders(c)' = Holders(c)
         /\ \A c \in Blocks : Modified(c) => Modified(c)' \/ (c = b /\ wrote[t][s])
         /\ \A u \in Thr \ {t} : pin'[u] = pin[u]
<1>1. NoBlock \notin Blocks
  BY StoredAssumption
<1>2. pin' \in [Thr -> [Slots -> Blocks \cup {NoBlock}]] /\ wrote' \in [Thr -> [Slots -> BOOLEAN]]
  BY TableUpdate, WroteUpdate DEF TypeOK
<1>3. \A h \in Thr \X Slots : pin'[h[1]][h[2]] = IF h = <<t, s>> THEN NoBlock ELSE pin[h[1]][h[2]]
  BY DEF TypeOK
<1>4. \A h \in Thr \X Slots : h # <<t, s>> => wrote'[h[1]][h[2]] = wrote[h[1]][h[2]]
  BY WroteUpdate
<1>5. <<t, s>> \in Thr \X Slots /\ <<t, s>>[1] = t /\ <<t, s>>[2] = s
  OBVIOUS
<1>6. \A c \in Blocks : Holders(c)' = Holders(c) \ {<<t, s>>}
  BY <1>1, <1>3, <1>5 DEF Holders
<1>7. \A c \in Blocks : <<t, s>> \in Holders(c) <=> c = b
  BY <1>5 DEF Holders
<1>10. \A c \in Blocks \ {b} : Holders(c)' = Holders(c)
  BY <1>6, <1>7
<1>8. ASSUME NEW c \in Blocks, Modified(c) PROVE Modified(c)' \/ (c = b /\ wrote[t][s])
  <2>1. PICK h \in Holders(c) : wrote[h[1]][h[2]]
    BY <1>8 DEF Modified
  <2>2. CASE h = <<t, s>>
    BY <2>1, <2>2, <1>5, <1>7
  <2>3. CASE h # <<t, s>>
    <3>1. h \in Thr \X Slots /\ h \in Holders(c)'
      BY <2>1, <2>3, <1>6 DEF Holders
    <3> QED BY <2>1, <2>3, <3>1, <1>4 DEF Modified
  <2> QED BY <2>2, <2>3
<1>9. \A u \in Thr \ {t} : pin'[u] = pin[u]
  BY DEF TypeOK
<1> QED BY <1>2, <1>6, <1>7, <1>8, <1>9, <1>10

(* A write marks its block and takes no mark away.                         *)
LEMMA WriteEffect ==
  ASSUME TypeOK, NEW t \in Thr, NEW s \in Slots, NEW b \in Blocks, pin[t][s] = b,
         pin' = pin, wrote' = [wrote EXCEPT ![t][s] = TRUE]
  PROVE  /\ wrote' \in [Thr -> [Slots -> BOOLEAN]]
         /\ \A c : Holders(c)' = Holders(c)
         /\ Modified(b)'
         /\ \A c \in Blocks : Modified(c) => Modified(c)'
<1>1. \A c : Holders(c)' = Holders(c)
  BY DEF Holders
<1>2. wrote' \in [Thr -> [Slots -> BOOLEAN]] /\ wrote'[t][s] = TRUE
  BY WroteUpdate
<1>3. \A h \in Thr \X Slots : h # <<t, s>> => wrote'[h[1]][h[2]] = wrote[h[1]][h[2]]
  BY WroteUpdate
<1>4. ASSUME NEW c \in Blocks, Modified(c) PROVE Modified(c)'
  <2>1. PICK h \in Holders(c) : wrote[h[1]][h[2]]
    BY <1>4 DEF Modified
  <2>2. h \in Thr \X Slots
    BY DEF Holders
  <2>3. wrote'[h[1]][h[2]]
    BY <2>1, <2>2, <1>2, <1>3
  <2> QED BY <2>3, <1>1 DEF Modified
<1>5. Modified(b)'
  <2>1. <<t, s>> \in Holders(b)' /\ <<t, s>>[1] = t /\ <<t, s>>[2] = s
    BY <1>1 DEF Holders
  <2> QED BY <2>1, <1>2 DEF Modified
<1> QED BY <1>1, <1>2, <1>4, <1>5

---------------------------------------------------------------------------
(* The invariant is kept by every step.                                    *)

USE DEF At, Goto, nodeVars, pinVars

(* Nodes and pins that do not change keep what is derived from them.       *)
LEMMA Frame ==
  ASSUME Inv, UNCHANGED <<disk, nodeVars, pinVars, refused>>
  PROVE  /\ NodesDistinct' /\ PinsCounted' /\ CleanOnDisk'
         /\ \A c : Cached(c)' <=> Cached(c)
         /\ \A c : Modified(c)' <=> Modified(c)
         /\ \A u : FreeSlots(u)' = FreeSlots(u)
         /\ \A v : IsVictim(v)' <=> IsVictim(v)
<1>1. \A c : Cached(c)' <=> Cached(c)
  BY DEF Cached
<1>2. \A c : Holders(c)' = Holders(c)
  BY DEF Holders
<1>3. \A c : Modified(c)' <=> Modified(c)
  BY <1>2 DEF Modified
<1>4. \A u : FreeSlots(u)' = FreeSlots(u)
  BY DEF FreeSlots
<1>5. Evictable' = Evictable
  BY DEF Evictable
<1>6. \A v : IsVictim(v)' <=> IsVictim(v)
  BY <1>5 DEF IsVictim
<1>7. NodesDistinct'
  BY DEF Inv, NodesDistinct
<1>8. PinsCounted'
  BY <1>1, <1>2 DEF Inv, PinsCounted
<1>9. CleanOnDisk'
  BY <1>1, <1>3 DEF Inv, CleanOnDisk
<1> QED BY <1>1, <1>3, <1>4, <1>6, <1>7, <1>8, <1>9

(* While t has the lock, or nobody has, no other thread is past it.        *)
LEMMA Others ==
  ASSUME Inv, NEW t \in Thr, lock \in {NoThread, t},
         \A u \in Thr \ {t} : pc'[u] = pc[u]
  PROVE  \A u \in Thr \ {t} : pc'[u] \notin Busy
BY ThreadAssumption DEF Inv, LockHeld

(* Taking the lock for a miss that needs no victim, or for a flush.        *)
LEMMA KeepLocked ==
  ASSUME Inv, NEW t \in Thr, (\E b \in Blocks : get_miss(t, b)) \/ cache_flush(t)
  PROVE  Inv'
<1>1. /\ UNCHANGED <<disk, nodeVars, pinVars, copy, refused>>
      /\ lock = NoThread /\ lock' = t /\ DOMAIN pc = Thr /\ DOMAIN arg = Thr /\ DOMAIN curr = Thr
  BY DEF get_miss, cache_flush, MayGet, LockDuring, Inv, TypeOK
<1>2. \/ /\ pc' = [pc EXCEPT ![t] = "fetch"] /\ FreeSlots(t) # {} /\ curr' = curr
         /\ \E b \in Blocks : /\ ~Cached(b) /\ Len(list) # NNODES
                              /\ arg' = [arg EXCEPT ![t] = b]
      \/ /\ pc' = [pc EXCEPT ![t] = "flush_loop"]
         /\ arg' = arg /\ curr' = [curr EXCEPT ![t] = 1]
  BY DEF get_miss, cache_flush, MayGet, Sleep
<1>3. /\ NodesDistinct' /\ PinsCounted' /\ CleanOnDisk'
      /\ \A c : Cached(c)' <=> Cached(c)
      /\ FreeSlots(t)' = FreeSlots(t)
  BY <1>1, Frame
<1>4. \A u \in Thr \ {t} : pc'[u] = pc[u]
  BY <1>1, <1>2
<1>5. \A u \in Thr \ {t} : pc'[u] \notin Busy
  BY <1>1, <1>4, Others
<1>6. TypeOK'
  <2>1. pc' \in [Thr -> Places]
    BY <1>2 DEF Inv, TypeOK, Places
  <2>2. arg \in [Thr -> Blocks \cup {NoBlock}] /\ curr \in [Thr -> Nat]
    BY DEF Inv, TypeOK
  <2>3. arg' \in [Thr -> Blocks \cup {NoBlock}]
    BY <1>2, <2>2
  <2>4. curr' \in [Thr -> Nat]
    BY <1>2, <2>2
  <2> QED BY <1>1, <2>1, <2>3, <2>4 DEF Inv, TypeOK
<1>7. LockHeld'
  BY <1>1, <1>5 DEF LockHeld
<1>8. ArgsOK'
  BY <1>1, <1>2, <1>3, <1>5 DEF ArgsOK, Busy
<1>9. MissOK'
  BY <1>1, <1>2, <1>3, <1>5, NodesAssumption DEF Inv, TypeOK, NodesDistinct, MissOK, Busy
<1>10. EvictOK'
  BY <1>1, <1>2, <1>5 DEF EvictOK, Busy
<1>11. FlushOK'
  <2>1. Len(list) \in Nat /\ DOMAIN list = 1 .. Len(list)
    BY DEF Inv, TypeOK
  <2> QED BY <1>1, <1>2, <1>5, <2>1 DEF FlushOK, Busy
<1> QED BY <1>3, <1>6, <1>7, <1>8, <1>9, <1>10, <1>11 DEF Inv

(* The list after a hit and after a fetch.                                 *)
LEMMA HitList ==
  ASSUME Inv, NEW b \in Blocks, Cached(b), list' = <<b>> \o WithoutBlock(b)
  PROVE  /\ list' \in Seq(Blocks) /\ Len(list') = Len(list)
         /\ \A i, j \in DOMAIN list' : list'[i] = list'[j] => i = j
         /\ \A c : Cached(c)' <=> Cached(c)
<1> DEFINE w == WithoutBlock(b)
<1>1. /\ w \in Seq(Blocks) /\ Len(w) = Len(list) - 1 /\ Len(list) \in Nat
      /\ \A c : (\E i \in DOMAIN w : w[i] = c) <=> Cached(c) /\ c # b
      /\ \A i, j \in DOMAIN w : w[i] = w[j] => i = j
  BY Unlinked DEF Inv, TypeOK
<1>2. list' = <<b>> \o w
  OBVIOUS
<1> HIDE DEF w
<1>3. /\ list' \in Seq(Blocks) /\ Len(list') = Len(w) + 1
      /\ \A i, j \in DOMAIN list' : list'[i] = list'[j] => i = j
      /\ \A c : Cached(c)' <=> c = b \/ \E i \in DOMAIN w : w[i] = c
  BY <1>1, <1>2, Linked
<1>4. ASSUME NEW c PROVE Cached(c)' <=> Cached(c)
  BY <1>1, <1>3
<1>5. Len(list') = Len(list)
  BY <1>1, <1>3
<1> QED BY <1>3, <1>4, <1>5

LEMMA FetchList ==
  ASSUME Inv, NEW b \in Blocks, ~Cached(b), list' = <<b>> \o list
  PROVE  /\ list' \in Seq(Blocks) /\ Len(list') = Len(list) + 1
         /\ \A i, j \in DOMAIN list' : list'[i] = list'[j] => i = j
         /\ \A c : Cached(c)' <=> c = b \/ Cached(c)
<1>1. /\ list \in Seq(Blocks) /\ \A i, j \in DOMAIN list : list[i] = list[j] => i = j
      /\ \A i \in DOMAIN list : list[i] # b
  BY DEF Inv, TypeOK, NodesDistinct, Cached
<1>2. \A c : Cached(c) <=> \E i \in DOMAIN list : list[i] = c
  BY DEF Cached
<1> QED BY <1>1, <1>2, Linked

(* A hit.                                                                  *)
LEMMA KeepHit ==
  ASSUME Inv, NEW t \in Thr, NEW c \in Blocks, get_hit(t, c)
  PROVE  Inv'
<1>1. /\ UNCHANGED <<disk, data, dirty, lock, pc, arg, copy, curr, refused>>
      /\ lock = NoThread /\ pc[t] = "user" /\ Cached(c) /\ FreeSlots(t) # {}
      /\ refcnt' = [refcnt EXCEPT ![c] = @ + 1]
      /\ list' = <<c>> \o WithoutBlock(c)
      /\ Pin(t, c)
  BY DEF get_hit, MayGet
<1>4. /\ pin' \in [Thr -> [Slots -> Blocks \cup {NoBlock}]]
      /\ wrote' \in [Thr -> [Slots -> BOOLEAN]]
      /\ \E s \in Slots :
           /\ pin' = [pin EXCEPT ![t][s] = c]
           /\ <<t, s>> \notin Holders(c)
           /\ Holders(c)' = Holders(c) \cup {<<t, s>>}
      /\ \A d \in Blocks \ {c} : Holders(d)' = Holders(d)
      /\ \A d \in Blocks : Modified(d)' <=> Modified(d)
  BY <1>1, PinEffect DEF Inv
<1>5. /\ list' \in Seq(Blocks) /\ Len(list') = Len(list)
      /\ \A i, j \in DOMAIN list' : list'[i] = list'[j] => i = j
      /\ \A d : Cached(d)' <=> Cached(d)
  BY <1>1, HitList
<1>7. \A u \in Thr : pc'[u] \notin Busy
  BY <1>1, Others DEF Busy
<1>9. TypeOK'
  <2>1. refcnt' \in [Blocks -> Nat]
    BY <1>1 DEF Inv, TypeOK
  <2> QED BY <1>1, <1>4, <1>5, <2>1 DEF Inv, TypeOK
<1>10. LockHeld' /\ ArgsOK' /\ MissOK' /\ EvictOK' /\ FlushOK'
  BY <1>7 DEF LockHeld, ArgsOK, MissOK, EvictOK, FlushOK, Busy
<1>12. NodesDistinct'
  BY <1>5 DEF Inv, NodesDistinct
<1>13. PinsCounted'
  <2>1. PICK s \in Slots : /\ pin' = [pin EXCEPT ![t][s] = c]
                          /\ <<t, s>> \notin Holders(c)
                          /\ Holders(c)' = Holders(c) \cup {<<t, s>>}
    BY <1>4
  <2>2. Cardinality(Holders(c)') = Cardinality(Holders(c)) + 1
    BY <2>1, FiniteHolders, FS_AddElement
  <2>3. ASSUME NEW d \in Blocks, Cached(d)' PROVE refcnt'[d] = Cardinality(Holders(d))'
    <3>1. Cached(d) /\ refcnt[d] = Cardinality(Holders(d))
      BY <1>5, <2>3 DEF Inv, PinsCounted
    <3>2. refcnt' = [refcnt EXCEPT ![c] = refcnt[c] + 1] /\ DOMAIN refcnt = Blocks
      BY <1>1 DEF Inv, TypeOK
    <3>3. CASE d = c
      BY <2>2, <3>1, <3>2, <3>3
    <3>4. CASE d # c
      BY <1>4, <3>1, <3>2, <3>4
    <3> QED BY <3>3, <3>4
  <2>4. ASSUME NEW u \in Thr, NEW r \in Slots, pin'[u][r] # NoBlock PROVE Cached(pin[u][r])'
    BY <1>1, <1>5, <2>1, <2>4 DEF Inv, PinsCounted, TypeOK
  <2> QED BY <2>3, <2>4 DEF PinsCounted
<1>14. CleanOnDisk'
  BY <1>1, <1>4, <1>5 DEF Inv, CleanOnDisk
<1> QED BY <1>9, <1>10, <1>12, <1>13, <1>14 DEF Inv

(* The device did what it reports as done, the cache takes a refusal for   *)
(* done, and the only short transfer is the empty one behind the end.      *)
LEMMA Results ==
  ASSUME NEW b, NEW r \in IoResult(b)
  PROVE  r \in {CACHE_BLKSZ, -EIO, -EINVAL, 0} /\ (Short(r) <=> r = 0)
BY DEF Short, IoResult, CACHE_BLKSZ, EIO, EINVAL

LEMMA NoteFacts ==
  ASSUME NEW b \in Blocks, NEW r, Note(b, r), refused \subseteq Blocks
  PROVE  /\ refused' \subseteq Blocks
         /\ refused' \ {b} = refused \ {b}
         /\ ~Short(r) => (b \notin refused' <=> r = CACHE_BLKSZ)
         /\ Short(r) => refused' = refused
         /\ refused' \in {refused \ {b}, refused \cup {b}}
BY DEF Note, Short, CACHE_BLKSZ

(* The victim is one node, and nobody holds it.                            *)
LEMMA VictimFacts ==
  ASSUME Inv, NEW v \in Blocks, IsVictim(v)
  PROVE  /\ Cached(v) /\ Holders(v) = {} /\ ~Modified(v)
         /\ \A w : IsVictim(w) => w = v
<1>1. Cached(v) /\ refcnt[v] = 0
  BY DEF IsVictim, Evictable, Cached
<1>2. Holders(v) = {}
  BY <1>1, FiniteHolders DEF Inv, PinsCounted
<1>3. Evictable \subseteq Nat
  BY DEF Evictable, Inv, TypeOK
<1> QED BY <1>1, <1>2, <1>3 DEF IsVictim, Modified

(* Unlinking the victim.                                                   *)
LEMMA EvictEffect ==
  ASSUME Inv, NEW v \in Blocks, IsVictim(v), list' = WithoutBlock(v),
         UNCHANGED <<refcnt, pinVars>>
  PROVE  /\ list' \in Seq(Blocks) /\ Len(list') = Len(list) - 1
         /\ \A c : Cached(c)' <=> Cached(c) /\ c # v
         /\ \A c : Modified(c)' <=> Modified(c)
         /\ NodesDistinct' /\ PinsCounted'
<1>1. Cached(v) /\ Holders(v) = {}
  BY VictimFacts
<1>2. /\ list' \in Seq(Blocks) /\ Len(list') = Len(list) - 1
      /\ \A c : Cached(c)' <=> Cached(c) /\ c # v
      /\ \A i, j \in DOMAIN list' : list'[i] = list'[j] => i = j
  BY <1>1, Unlinked DEF Inv, TypeOK, Cached
<1>3. \A c : Holders(c)' = Holders(c)
  BY DEF Holders
<1>4. \A c : Modified(c)' <=> Modified(c)
  BY <1>3 DEF Modified
<1>5. NodesDistinct'
  BY <1>2, NodesAssumption DEF Inv, TypeOK, NodesDistinct
<1>6. \A b \in Blocks : Cached(b)' => refcnt'[b] = Cardinality(Holders(b))'
  BY <1>2, <1>3 DEF Inv, PinsCounted
<1>7. ASSUME NEW u \in Thr, NEW r \in Slots, pin'[u][r] # NoBlock PROVE Cached(pin[u][r])'
  <2>1. pin[u][r] # v
    <3>1. <<u, r>> \in Thr \X Slots /\ <<u, r>>[1] = u /\ <<u, r>>[2] = r
      OBVIOUS
    <3> QED BY <1>1, <3>1 DEF Holders
  <2> QED BY <1>2, <1>7, <2>1 DEF Inv, PinsCounted
<1> QED BY <1>2, <1>4, <1>5, <1>6, <1>7 DEF PinsCounted

(* What is left after the victim is dropped.                               *)
LEMMA DropEffect ==
  ASSUME Inv, NEW v \in Blocks, IsVictim(v), Drop(v), UNCHANGED <<refcnt, pinVars>>
  PROVE  /\ list' \in Seq(Blocks) /\ Len(list') = Len(list) - 1
         /\ \A c : Cached(c)' <=> Cached(c) /\ c # v
         /\ \A c : Modified(c)' <=> Modified(c)
         /\ NodesDistinct' /\ PinsCounted'
         /\ data' \in [Blocks -> Values] /\ dirty' \in [Blocks -> BOOLEAN]
         /\ \A c \in Blocks \ {v} : data'[c] = data[c] /\ dirty'[c] = dirty[c]
<1>1. /\ list' = WithoutBlock(v) /\ data' = [data EXCEPT ![v] = ZERO]
      /\ dirty' = [dirty EXCEPT ![v] = FALSE]
  BY DEF Drop
<1>2. /\ data' \in [Blocks -> Values] /\ dirty' \in [Blocks -> BOOLEAN]
      /\ \A c \in Blocks \ {v} : data'[c] = data[c] /\ dirty'[c] = dirty[c]
  BY <1>1, ValuesAssumption DEF Inv, TypeOK
<1> QED BY <1>1, <1>2, EvictEffect

(* A clean victim is dropped.                                              *)
LEMMA KeepEvictClean ==
  ASSUME Inv, NEW t \in Thr, NEW b \in Blocks, get_evict_clean(t, b)
  PROVE  Inv'
<1>1. /\ UNCHANGED <<disk, refcnt, pinVars, copy, curr, refused>>
      /\ FreeSlots(t) # {} /\ lock = NoThread /\ lock' = t /\ ~Cached(b)
      /\ pc' = [pc EXCEPT ![t] = "fetch"] /\ pc'[t] = "fetch" /\ Len(list) = NNODES
      /\ arg' = [arg EXCEPT ![t] = b] /\ arg'[t] = b
  BY DEF get_evict_clean, MayGet, Sleep, LockDuring, Inv, TypeOK
<1>2. PICK v \in Blocks : IsVictim(v) /\ ~dirty[v] /\ Drop(v)
  BY DEF get_evict_clean
<1>3. /\ list' \in Seq(Blocks) /\ Len(list') = Len(list) - 1
      /\ \A c : Cached(c)' <=> Cached(c) /\ c # v
      /\ \A c : Modified(c)' <=> Modified(c)
      /\ NodesDistinct' /\ PinsCounted'
      /\ data' \in [Blocks -> Values] /\ dirty' \in [Blocks -> BOOLEAN]
      /\ \A c \in Blocks \ {v} : data'[c] = data[c] /\ dirty'[c] = dirty[c]
  BY <1>1, <1>2, DropEffect
<1>4. \A u \in Thr \ {t} : pc'[u] = pc[u]
  BY <1>1 DEF Inv, TypeOK
<1>5. \A u \in Thr \ {t} : pc'[u] \notin Busy
  BY <1>1, <1>4, Others
<1>6. TypeOK'
  <2>1. pc' \in [Thr -> Places] /\ arg' \in [Thr -> Blocks \cup {NoBlock}]
    BY <1>1 DEF Inv, TypeOK, Places
  <2> QED BY <1>1, <1>3, <2>1 DEF Inv, TypeOK
<1>7. LockHeld' /\ EvictOK' /\ FlushOK'
  BY <1>1, <1>5 DEF LockHeld, EvictOK, FlushOK, Busy
<1>8. ArgsOK'
  <2>1. FreeSlots(t)' = FreeSlots(t)
    BY <1>1 DEF FreeSlots
  <2> QED BY <1>1, <1>5, <2>1 DEF ArgsOK, Busy
<1>9. MissOK'
  BY <1>1, <1>3, <1>5, NodesAssumption DEF MissOK, Busy
<1>10. CleanOnDisk'
  BY <1>1, <1>3 DEF Inv, CleanOnDisk
<1> QED BY <1>3, <1>6, <1>7, <1>8, <1>9, <1>10 DEF Inv

(* The write-back of a dirty victim begins.                                *)
LEMMA KeepEvictDirty ==
  ASSUME Inv, NEW t \in Thr, NEW b \in Blocks, get_evict_dirty(t, b)
  PROVE  Inv'
<1>1. /\ UNCHANGED <<disk, nodeVars, pinVars, curr, refused>>
      /\ FreeSlots(t) # {} /\ lock = NoThread /\ lock' = t /\ ~Cached(b)
      /\ pc' = [pc EXCEPT ![t] = "evict"] /\ pc'[t] = "evict"
      /\ arg' = [arg EXCEPT ![t] = b] /\ arg'[t] = b
  BY DEF get_evict_dirty, MayGet, Sleep, Inv, TypeOK
<1>2. PICK v \in Blocks : IsVictim(v) /\ copy' = [copy EXCEPT ![t] = data[v]]
  BY DEF get_evict_dirty, Buffered
<1>3. /\ NodesDistinct' /\ PinsCounted' /\ CleanOnDisk'
      /\ \A c : Cached(c)' <=> Cached(c)
      /\ FreeSlots(t)' = FreeSlots(t)
      /\ \A w : IsVictim(w)' <=> IsVictim(w)
  BY <1>1, Frame
<1>4. \A u \in Thr \ {t} : pc'[u] = pc[u]
  BY <1>1 DEF Inv, TypeOK
<1>5. \A u \in Thr \ {t} : pc'[u] \notin Busy
  BY <1>1, <1>4, Others
<1>6. TypeOK'
  BY <1>1, <1>2 DEF Inv, TypeOK, Places
<1>7. LockHeld' /\ FlushOK'
  BY <1>1, <1>5 DEF LockHeld, FlushOK, Busy
<1>8. ArgsOK'
  BY <1>1, <1>3, <1>5 DEF ArgsOK, Busy
<1>9. MissOK'
  BY <1>1, <1>3, <1>5 DEF MissOK, Busy
<1>10. EvictOK'
  <2>1. copy'[t] = data[v]
    BY <1>2 DEF Inv, TypeOK
  <2>2. \A w \in Blocks : IsVictim(w)' => copy'[t] = data'[w]
    BY <1>1, <1>2, <1>3, <2>1, VictimFacts
  <2> QED BY <1>5, <2>2 DEF EvictOK, Busy
<1> QED BY <1>3, <1>6, <1>7, <1>8, <1>9, <1>10 DEF Inv

(* What a store of b by t did to the device.                               *)
LEMMA StoreEffect ==
  ASSUME Inv, NEW t \in Thr, NEW b \in Blocks, NEW r \in IoResult(b),
         copy[t] \in Values, StoreResult(t, b, r)
  PROVE  /\ disk' \in [Blocks -> Values] /\ copy' \in [Thr -> Values \cup {NoBlock}]
         /\ \A c \in Blocks \ {b} : disk'[c] = disk[c]
         /\ refused' \subseteq Blocks /\ refused' \ {b} = refused \ {b}
         /\ refused' \in {refused \ {b}, refused \cup {b}}
         /\ Short(r) => disk' = disk /\ refused' = refused
         /\ ~Short(r) /\ b \notin refused' => disk'[b] = copy[t]
<1>1. /\ r \in {CACHE_BLKSZ, -EIO, -EINVAL, 0} /\ (Short(r) <=> r = 0)
      /\ disk \in [Blocks -> Values] /\ copy \in [Thr -> Values \cup {NoBlock}]
  BY Results DEF Inv, TypeOK
<1>2. PICK x \in IF r = CACHE_BLKSZ THEN {copy[t]} ELSE IF r = -EIO THEN Values ELSE {disk[b]} :
        disk' = [disk EXCEPT ![b] = x]
  BY DEF StoreResult
<1>3. x \in Values /\ (r = CACHE_BLKSZ => x = copy[t]) /\ (r = 0 => x = disk[b])
  BY <1>1, <1>2 DEF CACHE_BLKSZ, EIO
<1>4. /\ disk' \in [Blocks -> Values] /\ disk'[b] = x
      /\ \A c \in Blocks \ {b} : disk'[c] = disk[c]
  BY <1>1, <1>2, <1>3
<1>5. copy' \in [Thr -> Values \cup {NoBlock}]
  BY <1>1 DEF StoreResult
<1>6. /\ refused' \subseteq Blocks /\ refused' \ {b} = refused \ {b}
      /\ refused' \in {refused \ {b}, refused \cup {b}}
      /\ Short(r) => refused' = refused
      /\ ~Short(r) => (b \notin refused' <=> r = CACHE_BLKSZ)
  BY NoteFacts DEF StoreResult, Inv, TypeOK
<1>7. Short(r) => disk' = disk
  BY <1>1, <1>2, <1>3
<1> QED BY <1>3, <1>4, <1>5, <1>6, <1>7

(* The write-back of the victim ends the call or unlinks the node.         *)
LEMMA KeepEvicted ==
  ASSUME Inv, NEW t \in Thr, evict_done(t)
  PROVE  Inv'
<1>1. /\ UNCHANGED <<refcnt, pinVars, curr>>
      /\ pc[t] = "evict" /\ lock = t /\ ~Cached(arg[t]) /\ arg[t] \in Blocks
      /\ FreeSlots(t) # {}
  BY DEF evict_done, Drop, Inv, LockHeld, ArgsOK, MissOK, Busy
<1>9. PICK v \in Blocks : \E r \in IoResult(v) :
        /\ IsVictim(v)
        /\ StoreResult(t, v, r)
        /\ \/ Short(r) /\ Return(t) /\ UNCHANGED nodeVars
           \/ /\ ~Short(r) /\ Drop(v)
              /\ pc' = [pc EXCEPT ![t] = "fetch"]
              /\ UNCHANGED <<lock, arg>>
  BY DEF evict_done
<1>2. PICK r \in IoResult(v) :
        /\ IsVictim(v)
        /\ StoreResult(t, v, r)
        /\ \/ Short(r) /\ Return(t) /\ UNCHANGED nodeVars
           \/ /\ ~Short(r) /\ Drop(v)
              /\ pc' = [pc EXCEPT ![t] = "fetch"]
              /\ UNCHANGED <<lock, arg>>
  BY <1>9
<1>3. copy[t] = data[v] /\ copy[t] \in Values
  BY <1>1, <1>2 DEF Inv, EvictOK, TypeOK
<1>4. \A u \in Thr \ {t} : pc'[u] = pc[u]
  BY <1>1, <1>2 DEF Return, Inv, TypeOK
<1>5. \A u \in Thr \ {t} : pc'[u] \notin Busy
  BY <1>1, <1>4, Others
<1>6. /\ disk' \in [Blocks -> Values] /\ copy' \in [Thr -> Values \cup {NoBlock}]
      /\ \A c \in Blocks \ {v} : disk'[c] = disk[c]
      /\ refused' \subseteq Blocks /\ refused' \ {v} = refused \ {v}
      /\ Short(r) => disk' = disk /\ refused' = refused
  BY <1>2, <1>3, StoreEffect
<1>7. CASE Short(r)
  <2>1. UNCHANGED <<disk, nodeVars, pinVars, refused>>
    BY <1>1, <1>2, <1>6, <1>7
  <2>2. /\ pc' = [pc EXCEPT ![t] = "user"] /\ pc'[t] = "user" /\ lock' = NoThread
        /\ arg' = [arg EXCEPT ![t] = NoBlock]
    BY <1>2, <1>7 DEF Return, Inv, TypeOK
  <2>3. NodesDistinct' /\ PinsCounted' /\ CleanOnDisk'
    BY <2>1, Frame
  <2>4. TypeOK'
    BY <1>1, <1>6, <2>1, <2>2 DEF Inv, TypeOK, Places
  <2>5. LockHeld' /\ ArgsOK' /\ MissOK' /\ EvictOK' /\ FlushOK'
    BY <1>5, <2>2 DEF LockHeld, ArgsOK, MissOK, EvictOK, FlushOK, Busy
  <2> QED BY <2>3, <2>4, <2>5 DEF Inv
<1>8. CASE ~Short(r)
  <2>1. /\ Drop(v) /\ pc' = [pc EXCEPT ![t] = "fetch"] /\ pc'[t] = "fetch"
        /\ UNCHANGED <<lock, arg>>
    BY <1>2, <1>8 DEF Inv, TypeOK
  <2>2. /\ list' \in Seq(Blocks) /\ Len(list') = Len(list) - 1
        /\ \A c : Cached(c)' <=> Cached(c) /\ c # v
        /\ \A c : Modified(c)' <=> Modified(c)
        /\ NodesDistinct' /\ PinsCounted'
        /\ data' \in [Blocks -> Values] /\ dirty' \in [Blocks -> BOOLEAN]
        /\ \A c \in Blocks \ {v} : data'[c] = data[c] /\ dirty'[c] = dirty[c]
    BY <1>1, <1>2, <2>1, DropEffect
  <2>3. TypeOK'
    <3>1. pc' \in [Thr -> Places]
      BY <2>1 DEF Inv, TypeOK, Places
    <3> QED BY <1>1, <1>6, <2>1, <2>2, <3>1 DEF Inv, TypeOK
  <2>4. LockHeld' /\ EvictOK' /\ FlushOK'
    BY <1>1, <1>5, <2>1 DEF LockHeld, EvictOK, FlushOK, Busy
  <2>5. ArgsOK'
    <3>1. FreeSlots(t)' = FreeSlots(t)
      BY <1>1 DEF FreeSlots
    <3> QED BY <1>1, <1>5, <2>1, <3>1 DEF ArgsOK, Busy
  <2>6. MissOK'
    BY <1>1, <1>5, <2>1, <2>2, NodesAssumption DEF Inv, TypeOK, NodesDistinct, MissOK, Busy
  <2>7. CleanOnDisk'
    <3>1. ASSUME NEW c \in Blocks \ refused', Cached(c)'
          PROVE  /\ c \in Blocks \ refused /\ Cached(c)
                 /\ data'[c] = data[c] /\ dirty'[c] = dirty[c] /\ disk'[c] = disk[c]
      BY <1>6, <2>2, <3>1
    <3> QED BY <2>2, <3>1 DEF Inv, CleanOnDisk
  <2> QED BY <2>2, <2>3, <2>4, <2>5, <2>6, <2>7 DEF Inv
<1> QED BY <1>7, <1>8

(* The fetched block becomes a node at the head, or the call fails.        *)
LEMMA KeepFetched ==
  ASSUME Inv, NEW t \in Thr, fetch_done(t)
  PROVE  Inv'
<1>1. /\ UNCHANGED <<disk, copy, curr>>
      /\ pc[t] = "fetch" /\ lock = t /\ ~Cached(arg[t]) /\ arg[t] \in Blocks
      /\ FreeSlots(t) # {} /\ Len(list) < NNODES
  BY DEF fetch_done, Inv, LockHeld, ArgsOK, MissOK, Busy
<1>2. /\ pc' = [pc EXCEPT ![t] = "user"] /\ pc'[t] = "user" /\ lock' = NoThread
      /\ arg' = [arg EXCEPT ![t] = NoBlock]
  BY DEF fetch_done, Return, Inv, TypeOK
<1>3. PICK b \in Blocks : b = arg[t]
  BY <1>1
<1>6. PICK r \in IoResult(b) :
        /\ Note(b, r)
        /\ \/ Short(r) /\ UNCHANGED <<nodeVars, pinVars>>
           \/ /\ ~Short(r)
              /\ \E x \in FetchResult(b, r) : data' = [data EXCEPT ![b] = x]
              /\ list' = <<b>> \o list
              /\ refcnt' = [refcnt EXCEPT ![b] = 1]
              /\ dirty' = [dirty EXCEPT ![b] = FALSE]
              /\ Pin(t, b)
  BY <1>3 DEF fetch_done
<1>7. /\ refused' \subseteq Blocks /\ refused' \ {b} = refused \ {b}
      /\ ~Short(r) => (b \notin refused' <=> r = CACHE_BLKSZ)
      /\ Short(r) => refused' = refused
  BY <1>6, NoteFacts DEF Inv, TypeOK
<1>8. \A u \in Thr \ {t} : pc'[u] = pc[u]
  BY <1>2 DEF Inv, TypeOK
<1>9. \A u \in Thr : pc'[u] \notin Busy
  BY <1>1, <1>2, <1>8, Others DEF Busy
<1>10. LockHeld' /\ ArgsOK' /\ MissOK' /\ EvictOK' /\ FlushOK'
  BY <1>9 DEF LockHeld, ArgsOK, MissOK, EvictOK, FlushOK, Busy
<1>4. CASE Short(r)
  <2>1. UNCHANGED <<nodeVars, pinVars, refused>>
    BY <1>4, <1>6, <1>7
  <2>3. NodesDistinct' /\ PinsCounted' /\ CleanOnDisk'
    BY <1>1, <2>1, Frame
  <2>4. TypeOK'
    BY <1>1, <1>2, <2>1 DEF Inv, TypeOK, Places
  <2> QED BY <1>10, <2>3, <2>4 DEF Inv
<1>5. CASE ~Short(r)
  <2>11. PICK x \in FetchResult(b, r) : data' = [data EXCEPT ![b] = x]
    BY <1>5, <1>6
  <2>12. /\ list' = <<b>> \o list
         /\ refcnt' = [refcnt EXCEPT ![b] = 1]
         /\ dirty' = [dirty EXCEPT ![b] = FALSE]
         /\ Pin(t, b)
    BY <1>5, <1>6
  <2>13. x \in Values /\ (r = CACHE_BLKSZ => x = disk[b])
    BY <2>11, ValuesAssumption DEF FetchResult, Inv, TypeOK
  <2>1. /\ pin' \in [Thr -> [Slots -> Blocks \cup {NoBlock}]]
        /\ wrote' \in [Thr -> [Slots -> BOOLEAN]]
        /\ \E s \in Slots :
             /\ pin' = [pin EXCEPT ![t][s] = b]
             /\ Holders(b)' = Holders(b) \cup {<<t, s>>}
        /\ \A d \in Blocks \ {b} : Holders(d)' = Holders(d)
        /\ \A d \in Blocks : Modified(d)' <=> Modified(d)
    BY <1>1, <2>12, PinEffect DEF Inv
  <2>2. /\ list' \in Seq(Blocks) /\ Len(list') = Len(list) + 1
        /\ \A i, j \in DOMAIN list' : list'[i] = list'[j] => i = j
        /\ \A d : Cached(d)' <=> d = b \/ Cached(d)
    BY <1>1, <1>3, <2>12, FetchList
  <2>5. TypeOK'
    <3>1. dirty' \in [Blocks -> BOOLEAN] /\ refcnt' \in [Blocks -> Nat]
      BY <2>12 DEF Inv, TypeOK
    <3>2. data' \in [Blocks -> Values] /\ pc' \in [Thr -> Places]
      BY <1>2, <2>11, <2>13 DEF Inv, TypeOK, Places
    <3>3. arg' \in [Thr -> Blocks \cup {NoBlock}] /\ lock' \in Thr \cup {NoThread}
      BY <1>2 DEF Inv, TypeOK
    <3> QED BY <1>1, <1>7, <2>1, <2>2, <3>1, <3>2, <3>3 DEF Inv, TypeOK
  <2>7. NodesDistinct'
    BY <1>1, <2>2, NodesAssumption DEF Inv, TypeOK, NodesDistinct
  <2>8. Holders(b) = {}
    <3>1. ASSUME NEW h \in Holders(b) PROVE FALSE
      <4>1. h[1] \in Thr /\ h[2] \in Slots /\ pin[h[1]][h[2]] = b
        BY DEF Holders
      <4> QED BY <1>1, <1>3, <4>1, StoredAssumption DEF Inv, PinsCounted
    <3> QED BY <3>1
  <2>9. PinsCounted'
    <3>1. PICK s \in Slots : /\ pin' = [pin EXCEPT ![t][s] = b]
                            /\ Holders(b)' = {<<t, s>>}
      BY <2>1, <2>8
    <3>2. Cardinality(Holders(b)') = 1
      BY <3>1, FS_Singleton
    <3>3. ASSUME NEW d \in Blocks, Cached(d)' PROVE refcnt'[d] = Cardinality(Holders(d))'
      <4>1. refcnt' = [refcnt EXCEPT ![b] = 1] /\ DOMAIN refcnt = Blocks
        BY <2>12 DEF Inv, TypeOK
      <4>2. CASE d = b
        BY <3>2, <4>1, <4>2
      <4>3. CASE d # b
        BY <2>1, <2>2, <3>3, <4>1, <4>3 DEF Inv, PinsCounted
      <4> QED BY <4>2, <4>3
    <3>4. ASSUME NEW u \in Thr, NEW slot \in Slots, pin'[u][slot] # NoBlock PROVE Cached(pin[u][slot])'
      BY <2>2, <3>1, <3>4 DEF Inv, PinsCounted, TypeOK
    <3> QED BY <3>3, <3>4 DEF PinsCounted
  <2>10. CleanOnDisk'
    <3>1. ASSUME NEW c \in Blocks, c # b PROVE dirty'[c] = dirty[c] /\ data'[c] = data[c]
      BY <2>11, <2>12, <3>1 DEF Inv, TypeOK
    <3>2. b \notin refused' => data'[b] = disk'[b]
      BY <1>1, <1>5, <1>7, <2>11, <2>13 DEF Inv, TypeOK
    <3>3. \A c \in Blocks \ refused' : c # b => c \notin refused
      BY <1>7
    <3> QED BY <1>1, <2>1, <2>2, <3>1, <3>2, <3>3 DEF Inv, CleanOnDisk
  <2> QED BY <1>10, <2>5, <2>7, <2>9, <2>10 DEF Inv
<1> QED BY <1>4, <1>5

(* A holder writes, whoever has the lock: never to a victim, and a store   *)
(* that is under way is marked as overtaken.                               *)
LEMMA KeepWrite ==
  ASSUME Inv, NEW t \in Thr, NEW s \in Slots, NEW v \in Values, write_block(t, s, v)
  PROVE  Inv'
<1>1. PICK b \in Blocks : pin[t][s] = b
  BY DEF write_block, Inv, TypeOK
<1>2. /\ UNCHANGED <<disk, list, dirty, refcnt, lock, pc, arg, pin, copy, curr, refused>>
      /\ data' = [data EXCEPT ![b] = v] /\ wrote' = [wrote EXCEPT ![t][s] = TRUE]
  BY <1>1 DEF write_block
<1>3. /\ wrote' \in [Thr -> [Slots -> BOOLEAN]]
      /\ \A c : Holders(c)' = Holders(c)
      /\ Modified(b)'
      /\ \A c \in Blocks : Modified(c) => Modified(c)'
  BY <1>1, <1>2, WriteEffect DEF Inv
<1>4. /\ data' \in [Blocks -> Values]
      /\ \A c \in Blocks \ {b} : data'[c] = data[c]
  BY <1>2 DEF Inv, TypeOK
<1>5. \A c : Cached(c)' <=> Cached(c)
  BY <1>2 DEF Cached
<1>6. TypeOK'
  BY <1>2, <1>3, <1>4 DEF Inv, TypeOK
<1>7. LockHeld' /\ MissOK'
  BY <1>2, <1>5 DEF Inv, LockHeld, MissOK
<1>8. ArgsOK'
  <2>1. \A u : FreeSlots(u)' = FreeSlots(u)
    BY <1>2 DEF FreeSlots
  <2> QED BY <1>2, <2>1 DEF Inv, ArgsOK
<1>9. EvictOK'
  <2>1. Evictable' = Evictable
    BY <1>2 DEF Evictable
  <2>2. \A w : IsVictim(w)' <=> IsVictim(w)
    BY <1>2, <2>1 DEF IsVictim
  <2>3. ASSUME NEW w \in Blocks, IsVictim(w) PROVE w # b
    <3>1. <<t, s>> \in Holders(b)
      BY <1>1 DEF Holders
    <3> QED BY <2>3, <3>1, VictimFacts
  <2> QED BY <1>2, <1>4, <2>2, <2>3 DEF Inv, EvictOK
<1>10. FlushOK'
  <2> SUFFICES ASSUME NEW u \in Thr, pc[u] = "flush_store"
               PROVE  Modified(list[curr[u]])' \/ copy[u] = data'[list[curr[u]]]
    BY <1>2 DEF Inv, FlushOK
  <2>1. PICK c \in Blocks : c = list[curr[u]]
    BY DEF Inv, FlushOK, TypeOK
  <2>2. Modified(c) \/ copy[u] = data[c]
    BY <2>1 DEF Inv, FlushOK
  <2>3. Modified(c)' \/ copy[u] = data'[c]
    BY <1>3, <1>4, <2>2
  <2>4. list'[curr'[u]] = c
    BY <1>2, <2>1
  <2> QED BY <2>1, <2>3, <2>4 DEF Modified, Holders
<1>11. NodesDistinct' /\ PinsCounted'
  BY <1>2, <1>3, <1>5 DEF Inv, NodesDistinct, PinsCounted
<1>12. CleanOnDisk'
  BY <1>2, <1>3, <1>4, <1>5 DEF Inv, CleanOnDisk
<1> QED BY <1>6, <1>7, <1>8, <1>9, <1>10, <1>11, <1>12 DEF Inv

(* The release of a pointer.                                               *)
LEMMA KeepRelease ==
  ASSUME Inv, NEW t \in Thr, NEW s \in Slots, cache_release_block(t, s)
  PROVE  Inv'
<1>2. PICK b \in Blocks : pin[t][s] = b
  BY DEF cache_release_block, Inv, TypeOK
<1>3. /\ UNCHANGED <<disk, list, data, lock, pc, arg, copy, curr, refused>>
      /\ lock = NoThread /\ pc[t] = "user"
      /\ dirty' = [dirty EXCEPT ![b] = dirty[b] \/ wrote[t][s]]
      /\ refcnt' = [refcnt EXCEPT ![b] = IF refcnt[b] > 0 THEN refcnt[b] - 1 ELSE refcnt[b]]
      /\ pin' = [pin EXCEPT ![t][s] = NoBlock]
      /\ wrote' = [wrote EXCEPT ![t][s] = FALSE]
  BY <1>2 DEF cache_release_block, MayRelease
<1>4. /\ pin' \in [Thr -> [Slots -> Blocks \cup {NoBlock}]]
      /\ wrote' \in [Thr -> [Slots -> BOOLEAN]]
      /\ <<t, s>> \in Holders(b)
      /\ Holders(b)' = Holders(b) \ {<<t, s>>}
      /\ \A c \in Blocks \ {b} : Holders(c)' = Holders(c)
      /\ \A c \in Blocks : Modified(c) => Modified(c)' \/ (c = b /\ wrote[t][s])
      /\ \A u \in Thr \ {t} : pin'[u] = pin[u]
  <2>1. TypeOK
    BY DEF Inv
  <2>2. pin' = [pin EXCEPT ![t][s] = NoBlock] /\ wrote' = [wrote EXCEPT ![t][s] = FALSE]
    BY <1>3
  <2> QED BY <1>2, <2>1, <2>2, ReleaseEffect
<1>5. \A c : Cached(c)' <=> Cached(c)
  BY <1>3 DEF Cached
<1>7. \A u \in Thr : pc'[u] \notin Busy
  BY <1>3, Others DEF Busy
<1>8. /\ dirty' \in [Blocks -> BOOLEAN]
      /\ \A c \in Blocks \ {b} : dirty'[c] = dirty[c]
      /\ ~dirty'[b] => ~dirty[b] /\ ~wrote[t][s]
  <2>1. dirty \in [Blocks -> BOOLEAN] /\ wrote \in [Thr -> [Slots -> BOOLEAN]]
    BY DEF Inv, TypeOK
  <2>2. dirty[b] \in BOOLEAN /\ wrote[t][s] \in BOOLEAN
    BY <2>1
  <2>3. (dirty[b] \/ wrote[t][s]) \in BOOLEAN
    BY <2>2
  <2> QED BY <1>3, <2>1, <2>2, <2>3
<1>9. TypeOK'
  <2>1. refcnt' \in [Blocks -> Nat]
    BY <1>3 DEF Inv, TypeOK
  <2> QED BY <1>3, <1>4, <1>8, <2>1 DEF Inv, TypeOK
<1>10. LockHeld' /\ ArgsOK' /\ MissOK' /\ EvictOK' /\ FlushOK'
  BY <1>7 DEF LockHeld, ArgsOK, MissOK, EvictOK, FlushOK, Busy
<1>11. NodesDistinct'
  BY <1>3 DEF Inv, NodesDistinct
<1>12. PinsCounted'
  <2>1. Cached(b) /\ refcnt[b] = Cardinality(Holders(b))
    BY <1>2, StoredAssumption DEF Inv, PinsCounted
  <2>2. Cardinality(Holders(b)') = Cardinality(Holders(b)) - 1
    <3>1. IsFiniteSet(Holders(b))
      BY FiniteHolders
    <3>2. Cardinality(Holders(b) \ {<<t, s>>}) = Cardinality(Holders(b)) - 1
      BY <1>4, <3>1, FS_RemoveElement
    <3> QED BY <1>4, <3>2
  <2>3. Cardinality(Holders(b)) \in Nat /\ Cardinality(Holders(b)) > 0
    BY <1>4, FiniteHolders
  <2>4. ASSUME NEW d \in Blocks, Cached(d)' PROVE refcnt'[d] = Cardinality(Holders(d))'
    <3>1. DOMAIN refcnt = Blocks
      BY DEF Inv, TypeOK
    <3>2. CASE d = b
      BY <1>3, <2>1, <2>2, <2>3, <3>1, <3>2
    <3>3. CASE d # b
      BY <1>3, <1>4, <1>5, <2>4, <3>1, <3>3 DEF Inv, PinsCounted
    <3> QED BY <3>2, <3>3
  <2>5. ASSUME NEW u \in Thr, NEW r \in Slots, pin'[u][r] # NoBlock PROVE Cached(pin[u][r])'
    <3>1. pin'[u][r] = pin[u][r]
      BY <1>3, <2>5 DEF Inv, TypeOK
    <3> QED BY <1>5, <2>5, <3>1 DEF Inv, PinsCounted
  <2> QED BY <2>4, <2>5 DEF PinsCounted
<1>13. CleanOnDisk'
  BY <1>3, <1>4, <1>5, <1>8 DEF Inv, CleanOnDisk
<1> QED BY <1>9, <1>10, <1>11, <1>12, <1>13 DEF Inv

(* The flush finds the next dirty node.                                    *)
LEMMA NextDirtyFound ==
  ASSUME Inv, NEW t \in Thr, pc[t] = "flush_loop"
  PROVE  /\ NextDirty(t) \in curr[t] .. Len(list) + 1
         /\ NextDirty(t) <= Len(list) => dirty[list[NextDirty(t)]]
         /\ \A j \in curr[t] .. NextDirty(t) - 1 : ~dirty[list[j]]
         /\ curr[t] \in Nat /\ curr[t] > 0
<1> DEFINE c == curr[t]
           n == Len(list)
           T == {i \in c .. n + 1 : i <= n => dirty[list[i]]}
<1>1. c \in Nat /\ c > 0 /\ n \in Nat /\ c <= n + 1
  BY DEF Inv, FlushOK, TypeOK
<1>2. n + 1 \in T /\ T \subseteq Nat
  BY <1>1
<1>3. PICK i \in T : \A j \in T : i <= j
  <2> HIDE DEF T
  <2> QED BY <1>2, LeastNumber
<1>4. i \in c .. n + 1 /\ (i <= n => dirty[list[i]])
  OBVIOUS
<1>5. ASSUME NEW j \in c .. i - 1 PROVE ~dirty[list[j]]
  <2>1. j \in c .. n + 1 /\ j <= n /\ ~(i <= j)
    BY <1>1, <1>4
  <2> QED BY <1>3, <2>1
<1>6. \E k \in c .. n + 1 : /\ k <= n => dirty[list[k]]
                            /\ \A j \in c .. k - 1 : ~dirty[list[j]]
  BY <1>4, <1>5
<1> QED BY <1>1, <1>6 DEF NextDirty

(* The store of the next dirty node begins, ends, and the flush ends.      *)
LEMMA KeepFlushStore ==
  ASSUME Inv, NEW t \in Thr, flush_store(t)
  PROVE  Inv'
<1> DEFINE i == NextDirty(t)
<1>1. /\ UNCHANGED <<disk, nodeVars, lock, arg, pinVars, refused>>
      /\ pc[t] = "flush_loop" /\ lock = t /\ i <= Len(list)
      /\ pc' = [pc EXCEPT ![t] = "flush_store"] /\ pc'[t] = "flush_store"
      /\ curr' = [curr EXCEPT ![t] = i] /\ copy' = [copy EXCEPT ![t] = data[list[i]]]
  BY DEF flush_store, Buffered, Inv, TypeOK, LockHeld, Busy
<1>2. /\ i \in curr[t] .. Len(list) + 1
      /\ \A j \in curr[t] .. i - 1 : ~dirty[list[j]]
      /\ curr[t] \in Nat /\ curr[t] > 0
  BY <1>1, NextDirtyFound
<1> HIDE DEF i
<1>3. Len(list) \in Nat /\ DOMAIN list = 1 .. Len(list)
  BY DEF Inv, TypeOK
<1>4. i \in DOMAIN list /\ i \in Nat /\ list[i] \in Blocks
  BY <1>1, <1>2, <1>3 DEF Inv, TypeOK
<1>5. NodesDistinct' /\ PinsCounted' /\ CleanOnDisk'
  BY <1>1, Frame
<1>6. \A u \in Thr \ {t} : pc'[u] = pc[u]
  BY <1>1 DEF Inv, TypeOK
<1>7. \A u \in Thr \ {t} : pc'[u] \notin Busy
  BY <1>1, <1>6, Others
<1>8. copy'[t] = data[list[i]] /\ curr'[t] = i
  BY <1>1 DEF Inv, TypeOK
<1>9. TypeOK'
  BY <1>1, <1>4 DEF Inv, TypeOK, Places
<1>10. LockHeld' /\ ArgsOK' /\ MissOK' /\ EvictOK'
  BY <1>1, <1>7 DEF LockHeld, ArgsOK, MissOK, EvictOK, Busy
<1>11. FlushOK'
  <2>1. \A j \in DOMAIN list : j < i => ~dirty[list[j]]
    BY <1>1, <1>2, <1>3, <1>4 DEF Inv, FlushOK
  <2>2. data[list[i]] \in Values
    BY <1>4 DEF Inv, TypeOK
  <2> QED BY <1>1, <1>3, <1>4, <1>7, <1>8, <2>1, <2>2 DEF FlushOK, Busy
<1> QED BY <1>5, <1>9, <1>10, <1>11 DEF Inv

LEMMA KeepFlushStored ==
  ASSUME Inv, NEW t \in Thr, flush_stored(t)
  PROVE  Inv'
<1>1. /\ UNCHANGED <<list, data, refcnt, pinVars>>
      /\ pc[t] = "flush_store" /\ lock = t
  BY DEF flush_stored, Inv, LockHeld, Busy
<1>2. /\ curr[t] \in 1 .. Len(list) /\ copy[t] \in Values /\ Len(list) \in Nat
      /\ DOMAIN list = 1 .. Len(list)
  BY <1>1 DEF Inv, FlushOK, TypeOK
<1>3. PICK b \in Blocks : b = list[curr[t]]
  BY <1>2 DEF Inv, TypeOK
<1>4. Modified(b) \/ copy[t] = data[b]
  BY <1>1, <1>3 DEF Inv, FlushOK
<1>5. PICK r \in IoResult(b) :
        /\ StoreResult(t, b, r)
        /\ \/ /\ Short(r) /\ Return(t)
              /\ curr' = [curr EXCEPT ![t] = 0] /\ UNCHANGED dirty
           \/ /\ ~Short(r)
              /\ dirty' = [dirty EXCEPT ![b] = FALSE]
              /\ curr' = [curr EXCEPT ![t] = curr[t] + 1]
              /\ pc' = [pc EXCEPT ![t] = "flush_loop"]
              /\ UNCHANGED <<lock, arg>>
  BY <1>3 DEF flush_stored
<1>6. \A u \in Thr \ {t} : pc'[u] = pc[u]
  BY <1>1, <1>5 DEF Return, Inv, TypeOK
<1>7. \A u \in Thr \ {t} : pc'[u] \notin Busy
  BY <1>1, <1>6, Others
<1>8. /\ disk' \in [Blocks -> Values] /\ copy' \in [Thr -> Values \cup {NoBlock}]
      /\ \A c \in Blocks \ {b} : disk'[c] = disk[c]
      /\ refused' \subseteq Blocks /\ refused' \ {b} = refused \ {b}
      /\ Short(r) => disk' = disk /\ refused' = refused
      /\ ~Short(r) /\ b \notin refused' => disk'[b] = copy[t]
  BY <1>2, <1>5, StoreEffect
<1>9. CASE Short(r)
  <2>1. UNCHANGED <<disk, nodeVars, pinVars, refused>>
    BY <1>1, <1>5, <1>8, <1>9
  <2>2. /\ pc' = [pc EXCEPT ![t] = "user"] /\ pc'[t] = "user" /\ lock' = NoThread
        /\ arg' = [arg EXCEPT ![t] = NoBlock] /\ curr' = [curr EXCEPT ![t] = 0]
    BY <1>5, <1>9 DEF Return, Inv, TypeOK
  <2>3. NodesDistinct' /\ PinsCounted' /\ CleanOnDisk'
    BY <2>1, Frame
  <2>4. TypeOK'
    BY <1>1, <1>8, <2>1, <2>2 DEF Inv, TypeOK, Places
  <2>5. LockHeld' /\ ArgsOK' /\ MissOK' /\ EvictOK' /\ FlushOK'
    BY <1>7, <2>2 DEF LockHeld, ArgsOK, MissOK, EvictOK, FlushOK, Busy
  <2> QED BY <2>3, <2>4, <2>5 DEF Inv
<1>10. CASE ~Short(r)
  <2>1. /\ dirty' = [dirty EXCEPT ![b] = FALSE] /\ UNCHANGED <<lock, arg>>
        /\ pc' = [pc EXCEPT ![t] = "flush_loop"] /\ pc'[t] = "flush_loop"
        /\ curr' = [curr EXCEPT ![t] = curr[t] + 1] /\ curr'[t] = curr[t] + 1
    BY <1>5, <1>10 DEF Inv, TypeOK
  <2>2. /\ dirty' \in [Blocks -> BOOLEAN] /\ dirty'[b] = FALSE
        /\ \A c \in Blocks \ {b} : dirty'[c] = dirty[c]
    BY <2>1 DEF Inv, TypeOK
  <2>3. TypeOK'
    BY <1>1, <1>2, <1>8, <2>1, <2>2 DEF Inv, TypeOK, Places
  <2>4. LockHeld' /\ ArgsOK' /\ MissOK' /\ EvictOK'
    BY <1>1, <1>7, <2>1 DEF LockHeld, ArgsOK, MissOK, EvictOK, Busy
  <2>5. FlushOK'
    <3>1. \A j \in DOMAIN list : list[j] \in Blocks
      BY DEF Inv, TypeOK
    <3>2. \A j \in DOMAIN list : j < curr[t] => ~dirty[list[j]]
      BY <1>1 DEF Inv, FlushOK
    <3>3. \A j \in DOMAIN list : j < curr[t] + 1 => ~dirty'[list[j]]
      BY <1>2, <1>3, <2>2, <3>1, <3>2
    <3> QED BY <1>1, <1>2, <1>7, <2>1, <3>3 DEF FlushOK, Busy
  <2>6. \A c : Cached(c)' <=> Cached(c)
    BY <1>1 DEF Cached
  <2>7. \A c : Holders(c)' = Holders(c)
    BY <1>1 DEF Holders
  <2>8. \A c : Modified(c)' <=> Modified(c)
    BY <1>1, <2>7 DEF Modified
  <2>9. NodesDistinct' /\ PinsCounted'
    BY <1>1, <2>6, <2>7 DEF Inv, NodesDistinct, PinsCounted
  <2>10. CleanOnDisk'
    <3>1. \A c \in Blocks \ refused' : c # b => c \notin refused
      BY <1>8
    <3> QED BY <1>1, <1>4, <1>8, <1>10, <2>2, <2>6, <2>8, <3>1 DEF Inv, CleanOnDisk
  <2> QED BY <2>3, <2>4, <2>5, <2>9, <2>10 DEF Inv
<1> QED BY <1>9, <1>10

LEMMA KeepFlushEnd ==
  ASSUME Inv, NEW t \in Thr, flush_end(t)
  PROVE  Inv'
<1>1. /\ UNCHANGED <<disk, nodeVars, pinVars, copy, refused>> /\ lock = t
      /\ pc' = [pc EXCEPT ![t] = "user"] /\ pc'[t] = "user" /\ lock' = NoThread
      /\ arg' = [arg EXCEPT ![t] = NoBlock] /\ curr' = [curr EXCEPT ![t] = 0]
  BY DEF flush_end, Return, Inv, LockHeld, Busy, TypeOK
<1>2. NodesDistinct' /\ PinsCounted' /\ CleanOnDisk'
  BY <1>1, Frame
<1>3. \A u \in Thr \ {t} : pc'[u] = pc[u]
  BY <1>1 DEF Inv, TypeOK
<1>4. \A u \in Thr \ {t} : pc'[u] \notin Busy
  BY <1>1, <1>3, Others
<1>5. TypeOK'
  BY <1>1 DEF Inv, TypeOK, Places
<1>6. LockHeld' /\ ArgsOK' /\ MissOK' /\ EvictOK' /\ FlushOK'
  BY <1>1, <1>4 DEF LockHeld, ArgsOK, MissOK, EvictOK, FlushOK, Busy
<1> QED BY <1>2, <1>5, <1>6 DEF Inv

---------------------------------------------------------------------------
(* The theorems.                                                           *)

LEMMA InitInv == Init => Inv
<1> SUFFICES ASSUME Init PROVE Inv
  OBVIOUS
<1>1. TypeOK
  BY ValuesAssumption DEF Init, TypeOK, Places
<1>2. LockHeld /\ ArgsOK /\ MissOK /\ EvictOK /\ FlushOK
  BY DEF Init, LockHeld, ArgsOK, MissOK, EvictOK, FlushOK, Busy
<1>3. \A c : ~Cached(c)
  BY DEF Init, Cached
<1>4. NodesDistinct
  BY NodesAssumption DEF Init, NodesDistinct
<1>5. PinsCounted /\ CleanOnDisk
  BY <1>3 DEF Init, PinsCounted, CleanOnDisk
<1> QED BY <1>1, <1>2, <1>4, <1>5 DEF Inv

LEMMA NextInv == Inv /\ [Next]_vars => Inv'
<1> SUFFICES ASSUME Inv, [Next]_vars PROVE Inv'
  OBVIOUS
<1>1. ASSUME NEW t \in Thr, NEW b \in Blocks, cache_get_block(t, b), ~get_busy(t, b) PROVE Inv'
  BY <1>1, KeepHit, KeepLocked, KeepEvictClean, KeepEvictDirty DEF cache_get_block
<1>2. ASSUME NEW t \in Thr, Call(t), ~UNCHANGED vars PROVE Inv'
  BY <1>1, <1>2, KeepRelease, KeepWrite, KeepLocked DEF Call, get_busy
<1>3. ASSUME NEW t \in Thr, Holding(t) PROVE Inv'
  BY <1>3, KeepEvicted, KeepFetched, KeepFlushStore, KeepFlushStored, KeepFlushEnd DEF Holding
<1>4. CASE UNCHANGED vars
  <2>1. NodesDistinct' /\ PinsCounted' /\ CleanOnDisk'
    BY <1>4, Frame DEF vars
  <2>2. TypeOK' /\ LockHeld' /\ ArgsOK' /\ MissOK' /\ EvictOK' /\ FlushOK'
    BY <1>4, Frame DEF vars, Inv, TypeOK, LockHeld, ArgsOK, MissOK, EvictOK, FlushOK
  <2> QED BY <2>1, <2>2 DEF Inv
<1> QED BY <1>1, <1>2, <1>3, <1>4 DEF Next

(* The inductive invariant: types, who holds the lock, what a thread that  *)
(* sleeps in the device relies on, and the three invariants of the cache.  *)
THEOREM Invariance == Spec => []Inv
BY InitInv, NextInv, PTL DEF Spec

(* A block has at most one node and there are never more than              *)
(* CACHE_MAX_NODES, in every reachable state of any number of callers.     *)
THEOREM DistinctNodes == Spec => []NodesDistinct
<1>1. Inv => NodesDistinct
  BY DEF Inv
<1> QED BY <1>1, Invariance, PTL

(* refcnt is the number of pointers held, so cache_get_block never evicts  *)
(* a node some caller points into.                                         *)
THEOREM CountedPins == Spec => []PinsCounted
<1>1. Inv => PinsCounted
  BY DEF Inv
<1> QED BY <1>1, Invariance, PTL

(* A clean node without unreleased writes equals the block on the device,  *)
(* although holders write while cache_flush sleeps in a store, for every   *)
(* block whose last transfer the device did.                               *)
THEOREM CleanNodesOnDisk == Spec => []CleanOnDisk
<1>1. Inv => CleanOnDisk
  BY DEF Inv
<1> QED BY <1>1, Invariance, PTL

(* When cache_flush returns 0, the device has every block that has no      *)
(* unreleased write, but for the stores it refused, which the loop takes   *)
(* for done: its position passes only clean nodes, and no node becomes     *)
(* dirty behind it.                                                        *)
THEOREM DurableFlush == Spec => FlushDurable
<1> DEFINE Durable == \A t \in Thr : flush_end(t) =>
                        \A b \in Blocks \ refused : ~Modified(b) => disk[b] = content[b]
<1>1. Inv => Durable
  <2> SUFFICES ASSUME Inv, NEW t \in Thr, flush_end(t), NEW b \in Blocks \ refused, ~Modified(b)
               PROVE  disk[b] = content[b]
    OBVIOUS
  <2>1. pc[t] = "flush_loop" /\ NextDirty(t) > Len(list)
    BY DEF flush_end
  <2>2. /\ \A j \in curr[t] .. NextDirty(t) - 1 : ~dirty[list[j]]
        /\ NextDirty(t) \in curr[t] .. Len(list) + 1 /\ curr[t] \in Nat
    BY <2>1, NextDirtyFound
  <2>3. \A j \in DOMAIN list : j < curr[t] => ~dirty[list[j]]
    BY <2>1 DEF Inv, FlushOK
  <2>4. DOMAIN list = 1 .. Len(list) /\ Len(list) \in Nat
    BY DEF Inv, TypeOK
  <2>5. \A j \in DOMAIN list : ~dirty[list[j]]
    BY <2>1, <2>2, <2>3, <2>4
  <2>6. Cached(b) => data[b] = disk[b]
    BY <2>5 DEF Cached, Inv, CleanOnDisk
  <2> QED BY <2>6 DEF content
<1>2. Inv /\ [Next]_vars => [Durable]_vars
  BY <1>1
<1>3. Spec => [][Durable]_vars
  <2> HIDE DEF Durable
  <2> QED BY <1>2, Invariance, PTL DEF Spec
<1> QED BY <1>3 DEF FlushDurable

---------------------------------------------------------------------------
(* The cache implements BlockStore.                                        *)

(* Steps that leave the nodes and the device alone change no content.      *)
LEMMA SameContent ==
  ASSUME UNCHANGED <<disk, list, data>>
  PROVE  content' = content
BY DEF content, Cached

LEMMA ContentType ==
  ASSUME TypeOK
  PROVE  content \in [Blocks -> Values]
BY DEF content, TypeOK

(* Dropping the victim shows the device's block in its place.              *)
LEMMA DropContent ==
  ASSUME Inv, NEW v \in Blocks, IsVictim(v), Drop(v), UNCHANGED <<refcnt, pinVars>>,
         \A c \in Blocks \ {v} : disk'[c] = disk[c]
  PROVE  /\ \A c \in Blocks \ {v} : content'[c] = content[c]
         /\ content[v] = data[v] /\ content'[v] = disk'[v]
<1>1. \A c : Cached(c)' <=> Cached(c) /\ c # v
  BY DropEffect
<1>2. \A c \in Blocks \ {v} : data'[c] = data[c]
  BY DropEffect
<1> QED BY <1>1, <1>2, VictimFacts DEF content

(* Every step keeps the contents and the pins, or is one of the store's.   *)
LEMMA StepRefines ==
  ASSUME Inv, [Next]_vars, TypeOK'
  PROVE  [Store!Next]_<<content, pin, refused>>
<1>0. content \in [Blocks -> Values] /\ content' \in [Blocks -> Values]
  <2>1. ASSUME TypeOK PROVE content \in [Blocks -> Values]
    BY <2>1, ContentType
  <2>2. TypeOK
    BY DEF Inv
  <2>3. content' \in [Blocks -> Values]
    BY DEF content, TypeOK
  <2> QED BY <2>1, <2>2, <2>3
<1>2. ASSUME NEW t \in Thr, NEW b \in Blocks, Pin(t, b), FreeSlots(t) # {},
             refused' \in {refused \ {b}, refused \cup {b}},
             \A c \in Blocks \ ({b} \cap refused') : content'[c] = content[c]
      PROVE  Store!Next
  <2>1. PICK s \in Slots : pin[t][s] = NoBlock /\ pin' = [pin EXCEPT ![t][s] = b]
    BY <1>2, PinEffect DEF Inv
  <2>2. Store!Get(t, s, b)
    BY <1>0, <1>2, <2>1 DEF Store!Get, Store!Moved, Store!Only
  <2> QED BY <2>2 DEF Store!Next
<1>3. ASSUME NEW b \in Blocks, UNCHANGED pin,
             refused' \in {refused \ {b}, refused \cup {b}},
             \A c \in Blocks \ ({b} \cap refused') : content'[c] = content[c]
      PROVE  Store!Next
  BY <1>0, <1>3 DEF Store!Next, Store!Transfer, Store!Moved, Store!Only
<1>4. ASSUME NEW t \in Thr, NEW b \in Blocks, cache_get_block(t, b)
      PROVE  [Store!Next]_<<content, pin, refused>>
  <2>1. CASE get_hit(t, b)
    <3>1. /\ UNCHANGED <<disk, data, refused>> /\ Cached(b) /\ Pin(t, b)
          /\ FreeSlots(t) # {} /\ list' = <<b>> \o WithoutBlock(b)
      BY <2>1 DEF get_hit, MayGet
    <3>2. \A c : Cached(c)' <=> Cached(c)
      BY <3>1, HitList DEF Inv
    <3>3. content' = content
      BY <3>1, <3>2 DEF content
    <3>4. refused' \in {refused \ {b}, refused \cup {b}}
      BY <3>1
    <3> QED BY <1>2, <3>1, <3>3, <3>4
  <2>2. CASE get_evict_clean(t, b)
    <3>1. PICK v \in Blocks : IsVictim(v) /\ ~dirty[v] /\ Drop(v)
      BY <2>2 DEF get_evict_clean
    <3>2. UNCHANGED <<disk, refcnt, pinVars, refused>>
      BY <2>2 DEF get_evict_clean
    <3>3. /\ \A c \in Blocks \ {v} : content'[c] = content[c]
          /\ content[v] = data[v] /\ content'[v] = disk[v]
      BY <3>1, <3>2, DropContent
    <3>4. v \notin refused => data[v] = disk[v]
      BY <3>1, VictimFacts DEF Inv, CleanOnDisk
    <3>5. refused' \in {refused \ {v}, refused \cup {v}}
      BY <3>2
    <3> QED BY <1>3, <3>2, <3>3, <3>4, <3>5
  <2>3. CASE get_miss(t, b) \/ get_busy(t, b) \/ get_evict_dirty(t, b)
    BY <2>3, SameContent DEF get_miss, get_busy, get_evict_dirty, vars
  <2> QED BY <1>4, <2>1, <2>2, <2>3 DEF cache_get_block
<1>5. ASSUME NEW t \in Thr, NEW s \in Slots, cache_release_block(t, s) PROVE Store!Next
  <2>1. UNCHANGED <<disk, list, data, refused>> /\ pin' = [pin EXCEPT ![t][s] = NoBlock]
        /\ pin[t][s] # NoBlock
    BY <1>5 DEF cache_release_block
  <2> QED BY <2>1, SameContent DEF Store!Next, Store!Release
<1>6. ASSUME NEW t \in Thr, NEW s \in Slots, NEW v \in Values, write_block(t, s, v)
      PROVE  Store!Next
  <2>1. PICK b \in Blocks : pin[t][s] = b /\ b # NoBlock
    BY <1>6 DEF write_block, Inv, TypeOK
  <2>2. /\ UNCHANGED <<disk, list, pin, refused>> /\ data' = [data EXCEPT ![b] = v]
        /\ pin[t][s] # NoBlock
    BY <1>6, <2>1 DEF write_block
  <2>3. \A c : Cached(c)' <=> Cached(c)
    BY <2>2 DEF Cached
  <2>4. \A c \in Blocks \ {b} : content'[c] = content[c]
    BY <2>2, <2>3 DEF content, Inv, TypeOK
  <2>5. Store!Write(t, s)
    BY <1>0, <2>1, <2>2, <2>4 DEF Store!Write, Store!Only
  <2> QED BY <2>5 DEF Store!Next
<1>7. ASSUME NEW t \in Thr, evict_done(t) PROVE [Store!Next]_<<content, pin, refused>>
  <2>1. pc[t] = "evict" /\ UNCHANGED <<refcnt, pinVars>>
    BY <1>7 DEF evict_done
  <2>7. PICK v \in Blocks : \E r \in IoResult(v) :
          /\ IsVictim(v) /\ StoreResult(t, v, r)
          /\ (Short(r) /\ UNCHANGED nodeVars) \/ (~Short(r) /\ Drop(v))
    BY <1>7 DEF evict_done
  <2>2. PICK r \in IoResult(v) :
          /\ IsVictim(v) /\ StoreResult(t, v, r)
          /\ (Short(r) /\ UNCHANGED nodeVars) \/ (~Short(r) /\ Drop(v))
    BY <2>7
  <2>3. copy[t] = data[v] /\ copy[t] \in Values
    BY <2>1, <2>2 DEF Inv, EvictOK, TypeOK
  <2>4. /\ \A c \in Blocks \ {v} : disk'[c] = disk[c]
        /\ refused' \in {refused \ {v}, refused \cup {v}}
        /\ Short(r) => disk' = disk /\ refused' = refused
        /\ ~Short(r) /\ v \notin refused' => disk'[v] = copy[t]
    BY <2>2, <2>3, StoreEffect
  <2>5. CASE Short(r)
    BY <2>1, <2>2, <2>4, <2>5, SameContent
  <2>6. CASE ~Short(r)
    <3>1. /\ \A c \in Blocks \ {v} : content'[c] = content[c]
          /\ content[v] = data[v] /\ content'[v] = disk'[v]
      BY <2>1, <2>2, <2>4, <2>6, DropContent
    <3> QED BY <1>3, <2>1, <2>3, <2>4, <2>6, <3>1
  <2> QED BY <2>5, <2>6
<1>8. ASSUME NEW t \in Thr, fetch_done(t) PROVE [Store!Next]_<<content, pin, refused>>
  <2>1. PICK b \in Blocks : b = arg[t] /\ FreeSlots(t) # {} /\ ~Cached(b)
    BY <1>8 DEF fetch_done, Inv, ArgsOK, MissOK
  <2>2. PICK r \in IoResult(b) :
          /\ Note(b, r) /\ disk' = disk
          /\ \/ Short(r) /\ UNCHANGED <<nodeVars, pinVars>>
             \/ /\ ~Short(r)
                /\ \E x \in FetchResult(b, r) : data' = [data EXCEPT ![b] = x]
                /\ list' = <<b>> \o list
                /\ Pin(t, b)
    BY <1>8, <2>1 DEF fetch_done
  <2>3. /\ refused' \in {refused \ {b}, refused \cup {b}}
        /\ ~Short(r) => (b \notin refused' <=> r = CACHE_BLKSZ)
        /\ Short(r) => refused' = refused
    BY <2>2, NoteFacts DEF Inv, TypeOK
  <2>4. CASE Short(r)
    BY <2>2, <2>3, <2>4, SameContent
  <2>5. CASE ~Short(r)
    <3>1. PICK x \in FetchResult(b, r) : data' = [data EXCEPT ![b] = x]
      BY <2>2, <2>5
    <3>2. list' = <<b>> \o list /\ Pin(t, b)
      BY <2>2, <2>5
    <3>3. \A c : Cached(c)' <=> c = b \/ Cached(c)
      BY <2>1, <3>2, FetchList DEF Inv
    <3>4. \A c \in Blocks \ {b} : data'[c] = data[c]
      BY <3>1 DEF Inv, TypeOK
    <3>5. b \notin refused' => data'[b] = disk[b]
      BY <2>3, <2>5, <3>1 DEF FetchResult, Inv, TypeOK
    <3>6. \A c \in Blocks \ ({b} \cap refused') : content'[c] = content[c]
      BY <2>1, <2>2, <3>3, <3>4, <3>5 DEF content
    <3> QED BY <1>2, <2>1, <2>3, <3>2, <3>6
  <2> QED BY <2>4, <2>5
<1>9. ASSUME NEW t \in Thr, flush_stored(t) PROVE Store!Next
  <2>1. UNCHANGED <<list, data, pinVars>> /\ pc[t] = "flush_store"
    BY <1>9 DEF flush_stored
  <2>2. PICK b \in Blocks : b = list[curr[t]] /\ Cached(b) /\ copy[t] \in Values
    BY <2>1 DEF Inv, FlushOK, TypeOK, Cached
  <2>3. PICK r \in IoResult(b) : StoreResult(t, b, r)
    BY <1>9, <2>2 DEF flush_stored
  <2>4. /\ \A c \in Blocks \ {b} : disk'[c] = disk[c]
        /\ refused' \in {refused \ {b}, refused \cup {b}}
    BY <2>2, <2>3, StoreEffect
  <2>5. \A c : Cached(c)' <=> Cached(c)
    BY <2>1 DEF Cached
  <2>6. \A c \in Blocks : content'[c] = content[c]
    BY <2>1, <2>2, <2>4, <2>5 DEF content
  <2> QED BY <1>3, <2>1, <2>4, <2>6
<1>10. ASSUME NEW t \in Thr, cache_flush(t) \/ flush_store(t) \/ flush_end(t)
       PROVE  UNCHANGED <<content, pin, refused>>
  BY <1>10, SameContent DEF cache_flush, flush_store, flush_end
<1>11. ASSUME NEW t \in Thr, Call(t) PROVE [Store!Next]_<<content, pin, refused>>
  BY <1>4, <1>5, <1>6, <1>10, <1>11 DEF Call
<1>12. ASSUME NEW t \in Thr, Holding(t) PROVE [Store!Next]_<<content, pin, refused>>
  BY <1>7, <1>8, <1>9, <1>10, <1>12 DEF Holding
<1>13. CASE UNCHANGED vars
  BY <1>13, SameContent DEF vars
<1> QED BY <1>11, <1>12, <1>13 DEF Next

(* The cache, with any number of nodes, implements a store in which a      *)
(* block changes only when a holder writes to it: evictions, write-backs,  *)
(* flushes and failed gets are invisible, and a transfer the device        *)
(* refused and the cache takes for done harms only its own block.          *)
THEOREM StoreImplemented == Spec => ImplementsStore
<1>1. Init => Store!Init
  BY DEF Init, Store!Init, content, Cached
<1>2. Inv /\ [Next]_vars => [Store!Next]_<<content, pin, refused>>
  <2> SUFFICES ASSUME Inv, [Next]_vars PROVE [Store!Next]_<<content, pin, refused>>
    OBVIOUS
  <2>1. TypeOK'
    BY NextInv DEF Inv
  <2> QED BY <2>1, StepRefines
<1> QED BY <1>1, <1>2, Invariance, PTL DEF Spec, ImplementsStore, Store!Spec
=============================================================================
