---------------------------- MODULE DevfsProofs ----------------------------
(***************************************************************************)
(* Device files, for every set of processes, list of devices and number of *)
(* descriptors: a uio is counted exactly by the descriptors and execs that *)
(* refer to it and by what failed forks and execs left, and a storage      *)
(* device is open for one user at a time.                                  *)
(***************************************************************************)
EXTENDS Devfs, FiniteSetTheorems, WellFoundedInduction, NaturalsInduction, TLAPS

---------------------------------------------------------------------------
(* The inductive invariant.                                                *)

Fields == {"kind", "dev", "refcnt", "pos", "buffer"}

Shapes ==
  /\ uios = [u \in Uios |-> uios[u]]
  /\ \A u \in Uios : DOMAIN uios[u] = Fields
  /\ opened \in [Devs -> BOOLEAN]
  /\ uiotab \in [Procs -> [Fds -> Uios \cup {NULL}]]
  /\ state \in [Procs -> {"none", "user", "call", "exec", "exiting"}]
  /\ juio \in [Procs -> Uios \cup {NULL}]
  /\ leaked \in [Uios -> Nat]

(* The count of a uio is the number of descriptors and of execs that refer *)
(* to it, and what a failed fork or exec left.                             *)
References(u) == Cardinality(Holders(u)) + Cardinality(Execs(u)) + leaked[u]
RefsCounted == \A u \in Uios : uios[u].refcnt = References(u)

(* A process that does not exist holds nothing, and a call runs on a uio   *)
(* that its process holds: it cannot close or exit during the call.  An    *)
(* exec has taken its uio out of the table.                                *)
TablesKept ==
  /\ \A p \in Procs : state[p] = "none" => \A fd \in Fds : uiotab[p][fd] = NULL
  /\ \A p \in Procs : juio[p] # NULL => state[p] \in {"call", "exec"}
  /\ \A p \in Procs : state[p] = "call" /\ juio[p] # NULL => \E fd \in Fds : uiotab[p][fd] = juio[p]
  /\ \A p \in Procs : state[p] = "exec" => juio[p] # NULL

IsOn(u, d) == uios[u].kind = "storage" /\ uios[u].dev = d

(* The flag of a disk is set by the kernel or by the one uio on it.        *)
FlagsKept ==
  /\ \A u \in Uios : uios[u].kind = "storage" =>
       uios[u].dev \in Disks /\ uios[u].dev \notin KernelHeld
  /\ \A u, v \in Uios, d \in Disks : IsOn(u, d) /\ IsOn(v, d) => u = v
  /\ \A d \in Disks : (d \in KernelHeld \/ \E u \in Uios : IsOn(u, d)) => opened[d]
  /\ \A d \in Disks : opened[d] => d \in KernelHeld \/ \E u \in Uios : IsOn(u, d)

DevInv == Shapes /\ RefsCounted /\ TablesKept /\ FlagsKept

---------------------------------------------------------------------------
(* Least numbers, and what they choose.                                    *)

(* A non-empty set of natural numbers has a least member, which FirstOf    *)
(* finds.                                                                  *)
LEMMA FirstFound ==
  ASSUME NEW T, T \subseteq Nat, T # {}
  PROVE  FirstOf(T) \in T /\ \A y \in T : FirstOf(T) <= y
<1>1. IsWellFoundedOn(OpToRel(<, Nat), Nat)
  BY NatLessThanWellFounded
<1>2. PICK x \in T : \A y \in T : ~(<<y, x>> \in OpToRel(<, Nat))
  BY <1>1, WFMin
<1>3. \A y \in T : ~(y < x)
  BY <1>2 DEF OpToRel
<1>4. \A y \in T : x <= y
  BY <1>3
<1> QED BY <1>4 DEF FirstOf

LEMMA Positions ==
  /\ Devs \subseteq Nat \ {0}
  /\ Fds \subseteq Nat
  /\ Uios \subseteq Nat \ {0}
  /\ Disks \subseteq Devs
  /\ KernelHeld \subseteq Devs
  /\ NULL \notin Uios
BY DevfsAssumption DEF Devs, Fds, Uios, Disks

(* A device that is found is in the list.                                  *)
LEMMA DeviceFound ==
  ASSUME NEW base, NEW inst, find_device(base, inst) # 0
  PROVE  find_device(base, inst) \in Devs
<1> DEFINE found == {i \in Devs : Attached[i] = base /\ instno(i) = inst}
<1>1. found # {}
  BY DEF find_device
<1>2. find_device(base, inst) = FirstOf(found)
  BY <1>1 DEF find_device, FirstOf
<1>3. found \subseteq Nat
  BY Positions
<1>4. FirstOf(found) \in found
  BY <1>1, <1>3, FirstFound
<1> QED BY <1>2, <1>4

(* A new uio has one reference; one on a disk is on a closed disk.         *)
FreshUio(r) ==
  /\ DOMAIN r = Fields /\ r.refcnt = 1
  /\ r.kind = "storage" => r.dev \in Disks /\ ~opened[r.dev]

LEMMA InitUio ==
  ASSUME NEW k, NEW d, NEW b
  PROVE  /\ DOMAIN uio_init1(k, d, b) = Fields
         /\ uio_init1(k, d, b).refcnt = 1
         /\ uio_init1(k, d, b).kind = k
         /\ uio_init1(k, d, b).dev = d
BY DEF uio_init1, Fields

LEMMA OpenedDevice ==
  ASSUME NEW base, NEW inst, IsUio(devfs_open_file(base, inst))
  PROVE  FreshUio(devfs_open_file(base, inst))
<1> DEFINE d == find_device(base, inst)
           r == devfs_open_file(base, inst)
<1> SUFFICES FreshUio(r)
  OBVIOUS
<1>1. d # 0
  BY DEF devfs_open_file, IsUio
<1>2. d \in Devs
  BY <1>1, DeviceFound
<1>3. CASE type(d) = "serial"
  <2>1. r = uio_init1("serial", d, zeroed(BLKSZ[Attached[d]]))
    BY <1>1, <1>3 DEF devfs_open_file, serial_open_uio
  <2>2. r.kind = "serial" /\ DOMAIN r = Fields /\ r.refcnt = 1
    BY <2>1, InitUio
  <2> HIDE DEF r
  <2> QED BY <2>2 DEF FreshUio
<1>4. CASE type(d) # "serial"
  <2>1. d \in Disks
    BY <1>2, <1>4 DEF Disks, type
  <2>2. r = storage_open_uio(d)
    BY <1>1, <1>4 DEF devfs_open_file
  <2>3. storage_open(d) = 0
    BY <2>2, DevfsAssumption DEF storage_open_uio, storage_open, IsUio
  <2>4. ~opened[d]
    BY <2>3, DevfsAssumption DEF storage_open
  <2>5. r = uio_init1("storage", d, zeroed(BLKSZ[Attached[d]]))
    BY <2>2, <2>3 DEF storage_open_uio
  <2>6. r.dev = d /\ DOMAIN r = Fields /\ r.refcnt = 1
    BY <2>5, InitUio
  <2> HIDE DEF r, d
  <2> QED BY <2>1, <2>4, <2>6 DEF FreshUio
<1> QED BY <1>3, <1>4

(* What open_file returns is an error or a new uio.                        *)
LEMMA OpenedFile ==
  ASSUME NEW path, IsUio(open_file(path))
  PROVE  FreshUio(open_file(path))
<1>1. \/ open_file(path) = fs_open_listing
      \/ open_file(path) = devfs_open_listing
      \/ open_file(path) = devfs_open_file(path.base, path.inst)
      \/ open_file(path) = ENOENT
  BY DEF open_file, devfs_open, nullfs_open
<1>2. FreshUio(fs_open_listing) /\ FreshUio(devfs_open_listing)
  BY InitUio DEF fs_open_listing, devfs_open_listing, FreshUio
<1> QED BY <1>1, <1>2, OpenedDevice DEF IsUio

---------------------------------------------------------------------------
(* The descriptors that refer to a uio.                                    *)

LEMMA FdsFinite == IsFiniteSet(Fds)
<1>1. 0 \in Int /\ UIOMAX - 1 \in Int
  BY DevfsAssumption
<1> QED BY <1>1, FS_Interval DEF Fds

LEMMA HoldersFinite ==
  ASSUME NEW u
  PROVE  IsFiniteSet(Holders(u)) /\ Cardinality(Holders(u)) \in Nat
<1>1. IsFiniteSet(Procs \X Fds)
  BY FdsFinite, DevfsAssumption, FS_Product
<1>2. Holders(u) \in SUBSET (Procs \X Fds)
  BY DEF Holders
<1> QED BY <1>1, <1>2, FS_Subset, FS_CardinalityType

(* A uio has references exactly when a descriptor refers to it.            *)
LEMMA HeldCount ==
  ASSUME NEW u
  PROVE  Cardinality(Holders(u)) = 0 <=> \A p \in Procs, fd \in Fds : uiotab[p][fd] # u
<1>1. Cardinality(Holders(u)) = 0 <=> Holders(u) = {}
  BY HoldersFinite, FS_EmptySet
<1>2. \A p \in Procs, fd \in Fds : <<p, fd>> \in Holders(u) <=> uiotab[p][fd] = u
  BY DEF Holders
<1>3. \A h \in Holders(u) : h[1] \in Procs /\ h[2] \in Fds /\ uiotab[h[1]][h[2]] = u
  BY DEF Holders
<1>4. (\A p \in Procs, fd \in Fds : uiotab[p][fd] # u) => Holders(u) = {}
  BY <1>3
<1>5. Holders(u) = {} => \A p \in Procs, fd \in Fds : uiotab[p][fd] # u
  BY <1>2
<1> QED BY <1>1, <1>4, <1>5

(* A descriptor that was free takes a reference to u.                      *)
LEMMA PutDescriptor ==
  ASSUME NEW p \in Procs, NEW fd \in Fds, NEW u \in Uios, Shapes,
         uiotab[p][fd] = NULL, uiotab' = [uiotab EXCEPT ![p][fd] = u]
  PROVE  /\ uiotab' \in [Procs -> [Fds -> Uios \cup {NULL}]]
         /\ Cardinality(Holders(u))' = Cardinality(Holders(u)) + 1
         /\ \A v \in Uios : v # u => Cardinality(Holders(v))' = Cardinality(Holders(v))
<1>1. uiotab' \in [Procs -> [Fds -> Uios \cup {NULL}]]
  BY DEF Shapes
<1>2. \A x \in Procs, y \in Fds : uiotab'[x][y] = IF x = p /\ y = fd THEN u ELSE uiotab[x][y]
  BY DEF Shapes
<1>3. \A v \in Uios : v # u => Holders(v)' = Holders(v)
  <2> SUFFICES ASSUME NEW v \in Uios, v # u PROVE Holders(v)' = Holders(v)
    OBVIOUS
  <2>1. NULL # v
    BY Positions
  <2>2. \A h \in Procs \X Fds : uiotab'[h[1]][h[2]] = v <=> uiotab[h[1]][h[2]] = v
    BY <1>2, <2>1
  <2> QED BY <2>2 DEF Holders
<1>4. Holders(u)' = Holders(u) \cup {<<p, fd>>}
  <2>1. NULL # u
    BY Positions
  <2>2. \A h \in Procs \X Fds : uiotab'[h[1]][h[2]] = u <=> (uiotab[h[1]][h[2]] = u \/ h = <<p, fd>>)
    BY <1>2, <2>1
  <2> QED BY <2>2 DEF Holders
<1>5. <<p, fd>> \notin Holders(u)
  BY Positions DEF Holders
<1>6. Cardinality(Holders(u) \cup {<<p, fd>>}) = Cardinality(Holders(u)) + 1
  BY <1>5, HoldersFinite, FS_AddElement
<1> QED BY <1>1, <1>3, <1>4, <1>6

(* A descriptor that refers to u becomes free.                             *)
LEMMA DropDescriptor ==
  ASSUME NEW p \in Procs, NEW fd \in Fds, NEW u \in Uios, Shapes,
         uiotab[p][fd] = u, uiotab' = [uiotab EXCEPT ![p][fd] = NULL]
  PROVE  /\ uiotab' \in [Procs -> [Fds -> Uios \cup {NULL}]]
         /\ Cardinality(Holders(u))' = Cardinality(Holders(u)) - 1
         /\ \A v \in Uios : v # u => Cardinality(Holders(v))' = Cardinality(Holders(v))
<1>1. uiotab' \in [Procs -> [Fds -> Uios \cup {NULL}]]
  BY DEF Shapes
<1>2. \A x \in Procs, y \in Fds : uiotab'[x][y] = IF x = p /\ y = fd THEN NULL ELSE uiotab[x][y]
  BY DEF Shapes
<1>3. \A v \in Uios : v # u => Holders(v)' = Holders(v)
  <2> SUFFICES ASSUME NEW v \in Uios, v # u PROVE Holders(v)' = Holders(v)
    OBVIOUS
  <2>1. NULL # v
    BY Positions
  <2>2. \A h \in Procs \X Fds : uiotab'[h[1]][h[2]] = v <=> uiotab[h[1]][h[2]] = v
    BY <1>2, <2>1
  <2> QED BY <2>2 DEF Holders
<1>4. Holders(u)' = Holders(u) \ {<<p, fd>>}
  <2>1. NULL # u
    BY Positions
  <2>2. \A h \in Procs \X Fds : uiotab'[h[1]][h[2]] = u <=> (uiotab[h[1]][h[2]] = u /\ h # <<p, fd>>)
    BY <1>2, <2>1
  <2> QED BY <2>2 DEF Holders
<1>5. <<p, fd>> \in Holders(u)
  BY DEF Holders
<1>6. Cardinality(Holders(u) \ {<<p, fd>>}) = Cardinality(Holders(u)) - 1
  BY <1>5, HoldersFinite, FS_RemoveElement
<1> QED BY <1>1, <1>3, <1>4, <1>6

(* The child of a fork refers to what its parent refers to.                *)
LEMMA CopyDescriptors ==
  ASSUME NEW p \in Procs, NEW q \in Procs, p # q, Shapes,
         \A fd \in Fds : uiotab[q][fd] = NULL,
         uiotab' = [uiotab EXCEPT ![q] = uiotab[p]]
  PROVE  /\ uiotab' \in [Procs -> [Fds -> Uios \cup {NULL}]]
         /\ \A v \in Uios : Cardinality(Holders(v))' = Cardinality(Holders(v)) + Refs(p, v)
<1>1. uiotab' \in [Procs -> [Fds -> Uios \cup {NULL}]]
  BY DEF Shapes
<1>2. \A x \in Procs, y \in Fds : uiotab'[x][y] = IF x = q THEN uiotab[p][y] ELSE uiotab[x][y]
  BY DEF Shapes
<1> SUFFICES ASSUME NEW v \in Uios
             PROVE  Cardinality(Holders(v))' = Cardinality(Holders(v)) + Refs(p, v)
  BY <1>1
<1> DEFINE F == {fd \in Fds : uiotab[p][fd] = v}
           G == {h \in Procs \X Fds : h[1] = q /\ uiotab[p][h[2]] = v}
           f == [fd \in F |-> <<q, fd>>]
<1>4. IsFiniteSet(F)
  BY FdsFinite, FS_Subset
<1>5. ExistsBijection(F, G)
  <2>1. f \in [F -> G]
    OBVIOUS
  <2>2. \A a, b \in F : f[a] = f[b] => a = b
    OBVIOUS
  <2>3. \A h \in G : h[2] \in F /\ f[h[2]] = h
    OBVIOUS
  <2>4. f \in Bijection(F, G)
    BY <2>1, <2>2, <2>3 DEF Bijection, Injection, Surjection, IsInjective
  <2> QED BY <2>4 DEF ExistsBijection
<1>6. IsFiniteSet(G) /\ Cardinality(G) = Refs(p, v)
  BY <1>4, <1>5, FS_Bijection DEF Refs
<1>7. NULL # v
  BY Positions
<1>8. Holders(v)' = Holders(v) \cup G
  <2>1. \A h \in Procs \X Fds : uiotab'[h[1]][h[2]] = v <=> (uiotab[h[1]][h[2]] = v \/ h \in G)
    BY <1>2, <1>7
  <2> QED BY <2>1 DEF Holders
<1>9. Holders(v) \cap G = {}
  BY <1>7 DEF Holders
<1>10. Cardinality(Holders(v) \cup G) = Cardinality(Holders(v)) + Cardinality(G) - Cardinality({})
  BY <1>6, <1>9, HoldersFinite, FS_Union
<1>11. Cardinality(G) \in Nat
  BY <1>6, FS_CardinalityType
<1> HIDE DEF G
<1> QED BY <1>6, <1>8, <1>10, <1>11, HoldersFinite, FS_EmptySet

---------------------------------------------------------------------------
(* All that refers to a uio.                                               *)

LEMMA ExecsFinite ==
  ASSUME NEW u
  PROVE  IsFiniteSet(Execs(u)) /\ Cardinality(Execs(u)) \in Nat
<1>1. Execs(u) \in SUBSET Procs
  BY DEF Execs
<1> QED BY <1>1, DevfsAssumption, FS_Subset, FS_CardinalityType

LEMMA ReferencesNat ==
  ASSUME Shapes, NEW u \in Uios
  PROVE  References(u) \in Nat /\ References(u) >= Cardinality(Holders(u)) /\ References(u) >= Cardinality(Execs(u))
<1>1. leaked[u] \in Nat
  BY DEF Shapes
<1> QED BY <1>1, HoldersFinite, ExecsFinite DEF References

(* A uio that a descriptor or an exec refers to has a reference.           *)
LEMMA Referred ==
  ASSUME Shapes, NEW u \in Uios,
         (\E p \in Procs, fd \in Fds : uiotab[p][fd] = u) \/ Execs(u) # {}
  PROVE  References(u) \in Nat \ {0}
<1>1. CASE \E p \in Procs, fd \in Fds : uiotab[p][fd] = u
  <2>1. Cardinality(Holders(u)) # 0
    BY <1>1, HeldCount
  <2> QED BY <2>1, ReferencesNat, HoldersFinite
<1>2. CASE Execs(u) # {}
  <2>1. Cardinality(Execs(u)) # 0
    BY <1>2, ExecsFinite, FS_EmptySet
  <2> QED BY <2>1, ReferencesNat, ExecsFinite
<1> QED BY <1>1, <1>2

(* Steps that neither begin nor end an exec.                               *)
LEMMA ExecsKept ==
  ASSUME \A p \in Procs : state'[p] = "exec" <=> state[p] = "exec",
         \A p \in Procs : state[p] = "exec" => juio'[p] = juio[p]
  PROVE  \A u : Execs(u)' = Execs(u)
BY DEF Execs

(* The execs of a uio are those before and p.                              *)
LEMMA PutExec ==
  ASSUME NEW p \in Procs, NEW u, Shapes, state[p] # "exec",
         \A x \in Procs : state'[x] = IF x = p THEN "exec" ELSE state[x],
         \A x \in Procs : juio'[x] = IF x = p THEN u ELSE juio[x]
  PROVE  /\ Cardinality(Execs(u))' = Cardinality(Execs(u)) + 1
         /\ \A v : v # u => Cardinality(Execs(v))' = Cardinality(Execs(v))
<1>1. Execs(u)' = Execs(u) \cup {p}
  BY DEF Execs
<1>2. p \notin Execs(u)
  BY DEF Execs
<1>3. Cardinality(Execs(u) \cup {p}) = Cardinality(Execs(u)) + 1
  BY <1>2, ExecsFinite, FS_AddElement
<1>4. \A v : v # u => Execs(v)' = Execs(v)
  BY DEF Execs
<1> QED BY <1>1, <1>3, <1>4

LEMMA DropExec ==
  ASSUME NEW p \in Procs, NEW u, Shapes, state[p] = "exec", juio[p] = u,
         \A x \in Procs : x # p => state'[x] = state[x] /\ juio'[x] = juio[x],
         state'[p] # "exec"
  PROVE  /\ Cardinality(Execs(u))' = Cardinality(Execs(u)) - 1
         /\ \A v : v # u => Cardinality(Execs(v))' = Cardinality(Execs(v))
<1>1. Execs(u)' = Execs(u) \ {p}
  BY DEF Execs
<1>2. p \in Execs(u)
  BY DEF Execs
<1>3. Cardinality(Execs(u) \ {p}) = Cardinality(Execs(u)) - 1
  BY <1>2, ExecsFinite, FS_RemoveElement
<1>4. \A v : v # u => Execs(v)' = Execs(v)
  BY DEF Execs
<1> QED BY <1>1, <1>3, <1>4

(* A process outside calls and execs changes its own descriptors.          *)
LEMMA TablesStep ==
  ASSUME Shapes, TablesKept, NEW p \in Procs, state[p] \in {"user", "exiting"},
         UNCHANGED <<state, juio>>, \A x \in Procs : x # p => uiotab'[x] = uiotab[x]
  PROVE  TablesKept'
<1>1. juio[p] = NULL
  BY DEF TablesKept
<1>2. \A x \in Procs : juio'[x] # NULL => x # p
  BY <1>1
<1>3. \A x \in Procs : state'[x] \in {"none", "call", "exec"} => x # p
  OBVIOUS
<1> QED BY <1>2, <1>3 DEF TablesKept

---------------------------------------------------------------------------
(* Steps that move the position or fill the buffer of one uio.             *)

KeptUio(x, y) == DOMAIN y = Fields /\ y.kind = x.kind /\ y.dev = x.dev /\ y.refcnt = x.refcnt
UiosKept == uios' = [u \in Uios |-> uios'[u]] /\ \A u \in Uios : KeptUio(uios[u], uios'[u])

Moves(u) ==
  \/ uios' = uios
  \/ \E v : uios' = [uios EXCEPT ![u].pos = v]
  \/ \E b : uios' = [uios EXCEPT ![u].buffer = b]
  \/ \E v, b : uios' = [uios EXCEPT ![u] = [uios[u] EXCEPT !.buffer = b, !.pos = v]]

LEMMA MovesKeep ==
  ASSUME Shapes, NEW u, Moves(u)
  PROVE  UiosKept
<1>1. \A w \in Uios : KeptUio(uios[w], uios[w])
  BY DEF Shapes, KeptUio
<1>2. CASE uios' = uios
  BY <1>1, <1>2 DEF UiosKept, Shapes
<1>3. CASE \E v : uios' = [uios EXCEPT ![u].pos = v]
  <2>1. PICK v : uios' = [uios EXCEPT ![u].pos = v]
    BY <1>3
  <2>2. uios' = [w \in Uios |-> uios'[w]]
    BY <2>1 DEF Shapes
  <2>3. \A w \in Uios : uios'[w] = IF w = u THEN [uios[w] EXCEPT !.pos = v] ELSE uios[w]
    BY <2>1 DEF Shapes
  <2>4. \A w \in Uios : KeptUio(uios[w], [uios[w] EXCEPT !.pos = v])
    BY DEF Shapes, KeptUio, Fields
  <2> QED BY <1>1, <2>2, <2>3, <2>4 DEF UiosKept
<1>4. CASE \E b : uios' = [uios EXCEPT ![u].buffer = b]
  <2>1. PICK b : uios' = [uios EXCEPT ![u].buffer = b]
    BY <1>4
  <2>2. uios' = [w \in Uios |-> uios'[w]]
    BY <2>1 DEF Shapes
  <2>3. \A w \in Uios : uios'[w] = IF w = u THEN [uios[w] EXCEPT !.buffer = b] ELSE uios[w]
    BY <2>1 DEF Shapes
  <2>4. \A w \in Uios : KeptUio(uios[w], [uios[w] EXCEPT !.buffer = b])
    BY DEF Shapes, KeptUio, Fields
  <2> QED BY <1>1, <2>2, <2>3, <2>4 DEF UiosKept
<1>5. CASE \E v, b : uios' = [uios EXCEPT ![u] = [uios[u] EXCEPT !.buffer = b, !.pos = v]]
  <2>1. PICK v, b : uios' = [uios EXCEPT ![u] = [uios[u] EXCEPT !.buffer = b, !.pos = v]]
    BY <1>5
  <2>2. uios' = [w \in Uios |-> uios'[w]]
    BY <2>1 DEF Shapes
  <2>3. \A w \in Uios : uios'[w] = IF w = u THEN [uios[w] EXCEPT !.buffer = b, !.pos = v] ELSE uios[w]
    BY <2>1 DEF Shapes
  <2>4. \A w \in Uios : KeptUio(uios[w], [uios[w] EXCEPT !.buffer = b, !.pos = v])
    BY DEF Shapes, KeptUio, Fields
  <2> QED BY <1>1, <2>2, <2>3, <2>4 DEF UiosKept
<1> QED BY <1>2, <1>3, <1>4, <1>5 DEF Moves

(* Such a step keeps the counts and the flags.                             *)
LEMMA KeptStep ==
  ASSUME Shapes, RefsCounted, FlagsKept, UiosKept, UNCHANGED opened,
         \A u \in Uios : References(u)' = References(u)
  PROVE  /\ uios' = [u \in Uios |-> uios'[u]]
         /\ \A u \in Uios : DOMAIN uios'[u] = Fields
         /\ RefsCounted'
         /\ FlagsKept'
<1>2. RefsCounted'
  BY DEF RefsCounted, UiosKept, KeptUio
<1>3. \A u \in Uios, d \in Disks : IsOn(u, d)' <=> IsOn(u, d)
  BY DEF IsOn, UiosKept, KeptUio
<1>4. \A u \in Uios : uios'[u].kind = uios[u].kind /\ uios'[u].dev = uios[u].dev
  BY DEF UiosKept, KeptUio
<1>5. opened' = opened
  OBVIOUS
<1>6. FlagsKept'
  BY <1>3, <1>4, <1>5 DEF FlagsKept
<1> QED BY <1>2, <1>6 DEF UiosKept, KeptUio

(* A step of a call, on whatever uio.                                      *)
LEMMA MovingStep ==
  ASSUME DevInv, NEW u, Moves(u), UNCHANGED <<opened, uiotab, state, juio, leaked>>
  PROVE  DevInv'
<1>1. UiosKept
  BY MovesKeep DEF DevInv
<1>2. TablesKept'
  BY DEF DevInv, TablesKept
<1>0. \A w \in Uios : References(w)' = References(w)
  BY DEF References, Holders, Execs
<1>3. /\ uios' = [w \in Uios |-> uios'[w]]
      /\ \A w \in Uios : DOMAIN uios'[w] = Fields
      /\ RefsCounted'
      /\ FlagsKept'
  BY <1>0, <1>1, KeptStep DEF DevInv
<1>4. Shapes'
  BY <1>3 DEF DevInv, Shapes
<1> QED BY <1>2, <1>3, <1>4 DEF DevInv

LEMMA CallStep ==
  ASSUME DevInv, NEW p \in Procs,
         \/ unaligned_fetch(p) \/ aligned_fetch(p) \/ unaligned_load(p)
         \/ unaligned_store(p) \/ aligned_store(p)
         \/ serial_uio_read(p) \/ serial_uio_write(p)
  PROVE  DevInv'
<1>1. CASE unaligned_fetch(p)
  <2>1. Moves(juio[p])
    BY <1>1 DEF unaligned_fetch, Moves
  <2>2. UNCHANGED <<opened, uiotab, state, juio, leaked>>
    BY <1>1 DEF unaligned_fetch, ends, goes_on, fails, histVars
  <2> QED BY <2>1, <2>2, MovingStep
<1>2. CASE aligned_fetch(p)
  <2>1. Moves(juio[p])
    BY <1>2 DEF aligned_fetch, Moves
  <2>2. UNCHANGED <<opened, uiotab, state, juio, leaked>>
    BY <1>2 DEF aligned_fetch, ends, goes_on, fails, histVars
  <2> QED BY <2>1, <2>2, MovingStep
<1>3. CASE unaligned_load(p)
  <2>1. Moves(juio[p])
    BY <1>3 DEF unaligned_load, Moves
  <2>2. UNCHANGED <<opened, uiotab, state, juio, leaked>>
    BY <1>3 DEF unaligned_load, ends, goes_on, fails, histVars
  <2> QED BY <2>1, <2>2, MovingStep
<1>4. CASE unaligned_store(p)
  <2>1. Moves(juio[p])
    BY <1>4 DEF unaligned_store, Moves
  <2>2. UNCHANGED <<opened, uiotab, state, juio, leaked>>
    BY <1>4 DEF unaligned_store, ends, goes_on, fails, histVars
  <2> QED BY <2>1, <2>2, MovingStep
<1>5. CASE aligned_store(p)
  <2>1. Moves(juio[p])
    BY <1>5 DEF aligned_store, Moves
  <2>2. UNCHANGED <<opened, uiotab, state, juio, leaked>>
    BY <1>5 DEF aligned_store, ends, goes_on, fails, histVars
  <2> QED BY <2>1, <2>2, MovingStep
<1>6. CASE serial_uio_read(p)
  <2>1. Moves(juio[p])
    BY <1>6 DEF serial_uio_read, Moves
  <2>2. UNCHANGED <<opened, uiotab, state, juio, leaked>>
    BY <1>6 DEF serial_uio_read, goes_on, histVars
  <2> QED BY <2>1, <2>2, MovingStep
<1>7. CASE serial_uio_write(p)
  <2>1. Moves(juio[p])
    BY <1>7 DEF serial_uio_write, Moves
  <2>2. UNCHANGED <<opened, uiotab, state, juio, leaked>>
    BY <1>7 DEF serial_uio_write, ends, histVars
  <2> QED BY <2>1, <2>2, MovingStep
<1> QED BY <1>1, <1>2, <1>3, <1>4, <1>5, <1>6, <1>7

(* Positions set by sysfcntl and the cursors of listings.                  *)
LEMMA PositionStep ==
  ASSUME DevInv, NEW p \in Procs, NEW fd \in Fds, NEW pos,
         storage_uio_cntl(p, fd, pos) \/ listing_read(p, fd)
  PROVE  DevInv'
<1>1. Moves(uiotab[p][fd])
  BY DEF storage_uio_cntl, listing_read, Moves
<1>2. UNCHANGED <<opened, uiotab, state, juio, leaked>>
  BY DEF storage_uio_cntl, listing_read, callVars, devVars, histVars
<1> QED BY <1>1, <1>2, MovingStep

LEMMA LoadStep ==
  ASSUME DevInv, NEW p \in Procs, elf_load(p)
  PROVE  DevInv'
<1>6. Moves(juio[p])
  BY DEF elf_load, Moves
<1>7. UNCHANGED <<opened, uiotab, state, juio, leaked>>
  BY DEF elf_load, devVars, callVars, histVars
<1> QED BY <1>6, <1>7, MovingStep

---------------------------------------------------------------------------
(* Calls begin and return, processes begin to exit.                        *)

LEMMA StartStep ==
  ASSUME DevInv, NEW p \in Procs, NEW fd \in Fds, NEW j, start(p, fd, j)
  PROVE  DevInv'
<1> DEFINE u == uiotab[p][fd]
<1>1. /\ state' = [state EXCEPT ![p] = "call"]
      /\ juio' = [juio EXCEPT ![p] = u]
      /\ UNCHANGED <<opened, uios, uiotab, leaked>>
      /\ u # NULL /\ state[p] = "user"
  BY DEF start, devVars, fdVars, User
<1>2. u \in Uios
  BY <1>1 DEF DevInv, Shapes
<1>3. Moves(u)
  BY <1>1 DEF Moves
<1>4. UiosKept
  BY <1>3, MovesKeep DEF DevInv
<1>0. \A w \in Uios : References(w)' = References(w)
  <2>1. \A x \in Procs : state'[x] = IF x = p THEN "call" ELSE state[x]
    BY <1>1 DEF DevInv, Shapes
  <2>2. \A x \in Procs : x # p => juio'[x] = juio[x]
    BY <1>1 DEF DevInv, Shapes
  <2>3. \A w : Execs(w)' = Execs(w)
    BY <2>1, <2>2, <1>1, ExecsKept
  <2> QED BY <2>3, <1>1 DEF References, Holders
<1>5. /\ uios' = [w \in Uios |-> uios'[w]]
      /\ \A w \in Uios : DOMAIN uios'[w] = Fields
      /\ RefsCounted'
      /\ FlagsKept'
  BY <1>0, <1>1, <1>4, KeptStep DEF DevInv
<1>6. Shapes'
  BY <1>1, <1>2, <1>5 DEF DevInv, Shapes
<1>7. TablesKept'
  BY <1>1, <1>2 DEF DevInv, TablesKept, Shapes
<1> QED BY <1>5, <1>6, <1>7 DEF DevInv

LEMMA LeaveStep ==
  ASSUME DevInv, NEW p \in Procs, leaves(p) \/ exit(p)
  PROVE  DevInv'
<1>1. /\ state' = [state EXCEPT ![p] = "user"] \/ state' = [state EXCEPT ![p] = "exiting"]
      /\ \/ juio' = [juio EXCEPT ![p] = NULL]
         \/ juio' = juio /\ state[p] = "user"
      /\ state[p] \in {"call", "user"}
      /\ UNCHANGED <<opened, uios, uiotab, leaked>>
  BY DEF leaves, exit, devVars, fdVars, callVars, histVars, User
<1>2. Moves(NULL)
  BY <1>1 DEF Moves
<1>3. UiosKept
  BY <1>2, MovesKeep DEF DevInv
<1>0. \A w \in Uios : References(w)' = References(w)
  <2>1. \A x \in Procs : x # p => state'[x] = state[x]
    BY <1>1 DEF DevInv, Shapes
  <2>2. \A x \in Procs : x # p => juio'[x] = juio[x]
    BY <1>1 DEF DevInv, Shapes
  <2>3. state[p] # "exec" /\ state'[p] # "exec"
    BY <1>1 DEF DevInv, Shapes
  <2>4. \A w : Execs(w)' = Execs(w)
    BY <2>1, <2>2, <2>3, ExecsKept
  <2> QED BY <2>4, <1>1 DEF References, Holders
<1>4. /\ uios' = [w \in Uios |-> uios'[w]]
      /\ \A w \in Uios : DOMAIN uios'[w] = Fields
      /\ RefsCounted'
      /\ FlagsKept'
  BY <1>0, <1>1, <1>3, KeptStep DEF DevInv
<1>5. Shapes'
  BY <1>1, <1>4 DEF DevInv, Shapes
<1>6. TablesKept'
  BY <1>1 DEF DevInv, TablesKept, Shapes
<1> QED BY <1>4, <1>5, <1>6 DEF DevInv

---------------------------------------------------------------------------
(* Opening.                                                                *)

LEMMA OpenStep ==
  ASSUME DevInv, NEW p \in Procs, NEW fd, NEW path, sysopen(p, fd, path)
  PROVE  DevInv'
<1>1. /\ chosen_fd(p, fd) \in Fds /\ uiotab[p][chosen_fd(p, fd)] = NULL
      /\ state[p] = "user"
  BY DEF sysopen, FreeFds, User
<1>2. CASE sysopen_enoent(p, chosen_fd(p, fd), path)
  <2>1. UNCHANGED <<opened, uios, uiotab, state, juio, leaked>>
    BY <1>2 DEF sysopen_enoent, devVars, fdVars, callVars, histVars
  <2>2. Moves(NULL)
    BY <2>1 DEF Moves
  <2> QED BY <2>1, <2>2, MovingStep
<1>3. CASE sysopen_ok(p, chosen_fd(p, fd), path)
  <2>a. PICK r, u, f : r = open_file(path) /\ u = FirstOf(FreeUios) /\ f = chosen_fd(p, fd)
    OBVIOUS
  <2>1. /\ uios' = [uios EXCEPT ![u] = r]
        /\ uiotab' = [uiotab EXCEPT ![p][f] = u]
        /\ opened' = IF r.kind = "storage" THEN [opened EXCEPT ![r.dev] = TRUE] ELSE opened
        /\ UNCHANGED <<state, juio, leaked>>
        /\ IsUio(r) /\ FreeUios # {}
    BY <1>3, <2>a DEF sysopen_ok, callVars, histVars
  <2>b. f \in Fds /\ uiotab[p][f] = NULL
    BY <1>1, <2>a
  <2>2. FreshUio(r)
    BY <2>1, <2>a, OpenedFile
  <2>3. FreeUios \subseteq Nat
    BY Positions DEF FreeUios
  <2>4. u \in FreeUios
    BY <2>1, <2>3, <2>a, FirstFound
  <2>5. u \in Uios /\ uios[u].refcnt = 0 /\ uios[u].kind = "none"
    BY <2>4 DEF FreeUios, NoUio
  <2>6. Shapes /\ RefsCounted /\ TablesKept /\ FlagsKept
    BY DEF DevInv
  <2>7. /\ uiotab' \in [Procs -> [Fds -> Uios \cup {NULL}]]
        /\ Cardinality(Holders(u))' = Cardinality(Holders(u)) + 1
        /\ \A v \in Uios : v # u => Cardinality(Holders(v))' = Cardinality(Holders(v))
    BY <2>b, <2>1, <2>5, <2>6, PutDescriptor
  <2>8. \A w \in Uios : uios'[w] = IF w = u THEN r ELSE uios[w]
    BY <2>1, <2>6 DEF Shapes
  <2>9. References(u) = 0
    BY <2>5, <2>6 DEF RefsCounted
  <2>10. RefsCounted'
    <3>1. \A w \in Uios : Execs(w)' = Execs(w) /\ leaked'[w] = leaked[w]
      BY <2>1 DEF Execs
    <3>2. References(u)' = References(u) + 1
      BY <3>1, <2>5, <2>6, <2>7, HoldersFinite, ExecsFinite DEF References, Shapes
    <3>3. \A w \in Uios : w # u => References(w)' = References(w)
      BY <3>1, <2>7 DEF References
    <3> SUFFICES ASSUME NEW w \in Uios PROVE uios'[w].refcnt = References(w)'
      BY DEF RefsCounted
    <3>4. CASE w = u
      BY <3>4, <3>2, <2>2, <2>8, <2>9 DEF FreshUio
    <3>5. CASE w # u
      BY <3>5, <3>3, <2>6, <2>8 DEF RefsCounted
    <3> QED BY <3>4, <3>5
  <2>11. Shapes'
    <3>1. uios' = [w \in Uios |-> uios'[w]]
      BY <2>1, <2>6 DEF Shapes
    <3>2. \A w \in Uios : DOMAIN uios'[w] = Fields
      BY <2>2, <2>6, <2>8 DEF Shapes, FreshUio
    <3>3. opened' \in [Devs -> BOOLEAN]
      BY <2>1, <2>6 DEF Shapes
    <3> QED BY <3>1, <3>2, <3>3, <2>1, <2>6, <2>7 DEF Shapes
  <2>12. TablesKept'
    <3>1. \A x \in Procs : x # p => uiotab'[x] = uiotab[x]
      BY <2>b, <2>1, <2>6 DEF Shapes
    <3> QED BY <3>1, <1>1, <2>1, <2>6, TablesStep
  <2>13. FlagsKept'
    <3>1. CASE r.kind # "storage"
      <4>1. \A w \in Uios, d \in Disks : IsOn(w, d)' <=> IsOn(w, d)
        BY <3>1, <2>5, <2>8 DEF IsOn
      <4>2. opened' = opened
        BY <3>1, <2>1
      <4>3. \A w \in Uios : uios'[w].kind = "storage" =>
              uios'[w].dev \in Disks /\ uios'[w].dev \notin KernelHeld
        BY <3>1, <2>6, <2>8 DEF FlagsKept
      <4> QED BY <4>1, <4>2, <4>3, <2>6 DEF FlagsKept
    <3>2. CASE r.kind = "storage"
      <4>1. r.dev \in Disks /\ ~opened[r.dev]
        BY <3>2, <2>2 DEF FreshUio
      <4>2. r.dev \notin KernelHeld /\ \A w \in Uios : ~IsOn(w, r.dev)
        BY <4>1, <2>6 DEF FlagsKept
      <4>3. \A d \in Disks : IsOn(u, d)' <=> d = r.dev
        BY <3>2, <2>5, <2>8 DEF IsOn
      <4>4. \A w \in Uios, d \in Disks : w # u => (IsOn(w, d)' <=> IsOn(w, d))
        BY <2>8 DEF IsOn
      <4>5. \A d \in Disks : opened'[d] <=> (opened[d] \/ d = r.dev)
        BY <3>2, <2>1, <2>6, Positions DEF Shapes
      <4>6. \A d \in Disks : ~IsOn(u, d)
        BY <2>5 DEF IsOn
      <4>7. \A w \in Uios : uios'[w].kind = "storage" =>
              uios'[w].dev \in Disks /\ uios'[w].dev \notin KernelHeld
        BY <4>1, <4>2, <2>6, <2>8 DEF FlagsKept
      <4>8. \A v, w \in Uios, d \in Disks : IsOn(v, d)' /\ IsOn(w, d)' => v = w
        BY <4>2, <4>3, <4>4, <2>6 DEF FlagsKept
      <4>9. \A d \in Disks : (d \in KernelHeld \/ \E w \in Uios : IsOn(w, d)') => opened'[d]
        BY <4>3, <4>4, <4>5, <2>6 DEF FlagsKept
      <4>10. \A d \in Disks : opened'[d] => d \in KernelHeld \/ \E w \in Uios : IsOn(w, d)'
        BY <4>3, <4>4, <4>5, <4>6, <2>5, <2>6 DEF FlagsKept
      <4> QED BY <4>7, <4>8, <4>9, <4>10 DEF FlagsKept
    <3> QED BY <3>1, <3>2
  <2> QED BY <2>10, <2>11, <2>12, <2>13 DEF DevInv
<1> QED BY <1>2, <1>3 DEF sysopen

---------------------------------------------------------------------------
(* Closing.                                                                *)

(* A reference to u is dropped and u is closed.                            *)
LEMMA CloseUio ==
  ASSUME Shapes, RefsCounted, FlagsKept, NEW u \in Uios, uio_close(u),
         References(u) \in Nat \ {0}, References(u)' = References(u) - 1,
         \A v \in Uios : v # u => References(v)' = References(v)
  PROVE  /\ uios' = [w \in Uios |-> uios'[w]]
         /\ \A w \in Uios : DOMAIN uios'[w] = Fields
         /\ opened' \in [Devs -> BOOLEAN]
         /\ RefsCounted'
         /\ FlagsKept'
<1>1. Shapes /\ RefsCounted /\ FlagsKept
  OBVIOUS
<1>4. PICK n \in Nat \ {0} : n = uios[u].refcnt /\ n = References(u)
  BY DEF RefsCounted
<1>5. \A w \in Uios : uios'[w] = IF w = u
        THEN IF n = 1 THEN NoUio ELSE [uios[w] EXCEPT !.refcnt = n - 1]
        ELSE uios[w]
  <2>0. uio_close(u)
    OBVIOUS
  <2>1. uios' = [uios EXCEPT ![u] = IF uios[u].refcnt = 1 THEN NoUio
                                    ELSE [uios[u] EXCEPT !.refcnt = uios[u].refcnt - 1]]
    BY ONLY <2>0 DEF uio_close
  <2>2. \A w \in Uios : uios'[w] = IF w = u
          THEN IF uios[u].refcnt = 1 THEN NoUio ELSE [uios[u] EXCEPT !.refcnt = uios[u].refcnt - 1]
          ELSE uios[w]
    BY <1>1, <2>1 DEF Shapes
  <2> QED BY <2>2, <1>4
<1>6. NoUio.refcnt = 0 /\ NoUio.kind = "none" /\ DOMAIN NoUio = Fields
  BY DEF NoUio, Fields
<1>7. /\ DOMAIN [uios[u] EXCEPT !.refcnt = n - 1] = Fields
      /\ [uios[u] EXCEPT !.refcnt = n - 1].refcnt = n - 1
      /\ [uios[u] EXCEPT !.refcnt = n - 1].kind = uios[u].kind
      /\ [uios[u] EXCEPT !.refcnt = n - 1].dev = uios[u].dev
  BY <1>1 DEF Shapes, Fields
<1>8. RefsCounted'
  <2> SUFFICES ASSUME NEW w \in Uios PROVE uios'[w].refcnt = References(w)'
    BY DEF RefsCounted
  <2>1. CASE w = u /\ n = 1
    BY <2>1, <1>4, <1>5, <1>6
  <2>2. CASE w = u /\ n # 1
    BY <2>2, <1>4, <1>5, <1>7
  <2>3. CASE w # u
    BY <2>3, <1>1, <1>5 DEF RefsCounted
  <2> QED BY <2>1, <2>2, <2>3
<1>9. opened' = IF uios[u].kind = "storage" /\ n = 1
                THEN [opened EXCEPT ![uios[u].dev] = FALSE] ELSE opened
  BY <1>4 DEF uio_close, storage_uio_close
<1>10. /\ uios' = [w \in Uios |-> uios'[w]]
       /\ \A w \in Uios : DOMAIN uios'[w] = Fields
       /\ opened' \in [Devs -> BOOLEAN]
  <2>1. uios' = [w \in Uios |-> uios'[w]]
    BY <1>1 DEF uio_close, Shapes
  <2>2. \A w \in Uios : DOMAIN uios'[w] = Fields
    BY <1>1, <1>5, <1>6, <1>7 DEF Shapes
  <2>3. opened' \in [Devs -> BOOLEAN]
    BY <1>1, <1>9 DEF Shapes
  <2> QED BY <2>1, <2>2, <2>3
<1>12. FlagsKept'
  <2>1. CASE n # 1
    <3>1. \A w \in Uios : uios'[w].kind = uios[w].kind /\ uios'[w].dev = uios[w].dev
      BY <2>1, <1>5, <1>7
    <3>2. \A w \in Uios, d \in Disks : IsOn(w, d)' <=> IsOn(w, d)
      BY <3>1 DEF IsOn
    <3>3. opened' = opened
      BY <2>1, <1>9
    <3> QED BY <3>1, <3>2, <3>3, <1>1 DEF FlagsKept
  <2>2. CASE n = 1
    <3>1. \A w \in Uios : w # u => uios'[w] = uios[w]
      BY <1>5
    <3>2. uios'[u].kind = "none"
      BY <2>2, <1>5, <1>6
    <3>3. \A d \in Disks : ~IsOn(u, d)'
      BY <3>2 DEF IsOn
    <3>4. \A w \in Uios, d \in Disks : w # u => (IsOn(w, d)' <=> IsOn(w, d))
      BY <3>1 DEF IsOn
    <3>5. \A w \in Uios : uios'[w].kind = "storage" =>
            uios'[w].dev \in Disks /\ uios'[w].dev \notin KernelHeld
      BY <3>1, <3>2, <1>1 DEF FlagsKept
    <3>6. \A v, w \in Uios, d \in Disks : IsOn(v, d)' /\ IsOn(w, d)' => v = w
      BY <3>3, <3>4, <1>1 DEF FlagsKept
    <3>7. \A d \in Disks : opened'[d] <=> (opened[d] /\ ~IsOn(u, d))
      <4>1. CASE uios[u].kind = "storage"
        <5>1. \A d \in Disks : IsOn(u, d) <=> d = uios[u].dev
          BY <4>1 DEF IsOn
        <5> QED BY <4>1, <5>1, <2>2, <1>1, <1>9, Positions DEF Shapes
      <4>2. CASE uios[u].kind # "storage"
        <5>1. \A d \in Disks : ~IsOn(u, d)
          BY <4>2 DEF IsOn
        <5>2. opened' = opened
          BY <4>2, <1>9
        <5> QED BY <5>1, <5>2
      <4> QED BY <4>1, <4>2
    <3>8. \A d \in Disks : IsOn(u, d) => d \notin KernelHeld
      BY <1>1 DEF FlagsKept, IsOn
    <3>9. \A d \in Disks : (d \in KernelHeld \/ \E w \in Uios : IsOn(w, d)') => opened'[d]
      BY <3>3, <3>4, <3>7, <3>8, <1>1 DEF FlagsKept
    <3>10. \A d \in Disks : opened'[d] => d \in KernelHeld \/ \E w \in Uios : IsOn(w, d)'
      BY <3>4, <3>7, <1>1 DEF FlagsKept
    <3> QED BY <3>5, <3>6, <3>9, <3>10 DEF FlagsKept
  <2> QED BY <2>1, <2>2
<1> QED BY <1>8, <1>10, <1>12

(* A descriptor of a process outside a call is closed.                     *)
LEMMA CloseStep ==
  ASSUME DevInv, NEW p \in Procs, NEW f \in Fds,
         uiotab[p][f] # NULL, state[p] \in {"user", "exiting"},
         uio_close(uiotab[p][f]), uiotab' = [uiotab EXCEPT ![p][f] = NULL],
         UNCHANGED <<state, juio, leaked>>
  PROVE  DevInv'
<1>1. Shapes /\ RefsCounted /\ TablesKept /\ FlagsKept
  BY DEF DevInv
<1>2. PICK u \in Uios : u = uiotab[p][f]
  BY <1>1 DEF Shapes
<1>3. /\ uiotab' \in [Procs -> [Fds -> Uios \cup {NULL}]]
      /\ Cardinality(Holders(u))' = Cardinality(Holders(u)) - 1
      /\ \A v \in Uios : v # u => Cardinality(Holders(v))' = Cardinality(Holders(v))
  BY <1>1, <1>2, DropDescriptor
<1>4. \A w \in Uios : Execs(w)' = Execs(w) /\ leaked'[w] = leaked[w]
  BY DEF Execs
<1>5. References(u)' = References(u) - 1
  BY <1>1, <1>3, <1>4, HoldersFinite, ExecsFinite DEF References, Shapes
<1>6. \A w \in Uios : w # u => References(w)' = References(w)
  BY <1>3, <1>4 DEF References
<1>7. References(u) \in Nat \ {0}
  BY <1>1, <1>2, Referred
<1>8. /\ uios' = [w \in Uios |-> uios'[w]]
      /\ \A w \in Uios : DOMAIN uios'[w] = Fields
      /\ opened' \in [Devs -> BOOLEAN]
      /\ RefsCounted'
      /\ FlagsKept'
  BY <1>1, <1>2, <1>5, <1>6, <1>7, CloseUio
<1>9. Shapes'
  BY <1>1, <1>3, <1>8 DEF Shapes
<1>10. \A x \in Procs : x # p => uiotab'[x] = uiotab[x]
  BY <1>1 DEF Shapes
<1>11. TablesKept'
  BY <1>1, <1>10, TablesStep
<1> QED BY <1>8, <1>9, <1>11 DEF DevInv

(* An exec closes its file and returns, or ends its process.               *)
LEMMA ExecEndsStep ==
  ASSUME DevInv, NEW p \in Procs, process_exec_ends(p)
  PROVE  DevInv'
<1>1. Shapes /\ RefsCounted /\ TablesKept /\ FlagsKept
  BY DEF DevInv
<1>2. state[p] = "exec" /\ uio_close(juio[p]) /\ UNCHANGED <<uiotab, leaked>>
  BY DEF process_exec_ends
<1>3. PICK s \in {"user", "exiting"} : state' = [state EXCEPT ![p] = s]
  BY DEF process_exec_ends
<1>4. juio' = [juio EXCEPT ![p] = NULL]
  BY DEF process_exec_ends
<1>5. PICK u \in Uios : u = juio[p]
  BY <1>1, <1>2 DEF Shapes, TablesKept
<1>6. /\ \A x \in Procs : state'[x] = IF x = p THEN s ELSE state[x]
      /\ \A x \in Procs : juio'[x] = IF x = p THEN NULL ELSE juio[x]
      /\ state' \in [Procs -> {"none", "user", "call", "exec", "exiting"}]
      /\ juio' \in [Procs -> Uios \cup {NULL}]
  BY <1>1, <1>3, <1>4 DEF Shapes
<1>7. /\ Cardinality(Execs(u))' = Cardinality(Execs(u)) - 1
      /\ \A v : v # u => Cardinality(Execs(v))' = Cardinality(Execs(v))
  BY <1>1, <1>2, <1>5, <1>6, DropExec
<1>8. \A w \in Uios : Holders(w)' = Holders(w) /\ leaked'[w] = leaked[w]
  BY <1>2 DEF Holders
<1>9. References(u)' = References(u) - 1
  BY <1>1, <1>7, <1>8, HoldersFinite, ExecsFinite DEF References, Shapes
<1>10. \A w \in Uios : w # u => References(w)' = References(w)
  BY <1>7, <1>8 DEF References
<1>11. References(u) \in Nat \ {0}
  <2>1. p \in Execs(u)
    BY <1>2, <1>5 DEF Execs
  <2> QED BY <1>1, <2>1, Referred
<1>12. /\ uios' = [w \in Uios |-> uios'[w]]
       /\ \A w \in Uios : DOMAIN uios'[w] = Fields
       /\ opened' \in [Devs -> BOOLEAN]
       /\ RefsCounted'
       /\ FlagsKept'
  BY <1>1, <1>2, <1>5, <1>9, <1>10, <1>11, CloseUio
<1>13. Shapes'
  BY <1>1, <1>2, <1>6, <1>12 DEF Shapes
<1>14. TablesKept'
  BY <1>1, <1>2, <1>6 DEF TablesKept
<1> QED BY <1>12, <1>13, <1>14 DEF DevInv

LEMMA ExitCloseStep ==
  ASSUME DevInv, NEW p \in Procs, exit_close(p)
  PROVE  DevInv'
<1> DEFINE held == Fds \ FreeFds(p)
<1>1. CASE held # {}
  <2>1. held \subseteq Nat
    BY Positions
  <2>2. FirstOf(held) \in held
    BY <1>1, <2>1, FirstFound
  <2>3. FirstOf(held) \in Fds /\ uiotab[p][FirstOf(held)] # NULL
    BY <2>2 DEF FreeFds
  <2>4. /\ uio_close(uiotab[p][FirstOf(held)])
        /\ uiotab' = [uiotab EXCEPT ![p][FirstOf(held)] = NULL]
        /\ UNCHANGED <<state, juio, leaked>>
        /\ state[p] \in {"user", "exiting"}
    BY <1>1 DEF exit_close, callVars, histVars
  <2> HIDE DEF held
  <2> QED BY <2>3, <2>4, CloseStep
<1>2. CASE held = {}
  <2>1. /\ state' = [state EXCEPT ![p] = "none"]
        /\ UNCHANGED <<opened, uios, uiotab, juio, leaked>>
        /\ state[p] = "exiting"
    BY <1>2 DEF exit_close, callVars, fdVars, histVars
  <2>2. \A y \in Fds : uiotab[p][y] = NULL
    BY <1>2 DEF FreeFds
  <2>3. Moves(NULL)
    BY <2>1 DEF Moves
  <2>4. UiosKept
    BY <2>3, MovesKeep DEF DevInv
  <2>0. \A w \in Uios : References(w)' = References(w)
    <3>1. \A x \in Procs : state'[x] = IF x = p THEN "none" ELSE state[x]
      BY <2>1 DEF DevInv, Shapes
    <3>2. \A w : Execs(w)' = Execs(w)
      BY <3>1, <2>1, ExecsKept
    <3> QED BY <3>2, <2>1 DEF References, Holders
  <2>5. /\ uios' = [w \in Uios |-> uios'[w]]
        /\ \A w \in Uios : DOMAIN uios'[w] = Fields
        /\ RefsCounted'
        /\ FlagsKept'
    BY <2>0, <2>1, <2>4, KeptStep DEF DevInv
  <2>6. Shapes'
    BY <2>1, <2>5 DEF DevInv, Shapes
  <2>7. TablesKept'
    BY <2>1, <2>2 DEF DevInv, TablesKept, Shapes
  <2> QED BY <2>5, <2>6, <2>7 DEF DevInv
<1> QED BY <1>1, <1>2

---------------------------------------------------------------------------
(* Duplicating and forking.                                                *)

LEMMA DupStep ==
  ASSUME DevInv, NEW p \in Procs, NEW oldfd \in Fds, NEW newfd \in Fds,
         sysuiodup(p, oldfd, newfd)
  PROVE  DevInv'
<1>1. Shapes /\ RefsCounted /\ TablesKept /\ FlagsKept
  BY DEF DevInv
<1>2. PICK u \in Uios : u = uiotab[p][oldfd]
  BY <1>1 DEF sysuiodup, Shapes
<1>3. /\ uiotab' = [uiotab EXCEPT ![p][newfd] = u]
      /\ uios' = [uios EXCEPT ![u].refcnt = @ + 1]
      /\ UNCHANGED <<opened, state, juio, leaked>>
      /\ uiotab[p][newfd] = NULL /\ state[p] = "user"
  BY <1>2 DEF sysuiodup, devVars, callVars, histVars, User
<1>4. /\ uiotab' \in [Procs -> [Fds -> Uios \cup {NULL}]]
      /\ Cardinality(Holders(u))' = Cardinality(Holders(u)) + 1
      /\ \A v \in Uios : v # u => Cardinality(Holders(v))' = Cardinality(Holders(v))
  BY <1>1, <1>3, PutDescriptor
<1>5. \A w \in Uios : uios'[w] = IF w = u
        THEN [uios[w] EXCEPT !.refcnt = uios[w].refcnt + 1] ELSE uios[w]
  BY <1>1, <1>3 DEF Shapes
<1>6. \A w \in Uios : LET x == [uios[w] EXCEPT !.refcnt = uios[w].refcnt + 1] IN
        /\ DOMAIN x = Fields /\ x.refcnt = uios[w].refcnt + 1
        /\ x.kind = uios[w].kind /\ x.dev = uios[w].dev
  BY <1>1 DEF Shapes, Fields
<1>7. RefsCounted'
  <2>1. \A w \in Uios : Execs(w)' = Execs(w) /\ leaked'[w] = leaked[w]
    BY <1>3 DEF Execs
  <2>2. References(u)' = References(u) + 1
    BY <2>1, <1>1, <1>4, HoldersFinite, ExecsFinite DEF References, Shapes
  <2>3. \A w \in Uios : w # u => References(w)' = References(w)
    BY <2>1, <1>4 DEF References
  <2> SUFFICES ASSUME NEW w \in Uios PROVE uios'[w].refcnt = References(w)'
    BY DEF RefsCounted
  <2>4. CASE w = u
    BY <2>4, <2>2, <1>1, <1>5, <1>6 DEF RefsCounted
  <2>5. CASE w # u
    BY <2>5, <2>3, <1>1, <1>5 DEF RefsCounted
  <2> QED BY <2>4, <2>5
<1>8. Shapes'
  <2>1. uios' = [w \in Uios |-> uios'[w]]
    BY <1>1, <1>3 DEF Shapes
  <2>2. \A w \in Uios : DOMAIN uios'[w] = Fields
    BY <1>1, <1>5, <1>6 DEF Shapes
  <2> QED BY <2>1, <2>2, <1>1, <1>3, <1>4 DEF Shapes
<1>9. TablesKept'
  <2>1. \A x \in Procs : x # p => uiotab'[x] = uiotab[x]
    BY <1>1, <1>3 DEF Shapes
  <2> QED BY <2>1, <1>1, <1>3, TablesStep
<1>10. FlagsKept'
  <2>1. \A w \in Uios : uios'[w].kind = uios[w].kind /\ uios'[w].dev = uios[w].dev
    BY <1>5, <1>6
  <2>2. \A w \in Uios, d \in Disks : IsOn(w, d)' <=> IsOn(w, d)
    BY <2>1 DEF IsOn
  <2>3. opened' = opened
    BY <1>3
  <2> QED BY <2>1, <2>2, <2>3, <1>1 DEF FlagsKept
<1> QED BY <1>7, <1>8, <1>9, <1>10 DEF DevInv

LEMMA RefsNat ==
  ASSUME NEW p, NEW u
  PROVE  Refs(p, u) \in Nat
<1>1. IsFiniteSet({fd \in Fds : uiotab[p][fd] = u})
  BY FdsFinite, FS_Subset
<1> QED BY <1>1, FS_CardinalityType DEF Refs

LEMMA ForkStep ==
  ASSUME DevInv, NEW p \in Procs, NEW q \in Procs, fork(p, q)
  PROVE  DevInv'
<1>1. Shapes /\ RefsCounted /\ TablesKept /\ FlagsKept
  BY DEF DevInv
<1>2. /\ state' = [state EXCEPT ![q] = "user"]
      /\ uiotab' = [uiotab EXCEPT ![q] = uiotab[p]]
      /\ uios' = [u \in Uios |-> [uios[u] EXCEPT !.refcnt = @ + Refs(p, u)]]
      /\ UNCHANGED <<opened, juio, leaked>>
      /\ state[p] = "user" /\ state[q] = "none"
  BY DEF fork, devVars, callVars, histVars, User
<1>3. p # q /\ \A fd \in Fds : uiotab[q][fd] = NULL
  BY <1>1, <1>2 DEF TablesKept
<1>4. /\ uiotab' \in [Procs -> [Fds -> Uios \cup {NULL}]]
      /\ \A v \in Uios : Cardinality(Holders(v))' = Cardinality(Holders(v)) + Refs(p, v)
  BY <1>1, <1>2, <1>3, CopyDescriptors
<1>5. \A w \in Uios : uios'[w] = [uios[w] EXCEPT !.refcnt = uios[w].refcnt + Refs(p, w)]
  BY <1>2
<1>6. \A w \in Uios : /\ DOMAIN uios'[w] = Fields
                      /\ uios'[w].refcnt = uios[w].refcnt + Refs(p, w)
                      /\ uios'[w].kind = uios[w].kind /\ uios'[w].dev = uios[w].dev
  BY <1>1, <1>5 DEF Shapes, Fields
<1>7. RefsCounted'
  <2>1. \A x \in Procs : state'[x] = IF x = q THEN "user" ELSE state[x]
    BY <1>1, <1>2 DEF Shapes
  <2>2. \A w : Execs(w)' = Execs(w)
    BY <2>1, <1>2, ExecsKept
  <2>3. \A w \in Uios : References(w)' = References(w) + Refs(p, w)
    BY <2>2, <1>1, <1>2, <1>4, RefsNat, HoldersFinite, ExecsFinite DEF References, Shapes
  <2> QED BY <2>3, <1>1, <1>6 DEF RefsCounted
<1>8. Shapes'
  <2>1. uios' = [w \in Uios |-> uios'[w]]
    BY <1>2
  <2> QED BY <2>1, <1>1, <1>2, <1>4, <1>6 DEF Shapes
<1>9. TablesKept'
  <2>1. \A x \in Procs, y \in Fds :
          uiotab'[x][y] = IF x = q THEN uiotab[p][y] ELSE uiotab[x][y]
    BY <1>1, <1>2 DEF Shapes
  <2>2. \A x \in Procs : state'[x] = IF x = q THEN "user" ELSE state[x]
    BY <1>1, <1>2 DEF Shapes
  <2>3. \A x \in Procs : state'[x] = "none" => \A y \in Fds : uiotab'[x][y] = NULL
    BY <2>1, <2>2, <1>1 DEF TablesKept
  <2>4. \A x \in Procs : juio'[x] # NULL => x # q
    BY <1>1, <1>2 DEF TablesKept
  <2> QED BY <2>1, <2>2, <2>3, <2>4, <1>1, <1>2 DEF TablesKept
<1>10. FlagsKept'
  <2>1. \A w \in Uios, d \in Disks : IsOn(w, d)' <=> IsOn(w, d)
    BY <1>6 DEF IsOn
  <2>2. opened' = opened
    BY <1>2
  <2> QED BY <2>1, <2>2, <1>1, <1>6 DEF FlagsKept
<1> QED BY <1>7, <1>8, <1>9, <1>10 DEF DevInv

(* A fork that fails.                                                      *)
LEMMA ForkFailsStep ==
  ASSUME DevInv, NEW p \in Procs, fork_fails(p)
  PROVE  DevInv'
<1>1. Shapes /\ RefsCounted /\ TablesKept /\ FlagsKept
  BY DEF DevInv
<1>2. /\ uios' = [u \in Uios |-> [uios[u] EXCEPT !.refcnt = @ + Refs(p, u)]]
      /\ leaked' = [u \in Uios |-> leaked[u] + Refs(p, u)]
      /\ UNCHANGED <<opened, uiotab, state, juio>>
  BY DEF fork_fails, devVars, callVars
<1>3. \A w \in Uios : uios'[w] = [uios[w] EXCEPT !.refcnt = uios[w].refcnt + Refs(p, w)]
  BY <1>2
<1>4. \A w \in Uios : /\ DOMAIN uios'[w] = Fields
                      /\ uios'[w].refcnt = uios[w].refcnt + Refs(p, w)
                      /\ uios'[w].kind = uios[w].kind /\ uios'[w].dev = uios[w].dev
  BY <1>1, <1>3 DEF Shapes, Fields
<1>5. RefsCounted'
  <2>1. \A w \in Uios : Execs(w)' = Execs(w) /\ Holders(w)' = Holders(w)
    BY <1>2 DEF Execs, Holders
  <2>2. \A w \in Uios : leaked'[w] = leaked[w] + Refs(p, w)
    BY <1>2
  <2>3. \A w \in Uios : References(w)' = References(w) + Refs(p, w)
    BY <2>1, <2>2, <1>1, RefsNat, HoldersFinite, ExecsFinite DEF References, Shapes
  <2> QED BY <2>3, <1>1, <1>4 DEF RefsCounted
<1>6. Shapes'
  <2>1. uios' = [w \in Uios |-> uios'[w]]
    BY <1>2
  <2>2. leaked' \in [Uios -> Nat]
    BY <1>1, <1>2, RefsNat DEF Shapes
  <2> QED BY <2>1, <2>2, <1>1, <1>2, <1>4 DEF Shapes
<1>7. TablesKept'
  BY <1>1, <1>2 DEF TablesKept
<1>8. FlagsKept'
  <2>1. \A w \in Uios, d \in Disks : IsOn(w, d)' <=> IsOn(w, d)
    BY <1>4 DEF IsOn
  <2>2. opened' = opened
    BY <1>2
  <2> QED BY <2>1, <2>2, <1>1, <1>4 DEF FlagsKept
<1> QED BY <1>5, <1>6, <1>7, <1>8 DEF DevInv

---------------------------------------------------------------------------
(* An exec takes its file out of the table, for good when it fails early.  *)

LEMMA ExecStep ==
  ASSUME DevInv, NEW p \in Procs, NEW f \in Fds, sysexec(p, f) \/ sysexec_fails(p, f)
  PROVE  DevInv'
<1>1. Shapes /\ RefsCounted /\ TablesKept /\ FlagsKept
  BY DEF DevInv
<1>2. /\ state[p] = "user" /\ uiotab[p][f] # NULL
      /\ uiotab' = [uiotab EXCEPT ![p][f] = NULL]
      /\ UNCHANGED <<opened, uios>>
  BY DEF sysexec, sysexec_fails, devVars, User
<1>3. PICK u \in Uios : u = uiotab[p][f]
  BY <1>1, <1>2 DEF Shapes
<1>4. /\ uiotab' \in [Procs -> [Fds -> Uios \cup {NULL}]]
      /\ Cardinality(Holders(u))' = Cardinality(Holders(u)) - 1
      /\ \A v \in Uios : v # u => Cardinality(Holders(v))' = Cardinality(Holders(v))
  BY <1>1, <1>2, <1>3, DropDescriptor
<1>5. UiosKept
  <2>1. Moves(NULL)
    BY <1>2 DEF Moves
  <2> QED BY <2>1, <1>1, MovesKeep
<1>6. \A x \in Procs : x # p => uiotab'[x] = uiotab[x]
  BY <1>1, <1>2 DEF Shapes
<1>7. juio[p] = NULL
  BY <1>1, <1>2 DEF TablesKept
<1>8. CASE sysexec(p, f)
  <2>1. /\ state' = [state EXCEPT ![p] = "exec"] /\ juio' = [juio EXCEPT ![p] = u]
        /\ leaked' = leaked
    BY <1>3, <1>8 DEF sysexec
  <2>2. /\ \A x \in Procs : state'[x] = IF x = p THEN "exec" ELSE state[x]
        /\ \A x \in Procs : juio'[x] = IF x = p THEN u ELSE juio[x]
        /\ state' \in [Procs -> {"none", "user", "call", "exec", "exiting"}]
        /\ juio' \in [Procs -> Uios \cup {NULL}]
    BY <2>1, <1>1 DEF Shapes
  <2>3. /\ Cardinality(Execs(u))' = Cardinality(Execs(u)) + 1
        /\ \A v : v # u => Cardinality(Execs(v))' = Cardinality(Execs(v))
    BY <1>1, <1>2, <2>2, PutExec
  <2>4. \A w \in Uios : References(w)' = References(w)
    <3> SUFFICES ASSUME NEW w \in Uios PROVE References(w)' = References(w)
      OBVIOUS
    <3>1. CASE w = u
      BY <3>1, <2>1, <2>3, <1>1, <1>4, HoldersFinite, ExecsFinite DEF References, Shapes
    <3>2. CASE w # u
      BY <3>2, <2>1, <2>3, <1>4 DEF References
    <3> QED BY <3>1, <3>2
  <2>5. /\ uios' = [w \in Uios |-> uios'[w]]
        /\ \A w \in Uios : DOMAIN uios'[w] = Fields
        /\ RefsCounted'
        /\ FlagsKept'
    BY <2>4, <1>1, <1>2, <1>5, KeptStep
  <2>6. Shapes'
    BY <2>1, <2>2, <2>5, <1>1, <1>2, <1>4 DEF Shapes
  <2>7. TablesKept'
    BY <2>2, <1>1, <1>6, Positions DEF TablesKept
  <2> QED BY <2>5, <2>6, <2>7 DEF DevInv
<1>9. CASE sysexec_fails(p, f)
  <2>1. /\ state' = [state EXCEPT ![p] = "exiting"] /\ juio' = juio
        /\ leaked' = [leaked EXCEPT ![u] = @ + 1]
    BY <1>3, <1>9 DEF sysexec_fails, callVars
  <2>2. /\ \A x \in Procs : state'[x] = IF x = p THEN "exiting" ELSE state[x]
        /\ state' \in [Procs -> {"none", "user", "call", "exec", "exiting"}]
        /\ \A w \in Uios : leaked'[w] = IF w = u THEN leaked[w] + 1 ELSE leaked[w]
        /\ leaked' \in [Uios -> Nat]
    BY <2>1, <1>1 DEF Shapes
  <2>3. \A w : Execs(w)' = Execs(w)
    BY <2>1, <2>2, <1>2, ExecsKept
  <2>4. \A w \in Uios : References(w)' = References(w)
    <3> SUFFICES ASSUME NEW w \in Uios PROVE References(w)' = References(w)
      OBVIOUS
    <3>1. CASE w = u
      BY <3>1, <2>2, <2>3, <1>1, <1>4, HoldersFinite, ExecsFinite DEF References, Shapes
    <3>2. CASE w # u
      BY <3>2, <2>2, <2>3, <1>4 DEF References
    <3> QED BY <3>1, <3>2
  <2>5. /\ uios' = [w \in Uios |-> uios'[w]]
        /\ \A w \in Uios : DOMAIN uios'[w] = Fields
        /\ RefsCounted'
        /\ FlagsKept'
    BY <2>4, <1>1, <1>2, <1>5, KeptStep
  <2>6. Shapes'
    BY <2>1, <2>2, <2>5, <1>1, <1>2, <1>4 DEF Shapes
  <2>7. TablesKept'
    BY <2>1, <2>2, <1>1, <1>6, <1>7 DEF TablesKept
  <2> QED BY <2>5, <2>6, <2>7 DEF DevInv
<1> QED BY <1>8, <1>9

---------------------------------------------------------------------------
(* The theorems.                                                           *)

LEMMA DevInit == Init => DevInv
<1> SUFFICES ASSUME Init PROVE DevInv
  OBVIOUS
<1>1. NoUio.refcnt = 0 /\ NoUio.kind = "none" /\ DOMAIN NoUio = Fields
  BY DEF NoUio, Fields
<1>2. \A u \in Uios : uios[u] = NoUio
  BY DEF Init
<1>3. \A p \in Procs, fd \in Fds : uiotab[p][fd] = NULL
  BY DEF Init
<1>4. Shapes
  <2>1. uios = [u \in Uios |-> uios[u]]
    BY DEF Init
  <2>2. opened \in [Devs -> BOOLEAN]
    BY DEF Init
  <2> QED BY <1>1, <1>2, <2>1, <2>2 DEF Shapes, Init
<1>5. RefsCounted
  <2>1. \A u \in Uios : Cardinality(Holders(u)) = 0
    BY <1>3, HeldCount, Positions
  <2>2. \A u \in Uios : Execs(u) = {}
    BY DEF Execs, Init
  <2>3. \A u \in Uios : References(u) = 0
    <3>1. \A u \in Uios : leaked[u] = 0
      BY DEF Init
    <3>2. \A u \in Uios : Cardinality(Execs(u)) = 0
      BY <2>2, FS_EmptySet
    <3> QED BY <2>1, <3>1, <3>2 DEF References
  <2> QED BY <1>1, <1>2, <2>3 DEF RefsCounted
<1>6. TablesKept
  BY <1>3 DEF TablesKept, Init
<1>7. FlagsKept
  <2>1. \A u \in Uios, d \in Disks : ~IsOn(u, d)
    BY <1>1, <1>2 DEF IsOn
  <2>2. \A d \in Disks : opened[d] <=> d \in KernelHeld
    BY Positions DEF Init
  <2>3. \A u \in Uios : uios[u].kind # "storage"
    BY <1>1, <1>2
  <2> QED BY <2>1, <2>2, <2>3 DEF FlagsKept
<1> QED BY <1>4, <1>5, <1>6, <1>7 DEF DevInv

LEMMA DevStep == DevInv /\ [Next]_vars => DevInv'
<1> SUFFICES ASSUME DevInv, [Next]_vars PROVE DevInv'
  OBVIOUS
<1>1. CASE UNCHANGED vars
  <2>1. UNCHANGED <<opened, uios, uiotab, state, juio, leaked>>
    BY <1>1 DEF vars
  <2>2. Moves(NULL)
    BY <2>1 DEF Moves
  <2> QED BY <2>1, <2>2, MovingStep
<1>2. CASE Next
  <2>1. PICK p \in Procs :
          \/ \E fd \in Fds \cup {-1}, path \in Paths : sysopen(p, fd, path)
          \/ \E fd \in Fds : \/ sysclose(p, fd)
                             \/ listing_read(p, fd)
                             \/ \E to \in Fds : sysuiodup(p, fd, to)
                             \/ \E n \in 1 .. MaxLen : sysread(p, fd, n)
                             \/ \E w \in Messages : syswrite(p, fd, w)
                             \/ \E pos \in 0 .. DISKSZ : storage_uio_cntl(p, fd, pos)
                             \/ sysexec(p, fd) \/ sysexec_fails(p, fd)
          \/ \E q \in Procs : fork(p, q)
          \/ fork_fails(p) \/ exit(p) \/ exit_close(p)
          \/ elf_load(p) \/ process_exec_ends(p)
          \/ unaligned_fetch(p) \/ aligned_fetch(p)
          \/ unaligned_load(p) \/ unaligned_store(p) \/ aligned_store(p)
          \/ serial_uio_read(p) \/ serial_uio_write(p) \/ leaves(p)
    BY <1>2 DEF Next
  <2>2. CASE \E fd \in Fds \cup {-1}, path \in Paths : sysopen(p, fd, path)
    BY <2>2, OpenStep
  <2>3. ASSUME NEW fd \in Fds, sysclose(p, fd) PROVE DevInv'
    <3>1. /\ uiotab[p][fd] # NULL /\ state[p] \in {"user", "exiting"}
          /\ uio_close(uiotab[p][fd]) /\ uiotab' = [uiotab EXCEPT ![p][fd] = NULL]
          /\ UNCHANGED <<state, juio, leaked>>
      BY <2>3 DEF sysclose, User, callVars, histVars
    <3> QED BY <3>1, CloseStep
  <2>4. ASSUME NEW fd \in Fds, listing_read(p, fd) PROVE DevInv'
    BY <2>4, PositionStep
  <2>5. ASSUME NEW fd \in Fds, NEW to \in Fds, sysuiodup(p, fd, to) PROVE DevInv'
    BY <2>5, DupStep
  <2>6. ASSUME NEW fd \in Fds, NEW n, sysread(p, fd, n) PROVE DevInv'
    BY <2>6, StartStep DEF sysread
  <2>7. ASSUME NEW fd \in Fds, NEW w, syswrite(p, fd, w) PROVE DevInv'
    BY <2>7, StartStep DEF syswrite
  <2>8. ASSUME NEW fd \in Fds, NEW pos, storage_uio_cntl(p, fd, pos) PROVE DevInv'
    BY <2>8, PositionStep
  <2>9. CASE \E q \in Procs : fork(p, q)
    BY <2>9, ForkStep
  <2>10. CASE exit(p) \/ leaves(p)
    BY <2>10, LeaveStep
  <2>11. CASE exit_close(p)
    BY <2>11, ExitCloseStep
  <2>12. CASE \/ unaligned_fetch(p) \/ aligned_fetch(p)
              \/ unaligned_load(p) \/ unaligned_store(p) \/ aligned_store(p)
              \/ serial_uio_read(p) \/ serial_uio_write(p)
    BY <2>12, CallStep
  <2>13. ASSUME NEW fd \in Fds, sysexec(p, fd) \/ sysexec_fails(p, fd) PROVE DevInv'
    BY <2>13, ExecStep
  <2>14. CASE fork_fails(p)
    BY <2>14, ForkFailsStep
  <2>15. CASE elf_load(p)
    BY <2>15, LoadStep
  <2>16. CASE process_exec_ends(p)
    BY <2>16, ExecEndsStep
  <2> QED BY <2>1, <2>2, <2>3, <2>4, <2>5, <2>6, <2>7, <2>8, <2>9, <2>10, <2>11, <2>12, <2>13, <2>14, <2>15, <2>16
<1> QED BY <1>1, <1>2

(* The counts, the tables and the flags agree in every reachable state.    *)
THEOREM Invariance == Spec => []DevInv
<1>1. Init => DevInv
  BY DevInit
<1>2. DevInv /\ [Next]_vars => DevInv'
  BY DevStep
<1> QED BY <1>1, <1>2, PTL DEF Spec

LEMMA DevInvImplies == DevInv => DevicesHeldOnce
<1> SUFFICES ASSUME DevInv PROVE DevicesHeldOnce
  OBVIOUS
<1>1. Shapes /\ RefsCounted /\ TablesKept /\ FlagsKept
  BY DEF DevInv
<1>2. \A u \in Uios : uios[u].refcnt = References(u)
  BY <1>1 DEF RefsCounted
<1>3. ASSUME NEW p \in Procs, juio[p] # NULL PROVE uios[juio[p]].refcnt > 0
  <2>1. juio[p] \in Uios
    BY <1>1, <1>3 DEF Shapes
  <2>2. (\E q \in Procs, fd \in Fds : uiotab[q][fd] = juio[p]) \/ p \in Execs(juio[p])
    BY <1>1, <1>3 DEF TablesKept, Execs
  <2>3. References(juio[p]) \in Nat \ {0}
    BY <1>1, <2>1, <2>2, Referred
  <2> QED BY <1>2, <2>1, <2>3
<1>4. ASSUME NEW d \in Disks
      PROVE  LET users == {u \in Uios : uios[u].kind = "storage" /\ uios[u].dev = d} IN
               /\ opened[d] <=> (d \in KernelHeld \/ users # {})
               /\ Cardinality(users) + (IF d \in KernelHeld THEN 1 ELSE 0) <= 1
  <2> DEFINE users == {u \in Uios : uios[u].kind = "storage" /\ uios[u].dev = d}
  <2>1. users # {} <=> \E u \in Uios : IsOn(u, d)
    BY DEF IsOn
  <2>2. opened[d] <=> (d \in KernelHeld \/ users # {})
    BY <1>1, <2>1 DEF FlagsKept
  <2>3. d \in KernelHeld => users = {}
    BY <1>1 DEF FlagsKept
  <2>4. users = {} \/ \E u : users = {u}
    <3>1. \A u, v \in users : u = v
      BY <1>1 DEF FlagsKept, IsOn
    <3> HIDE DEF users
    <3> QED BY <3>1
  <2>5. Cardinality(users) = 0 \/ (Cardinality(users) = 1 /\ users # {})
    <3> HIDE DEF users
    <3> QED BY <2>4, FS_EmptySet, FS_Singleton
  <2>6. Cardinality(users) + (IF d \in KernelHeld THEN 1 ELSE 0) <= 1
    <3> HIDE DEF users
    <3>1. CASE users = {}
      BY <3>1, FS_EmptySet
    <3>2. CASE users # {}
      BY <3>2, <2>3, <2>5
    <3> QED BY <3>1, <3>2
  <2> QED BY <2>2, <2>6
<1> QED BY <1>2, <1>3, <1>4 DEF DevicesHeldOnce, References

(* The count of a uio is that of the descriptors and execs that refer to   *)
(* it and of the references that failed forks and execs leave, no call     *)
(* runs on a freed uio and a storage device is open for exactly one user,  *)
(* for every number of processes and descriptors and every list of devices *)
(* (uio.c:80-96, device.c:710-716, process.c:204-231).                     *)
THEOREM DevicesAlwaysHeldOnce == Spec => []DevicesHeldOnce
BY Invariance, DevInvImplies, PTL
=============================================================================
