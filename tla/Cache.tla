------------------------------- MODULE Cache -------------------------------
(***************************************************************************)
(* The block cache (sys/cache.c): a move-to-front list of nodes pinned by  *)
(* reference counts, write-back on eviction and on flush.                  *)
(*                                                                         *)
(* Every operation holds cache->lock from its first to its last step and   *)
(* the storage device puts the caller to sleep, so other threads run while *)
(* a node is fetched or stored; they block on the lock, but a thread that  *)
(* holds a block writes to it at any time.  The device takes its copy of a *)
(* block at one moment of the store (vioblk copies it into its buffer).    *)
(*                                                                         *)
(* A storage operation returns 512, 0 for the block right behind the end   *)
(* of the device, -EINVAL for the ones behind it, and -EIO whenever the    *)
(* device reports a failure.  The cache takes the negative results for     *)
(* success (see Short).  kcalloc never returns NULL (it panics), so the    *)
(* cache's -ENOMEM path is dead.                                           *)
(***************************************************************************)
EXTENDS Integers, Sequences, FiniteSets, SequencesExt

CONSTANTS
  Thr,          (* threads using the cache                                   *)
  Blocks,       (* block numbers                                             *)
  Stored,       (* the blocks within the device's capacity                   *)
  Beyond,       (* the blocks whose position is greater than the capacity    *)
  Values,       (* block contents                                            *)
  ZERO,         (* the contents of a node fresh from kcalloc                 *)
  NNODES,       (* CACHE_MAX_NODES                                           *)
  Slots,        (* bound: block pointers a thread holds at once              *)
  NoThread, NoBlock

ASSUME NodesAssumption == NNODES \in Nat \ {0}
ASSUME StoredAssumption ==
  Stored \subseteq Blocks /\ Beyond \subseteq Blocks \ Stored /\ NoBlock \notin Blocks
ASSUME ValuesAssumption == ZERO \in Values
ASSUME ThreadAssumption == NoThread \notin Thr
ASSUME HoldersAssumption == IsFiniteSet(Thr) /\ IsFiniteSet(Slots)

CACHE_BLKSZ == 512
EINVAL == 1
EIO == 4

VARIABLES
  disk,         (* what the device holds                                     *)
  list,         (* the nodes' block numbers, from cache->head to cache->tail *)
  data, dirty, refcnt,     (* of the node of a listed block                  *)
  lock,         (* cache->lock's owner                                       *)
  pc,           (* where each thread stands                                  *)
  arg,          (* the block its get is fetching                             *)
  pin, wrote,   (* the blocks it holds, and whether it wrote to them         *)
  copy,         (* the device's buffer during its store                      *)
  curr,         (* cache_flush's position in the list                        *)
  refused       (* history: blocks whose last transfer only seems done       *)

nodeVars == <<list, data, dirty, refcnt>>
pinVars  == <<pin, wrote>>
vars == <<disk, list, data, dirty, refcnt, lock, pc, arg, pin, wrote, copy, curr, refused>>

Init ==
  /\ disk \in {d \in [Blocks -> Values] : \A b \in Blocks \ Stored : d[b] = ZERO}
  /\ list = <<>>
  /\ data = [b \in Blocks |-> ZERO]
  /\ dirty = [b \in Blocks |-> FALSE]
  /\ refcnt = [b \in Blocks |-> 0]
  /\ lock = NoThread
  /\ pc = [t \in Thr |-> "user"]
  /\ arg = [t \in Thr |-> NoBlock]
  /\ pin = [t \in Thr |-> [s \in Slots |-> NoBlock]]
  /\ wrote = [t \in Thr |-> [s \in Slots |-> FALSE]]
  /\ copy = [t \in Thr |-> NoBlock]
  /\ curr = [t \in Thr |-> 0]
  /\ refused = {}

---------------------------------------------------------------------------
(* Helpers.                                                                *)

At(t, p) == pc[t] = p
Goto(t, p) == pc' = [pc EXCEPT ![t] = p]

Cached(b) == \E i \in DOMAIN list : list[i] = b
Position(b) == CHOOSE i \in DOMAIN list : list[i] = b
WithoutBlock(b) == RemoveAt(list, Position(b))

(* The results of a storage operation on block b.                          *)
IoResult(b) ==
  IF b \in Stored THEN {CACHE_BLKSZ, -EIO} ELSE IF b \in Beyond THEN {-EINVAL} ELSE {0}

(* The cache's test for a failed transfer: CACHE_BLKSZ is an unsigned long,*)
(* so a negative result is converted to a number far above it.             *)
Short(r) == 0 <= r /\ r < CACHE_BLKSZ

(* Whether the device did what the cache takes for done.                   *)
Note(b, r) ==
  refused' = IF r = CACHE_BLKSZ THEN refused \ {b}
             ELSE IF Short(r) THEN refused ELSE refused \cup {b}

(* The first slot of t that holds nothing.                                 *)
FreeSlots(t) == {s \in Slots : pin[t][s] = NoBlock}
FreeSlot(t) == CHOOSE s \in FreeSlots(t) : TRUE

(* Every return path releases the lock.                                    *)
Return(t) == /\ Goto(t, "user")
             /\ lock' = NoThread
             /\ arg' = [arg EXCEPT ![t] = NoBlock]

(* Faults: the lock is dropped for the time of the transfer; the release   *)
(* of a block does not take it.                                            *)
LockDuring_Not(t) == NoThread
MayRelease_Unlocked == TRUE

(* The lock's owner while t waits for the device.                          *)
LockDuring(t) == t

(* cache_release_block needs the lock.                                     *)
MayRelease == lock = NoThread

---------------------------------------------------------------------------
(* cache_get_block.  Before lock_acquire returns a call changes nothing,   *)
(* so a call that waits for the lock is one that has not begun; what it    *)
(* does from there to its first transfer is one step.                      *)

MayGet(t) == At(t, "user") /\ FreeSlots(t) # {} /\ lock = NoThread

(* t goes to the device for block b.                                       *)
Sleep(t, b, p) == /\ Goto(t, p)
                  /\ arg' = [arg EXCEPT ![t] = b]

Pin(t, b) == /\ pin' = [pin EXCEPT ![t][FreeSlot(t)] = b]
             /\ wrote' = [wrote EXCEPT ![t][FreeSlot(t)] = FALSE]

(* A hit moves the node to the front and pins it.                          *)
get_hit(t, b) ==
  /\ MayGet(t)
  /\ Cached(b)
  /\ refcnt' = [refcnt EXCEPT ![b] = @ + 1]
  /\ list' = <<b>> \o WithoutBlock(b)
  /\ Pin(t, b)
  /\ UNCHANGED <<disk, data, dirty, lock, pc, arg, copy, curr, refused>>

(* Fault: the tail is the victim even if it is pinned.                     *)
Evictable_Any == DOMAIN list

(* The nodes that may be evicted; the victim is the one nearest the tail.  *)
Evictable == {i \in DOMAIN list : refcnt[list[i]] = 0}
IsVictim(v) == \E i \in Evictable : list[i] = v /\ \A j \in Evictable : j <= i

(* What the device writes for block b.                                     *)
Buffered(b) == data[b]

(* A miss with the cache not full goes to the device ...                   *)
get_miss(t, b) ==
  /\ MayGet(t)
  /\ ~Cached(b) /\ Len(list) # NNODES
  /\ lock' = LockDuring(t)
  /\ Sleep(t, b, "fetch")
  /\ UNCHANGED <<disk, nodeVars, pinVars, copy, curr, refused>>

(* ... when it is full and everything is pinned it fails ...               *)
get_busy(t, b) ==
  /\ MayGet(t)
  /\ ~Cached(b) /\ Len(list) = NNODES
  /\ Evictable = {}
  /\ UNCHANGED vars

(* The victim v is unlinked and freed.                                     *)
Drop(v) == /\ list' = WithoutBlock(v)
           /\ data' = [data EXCEPT ![v] = ZERO]
           /\ dirty' = [dirty EXCEPT ![v] = FALSE]

(* ... a clean victim is dropped ...                                       *)
get_evict_clean(t, b) ==
  /\ MayGet(t)
  /\ ~Cached(b) /\ Len(list) = NNODES
  /\ \E v \in Blocks : IsVictim(v) /\ ~dirty[v] /\ Drop(v)
  /\ lock' = LockDuring(t)
  /\ Sleep(t, b, "fetch")
  /\ UNCHANGED <<disk, refcnt, pinVars, copy, curr, refused>>

(* ... and a dirty one is written back first.                              *)
get_evict_dirty(t, b) ==
  /\ MayGet(t)
  /\ ~Cached(b) /\ Len(list) = NNODES
  /\ \E v \in Blocks : IsVictim(v) /\ dirty[v] /\ copy' = [copy EXCEPT ![t] = Buffered(v)]
  /\ lock' = t
  /\ Sleep(t, b, "evict")
  /\ UNCHANGED <<disk, nodeVars, pinVars, curr, refused>>

(* The device's part of a store by t of block b: done, failed with the     *)
(* sector in any state, or not attempted.                                  *)
StoreResult(t, b, r) ==
  /\ \E x \in IF r = CACHE_BLKSZ THEN {copy[t]} ELSE IF r = -EIO THEN Values ELSE {disk[b]} :
       disk' = [disk EXCEPT ![b] = x]
  /\ copy' = [copy EXCEPT ![t] = NoBlock]
  /\ Note(b, r)

evict_done(t) ==
  /\ At(t, "evict")
  /\ \E v \in Blocks : \E r \in IoResult(v) :
       /\ IsVictim(v)
       /\ StoreResult(t, v, r)
       /\ \/ /\ Short(r)
             /\ Return(t)
             /\ UNCHANGED nodeVars
          \/ /\ ~Short(r)
             /\ Drop(v)
             /\ Goto(t, "fetch")
             /\ UNCHANGED <<refcnt, lock, arg>>
  /\ UNCHANGED <<pinVars, curr>>

(* What a fetch of block b leaves in the node: the block, the zeroes of    *)
(* kcalloc, or what the device's buffer held when it reported a failure.   *)
FetchResult(b, r) ==
  IF r = CACHE_BLKSZ THEN {disk[b]} ELSE IF r = -EIO THEN Values ELSE {ZERO}

(* The new node is at the head, pinned once; a failed one is freed.        *)
fetch_done(t) ==
  LET b == arg[t] IN
  /\ At(t, "fetch")
  /\ \E r \in IoResult(b) :
       /\ Note(b, r)
       /\ \/ /\ Short(r)
             /\ UNCHANGED <<nodeVars, pinVars>>
          \/ /\ ~Short(r)
             /\ \E x \in FetchResult(b, r) : data' = [data EXCEPT ![b] = x]
             /\ list' = <<b>> \o list
             /\ refcnt' = [refcnt EXCEPT ![b] = 1]
             /\ dirty' = [dirty EXCEPT ![b] = FALSE]
             /\ Pin(t, b)
  /\ Return(t)
  /\ UNCHANGED <<disk, copy, curr>>

---------------------------------------------------------------------------
(* The callers' use of a block, and cache_release_block.                   *)

(* A holder writes through its pointer, at any time.                       *)
write_block(t, s, v) ==
  /\ At(t, "user")
  /\ pin[t][s] # NoBlock
  /\ data' = [data EXCEPT ![pin[t][s]] = v]
  /\ wrote' = [wrote EXCEPT ![t][s] = TRUE]
  /\ UNCHANGED <<disk, list, dirty, refcnt, lock, pc, arg, pin, copy, curr, refused>>

(* The caller passes dirty = 1 for a block it wrote to, as cache.c asks.   *)
cache_release_block(t, s) ==
  LET b == pin[t][s] IN
  /\ At(t, "user") /\ b # NoBlock
  /\ MayRelease
  /\ dirty' = [dirty EXCEPT ![b] = @ \/ wrote[t][s]]
  /\ refcnt' = [refcnt EXCEPT ![b] = IF @ > 0 THEN @ - 1 ELSE @]
  /\ pin' = [pin EXCEPT ![t][s] = NoBlock]
  /\ wrote' = [wrote EXCEPT ![t][s] = FALSE]
  /\ UNCHANGED <<disk, list, data, lock, pc, arg, copy, curr, refused>>

---------------------------------------------------------------------------
(* cache_flush.                                                            *)

cache_flush(t) ==
  /\ At(t, "user") /\ lock = NoThread
  /\ lock' = t
  /\ curr' = [curr EXCEPT ![t] = 1]
  /\ Goto(t, "flush_loop")
  /\ UNCHANGED <<disk, nodeVars, arg, pinVars, copy, refused>>

(* Fault: the loop starts at the second node.                              *)
NextDirty_Second(t) ==
  CHOOSE i \in curr[t] + 1 .. Len(list) + 2 :
    /\ i <= Len(list) => dirty[list[i]]
    /\ \A j \in curr[t] + 1 .. i - 1 : j <= Len(list) => ~dirty[list[j]]

(* The position of the next dirty node of the loop, Len(list) + 1 if none. *)
NextDirty(t) ==
  CHOOSE i \in curr[t] .. Len(list) + 1 :
    /\ i <= Len(list) => dirty[list[i]]
    /\ \A j \in curr[t] .. i - 1 : ~dirty[list[j]]

(* The device copies the next dirty node.                                  *)
flush_store(t) ==
  /\ At(t, "flush_loop")
  /\ NextDirty(t) <= Len(list)
  /\ curr' = [curr EXCEPT ![t] = NextDirty(t)]
  /\ copy' = [copy EXCEPT ![t] = Buffered(list[NextDirty(t)])]
  /\ Goto(t, "flush_store")
  /\ UNCHANGED <<disk, nodeVars, lock, arg, pinVars, refused>>

(* Its answer ends the flush or cleans the node.                           *)
flush_stored(t) ==
  LET b == list[curr[t]] IN
  /\ At(t, "flush_store")
  /\ \E r \in IoResult(b) :
       /\ StoreResult(t, b, r)
       /\ \/ /\ Short(r)
             /\ Return(t)
             /\ curr' = [curr EXCEPT ![t] = 0]
             /\ UNCHANGED dirty
          \/ /\ ~Short(r)
             /\ dirty' = [dirty EXCEPT ![b] = FALSE]
             /\ curr' = [curr EXCEPT ![t] = @ + 1]
             /\ Goto(t, "flush_loop")
             /\ UNCHANGED <<lock, arg>>
  /\ UNCHANGED <<list, data, refcnt, pinVars>>

flush_end(t) ==
  /\ At(t, "flush_loop")
  /\ NextDirty(t) > Len(list)
  /\ curr' = [curr EXCEPT ![t] = 0]
  /\ Return(t)
  /\ UNCHANGED <<disk, nodeVars, pinVars, copy, refused>>

(* A call, up to its first transfer ...                                    *)
cache_get_block(t, b) ==
  \/ get_hit(t, b) \/ get_miss(t, b) \/ get_busy(t, b)
  \/ get_evict_clean(t, b) \/ get_evict_dirty(t, b)

Call(t) ==
  \/ \E b \in Blocks : cache_get_block(t, b)
  \/ \E s \in Slots : cache_release_block(t, s)
  \/ \E s \in Slots, v \in Values : write_block(t, s, v)
  \/ cache_flush(t)

(* ... and its steps with the lock held.                                   *)
Holding(t) ==
  \/ evict_done(t) \/ fetch_done(t)
  \/ flush_store(t) \/ flush_stored(t) \/ flush_end(t)

Next == \E t \in Thr : Call(t) \/ Holding(t)

Spec == Init /\ [][Next]_vars

---------------------------------------------------------------------------
(* Correctness.                                                            *)

(* The pointers held to block b.                                           *)
Holders(b) == {h \in Thr \X Slots : pin[h[1]][h[2]] = b}

(* A block has at most one node and there are never more than              *)
(* CACHE_MAX_NODES, although the list is rebuilt around a sleep: two nodes *)
(* of one block would give two callers different contents.                 *)
NodesDistinct ==
  /\ \A i, j \in DOMAIN list : list[i] = list[j] => i = j
  /\ Len(list) <= NNODES

(* A node's refcnt is the number of pointers callers hold to it, so a held *)
(* pointer never points into a node that was evicted and freed.            *)
PinsCounted ==
  /\ \A b \in Blocks : Cached(b) => refcnt[b] = Cardinality(Holders(b))
  /\ \A t \in Thr, s \in Slots : pin[t][s] # NoBlock => Cached(pin[t][s])

(* A clean node nobody has unreleased writes to equals the block on the    *)
(* device: dropping it loses nothing.  A flush that ran while a holder     *)
(* wrote must not have marked those writes clean.  The device must have    *)
(* done the block's last transfer: a refused store is taken for success    *)
(* and leaves a clean node that is not on the device (cache.c:147, 232).   *)
Modified(b) == \E h \in Holders(b) : wrote[h[1]][h[2]]
CleanOnDisk ==
  \A b \in Blocks \ refused : Cached(b) /\ ~dirty[b] /\ ~Modified(b) => data[b] = disk[b]

content == [b \in Blocks |-> IF Cached(b) THEN data[b] ELSE disk[b]]

Store == INSTANCE BlockStore WITH lost <- refused

(* The cache implements a store in which a block changes only while it is  *)
(* held, through evictions, write-backs, flushes and failed gets, and a    *)
(* transfer the device refused harms no block but its own.                 *)
ImplementsStore == Store!Spec

(* When cache_flush returns 0, every block without unreleased writes is on *)
(* the device as the callers see it, except the ones whose store it        *)
(* refused: cache_flush returns 0 after -EIO and -EINVAL too.              *)
FlushDurable ==
  [][\A t \in Thr : flush_end(t) =>
       \A b \in Blocks \ refused : ~Modified(b) => disk[b] = content[b]]_vars
=============================================================================
