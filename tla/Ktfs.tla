-------------------------------- MODULE Ktfs --------------------------------
(***************************************************************************)
(* The KTFS file system (sys/ktfs.c) on its blocks: bitmaps, inodes with   *)
(* direct, indirect and doubly-indirect blocks, the root directory, and    *)
(* the open files.                                                         *)
(*                                                                         *)
(* Calls are taken one at a time, each as one step: the code has no lock   *)
(* of its own and sleeps in the cache, so this is its behaviour while no   *)
(* second process is inside it, and only that.  A block is a function on   *)
(* its entries: bytes, block numbers or directory entries, whose numbers   *)
(* per block (512, 128 and 32) are all scaled to PER.  A block is not      *)
(* cleared when it is allocated.                                           *)
(*                                                                         *)
(* The block bitmap has a bit for more blocks than the device holds, and   *)
(* nothing compares a block's number with the size of the device.  When    *)
(* the device is full the number goes into the inode all the same.  The    *)
(* first block past the end panics on access: the device returns 0 bytes   *)
(* for it.  For the ones beyond it returns -EINVAL, which the cache takes  *)
(* for a full read: they read as zeros, and what is written to them is     *)
(* lost when they are evicted, index blocks and the directory's included.  *)
(* Nothing is claimed of the file system once that has happened, nor once  *)
(* a deleted file was written through a handle that was still open: the    *)
(* model ends there (fs.state).                                            *)
(***************************************************************************)
EXTENDS Integers, Sequences, FiniteSets, SequencesExt, FiniteSetsExt

CONSTANTS
  Names,        (* file names                                                *)
  Bytes,
  NDIRECT,      (* KTFS_NUM_DIRECT_DATA_BLOCKS, 4                            *)
  NDINDIRECT,   (* KTFS_NUM_DINDIRECT_BLOCKS, 2                              *)
  PER,          (* entries of a block                                        *)
  NBLOCKS,      (* data blocks of the device                                 *)
  NBITS,        (* bits of the block bitmap, enough never to run out         *)
  NINODES,      (* inodes of the device; 0 is the root directory             *)
  Reads,        (* bound: lengths of reads                                   *)
  Writes,       (* bound: lengths of writes                                  *)
  Ends,         (* bound: sizes asked for with FCNTL_SETEND                  *)
  Seeks,        (* bound: positions asked for with FCNTL_SETPOS              *)
  MaxOpen,      (* bound: files and listings open at a time                  *)
  MaxCalls      (* bound: calls that change the device                       *)

Blocks == 0 .. NBLOCKS - 1
Inodes == 0 .. NINODES - 1
Root == 0
Bits == 0 .. NBITS - 1
NoBlock == NBITS                     (* what is read where no number is      *)
MaxBlocks == NDIRECT + PER + NDINDIRECT * PER * PER
MaxSize == MaxBlocks * PER

ASSUME SizesAssumption ==
  /\ NDIRECT \in Nat \ {0} /\ NDINDIRECT \in Nat \ {0}
  /\ PER \in Nat \ {0} /\ NBLOCKS \in Nat \ {0} /\ NBITS \in Nat /\ NBITS >= NBLOCKS
  /\ NINODES \in Nat /\ NINODES > Cardinality(Names)
  /\ Reads \subseteq Nat \ {0} /\ Writes \subseteq Nat \ {0} /\ Ends \subseteq Nat
  /\ Seeks \subseteq Nat /\ MaxOpen \in Nat /\ MaxCalls \in Nat

VARIABLES
  fs,           (* the device: [dbit, ibit, inode, data, state]; state is    *)
                (* "up" until it is "panic", "beyond" or "dangling"          *)
  file,         (* openedFileList: the open file of each name, or Closed;    *)
                (* stale is history: its file was deleted since              *)
  listing,      (* the open listing, or NoListing; torn is history: a file   *)
                (* was deleted since it was opened                           *)
  ret,          (* the bytes the last step read, or the name it listed       *)
  calls         (* calls that changed the device, up to MaxCalls             *)

vars == <<fs, file, listing, ret, calls>>

Closed == [inode |-> Root, pos |-> -1, size |-> 0, stale |-> FALSE]
NoListing == [pos |-> -1, torn |-> FALSE]
Stale   == <<"stale">>               (* what a new image's data blocks hold  *)
Zero    == <<"zero">>                (* what a block past the device reads as *)
Byte(b) == <<"byte", b>>
Blk(b)  == <<"block", b>>
Dent(i, n) == <<"dentry", i, n>>

(* An empty file system, as the image tool makes it.                       *)
Init ==
  /\ fs = [dbit  |-> {}, ibit |-> {Root}, state |-> "up",
           inode |-> [i \in Inodes |->
                        [size |-> 0, block |-> [k \in 0 .. NDIRECT - 1 |-> 0],
                         indirect |-> 0, dindirect |-> [k \in 0 .. NDINDIRECT - 1 |-> 0]]],
           data  |-> [b \in Blocks |-> [k \in 0 .. PER - 1 |-> Stale]]]
  /\ file = [n \in Names |-> Closed]
  /\ listing = NoListing
  /\ ret = <<>>
  /\ calls = 0

---------------------------------------------------------------------------
(* Blocks of an inode.                                                     *)

(* The number in entry i of index block b.                                 *)
Entry(f, b, i) == IF b \in Blocks /\ f.data[b][i][1] = "block" THEN f.data[b][i][2] ELSE NoBlock

(* What getDataBlock does for the blocks of a path, the first that is not  *)
(* on the device deciding.                                                 *)
Access(path) ==
  LET off == SelectSeq(path, LAMBDA b : b \notin Blocks)
  IN IF off = <<>> THEN "up" ELSE IF off[1] = NBLOCKS THEN "panic" ELSE "beyond"

(* The code goes on after a step that ends the model; nothing looks at it. *)
Ended(f, st) == IF f.state = "up" THEN [f EXCEPT !.state = st] ELSE f

PutEntry(f, b, i, v) ==
  IF f.state = "up" /\ b \in Blocks THEN [f EXCEPT !.data[b][i] = v] ELSE Ended(f, Access(<<b>>))

(* Where block k of a file lies behind the doubly-indirect blocks.         *)
Outer(k) == (k - NDIRECT - PER) \div (PER * PER)
Middle(k) == ((k - NDIRECT - PER) % (PER * PER)) \div PER
Inner(k) == ((k - NDIRECT - PER) % (PER * PER)) % PER

InDirect(k) == k < NDIRECT
InIndirect(k) == k >= NDIRECT /\ k < NDIRECT + PER

(* The index blocks on the way to block k of inode nd ...                  *)
IndexBlocks(f, nd, k) ==
  IF InDirect(k) THEN <<>>
  ELSE IF InIndirect(k) THEN <<nd.indirect>>
  ELSE <<nd.dindirect[Outer(k)], Entry(f, nd.dindirect[Outer(k)], Middle(k))>>

(* ... and the block itself.                                               *)
BlockAt(f, nd, k) ==
  IF InDirect(k) THEN nd.block[k]
  ELSE IF InIndirect(k) THEN Entry(f, nd.indirect, k - NDIRECT)
  ELSE Entry(f, Entry(f, nd.dindirect[Outer(k)], Middle(k)), Inner(k))

Path(f, nd, k) == Append(IndexBlocks(f, nd, k), BlockAt(f, nd, k))

---------------------------------------------------------------------------
(* Bitmaps.                                                                *)

(* The lowest clear bit is set.                                            *)
allocateDataBlock(f) ==
  LET b == Min(Bits \ f.dbit) IN [fs |-> [f EXCEPT !.dbit = @ \cup {b}], blk |-> b]

freeDataBlock(f, b) == [f EXCEPT !.dbit = @ \ {b}]

allocateInode(f) == Min(Inodes \ f.ibit)

freeInode(f, i) == [f EXCEPT !.ibit = @ \ {i}]

(* allocateBlockFromInode: block k of inode i, with the index blocks that  *)
(* k is the first to need.                                                 *)
allocateBlockFromInode(f, i, k) ==
  IF InDirect(k)
  THEN LET g == allocateDataBlock(f) IN [g.fs EXCEPT !.inode[i].block[k] = g.blk]
  ELSE IF InIndirect(k)
  THEN LET g1 == allocateDataBlock(f)
           f1 == IF k = NDIRECT THEN [g1.fs EXCEPT !.inode[i].indirect = g1.blk] ELSE f
           g2 == allocateDataBlock(f1)
       IN PutEntry(g2.fs, f1.inode[i].indirect, k - NDIRECT, Blk(g2.blk))
  ELSE LET g1 == allocateDataBlock(f)
           f1 == IF Middle(k) = 0 /\ Inner(k) = 0
                 THEN [g1.fs EXCEPT !.inode[i].dindirect[Outer(k)] = g1.blk] ELSE f
           top == f1.inode[i].dindirect[Outer(k)]
           g2 == allocateDataBlock(f1)
           f2 == IF Inner(k) = 0 THEN PutEntry(g2.fs, top, Middle(k), Blk(g2.blk)) ELSE f1
           g3 == allocateDataBlock(f2)
       IN PutEntry(g3.fs, Entry(f2, top, Middle(k)), Inner(k), Blk(g3.blk))

(* Fault: the indirect block is freed with the last of its blocks.         *)
FirstOf_Last(k) == k = NDIRECT + PER - 1

(* Whether the indirect block goes with block k: blocks are freed from the *)
(* last to the first.                                                      *)
FirstOf(k) == k = NDIRECT

freeBlockFromInode(f, nd, k) ==
  LET f1 == freeDataBlock(f, BlockAt(f, nd, k))
      st == Access(IndexBlocks(f, nd, k)) IN
  IF st # "up" THEN Ended(f, st)
  ELSE IF InDirect(k) THEN f1
  ELSE IF InIndirect(k)
  THEN IF FirstOf(k) THEN freeDataBlock(f1, nd.indirect) ELSE f1
  ELSE LET top == nd.dindirect[Outer(k)]
           f2 == IF Inner(k) = 0 THEN freeDataBlock(f1, Entry(f, top, Middle(k))) ELSE f1
       IN IF Middle(k) = 0 /\ Inner(k) = 0 THEN freeDataBlock(f2, top) ELSE f2

BlocksFor(size) == (size + PER - 1) \div PER

(* changeFileSize for a larger size.                                       *)
changeFileSize(f, h, size) ==
  LET new == IF size < MaxSize THEN size ELSE MaxSize
      grown[k \in BlocksFor(h.size) .. MaxBlocks] ==
        IF k = BlocksFor(h.size) THEN f
        ELSE allocateBlockFromInode(grown[k - 1], h.inode, k - 1)
      last == IF BlocksFor(new) > BlocksFor(h.size) THEN BlocksFor(new) ELSE BlocksFor(h.size)
  IN [grown[last] EXCEPT !.inode[h.inode].size = new]

---------------------------------------------------------------------------
(* The directory.                                                          *)

Count(f) == f.inode[Root].size       (* in directory entries                 *)

(* Directory entry j.                                                      *)
DentAt(f, j) == f.data[BlockAt(f, f.inode[Root], j \div PER)][j % PER]

PutDent(f, j, d) == PutEntry(f, BlockAt(f, f.inode[Root], j \div PER), j % PER, d)

Matches(f, n) == {j \in 0 .. Count(f) - 1 : DentAt(f, j)[3] = n}
Found(f, n) == Matches(f, n) # {}

(* getDentryWithName and getDentryBlockWithName: the first match.          *)
getDentryWithName(f, n) == Min(Matches(f, n))
InodeOf(f, n) == DentAt(f, getDentryWithName(f, n))[2]

Running == fs.state = "up"
Counted == calls < MaxCalls /\ calls' = calls + 1

ktfs_create(n) ==
  LET i == allocateInode(fs)
      j == Count(fs)
      f1 == [fs EXCEPT !.ibit = @ \cup {i}, !.inode[i].size = 0,
                       !.inode[Root].size = @ + 1]
      f2 == IF j % PER = 0 THEN allocateBlockFromInode(f1, Root, j \div PER) ELSE f1
  IN /\ Running /\ Counted /\ ~Found(fs, n)
     /\ fs' = PutDent(f2, j, Dent(i, n))
     /\ ret' = <<>>
     /\ UNCHANGED <<file, listing>>

(* Fault: only the name of the last entry is moved, not its inode.         *)
Moved_NameOnly(f, j) ==
  LET last == Count(f) - 1
      f1 == PutDent(f, j, Dent(DentAt(f, j)[2], DentAt(f, last)[3]))
  IN PutDent(f1, last, Dent(DentAt(f, last)[2], ""))

(* The last entry takes the place of the deleted one, and its name ends.   *)
Moved(f, j) ==
  LET last == Count(f) - 1
      f1 == PutDent(f, j, DentAt(f, last))
  IN PutDent(f1, last, Dent(DentAt(f, last)[2], ""))

(* The file's blocks are freed from the last to the first, then the inode. *)
FreeFile(f, i) ==
  LET nd == f.inode[i]
      n == BlocksFor(nd.size)
      freed[k \in 0 .. n] == IF k = 0 THEN f ELSE freeBlockFromInode(freed[k - 1], nd, n - k)
  IN freeInode(freed[n], i)

(* Nobody looks whether the file is open, or a listing.                    *)
ktfs_delete(n) ==
  LET j == getDentryWithName(fs, n)
      last == Count(fs) - 1
      f1 == Moved(fs, j)
      f2 == IF last % PER = 0 THEN freeBlockFromInode(f1, f1.inode[Root], last \div PER) ELSE f1
      f3 == [f2 EXCEPT !.inode[Root].size = @ - 1]
  IN /\ Running /\ Counted /\ Found(fs, n)
     /\ fs' = FreeFile(f3, InodeOf(fs, n))
     /\ file' = [file EXCEPT ![n].stale = file[n] # Closed]
     /\ listing' = [listing EXCEPT !.torn = listing # NoListing]
     /\ ret' = <<>>

---------------------------------------------------------------------------
(* Open files.                                                             *)

MayOpen == Cardinality({n \in Names : file[n] # Closed}) + (IF listing = NoListing THEN 0 ELSE 1) < MaxOpen

ktfs_open(n) ==
  /\ MayOpen
  /\ Running /\ file[n] = Closed /\ Found(fs, n)
  /\ file' = [file EXCEPT ![n] = [inode |-> InodeOf(fs, n), pos |-> 0, stale |-> FALSE,
                                  size |-> fs.inode[InodeOf(fs, n)].size]]
  /\ ret' = <<>>
  /\ UNCHANGED <<fs, listing, calls>>

ktfs_close(n) ==
  /\ Running /\ file[n] # Closed
  /\ file' = [file EXCEPT ![n] = Closed]
  /\ ret' = <<>>
  /\ UNCHANGED <<fs, listing, calls>>

(* Fault: the first block of a transfer is copied from its beginning.      *)
Chunk_FromZero(pos, len, done) ==
  [start |-> 0, n |-> IF len - done < PER THEN len - done ELSE PER]

(* The part of the current block that the loops of ktfs_fetch and          *)
(* ktfs_store copy when done bytes are done.                               *)
Chunk(pos, len, done) ==
  IF pos \div PER = (pos + len) \div PER
  THEN [start |-> pos % PER, n |-> ((pos + len) % PER) - (pos % PER)]
  ELSE IF done = 0 THEN [start |-> pos % PER, n |-> PER - (pos % PER)]
  ELSE IF len - done < PER THEN [start |-> 0, n |-> len - done]
  ELSE [start |-> 0, n |-> PER]

(* ktfs_fetch's loop: each iteration copies a part of one block.           *)
Fetched(f, nd, pos, len) ==
  LET loop[k \in 0 .. len] ==
        IF k = 0 THEN [out |-> <<>>, panic |-> FALSE]
        ELSE LET s == loop[k - 1]
                 c == Chunk(pos, len, Len(s.out))
                 idx == (pos + Len(s.out)) \div PER
                 b == BlockAt(f, nd, idx)
             IN IF s.panic \/ Len(s.out) >= len THEN s
                ELSE IF Access(Path(f, nd, idx)) = "panic" THEN [s EXCEPT !.panic = TRUE]
                ELSE [s EXCEPT !.out = @ \o [i \in 1 .. c.n |->
                        IF b \in Blocks THEN f.data[b][c.start + i - 1] ELSE Zero]]
  IN loop[len]

Past(h) == h.pos > h.size

(* ktfs_fetch, of at most what is left of the file.                        *)
ktfs_fetch(n, want) ==
  LET h == file[n]
      len == IF h.pos + want > h.size THEN h.size - h.pos ELSE want
      s == Fetched(fs, fs.inode[h.inode], h.pos, len)
  IN /\ Running /\ h # Closed /\ ~Past(h) /\ ~h.stale
     /\ fs' = IF s.panic THEN Ended(fs, "panic") ELSE fs
     /\ IF s.panic THEN UNCHANGED <<file, ret>>
        ELSE /\ file' = [file EXCEPT ![n].pos = @ + Len(s.out)]
             /\ ret' = s.out
     /\ UNCHANGED <<listing, calls>>

(* Past the end of the file the length wraps around: the loop runs through *)
(* whatever blocks the inode names until one of them panics, the copy      *)
(* leaves the caller's buffer, or the largest file is passed: -EINVAL.     *)
fetch_past(n) ==
  /\ Running /\ file[n] # Closed /\ Past(file[n])
  /\ fs' \in {fs, Ended(fs, "panic")}
  /\ ret' = <<>>
  /\ UNCHANGED <<file, listing, calls>>

(* Through the handle of a deleted file: whatever the blocks hold by now   *)
(* that its inode named or names, and no block may be on the device.       *)
fetch_stale(n, want) ==
  LET h == file[n]
      len == IF h.pos + want > h.size THEN h.size - h.pos ELSE want
  IN /\ Running /\ h # Closed /\ ~Past(h) /\ h.stale
     /\ fs' \in {fs, Ended(fs, "panic")}
     /\ file' = [file EXCEPT ![n].pos = @ + len]
     /\ ret' = <<"whatever">>
     /\ UNCHANGED <<listing, calls>>

(* ktfs_store's loop, writing len bytes b; past the largest file it gives  *)
(* up with -EINVAL.                                                        *)
Stored(f, nd, pos, len, b) ==
  LET loop[k \in 0 .. len] ==
        IF k = 0 THEN [fs |-> f, done |-> 0, einval |-> FALSE]
        ELSE LET s == loop[k - 1]
                 c == Chunk(pos, len, s.done)
                 idx == (pos + s.done) \div PER
                 blk == BlockAt(s.fs, nd, idx)
                 st == Access(Path(s.fs, nd, idx))
             IN IF s.fs.state # "up" \/ s.einval \/ s.done >= len THEN s
                ELSE IF idx >= MaxBlocks THEN [s EXCEPT !.einval = TRUE]
                ELSE IF st # "up" THEN [s EXCEPT !.fs = Ended(@, st)]
                ELSE [s EXCEPT !.done = @ + c.n,
                               !.fs.data[blk] = [i \in 0 .. PER - 1 |->
                                  IF c.start <= i /\ i < c.start + c.n THEN Byte(b) ELSE @[i]]]
  IN loop[len]

(* (From a position past the end it is as "position will never be past the *)
(* file size" were not there: the gap holds what its blocks did.)          *)
ktfs_store(n, len, b) ==
  LET h == file[n]
      grows == h.pos + len > h.size
      f1 == IF grows THEN changeFileSize(fs, h, h.pos + len) ELSE fs
      s == Stored(f1, f1.inode[h.inode], h.pos, len, b)
  IN /\ Running /\ Counted /\ h # Closed /\ ~h.stale
     /\ fs' = IF f1.state # "up" THEN f1 ELSE s.fs
     /\ file' = [file EXCEPT ![n].size = f1.inode[h.inode].size,
                             ![n].pos = IF s.einval THEN @ ELSE @ + s.done]
     /\ ret' = <<>>
     /\ UNCHANGED listing

(* FCNTL_SETEND to a size that is not smaller.                             *)
ktfs_setend(n, size) ==
  LET h == file[n]
      f1 == changeFileSize(fs, h, size)
  IN /\ Running /\ Counted /\ h # Closed /\ ~h.stale
     /\ size >= h.size
     /\ fs' = f1
     /\ file' = [file EXCEPT ![n].size = f1.inode[h.inode].size]
     /\ ret' = <<>>
     /\ UNCHANGED listing

(* A write or FCNTL_SETEND through the handle of a deleted file changes an *)
(* inode, an index block or data that may be another file's by now.        *)
store_stale(n) ==
  /\ Running /\ Counted /\ file[n] # Closed /\ file[n].stale
  /\ fs' = Ended(fs, "dangling")
  /\ UNCHANGED <<file, listing, ret>>

(* FCNTL_SETPOS, which only bounds the position by the largest file.       *)
ktfs_setpos(n, pos) ==
  /\ Running /\ file[n] # Closed
  /\ file' = [file EXCEPT ![n].pos = IF pos < MaxSize THEN pos ELSE MaxSize]
  /\ ret' = <<>>
  /\ UNCHANGED <<fs, listing, calls>>

---------------------------------------------------------------------------
(* Listings.                                                               *)

(* ktfs_open of the empty name.  (Bound: one listing at a time.)           *)
listing_open ==
  /\ MayOpen
  /\ Running /\ listing = NoListing
  /\ listing' = [pos |-> 0, torn |-> FALSE]
  /\ ret' = <<>>
  /\ UNCHANGED <<fs, file, calls>>

(* One name per read, until the position meets the number of entries:      *)
(* files created meanwhile are behind it and are still listed.             *)
ktfs_listing_read ==
  /\ Running /\ listing # NoListing
  /\ listing.pos < Count(fs)
  /\ listing' = [listing EXCEPT !.pos = @ + 1]
  /\ ret' = <<DentAt(fs, listing.pos)[3]>>
  /\ UNCHANGED <<fs, file, calls>>

(* Deletions have moved the number of entries below the position, which    *)
(* never meets it: whatever block the inode names there is read.  (Bound:  *)
(* the position, which goes on forever, is left where it is.)              *)
listing_past ==
  /\ Running /\ listing # NoListing
  /\ listing.pos > Count(fs)
  /\ fs' \in {fs, Ended(fs, "panic")}
  /\ ret' = <<"whatever">>
  /\ UNCHANGED <<file, listing, calls>>

(* -EINVAL says that the listing is complete.                              *)
listing_end ==
  /\ Running /\ listing # NoListing
  /\ listing.pos = Count(fs)
  /\ ret' = <<"end">>
  /\ UNCHANGED <<fs, file, listing, calls>>

ktfs_listing_close ==
  /\ Running /\ listing # NoListing
  /\ listing' = NoListing
  /\ ret' = <<>>
  /\ UNCHANGED <<fs, file, calls>>

(* At the end nothing happens; at the bound nobody need call.              *)
Halted == (~Running \/ calls = MaxCalls) /\ UNCHANGED vars

Next ==
  \/ \E n \in Names :
       \/ ktfs_create(n) \/ ktfs_delete(n) \/ ktfs_open(n) \/ ktfs_close(n)
       \/ \E len \in Reads : ktfs_fetch(n, len) \/ fetch_stale(n, len)
       \/ fetch_past(n) \/ store_stale(n)
       \/ \E len \in Writes, b \in Bytes : ktfs_store(n, len, b)
       \/ \E size \in Ends : ktfs_setend(n, size)
       \/ \E pos \in Seeks : ktfs_setpos(n, pos)
  \/ listing_open \/ ktfs_listing_read \/ listing_past \/ listing_end \/ ktfs_listing_close
  \/ Halted

Spec == Init /\ [][Next]_vars

---------------------------------------------------------------------------
(* Correctness.                                                            *)

Files == {n \in Names : Found(fs, n)}

(* The blocks that an inode of so many blocks reaches, each as often as it *)
(* is reached: a data block once, an index block once for all it covers.   *)
Uses(i, blocks) ==
  LET nd == fs.inode[i] IN
       {<<i, "data", k, BlockAt(fs, nd, k)>> : k \in 0 .. blocks - 1}
  \cup {<<i, "indirect", 0, nd.indirect>> : k \in {j \in 0 .. blocks - 1 : InIndirect(j)}}
  \cup UNION {{<<i, "top", Outer(k), nd.dindirect[Outer(k)]>>,
               <<i, "middle", (k - NDIRECT - PER) \div PER,
                 Entry(fs, nd.dindirect[Outer(k)], Middle(k))>>} :
              k \in {j \in 0 .. blocks - 1 : ~InDirect(j) /\ ~InIndirect(j)}}

AllUses == Uses(Root, BlocksFor(Count(fs)))
           \cup UNION {Uses(InodeOf(fs, n), BlocksFor(fs.inode[InodeOf(fs, n)].size)) : n \in Files}

(* No block serves two purposes (two files, a file and the directory, data *)
(* and index), and the bitmap marks exactly the blocks in use: none is     *)
(* lost and none can be handed out twice, through every create, growth     *)
(* across the direct, indirect and doubly-indirect ranges, and delete,     *)
(* calls not overlapping.  It holds until something is written to a block  *)
(* beyond the device or through the handle of a deleted file.              *)
BlocksOwned ==
  Running =>
    LET uses == AllUses
    IN /\ Cardinality({u[4] : u \in uses}) = Cardinality(uses)
       /\ fs.dbit = {u[4] : u \in uses}

(* Until then, too: every name stands once in the directory, the entries'  *)
(* inodes are distinct and are the ones marked used, and an open file's    *)
(* own copies of its inode's number and size are still right, whatever was *)
(* created, extended or deleted (moving other entries) since it was        *)
(* opened, unless it was itself deleted.                                   *)
HandlesAgree ==
  Running =>
    /\ \A n \in Names : Cardinality(Matches(fs, n)) <= 1
    /\ Cardinality(Files) = Count(fs)
    /\ \A m, n \in Files : InodeOf(fs, m) = InodeOf(fs, n) => m = n
    /\ fs.ibit = {Root} \cup {InodeOf(fs, n) : n \in Files}
    /\ \A n \in Names : file[n] # Closed /\ ~file[n].stale =>
         n \in Files /\ file[n].inode = InodeOf(fs, n)
         /\ file[n].size = fs.inode[file[n].inode].size

(* The bytes of the file of inode i, as its blocks hold them; a block past *)
(* the device holds zeros.                                                 *)
Content(i) ==
  [j \in 1 .. fs.inode[i].size |->
     LET b == BlockAt(fs, fs.inode[i], (j - 1) \div PER)
     IN IF b \in Blocks THEN fs.data[b][(j - 1) % PER] ELSE Zero]

(* (The set has one element; TLC then looks the name up only once.)        *)
ContentOf(n) == CHOOSE c \in {Content(i) : i \in {InodeOf(fs, n)}} : TRUE

F == INSTANCE FileStore WITH
       Bytes <- {Byte(b) : b \in Bytes},
       up <- Running,
       names <- IF Running THEN Files ELSE {},
       files <- [n \in Names |-> IF Running /\ n \in Files THEN ContentOf(n) ELSE <<>>],
       pos <- [n \in Names |-> file[n].pos],
       orphans <- {n \in Names : file[n].stale},
       listing <- IF listing = NoListing THEN "none" ELSE IF listing.torn THEN "torn" ELSE "open",
       listed <- IF Running /\ ~listing.torn
                 THEN {DentAt(fs, j)[3] : j \in 0 .. listing.pos - 1} ELSE {}

(* Bitmaps, inodes, index blocks and directory entries add up to named     *)
(* files: what is read is what was last written there, no call on one file *)
(* changes another, and a listing names every file once before it ends,    *)
(* calls not overlapping.  FileStore says where the promise ends: at a     *)
(* panic, with data written beyond the device or through the handle of a   *)
(* deleted file, and for a listing during which a file is deleted.         *)
ImplementsFiles == F!Spec
=============================================================================
