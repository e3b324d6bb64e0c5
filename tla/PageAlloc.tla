----------------------------- MODULE PageAlloc -----------------------------
(***************************************************************************)
(* The physical page allocator (sys/memory.c): a list of free chunks kept  *)
(* sorted by address, best-fit allocation from the tail of a chunk, and    *)
(* coalescing on every free.  An address is a page number; page 0 is NULL. *)
(* The allocator never sleeps and no interrupt handler calls it, so each   *)
(* call is one step.                                                       *)
(***************************************************************************)
EXTENDS Integers, Sequences, FiniteSets, SequencesExt

CONSTANTS NPAGES,     (* pages between the heap and RAM_END                  *)
          MaxCnt      (* bound: pages in one call                            *)

ASSUME PagesAssumption == NPAGES \in Nat \ {0} /\ MaxCnt \in 1 .. NPAGES

VARIABLES chunks,     (* free_chunk_list: [start, pagecnt], in list order    *)
          used,       (* pages handed out and not yet freed                  *)
          kernel      (* "halted" after panic                                *)

vars == <<chunks, used, kernel>>

AllPages == 1 .. NPAGES
Run(p, cnt) == p .. p + cnt - 1
PagesOf(c) == Run(c.start, c.pagecnt)

(* memory_init: everything behind the heap is one chunk.                   *)
Init ==
  /\ chunks = <<[start |-> 1, pagecnt |-> NPAGES]>>
  /\ used = {}
  /\ kernel = "running"

---------------------------------------------------------------------------
(* alloc_phys_pages.                                                       *)

(* Whether chunk i replaces the best chunk found so far.                   *)
Closer(best, i, cnt) ==
  \/ chunks[best].pagecnt < cnt
  \/ chunks[i].pagecnt >= cnt /\ chunks[i].pagecnt < chunks[best].pagecnt

(* The index the search loop ends with, starting from the first chunk.     *)
BestFit(cnt) ==
  LET best[i \in 0 .. Len(chunks)] ==
        IF i = 0 THEN 1
        ELSE IF Closer(best[i - 1], i, cnt) THEN i ELSE best[i - 1]
  IN best[Len(chunks)]

(* Fault: the head of the chunk is given away and its size reduced.        *)
Taken_Head(c, cnt) == c.start

(* The run cut off a larger chunk is the chunk's tail.                     *)
Taken(c, cnt) == c.start + c.pagecnt - cnt

alloc_phys_pages(cnt) ==
  LET i == BestFit(cnt)
      c == chunks[i]
  IN /\ kernel = "running"
     /\ chunks # <<>>
     /\ c.pagecnt >= cnt
     /\ chunks' = IF c.pagecnt = cnt
                  THEN RemoveAt(chunks, i)
                  ELSE [chunks EXCEPT ![i].pagecnt = @ - cnt]
     /\ used' = used \cup Run(Taken(c, cnt), cnt)
     /\ UNCHANGED kernel

(* ... or panic: the list is empty, or the search found nothing that fits. *)
alloc_panic(cnt) ==
  /\ kernel = "running"
  /\ chunks # <<>> => chunks[BestFit(cnt)].pagecnt < cnt
  /\ kernel' = "halted"
  /\ UNCHANGED <<chunks, used>>

---------------------------------------------------------------------------
(* free_phys_pages.                                                        *)

(* Fault: the chunk goes to the head of the list, as on a LIFO free list.  *)
InsertPos_Head(p) == 1

(* Where the freed chunk goes in the list: before the head if its address  *)
(* is lower, else before the first later chunk that is not below it.       *)
InsertPos(p) ==
  IF chunks = <<>> \/ p < chunks[1].start THEN 1
  ELSE CHOOSE i \in 2 .. Len(chunks) + 1 :
         /\ i <= Len(chunks) => chunks[i].start >= p
         /\ \A j \in 2 .. i - 1 : chunks[j].start < p

(* Fault: adjacent chunks are left apart.                                  *)
Adjoins_Never(c, d) == FALSE

Adjoins(c, d) == c.start + c.pagecnt = d.start

(* One step of the coalescing loop: a chunk is merged into the one before  *)
(* it when they touch.                                                     *)
Merged(done, c) ==
  IF done # <<>> /\ Adjoins(Last(done), c)
  THEN [done EXCEPT ![Len(done)].pagecnt = @ + c.pagecnt]
  ELSE Append(done, c)

Coalesce(list) ==
  LET done[i \in 0 .. Len(list)] ==
        IF i = 0 THEN <<>> ELSE Merged(done[i - 1], list[i])
  IN done[Len(list)]

(* A caller gives back pages it holds, all of a run or part of it          *)
(* (unmap_and_free_range frees page by page what was allocated at once).   *)
free_phys_pages(p, cnt) ==
  /\ kernel = "running"
  /\ Run(p, cnt) \subseteq used
  /\ used' = used \ Run(p, cnt)
  /\ chunks' = Coalesce(InsertAt(chunks, InsertPos(p), [start |-> p, pagecnt |-> cnt]))
  /\ UNCHANGED kernel

Halted == kernel = "halted" /\ UNCHANGED vars

Next ==
  \/ \E cnt \in 1 .. MaxCnt :
       \/ alloc_phys_pages(cnt) \/ alloc_panic(cnt)
       \/ \E p \in AllPages : free_phys_pages(p, cnt)
  \/ Halted

Spec == Init /\ [][Next]_vars

free_phys_page_count ==
  LET count[i \in 0 .. Len(chunks)] ==
        IF i = 0 THEN 0 ELSE count[i - 1] + chunks[i].pagecnt
  IN count[Len(chunks)]

---------------------------------------------------------------------------
(* Correctness.                                                            *)

FreePages == UNION {PagesOf(chunks[i]) : i \in DOMAIN chunks}

(* Every page is handed out or in exactly one chunk: no page is lost, none *)
(* is given to two callers, and the count the kernel reports is right.     *)
PagesConserved ==
  /\ used \in SUBSET AllPages
  /\ FreePages = AllPages \ used
  /\ free_phys_page_count = Cardinality(FreePages)

(* context.md: the free list is kept sorted by physical address so that    *)
(* coalescing is valid.  Chunks are not empty, ascend, and never touch.    *)
ChunksCanonical ==
  /\ \A i \in DOMAIN chunks : chunks[i].pagecnt > 0
  /\ \A i \in 1 .. Len(chunks) - 1 :
       chunks[i].start + chunks[i].pagecnt < chunks[i + 1].start

Pool == INSTANCE PagePool WITH free <- FreePages

(* The chunk list implements the pool: panic only when no run of the size  *)
(* is free, whatever the order of the frees that left the holes.           *)
ImplementsPool == Pool!Spec
=============================================================================
