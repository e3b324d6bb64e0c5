-------------------------------- MODULE Heap --------------------------------
(***************************************************************************)
(* The kernel heap (sys/heap0.c) on the page allocator it grows from.      *)
(* Blocks are cut off the top of one pool; when the pool is too small the  *)
(* heap takes a page, and keeps whichever of the two leftovers is larger.  *)
(* kfree only marks a block: its memory, and its page, are never used      *)
(* again.  An address is PAGE_SIZE * page + offset.  The first pool lies   *)
(* between the kernel image and the first page of the allocator, page 1;   *)
(* it reaches below address 0 when memory_init gave it a second page.      *)
(***************************************************************************)
EXTENDS PageAlloc

CONSTANTS PAGE_SIZE, HEAP_ALIGN,
          HEADER,             (* sizeof(struct heap_alloc_header)            *)
          HEAP_ALLOC_MAX,
          HEAP_INIT_MIN,
          KIMG_GAP,           (* bytes from _kimg_end, aligned, to the next  *)
                              (* page boundary                               *)
          Sizes,              (* bound: the sizes asked for                  *)
          MaxBlocks           (* bound: blocks handed out                    *)

ASSUME HeapAssumption ==
  /\ HEAP_ALIGN \in Nat \ {0}
  /\ {PAGE_SIZE, HEADER, HEAP_INIT_MIN} \subseteq {HEAP_ALIGN * k : k \in 1 .. PAGE_SIZE}
  /\ KIMG_GAP \in {HEAP_ALIGN * k : k \in 0 .. PAGE_SIZE} /\ KIMG_GAP < PAGE_SIZE
  /\ HEAP_ALLOC_MAX \in 1 .. PAGE_SIZE - HEADER
  /\ Sizes \subseteq Nat /\ MaxBlocks \in Nat

VARIABLES heap_low, heap_end, (* the pool                                    *)
          blocks,             (* every block returned: address, size, and    *)
                              (* whether its header says it is allocated     *)
          integrity           (* "panicked" after a panic of the heap itself *)

heapVars == <<heap_low, heap_end, blocks, integrity>>
allVars == <<vars, heapVars>>

ROUND_UP(n, k) == ((n + k - 1) \div k) * k

(* What memory_init gives to the heap: the rest of the image's last page,  *)
(* and another page when that is too little.                               *)
HEAP_INIT ==
  IF KIMG_GAP < HEAP_INIT_MIN
  THEN KIMG_GAP + ROUND_UP(HEAP_INIT_MIN - KIMG_GAP, PAGE_SIZE) ELSE KIMG_GAP

kimg_end == PAGE_SIZE - HEAP_INIT

(* heap_init, called by memory_init before the first chunk exists.         *)
heap_init ==
  /\ Init
  /\ heap_low = kimg_end /\ heap_end = PAGE_SIZE
  /\ blocks = {}
  /\ integrity = "ok"

(* The page of an address; 0 is all that comes before the allocator's.     *)
PageOf(addr) == IF addr < PAGE_SIZE THEN 0 ELSE addr \div PAGE_SIZE

(* The pages the heap took.  It never gives one back.                      *)
HeapPages == {PageOf(b.ptr) : b \in blocks} \ {0}

---------------------------------------------------------------------------
(* Fault: the header is forgotten when the room is compared.               *)
Fits_NoHeader(size) == size <= heap_end - heap_low

(* The pool holds the block and its header.                                *)
Fits(size) == size + HEADER <= heap_end - heap_low

Header(ptr, size) == blocks' = blocks \cup {[ptr |-> ptr, size |-> size, live |-> TRUE]}

from_pool(size) ==
  /\ Fits(size)
  /\ heap_end' = heap_end - size - HEADER
  /\ Header(heap_end - size, size)
  /\ UNCHANGED <<vars, heap_low, integrity>>

(* The block is the end of a new page (alloc_phys_page); the rest of the   *)
(* page becomes the pool if it is the larger rest.                         *)
from_page(size) ==
  /\ ~Fits(size)
  /\ alloc_phys_pages(1)
  /\ LET page == CHOOSE p \in used' : p \notin used
         ptr == PAGE_SIZE * page + PAGE_SIZE - size
         leftover == PAGE_SIZE - size - HEADER
     IN /\ Header(ptr, size)
        /\ IF heap_end - heap_low < leftover
           THEN heap_end' = ptr - HEADER /\ heap_low' = PAGE_SIZE * page
           ELSE UNCHANGED <<heap_low, heap_end>>
  /\ UNCHANGED integrity

heap_panic == integrity' = "panicked" /\ UNCHANGED <<vars, heap_low, heap_end, blocks>>

(* size is already rounded.  With no page left alloc_phys_page panics:     *)
(* nobody is ever told that memory is short.                               *)
heap_malloc_actual(size) ==
  \/ size = 0 /\ UNCHANGED allVars
  \/ size > HEAP_ALLOC_MAX /\ heap_panic
  \/ size \in 1 .. HEAP_ALLOC_MAX /\ (from_pool(size) \/ from_page(size))
  \/ /\ size \in 1 .. HEAP_ALLOC_MAX /\ ~Fits(size)
     /\ alloc_panic(1) /\ UNCHANGED heapVars

kmalloc(size) ==
  /\ kernel = "running" /\ integrity = "ok"
  /\ Cardinality(blocks) < MaxBlocks
  /\ heap_malloc_actual(ROUND_UP(size, HEAP_ALIGN))

(* Every caller asks for one element; the assertion is on the size before  *)
(* it is rounded.                                                          *)
kcalloc(eltsz) ==
  /\ kernel = "running" /\ integrity = "ok"
  /\ Cardinality(blocks) < MaxBlocks
  /\ eltsz > 0
  /\ IF 1 <= HEAP_ALLOC_MAX \div eltsz
     THEN heap_malloc_actual(ROUND_UP(eltsz, HEAP_ALIGN)) ELSE heap_panic

(* The header of a freed block no longer agrees with itself: freeing it    *)
(* again panics.                                                           *)
kfree(b) ==
  /\ kernel = "running" /\ integrity = "ok"
  /\ IF b.live
     THEN /\ blocks' = (blocks \ {b}) \cup {[b EXCEPT !.live = FALSE]}
          /\ UNCHANGED <<vars, heap_low, heap_end, integrity>>
     ELSE heap_panic

(* The other users of pages: stacks, page tables, user memory, the disk    *)
(* ring.  They free what they hold, never a page of the heap.              *)
PageUser(cnt) ==
  /\ integrity = "ok"
  /\ \/ alloc_phys_pages(cnt) \/ alloc_panic(cnt)
     \/ \E p \in AllPages : Run(p, cnt) \cap HeapPages = {} /\ free_phys_pages(p, cnt)
  /\ UNCHANGED heapVars

HeapHalted == (kernel = "halted" \/ integrity = "panicked") /\ UNCHANGED allVars

HeapNext ==
  \/ \E size \in Sizes : kmalloc(size) \/ kcalloc(size)
  \/ \E b \in blocks : kfree(b)
  \/ \E cnt \in 1 .. MaxCnt : PageUser(cnt)
  \/ HeapHalted

HeapSpec == heap_init /\ [][HeapNext]_allVars

---------------------------------------------------------------------------
(* Correctness.                                                            *)

Extent(b) == b.ptr - HEADER .. b.ptr + b.size - 1
PoolExtent == heap_low .. heap_end - 1

(* kmalloc never hands out memory twice: a block with its header lies in   *)
(* one page that the heap holds, or between the kernel image and the pages *)
(* of the allocator (where it may cross a page boundary if the first pool  *)
(* has two pages), shares no byte with another block, freed ones included, *)
(* nor with the pool it will cut the next one from, and none of it is in a *)
(* page the allocator would give to somebody else.                         *)
HeapDisjoint ==
  /\ heap_low <= heap_end
  /\ \A a \in PoolExtent :
       kimg_end <= a /\ PageOf(a) \in HeapPages \cup {0} /\ PageOf(a) = PageOf(heap_low)
  /\ \A b \in blocks :
       /\ Extent(b) \cap PoolExtent = {}
       /\ \A a \in Extent(b) : kimg_end <= a /\ PageOf(a) = PageOf(b.ptr)
       /\ \A c \in blocks \ {b} : Extent(b) \cap Extent(c) = {}
  /\ HeapPages \subseteq used
=============================================================================
