------------------------------- MODULE Mspace -------------------------------
(***************************************************************************)
(* Page tables and memory spaces (sys/memory.c): three levels of tables    *)
(* kept in pages of the physical pool.  Physical memory is a record        *)
(* m = [free, ram, panic] and each function of memory.c is an operator     *)
(* from the memory before it to the memory after it.  None of them sleeps. *)
(* Tables are cut down to two entries: entry 0 of a root stands for the    *)
(* kernel's global mappings, entry 1 for the user range, which is one      *)
(* gigapage.                                                               *)
(***************************************************************************)
EXTENDS Integers, Sequences, FiniteSets, SequencesExt

CONSTANTS NPAGES,     (* pages of the pool, numbered from 1                  *)
          Values,     (* contents of a page of data                          *)
          Zero,       (* a page of zeros, data or an empty table             *)
          Junk        (* what a free page holds                              *)

ASSUME MspaceAssumption ==
  NPAGES \in Nat \ {0} /\ Zero \notin Values /\ Junk \notin Values \cup {Zero}

PTE_CNT == 2
Index == 0 .. PTE_CNT - 1
Entries == <<0, 1>>
KVPN2 == 0
UVPN2 == 1
VPages == Index \X Index    (* a user page: <<VPN1, VPN0>>                   *)

main_pt2 == 0               (* the page, not in the pool, of the main table  *)

leaf_pte(pp, flags) == [flags |-> flags \cup {"V"}, ppn |-> pp]
ptab_pte(pp, g) == [flags |-> g \cup {"V"}, ppn |-> pp]
null_pte == [flags |-> {}, ppn |-> 0]
PTE_VALID(e) == "V" \in e.flags
PTE_GLOBAL(e) == "G" \in e.flags
Private(e) == PTE_VALID(e) /\ ~PTE_GLOBAL(e)

(* Entry i of the table in page pt; a page that is no table has none.      *)
pte(m, pt, i) ==
  IF m.panic \/ m.ram[pt] \in {Zero, Junk} \cup Values THEN null_pte ELSE m.ram[pt][i]

with_pte(m, pt, i, e) ==
  [m EXCEPT !.ram[pt] = [[j \in Index |-> pte(m, pt, j)] EXCEPT ![i] = e]]

(* memory_init: the main table has only the kernel's entries.              *)
memory_init ==
  [free  |-> 1 .. NPAGES,
   ram   |-> [p \in 0 .. NPAGES |->
                IF p = main_pt2
                THEN [i \in Index |-> IF i = KVPN2 THEN ptab_pte(0, {"G"}) ELSE null_pte]
                ELSE Junk],
   panic |-> FALSE]

---------------------------------------------------------------------------
(* The pool (see PageAlloc).  Which free page it takes does not matter     *)
(* here; fresh(m) is that page and taken(m) the memory without it.         *)

fresh(m) == IF m.free = {} THEN 0 ELSE CHOOSE p \in m.free : \A q \in m.free : p <= q

taken(m) ==
  IF m.free = {} THEN [m EXCEPT !.panic = TRUE]
  ELSE [m EXCEPT !.free = @ \ {fresh(m)}, !.ram[fresh(m)] = Zero]

(* The chunk header is written over what the page held.                    *)
freed(m, ps) ==
  [m EXCEPT !.free = @ \cup ps,
            !.ram = [p \in DOMAIN @ |-> IF p \in ps THEN Junk ELSE @[p]]]

---------------------------------------------------------------------------
(* Walking and changing one space.                                         *)

(* The table behind entry i of pt, made if there is none.                  *)
with_table(m, pt, i) ==
  IF PTE_VALID(pte(m, pt, i)) THEN m
  ELSE with_pte(taken(m), pt, i, ptab_pte(fresh(m), {}))

(* getLeaf: the tables on the way to page v.                               *)
getLeaf(m, root, v) ==
  LET m1 == with_table(m, root, UVPN2)
  IN with_table(m1, pte(m1, root, UVPN2).ppn, v[1])

pt0_of(m, root, v) == pte(m, pte(m, root, UVPN2).ppn, v[1]).ppn

map_page(m, root, v, pp, flags) ==
  LET m1 == getLeaf(m, root, v)
  IN with_pte(m1, pt0_of(m1, root, v), v[2], leaf_pte(pp, flags))

(* The pages of a range are taken at once; they are mapped one by one.     *)
alloc_and_map_range(m, root, vs, flags) ==
  LET step(a, v) ==
        LET b == taken(a.m) IN [m |-> b, pps |-> Append(a.pps, fresh(a.m))]
      got == FoldLeft(step, [m |-> m, pps |-> <<>>], vs)
  IN FoldLeft(LAMBDA a, i : map_page(a, root, vs[i], got.pps[i], flags),
              got.m, [i \in DOMAIN vs |-> i])

(* The leaf that the processor, or a walk of the kernel, finds for v.      *)
leaf(m, root, v) ==
  IF ~PTE_VALID(pte(m, root, UVPN2)) THEN null_pte
  ELSE IF ~PTE_VALID(pte(m, pte(m, root, UVPN2).ppn, v[1])) THEN null_pte
  ELSE pte(m, pt0_of(m, root, v), v[2])

set_range_flags(m, root, vs, flags) ==
  FoldLeft(LAMBDA a, v : map_page(a, root, v, leaf(getLeaf(a, root, v), root, v).ppn, flags),
           m, vs)

(* validate_vptr and validate_vstr look for a superset of the flags.       *)
validate(m, root, v, flags) == flags \subseteq leaf(m, root, v).flags

(* The access itself: what the page table lets through.                    *)
allowed(m, root, v, flags) == flags \cup {"V"} \subseteq leaf(m, root, v).flags

written(m, root, v, x) == [m EXCEPT !.ram[leaf(m, root, v).ppn] = x]

handle_umode_page_fault(m, root, v) ==
  alloc_and_map_range(m, root, <<v>>, {"R", "W", "U"})

---------------------------------------------------------------------------
(* Whole spaces.                                                           *)

copied_leaf(m, e) ==
  [m |-> [taken(m) EXCEPT !.ram[fresh(m)] = m.ram[e.ppn]], pp |-> fresh(m)]

cloned_pt0(m, old, new) ==
  FoldLeft(LAMBDA a, k :
             LET e == pte(m, old, k)
                 c == copied_leaf(a, e)
             IN IF Private(e) THEN with_pte(c.m, new, k, leaf_pte(c.pp, e.flags)) ELSE a,
           m, Entries)

cloned_pt1(m, old, new) ==
  FoldLeft(LAMBDA a, j :
             LET e == pte(m, old, j) IN
             IF Private(e)
             THEN cloned_pt0(with_table(a, new, j), e.ppn, fresh(a))
             ELSE a,
           m, Entries)

(* clone_active_mspace: the new root is fresh(m).                          *)
clone_active_mspace(m, root) ==
  FoldLeft(LAMBDA a, i :
             LET e == pte(m, root, i) IN
             IF Private(e) THEN cloned_pt1(with_table(a, fresh(m), i), e.ppn, fresh(a))
             ELSE IF PTE_VALID(e) THEN with_pte(a, fresh(m), i, e)
             ELSE a,
           taken(m), Entries)

private_ppns(m, pt) == {pte(m, pt, i).ppn : i \in {i \in Index : Private(pte(m, pt, i))}}

(* The tables and the pages of a space, without its root.                  *)
space_pages(m, root) ==
  LET pt1s == private_ppns(m, root)
      pt0s == UNION {private_ppns(m, p) : p \in pt1s}
      pps == UNION {private_ppns(m, p) : p \in pt0s}
  IN pt1s \cup pt0s \cup pps

(* Fault: the level-0 tables are taken for leaves and kept.                *)
reset_pages_Leaves(m, root) ==
  LET pt1s == private_ppns(m, root) IN pt1s \cup UNION {private_ppns(m, p) : p \in pt1s}

reset_pages(m, root) == space_pages(m, root)

reset_active_mspace(m, root) ==
  LET m1 == freed(m, reset_pages(m, root))
  IN [m1 EXCEPT !.ram[root] = [i \in Index |->
        IF Private(pte(m, root, i)) THEN [pte(m, root, i) EXCEPT !.flags = @ \ {"V"}]
        ELSE pte(m, root, i)]]
=============================================================================
