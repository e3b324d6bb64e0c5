----------------------------- MODULE PipeProofs -----------------------------
(***************************************************************************)
(* Proofs about Pipe: reference counts, the life of the pipe, the two      *)
(* conditions and the refinement of Channel, for every set of processes    *)
(* and descriptors and every size of the buffer.                           *)
(***************************************************************************)
EXTENDS Pipe, FiniteSetTheorems, SequenceTheorems, WellFoundedInduction, NaturalsInduction, TLAPS

TypeOK ==
  /\ pipe \in {"none", "open", "freed"}
  /\ uiotab \in [Procs -> [Fds -> Ends \cup {"none"}]]
  /\ refcnt \in [Ends -> Nat]
  /\ pc \in [Procs -> {"none", "user", "exiting", "gone"} \cup Waiting]
  /\ DOMAIN bufsz = Procs /\ DOMAIN buf = Procs

(* A process that sleeps in a call keeps the descriptor it called with, a  *)
(* process that does not exist has none, and descriptors exist only while  *)
(* the pipe does.                                                          *)
TablesOK ==
  /\ \A p \in Procs :
       /\ pc[p] \in {"rwait", "rready"} => Refs(p, "read") # {}
       /\ pc[p] \in {"wwait", "wready"} => Refs(p, "write") # {}
       /\ pc[p] \in {"none", "gone"} => \A fd \in Fds : uiotab[p][fd] = "none"
  /\ \A p \in Procs, fd \in Fds : uiotab[p][fd] # "none" => pipe = "open"

Inv == TypeOK /\ TablesOK /\ RefsCovered /\ SleepsJustified

---------------------------------------------------------------------------
(* Counting descriptors.                                                   *)

LEMMA FiniteTable ==
  ASSUME NEW D, D \subseteq Procs \X Fds
  PROVE  /\ IsFiniteSet(D) /\ Cardinality(D) \in Nat
         /\ Cardinality(D) = 0 <=> D = {}
<1>1. IsFiniteSet(Procs \X Fds)
  BY ProcsAssumption, FdsAssumption, FS_Product
<1>2. IsFiniteSet(D)
  BY <1>1, FS_Subset
<1> QED BY <1>2, FS_CardinalityType, FS_EmptySet

LEMMA FiniteDescriptors ==
  ASSUME NEW e
  PROVE  /\ IsFiniteSet(Descriptors(e)) /\ Cardinality(Descriptors(e)) \in Nat
         /\ Cardinality(Descriptors(e)) = 0 <=> Descriptors(e) = {}
<1>1. Descriptors(e) \subseteq Procs \X Fds
  BY DEF Descriptors
<1> QED BY <1>1, FiniteTable

LEMMA FiniteRefs ==
  ASSUME NEW p, NEW e
  PROVE  IsFiniteSet(Refs(p, e)) /\ Cardinality(Refs(p, e)) \in Nat
<1>1. Refs(p, e) \in SUBSET Fds
  BY DEF Refs
<1>2. IsFiniteSet(Refs(p, e))
  BY <1>1, FdsAssumption, FS_Subset
<1> QED BY <1>2, FS_CardinalityType

USE DEF callVars

LEMMA InitInv == Init => Inv
<1> SUFFICES ASSUME Init PROVE Inv
  OBVIOUS
<1>1. TypeOK
  BY ProcsAssumption DEF Init, TypeOK, Ends, Waiting
<1>2. TablesOK /\ SleepsJustified
  BY DEF Init, TablesOK, SleepsJustified
<1>3. ASSUME NEW e \in Ends PROVE Descriptors(e) = {}
  BY DEF Init, Descriptors, Ends
<1>4. RefsCovered
  BY <1>3, FiniteDescriptors DEF Init, RefsCovered
<1> QED BY <1>1, <1>2, <1>4 DEF Inv

(* Calls that leave the tables and counts alone.                           *)
LEMMA SameTables ==
  ASSUME Inv, UNCHANGED <<pipe, uiotab, refcnt>>
  PROVE  RefsCovered' /\ \A p, e : Refs(p, e)' = Refs(p, e)
<1>1. \A e : Descriptors(e)' = Descriptors(e)
  BY DEF Descriptors
<1> QED BY <1>1 DEF Inv, RefsCovered, Refs

(* A broadcast moves the sleepers of its condition and nobody else.        *)
LEMMA AwakeEffect ==
  ASSUME NEW places \in [Procs -> {"none", "user", "exiting", "gone"} \cup Waiting], NEW c
  PROVE  /\ Awake(places, c) \in [Procs -> {"none", "user", "exiting", "gone"} \cup Waiting]
         /\ \A q \in Procs :
              /\ Awake(places, c)[q] = "rwait" <=> places[q] = "rwait" /\ c # "read_condition"
              /\ Awake(places, c)[q] = "wwait" <=> places[q] = "wwait" /\ c # "write_condition"
              /\ Awake(places, c)[q] \in {"rwait", "rready"} <=> places[q] \in {"rwait", "rready"}
              /\ Awake(places, c)[q] \in {"wwait", "wready"} <=> places[q] \in {"wwait", "wready"}
              /\ Awake(places, c)[q] \in {"none", "gone"} <=> places[q] \in {"none", "gone"}
BY DEF Awake, Waiting

(* pipe_read and pipe_write.                                               *)
LEMMA KeepRead ==
  ASSUME Inv, NEW p \in Procs, read_step(p)
  PROVE  Inv'
<1>1. PICK n \in 1 .. MaxLen : read_data(p, n) \/ read_eof(p, n) \/ read_wait(p, n)
  BY DEF read_step
<1>2. /\ UNCHANGED <<pipe, uiotab, refcnt>> /\ DOMAIN bufsz' = Procs /\ DOMAIN buf' = Procs
      /\ Refs(p, "read") # {}
  BY <1>1 DEF read_data, read_eof, read_wait, Return, Reading, Inv, TypeOK, TablesOK
<1>3. RefsCovered' /\ \A q, e : Refs(q, e)' = Refs(q, e)
  BY <1>2, SameTables
<1>4. pc[p] \in {"user", "rready"}
  BY <1>1 DEF read_data, read_eof, read_wait, Reading
<1>5. CASE read_data(p, n)
  <2>1. /\ Home(p) \in [Procs -> {"none", "user", "exiting", "gone"} \cup Waiting]
        /\ Home(p)[p] = "user" /\ \A q \in Procs \ {p} : Home(p)[q] = pc[q]
    BY DEF Home, Inv, TypeOK
  <2>2. pc' = Awake(Home(p), "write_condition")
    BY <1>5 DEF read_data
  <2>3. TypeOK'
    BY <1>2, <2>1, <2>2, AwakeEffect DEF Inv, TypeOK
  <2>4. TablesOK'
    BY <1>2, <1>3, <2>1, <2>2, AwakeEffect DEF Inv, TablesOK
  <2>5. \A q \in Procs : pc'[q] # "wwait" /\ pc'[q] # "rwait"
    BY <1>5, <2>1, <2>2, AwakeEffect DEF read_data, Inv, SleepsJustified
  <2> QED BY <1>3, <2>3, <2>4, <2>5 DEF Inv, SleepsJustified
<1>6. CASE read_eof(p, n)
  <2>1. pc' = [pc EXCEPT ![p] = "user"] /\ UNCHANGED rbuf
    BY <1>6 DEF read_eof, Home
  <2>2. TypeOK' /\ TablesOK'
    BY <1>2, <1>3, <2>1 DEF Inv, TypeOK, TablesOK
  <2>3. SleepsJustified'
    BY <1>2, <2>1 DEF Inv, TypeOK, SleepsJustified
  <2> QED BY <1>3, <2>2, <2>3 DEF Inv
<1>7. CASE read_wait(p, n)
  <2>1. /\ pc' = [pc EXCEPT ![p] = "rwait"] /\ UNCHANGED rbuf
        /\ rbuf_empty(rbuf) /\ refcnt["write"] > 0
    BY <1>7 DEF read_wait, Inv, TypeOK, Ends
  <2>2. TypeOK' /\ TablesOK'
    BY <1>2, <1>3, <2>1 DEF Inv, TypeOK, TablesOK, Waiting
  <2>3. SleepsJustified'
    BY <1>2, <2>1 DEF Inv, TypeOK, SleepsJustified
  <2> QED BY <1>3, <2>2, <2>3 DEF Inv
<1> QED BY <1>1, <1>5, <1>6, <1>7

LEMMA KeepWrite ==
  ASSUME Inv, NEW p \in Procs, write_step(p)
  PROVE  Inv'
<1>1. PICK m \in Messages : write_data(p, m) \/ write_broken(p, m) \/ write_wait(p, m)
  BY DEF write_step
<1>2. /\ UNCHANGED <<pipe, uiotab, refcnt>> /\ DOMAIN bufsz' = Procs /\ DOMAIN buf' = Procs
      /\ Refs(p, "write") # {}
  BY <1>1 DEF write_data, write_broken, write_wait, Return, Writing, Inv, TypeOK, TablesOK
<1>3. RefsCovered' /\ \A q, e : Refs(q, e)' = Refs(q, e)
  BY <1>2, SameTables
<1>4. CASE write_data(p, m)
  <2>1. /\ Home(p) \in [Procs -> {"none", "user", "exiting", "gone"} \cup Waiting]
        /\ Home(p)[p] = "user" /\ \A q \in Procs \ {p} : Home(p)[q] = pc[q]
    BY DEF Home, Inv, TypeOK
  <2>2. pc' = Awake(Home(p), "read_condition")
    BY <1>4 DEF write_data
  <2>3. TypeOK'
    BY <1>2, <2>1, <2>2, AwakeEffect DEF Inv, TypeOK
  <2>4. TablesOK'
    BY <1>2, <1>3, <2>1, <2>2, AwakeEffect DEF Inv, TablesOK
  <2>5. \A q \in Procs : pc'[q] # "wwait" /\ pc'[q] # "rwait"
    BY <1>4, <2>1, <2>2, AwakeEffect DEF write_data, Inv, SleepsJustified
  <2> QED BY <1>3, <2>3, <2>4, <2>5 DEF Inv, SleepsJustified
<1>5. CASE write_broken(p, m)
  <2>1. pc' = [pc EXCEPT ![p] = "user"] /\ UNCHANGED rbuf
    BY <1>5 DEF write_broken, Home
  <2>2. TypeOK' /\ TablesOK'
    BY <1>2, <1>3, <2>1 DEF Inv, TypeOK, TablesOK
  <2>3. SleepsJustified'
    BY <1>2, <2>1 DEF Inv, TypeOK, SleepsJustified
  <2> QED BY <1>3, <2>2, <2>3 DEF Inv
<1>6. CASE write_wait(p, m)
  <2>1. /\ pc' = [pc EXCEPT ![p] = "wwait"] /\ UNCHANGED rbuf
        /\ rbuf_full(rbuf) /\ refcnt["read"] > 0
    BY <1>6 DEF write_wait, Broken, Inv, TypeOK, Ends
  <2>2. TypeOK' /\ TablesOK'
    BY <1>2, <1>3, <2>1 DEF Inv, TypeOK, TablesOK, Waiting
  <2>3. SleepsJustified'
    BY <1>2, <2>1 DEF Inv, TypeOK, SleepsJustified
  <2> QED BY <1>3, <2>2, <2>3 DEF Inv
<1> QED BY <1>1, <1>4, <1>5, <1>6

---------------------------------------------------------------------------
(* References.                                                             *)

(* One descriptor more, one less.                                          *)
LEMMA DescriptorAdded ==
  ASSUME uiotab \in [Procs -> [Fds -> Ends \cup {"none"}]],
         NEW p \in Procs, NEW fd \in Fds, NEW e \in Ends, uiotab[p][fd] = "none",
         NEW d \in Ends, uiotab' = [uiotab EXCEPT ![p][fd] = e]
  PROVE  Cardinality(Descriptors(d)') = Cardinality(Descriptors(d)) + IF d = e THEN 1 ELSE 0
<1>1. <<p, fd>> \in Procs \X Fds /\ <<p, fd>>[1] = p /\ <<p, fd>>[2] = fd
  OBVIOUS
<1>2. \A h \in Procs \X Fds :
        uiotab'[h[1]][h[2]] = IF h = <<p, fd>> THEN e ELSE uiotab[h[1]][h[2]]
  OBVIOUS
<1>3. <<p, fd>> \notin Descriptors(d)
  BY <1>1 DEF Descriptors, Ends
<1>4. Descriptors(d)' = IF d = e THEN Descriptors(d) \cup {<<p, fd>>} ELSE Descriptors(d)
  BY <1>1, <1>2, <1>3 DEF Descriptors
<1>5. IsFiniteSet(Descriptors(d)) /\ Cardinality(Descriptors(d)) \in Nat
  BY FiniteDescriptors
<1>6. Cardinality(Descriptors(d) \cup {<<p, fd>>}) = Cardinality(Descriptors(d)) + 1
  BY <1>3, <1>5, FS_AddElement
<1> QED BY <1>4, <1>5, <1>6

LEMMA DescriptorRemoved ==
  ASSUME uiotab \in [Procs -> [Fds -> Ends \cup {"none"}]],
         NEW p \in Procs, NEW fd \in Fds, NEW e \in Ends, uiotab[p][fd] = e,
         NEW d \in Ends, uiotab' = [uiotab EXCEPT ![p][fd] = "none"]
  PROVE  /\ Cardinality(Descriptors(d)') = Cardinality(Descriptors(d)) - IF d = e THEN 1 ELSE 0
         /\ Cardinality(Descriptors(e)) > 0
<1>1. <<p, fd>> \in Procs \X Fds /\ <<p, fd>>[1] = p /\ <<p, fd>>[2] = fd
  OBVIOUS
<1>2. \A h \in Procs \X Fds :
        uiotab'[h[1]][h[2]] = IF h = <<p, fd>> THEN "none" ELSE uiotab[h[1]][h[2]]
  OBVIOUS
<1>3. <<p, fd>> \in Descriptors(e) /\ (d # e => <<p, fd>> \notin Descriptors(d))
  BY <1>1 DEF Descriptors
<1>4. Descriptors(d)' = Descriptors(d) \ {<<p, fd>>}
  BY <1>1, <1>2 DEF Descriptors, Ends
<1>5. IsFiniteSet(Descriptors(d)) /\ Cardinality(Descriptors(d)) \in Nat
  BY FiniteDescriptors
<1>6. Cardinality(Descriptors(d) \ {<<p, fd>>}) =
        IF <<p, fd>> \in Descriptors(d) THEN Cardinality(Descriptors(d)) - 1
                                        ELSE Cardinality(Descriptors(d))
  BY <1>5, FS_RemoveElement
<1>7. Cardinality(Descriptors(e)) > 0
  BY <1>3, FiniteDescriptors
<1> QED BY <1>3, <1>4, <1>5, <1>6, <1>7

(* The pipe is made once, when there is no descriptor at all.              *)
LEMMA KeepSyspipe ==
  ASSUME Inv, NEW p \in Procs, syspipe(p)
  PROVE  Inv'
<1>1. /\ pipe = "none" /\ pipe' = "open" /\ refcnt' = [e \in Ends |-> 1]
      /\ pc[p] = "user" /\ UNCHANGED <<rbuf, pc, bufsz, buf>>
  BY DEF syspipe, create_pipe
<1>2. PICK w \in Fds, r \in Fds :
        /\ w # r /\ uiotab[p][w] = "none" /\ uiotab[p][r] = "none"
        /\ uiotab' = [uiotab EXCEPT ![p][w] = "write", ![p][r] = "read"]
  BY DEF syspipe
<1>3. uiotab \in [Procs -> [Fds -> Ends \cup {"none"}]]
  BY DEF Inv, TypeOK
<1>4. uiotab' \in [Procs -> [Fds -> Ends \cup {"none"}]]
  BY <1>2, <1>3 DEF Ends
<1>5. \A q \in Procs, fd \in Fds : uiotab[q][fd] = "none"
  BY <1>1, <1>3 DEF Inv, TablesOK
<1>6. \A q \in Procs \ {p} : uiotab'[q] = uiotab[q]
  BY <1>2, <1>3
<1>7. \A q \in Procs, e \in Ends : Refs(q, e) = {}
  BY <1>5 DEF Refs, Ends
<1>8. TypeOK'
  BY <1>1, <1>4 DEF Inv, TypeOK
<1>9. TablesOK'
  BY <1>1, <1>5, <1>6, <1>7 DEF Inv, TablesOK, Ends
<1>10. SleepsJustified'
  BY <1>1, <1>7 DEF Inv, TablesOK, SleepsJustified, Ends
<1>11. RefsCovered'
  <2>1. Descriptors("write")' = {<<p, w>>} /\ Descriptors("read")' = {<<p, r>>}
    <3>1. \A h \in Procs \X Fds :
            uiotab'[h[1]][h[2]] = IF h = <<p, w>> THEN "write"
                                  ELSE IF h = <<p, r>> THEN "read" ELSE "none"
      BY <1>2, <1>3, <1>5
    <3>2. <<p, w>> \in Procs \X Fds /\ <<p, r>> \in Procs \X Fds /\ <<p, w>> # <<p, r>>
      BY <1>2
    <3> QED BY <3>1, <3>2 DEF Descriptors
  <2>2. \A e \in Ends : Cardinality(Descriptors(e)') = 1 /\ refcnt'[e] = 1
    BY <1>1, <2>1, FS_Singleton DEF Ends
  <2> QED BY <2>2 DEF RefsCovered
<1> QED BY <1>8, <1>9, <1>10, <1>11 DEF Inv

(* uiodup: one more descriptor, one more reference.                        *)
LEMMA KeepDup ==
  ASSUME Inv, NEW p \in Procs, NEW old \in Fds, NEW new \in Fds, sysuiodup(p, old, new)
  PROVE  Inv'
<1>1. PICK e \in Ends : e = uiotab[p][old] /\ e # "none"
  BY DEF sysuiodup, Inv, TypeOK
<1>2. /\ pc[p] = "user" /\ UNCHANGED <<pipe, rbuf, pc, bufsz, buf>>
      /\ uiotab[p][new] = "none" /\ uiotab' = [uiotab EXCEPT ![p][new] = e]
      /\ refcnt' = [refcnt EXCEPT ![e] = refcnt[e] + 1]
  BY <1>1 DEF sysuiodup, Added
<1>3. uiotab \in [Procs -> [Fds -> Ends \cup {"none"}]] /\ refcnt \in [Ends -> Nat]
  BY DEF Inv, TypeOK
<1>4. pipe = "open"
  BY <1>1 DEF Inv, TablesOK
<1>5. /\ uiotab' \in [Procs -> [Fds -> Ends \cup {"none"}]] /\ refcnt' \in [Ends -> Nat]
      /\ \A q \in Procs \ {p} : uiotab'[q] = uiotab[q]
      /\ \A d \in Ends : refcnt'[d] = refcnt[d] + IF d = e THEN 1 ELSE 0
  BY <1>2, <1>3
<1>6. TypeOK'
  BY <1>2, <1>5 DEF Inv, TypeOK
<1>7. \A q \in Procs \ {p}, d \in Ends : Refs(q, d)' = Refs(q, d)
  BY <1>5 DEF Refs
<1>8. TablesOK'
  BY <1>2, <1>4, <1>5, <1>7 DEF Inv, TablesOK, Ends
<1>9. SleepsJustified'
  BY <1>2, <1>3, <1>5 DEF Inv, SleepsJustified, Ends
<1>10. RefsCovered'
  <2>1. \A d \in Ends : Cardinality(Descriptors(d)') = Cardinality(Descriptors(d)) + IF d = e THEN 1 ELSE 0
    BY <1>2, <1>3, DescriptorAdded
  <2>2. \A d \in Ends : Cardinality(Descriptors(d)) \in Nat
    BY FiniteDescriptors
  <2> QED BY <1>3, <1>5, <2>1, <2>2 DEF Inv, RefsCovered
<1> QED BY <1>6, <1>8, <1>9, <1>10 DEF Inv

(* fork: the child's table was empty and becomes the parent's.             *)
LEMMA KeepFork ==
  ASSUME Inv, NEW p \in Procs, NEW q \in Procs, process_fork(p, q)
  PROVE  Inv'
<1>1. /\ pc[p] = "user" /\ pc[q] = "none" /\ p # q /\ UNCHANGED <<pipe, rbuf, bufsz, buf>>
      /\ uiotab' = [uiotab EXCEPT ![q] = uiotab[p]]
      /\ refcnt' = [e \in Ends |-> refcnt[e] + Cardinality(Refs(p, e))]
      /\ pc' = [pc EXCEPT ![q] = "user"]
  BY DEF process_fork, Added
<1>2. /\ uiotab \in [Procs -> [Fds -> Ends \cup {"none"}]] /\ refcnt \in [Ends -> Nat]
      /\ \A fd \in Fds : uiotab[q][fd] = "none"
  BY <1>1 DEF Inv, TypeOK, TablesOK
<1>3. /\ uiotab' \in [Procs -> [Fds -> Ends \cup {"none"}]]
      /\ \A r \in Procs \ {q} : uiotab'[r] = uiotab[r]
      /\ uiotab'[q] = uiotab[p]
  BY <1>1, <1>2
<1>4. refcnt' \in [Ends -> Nat] /\ \A e \in Ends : refcnt'[e] >= refcnt[e]
  BY <1>1, <1>2, FiniteRefs
<1>5. TypeOK'
  BY <1>1, <1>3, <1>4 DEF Inv, TypeOK
<1>6. \A r \in Procs \ {q}, d \in Ends : Refs(r, d)' = Refs(r, d)
  BY <1>3 DEF Refs
<1>7. TablesOK'
  <2>1. pc'[q] = "user" /\ \A r \in Procs \ {q} : pc'[r] = pc[r]
    BY <1>1 DEF Inv, TypeOK
  <2> QED BY <1>1, <1>3, <1>6, <2>1 DEF Inv, TablesOK, Ends
<1>8. SleepsJustified'
  BY <1>1, <1>2, <1>4 DEF Inv, TypeOK, SleepsJustified, Ends
<1>9. RefsCovered'
  <2> SUFFICES ASSUME NEW e \in Ends PROVE refcnt'[e] >= Cardinality(Descriptors(e)')
    BY DEF RefsCovered
  <2> DEFINE D == Descriptors(e)
             N == {q} \X Refs(p, e)
  <2>1. Descriptors(e)' = D \cup N
    BY <1>1, <1>2, <1>3 DEF Descriptors, Refs, Ends
  <2>2. D \cap N = {}
    BY <1>2 DEF Descriptors, Ends
  <2>3. /\ IsFiniteSet(D) /\ IsFiniteSet(N) /\ Cardinality(D) \in Nat
        /\ Cardinality(N) = Cardinality(Refs(p, e)) /\ Cardinality(N) \in Nat
    <3>1. IsFiniteSet({q}) /\ Cardinality({q}) = 1
      BY FS_Singleton
    <3>2. IsFiniteSet(N) /\ Cardinality(N) = 1 * Cardinality(Refs(p, e))
      BY <3>1, FiniteRefs, FS_Product
    <3> QED BY <3>2, FiniteRefs, FiniteDescriptors
  <2>4. Cardinality(D \cup N) = Cardinality(D) + Cardinality(N) - Cardinality(D \cap N)
    <3> HIDE DEF D, N
    <3> QED BY <2>3, FS_Union
  <2>5. Cardinality(D \cap N) = 0
    BY <2>2, FS_EmptySet
  <2>6. refcnt[e] >= Cardinality(D) /\ refcnt[e] \in Nat
    BY <1>2 DEF Inv, RefsCovered
  <2>7. refcnt'[e] = refcnt[e] + Cardinality(Refs(p, e))
    BY <1>1
  <2> HIDE DEF D, N
  <2> QED BY <2>1, <2>3, <2>4, <2>5, <2>6, <2>7
<1> QED BY <1>5, <1>7, <1>8, <1>9 DEF Inv

(* A failed fork only raises the counts.                                   *)
LEMMA KeepForkFails ==
  ASSUME Inv, NEW p \in Procs, process_fork_fails(p)
  PROVE  Inv'
<1>1. /\ UNCHANGED <<pipe, uiotab, rbuf, pc, bufsz, buf>>
      /\ refcnt' = [e \in Ends |-> refcnt[e] + Cardinality(Refs(p, e))]
  BY DEF process_fork_fails, Added
<1>2. /\ refcnt \in [Ends -> Nat] /\ refcnt' \in [Ends -> Nat]
      /\ \A e \in Ends : refcnt'[e] >= refcnt[e]
  BY <1>1, FiniteRefs DEF Inv, TypeOK
<1>3. TypeOK'
  BY <1>1, <1>2 DEF Inv, TypeOK
<1>4. TablesOK'
  BY <1>1 DEF Inv, TablesOK, Refs
<1>5. SleepsJustified'
  BY <1>1, <1>2 DEF Inv, SleepsJustified, Ends
<1>6. RefsCovered'
  <2>1. \A e : Descriptors(e)' = Descriptors(e) /\ Cardinality(Descriptors(e)) \in Nat
    BY <1>1, FiniteDescriptors DEF Descriptors
  <2> QED BY <1>2, <2>1 DEF Inv, RefsCovered
<1> QED BY <1>3, <1>4, <1>5, <1>6 DEF Inv

(* A close: the pipe is open, and it is freed only when no descriptor is   *)
(* left; with the last reference to an end every sleeper is woken.         *)
LEMMA KeepClose ==
  ASSUME Inv, NEW p \in Procs, NEW fd \in Fds, pc[p] \in {"user", "exiting"}, uio_close(p, fd)
  PROVE  Inv'
<1>1. PICK e \in Ends : e = uiotab[p][fd] /\ e # "none"
  BY DEF uio_close, Inv, TypeOK
<1>2. pipe = "open"
  BY <1>1 DEF Inv, TablesOK
<1>3. uiotab \in [Procs -> [Fds -> Ends \cup {"none"}]] /\ refcnt \in [Ends -> Nat]
  BY DEF Inv, TypeOK
<1>4. uiotab' = [uiotab EXCEPT ![p][fd] = "none"] /\ UNCHANGED <<rbuf, bufsz, buf>>
  BY DEF uio_close
<1>5. /\ \A d \in Ends : Cardinality(Descriptors(d)') = Cardinality(Descriptors(d)) - IF d = e THEN 1 ELSE 0
      /\ Cardinality(Descriptors(e)) > 0
      /\ \A d \in Ends : Cardinality(Descriptors(d)) \in Nat /\ refcnt[d] >= Cardinality(Descriptors(d))
  BY <1>1, <1>3, <1>4, DescriptorRemoved, FiniteDescriptors DEF Inv, RefsCovered
<1>6. refcnt[e] > 0
  BY <1>3, <1>5
<1>7. /\ refcnt' = [refcnt EXCEPT ![e] = refcnt[e] - 1]
      /\ pc' = IF refcnt[e] - 1 = 0 THEN AwakeOnClose(pc) ELSE pc
      /\ pipe' = IF FreesPipe(e, refcnt[e] - 1) THEN "freed" ELSE "open"
  BY <1>1, <1>2, <1>6 DEF uio_close
<1>8. /\ refcnt' \in [Ends -> Nat] /\ \A d \in Ends : refcnt'[d] = refcnt[d] - IF d = e THEN 1 ELSE 0
      /\ uiotab' \in [Procs -> [Fds -> Ends \cup {"none"}]]
      /\ \A q \in Procs \ {p} : uiotab'[q] = uiotab[q]
      /\ \A q \in Procs, f \in Fds : uiotab[q][f] = "none" => uiotab'[q][f] = "none"
  BY <1>3, <1>4, <1>6, <1>7
<1>9. /\ pc' \in [Procs -> {"none", "user", "exiting", "gone"} \cup Waiting]
      /\ \A q \in Procs :
           /\ pc'[q] \in {"rwait", "rready"} <=> pc[q] \in {"rwait", "rready"}
           /\ pc'[q] \in {"wwait", "wready"} <=> pc[q] \in {"wwait", "wready"}
           /\ pc'[q] \in {"none", "gone"} <=> pc[q] \in {"none", "gone"}
           /\ pc'[q] = "rwait" => pc[q] = "rwait" /\ refcnt[e] # 1
           /\ pc'[q] = "wwait" => pc[q] = "wwait" /\ refcnt[e] # 1
  <2>1. pc \in [Procs -> {"none", "user", "exiting", "gone"} \cup Waiting]
    BY DEF Inv, TypeOK
  <2>2. CASE refcnt[e] - 1 = 0
    <3> DEFINE a == Awake(pc, "write_condition")
    <3>1. pc' = Awake(a, "read_condition")
      BY <1>7, <2>2 DEF AwakeOnClose
    <3>2. /\ a \in [Procs -> {"none", "user", "exiting", "gone"} \cup Waiting]
          /\ \A q \in Procs :
               /\ a[q] = "rwait" <=> pc[q] = "rwait"
               /\ a[q] # "wwait"
               /\ a[q] \in {"rwait", "rready"} <=> pc[q] \in {"rwait", "rready"}
               /\ a[q] \in {"wwait", "wready"} <=> pc[q] \in {"wwait", "wready"}
               /\ a[q] \in {"none", "gone"} <=> pc[q] \in {"none", "gone"}
      BY <2>1, AwakeEffect
    <3> HIDE DEF a
    <3> QED BY <3>1, <3>2, AwakeEffect
  <2>3. CASE refcnt[e] - 1 # 0
    BY <1>3, <1>7, <2>1, <2>3
  <2> QED BY <2>2, <2>3
<1>10. TypeOK'
  BY <1>4, <1>7, <1>8, <1>9 DEF Inv, TypeOK
<1>11. RefsCovered'
  BY <1>3, <1>5, <1>8 DEF RefsCovered
<1>12. SleepsJustified'
  BY <1>3, <1>4, <1>6, <1>8, <1>9 DEF Inv, SleepsJustified, Ends
<1>13. TablesOK'
  <2>1. \A q \in Procs \ {p}, d \in Ends : Refs(q, d)' = Refs(q, d)
    BY <1>8 DEF Refs
  <2>2. ASSUME NEW q \in Procs, NEW f \in Fds, uiotab'[q][f] # "none" PROVE pipe' = "open"
    <3>1. PICK d \in Ends : d = uiotab'[q][f]
      BY <1>8, <2>2
    <3>2. <<q, f>> \in Descriptors(d)'
      BY <3>1 DEF Descriptors
    <3>3. Cardinality(Descriptors(d)') > 0 /\ Cardinality(Descriptors(d)') \in Nat
      <4>1. Descriptors(d)' \subseteq Procs \X Fds
        BY DEF Descriptors
      <4> QED BY <3>2, <4>1, FiniteTable
    <3>4. refcnt'[d] > 0
      <4>1. refcnt'[d] >= Cardinality(Descriptors(d)') /\ refcnt'[d] \in Nat
        BY <1>8, <1>11 DEF RefsCovered
      <4> QED BY <3>3, <4>1
    <3> QED BY <1>7, <1>8, <3>4 DEF FreesPipe
  <2> QED BY <1>8, <1>9, <2>1, <2>2 DEF Inv, TablesOK, Ends
<1> QED BY <1>10, <1>11, <1>12, <1>13 DEF Inv

LEMMA KeepExit ==
  ASSUME Inv, NEW p \in Procs, process_exit(p) \/ exit_done(p)
  PROVE  Inv'
<1>1. /\ UNCHANGED <<pipe, uiotab, refcnt, rbuf, bufsz, buf>>
      /\ \/ pc' = [pc EXCEPT ![p] = "exiting"]
         \/ pc' = [pc EXCEPT ![p] = "gone"] /\ \A fd \in Fds : uiotab[p][fd] = "none"
  BY DEF process_exit, exit_done
<1>2. RefsCovered' /\ \A q, e : Refs(q, e)' = Refs(q, e)
  BY <1>1, SameTables
<1>3. TypeOK' /\ TablesOK'
  BY <1>1, <1>2 DEF Inv, TypeOK, TablesOK
<1>4. SleepsJustified'
  BY <1>1 DEF Inv, TypeOK, SleepsJustified
<1> QED BY <1>2, <1>3, <1>4 DEF Inv

---------------------------------------------------------------------------
(* The theorems.                                                           *)

LEMMA NextInv == Inv /\ [Next]_vars => Inv'
<1> SUFFICES ASSUME Inv, [Next]_vars PROVE Inv'
  OBVIOUS
<1>1. ASSUME NEW p \in Procs, exit_close(p) PROVE Inv'
  BY <1>1, KeepClose DEF exit_close
<1>2. ASSUME NEW p \in Procs, NEW fd \in Fds, sysclose(p, fd) PROVE Inv'
  BY <1>2, KeepClose DEF sysclose
<1>3. CASE Next
  BY <1>1, <1>2, <1>3, KeepSyspipe, KeepRead, KeepWrite, KeepDup, KeepFork, KeepForkFails,
     KeepExit DEF Next
<1>4. CASE UNCHANGED vars
  <2>1. RefsCovered' /\ \A q, e : Refs(q, e)' = Refs(q, e)
    BY <1>4, SameTables DEF vars
  <2> QED BY <1>4, <2>1 DEF vars, Inv, TypeOK, TablesOK, SleepsJustified
<1> QED BY <1>3, <1>4

(* The inductive invariant: the counts cover the descriptors, descriptors  *)
(* exist only while the pipe does, and a process asleep in a call keeps    *)
(* the one it called with.                                                 *)
THEOREM Invariance == Spec => []Inv
BY InitInv, NextInv, PTL DEF Spec

(* No end is closed under a descriptor, whatever fork, failed forks,       *)
(* uiodup, close and exit do in whatever order.                            *)
THEOREM CoveredRefs == Spec => []RefsCovered
<1>1. Inv => RefsCovered
  BY DEF Inv
<1> QED BY <1>1, Invariance, PTL

(* The pipe is freed once, never under a process that sleeps in pipe_read  *)
(* or pipe_write or that holds a descriptor.                               *)
THEOREM FreedOnce == Spec => []NoUseAfterFree
<1>1. Inv => NoUseAfterFree
  BY DEF Inv, TypeOK, TablesOK, NoUseAfterFree, Waiting, Refs, Ends
<1> QED BY <1>1, Invariance, PTL

(* No lost wakeup on either condition of a pipe: every transfer and every  *)
(* last close wakes those whose reason to sleep it ends.                   *)
THEOREM JustifiedSleeps == Spec => []SleepsJustified
<1>1. Inv => SleepsJustified
  BY DEF Inv
<1> QED BY <1>1, Invariance, PTL

---------------------------------------------------------------------------
(* Loops.                                                                  *)

(* A non-empty set of natural numbers has a least member.                  *)
LEMMA LeastNumber ==
  ASSUME NEW T, T \subseteq Nat, T # {}
  PROVE  \E x \in T : \A y \in T : x <= y
<1>1. IsWellFoundedOn(OpToRel(<, Nat), Nat)
  BY NatLessThanWellFounded
<1>2. PICK x \in T : \A y \in T : ~(<<y, x>> \in OpToRel(<, Nat))
  BY <1>1, WFMin
<1>3. \A y \in T : ~(y < x)
  BY <1>2 DEF OpToRel
<1> QED BY <1>3

(* What holds before a loop and is kept by its first n iterations.         *)
LEMMA Iterations ==
  ASSUME NEW n \in Nat, NEW T, 0 \in T, \A i \in 0 .. n : i < n /\ i \in T => i + 1 \in T
  PROVE  \A i \in 0 .. n : i \in T
<1> SUFFICES ASSUME NEW m \in 0 .. n, m \notin T PROVE FALSE
  OBVIOUS
<1>1. PICK k \in {i \in 0 .. n : i \notin T} : \A j \in {i \in 0 .. n : i \notin T} : k <= j
  <2>1. {i \in 0 .. n : i \notin T} \subseteq Nat /\ {i \in 0 .. n : i \notin T} # {}
    OBVIOUS
  <2> QED BY <2>1, LeastNumber
<1>2. k # 0 /\ k - 1 \in 0 .. n /\ ~(k <= k - 1) /\ k - 1 < n /\ (k - 1) + 1 = k
  OBVIOUS
<1>3. k - 1 \in T
  BY <1>1, <1>2
<1> QED BY <1>2, <1>3

(* f lists the values a loop of n iterations goes through from base, its   *)
(* body being the function step.                                           *)
Loop(f, S, base, step, n) ==
  f \in [0 .. n -> S] /\ f[0] = base /\ \A i \in 1 .. n : f[i] = step[i][f[i - 1]]

(* Every loop computes something.                                          *)
LEMMA LoopExists ==
  ASSUME NEW S, NEW base \in S, NEW step, \A x \in S, i \in Nat : step[i][x] \in S, NEW n \in Nat
  PROVE  \E f : Loop(f, S, base, step, n)
<1> DEFINE Computes(f, m) == /\ f \in [0 .. m -> S] /\ f[0] = base
                             /\ \A i \in 1 .. m : f[i] = step[i][f[i - 1]]
           T == {m \in 0 .. n : \E f : Computes(f, m)}
<1>1. 0 \in T
  <2> DEFINE f == [i \in 0 .. 0 |-> base]
  <2>1. Computes(f, 0)
    OBVIOUS
  <2> HIDE DEF f, Computes
  <2>2. 0 \in 0 .. n
    OBVIOUS
  <2> QED BY <2>1, <2>2
<1>2. ASSUME NEW m \in 0 .. n, m < n, m \in T PROVE m + 1 \in T
  <2> HIDE DEF Computes
  <2>1. PICK f : Computes(f, m)
    BY <1>2
  <2> DEFINE g == [i \in 0 .. m + 1 |-> IF i <= m THEN f[i] ELSE step[m + 1][f[m]]]
  <2>2. /\ f \in [0 .. m -> S] /\ f[0] = base
        /\ \A i \in 1 .. m : f[i] = step[i][f[i - 1]]
    BY <2>1 DEF Computes
  <2>3. f[m] \in S /\ step[m + 1][f[m]] \in S
    BY <2>2
  <2>4. g \in [0 .. m + 1 -> S] /\ g[0] = base
    BY <2>2, <2>3
  <2>5. ASSUME NEW i \in 1 .. m + 1 PROVE g[i] = step[i][g[i - 1]]
    <3>1. i - 1 \in 0 .. m /\ g[i - 1] = f[i - 1]
      OBVIOUS
    <3>2. CASE i <= m
      BY <3>1, <3>2, <2>2
    <3>3. CASE i = m + 1
      BY <3>1, <3>3
    <3> QED BY <3>2, <3>3
  <2> HIDE DEF g
  <2>6. Computes(g, m + 1)
    BY <2>4, <2>5 DEF Computes
  <2>7. m + 1 \in 0 .. n
    BY <1>2
  <2> QED BY <2>6, <2>7
<1> HIDE DEF T
<1>3. n \in T
  <2>1. \A i \in 0 .. n : i < n /\ i \in T => i + 1 \in T
    BY <1>2
  <2>2. \A i \in 0 .. n : i \in T
    BY <1>1, <2>1, Iterations
  <2> QED BY <2>2
<1>4. PICK f : Computes(f, n)
  BY <1>3 DEF T
<1> QED BY <1>4 DEF Loop

---------------------------------------------------------------------------
(* The ring buffer.                                                        *)

AnyByte == Bytes \cup {0}
Ring == [hpos : Nat, tpos : Nat, data : [0 .. CAP - 1 -> AnyByte]]

(* A ring whose positions have not wrapped and that is not overfull.       *)
Sound(rb) ==
  rb \in Ring /\ rb.hpos <= rb.tpos /\ rb.tpos <= rb.hpos + CAP /\ rb.tpos < IDX

LEMMA Division ==
  ASSUME NEW a \in Nat, NEW b \in Nat, b > 0
  PROVE  /\ a \div b \in Nat /\ a % b \in Nat /\ a % b < b
         /\ a = b * (a \div b) + (a % b)
OBVIOUS

LEMMA Remainder ==
  ASSUME NEW b \in Nat, b > 0, NEW q \in Int, NEW r \in Nat, r < b
  PROVE  (b * q + r) % b = r
OBVIOUS

LEMMA SmallRemainder ==
  ASSUME NEW a \in Nat, NEW b \in Nat, a < b
  PROVE  a % b = a
<1>1. (b * 0 + a) % b = a
  BY Remainder
<1> QED BY <1>1

LEMMA Slot ==
  ASSUME NEW x \in Nat
  PROVE  x % CAP \in 0 .. CAP - 1
BY RingAssumption, Division

(* Less than a buffer apart, two positions are two slots.                  *)
LEMMA Apart ==
  ASSUME NEW x \in Nat, NEW d \in 1 .. CAP - 1
  PROVE  (x + d) % CAP # x % CAP
<1>1. CAP \in Nat /\ CAP > 0
  BY RingAssumption
<1>2. PICK q \in Nat, r \in Nat : r < CAP /\ x = CAP * q + r /\ x % CAP = r
  BY <1>1, Division
<1>3. CASE r + d < CAP
  <2>1. x + d = CAP * q + (r + d)
    BY <1>1, <1>2
  <2>2. (CAP * q + (r + d)) % CAP = r + d
    BY <1>1, <1>2, <1>3, Remainder
  <2> QED
    BY <1>1, <1>2, <2>1, <2>2
<1>4. CASE r + d >= CAP
  <2>1. x + d = CAP * (q + 1) + (r + d - CAP)
    BY <1>1, <1>2
  <2>2. PICK e \in Nat : e = r + d - CAP /\ e < CAP
    BY <1>1, <1>2, <1>4
  <2>3. PICK p \in Int : p = q + 1
    BY <1>2
  <2>4. (CAP * p + e) % CAP = e
    BY <1>1, <2>2, Remainder
  <2> QED
    BY <1>1, <1>2, <2>1, <2>2, <2>3, <2>4
<1> QED
  BY <1>1, <1>2, <1>3, <1>4

LEMMA EmptyFull ==
  ASSUME NEW rb, Sound(rb)
  PROVE  /\ rb.hpos \in Nat /\ rb.tpos \in Nat
         /\ (rb.tpos - rb.hpos) % FIELD = rb.tpos - rb.hpos
         /\ rbuf_empty(rb) <=> rb.tpos = rb.hpos
         /\ rbuf_full(rb) <=> rb.tpos = rb.hpos + CAP
<1>1. /\ rb.hpos \in Nat /\ rb.tpos \in Nat /\ CAP \in Nat /\ IDX \in Nat /\ FIELD \in Nat
      /\ IDX <= FIELD /\ rb.hpos <= rb.tpos /\ rb.tpos < IDX
  BY RingAssumption DEF Sound, Ring
<1>2. (rb.tpos - rb.hpos) % FIELD = rb.tpos - rb.hpos
  <2>1. PICK a \in Nat : a = rb.tpos - rb.hpos /\ a < FIELD
    BY <1>1
  <2> QED BY <1>1, <2>1, SmallRemainder
<1>3. rbuf_empty(rb) <=> rb.tpos = rb.hpos
  BY DEF rbuf_empty
<1>4. rbuf_full(rb) <=> rb.tpos = rb.hpos + CAP
  BY <1>1, <1>2 DEF rbuf_full
<1> QED BY <1>1, <1>2, <1>3, <1>4

LEMMA RingPut ==
  ASSUME NEW S, NEW rb \in [hpos : Nat, tpos : Nat, data : S], NEW D \in S, NEW t \in Nat
  PROVE  LET g == [rb EXCEPT !.data = D, !.tpos = t] IN
         /\ g.hpos = rb.hpos /\ g.tpos = t /\ g.data = D
         /\ g \in [hpos : Nat, tpos : Nat, data : S]
OBVIOUS

(* One byte in, at the position behind the last.                           *)
LEMMA PutByte ==
  ASSUME NEW rb, Sound(rb), NEW c \in AnyByte, ~rbuf_full(rb), rb.tpos + 1 < IDX
  PROVE  /\ Sound(rbuf_putc(rb, c))
         /\ rbuf_putc(rb, c).hpos = rb.hpos
         /\ rbuf_putc(rb, c).tpos = rb.tpos + 1
         /\ rbuf_putc(rb, c).data = [rb.data EXCEPT ![rb.tpos % CAP] = c]
<1> DEFINE g == rbuf_putc(rb, c)
<1>1. PICK h \in Nat, t \in Nat : /\ h = rb.hpos /\ t = rb.tpos /\ h <= t /\ t < h + CAP /\ t + 1 < IDX
                                  /\ t % IDX = t /\ (t + 1) % IDX = t + 1
  <2>1. rb.hpos \in Nat /\ rb.tpos \in Nat /\ CAP \in Nat /\ IDX \in Nat /\ rb.tpos < IDX
        /\ rb.hpos <= rb.tpos /\ rb.tpos < rb.hpos + CAP
    BY EmptyFull, RingAssumption DEF Sound
  <2>2. rb.tpos % IDX = rb.tpos /\ (rb.tpos + 1) % IDX = rb.tpos + 1
    BY <2>1, SmallRemainder
  <2> QED BY <2>1, <2>2
<1>2. g = [rb EXCEPT !.data = [rb.data EXCEPT ![(rb.tpos % IDX) % CAP] = c],
                     !.tpos = ((rb.tpos % IDX) + 1) % IDX]
  BY DEF rbuf_putc, Sound, Ring
<1>3. g = [rb EXCEPT !.data = [rb.data EXCEPT ![t % CAP] = c], !.tpos = t + 1]
  BY <1>1, <1>2
<1>4. t % CAP \in 0 .. CAP - 1
  BY Slot
<1>5. [rb.data EXCEPT ![t % CAP] = c] \in [0 .. CAP - 1 -> AnyByte]
  BY <1>4 DEF Sound, Ring
<1>6. /\ g.hpos = h /\ g.tpos = t + 1 /\ g.data = [rb.data EXCEPT ![t % CAP] = c] /\ g \in Ring
  <2>1. PICK D \in [0 .. CAP - 1 -> AnyByte] : D = [rb.data EXCEPT ![t % CAP] = c]
    BY <1>5
  <2>2. g = [rb EXCEPT !.data = D, !.tpos = t + 1] /\ rb \in Ring
    BY <1>3, <2>1 DEF Sound
  <2>3. g.hpos = rb.hpos /\ g.tpos = t + 1 /\ g.data = D /\ g \in Ring
    <3> HIDE DEF g
    <3>1. t + 1 \in Nat
      OBVIOUS
    <3> QED BY <2>2, <3>1, RingPut DEF Ring
  <2> QED BY <1>1, <2>1, <2>3
<1>7. Sound(g)
  BY <1>1, <1>6, RingAssumption DEF Sound
<1> QED BY <1>1, <1>6, <1>7

(* One byte out, at the head.                                              *)
LEMMA GetByte ==
  ASSUME NEW rb, Sound(rb), ~rbuf_empty(rb)
  PROVE  /\ Sound(rbuf_getc(rb))
         /\ rbuf_getc(rb).hpos = rb.hpos + 1
         /\ rbuf_getc(rb).tpos = rb.tpos
         /\ rbuf_getc(rb).data = rb.data
         /\ HeadByte(rb) = rb.data[rb.hpos % CAP] /\ HeadByte(rb) \in AnyByte
<1> DEFINE g == rbuf_getc(rb)
<1>1. PICK h \in Nat, t \in Nat : /\ h = rb.hpos /\ t = rb.tpos /\ h < t /\ t <= h + CAP /\ t < IDX
                                  /\ h % IDX = h /\ (h + 1) % IDX = h + 1
  <2>1. rb.hpos \in Nat /\ rb.tpos \in Nat /\ CAP \in Nat /\ IDX \in Nat /\ rb.tpos < IDX
        /\ rb.hpos < rb.tpos /\ rb.tpos <= rb.hpos + CAP
    BY EmptyFull, RingAssumption DEF Sound
  <2>2. rb.hpos % IDX = rb.hpos /\ (rb.hpos + 1) % IDX = rb.hpos + 1
    BY <2>1, SmallRemainder
  <2> QED BY <2>1, <2>2
<1>2. g = [rb EXCEPT !.hpos = h + 1]
  BY <1>1 DEF rbuf_getc
<1>3. g.hpos = h + 1 /\ g.tpos = t /\ g.data = rb.data /\ g \in Ring
  BY <1>1, <1>2 DEF Sound, Ring
<1>4. Sound(g)
  BY <1>1, <1>3, RingAssumption DEF Sound
<1>5. h % CAP \in 0 .. CAP - 1
  BY Slot
<1>6. HeadByte(rb) = rb.data[h % CAP] /\ HeadByte(rb) \in AnyByte
  BY <1>1, <1>5 DEF HeadByte, Sound, Ring
<1> QED BY <1>1, <1>3, <1>4, <1>6

---------------------------------------------------------------------------
(* The write loop.                                                         *)

(* What k bytes of m have made of ring rb: the first a.n of them follow    *)
(* what was there.                                                         *)
PutState(rb, m, k, a) ==
  /\ a.n \in 0 .. k /\ Sound(a.rb)
  /\ a.rb.hpos = rb.hpos /\ a.rb.tpos = rb.tpos + a.n
  /\ rbuf_full(a.rb) \/ a.n = k
  /\ \A i \in Nat : rb.hpos <= i /\ i < rb.tpos => a.rb.data[i % CAP] = rb.data[i % CAP]
  /\ \A i \in 1 .. a.n : a.rb.data[(rb.tpos + i - 1) % CAP] = m[i]

PutStep(m, k, a) == IF rbuf_full(a.rb) THEN a ELSE [rb |-> rbuf_putc(a.rb, m[k]), n |-> a.n + 1]

LEMMA PutBase ==
  ASSUME NEW rb, Sound(rb), NEW m
  PROVE  PutState(rb, m, 0, [rb |-> rb, n |-> 0])
<1> DEFINE a == [rb |-> rb, n |-> 0]
<1>1. a.rb = rb /\ a.n = 0
  OBVIOUS
<1> HIDE DEF a
<1>2. rb.tpos \in Nat
  BY EmptyFull
<1>3. PutState(rb, m, 0, a)
  BY <1>1, <1>2 DEF PutState
<1> QED BY <1>3 DEF a

LEMMA PutNext ==
  ASSUME NEW rb, Sound(rb), NEW m \in Seq(AnyByte), rb.tpos + Len(m) < IDX,
         NEW k \in 1 .. Len(m), NEW a, PutState(rb, m, k - 1, a)
  PROVE  PutState(rb, m, k, PutStep(m, k, a))
<1>1. PICK n \in 0 .. k - 1 : n = a.n
  BY DEF PutState
<1>2. PICK h \in Nat, t \in Nat : h = rb.hpos /\ t = rb.tpos /\ h <= t
  BY EmptyFull DEF Sound
<1>3. /\ Sound(a.rb) /\ a.rb.hpos = h /\ a.rb.tpos = t + n
      /\ \A i \in Nat : h <= i /\ i < t => a.rb.data[i % CAP] = rb.data[i % CAP]
      /\ \A i \in 1 .. n : a.rb.data[(t + i - 1) % CAP] = m[i]
      /\ rbuf_full(a.rb) \/ n = k - 1
  BY <1>1, <1>2 DEF PutState
<1>4. CASE rbuf_full(a.rb)
  <2>1. PutStep(m, k, a) = a
    BY <1>4 DEF PutStep
  <2>2. PutState(rb, m, k, a)
    BY <1>1, <1>4 DEF PutState
  <2> QED BY <2>1, <2>2
<1>5. CASE ~rbuf_full(a.rb)
  <2> DEFINE g == rbuf_putc(a.rb, m[k])
             b == [rb |-> g, n |-> n + 1]
  <2>1. PutStep(m, k, a) = b
    BY <1>1, <1>5 DEF PutStep
  <2>2. m[k] \in AnyByte /\ n = k - 1 /\ n + 1 = k
    BY <1>3, <1>5
  <2>3. a.rb.tpos + 1 < IDX
    BY <1>2, <1>3, RingAssumption
  <2>4. /\ Sound(g) /\ g.hpos = h /\ g.tpos = (t + n) + 1
        /\ g.data = [a.rb.data EXCEPT ![(t + n) % CAP] = m[k]]
    BY <1>3, <1>5, <2>2, <2>3, PutByte
  <2>5. b.rb = g /\ b.n = n + 1
    OBVIOUS
  <2> HIDE DEF g, b
  <2>6. (t + n) % CAP \in 0 .. CAP - 1 /\ DOMAIN a.rb.data = 0 .. CAP - 1
    BY <1>3, Slot DEF Sound, Ring
  <2>7. t + n < h + CAP
    <3>1. a.rb.tpos # a.rb.hpos + CAP
      BY <1>3, <1>5, EmptyFull
    <3>2. a.rb.tpos <= a.rb.hpos + CAP
      BY <1>3 DEF Sound
    <3>3. CAP \in Nat
      BY RingAssumption
    <3>4. t + n # h + CAP /\ t + n <= h + CAP
      BY <1>3, <3>1, <3>2
    <3>5. n \in Nat
      OBVIOUS
    <3> QED BY <3>3, <3>4, <3>5
  <2>8. ASSUME NEW i \in Nat, h <= i, i < t + n PROVE g.data[i % CAP] = a.rb.data[i % CAP]
    <3>1. PICK d \in 1 .. CAP - 1 : t + n = i + d
      <4>1. t + n - i \in 1 .. CAP - 1
        BY <2>7, <2>8, RingAssumption
      <4> QED BY <4>1
    <3>2. (i + d) % CAP # i % CAP
      BY Apart
    <3>3. i % CAP \in 0 .. CAP - 1
      BY Slot
    <3>4. i % CAP # (t + n) % CAP
      BY <3>1, <3>2
    <3> QED BY <2>4, <2>6, <3>3, <3>4
  <2>9. g.data[(t + n) % CAP] = m[k]
    BY <2>4, <2>6
  <2>10. \A i \in Nat : h <= i /\ i < t => g.data[i % CAP] = rb.data[i % CAP]
    BY <1>3, <2>8
  <2>11. ASSUME NEW i \in 1 .. n + 1 PROVE g.data[(t + i - 1) % CAP] = m[i]
    <3>1. CASE i = n + 1
      <4>1. t + i - 1 = t + n /\ i = k
        BY <2>2, <3>1
      <4> QED BY <2>9, <4>1
    <3>2. CASE i # n + 1
      <4>1. i \in 1 .. n /\ t + i - 1 \in Nat /\ h <= t + i - 1 /\ t + i - 1 < t + n
        BY <1>2, <3>2
      <4>2. PICK j \in Nat : j = t + i - 1
        BY <4>1
      <4>3. g.data[j % CAP] = a.rb.data[j % CAP]
        BY <2>8, <4>1, <4>2
      <4> QED BY <1>3, <4>1, <4>2, <4>3
    <3> QED BY <3>1, <3>2
  <2>12. PutState(rb, m, k, b)
    <3>1. b.n \in 0 .. k /\ Sound(b.rb) /\ b.n = k
      BY <2>2, <2>4, <2>5
    <3>a. (t + n) + 1 = t + (n + 1)
      BY <1>1, <1>2
    <3>2. b.rb.hpos = rb.hpos /\ b.rb.tpos = rb.tpos + b.n
      BY <1>2, <2>4, <2>5, <3>a
    <3>3. \A i \in Nat : rb.hpos <= i /\ i < rb.tpos => b.rb.data[i % CAP] = rb.data[i % CAP]
      BY <1>2, <2>5, <2>10
    <3>4. \A i \in 1 .. b.n : b.rb.data[(rb.tpos + i - 1) % CAP] = m[i]
      BY <1>2, <2>5, <2>11
    <3> QED BY <3>1, <3>2, <3>3, <3>4 DEF PutState
  <2> QED BY <2>1, <2>12
<1> QED BY <1>4, <1>5

(* The states of the loop as values, whatever it does with them.           *)
PutStates == [rb : Ring, n : Nat]

LEMMA PutClosed ==
  ASSUME NEW a \in PutStates, NEW c \in AnyByte, IDX > 0
  PROVE  [rb |-> rbuf_putc(a.rb, c), n |-> a.n + 1] \in PutStates
<1>1. PICK r \in Ring : r = a.rb
  BY DEF PutStates
<1>2. r.tpos \in Nat /\ IDX \in Nat /\ r.data \in [0 .. CAP - 1 -> AnyByte]
  BY RingAssumption DEF Ring
<1>3. PICK x \in Nat : x = r.tpos % IDX
  BY <1>2, Division
<1>4. PICK y \in Nat : y = (x + 1) % IDX
  <2>1. x + 1 \in Nat
    OBVIOUS
  <2> QED BY <1>2, <2>1, Division
<1>5. x % CAP \in 0 .. CAP - 1
  BY Slot
<1>6. PICK D \in [0 .. CAP - 1 -> AnyByte] : D = [r.data EXCEPT ![x % CAP] = c]
  BY <1>2, <1>5
<1>7. rbuf_putc(r, c) = [r EXCEPT !.data = D, !.tpos = y]
  BY <1>3, <1>4, <1>6 DEF rbuf_putc, Ring
<1>8. rbuf_putc(r, c) \in Ring
  BY <1>7, RingPut DEF Ring
<1> QED BY <1>1, <1>8 DEF PutStates

(* PutBytes appends as many bytes as there is room for.                    *)
LEMMA PutLoop ==
  ASSUME NEW rb, Sound(rb), NEW m \in Seq(AnyByte), Len(m) > 0, rb.tpos + Len(m) < IDX
  PROVE  PutState(rb, m, Len(m), PutBytes(rb, m))
<1> DEFINE n == Len(m)
           base == [rb |-> rb, n |-> 0]
           at(i) == IF i \in 1 .. n THEN i ELSE 1
           step == [i \in Nat |-> [a \in PutStates |-> PutStep(m, at(i), a)]]
           IsPut(p) == p = [k \in 0 .. n |->
                              IF k = 0 THEN [rb |-> rb, n |-> 0]
                              ELSE LET a == p[k - 1] IN
                                   IF rbuf_full(a.rb) THEN a
                                   ELSE [rb |-> rbuf_putc(a.rb, m[k]), n |-> a.n + 1]]
           put == CHOOSE p : IsPut(p)
<1>1. n \in Nat /\ \A i \in 1 .. n : m[i] \in AnyByte
  OBVIOUS
<1>2. IDX > 0 /\ rb \in Ring
  BY EmptyFull, RingAssumption DEF Sound
<1>3. PICK f : Loop(f, PutStates, base, step, n)
  <2>1. ASSUME NEW x \in PutStates, NEW i \in Nat PROVE step[i][x] \in PutStates
    <3>1. at(i) \in 1 .. n
      BY <1>1
    <3>2. PICK c \in AnyByte : c = m[at(i)]
      BY <1>1, <3>1
    <3>3. PutStep(m, at(i), x) \in PutStates
      <4> HIDE DEF at
      <4> QED BY <1>2, <3>2, PutClosed DEF PutStep
    <3> QED BY <3>3
  <2>2. base \in PutStates
    BY <1>2 DEF PutStates
  <2> HIDE DEF step, base, n
  <2> QED BY <1>1, <2>1, <2>2, LoopExists
<1>4. ASSUME NEW i \in 1 .. n PROVE f[i] = PutStep(m, i, f[i - 1])
  <2> HIDE DEF step
  <2>0. f \in [0 .. n -> PutStates] /\ \A k \in 1 .. n : f[k] = step[k][f[k - 1]]
    <3> HIDE DEF n, base
    <3> QED BY <1>3 DEF Loop
  <2>a. i \in Nat /\ i - 1 \in 0 .. n
    BY <1>1
  <2>1. i \in Nat /\ f[i - 1] \in PutStates /\ f[i] = step[i][f[i - 1]]
    <3> HIDE DEF n
    <3> QED BY <2>0, <2>a
  <2>2. at(i) = i
    OBVIOUS
  <2> HIDE DEF at
  <2> USE DEF step
  <2> QED BY <2>1, <2>2
<1>5. IsPut(f)
  <2> DEFINE g == [k \in 0 .. n |->
                     IF k = 0 THEN [rb |-> rb, n |-> 0]
                     ELSE LET a == f[k - 1] IN
                          IF rbuf_full(a.rb) THEN a
                          ELSE [rb |-> rbuf_putc(a.rb, m[k]), n |-> a.n + 1]]
  <2>1. f \in [0 .. n -> PutStates] /\ f[0] = base
    BY <1>3 DEF Loop
  <2>2. ASSUME NEW k \in 0 .. n PROVE f[k] = g[k]
    <3>1. CASE k = 0
      BY <2>1, <3>1
    <3>2. CASE k # 0
      <4>1. k \in 1 .. n
        BY <1>1, <3>2
      <4>2. f[k] = PutStep(m, k, f[k - 1])
        BY <1>4, <4>1
      <4> QED BY <3>2, <4>2 DEF PutStep
    <3> QED BY <3>1, <3>2
  <2>3. f = g
    BY <2>1, <2>2
  <2> QED BY <2>3
<1>6. IsPut(put)
  <2> HIDE DEF IsPut
  <2> QED BY <1>5
<1>7. PutBytes(rb, m) = put[n]
  BY DEF PutBytes
<1> HIDE DEF put
<1>8. put[0] = base /\ \A k \in 1 .. n : put[k] = PutStep(m, k, put[k - 1])
  BY <1>1, <1>6 DEF PutStep
<1> DEFINE T == {k \in 0 .. n : PutState(rb, m, k, put[k])}
<1> HIDE DEF IsPut, step, at
<1>9. 0 \in T
  BY <1>1, <1>8, PutBase
<1>10. ASSUME NEW i \in 0 .. n, i < n, i \in T PROVE i + 1 \in T
  <2>1. i + 1 \in 1 .. Len(m) /\ (i + 1) - 1 = i
    BY <1>10
  <2>2. PICK k \in 1 .. Len(m) : k = i + 1 /\ k - 1 = i
    BY <2>1
  <2>3. PutState(rb, m, k - 1, put[k - 1])
    BY <1>10, <2>2
  <2>4. PutState(rb, m, k, PutStep(m, k, put[k - 1]))
    BY <2>3, PutNext
  <2>5. put[k] = PutStep(m, k, put[k - 1])
    BY <1>8
  <2> QED BY <2>2, <2>4, <2>5
<1>11. n \in T
  <2> HIDE DEF T
  <2>1. \A i \in 0 .. n : i < n /\ i \in T => i + 1 \in T
    BY <1>10
  <2> HIDE DEF n
  <2>2. \A i \in 0 .. n : i \in T
    BY <1>1, <1>9, <2>1, Iterations
  <2> QED BY <1>1, <2>2
<1> QED BY <1>7, <1>11

---------------------------------------------------------------------------
(* The read loop.                                                          *)

(* What k turns have made of ring rb: a.out are its first bytes, and it    *)
(* still has the others.                                                   *)
GetState(rb, k, a) ==
  /\ a.out \in Seq(AnyByte) /\ Len(a.out) <= k /\ Sound(a.rb)
  /\ a.rb.hpos = rb.hpos + Len(a.out) /\ a.rb.tpos = rb.tpos /\ a.rb.data = rb.data
  /\ rbuf_empty(a.rb) \/ Len(a.out) = k
  /\ \A i \in 1 .. Len(a.out) : a.out[i] = rb.data[(rb.hpos + i - 1) % CAP]

GetStep(a) == IF rbuf_empty(a.rb) THEN a
              ELSE [rb |-> rbuf_getc(a.rb), out |-> Append(a.out, HeadByte(a.rb))]

LEMMA GetBase ==
  ASSUME NEW rb, Sound(rb)
  PROVE  GetState(rb, 0, [rb |-> rb, out |-> <<>>])
<1> DEFINE a == [rb |-> rb, out |-> <<>>]
<1>1. a.rb = rb /\ a.out = <<>>
  OBVIOUS
<1> HIDE DEF a
<1>2. rb.hpos \in Nat
  BY EmptyFull
<1>3. a.out \in Seq(AnyByte) /\ Len(a.out) = 0
  BY <1>1
<1>4. GetState(rb, 0, a)
  BY <1>1, <1>2, <1>3 DEF GetState
<1> QED BY <1>4 DEF a

LEMMA GetNext ==
  ASSUME NEW rb, Sound(rb), NEW k \in Nat \ {0}, NEW a, GetState(rb, k - 1, a)
  PROVE  GetState(rb, k, GetStep(a))
<1>1. PICK h \in Nat, t \in Nat : h = rb.hpos /\ t = rb.tpos
  BY EmptyFull
<1>2. PICK o \in Seq(AnyByte) : o = a.out
  BY DEF GetState
<1>3. /\ Len(o) \in Nat /\ Len(o) <= k - 1
      /\ Sound(a.rb) /\ a.rb.hpos = h + Len(o) /\ a.rb.tpos = t /\ a.rb.data = rb.data
      /\ rbuf_empty(a.rb) \/ Len(o) = k - 1
      /\ \A i \in 1 .. Len(o) : o[i] = rb.data[(h + i - 1) % CAP]
  BY <1>1, <1>2 DEF GetState
<1>4. CASE rbuf_empty(a.rb)
  <2>1. GetStep(a) = a
    BY <1>4 DEF GetStep
  <2>2. Len(a.out) <= k
    BY <1>2, <1>3
  <2>3. GetState(rb, k, a)
    BY <1>4, <2>2 DEF GetState
  <2> QED BY <2>1, <2>3
<1>5. CASE ~rbuf_empty(a.rb)
  <2> DEFINE g == rbuf_getc(a.rb)
             c == HeadByte(a.rb)
             q == Append(o, c)
             b == [rb |-> g, out |-> q]
  <2>1. GetStep(a) = b
    BY <1>2, <1>5 DEF GetStep
  <2>2. /\ Sound(g) /\ g.hpos = (h + Len(o)) + 1 /\ g.tpos = t /\ g.data = rb.data
        /\ c = rb.data[(h + Len(o)) % CAP] /\ c \in AnyByte
    BY <1>3, <1>5, GetByte
  <2>3. b.rb = g /\ b.out = q
    OBVIOUS
  <2> HIDE DEF g, c, b
  <2>4. q \in Seq(AnyByte) /\ Len(q) = Len(o) + 1
    BY <2>2
  <2>5. ASSUME NEW i \in 1 .. Len(o) + 1 PROVE q[i] = rb.data[(h + i - 1) % CAP]
    <3>1. CASE i = Len(o) + 1
      <4>1. q[i] = c
        BY <3>1
      <4>2. h + i - 1 = h + Len(o)
        BY <1>3, <3>1
      <4> QED BY <2>2, <4>1, <4>2
    <3>2. CASE i # Len(o) + 1
      <4>1. i \in 1 .. Len(o)
        BY <1>3, <3>2
      <4>2. q[i] = o[i]
        BY <4>1
      <4> QED BY <1>3, <4>1, <4>2
    <3> QED BY <3>1, <3>2
  <2> HIDE DEF q
  <2>6. GetState(rb, k, b)
    <3>1. b.out \in Seq(AnyByte) /\ Len(b.out) <= k /\ Sound(b.rb) /\ Len(b.out) = k
      BY <1>3, <1>5, <2>2, <2>3, <2>4
    <3>2. b.rb.hpos = rb.hpos + Len(b.out) /\ b.rb.tpos = rb.tpos /\ b.rb.data = rb.data
      <4>1. (h + Len(o)) + 1 = h + (Len(o) + 1)
        BY <1>3
      <4> QED BY <1>1, <2>2, <2>3, <2>4, <4>1
    <3>3. \A i \in 1 .. Len(b.out) : b.out[i] = rb.data[(rb.hpos + i - 1) % CAP]
      BY <1>1, <2>3, <2>4, <2>5
    <3> QED BY <3>1, <3>2, <3>3 DEF GetState
  <2> QED BY <2>1, <2>6
<1> QED BY <1>4, <1>5

GetStates == [rb : Ring, out : Seq(AnyByte)]

LEMMA GetClosed ==
  ASSUME NEW a \in GetStates, IDX > 0
  PROVE  GetStep(a) \in GetStates
<1>1. PICK r \in Ring, o \in Seq(AnyByte) : r = a.rb /\ o = a.out
  BY DEF GetStates
<1>2. r.hpos \in Nat /\ IDX \in Nat
  BY RingAssumption DEF Ring
<1>3. PICK x \in Nat : x = r.hpos % IDX
  BY <1>2, Division
<1>4. PICK y \in Nat : y = (x + 1) % IDX
  <2>1. x + 1 \in Nat
    OBVIOUS
  <2> QED BY <1>2, <2>1, Division
<1>5. rbuf_getc(r) = [r EXCEPT !.hpos = y]
  BY <1>3, <1>4 DEF rbuf_getc
<1>6. rbuf_getc(r) \in Ring
  BY <1>5 DEF Ring
<1>7. HeadByte(r) \in AnyByte
  <2>1. x % CAP \in 0 .. CAP - 1
    BY Slot
  <2> QED BY <1>3, <2>1 DEF HeadByte, Ring
<1>8. Append(o, HeadByte(r)) \in Seq(AnyByte)
  BY <1>7
<1>9. [rb |-> rbuf_getc(r), out |-> Append(o, HeadByte(r))] \in GetStates
  BY <1>6, <1>8 DEF GetStates
<1> QED BY <1>1, <1>9 DEF GetStep

(* GetBytes takes the first bytes, as many as there are or are asked for.  *)
LEMMA GetLoop ==
  ASSUME NEW rb, Sound(rb), NEW n \in Nat
  PROVE  GetState(rb, n, GetBytes(rb, n))
<1> DEFINE base == [rb |-> rb, out |-> <<>>]
           step == [i \in Nat |-> [a \in GetStates |-> GetStep(a)]]
           IsGet(p) == p = [k \in 0 .. n |->
                              IF k = 0 THEN [rb |-> rb, out |-> <<>>]
                              ELSE LET g == p[k - 1] IN
                                   IF rbuf_empty(g.rb) THEN g
                                   ELSE [rb |-> rbuf_getc(g.rb),
                                         out |-> Append(g.out, HeadByte(g.rb))]]
           get == CHOOSE p : IsGet(p)
<1>1. IDX > 0 /\ rb \in Ring
  BY EmptyFull, RingAssumption DEF Sound
<1>2. PICK f : Loop(f, GetStates, base, step, n)
  <2>1. ASSUME NEW x \in GetStates, NEW i \in Nat PROVE step[i][x] \in GetStates
    BY <1>1, GetClosed
  <2>2. base \in GetStates
    BY <1>1 DEF GetStates
  <2> HIDE DEF step, base
  <2> QED BY <2>1, <2>2, LoopExists
<1>3. f \in [0 .. n -> GetStates] /\ f[0] = base /\ \A i \in 1 .. n : f[i] = step[i][f[i - 1]]
  <2> HIDE DEF step, base
  <2> QED BY <1>2 DEF Loop
<1>4. ASSUME NEW i \in 1 .. n PROVE f[i] = GetStep(f[i - 1])
  <2>1. i \in Nat /\ f[i - 1] \in GetStates
    BY <1>3
  <2>2. f[i] = step[i][f[i - 1]]
    <3> HIDE DEF step
    <3> QED BY <1>3
  <2> QED BY <2>1, <2>2
<1>5. IsGet(f)
  <2> DEFINE h == [k \in 0 .. n |->
                     IF k = 0 THEN [rb |-> rb, out |-> <<>>]
                     ELSE LET g == f[k - 1] IN
                          IF rbuf_empty(g.rb) THEN g
                          ELSE [rb |-> rbuf_getc(g.rb),
                                out |-> Append(g.out, HeadByte(g.rb))]]
  <2>1. ASSUME NEW k \in 0 .. n PROVE f[k] = h[k]
    <3>1. CASE k = 0
      BY <1>3, <3>1
    <3>2. CASE k # 0
      <4>1. k \in 1 .. n
        BY <3>2
      <4>2. f[k] = GetStep(f[k - 1])
        BY <1>4, <4>1
      <4> QED BY <3>2, <4>2 DEF GetStep
    <3> QED BY <3>1, <3>2
  <2>2. f = h
    BY <1>3, <2>1
  <2> QED BY <2>2
<1>6. IsGet(get)
  <2> HIDE DEF IsGet
  <2> QED BY <1>5
<1>7. GetBytes(rb, n) = get[n]
  BY DEF GetBytes
<1> HIDE DEF get
<1>8. get[0] = base /\ \A k \in 1 .. n : get[k] = GetStep(get[k - 1])
  <2>1. \A k \in 0 .. n : get[k] = IF k = 0 THEN [rb |-> rb, out |-> <<>>]
                                   ELSE GetStep(get[k - 1])
    BY <1>6 DEF GetStep
  <2>2. 0 \in 0 .. n /\ \A k \in 1 .. n : k \in 0 .. n /\ k # 0
    OBVIOUS
  <2> HIDE DEF IsGet
  <2> QED BY <2>1, <2>2
<1> DEFINE T == {k \in 0 .. n : GetState(rb, k, get[k])}
<1> HIDE DEF IsGet, step
<1>9. 0 \in T
  BY <1>8, GetBase
<1>10. ASSUME NEW i \in 0 .. n, i < n, i \in T PROVE i + 1 \in T
  <2>1. PICK k \in Nat \ {0} : k = i + 1 /\ k - 1 = i /\ k \in 1 .. n
    BY <1>10
  <2>2. GetState(rb, k - 1, get[k - 1])
    BY <1>10, <2>1
  <2>3. GetState(rb, k, GetStep(get[k - 1]))
    BY <2>2, GetNext
  <2>4. get[k] = GetStep(get[k - 1])
    BY <1>8, <2>1
  <2> QED BY <2>1, <2>3, <2>4
<1>11. n \in T
  <2> HIDE DEF T
  <2>1. \A i \in 0 .. n : i < n /\ i \in T => i + 1 \in T
    BY <1>10
  <2>2. \A i \in 0 .. n : i \in T
    BY <1>9, <2>1, Iterations
  <2> QED BY <2>2
<1> QED BY <1>7, <1>11

---------------------------------------------------------------------------
(* The ring as a channel.                                                  *)

Content(rb) == [i \in 1 .. (rb.tpos - rb.hpos) |-> rb.data[(rb.hpos + i - 1) % CAP]]

LEMMA SameSeq ==
  ASSUME NEW S, NEW s \in Seq(S), NEW t \in Seq(S), Len(s) = Len(t),
         \A i \in 1 .. Len(s) : s[i] = t[i]
  PROVE  s = t
OBVIOUS

LEMMA Concatenation ==
  ASSUME NEW S, NEW s \in Seq(S), NEW t \in Seq(S)
  PROVE  /\ s \o t \in Seq(S) /\ Len(s \o t) = Len(s) + Len(t)
         /\ \A i \in 1 .. Len(t) : (s \o t)[Len(s) + i] = t[i]
<1>1. PICK j \in Nat, k \in Nat : j = Len(s) /\ k = Len(t)
  OBVIOUS
<1>2. s \o t \in Seq(S) /\ Len(s \o t) = Len(s) + Len(t)
  OBVIOUS
<1>3. ASSUME NEW i \in 1 .. k PROVE (s \o t)[j + i] = t[i]
  <2>1. j + i \in 1 .. (j + k) /\ ~(j + i <= j) /\ (j + i) - j = i
    BY <1>1
  <2> QED BY <1>1, <2>1
<1> QED BY <1>1, <1>2, <1>3

LEMMA Prefix ==
  ASSUME NEW S, NEW s \in Seq(S), NEW n \in 1 .. Len(s)
  PROVE  /\ SubSeq(s, 1, n) \in Seq(S) /\ Len(SubSeq(s, 1, n)) = n
         /\ \A i \in 1 .. n : SubSeq(s, 1, n)[i] = s[i]
<1>1. \A i \in 1 .. n : s[i] \in S
  OBVIOUS
<1>2. n \in Int
  OBVIOUS
<1> QED BY <1>1, <1>2, SubSeqProperties

LEMMA Suffix ==
  ASSUME NEW S, NEW s \in Seq(S), NEW n \in 1 .. Len(s)
  PROVE  /\ SubSeq(s, n + 1, Len(s)) \in Seq(S)
         /\ Len(SubSeq(s, n + 1, Len(s))) = Len(s) - n
         /\ \A i \in 1 .. Len(s) - n : SubSeq(s, n + 1, Len(s))[i] = s[n + i]
<1>1. \A i \in n + 1 .. Len(s) : s[i] \in S
  OBVIOUS
<1>2. n + 1 \in Int /\ Len(s) \in Int /\ n <= Len(s)
  OBVIOUS
<1>3. /\ SubSeq(s, n + 1, Len(s)) \in Seq(S)
      /\ Len(SubSeq(s, n + 1, Len(s))) = IF n + 1 <= Len(s) THEN Len(s) - (n + 1) + 1 ELSE 0
      /\ \A i \in 1 .. Len(s) - (n + 1) + 1 : SubSeq(s, n + 1, Len(s))[i] = s[(n + 1) + i - 1]
  BY <1>1, <1>2, SubSeqProperties
<1>4. Len(s) - (n + 1) + 1 = Len(s) - n
  OBVIOUS
<1>5. ASSUME NEW i \in 1 .. Len(s) - n PROVE SubSeq(s, n + 1, Len(s))[i] = s[n + i]
  <2>1. (n + 1) + i - 1 = n + i
    OBVIOUS
  <2> QED BY <1>3, <1>4, <2>1
<1>6. Len(SubSeq(s, n + 1, Len(s))) = Len(s) - n
  <2>1. PICK l \in Nat : l = Len(s)
    OBVIOUS
  <2>2. CASE n + 1 <= l
    BY <1>3, <1>4, <2>1, <2>2
  <2>3. CASE ~(n + 1 <= l)
    <3>1. l - n = 0
      BY <1>2, <2>1, <2>3
    <3> QED BY <1>3, <2>1, <2>3, <3>1
  <2> QED BY <2>2, <2>3
<1> QED BY <1>3, <1>5, <1>6

LEMMA ContentSeq ==
  ASSUME NEW rb, Sound(rb)
  PROVE  /\ Content(rb) \in Seq(AnyByte) /\ Len(Content(rb)) = rb.tpos - rb.hpos
         /\ rb.tpos - rb.hpos \in 0 .. CAP
         /\ \A i \in 1 .. Len(Content(rb)) :
              Content(rb)[i] = rb.data[(rb.hpos + i - 1) % CAP]
<1>1. PICK h \in Nat, u \in Nat : h = rb.hpos /\ u = rb.tpos - rb.hpos /\ u \in 0 .. CAP
  BY EmptyFull, RingAssumption DEF Sound
<1>2. Content(rb) = [i \in 1 .. u |-> rb.data[(h + i - 1) % CAP]]
  BY <1>1 DEF Content
<1>3. ASSUME NEW i \in 1 .. u PROVE rb.data[(h + i - 1) % CAP] \in AnyByte
  <2>1. PICK j \in Nat : j = h + i - 1
    BY <1>1
  <2>2. j % CAP \in 0 .. CAP - 1
    BY Slot
  <2> QED BY <2>1, <2>2 DEF Sound, Ring
<1>4. Content(rb) \in Seq(AnyByte) /\ Len(Content(rb)) = u
  BY <1>2, <1>3
<1> QED BY <1>1, <1>2, <1>4

LEMMA ChanIsContent ==
  ASSUME Sound(rbuf)
  PROVE  chan = Content(rbuf)
BY EmptyFull DEF chan, Unread, Content

(* A write appends what it took of its bytes, at least one.                *)
LEMMA PutContent ==
  ASSUME NEW rb, Sound(rb), ~rbuf_full(rb), NEW m \in Seq(AnyByte), Len(m) > 0,
         NEW a, PutState(rb, m, Len(m), a)
  PROVE  /\ a.n \in 1 .. Len(m)
         /\ Content(a.rb) = Content(rb) \o SubSeq(m, 1, a.n)
         /\ Len(Content(rb)) + a.n <= CAP
<1>1. PICK n \in Nat, l \in Nat : n = a.n /\ l = Len(m) /\ n <= l /\ l > 0
  <2>1. PICK l \in Nat : l = Len(m)
    OBVIOUS
  <2>2. a.n \in 0 .. l
    BY <2>1 DEF PutState
  <2>3. a.n \in Nat /\ a.n <= l
    BY <2>1, <2>2
  <2> QED BY <2>1, <2>3
<1>2. PICK r : r = a.rb
  OBVIOUS
<1>3. PICK h \in Nat, t \in Nat : h = rb.hpos /\ t = rb.tpos /\ h <= t /\ t # h + CAP
  BY EmptyFull DEF Sound
<1>4. /\ Sound(r) /\ r.hpos = h /\ r.tpos = t + n
      /\ \A i \in Nat : h <= i /\ i < t => r.data[i % CAP] = rb.data[i % CAP]
      /\ \A i \in 1 .. n : r.data[(t + i - 1) % CAP] = m[i]
      /\ rbuf_full(r) \/ n = Len(m)
  BY <1>1, <1>2, <1>3 DEF PutState
<1>5. n # 0 /\ n \in 1 .. Len(m)
  <2>1. n # 0
    BY <1>1, <1>3, <1>4, EmptyFull, RingAssumption
  <2>2. n \in 1 .. l
    BY <1>1, <2>1
  <2> QED BY <1>1, <2>1, <2>2
<1>6. PICK c \in Seq(AnyByte), d \in Seq(AnyByte), x \in Nat, y \in Nat :
        /\ c = Content(rb) /\ d = Content(r) /\ Len(c) = x /\ Len(d) = y
        /\ h + x = t /\ y = x + n /\ y <= CAP
        /\ \A i \in 1 .. x : c[i] = rb.data[(h + i - 1) % CAP]
        /\ \A i \in 1 .. y : d[i] = r.data[(h + i - 1) % CAP]
  <2>1. /\ Content(rb) \in Seq(AnyByte) /\ Len(Content(rb)) = t - h
        /\ \A i \in 1 .. Len(Content(rb)) : Content(rb)[i] = rb.data[(h + i - 1) % CAP]
    BY <1>3, ContentSeq
  <2>2. /\ Content(r) \in Seq(AnyByte) /\ Len(Content(r)) = (t + n) - h /\ (t + n) - h \in 0 .. CAP
        /\ \A i \in 1 .. Len(Content(r)) : Content(r)[i] = r.data[(h + i - 1) % CAP]
    BY <1>4, ContentSeq
  <2>3. CAP \in Nat
    BY RingAssumption
  <2>4. PICK x \in Nat : x = t - h
    BY <1>3
  <2>5. PICK y \in Nat : y = (t + n) - h /\ y = x + n /\ h + x = t /\ y <= CAP
    <3>1. x + n = (t + n) - h /\ x + n \in Nat /\ h + x = t
      BY <2>4
    <3>2. x + n <= CAP
      BY <2>2, <2>3, <3>1
    <3> QED BY <3>1, <3>2
  <2> QED BY <2>1, <2>2, <2>4, <2>5
<1>7. PICK e \in Seq(AnyByte) : /\ e = SubSeq(m, 1, n) /\ Len(e) = n
                                /\ \A i \in 1 .. n : e[i] = m[i]
  <2>1. PICK k \in 1 .. Len(m) : k = n
    BY <1>5
  <2>2. /\ SubSeq(m, 1, k) \in Seq(AnyByte) /\ Len(SubSeq(m, 1, k)) = k
        /\ \A i \in 1 .. k : SubSeq(m, 1, k)[i] = m[i]
    BY Prefix
  <2> QED BY <2>1, <2>2
<1>8. ASSUME NEW i \in 1 .. y PROVE d[i] = (c \o e)[i]
  <2>1. CASE i <= x
    <3>1. i \in 1 .. x
      BY <2>1
    <3>2. (c \o e)[i] = c[i]
      BY <1>6, <3>1
    <3>3. PICK j \in Nat : j = h + i - 1 /\ h <= j /\ j < t
      BY <1>6, <2>1
    <3>4. r.data[j % CAP] = rb.data[j % CAP]
      BY <1>4, <3>3
    <3> QED BY <1>6, <3>1, <3>2, <3>3, <3>4
  <2>2. CASE i > x
    <3>1. PICK k \in 1 .. n : i = x + k
      <4>1. i - x \in 1 .. n /\ i = x + (i - x)
        BY <1>6, <2>2
      <4> QED BY <4>1
    <3>2. (c \o e)[i] = e[k]
      <4>1. (c \o e)[Len(c) + k] = e[k]
        BY <1>7, Concatenation
      <4> QED BY <1>6, <3>1, <4>1
    <3>3. PICK j \in Nat : j = h + i - 1 /\ j = t + k - 1
      BY <1>6, <3>1
    <3>4. d[i] = r.data[j % CAP]
      BY <1>6, <3>3
    <3>5. r.data[j % CAP] = m[k]
      BY <1>4, <3>3
    <3> QED BY <1>7, <3>2, <3>4, <3>5
  <2>3. i <= x \/ i > x
    OBVIOUS
  <2> QED BY <2>1, <2>2, <2>3
<1>9. d = c \o e
  <2>1. c \o e \in Seq(AnyByte) /\ Len(c \o e) = y
    BY <1>6, <1>7, Concatenation
  <2>2. PICK s \in Seq(AnyByte) : s = c \o e /\ Len(s) = Len(d)
    BY <1>6, <2>1
  <2>3. \A i \in 1 .. Len(d) : d[i] = s[i]
    BY <1>6, <1>8, <2>2
  <2> QED BY <2>2, <2>3, SameSeq
<1>10. Len(c) + n <= CAP
  BY <1>6
<1> QED BY <1>1, <1>2, <1>5, <1>6, <1>7, <1>9, <1>10

(* A read returns the first bytes, at least one, and leaves the others.    *)
LEMMA GetContent ==
  ASSUME NEW rb, Sound(rb), ~rbuf_empty(rb), NEW n \in Nat \ {0},
         NEW a, GetState(rb, n, a)
  PROVE  /\ Len(a.out) \in 1 .. Len(Content(rb))
         /\ a.out = SubSeq(Content(rb), 1, Len(a.out))
         /\ Content(a.rb) = SubSeq(Content(rb), Len(a.out) + 1, Len(Content(rb)))
<1>1. PICK o \in Seq(AnyByte), k \in Nat : o = a.out /\ k = Len(o)
  BY DEF GetState
<1>2. PICK r : r = a.rb
  OBVIOUS
<1>3. PICK h \in Nat, t \in Nat : h = rb.hpos /\ t = rb.tpos /\ h < t
  BY EmptyFull DEF Sound
<1>4. /\ Sound(r) /\ r.hpos = h + k /\ r.tpos = t /\ r.data = rb.data
      /\ rbuf_empty(r) \/ k = n
      /\ \A i \in 1 .. k : o[i] = rb.data[(h + i - 1) % CAP]
  BY <1>1, <1>2, <1>3 DEF GetState
<1>5. k # 0 /\ h + k <= t
  <2>1. h + k <= t
    BY <1>4 DEF Sound
  <2>2. k # 0
    BY <1>3, <1>4, EmptyFull
  <2> QED BY <2>1, <2>2
<1>6. PICK c \in Seq(AnyByte), d \in Seq(AnyByte), x \in Nat, y \in Nat :
        /\ c = Content(rb) /\ d = Content(r) /\ Len(c) = x /\ Len(d) = y
        /\ h + x = t /\ x = k + y
        /\ \A i \in 1 .. x : c[i] = rb.data[(h + i - 1) % CAP]
        /\ \A i \in 1 .. y : d[i] = rb.data[((h + k) + i - 1) % CAP]
  <2>1. /\ Content(rb) \in Seq(AnyByte) /\ Len(Content(rb)) = t - h
        /\ \A i \in 1 .. Len(Content(rb)) : Content(rb)[i] = rb.data[(h + i - 1) % CAP]
    BY <1>3, ContentSeq
  <2>2. /\ Content(r) \in Seq(AnyByte) /\ Len(Content(r)) = t - (h + k)
        /\ \A i \in 1 .. Len(Content(r)) : Content(r)[i] = rb.data[((h + k) + i - 1) % CAP]
    BY <1>4, ContentSeq
  <2>3. PICK x \in Nat : x = t - h
    BY <1>3
  <2>4. PICK y \in Nat : y = t - (h + k) /\ x = k + y /\ h + x = t
    BY <1>5, <2>3
  <2> QED BY <2>1, <2>2, <2>3, <2>4
<1>7. k \in 1 .. Len(c) /\ k \in 1 .. x
  <2>a. k # 0 /\ x = k + y
    BY <1>5, <1>6
  <2>1. k \in 1 .. x
    BY <2>a
  <2> QED BY <1>6, <2>1
<1>8. o = SubSeq(c, 1, k)
  <2>1. PICK s \in Seq(AnyByte) : /\ s = SubSeq(c, 1, k) /\ Len(s) = k
                                  /\ \A i \in 1 .. k : s[i] = c[i]
    BY <1>7, Prefix
  <2>2. ASSUME NEW i \in 1 .. k PROVE o[i] = s[i]
    <3>1. i \in 1 .. x
      BY <1>7
    <3> QED BY <1>4, <1>6, <2>1, <3>1
  <2> QED BY <1>1, <2>1, <2>2, SameSeq
<1>9. d = SubSeq(c, k + 1, Len(c))
  <2>0. y = Len(c) - k
    BY <1>6
  <2>1. PICK s \in Seq(AnyByte) : /\ s = SubSeq(c, k + 1, Len(c)) /\ Len(s) = y
                                  /\ \A i \in 1 .. y : s[i] = c[k + i]
    <3>1. SubSeq(c, k + 1, Len(c)) \in Seq(AnyByte)
      BY <1>7, Suffix
    <3>2. Len(SubSeq(c, k + 1, Len(c))) = y
      BY <1>7, <2>0, Suffix
    <3>3. \A i \in 1 .. Len(c) - k : SubSeq(c, k + 1, Len(c))[i] = c[k + i]
      BY <1>7, Suffix
    <3> QED BY <2>0, <3>1, <3>2, <3>3
  <2>2. ASSUME NEW i \in 1 .. y PROVE d[i] = s[i]
    <3>1. k + i \in 1 .. x /\ h + (k + i) - 1 = (h + k) + i - 1
      BY <1>6
    <3> QED BY <1>6, <2>1, <3>1
  <2> QED BY <1>6, <2>1, <2>2, SameSeq
<1> QED BY <1>1, <1>2, <1>6, <1>7, <1>8, <1>9

---------------------------------------------------------------------------
(* Positions.  Writes start below MaxPos, and each process that already    *)
(* waits in one adds at most MaxLen more.                                  *)

Writers == {p \in Procs : pc[p] \in {"wwait", "wready"}}
Total == MaxPos + MaxLen * Cardinality(Procs)

(* The positions stay below the range in which rbuf_putc and rbuf_getc     *)
(* compute them.                                                           *)
PipeFits == Total < IDX

PosBound == rbuf.tpos < MaxPos \/ rbuf.tpos + MaxLen * Cardinality(Writers) <= Total

Fresh == pipe = "none" => rbuf.tpos = rbuf.hpos /\ \A e \in Ends : refcnt[e] = 0

ChanInv == Sound(rbuf) /\ PosBound /\ Fresh

LEMMA Product ==
  ASSUME NEW a \in Nat, NEW b \in Nat, NEW c \in Nat, a <= b
  PROVE  c * a \in Nat /\ c * b \in Nat /\ c * a <= c * b
<1>1. PICK d \in Nat : b = a + d
  <2>1. b - a \in Nat /\ b = a + (b - a)
    OBVIOUS
  <2> QED BY <2>1
<1>2. c * a \in Nat /\ c * d \in Nat
  OBVIOUS
<1>3. c * (a + d) = c * a + c * d
  OBVIOUS
<1> QED BY <1>1, <1>2, <1>3

LEMMA FiniteProcs ==
  ASSUME NEW A, NEW B, A \subseteq B, B \subseteq Procs
  PROVE  /\ IsFiniteSet(B) /\ Cardinality(A) \in Nat /\ Cardinality(B) \in Nat
         /\ Cardinality(A) <= Cardinality(B)
<1>1. IsFiniteSet(B)
  BY ProcsAssumption, FS_Subset
<1>2. IsFiniteSet(A) /\ Cardinality(A) <= Cardinality(B)
  BY <1>1, FS_Subset
<1> QED BY <1>1, <1>2, FS_CardinalityType

(* A set of processes without p has room for one more turn of p.           *)
LEMMA OneMore ==
  ASSUME NEW B, B \subseteq Procs, NEW p \in B, NEW A, A \subseteq B \ {p}
  PROVE  /\ MaxLen * Cardinality(A) \in Nat /\ MaxLen * Cardinality(B) \in Nat
         /\ MaxLen * Cardinality(A) + MaxLen <= MaxLen * Cardinality(B)
<1>1. IsFiniteSet(B) /\ Cardinality(B) \in Nat /\ Cardinality(A) \in Nat /\ Cardinality(B \ {p}) \in Nat
      /\ Cardinality(A) <= Cardinality(B \ {p})
  BY FiniteProcs
<1>2. Cardinality(B \ {p}) = Cardinality(B) - 1
  BY <1>1, FS_RemoveElement
<1>3. PICK a \in Nat, b \in Nat, l \in Nat :
        a = Cardinality(A) /\ b = Cardinality(B) /\ l = MaxLen /\ a + 1 <= b
  <2>1. Cardinality(A) + 1 <= Cardinality(B)
    BY <1>1, <1>2
  <2> QED BY <1>1, <2>1, RingAssumption
<1>4. a + 1 \in Nat /\ l * (a + 1) = l * a + l /\ a + 1 <= b
  <2>1. a + 1 \in Nat /\ l * (a + 1) = l * a + l
    OBVIOUS
  <2> QED BY <1>3, <2>1
<1>5. l * (a + 1) <= l * b /\ l * b \in Nat
  BY <1>4, Product
<1>6. l * a \in Nat
  OBVIOUS
<1>7. l * a + l <= l * b
  BY <1>4, <1>5
<1> QED BY <1>3, <1>5, <1>6, <1>7

LEMMA TotalNat ==
  /\ Total \in Nat /\ MaxPos + MaxLen <= Total
  /\ MaxPos \in Nat /\ MaxLen \in Nat /\ MaxLen > 0 /\ IDX \in Nat
<1>1. MaxPos \in Nat /\ MaxLen \in Nat /\ MaxLen > 0 /\ IDX \in Nat
  BY RingAssumption
<1>2. {} \subseteq Procs \ {First} /\ First \in Procs /\ Procs \subseteq Procs
  BY ProcsAssumption
<1>3. PICK a \in Nat, b \in Nat : a = MaxLen * Cardinality({}) /\ b = MaxLen * Cardinality(Procs)
                                 /\ a + MaxLen <= b
  BY <1>2, OneMore
<1>4. Total = MaxPos + b
  BY <1>3 DEF Total
<1>5. a + MaxLen <= b
  BY <1>3
<1>6. MaxPos + b \in Nat /\ MaxPos + MaxLen <= MaxPos + b
  BY <1>1, <1>5
<1> QED BY <1>1, <1>4, <1>6

LEMMA WriteFits ==
  ASSUME Inv, ChanInv, NEW p \in Procs, NEW m, Writing(p, m)
  PROVE  rbuf.tpos \in Nat /\ rbuf.tpos + MaxLen <= Total
<1>1. PICK t \in Nat : t = rbuf.tpos
  BY EmptyFull DEF ChanInv
<1>2. CASE t < MaxPos
  BY <1>1, <1>2, TotalNat
<1>3. CASE ~(t < MaxPos)
  <2>1. p \in Writers /\ Writers \subseteq Procs
    BY <1>1, <1>3 DEF Writing, Writers
  <2>2. t + MaxLen * Cardinality(Writers) <= Total
    BY <1>1, <1>3 DEF ChanInv, PosBound
  <2>3. {} \subseteq Writers \ {p}
    OBVIOUS
  <2>4. PICK a \in Nat, b \in Nat : a = MaxLen * Cardinality({}) /\ b = MaxLen * Cardinality(Writers)
                                   /\ a + MaxLen <= b
    BY <2>1, <2>3, OneMore
  <2>5. a + MaxLen <= b /\ t + b <= Total
    BY <2>2, <2>4
  <2>6. t + MaxLen <= Total
    BY <2>5, TotalNat
  <2> QED BY <1>1, <2>6
<1> QED BY <1>2, <1>3

LEMMA MessageSeq ==
  ASSUME NEW m \in Messages
  PROVE  m \in Seq(Bytes) /\ m \in Seq(AnyByte) /\ Len(m) \in Nat /\ Len(m) > 0 /\ Len(m) <= MaxLen
<1>1. PICK n \in 1 .. MaxLen : m \in [1 .. n -> Bytes]
  BY DEF Messages
<1>2. n \in Nat /\ n > 0 /\ n <= MaxLen
  BY <1>1, TotalNat
<1>3. m \in Seq(Bytes) /\ Len(m) = n
  BY <1>1, <1>2
<1>4. m \in [1 .. n -> AnyByte]
  BY <1>1 DEF AnyByte
<1>5. m \in Seq(AnyByte)
  BY <1>2, <1>4
<1> QED BY <1>2, <1>3, <1>5

---------------------------------------------------------------------------
(* Every step is a step of the channel.                                    *)

LEMMA ChanIsContentNext ==
  ASSUME Sound(rbuf')
  PROVE  chan' = Content(rbuf')
BY EmptyFull DEF chan, Unread, Content

LEMMA HasRef ==
  ASSUME Inv, NEW p \in Procs, NEW e \in Ends, Refs(p, e) # {}
  PROVE  refcnt[e] > 0 /\ pipe = "open"
<1>1. PICK fd \in Fds : uiotab[p][fd] = e
  BY DEF Refs
<1>2. <<p, fd>> \in Descriptors(e)
  BY <1>1 DEF Descriptors
<1>3. Cardinality(Descriptors(e)) > 0
  BY <1>2, FiniteDescriptors
<1>4. refcnt[e] > 0
  BY <1>3, FiniteDescriptors DEF Inv, RefsCovered, TypeOK
<1>5. pipe = "open"
  BY <1>1 DEF Inv, TablesOK, Ends
<1> QED BY <1>4, <1>5

LEMMA KeepPos ==
  ASSUME ChanInv, rbuf'.tpos = rbuf.tpos, Writers' \subseteq Writers \/ rbuf.tpos < MaxPos
  PROVE  PosBound'
<1>1. CASE rbuf.tpos < MaxPos
  BY <1>1 DEF PosBound
<1>2. CASE ~(rbuf.tpos < MaxPos)
  <2>1. PICK t \in Nat : t = rbuf.tpos
    BY EmptyFull DEF ChanInv
  <2>2. Writers' \subseteq Writers /\ Writers \subseteq Procs
    BY <1>2 DEF Writers
  <2>3. PICK a \in Nat, b \in Nat : a = Cardinality(Writers') /\ b = Cardinality(Writers) /\ a <= b
    BY <2>2, FiniteProcs
  <2>4. PICK x \in Nat, y \in Nat : x = MaxLen * a /\ y = MaxLen * b /\ x <= y
    BY <2>3, Product, TotalNat
  <2>5. t + y <= Total
    BY <1>2, <2>1, <2>3, <2>4 DEF ChanInv, PosBound
  <2>6. x <= y
    BY <2>4
  <2>7. t + x <= Total
    BY <2>5, <2>6, TotalNat
  <2>8. Total' = Total
    BY DEF Total
  <2> QED BY <2>1, <2>3, <2>4, <2>7, <2>8 DEF PosBound
<1> QED BY <1>1, <1>2

(* Steps that only move references.                                        *)
LEMMA ReferencesStep ==
  ASSUME Inv, Inv', ChanInv, UNCHANGED rbuf, ret' = NoReturn, Writers' \subseteq Writers,
         pipe' = "none" => pipe = "none", \A e \in Ends : refcnt[e] = 0 => refcnt'[e] = 0
  PROVE  ChanInv' /\ Chan!References
<1>1. Sound(rbuf') /\ PosBound'
  BY KeepPos DEF ChanInv
<1>2. Fresh'
  BY DEF ChanInv, Fresh
<1>3. chan' = chan
  BY DEF chan, Unread
<1>4. refcnt'["read"] \in Nat /\ refcnt'["write"] \in Nat
  BY DEF Inv, TypeOK, Ends
<1>5. Chan!References
  BY <1>3, <1>4 DEF Chan!References, Chan!NoReturn, NoReturn, Ends
<1> QED BY <1>1, <1>2, <1>5 DEF ChanInv

LEMMA WriteStep ==
  ASSUME PipeFits, Inv, ChanInv, NEW p \in Procs, NEW m \in Messages, write_data(p, m)
  PROVE  ChanInv' /\ Chan!Send
<1>1. PICK l \in Nat : l = Len(m) /\ l > 0 /\ l <= MaxLen
  BY MessageSeq
<1>2. /\ Writing(p, m) /\ refcnt["read"] # 0 /\ ~rbuf_full(rbuf)
      /\ rbuf' = PutBytes(rbuf, m).rb /\ pc' = Awake(Home(p), "read_condition")
      /\ ret' = <<"wrote", SubSeq(m, 1, PutBytes(rbuf, m).n)>>
      /\ UNCHANGED <<pipe, uiotab, refcnt>>
  BY DEF write_data, Broken, Return
<1>3. PICK t \in Nat : t = rbuf.tpos /\ t + MaxLen <= Total
  BY <1>2, WriteFits
<1>4. rbuf.tpos + Len(m) < IDX
  <2>1. t + MaxLen <= Total /\ Total < IDX /\ l <= MaxLen
    BY <1>1, <1>3 DEF PipeFits
  <2>2. t + l < IDX
    BY <2>1, TotalNat
  <2> QED BY <1>1, <1>3, <2>2
<1>5. PICK w : w = PutBytes(rbuf, m)
  OBVIOUS
<1>6. PutState(rbuf, m, Len(m), w)
  BY <1>1, <1>4, <1>5, PutLoop, MessageSeq DEF ChanInv
<1>7. /\ w.n \in 1 .. Len(m) /\ Content(w.rb) = Content(rbuf) \o SubSeq(m, 1, w.n)
      /\ Len(Content(rbuf)) + w.n <= CAP
  BY <1>1, <1>2, <1>6, PutContent, MessageSeq DEF ChanInv
<1>8. Sound(w.rb) /\ w.rb.hpos = rbuf.hpos /\ w.rb.tpos = rbuf.tpos + w.n
  BY <1>6 DEF PutState
<1>9. chan = Content(rbuf) /\ chan' = Content(w.rb) /\ rbuf' = w.rb
  BY <1>2, <1>5, <1>8, ChanIsContent, ChanIsContentNext DEF ChanInv
<1>10. Refs(p, "write") # {}
  BY <1>2 DEF Writing, Inv, TablesOK
<1>11. refcnt["write"] > 0 /\ refcnt["read"] > 0 /\ pipe = "open"
  BY <1>2, <1>10, HasRef DEF Ends, Inv, TypeOK
<1>12. PICK n \in 1 .. l : n = w.n
  BY <1>1, <1>7
<1>13. PosBound'
  <2>1. t + n = rbuf'.tpos
    BY <1>3, <1>8, <1>9, <1>12
  <2>2. Writers' \subseteq Procs \ {p} /\ Writers' \subseteq Writers \ {p}
    <3>1. /\ Home(p) \in [Procs -> {"none", "user", "exiting", "gone"} \cup Waiting]
          /\ Home(p)[p] = "user" /\ \A q \in Procs \ {p} : Home(p)[q] = pc[q]
      BY DEF Home, Inv, TypeOK
    <3> QED BY <1>2, <3>1, AwakeEffect DEF Writers
  <2>3. CASE t < MaxPos
    <3>1. PICK x \in Nat, y \in Nat : x = MaxLen * Cardinality(Writers')
                                     /\ y = MaxLen * Cardinality(Procs) /\ x + MaxLen <= y
      BY <2>2, OneMore
    <3>2. x + MaxLen <= y /\ Total = MaxPos + y /\ n <= MaxLen
      <4>1. l <= MaxLen
        BY <1>1
      <4>2. n <= MaxLen
        BY <4>1, TotalNat
      <4> QED BY <3>1, <4>2 DEF Total
    <3>3. (t + n) + x <= MaxPos + y
      BY <2>3, <3>2, TotalNat
    <3> QED BY <2>1, <3>1, <3>2, <3>3 DEF PosBound, Total
  <2>4. CASE ~(t < MaxPos)
    <3>1. p \in Writers /\ Writers \subseteq Procs
      BY <1>2, <1>3, <2>4 DEF Writing, Writers
    <3>2. PICK x \in Nat, y \in Nat : x = MaxLen * Cardinality(Writers')
                                     /\ y = MaxLen * Cardinality(Writers) /\ x + MaxLen <= y
      BY <2>2, <3>1, OneMore
    <3>3. t + y <= Total
      BY <1>3, <2>4, <3>2 DEF ChanInv, PosBound
    <3>4. n <= MaxLen
      <4>1. l <= MaxLen
        BY <1>1
      <4> QED BY <4>1, TotalNat
    <3>5. x + MaxLen <= y
      BY <3>2
    <3>6. (t + n) + x <= Total
      BY <3>3, <3>4, <3>5, TotalNat
    <3> QED BY <2>1, <3>2, <3>6 DEF PosBound, Total
  <2> QED BY <2>3, <2>4
<1>14. ChanInv'
  BY <1>2, <1>8, <1>9, <1>11, <1>13 DEF ChanInv, Fresh
<1>15. SubSeq(m, 1, n) \in Chan!Messages /\ Len(SubSeq(m, 1, n)) = n
  <2>1. PICK k \in 1 .. Len(m) : k = n
    BY <1>1
  <2>2. SubSeq(m, 1, k) \in Seq(Bytes) /\ Len(SubSeq(m, 1, k)) = k
    BY Prefix, MessageSeq
  <2>3. SubSeq(m, 1, n) \in [1 .. n -> Bytes]
    <3>1. PICK s \in Seq(Bytes) : s = SubSeq(m, 1, k) /\ Len(s) = k
      BY <2>2
    <3>2. s \in [1 .. Len(s) -> Bytes]
      OBVIOUS
    <3> QED BY <2>1, <3>1, <3>2
  <2>4. n \in 1 .. MaxLen
    <3>1. l <= MaxLen
      BY <1>1
    <3> QED BY <3>1, TotalNat
  <2> QED BY <2>1, <2>2, <2>3, <2>4 DEF Chan!Messages
<1>16. Chan!Send
  BY <1>2, <1>5, <1>7, <1>9, <1>11, <1>12, <1>15 DEF Chan!Send
<1> QED BY <1>14, <1>16

LEMMA ReadStep ==
  ASSUME Inv, ChanInv, NEW p \in Procs, NEW n \in 1 .. MaxLen, read_data(p, n)
  PROVE  ChanInv' /\ Chan!Receive
<1>1. /\ Reading(p, n) /\ ~rbuf_empty(rbuf)
      /\ rbuf' = GetBytes(rbuf, n).rb /\ pc' = Awake(Home(p), "write_condition")
      /\ ret' = <<"read", GetBytes(rbuf, n).out>>
      /\ UNCHANGED <<pipe, uiotab, refcnt>>
  BY DEF read_data, Return
<1>2. n \in Nat /\ n \in Nat \ {0}
  BY TotalNat
<1>3. PICK g : g = GetBytes(rbuf, n)
  OBVIOUS
<1>4. GetState(rbuf, n, g)
  BY <1>2, <1>3, GetLoop DEF ChanInv
<1>5. /\ Len(g.out) \in 1 .. Len(Content(rbuf))
      /\ g.out = SubSeq(Content(rbuf), 1, Len(g.out))
      /\ Content(g.rb) = SubSeq(Content(rbuf), Len(g.out) + 1, Len(Content(rbuf)))
  BY <1>1, <1>2, <1>4, GetContent DEF ChanInv
<1>6. Sound(g.rb) /\ g.rb.tpos = rbuf.tpos
  BY <1>4 DEF GetState
<1>7. chan = Content(rbuf) /\ chan' = Content(g.rb) /\ rbuf' = g.rb
  BY <1>1, <1>3, <1>6, ChanIsContent, ChanIsContentNext DEF ChanInv
<1>8. Refs(p, "read") # {}
  BY <1>1 DEF Reading, Inv, TablesOK
<1>9. refcnt["read"] > 0 /\ pipe = "open"
  BY <1>8, HasRef DEF Ends
<1>10. Writers' \subseteq Writers
  <2>1. /\ Home(p) \in [Procs -> {"none", "user", "exiting", "gone"} \cup Waiting]
        /\ Home(p)[p] = "user" /\ \A q \in Procs \ {p} : Home(p)[q] = pc[q]
    BY DEF Home, Inv, TypeOK
  <2> QED BY <1>1, <2>1, AwakeEffect DEF Writers
<1>11. PosBound'
  BY <1>6, <1>7, <1>10, KeepPos
<1>12. ChanInv'
  BY <1>1, <1>6, <1>7, <1>9, <1>11 DEF ChanInv, Fresh
<1>13. Chan!Receive
  BY <1>1, <1>3, <1>5, <1>7, <1>9 DEF Chan!Receive
<1> QED BY <1>12, <1>13

LEMMA EmptyContent ==
  ASSUME Sound(rbuf), rbuf.tpos = rbuf.hpos
  PROVE  chan = <<>>
<1>1. chan \in Seq(AnyByte) /\ Len(chan) = 0
  BY ChanIsContent, ContentSeq, EmptyFull
<1> QED BY <1>1

(* End of stream and broken pipe.                                          *)
LEMMA RefusedStep ==
  ASSUME Inv, ChanInv, NEW p \in Procs, NEW n, NEW m, read_eof(p, n) \/ write_broken(p, m)
  PROVE  ChanInv' /\ (Chan!EndOfStream \/ Chan!BrokenPipe)
<1>1. UNCHANGED <<pipe, uiotab, refcnt, rbuf>> /\ pc' = [pc EXCEPT ![p] = "user"]
  BY DEF read_eof, write_broken, Home
<1>2. Writers' \subseteq Writers
  BY <1>1 DEF Writers, Inv, TypeOK
<1>3. ChanInv'
  BY <1>1, <1>2, KeepPos DEF ChanInv, Fresh
<1>4. chan' = chan
  BY <1>1 DEF chan, Unread
<1>5. CASE read_eof(p, n)
  <2>1. Refs(p, "read") # {} /\ refcnt["write"] = 0 /\ rbuf_empty(rbuf) /\ ret' = <<"eof", <<>>>>
    BY <1>5 DEF read_eof, Reading, Return, Inv, TablesOK
  <2>2. refcnt["read"] > 0
    BY <2>1, HasRef DEF Ends
  <2>3. chan = <<>>
    BY <2>1, EmptyFull, EmptyContent DEF ChanInv
  <2> QED BY <1>1, <1>3, <1>4, <2>1, <2>2, <2>3 DEF Chan!EndOfStream
<1>6. CASE write_broken(p, m)
  <2>1. Refs(p, "write") # {} /\ refcnt["read"] = 0 /\ ret' = <<"EPIPE", <<>>>>
    BY <1>6 DEF write_broken, Broken, Writing, Return, Inv, TablesOK
  <2>2. refcnt["write"] > 0
    BY <2>1, HasRef DEF Ends
  <2> QED BY <1>1, <1>3, <1>4, <2>1, <2>2 DEF Chan!BrokenPipe
<1> QED BY <1>5, <1>6

(* A call that goes to sleep.                                              *)
LEMMA WaitStep ==
  ASSUME Inv, Inv', ChanInv, NEW p \in Procs, NEW n, NEW m, read_wait(p, n) \/ write_wait(p, m)
  PROVE  ChanInv' /\ Chan!References
<1>1. UNCHANGED <<pipe, refcnt, rbuf>> /\ ret' = NoReturn
  BY DEF read_wait, write_wait
<1>2. CASE Writers' \subseteq Writers
  BY <1>1, <1>2, ReferencesStep
<1>3. CASE ~(Writers' \subseteq Writers)
  <2>1. write_wait(p, m) /\ rbuf.tpos < MaxPos
    <3>1. ~read_wait(p, n)
      BY <1>3 DEF read_wait, Writers, Inv, TypeOK
    <3>2. write_wait(p, m)
      BY <3>1
    <3>3. pc' = [pc EXCEPT ![p] = "wwait"] /\ Writing(p, m)
      BY <3>2 DEF write_wait
    <3>4. pc[p] # "wready"
      BY <1>3, <3>3 DEF Writers, Inv, TypeOK
    <3> QED BY <3>2, <3>3, <3>4 DEF Writing
  <2>2. ChanInv'
    BY <1>1, <2>1, KeepPos DEF ChanInv, Fresh
  <2>3. chan' = chan
    BY <1>1 DEF chan, Unread
  <2>4. refcnt["read"] \in Nat /\ refcnt["write"] \in Nat
    BY DEF Inv, TypeOK, Ends
  <2> QED BY <1>1, <2>2, <2>3, <2>4 DEF Chan!References, Chan!NoReturn, NoReturn
<1> QED BY <1>2, <1>3

LEMMA CreateStep ==
  ASSUME Inv, ChanInv, NEW p \in Procs, syspipe(p)
  PROVE  ChanInv' /\ Chan!Create
<1>1. /\ pipe = "none" /\ pipe' = "open" /\ refcnt' = [e \in Ends |-> 1] /\ ret' = NoReturn
      /\ UNCHANGED <<rbuf, pc>>
  BY DEF syspipe, create_pipe
<1>2. Writers' \subseteq Writers
  BY <1>1 DEF Writers
<1>3. ChanInv'
  BY <1>1, <1>2, KeepPos DEF ChanInv, Fresh
<1>4. refcnt["read"] = 0 /\ refcnt["write"] = 0 /\ rbuf.tpos = rbuf.hpos
  BY <1>1 DEF ChanInv, Fresh, Ends
<1>5. chan = <<>> /\ chan' = chan
  BY <1>1, <1>4, EmptyContent DEF ChanInv, chan, Unread
<1>6. refcnt'["read"] = 1 /\ refcnt'["write"] = 1
  BY <1>1 DEF Ends
<1> QED BY <1>1, <1>3, <1>4, <1>5, <1>6 DEF Chan!Create, Chan!NoReturn, NoReturn

(* fork, failed forks, uiodup: an end without references gets none.        *)
LEMMA CopyStep ==
  ASSUME Inv, Inv', ChanInv, NEW p \in Procs,
         \/ \E old, new \in Fds : sysuiodup(p, old, new)
         \/ \E q \in Procs : process_fork(p, q)
         \/ process_fork_fails(p)
  PROVE  ChanInv' /\ Chan!References
<1>1. UNCHANGED <<rbuf, pipe>> /\ ret' = NoReturn
  BY DEF sysuiodup, process_fork, process_fork_fails
<1>2. Writers' \subseteq Writers
  BY DEF sysuiodup, process_fork, process_fork_fails, Writers, Inv, TypeOK
<1>3. ASSUME NEW e \in Ends, refcnt[e] = 0 PROVE Refs(p, e) = {} /\ Cardinality(Refs(p, e)) = 0
  <2>1. Refs(p, e) = {}
    BY <1>3, HasRef DEF Inv, TypeOK
  <2> QED BY <2>1, FS_EmptySet
<1>4. ASSUME NEW e \in Ends, refcnt[e] = 0 PROVE refcnt'[e] = 0
  <2>1. CASE \E old, new \in Fds : sysuiodup(p, old, new)
    <3>1. PICK old \in Fds : /\ uiotab[p][old] # "none"
                             /\ refcnt' = [refcnt EXCEPT ![uiotab[p][old]] = Added(uiotab[p][old], 1)]
      BY <2>1 DEF sysuiodup
    <3>2. uiotab[p][old] # e
      BY <1>3, <1>4 DEF Refs
    <3> QED BY <1>4, <3>1, <3>2 DEF Inv, TypeOK
  <2>2. CASE (\E q \in Procs : process_fork(p, q)) \/ process_fork_fails(p)
    <3>1. refcnt'[e] = refcnt[e] + Cardinality(Refs(p, e))
      BY <2>2 DEF process_fork, process_fork_fails, Added
    <3> QED BY <1>3, <1>4, <3>1
  <2> QED BY <2>1, <2>2
<1> QED BY <1>1, <1>2, <1>4, ReferencesStep

LEMMA CloseStep ==
  ASSUME Inv, Inv', ChanInv, NEW p \in Procs, NEW fd \in Fds, uio_close(p, fd)
  PROVE  ChanInv' /\ Chan!References
<1>1. PICK e \in Ends : uiotab[p][fd] = e
  BY DEF uio_close, Inv, TypeOK
<1>2. pipe = "open"
  BY <1>1 DEF Inv, TablesOK, Ends
<1>3. UNCHANGED rbuf /\ ret' = NoReturn /\ pipe' # "none"
  BY <1>2 DEF uio_close
<1>4. Writers' \subseteq Writers
  <2>1. pc' = pc \/ pc' = AwakeOnClose(pc)
    BY DEF uio_close
  <2>2. /\ pc \in [Procs -> {"none", "user", "exiting", "gone"} \cup Waiting]
        /\ Awake(pc, "write_condition") \in [Procs -> {"none", "user", "exiting", "gone"} \cup Waiting]
    BY AwakeEffect DEF Inv, TypeOK
  <2>3. CASE pc' = AwakeOnClose(pc)
    BY <2>2, <2>3, AwakeEffect DEF AwakeOnClose, Writers
  <2>4. CASE pc' = pc
    BY <2>4 DEF Writers
  <2> QED BY <2>1, <2>3, <2>4
<1>5. ASSUME NEW f \in Ends, refcnt[f] = 0 PROVE refcnt'[f] = 0
  <2>1. refcnt' = [refcnt EXCEPT ![e] = IF refcnt[e] > 0 THEN refcnt[e] - 1 ELSE 0]
    BY <1>1 DEF uio_close
  <2> QED BY <1>5, <2>1 DEF Inv, TypeOK
<1> QED BY <1>3, <1>4, <1>5, ReferencesStep

LEMMA ExitStep ==
  ASSUME Inv, Inv', ChanInv, NEW p \in Procs, process_exit(p) \/ exit_done(p)
  PROVE  ChanInv' /\ Chan!References
<1>1. UNCHANGED <<pipe, refcnt, rbuf>> /\ ret' = NoReturn
  BY DEF process_exit, exit_done
<1>2. Writers' \subseteq Writers
  BY DEF process_exit, exit_done, Writers, Inv, TypeOK
<1> QED BY <1>1, <1>2, ReferencesStep

chanVars == <<chan, refcnt["read"], refcnt["write"], ret>>

LEMMA ChannelStep ==
  ASSUME PipeFits
  PROVE  Inv /\ Inv' /\ ChanInv /\ [Next]_vars => ChanInv' /\ [Chan!Next]_chanVars
<1> SUFFICES ASSUME Inv, Inv', ChanInv, [Next]_vars PROVE ChanInv' /\ [Chan!Next]_chanVars
  OBVIOUS
<1>1. CASE UNCHANGED vars
  <2>1. UNCHANGED chanVars
    BY <1>1 DEF vars, chanVars, chan, Unread
  <2>2. Writers' = Writers
    BY <1>1 DEF vars, Writers
  <2>3. ChanInv'
    BY <1>1, <2>2, KeepPos DEF vars, ChanInv, Fresh
  <2> QED BY <2>1, <2>3
<1>2. CASE Next
  <2>1. ChanInv' /\ Chan!Next
    <3>1. PICK p \in Procs :
            \/ syspipe(p)
            \/ read_step(p) \/ write_step(p)
            \/ \E old, new \in Fds : sysuiodup(p, old, new)
            \/ \E q \in Procs : process_fork(p, q)
            \/ process_fork_fails(p)
            \/ \E fd \in Fds : sysclose(p, fd)
            \/ process_exit(p) \/ exit_close(p) \/ exit_done(p)
      BY <1>2 DEF Next
    <3>2. CASE syspipe(p)
      BY <3>2, CreateStep DEF Chan!Next
    <3>3. CASE read_step(p)
      BY <3>3, ReadStep, RefusedStep, WaitStep DEF read_step, Chan!Next
    <3>4. CASE write_step(p)
      BY <3>4, WriteStep, RefusedStep, WaitStep DEF write_step, Chan!Next
    <3>5. CASE \/ \E old, new \in Fds : sysuiodup(p, old, new)
               \/ \E q \in Procs : process_fork(p, q)
               \/ process_fork_fails(p)
      BY <3>5, CopyStep DEF Chan!Next
    <3>6. CASE (\E fd \in Fds : sysclose(p, fd)) \/ exit_close(p)
      BY <3>6, CloseStep DEF sysclose, exit_close, Chan!Next
    <3>7. CASE process_exit(p) \/ exit_done(p)
      BY <3>7, ExitStep DEF Chan!Next
    <3> QED BY <3>1, <3>2, <3>3, <3>4, <3>5, <3>6, <3>7
  <2> QED BY <2>1
<1> QED BY <1>1, <1>2

LEMMA ChannelInit ==
  ASSUME PipeFits
  PROVE  Init => ChanInv /\ Chan!Init
<1> SUFFICES ASSUME Init PROVE ChanInv /\ Chan!Init
  OBVIOUS
<1>1. CAP \in Nat /\ CAP > 0 /\ IDX \in Nat /\ Total \in Nat /\ Total < IDX
  BY RingAssumption, TotalNat DEF PipeFits
<1>2. rbuf.hpos = 0 /\ rbuf.tpos = 0 /\ rbuf \in Ring
  BY DEF Init, Ring, AnyByte
<1>3. Sound(rbuf)
  BY <1>1, <1>2 DEF Sound
<1>4. PosBound
  <2>1. Writers = {}
    BY DEF Init, Writers
  <2>2. MaxLen * Cardinality(Writers) = 0
    BY <2>1, FS_EmptySet, TotalNat
  <2> QED BY <1>1, <1>2, <2>2 DEF PosBound
<1>5. Fresh
  BY <1>2 DEF Init, Fresh
<1>6. chan = <<>>
  BY <1>2, <1>3, EmptyContent
<1>7. refcnt["read"] = 0 /\ refcnt["write"] = 0 /\ ret = NoReturn
  BY DEF Init, Ends
<1> QED BY <1>3, <1>4, <1>5, <1>6, <1>7 DEF ChanInv, Chan!Init, Chan!NoReturn, NoReturn

(* The ring buffer with its two loops, the sleeping calls and the counted  *)
(* ends implement the channel: bytes come out in the order they went in,   *)
(* each once, and end of stream and EPIPE are reported only when they are  *)
(* due, for every size of the buffer and any number of processes, as long  *)
(* as the positions stay below 2^32 (PipeFits).                            *)
THEOREM ChannelImplemented == PipeFits => (Spec => ImplementsChannel)
<1> SUFFICES ASSUME PipeFits PROVE Spec => ImplementsChannel
  OBVIOUS
<1>1. Init => ChanInv /\ Chan!Init
  BY ChannelInit
<1>2. Inv /\ Inv' /\ ChanInv /\ [Next]_vars => ChanInv' /\ [Chan!Next]_chanVars
  BY ChannelStep
<1> QED BY <1>1, <1>2, Invariance, PTL DEF Spec, ImplementsChannel, Chan!Spec, chanVars
=============================================================================
