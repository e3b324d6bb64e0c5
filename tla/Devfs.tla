------------------------------- MODULE Devfs -------------------------------
(***************************************************************************)
(* Device files: the device list and the device file system                *)
(* (sys/device.c), the list of mounted file systems (sys/filesys.c), the   *)
(* RAM disk and the clock (sys/dev/ramdisk.c, rtc.c) and the system calls  *)
(* that open, use and close descriptors (sys/syscall.c, sys/uio.c).        *)
(*                                                                         *)
(* A storage device is accessed in blocks, a file in bytes: a call on a    *)
(* storage uio fetches and stores whole blocks through the uio's buffer    *)
(* where it does not cover a block.  Each access of a block device sleeps  *)
(* and is a step, from the wake-up to the next access; the position and    *)
(* the buffer belong to the uio, and processes that share it may be inside *)
(* their calls at the same time.  The device itself is that of Virtio,     *)
(* seen from outside.                                                      *)
(***************************************************************************)
EXTENDS Integers, Sequences, FiniteSets, SequencesExt

CONSTANTS
  Procs, First,        (* processes; the one that runs first                 *)
  UIOMAX,              (* PROCESS_UIOMAX                                     *)
  AUTOFD,              (* 3: the first descriptor that sysopen chooses       *)
  NULL,
  Attached,            (* the devices in the order they are attached, each a *)
                       (* name: "vioblk", "ramdisk" or "rtc"                 *)
  KernelHeld,          (* positions in Attached of devices the kernel opened *)
  BLKSZ,               (* of each name                                       *)
  DISKSZ,              (* capacity of the storage devices, whole blocks      *)
  Mounts,              (* mounted file systems in order: [name, fs]          *)
  Paths,               (* paths that processes open                          *)
  Bytes, TICK,         (* contents of storage devices; a byte of the clock   *)
  Messages,            (* bound: what processes write                        *)
  MaxLen,              (* bound: length of a read                            *)
  MaxCalls,            (* bound: calls other than close and exit             *)
  MaxFaults,           (* bound: blocks the media refuse                     *)
  MaxUios,             (* bound: uios in use                                 *)
  Running, EIO, EINVAL, ENOTSUP, ENOENT, EBUSY

ASSUME DevfsAssumption ==
  /\ IsFiniteSet(Procs) /\ First \in Procs
  /\ UIOMAX \in Nat /\ AUTOFD \in 0 .. UIOMAX - 1
  /\ Attached \in Seq({"vioblk", "ramdisk", "rtc"})
  /\ \A i \in KernelHeld : i \in DOMAIN Attached
  /\ \A i \in DOMAIN Attached : Attached[i] # "rtc" => DISKSZ % BLKSZ[Attached[i]] = 0
  /\ TICK \notin Bytes /\ MaxUios \in Nat /\ NULL \notin 1 .. MaxUios /\ EBUSY # 0

(* Blocks are not empty, nor are transfers; a result is a number of bytes  *)
(* or an error, and a call that has none is still running.                 *)
ASSUME ByteAssumption ==
  /\ \A i \in DOMAIN Attached : BLKSZ[Attached[i]] \in Nat \ {0}
  /\ DISKSZ \in Nat /\ MaxLen \in Nat /\ 0 \in Bytes
  /\ \A w \in Messages : w \in Seq(Bytes) /\ w # <<>>
  /\ \A e \in {EIO, EINVAL, ENOTSUP, Running} : e \notin Nat
  /\ Running \notin {EIO, EINVAL, ENOTSUP}

Fds == 0 .. UIOMAX - 1
Devs == DOMAIN Attached
Uios == 1 .. MaxUios

VARIABLES
  opened,   (* the opened flags of the devices                               *)
  content,  (* of the storage devices                                        *)
  uios,     (* a uio: NoUio or [kind, dev, refcnt, pos, buffer]              *)
  uiotab,   (* the descriptors of each process                               *)
  state,    (* of a process: "none", "user", "call", "exec" or "exiting"     *)
  at,       (* the place of a call: "idle", "head", "headst", "body",        *)
            (* "tail", "tailst", "return"                                    *)
  job,      (* the call: [op, dev, todo, data, got, ret], and its uio        *)
  juio,
  asked,    (* the access a call sleeps in: the position it asked for, and   *)
            (* bytes_written in the store of unaligned_store                 *)
  panic,    (* uio_close was given NULL and the kernel stopped               *)
  calls, faults,
  leaked,   (* history: references of a uio that nobody will ever drop       *)
  mixed     (* history: calls that met another use of their disk             *)

vars == <<opened, content, uios, uiotab, state, at, job, juio, asked, panic, calls, faults, leaked, mixed>>
devVars == <<opened, content, faults>>
fdVars == <<uios, uiotab>>
callVars == <<at, job, juio, asked>>
histVars == <<leaked, mixed>>

(* A process in user mode; nothing runs after a panic.                    *)
User(p) == ~panic /\ state[p] = "user"
Counted == calls < MaxCalls /\ calls' = calls + 1

NoUio == [kind |-> "none", dev |-> 0, refcnt |-> 0, pos |-> 0, buffer |-> <<>>]
NoAccess == [pos |-> 0, cnt |-> 0]
NoCall == [op |-> "none", dev |-> 0, todo |-> 0, data |-> <<>>, got |-> <<>>, ret |-> 0]

---------------------------------------------------------------------------
(* Registration and mounting, at start-up.                                 *)

(* register_device numbers the devices of a name in the order they come.   *)
instno(i) == Cardinality({k \in 1 .. i - 1 : Attached[k] = Attached[i]})

type(i) == IF Attached[i] = "rtc" THEN "serial" ELSE "storage"
Disks == {i \in Devs : type(i) = "storage"}

(* attach_filesystem refuses a name that is mounted.                       *)
attach_filesystem(mps, m) ==
  IF \E i \in DOMAIN mps : mps[i].name = m.name THEN mps ELSE Append(mps, m)

mplist == FoldLeft(attach_filesystem, <<>>, Mounts)

Init ==
  /\ opened = [d \in Devs |-> d \in KernelHeld]
  /\ content = [d \in Disks |-> [i \in 1 .. DISKSZ |-> 0]]
  /\ uios = [u \in Uios |-> NoUio]
  /\ uiotab = [p \in Procs |-> [fd \in Fds |-> NULL]]
  /\ state = [p \in Procs |-> IF p = First THEN "user" ELSE "none"]
  /\ at = [p \in Procs |-> "idle"] /\ job = [p \in Procs |-> NoCall]
  /\ juio = [p \in Procs |-> NULL] /\ asked = [p \in Procs |-> NoAccess]
  /\ panic = FALSE /\ calls = 0 /\ faults = 0
  /\ leaked = [u \in Uios |-> 0] /\ mixed = {}

---------------------------------------------------------------------------
(* Opening.                                                                *)

getfs(mpname) == {mplist[i].fs : i \in {k \in DOMAIN mplist : mplist[k].name = mpname}}

(* The device of a name and a number, first in the list.                   *)
find_device(base, inst) ==
  LET found == {i \in Devs : Attached[i] = base /\ instno(i) = inst} IN
  IF found = {} THEN 0 ELSE CHOOSE i \in found : \A k \in found : i <= k

uio_init1(kind, d, buf) == [kind |-> kind, dev |-> d, refcnt |-> 1, pos |-> 0, buffer |-> buf]
zeroed(n) == [i \in 1 .. n |-> 0]

(* ramdisk_open and vioblk_storage_open.                                   *)
storage_open(d) == IF opened[d] THEN EBUSY ELSE 0

storage_open_uio(d) == IF storage_open(d) # 0 THEN storage_open(d)
                       ELSE uio_init1("storage", d, zeroed(BLKSZ[Attached[d]]))

(* rtc_open always succeeds.                                               *)
serial_open_uio(d) == uio_init1("serial", d, zeroed(BLKSZ[Attached[d]]))

devfs_open_listing == uio_init1("devfs_listing", 0, <<>>)
fs_open_listing == uio_init1("fs_listing", 0, <<>>)

(* The name and its trailing digits.  A result is an error or a new uio.   *)
devfs_open_file(base, inst) ==
  LET d == find_device(base, inst) IN
  IF d = 0 THEN ENOENT
  ELSE IF type(d) = "serial" THEN serial_open_uio(d) ELSE storage_open_uio(d)

devfs_open(path) == IF path.base = "" THEN devfs_open_listing
                    ELSE devfs_open_file(path.base, path.inst)

nullfs_open == ENOENT

open_file(path) ==
  CASE path.mp = "" -> fs_open_listing
    [] path.mp # "" /\ getfs(path.mp) = {} -> ENOENT
    [] path.mp # "" /\ getfs(path.mp) = {"devfs"} -> devfs_open(path)
    [] OTHER -> nullfs_open

FreeFds(p) == {fd \in Fds : uiotab[p][fd] = NULL}
FirstOf(S) == CHOOSE x \in S : \A y \in S : x <= y

(* The descriptor sysopen uses: the one asked for, or the first free one.  *)
chosen_fd(p, fd) ==
  IF fd # -1 THEN fd
  ELSE LET free == {x \in FreeFds(p) : x >= AUTOFD} IN IF free = {} THEN -1 ELSE FirstOf(free)

FreeUios == {u \in Uios : uios[u] = NoUio}
IsUio(r) == r \notin {ENOENT, EBUSY}

(* -ENOENT: uio_close is called with the NULL that is in the table, and    *)
(* reads the reference count at the address it is at in the MMIO region.   *)
sysopen_enoent(p, fd, path) ==
  /\ open_file(path) = ENOENT
  /\ panic' \in BOOLEAN
  /\ UNCHANGED <<devVars, fdVars, state, callVars, histVars>>

sysopen_ok(p, fd, path) ==
  LET r == open_file(path)
      u == FirstOf(FreeUios)
  IN /\ IsUio(r) /\ FreeUios # {}
     /\ uios' = [uios EXCEPT ![u] = r]
     /\ uiotab' = [uiotab EXCEPT ![p][fd] = u]
     /\ opened' = IF r.kind = "storage" THEN [opened EXCEPT ![r.dev] = TRUE] ELSE opened
     /\ UNCHANGED <<content, faults, state, callVars, panic, histVars>>

sysopen(p, fd, path) ==
  /\ User(p) /\ Counted
  /\ chosen_fd(p, fd) \in FreeFds(p)                (* -EBADFD and -EMFILE   *)
  /\ \/ sysopen_enoent(p, chosen_fd(p, fd), path)
     \/ sysopen_ok(p, chosen_fd(p, fd), path)

---------------------------------------------------------------------------
(* Closing, and the other calls that change the references of a uio.       *)

(* Fault: the device is closed with any reference.                         *)
storage_uio_close_Any(u) ==
  IF uios[u].kind = "storage" THEN opened' = [opened EXCEPT ![uios[u].dev] = FALSE]
  ELSE UNCHANGED opened

(* The close of the uio: storage devices have a flag to clear.             *)
storage_uio_close(u) ==
  IF uios[u].kind = "storage" /\ uios[u].refcnt = 1
  THEN opened' = [opened EXCEPT ![uios[u].dev] = FALSE]
  ELSE UNCHANGED opened

(* The last reference closes and frees.                                    *)
uio_close(u) ==
  /\ uios' = [uios EXCEPT ![u] = IF @.refcnt = 1 THEN NoUio ELSE [uios[u] EXCEPT !.refcnt = @ - 1]]
  /\ storage_uio_close(u)

sysclose(p, fd) ==
  /\ User(p) /\ uiotab[p][fd] # NULL
  /\ uio_close(uiotab[p][fd])
  /\ uiotab' = [uiotab EXCEPT ![p][fd] = NULL]
  /\ UNCHANGED <<content, faults, state, callVars, panic, calls, histVars>>

sysuiodup(p, oldfd, newfd) ==
  /\ User(p) /\ Counted /\ uiotab[p][oldfd] # NULL /\ uiotab[p][newfd] = NULL
  /\ uiotab' = [uiotab EXCEPT ![p][newfd] = uiotab[p][oldfd]]
  /\ uios' = [uios EXCEPT ![uiotab[p][oldfd]].refcnt = @ + 1]
  /\ UNCHANGED <<devVars, state, callVars, panic, histVars>>

Refs(p, u) == Cardinality({fd \in Fds : uiotab[p][fd] = u})

(* process_fork: the child has the descriptors of its parent.              *)
fork(p, q) ==
  /\ User(p) /\ Counted /\ state[q] = "none"
  /\ state' = [state EXCEPT ![q] = "user"]
  /\ uiotab' = [uiotab EXCEPT ![q] = uiotab[p]]
  /\ uios' = [u \in Uios |-> [uios[u] EXCEPT !.refcnt = @ + Refs(p, u)]]
  /\ UNCHANGED <<devVars, callVars, panic, histVars>>

(* No condition or no thread for the child: what was counted stays.        *)
fork_fails(p) ==
  /\ User(p) /\ Counted
  /\ uios' = [u \in Uios |-> [uios[u] EXCEPT !.refcnt = @ + Refs(p, u)]]
  /\ leaked' = [u \in Uios |-> leaked[u] + Refs(p, u)]
  /\ UNCHANGED <<devVars, uiotab, state, callVars, panic, mixed>>

(* process_exit closes the descriptors one by one.                         *)
exit(p) ==
  /\ User(p)
  /\ state' = [state EXCEPT ![p] = "exiting"]
  /\ UNCHANGED <<devVars, fdVars, callVars, panic, calls, histVars>>

exit_close(p) ==
  LET held == Fds \ FreeFds(p) IN
  /\ ~panic /\ state[p] = "exiting"
  /\ IF held = {} THEN state' = [state EXCEPT ![p] = "none"] /\ UNCHANGED <<opened, fdVars>>
     ELSE /\ uio_close(uiotab[p][FirstOf(held)])
          /\ uiotab' = [uiotab EXCEPT ![p][FirstOf(held)] = NULL]
          /\ UNCHANGED state
  /\ UNCHANGED <<content, faults, callVars, panic, calls, histVars>>

---------------------------------------------------------------------------
(* Block access: storage_fetch and storage_store with the drivers below.   *)

Blk(d) == BLKSZ[Attached[d]]
RoundDown(n, b) == (n \div b) * b
Min2(a, b) == IF a < b THEN a ELSE b

(* The number of bytes a driver moves, or EINVAL; n is whole blocks.       *)
vioblk_bytes(pos, n) == IF pos > DISKSZ THEN EINVAL ELSE Min2(n, DISKSZ - pos)
ramdisk_fetch(pos, n) == IF pos >= DISKSZ \/ n = 0 THEN 0 ELSE Min2(n, DISKSZ - pos)

storage_fetch(d, pos, n) ==
  CASE pos % Blk(d) # 0 -> EINVAL
    [] pos % Blk(d) = 0 /\ Attached[d] = "ramdisk" -> ramdisk_fetch(pos, n)
    [] OTHER -> vioblk_bytes(pos, n)
storage_store(d, pos, n) ==
  CASE Attached[d] = "ramdisk" -> ENOTSUP
    [] Attached[d] # "ramdisk" /\ pos % Blk(d) # 0 -> EINVAL
    [] OTHER -> vioblk_bytes(pos, n)

Refused(r) == r \in {EINVAL, ENOTSUP, EIO}

(* The bytes of device d from pos on.                                      *)
Slice(d, pos, n) == SubSeq(content[d], pos + 1, pos + n)
Overwritten(d, pos, w) ==
  [content EXCEPT ![d] = [i \in DOMAIN @ |-> IF i - pos \in 1 .. Len(w) THEN w[i - pos] ELSE @[i]]]

---------------------------------------------------------------------------
(* Calls on a device file.                                                 *)

(* The calls in progress on a disk.  A call that begins among them, and    *)
(* all of them when another use of the disk begins, is mixed.              *)
InUse(d) == {p \in Procs : d \in Disks /\ job[p].dev = d /\ job[p].ret = Running}
Joins(p, d) == mixed' = IF InUse(d) = {} THEN mixed ELSE mixed \cup InUse(d) \cup {p}

(* The position an access asks for: unaligned_fetch and unaligned_store    *)
(* ask for the block of the position.                                      *)
asks(place, pos, b) ==
  CASE place \in {"serial", "return"} -> 0
    [] place = "body" -> pos
    [] OTHER -> RoundDown(pos, b)

start(p, fd, j) ==
  LET u == uiotab[p][fd]
      d == uios[u].dev
      place == CASE uios[u].kind = "serial" -> "serial"
                 [] uios[u].kind # "serial" /\ uios[u].pos % Blk(d) # 0 -> "head"
                 [] OTHER -> "body"
  IN /\ User(p) /\ u # NULL /\ Counted
     /\ uios[u].kind \in {"storage", "serial"}
     /\ state' = [state EXCEPT ![p] = "call"]
     /\ juio' = [juio EXCEPT ![p] = u]
     /\ job' = [job EXCEPT ![p] = [j EXCEPT !.dev = d, !.ret = Running]]
     /\ at' = [at EXCEPT ![p] = place]
     /\ asked' = [asked EXCEPT ![p] = [pos |-> asks(place, uios[u].pos, Blk(d)), cnt |-> 0]]
     /\ Joins(p, d)
     /\ UNCHANGED <<devVars, fdVars, panic, leaked>>

sysread(p, fd, n) == start(p, fd, [NoCall EXCEPT !.op = "read", !.todo = n])
syswrite(p, fd, w) == start(p, fd, [NoCall EXCEPT !.op = "write", !.todo = Len(w), !.data = w])

InCall(p, op, place) == ~panic /\ state[p] = "call" /\ job[p].op = op /\ at[p] = place

Moved(j) == IF j.op = "read" THEN Len(j.got) ELSE Len(j.data) - j.todo

(* The call returns: what it has moved, or the error when that is nothing. *)
ends(p, j, r) ==
  /\ job' = [job EXCEPT ![p] = [j EXCEPT !.ret = IF Refused(r) /\ Moved(j) = 0 THEN r ELSE Moved(j)]]
  /\ at' = [at EXCEPT ![p] = "return"] /\ asked' = [asked EXCEPT ![p] = NoAccess]
  /\ UNCHANGED <<opened, uiotab, state, juio, panic, calls, histVars>>

(* The call goes on at a place, or returns when it has nothing left to do; *)
(* its next access is at the position pos of the uio and is to move k.     *)
goes_on(p, j, place, pos, k) ==
  /\ job' = [job EXCEPT ![p] = IF place = "return" THEN [j EXCEPT !.ret = Moved(j)] ELSE j]
  /\ at' = [at EXCEPT ![p] = place]
  /\ asked' = [asked EXCEPT ![p] = [pos |-> asks(place, pos, Blk(j.dev)), cnt |-> k]]
  /\ UNCHANGED <<opened, uiotab, state, juio, panic, calls, histVars>>

(* The place after the unaligned start, and after the whole blocks.        *)
after_head(j) == IF j.todo = 0 THEN "return" ELSE "body"
after_body(j, b) == IF j.todo % b # 0 THEN "tail" ELSE "return"

(* The part of a call that lies in the block of the position.              *)
part(u, j) == Min2(Blk(j.dev) - (uios[u].pos % Blk(j.dev)), j.todo)

(* A medium error ends the call.                                           *)
fails(p) ==
  /\ Attached[job[p].dev] = "vioblk" /\ faults < MaxFaults /\ faults' = faults + 1
  /\ ends(p, job[p], EIO)

(* The buffer after the block at pos was fetched into it; at the end of    *)
(* the device nothing is fetched and the buffer keeps what it has.         *)
fetched(u, d, pos) ==
  LET n == storage_fetch(d, pos, Blk(d))
  IN Slice(d, pos, n) \o SubSeq(uios[u].buffer, n + 1, Blk(d))

(* unaligned_fetch in storage_uio_read, at the head and at the tail.  The  *)
(* part it copies is that of the position after the fetch.                 *)
unaligned_fetch(p) ==
  LET j == job[p]
      u == juio[p]
      d == j.dev
      k == part(u, j)
      off == uios[u].pos % Blk(d)
      f == fetched(u, d, asked[p].pos)
      r == storage_fetch(d, asked[p].pos, Blk(d))
  IN /\ InCall(p, "read", at[p]) /\ at[p] \in {"head", "tail"}
     /\ UNCHANGED content
     /\ \/ Refused(r) /\ ends(p, j, r) /\ UNCHANGED <<uios, faults>>
        \/ /\ ~Refused(r)
           /\ LET n == [j EXCEPT !.todo = @ - k, !.got = @ \o SubSeq(f, off + 1, off + k)]
              IN /\ uios' = [uios EXCEPT ![u] = [uios[u] EXCEPT !.buffer = f, !.pos = @ + k]]
                 /\ goes_on(p, n, IF at[p] = "head" THEN after_head(n) ELSE "return", uios[u].pos + k, 0)
           /\ UNCHANGED faults
        \/ ~Refused(r) /\ fails(p) /\ UNCHANGED uios

(* The whole blocks of storage_uio_read.                                   *)
aligned_fetch(p) ==
  LET j == job[p]
      u == juio[p]
      d == j.dev
      want == RoundDown(j.todo, Blk(d))
      r == storage_fetch(d, asked[p].pos, want)
  IN /\ InCall(p, "read", "body")
     /\ UNCHANGED content
     /\ \/ Refused(r) /\ ends(p, j, r) /\ UNCHANGED <<uios, faults>>
        \/ /\ ~Refused(r)
           /\ uios' = [uios EXCEPT ![u].pos = @ + r]
           /\ LET n == [j EXCEPT !.todo = @ - r, !.got = @ \o Slice(d, asked[p].pos, r)]
              IN IF r < want THEN ends(p, n, r) ELSE goes_on(p, n, after_body(n, Blk(d)), uios[u].pos + r, 0)
           /\ UNCHANGED faults
        \/ ~Refused(r) /\ want > 0 /\ fails(p) /\ UNCHANGED uios


(* The block f with the next k bytes of the call put at off.               *)
patched(f, off, j, k) ==
  [i \in DOMAIN f |-> IF i - off \in 1 .. k THEN j.data[Moved(j) + i - off] ELSE f[i]]

(* unaligned_store fetches the block and overwrites its part of it ...     *)
unaligned_load(p) ==
  LET j == job[p]
      u == juio[p]
      d == j.dev
      k == part(u, j)
      r == storage_fetch(d, asked[p].pos, Blk(d))
  IN /\ InCall(p, "write", at[p]) /\ at[p] \in {"head", "tail"}
     /\ UNCHANGED content
     /\ \/ Refused(r) /\ ends(p, j, r) /\ UNCHANGED <<uios, faults>>
        \/ /\ ~Refused(r)
           /\ uios' = [uios EXCEPT ![u].buffer =
                         patched(fetched(u, d, asked[p].pos), uios[u].pos % Blk(d), j, k)]
           /\ goes_on(p, j, IF at[p] = "head" THEN "headst" ELSE "tailst", uios[u].pos, k)
           /\ UNCHANGED faults
        \/ ~Refused(r) /\ fails(p) /\ UNCHANGED uios

(* ... then stores what is in the buffer when the device is its own.       *)
unaligned_store(p) ==
  LET j == job[p]
      u == juio[p]
      d == j.dev
      k == asked[p].cnt
      n == [j EXCEPT !.todo = @ - k]
      r == storage_store(d, asked[p].pos, Blk(d))
      stored == Overwritten(d, asked[p].pos, SubSeq(uios[u].buffer, 1, r))
  IN /\ InCall(p, "write", at[p]) /\ at[p] \in {"headst", "tailst"}
     /\ \/ Refused(r) /\ ends(p, j, r) /\ UNCHANGED <<content, uios, faults>>
        \/ /\ ~Refused(r)
           /\ content' = stored
           /\ uios' = [uios EXCEPT ![u].pos = @ + k]
           /\ goes_on(p, n, IF at[p] = "headst" THEN after_head(n) ELSE "return", uios[u].pos + k, 0)
           /\ UNCHANGED faults
        \/ /\ ~Refused(r) /\ content' \in {content, stored}
           /\ fails(p) /\ UNCHANGED uios

(* The whole blocks of storage_uio_write; when one is refused, the blocks  *)
(* before it are stored.                                                   *)
aligned_store(p) ==
  LET j == job[p]
      u == juio[p]
      d == j.dev
      want == RoundDown(j.todo, Blk(d))
      r == storage_store(d, asked[p].pos, want)
      next(k) == SubSeq(j.data, Moved(j) + 1, Moved(j) + k)
  IN /\ InCall(p, "write", "body")
     /\ \/ Refused(r) /\ ends(p, j, r) /\ UNCHANGED <<content, uios, faults>>
        \/ /\ ~Refused(r)
           /\ content' = Overwritten(d, asked[p].pos, next(r))
           /\ uios' = [uios EXCEPT ![u].pos = @ + r]
           /\ LET n == [j EXCEPT !.todo = @ - r]
              IN IF r < want THEN ends(p, n, r) ELSE goes_on(p, n, after_body(n, Blk(d)), uios[u].pos + r, 0)
           /\ UNCHANGED faults
        \/ /\ ~Refused(r) /\ want > 0
           /\ \E k \in 0 .. r : k % Blk(d) = 0 /\ content' = Overwritten(d, asked[p].pos, next(k))
           /\ fails(p) /\ UNCHANGED uios

(* serial_uio_read on the clock: rtc_recv gives one time, whatever the     *)
(* length; the rest of a block comes from the uio's buffer.                *)
rtc_recv(n, b) == IF n = 0 THEN <<>> ELSE [i \in 1 .. b |-> TICK]

serial_uio_read(p) ==
  LET j == job[p]
      b == Blk(j.dev)
      n == RoundDown(j.todo, b)
      got == rtc_recv(n, b)
      rest == j.todo % b
      all == IF rest # 0 /\ Len(got) = n THEN got \o SubSeq(rtc_recv(b, b), 1, rest) ELSE got
  IN /\ InCall(p, "read", "serial")
     /\ uios' = IF rest # 0 /\ Len(got) = n THEN [uios EXCEPT ![juio[p]].buffer = rtc_recv(b, b)] ELSE uios
     /\ goes_on(p, [j EXCEPT !.got = all, !.todo = @ - Len(all)], "return", 0, 0)
     /\ UNCHANGED <<content, faults>>

(* The clock has no send.                                                  *)
serial_send == ENOTSUP

serial_uio_write(p) ==
  /\ InCall(p, "write", "serial")
  /\ ends(p, job[p], serial_send)
  /\ UNCHANGED <<content, faults, uios>>

(* Back to user mode.                                                      *)
leaves(p) ==
  /\ ~panic /\ state[p] = "call" /\ at[p] = "return"
  /\ at' = [at EXCEPT ![p] = "idle"] /\ job' = [job EXCEPT ![p] = NoCall]
  /\ juio' = [juio EXCEPT ![p] = NULL]
  /\ state' = [state EXCEPT ![p] = "user"]
  /\ mixed' = mixed \ {p}
  /\ UNCHANGED <<devVars, fdVars, asked, panic, calls, leaked>>

---------------------------------------------------------------------------
(* sysfcntl with FCNTL_SETPOS on a storage uio.                            *)
storage_uio_cntl(p, fd, pos) ==
  LET u == uiotab[p][fd] IN
  /\ User(p) /\ u # NULL /\ Counted
  /\ uios[u].kind = "storage" /\ pos <= DISKSZ
  /\ uios' = [uios EXCEPT ![u].pos = pos]
  /\ mixed' = mixed \cup InUse(uios[u].dev)
  /\ UNCHANGED <<devVars, uiotab, state, callVars, panic, leaked>>

(* The entries of a listing.                                               *)
entries(x) == IF x.kind = "devfs_listing" THEN Len(Attached) ELSE Len(mplist)

(* devfs_listing_read and fs_listing_read: the cursor is kept in pos.      *)
listing_read(p, fd) ==
  LET u == uiotab[p][fd] IN
  /\ User(p) /\ Counted /\ u # NULL /\ uios[u].kind \in {"devfs_listing", "fs_listing"}
  /\ uios[u].pos < entries(uios[u])
  /\ uios' = [uios EXCEPT ![u].pos = @ + 1]
  /\ UNCHANGED <<devVars, uiotab, state, callVars, panic, histVars>>

---------------------------------------------------------------------------
(* sysexec: the descriptor becomes the exefile of process_exec.            *)

(* No page, or arguments that do not fit: process_exec exits the process   *)
(* and the exefile is never closed.                                        *)
sysexec_fails(p, fd) ==
  LET u == uiotab[p][fd] IN
  /\ User(p) /\ Counted /\ u # NULL
  /\ uiotab' = [uiotab EXCEPT ![p][fd] = NULL]
  /\ leaked' = [leaked EXCEPT ![u] = @ + 1]
  /\ state' = [state EXCEPT ![p] = "exiting"]
  /\ UNCHANGED <<devVars, uios, callVars, panic, mixed>>

sysexec(p, fd) ==
  LET u == uiotab[p][fd]
      d == IF uios[u].kind = "storage" THEN uios[u].dev ELSE 0
  IN /\ User(p) /\ Counted /\ u # NULL
     /\ uiotab' = [uiotab EXCEPT ![p][fd] = NULL]
     /\ state' = [state EXCEPT ![p] = "exec"]
     /\ juio' = [juio EXCEPT ![p] = u]
     /\ job' = [job EXCEPT ![p] = [NoCall EXCEPT !.op = "exec", !.dev = d, !.ret = Running]]
     /\ Joins(p, d)
     /\ UNCHANGED <<devVars, uios, at, asked, panic, leaked>>

(* The blocks of a disk.                                                   *)
Blocks(d) == {Slice(d, pos, Blk(d)) : pos \in {i \in 0 .. DISKSZ - Blk(d) : i % Blk(d) = 0}}

(* What elf_load may do with a disk from one sleep to the next: it seeks   *)
(* and reads, up to the end or, through the buffer, in the block after it, *)
(* and with other calls on the uio a block further for each.  No other     *)
(* device file lets it set the position, and it fails at once.             *)
elf_load(p) ==
  LET u == juio[p]
      b == Blk(uios[u].dev)
      past == IF p \in mixed THEN Cardinality(Procs) ELSE 1
  IN /\ ~panic /\ state[p] = "exec" /\ uios[u].kind = "storage"
     /\ \E i \in 0 .. DISKSZ + past * b, f \in {uios[u].buffer} \cup Blocks(uios[u].dev) :
          uios' = [uios EXCEPT ![u] = [uios[u] EXCEPT !.buffer = f, !.pos = i]]
     /\ UNCHANGED <<devVars, uiotab, state, callVars, panic, calls, histVars>>

(* It returns and process_exec closes the exefile; a load that failed ends *)
(* the process.  Only a disk holds an image.                               *)
process_exec_ends(p) ==
  /\ ~panic /\ state[p] = "exec"
  /\ uio_close(juio[p])
  /\ \E s \in {"user", "exiting"} :
       /\ s = "user" => uios[juio[p]].kind = "storage"
       /\ state' = [state EXCEPT ![p] = s]
  /\ job' = [job EXCEPT ![p] = NoCall] /\ juio' = [juio EXCEPT ![p] = NULL]
  /\ mixed' = mixed \ {p}
  /\ UNCHANGED <<content, faults, uiotab, at, asked, panic, calls, leaked>>

Next ==
  \E p \in Procs :
    \/ \E fd \in Fds \cup {-1}, path \in Paths : sysopen(p, fd, path)
    \/ \E fd \in Fds : \/ sysclose(p, fd)
                       \/ listing_read(p, fd)
                       \/ \E to \in Fds : sysuiodup(p, fd, to)
                       \/ \E n \in 1 .. MaxLen : sysread(p, fd, n)
                       \/ \E w \in Messages : syswrite(p, fd, w)
                       \/ \E pos \in 0 .. DISKSZ : storage_uio_cntl(p, fd, pos)
                       \/ sysexec(p, fd) \/ sysexec_fails(p, fd)
    \/ \E q \in Procs : fork(p, q)
    \/ fork_fails(p) \/ exit(p) \/ exit_close(p)
    \/ elf_load(p) \/ process_exec_ends(p)
    \/ unaligned_fetch(p) \/ aligned_fetch(p)
    \/ unaligned_load(p) \/ unaligned_store(p) \/ aligned_store(p)
    \/ serial_uio_read(p) \/ serial_uio_write(p) \/ leaves(p)

Spec == Init /\ [][Next]_vars

---------------------------------------------------------------------------
(* Properties.                                                             *)

Holders(u) == {h \in Procs \X Fds : uiotab[h[1]][h[2]] = u}
Execs(u) == {p \in Procs : state[p] = "exec" /\ juio[p] = u}

(* A storage device is open for exactly one user, the kernel or one uio,   *)
(* and closed otherwise; the count of a uio is the number of descriptors   *)
(* and execs in progress that refer to it, through open, dup, fork, exec,  *)
(* close and exit in any order, and beyond these only what a failed fork   *)
(* or a failed exec never gives back (process.c:213-231, 108-125), so that *)
(* no call runs on a freed uio (uio.c:80-96, device.c:619-625, 710-716).   *)
DevicesHeldOnce ==
  /\ \A u \in Uios : uios[u].refcnt = Cardinality(Holders(u)) + Cardinality(Execs(u)) + leaked[u]
  /\ \A p \in Procs : juio[p] # NULL => uios[juio[p]].refcnt > 0
  /\ \A d \in Disks : LET users == {u \in Uios : uios[u].kind = "storage" /\ uios[u].dev = d} IN
       /\ opened[d] <=> (d \in KernelHeld \/ users # {})
       /\ Cardinality(users) + (IF d \in KernelHeld THEN 1 ELSE 0) <= 1

PosOf(d) == LET us == {u \in Uios : uios[u].kind = "storage" /\ uios[u].dev = d}
            IN IF us = {} THEN 0 ELSE uios[CHOOSE u \in us : TRUE].pos

B == INSTANCE ByteDevices WITH
       Clocks <- Devs \ Disks,
       ReadOnly <- {d \in Disks : Attached[d] = "ramdisk"},
       Capacity <- [d \in Disks |-> DISKSZ],
       posn <- [d \in Disks |-> PosOf(d)]

=============================================================================
