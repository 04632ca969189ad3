------------------------------- MODULE VRegion -------------------------------
(***************************************************************************)
(* The region arithmetic of src/kernel/vspace.c and src/inc/vspace.h, as   *)
(* operators: a region's bounds (VRTOP, VRBOT), the descriptor index of an *)
(* address (va2vpi_idx), containment (vregioncontains, va2vregion,         *)
(* vspacecontains), the pages vregionaddmap fills, the pages               *)
(* vspaceinvalidate rebuilds, and vspaceloadcode's segment loop.           *)
(*                                                                         *)
(* Addresses are uint64_t in the code.  Here they are WIDTH-bit unsigned   *)
(* integers with pages of 2^PAGE_SHIFT bytes: every + and - on an address  *)
(* wraps (% Word), so that a region whose bottom or top wraps behaves as   *)
(* the C does.  Frame allocation is left out: every kalloc succeeds (its   *)
(* failures are ProcMemory's), and a descriptor is named by its index.     *)
(***************************************************************************)
EXTENDS Naturals, Integers, Sequences, FiniteSets, Functions

CONSTANTS
    PAGE_SHIFT, \* log2 of PGSIZE
    WIDTH,      \* bits of an address
    KERNBASE    \* first kernel address; user regions lie below it

Word   == 2^WIDTH
PGSIZE == 2^PAGE_SHIFT

\* As in the kernel, where a user address is below KERNBASE = 2^64 - 2^31
\* and a size is an int, an address plus a size of up to two pages does
\* not wrap.
ASSUME PAGE_SHIFT \in Nat /\ WIDTH > PAGE_SHIFT + 1
       /\ KERNBASE \in 1 .. Word - 1 /\ KERNBASE % PGSIZE = 0
       /\ KERNBASE + 2 * PGSIZE <= Word

\* uint64_t arithmetic.
U(x) == x % Word
Addr == 0 .. Word - 1

\* PGROUNDUP(a): (a + PGSIZE - 1) & ~(PGSIZE - 1).
PGROUNDUP(a) == (U(a + PGSIZE - 1) \div PGSIZE) * PGSIZE

UP   == "VRDIR_UP"
DOWN == "VRDIR_DOWN"

\* struct vregion without its descriptor list.
Region == [dir : {UP, DOWN}, base : Addr, size : Addr]

VRTOP(r) == IF r.dir = UP THEN U(r.base + r.size) ELSE r.base
VRBOT(r) == IF r.dir = UP THEN r.base ELSE U(r.base - r.size)

\* Mutant: a stack page numbered from the base itself, without the - 1.
va2vpi_idxFromBase(r, va) ==
    IF r.dir = UP THEN U(va - r.base) \div PGSIZE
    ELSE U(r.base - va) \div PGSIZE

\* va2vpi_idx: pages are numbered from the base in the direction of growth.
va2vpi_idx(r, va) ==
    IF r.dir = UP THEN U(va - r.base) \div PGSIZE
    ELSE U(r.base - 1 - va) \div PGSIZE

\* Mutant: only the first byte of the range is tested.
vregioncontainsStartOnly(r, va, size) == va >= VRBOT(r) /\ va < VRTOP(r)

\* vregioncontains(vr, va, size): size is an int added to a uint64_t.
vregioncontains(r, va, size) == va >= VRBOT(r) /\ U(va + size) < VRTOP(r)

\* va2vregion: the first region (index into vs) whose range holds va, with
\* the bounds written out per direction; 0 is NULL.
InRegion(r, va) ==
    IF r.dir = UP THEN va >= r.base /\ va < U(r.base + r.size)
    ELSE va >= U(r.base - r.size) /\ va < r.base
va2vregion(vs, va) ==
    LET hits == {i \in DOMAIN vs : InRegion(vs[i], va)} IN
    IF hits = {} THEN 0 ELSE CHOOSE i \in hits : \A j \in hits : i <= j

vspacecontains(vs, va, size) ==
    LET i == va2vregion(vs, va) IN i # 0 /\ vregioncontains(vs[i], va, size)

\* for (a = from; a < end; a += PGSIZE): the addresses such a loop visits.
RECURSIVE PageLoop(_, _)
PageLoop(a, end) == IF a < end THEN {a} \cup PageLoop(U(a + PGSIZE), end) ELSE {}

\* vregionaddmap(vr, from_va, sz): its result, and the addresses whose
\* descriptor it marks used (with every kalloc succeeding).
AddmapRet(from, sz) ==
    IF U(sz + from) >= KERNBASE THEN -1 ELSE sz
AddmapPages(from, sz) ==
    IF AddmapRet(from, sz) <= 0 THEN {} ELSE PageLoop(PGROUNDUP(from), U(from + sz))

\* vspaceinvalidate's rebuild of one region: whether its
\* assert(start % PGSIZE == 0) fails, and the addresses it maps.
Rebuild(r) ==
    [panic |-> VRBOT(r) % PGSIZE # 0,
     pages |-> IF VRBOT(r) % PGSIZE # 0 THEN {} ELSE PageLoop(VRBOT(r), VRTOP(r))]

\* vrloaddata(r, va, ip, off, sz): the addresses whose descriptor it
\* asserts used (va2vpage_info(r, va + i) for i < sz in steps of PGSIZE).
LoadPages(va, sz) == {U(va + i) : i \in PageLoop(0, sz)}

\* A program header of the ELF file: p_type, p_vaddr, p_memsz, p_filesz.
ELF_PROG_LOAD == "load"

\* Mutant: the segment mapped as ph.memsz bytes from va, not up to its end.
LoadStepMemsz(s, ph) ==
    LET end == U(ph.memsz)
        ret == AddmapRet(s.va, end)
        loads == LoadPages(ph.vaddr, ph.filesz)
        mapped == s.mapped \cup AddmapPages(s.va, end)
    IN
    CASE s.out # "ok"                     -> s
      [] ph.type # ELF_PROG_LOAD          -> s
      [] ph.memsz < ph.filesz             -> [s EXCEPT !.out = "elf_failure"]
      [] end < ph.vaddr                   -> [s EXCEPT !.out = "elf_failure"]
      [] ret < 0                          -> [s EXCEPT !.out = "elf_failure"]
      [] ph.vaddr % PGSIZE # 0            -> [s EXCEPT !.mapped = mapped, !.out = "elf_failure"]
      [] ~(loads \subseteq mapped)        -> [s EXCEPT !.mapped = mapped, !.out = "panic"]
      [] OTHER -> [s EXCEPT !.va = U(s.va + ret), !.sz = ret, !.szSet = TRUE, !.mapped = mapped,
                            !.loaded = s.loaded \cup loads]

\* vspaceloadcode's loop over the program headers.  s is the loop state:
\* va, sz (undefined until a LOAD segment sets it, szSet), the addresses mapped,
\* the addresses vrloaddata asserts used, and the outcome: "ok",
\* "elf_failure" or, if an assert fails, "panic".
LoadStep(s, ph) ==
    LET end == U(ph.vaddr + ph.memsz)
        ret == AddmapRet(s.va, end)
        loads == LoadPages(ph.vaddr, ph.filesz)
        mapped == s.mapped \cup AddmapPages(s.va, end)
    IN
    CASE s.out # "ok"                     -> s
      [] ph.type # ELF_PROG_LOAD          -> s
      [] ph.memsz < ph.filesz             -> [s EXCEPT !.out = "elf_failure"]
      [] end < ph.vaddr                   -> [s EXCEPT !.out = "elf_failure"]
      [] ret < 0                          -> [s EXCEPT !.out = "elf_failure"]
      [] ph.vaddr % PGSIZE # 0            -> [s EXCEPT !.mapped = mapped, !.out = "elf_failure"]
      [] ~(loads \subseteq mapped)        -> [s EXCEPT !.mapped = mapped, !.out = "panic"]
      [] OTHER -> [s EXCEPT !.va = U(s.va + ret), !.sz = ret, !.szSet = TRUE, !.mapped = mapped,
                            !.loaded = s.loaded \cup loads]

RECURSIVE LoadLoop(_, _)
LoadLoop(s, phs) == IF phs = <<>> THEN s ELSE LoadLoop(LoadStep(s, Head(phs)), Tail(phs))

\* The loop, then the code region's size PGROUNDUP(sz); szSet is FALSE when
\* no LOAD segment ever assigned sz, whose value is then undefined.
LoadCode(phs) ==
    LET s == LoadLoop([va |-> 0, sz |-> 0, szSet |-> FALSE, mapped |-> {},
                       loaded |-> {}, out |-> "ok"], phs)
    IN [s EXCEPT !.sz = PGROUNDUP(@)]

-----------------------------------------------------------------------------
(* Bounded inputs, and the reference definitions the code is checked       *)
(* against.                                                                *)

Sizes == {k * PGSIZE : k \in 0 .. 2}

\* Any region of up to two pages below KERNBASE, aligned or not; a stack
\* may have grown past address 0, so that its bottom wraps (gaddmap grows
\* the app's stack by PGSIZE a call, guest.c:350).
AnyRegion ==
    {r \in [dir : {UP, DOWN}, base : Addr, size : Sizes] :
        IF r.dir = UP THEN r.base + r.size <= KERNBASE ELSE r.base <= KERNBASE}

\* The regions the kernel sets up itself (vspaceinitcode, vspaceloadcode,
\* vspaceinitstack, exec): page-aligned, below KERNBASE, a stack no
\* larger than its base.
CreatedRegion ==
    {r \in AnyRegion : /\ r.base % PGSIZE = 0
                       /\ IF r.dir = UP THEN r.base + r.size <= KERNBASE
                          ELSE r.size <= r.base /\ r.base <= KERNBASE}

\* The bytes of a region in unbounded integers: [base, base + size) when it
\* grows up, [base - size, base) when it grows down.
Bytes(r) == IF r.dir = UP THEN r.base .. (r.base + r.size - 1)
            ELSE (r.base - r.size) .. (r.base - 1)

\* Program headers: LOAD segments at aligned and unaligned addresses, of
\* up to two pages, and a header of another type.
Phdr ==
    [type : {ELF_PROG_LOAD}, vaddr : {0, PGSIZE, PGSIZE + 1, 2 * PGSIZE},
     memsz : 0 .. 2 * PGSIZE, filesz : 0 .. 2 * PGSIZE]
    \cup {[type |-> "note", vaddr |-> 0, memsz |-> 0, filesz |-> 0]}
Program == {<<>>} \cup {<<p>> : p \in Phdr} \cup {<<p, q>> : p, q \in Phdr}

-----------------------------------------------------------------------------
(* Properties, checked over the inputs above.  Each formula is constant;  *)
(* MC_Forwarding checks it as an action property of every step.           *)

\* vspacecontains(vs, va, size) is sound: when it accepts a range, every
\* byte of it lies in the region va2vregion found, for any region below
\* KERNBASE, aligned or not, a stack's bottom wrapping or not, with the int
\* size negative, zero or positive.  (The check va + size < VRTOP also
\* turns down a range that ends exactly at the top.)
VspaceContainsSound ==
    \A r \in AnyRegion, va \in Addr, n \in -1 .. 2 * PGSIZE :
        vspacecontains(<<r>>, va, n) =>
            \A b \in 0 .. n - 1 : va + b \in Bytes(r)

\* vspaceinvalidate rebuilds exactly the pages of each region the kernel
\* creates, without tripping its alignment assert, and va2vpi_idx gives
\* them distinct descriptors 0 .. size/PGSIZE - 1; every page vregionaddmap
\* fills for a range inside the region is one of them.  A stack page
\* numbered off by one would read another page's descriptor, or one past
\* the list.
RebuildIndexBijective ==
    \A r \in CreatedRegion :
        LET pages == Rebuild(r).pages
            idx == [a \in pages |-> va2vpi_idx(r, a)]
        IN /\ ~Rebuild(r).panic
           /\ pages = {a \in Bytes(r) : a % PGSIZE = 0}
           /\ IsInjective(idx)
           /\ Range(idx) = 0 .. (r.size \div PGSIZE) - 1
           /\ \A from \in Bytes(r), sz \in 1 .. r.size :
                 from + sz - 1 \in Bytes(r) => AddmapPages(from, sz) \subseteq pages

\* vrloaddata's assertm(vpi->used) never fires: for any program of up to
\* two headers, in any order, every page a LOAD segment reads into has been
\* mapped by the vregionaddmap calls of the loop so far.
LoadedPagesMapped ==
    \A phs \in Program : LoadCode(phs).out # "panic"

=============================================================================
