----------------------------- MODULE ProcMemory -----------------------------
(***************************************************************************)
(* The physical frames of kalloc.c under the process lifecycle of proc.c:  *)
(* fork with vspacecopy (vspace.c) and its failure path, exec, exit and    *)
(* wait with vspacefree.  Each frame is available or not                   *)
(* (core_map[].available); a process holds a kernel stack, a root page     *)
(* table, and for each region that has pages a page-descriptor page        *)
(* (struct vpi_page) whose first vpage_info names a data frame.  Page      *)
(* descriptors live in frames, so the descriptors a process reads are      *)
(* vpi[desc[p][r]]: two processes whose desc point at the same frame read  *)
(* and free the same descriptors.                                          *)
(*                                                                         *)
(* The steps of fork run without ptable.lock and each kalloc/kfree is      *)
(* atomic under kmem.lock, so fork is split at its allocations and the     *)
(* forks of several processes interleave.                                  *)
(***************************************************************************)
EXTENDS Naturals, FiniteSets

CONSTANTS
    NPROC,      \* slots of ptable.proc
    NFRAMES,    \* physical frames
    InitFree,   \* how many frames past userinit's are free at boot
    MaxExecs,   \* bound on the exec calls of a behaviour
    NOFILE,     \* open files per process
    Files       \* entries of ftable.file

Procs   == 1 .. NPROC
Frames  == 1 .. NFRAMES
NULL    == 0
\* kfree fills a page with 2s; a descriptor read from it names no frame.
JUNK    == NFRAMES + 1
\* VR_CODE, VR_HEAP and VR_USTACK, in the order vspacecopy visits them.
\* The heap has no pages (nothing under src grows it); the guest-only
\* regions, also empty in an ordinary process, are left out.
Regions == 1 .. 3
VR_HEAP == 2
initproc == 1

\* userinit allocates, lowest frame first: allocproc's kstack (1),
\* vspaceinit's pgtbl (2), then for the code and the stack region a
\* descriptor page and one data page (vspaceinitcode: 3, 4 and 5, 6).
InitDesc == [r \in Regions |-> CASE r = 1 -> 3 [] r = VR_HEAP -> NULL [] r = 3 -> 5]

Fds == 0 .. NOFILE - 1

ASSUME InitFree \subseteq 0 .. (NFRAMES - 6)

VARIABLES
    avail,   \* core_map[f].available
    state,   \* p->state: UNUSED, EMBRYO, RUNNABLE (also running or asleep), ZOMBIE
    parent,  \* p->parent, NULL for none
    kstack,  \* p->kstack
    pgtbl,   \* p->vspace.pgtbl
    desc,    \* p->vspace.regions[r].pages
    vpi,     \* vpi[d]: the ppn of the first vpage_info in descriptor page d
    mapped,  \* data frames installed in p's page table by vspaceinvalidate
    pc,      \* where a process is: "user" or a step of fork
    child,   \* np of the fork in progress
    cur,     \* the region vspacecopy is copying
    execs,   \* exec calls so far, against MaxExecs
    newva,   \* exec's newva: page table, descriptor pages and mapped pages
    ofile,   \* p->ofile[fd]: an ftable entry or NULL
    fref,    \* ftable.file[f].ref
    fault    \* "none", "null_deref", "assert" or "corrupt" (kfree junk-fills
             \* a live page)

vars == <<avail, state, parent, kstack, pgtbl, desc, vpi, mapped, pc, child,
          cur, execs, newva, ofile, fref, fault>>

\* An address space exec has not started: vspaceinit's zeroed regions.
NoVspace == [pgtbl |-> NULL, desc |-> [r \in Regions |-> NULL], mapped |-> {}]

\* init.c opens the console and dups it twice: every fd of init holds one
\* file, whose ref counts them.  (open is outside the kernel modelled
\* here; the state after it is the state init forks from.)
InitOfile(f) ==
    /\ ofile = [p \in Procs |-> [fd \in Fds |-> IF p = initproc THEN f ELSE NULL]]
    /\ fref = [g \in Files |-> IF g = f THEN NOFILE ELSE 0]

Init ==
    \E n \in InitFree :
    /\ avail = [f \in Frames |-> f > 6 /\ f <= 6 + n]
    /\ state = [p \in Procs |-> IF p = initproc THEN "RUNNABLE" ELSE "UNUSED"]
    /\ parent = [p \in Procs |-> NULL]
    /\ kstack = [p \in Procs |-> IF p = initproc THEN 1 ELSE NULL]
    /\ pgtbl = [p \in Procs |-> IF p = initproc THEN 2 ELSE NULL]
    /\ desc = [p \in Procs |-> IF p = initproc THEN InitDesc ELSE [r \in Regions |-> NULL]]
    /\ vpi = [f \in Frames |-> IF f \in {3, 5} THEN f + 1 ELSE NULL]
    /\ mapped = [p \in Procs |-> IF p = initproc THEN {4, 6} ELSE {}]
    /\ pc = [p \in Procs |-> "user"]
    /\ child = [p \in Procs |-> NULL]
    /\ cur = [p \in Procs |-> 1]
    /\ execs = 0
    /\ newva = [p \in Procs |-> NoVspace]
    /\ fault = "none"
    /\ \E f \in Files : InitOfile(f)

Running == fault = "none"

-----------------------------------------------------------------------------
(* kalloc.c                                                                *)

\* kalloc's scan of core_map: the lowest available frame, or 0.
Kalloc ==
    IF \E f \in Frames : avail[f]
    THEN CHOOSE f \in Frames : avail[f] /\ \A g \in Frames : avail[g] => f <= g
    ELSE NULL

\* The frames a process reaches: its kernel stack, its page table, its
\* descriptor pages and the data pages those name.
Pages(q) == {vpi[desc[q][r]] : r \in {s \in Regions : desc[q][s] # NULL}}
Holds(q) == ({kstack[q], pgtbl[q]} \cup {desc[q][r] : r \in Regions} \cup Pages(q))
                \ {NULL, JUNK}
\* The frames of the address space exec is building for q.
NewHolds(q) == ({newva[q].pgtbl} \cup {newva[q].desc[r] : r \in Regions}
                  \cup {vpi[newva[q].desc[r]] : r \in {s \in Regions : newva[q].desc[s] # NULL}})
                \ {NULL, JUNK}
Owned(q) == Holds(q) \cup NewHolds(q)

\* kfree of each frame of S: available again, and filled with junk.
Kfree(S) ==
    /\ avail' = [f \in Frames |-> avail[f] \/ f \in S]
    /\ vpi' = [f \in Frames |-> IF f \in S THEN JUNK ELSE vpi[f]]

\* Junk-filling a frame another live process still holds corrupts it.
Corrupts(S, q) == \E o \in Procs \ {q} : state[o] # "UNUSED" /\ S \cap Owned(o) # {}

\* The fds of q that hold file f.
Held(q, f) == {fd \in Fds : ofile[q][fd] = f}

\* fork's loop np->ofile[i] = filedup(myproc()->ofile[i]) over the open
\* fds: each filedup is a ref++ under ftable.lock, and the loop writes only
\* the child's table, so the loop is one step.  An fd the parent has not
\* open is left as it is in the child.
FileDup(p, c) ==
    /\ ofile' = [ofile EXCEPT ![c] = [fd \in Fds |->
                    IF ofile[p][fd] # NULL THEN ofile[p][fd] ELSE ofile[c][fd]]]
    /\ fref' = [f \in Files |-> fref[f] + Cardinality(Held(p, f))]

\* exit's loop fileclose(myproc()->ofile[fd]); myproc()->ofile[fd] = 0:
\* each fileclose is a ref-- under ftable.lock.  The entry whose ref
\* reaches 0 becomes FD_NONE and its inode is released (inodes are not
\* modelled).
FileClose(p) ==
    /\ ofile' = [ofile EXCEPT ![p] = [fd \in Fds |-> NULL]]
    /\ fref' = [f \in Files |-> fref[f] - Cardinality(Held(p, f))]

\* vspacefree: free_page_desc_list on every region, then freevm of the page
\* table with the user pages it maps.
VspaceFrames(q) == ({desc[q][r] : r \in Regions} \cup mapped[q] \cup {pgtbl[q]}) \ {NULL}

-----------------------------------------------------------------------------
(* fork (proc.c) and vspacecopy (vspace.c), one step per allocation.       *)

UserStep(p) == state[p] = "RUNNABLE" /\ pc[p] = "user" /\ Running

\* allocproc: the lowest UNUSED slot becomes EMBRYO and gets a kernel
\* stack; with no slot, or no frame for the stack, fork returns -1.
ForkAlloc(p) ==
    /\ UserStep(p)
    /\ LET free == {c \in Procs : state[c] = "UNUSED"} IN
       \/ /\ free = {} \/ Kalloc = NULL
          /\ UNCHANGED vars
       \/ /\ free # {} /\ Kalloc # NULL
          /\ LET c == CHOOSE c \in free : \A d \in free : c <= d IN
             /\ state' = [state EXCEPT ![c] = "EMBRYO"]
             /\ kstack' = [kstack EXCEPT ![c] = Kalloc]
             /\ avail' = [avail EXCEPT ![Kalloc] = FALSE]
             /\ child' = [child EXCEPT ![p] = c]
             /\ pc' = [pc EXCEPT ![p] = "init"]
             /\ UNCHANGED <<parent, pgtbl, desc, vpi, mapped, cur, fault>>

\* vspaceinit, whose failure fork ignores, then vspacecopy's memmove of the
\* parent's regions: every region of the child points at the parent's
\* descriptor pages until it is copied.
ForkInit(p) ==
    LET c == child[p] IN
    /\ state[p] = "RUNNABLE" /\ pc[p] = "init" /\ Running
    /\ pgtbl' = [pgtbl EXCEPT ![c] = Kalloc]
    /\ avail' = IF Kalloc = NULL THEN avail ELSE [avail EXCEPT ![Kalloc] = FALSE]
    /\ desc' = [desc EXCEPT ![c] = desc[p]]
    /\ cur' = [cur EXCEPT ![p] = 1]
    /\ pc' = [pc EXCEPT ![p] = "copy_desc"]
    /\ UNCHANGED <<state, parent, kstack, vpi, mapped, child, fault>>

\* After a region: the next one, or vspaceinvalidate.
NextRegion(p) ==
    IF cur[p] < 3
    THEN /\ cur' = [cur EXCEPT ![p] = cur[p] + 1]
         /\ pc' = [pc EXCEPT ![p] = "copy_desc"]
    ELSE /\ pc' = [pc EXCEPT ![p] = "done"]
         /\ UNCHANGED cur

\* copy_vpi_page(&vr->pages, vr->pages): a region without pages stays
\* NULL; otherwise a new descriptor page, zeroed, or on failure *dst = 0
\* and vspacecopy returns -1 with the later regions still aliased.
ForkCopyDesc(p) ==
    LET c == child[p]
        r == cur[p]
    IN
    /\ state[p] = "RUNNABLE" /\ pc[p] = "copy_desc" /\ Running
    /\ \/ /\ desc[p][r] = NULL
          /\ NextRegion(p)
          /\ UNCHANGED <<avail, desc, vpi>>
       \/ /\ desc[p][r] # NULL /\ Kalloc = NULL
          /\ desc' = [desc EXCEPT ![c][r] = NULL]
          /\ pc' = [pc EXCEPT ![p] = "fail"]
          /\ UNCHANGED <<avail, vpi, cur>>
       \/ /\ desc[p][r] # NULL /\ Kalloc # NULL
          /\ desc' = [desc EXCEPT ![c][r] = Kalloc]
          /\ avail' = [avail EXCEPT ![Kalloc] = FALSE]
          /\ vpi' = [vpi EXCEPT ![Kalloc] = NULL]
          /\ pc' = [pc EXCEPT ![p] = "copy_page"]
          /\ UNCHANGED cur
    /\ UNCHANGED <<state, parent, kstack, pgtbl, mapped, child, fault>>

\* Mutant: the child's entry is given the parent's frame, as the
\* copy-on-write copy does, but without kincref.
ForkCopyPageShared(p) ==
    LET c == child[p]
        r == cur[p]
    IN
    /\ state[p] = "RUNNABLE" /\ pc[p] = "copy_page" /\ Running
    /\ vpi' = [vpi EXCEPT ![desc[c][r]] = vpi[desc[p][r]]]
    /\ NextRegion(p)
    /\ UNCHANGED <<avail, state, parent, kstack, pgtbl, desc, mapped, child, fault>>

\* The loop over the descriptor's entries: the used entry gets a fresh data
\* frame (kalloc, memmove); without one, copy_vpi_page returns -1.  Unused
\* entries are skipped and change nothing.
ForkCopyPage(p) ==
    LET c   == child[p]
        r   == cur[p]
        dst == desc[c][r]
    IN
    /\ state[p] = "RUNNABLE" /\ pc[p] = "copy_page" /\ Running
    /\ \/ /\ Kalloc = NULL
          /\ pc' = [pc EXCEPT ![p] = "fail"]
          /\ UNCHANGED <<avail, vpi, cur>>
       \/ /\ Kalloc # NULL
          /\ vpi' = [vpi EXCEPT ![dst] = Kalloc]
          /\ avail' = [avail EXCEPT ![Kalloc] = FALSE]
          /\ NextRegion(p)
    /\ UNCHANGED <<state, parent, kstack, pgtbl, desc, mapped, child, fault>>

\* vspacecopy's vspaceinvalidate(dst), then the rest of fork: the child
\* gets its parent and the parent's open files, and becomes RUNNABLE.  A NULL pgtbl is dereferenced.
ForkDone(p) ==
    LET c == child[p] IN
    /\ state[p] = "RUNNABLE" /\ pc[p] = "done" /\ Running
    /\ \/ /\ pgtbl[c] = NULL
          /\ fault' = "null_deref"
          /\ UNCHANGED <<state, parent, mapped, pc, child, ofile, fref>>
       \/ /\ pgtbl[c] # NULL
          /\ mapped' = [mapped EXCEPT ![c] = Pages(c)]
          /\ parent' = [parent EXCEPT ![c] = p]
          /\ FileDup(p, c)
          /\ state' = [state EXCEPT ![c] = "RUNNABLE"]
          /\ pc' = [pc EXCEPT ![p] = "user"]
          /\ child' = [child EXCEPT ![p] = NULL]
          /\ UNCHANGED fault
    /\ UNCHANGED <<avail, kstack, pgtbl, desc, vpi, cur>>

\* fork's failure path: vspacefree(&np->vspace), kfree(np->kstack),
\* np->state = UNUSED.  freevm walks the page table, NULL if vspaceinit
\* failed.
ForkFail(p) ==
    LET c == child[p] IN
    /\ state[p] = "RUNNABLE" /\ pc[p] = "fail" /\ Running
    /\ \/ /\ pgtbl[c] = NULL
          /\ fault' = "null_deref"
          /\ UNCHANGED <<avail, vpi, state, kstack, desc, mapped, pc, child>>
       \/ /\ pgtbl[c] # NULL /\ Corrupts(VspaceFrames(c) \cup {kstack[c]}, c)
          /\ fault' = "corrupt"
          /\ UNCHANGED <<avail, vpi, state, kstack, desc, mapped, pc, child>>
       \/ /\ pgtbl[c] # NULL /\ ~Corrupts(VspaceFrames(c) \cup {kstack[c]}, c)
          /\ Kfree(VspaceFrames(c) \cup {kstack[c]})
          /\ state' = [state EXCEPT ![c] = "UNUSED"]
          /\ kstack' = [kstack EXCEPT ![c] = NULL]
          /\ desc' = [desc EXCEPT ![c] = [r \in Regions |-> NULL]]
          /\ mapped' = [mapped EXCEPT ![c] = {}]
          /\ pc' = [pc EXCEPT ![p] = "user"]
          /\ child' = [child EXCEPT ![p] = NULL]
          /\ UNCHANGED fault
    /\ UNCHANGED <<parent, pgtbl, cur>>

-----------------------------------------------------------------------------
(* exec (exec.c) with vspaceloadcode, vspaceinitstack and vspacewritetova  *)
(* (vspace.c), one step per allocation.  The program has one loadable      *)
(* segment of one page; the file system is a nondeterministic outcome.     *)

VR_CODE == 1
VR_USTACK == 3

\* vspacefree(&newva): its descriptor pages, the pages its table maps, the
\* table.  A data page vregionaddmap allocated but vspaceinvalidate never
\* mapped is not among them.
NewVspaceFrames(q) ==
    ({newva[q].desc[r] : r \in Regions} \cup newva[q].mapped \cup {newva[q].pgtbl}) \ {NULL}

\* va2vpage_info's first descriptor page of region r: kalloc unchecked,
\* then memset(vr->pages, 0, PGSIZE), a NULL store when memory is out.
ExecDesc(p, r, from, to) ==
    /\ state[p] = "RUNNABLE" /\ pc[p] = from /\ Running
    /\ \/ /\ Kalloc = NULL
          /\ fault' = "null_deref"
          /\ UNCHANGED <<avail, vpi, pc, newva>>
       \/ /\ Kalloc # NULL
          /\ newva' = [newva EXCEPT ![p].desc[r] = Kalloc]
          /\ avail' = [avail EXCEPT ![Kalloc] = FALSE]
          /\ vpi' = [vpi EXCEPT ![Kalloc] = NULL]
          /\ pc' = [pc EXCEPT ![p] = to]
          /\ UNCHANGED fault
    /\ UNCHANGED <<pgtbl, desc, mapped>>

\* vspaceinit(&newva); without a page table exec returns -1 (badnofree).
ExecInit(p) ==
    /\ UserStep(p) /\ execs < MaxExecs
    /\ execs' = execs + 1
    /\ \/ /\ Kalloc = NULL
          /\ UNCHANGED <<avail, vpi, pc, pgtbl, desc, mapped, newva, fault>>
       \/ /\ Kalloc # NULL
          /\ newva' = [newva EXCEPT ![p] = [NoVspace EXCEPT !.pgtbl = Kalloc]]
          /\ avail' = [avail EXCEPT ![Kalloc] = FALSE]
          /\ pc' = [pc EXCEPT ![p] = "exec_code"]
          /\ UNCHANGED <<vpi, pgtbl, desc, mapped, fault>>

\* vspaceloadcode up to vregionaddmap's first page: namei or the ELF
\* header fails (return 0, goto bad), or the code region's descriptor.
ExecLoadCode(p) ==
    \/ /\ state[p] = "RUNNABLE" /\ pc[p] = "exec_code" /\ Running
       /\ pc' = [pc EXCEPT ![p] = "exec_bad"]
       /\ UNCHANGED <<avail, vpi, pgtbl, desc, mapped, newva, fault>>
    \/ ExecDesc(p, VR_CODE, "exec_code", "exec_code_page")

\* vregionaddmap's kalloc of the page (on failure -1, elf_failure), then
\* vrloaddata's readi, which may come up short (elf_failure).
ExecCodePage(p) ==
    LET d == newva[p].desc[VR_CODE] IN
    /\ state[p] = "RUNNABLE" /\ pc[p] = "exec_code_page" /\ Running
    /\ \/ /\ Kalloc = NULL
          /\ pc' = [pc EXCEPT ![p] = "exec_bad"]
          /\ UNCHANGED <<avail, vpi>>
       \/ /\ Kalloc # NULL
          /\ vpi' = [vpi EXCEPT ![d] = Kalloc]
          /\ avail' = [avail EXCEPT ![Kalloc] = FALSE]
          /\ \E readOk \in BOOLEAN :
                pc' = [pc EXCEPT ![p] = IF readOk THEN "exec_stack" ELSE "exec_bad"]
    /\ UNCHANGED <<pgtbl, desc, mapped, newva, fault>>

\* vspaceinitstack(&newva, SZ_2G): the stack region's descriptor.
ExecStack(p) == ExecDesc(p, VR_USTACK, "exec_stack", "exec_stack_page")

\* Mutant: vregionaddmap without its kalloc NULL check (vspace.c:81): the
\* stack entry is marked used with the NULL frame as its ppn, so exec's
\* vspacewritetova passes the assert and vspaceinvalidate maps a frame
\* that kalloc never handed out.
ExecStackPageNoAssert(p) ==
    LET d == newva[p].desc[VR_USTACK] IN
    /\ state[p] = "RUNNABLE" /\ pc[p] = "exec_stack_page" /\ Running
    /\ vpi' = [vpi EXCEPT ![d] = Kalloc]
    /\ avail' = IF Kalloc = NULL THEN avail ELSE [avail EXCEPT ![Kalloc] = FALSE]
    /\ newva' = [newva EXCEPT ![p].mapped =
                    {vpi'[newva[p].desc[r]] : r \in {s \in Regions : newva[p].desc[s] # NULL}}]
    /\ pc' = [pc EXCEPT ![p] = "exec_args"]
    /\ UNCHANGED <<pgtbl, desc, mapped, fault>>

\* vregionaddmap's kalloc of the stack page.  On failure vspaceinitstack
\* returns -1, which exec ignores, and vspacewritetova's assert(vpi->used)
\* fails on the first argument.  Otherwise vspaceinvalidate maps newva.
ExecStackPage(p) ==
    LET d == newva[p].desc[VR_USTACK] IN
    /\ state[p] = "RUNNABLE" /\ pc[p] = "exec_stack_page" /\ Running
    /\ \/ /\ Kalloc = NULL
          /\ fault' = "assert"
          /\ UNCHANGED <<avail, vpi, pc, newva>>
       \/ /\ Kalloc # NULL
          /\ vpi' = [vpi EXCEPT ![d] = Kalloc]
          /\ avail' = [avail EXCEPT ![Kalloc] = FALSE]
          /\ newva' = [newva EXCEPT ![p].mapped =
                          {vpi'[newva[p].desc[r]] : r \in {s \in Regions : newva[p].desc[s] # NULL}}]
          /\ pc' = [pc EXCEPT ![p] = "exec_args"]
          /\ UNCHANGED fault
    /\ UNCHANGED <<pgtbl, desc, mapped>>

\* The argument strings and ustack are written below SZ_2G; arguments that
\* leave the stack page make vspacewritetova return -1 (goto bad).
\* Otherwise exec commits to newva and vspacefree(&oldva).
ExecCommit(p) ==
    /\ state[p] = "RUNNABLE" /\ pc[p] = "exec_args" /\ Running
    /\ \/ /\ pc' = [pc EXCEPT ![p] = "exec_bad"]
          /\ UNCHANGED <<avail, vpi, pgtbl, desc, mapped, newva, fault>>
       \/ /\ Kfree(VspaceFrames(p))
          /\ pgtbl' = [pgtbl EXCEPT ![p] = newva[p].pgtbl]
          /\ desc' = [desc EXCEPT ![p] = newva[p].desc]
          /\ mapped' = [mapped EXCEPT ![p] = newva[p].mapped]
          /\ newva' = [newva EXCEPT ![p] = NoVspace]
          /\ pc' = [pc EXCEPT ![p] = "user"]
          /\ UNCHANGED fault

\* bad: vspacefree(&newva) and return -1.
ExecBad(p) ==
    /\ state[p] = "RUNNABLE" /\ pc[p] = "exec_bad" /\ Running
    /\ Kfree(NewVspaceFrames(p))
    /\ newva' = [newva EXCEPT ![p] = NoVspace]
    /\ pc' = [pc EXCEPT ![p] = "user"]
    /\ UNCHANGED <<pgtbl, desc, mapped, fault>>

-----------------------------------------------------------------------------
(* exit and wait (proc.c).                                                 *)

\* Mutant: exit leaves its children's parent pointing at the zombie.
ExitNoReparent(p) ==
    /\ UserStep(p) /\ p # initproc
    /\ FileClose(p)
    /\ state' = [state EXCEPT ![p] = "ZOMBIE"]
    /\ UNCHANGED <<avail, parent, kstack, pgtbl, desc, vpi, mapped, pc, child, cur, fault>>

\* Mutant: exit closes its files but leaves myproc()->ofile[fd] set.
ExitKeepOfile(p) ==
    /\ UserStep(p) /\ p # initproc
    /\ fref' = [f \in Files |-> fref[f] - Cardinality(Held(p, f))]
    /\ parent' = [q \in Procs |-> IF parent[q] = p THEN initproc ELSE parent[q]]
    /\ state' = [state EXCEPT ![p] = "ZOMBIE"]
    /\ UNCHANGED <<avail, kstack, pgtbl, desc, vpi, mapped, pc, child, cur, ofile, fault>>

\* exit: the open files are closed, children pass to init, and the process
\* becomes a ZOMBIE that keeps its memory.  initproc never exits (the
\* panic at line 214).
Exit(p) ==
    /\ UserStep(p) /\ p # initproc
    /\ FileClose(p)
    /\ parent' = [q \in Procs |-> IF parent[q] = p THEN initproc ELSE parent[q]]
    /\ state' = [state EXCEPT ![p] = "ZOMBIE"]
    /\ UNCHANGED <<avail, kstack, pgtbl, desc, vpi, mapped, pc, child, cur, fault>>

\* Mutant: wait frees the child's memory but leaves p->kstack set.
WaitKeepStack(p) ==
    /\ UserStep(p)
    /\ \E c \in Procs : parent[c] = p /\ state[c] = "ZOMBIE"
    /\ LET z == {c \in Procs : parent[c] = p /\ state[c] = "ZOMBIE"}
           c == CHOOSE c \in z : \A d \in z : c <= d
       IN
       /\ Kfree(VspaceFrames(c) \cup {kstack[c]})
       /\ state' = [state EXCEPT ![c] = "UNUSED"]
       /\ parent' = [parent EXCEPT ![c] = NULL]
       /\ desc' = [desc EXCEPT ![c] = [r \in Regions |-> NULL]]
       /\ mapped' = [mapped EXCEPT ![c] = {}]
    /\ UNCHANGED <<kstack, pgtbl, pc, child, cur, fault>>

\* Mutant: wait looks only at the first child in the table, and sleeps
\* unless that one is a zombie.
WaitFirstChildOnly(p) ==
    /\ UserStep(p)
    /\ \E c \in Procs : parent[c] = p
    /\ LET kids == {c \in Procs : parent[c] = p}
           c == CHOOSE c \in kids : \A d \in kids : c <= d
       IN
       /\ state[c] = "ZOMBIE"
       /\ Kfree(VspaceFrames(c) \cup {kstack[c]})
       /\ state' = [state EXCEPT ![c] = "UNUSED"]
       /\ parent' = [parent EXCEPT ![c] = NULL]
       /\ kstack' = [kstack EXCEPT ![c] = NULL]
       /\ desc' = [desc EXCEPT ![c] = [r \in Regions |-> NULL]]
       /\ mapped' = [mapped EXCEPT ![c] = {}]
    /\ UNCHANGED <<pgtbl, pc, child, cur, fault>>

\* wait: the first ZOMBIE child in the table is reaped: kfree(p->kstack),
\* vspacefree, p->parent = 0, UNUSED.  Without a zombie child the parent
\* sleeps or returns -1, which changes nothing here.
Wait(p) ==
    /\ UserStep(p)
    /\ \E c \in Procs : parent[c] = p /\ state[c] = "ZOMBIE"
    /\ LET z == {c \in Procs : parent[c] = p /\ state[c] = "ZOMBIE"}
           c == CHOOSE c \in z : \A d \in z : c <= d
       IN
       /\ Kfree(VspaceFrames(c) \cup {kstack[c]})
       /\ state' = [state EXCEPT ![c] = "UNUSED"]
       /\ parent' = [parent EXCEPT ![c] = NULL]
       /\ kstack' = [kstack EXCEPT ![c] = NULL]
       /\ desc' = [desc EXCEPT ![c] = [r \in Regions |-> NULL]]
       /\ mapped' = [mapped EXCEPT ![c] = {}]
    /\ UNCHANGED <<pgtbl, pc, child, cur, fault>>

-----------------------------------------------------------------------------
\* The steps that leave exec's newva alone.
ProcStep(p) ==
    /\ \/ /\ \/ ForkAlloc(p) \/ ForkInit(p) \/ ForkCopyDesc(p) \/ ForkCopyPage(p)
             \/ ForkFail(p) \/ Wait(p)
          /\ UNCHANGED <<ofile, fref>>
       \/ ForkDone(p) \/ Exit(p)
    /\ UNCHANGED <<execs, newva>>

\* exec's steps leave the process table alone; only ExecInit counts.
ExecStep(p) ==
    /\ \/ ExecInit(p)
       \/ /\ \/ ExecLoadCode(p) \/ ExecCodePage(p) \/ ExecStack(p)
             \/ ExecStackPage(p) \/ ExecCommit(p) \/ ExecBad(p)
          /\ UNCHANGED execs
    /\ UNCHANGED <<state, parent, kstack, child, cur, ofile, fref>>

Next == \E p \in Procs : ProcStep(p) \/ ExecStep(p)

Spec == Init /\ [][Next]_vars

\* init.c's parent loop calls wait() again after every return, so init
\* waits whenever it is back in user mode infinitely often (SF); the
\* kernel code of a fork or exec init has begun runs on (WF).
InitWaits == Wait(initproc) /\ UNCHANGED <<execs, newva, ofile, fref>>
InitInKernel ==
    /\ pc[initproc] # "user"
    /\ ProcStep(initproc) \/ ExecStep(initproc)

FairSpec == Spec /\ SF_vars(InitWaits) /\ WF_vars(InitInKernel)

-----------------------------------------------------------------------------
(* Properties.                                                             *)

Slot == {"UNUSED", "EMBRYO", "RUNNABLE", "ZOMBIE"}
Frame == Frames \cup {NULL}

TypeOK ==
    /\ avail \in [Frames -> BOOLEAN]
    /\ state \in [Procs -> Slot]
    /\ parent \in [Procs -> Procs \cup {NULL}]
    /\ kstack \in [Procs -> Frame]
    /\ pgtbl \in [Procs -> Frame]
    /\ desc \in [Procs -> [Regions -> Frame]]
    /\ vpi \in [Frames -> Frame \cup {JUNK}]
    /\ mapped \in [Procs -> SUBSET Frames]
    /\ child \in [Procs -> Procs \cup {NULL}]
    /\ execs \in 0 .. MaxExecs
    /\ newva \in [Procs -> [pgtbl : Frame, desc : [Regions -> Frame], mapped : SUBSET Frames]]
    /\ ofile \in [Procs -> [Fds -> Files \cup {NULL}]]
    /\ fref \in [Files -> Nat]

\* The processes fork has finished with (RUNNABLE or ZOMBIE, not EMBRYO).
Settled == {q \in Procs : state[q] \in {"RUNNABLE", "ZOMBIE"}}

\* Frame ownership across fork, exec, exit and wait: a frame a settled
\* process holds, in its address space or in the one exec is building, is
\* allocated and held by no other settled process nor twice by it, and each
\* address space has one frame per object: kalloc never hands out a frame
\* twice, vspacecopy gives the child its own descriptors and pages, and
\* exec frees the old space only after committing to the new one.
FramesExclusive ==
    \A q \in Settled :
        /\ \A f \in Owned(q) : ~avail[f]
        /\ \A o \in Settled \ {q} : Owned(q) \cap Owned(o) = {}
        /\ Holds(q) \cap NewHolds(q) = {}
        /\ Cardinality(Holds(q)) = 2 + 2 * Cardinality({r \in Regions : desc[q][r] # NULL})

\* ftable's ref counts against the ofile tables, across forks that fail or
\* succeed, exits and reaping: each entry's ref is the number of fds of all
\* slots that hold it, so fileclose frees an entry exactly when its last
\* holder closes it and filedup never meets a freed entry.
FileRefsMatch ==
    \A f \in Files : fref[f] = Cardinality({<<q, fd>> \in Procs \X Fds : ofile[q][fd] = f})

\* init starts a fork.
InitStartsFork == pc[initproc] = "user" /\ pc'[initproc] = "init"

\* init harvests every zombie handed to it once it stops forking: a zombie
\* whose parent is init is then eventually reaped (UNUSED), unless the
\* kernel faults first.  While init keeps forking, wait's scan from slot 0
\* can reap a newer child each time and pass an older zombie over for ever.
OrphansReaped ==
    <>[][~InitStartsFork]_vars =>
        \A c \in Procs :
            (state[c] = "ZOMBIE" /\ parent[c] = initproc) ~> (state[c] = "UNUSED" \/ fault # "none")

\* fork's failure path (proc.c:145, vspacefree of the half-copied child)
\* never kfree's, and junk-fills, a page that a live process other than
\* the child still holds.  Only ForkFail tests this; that wait and exec's
\* commit free only frames nobody else holds follows from FramesExclusive.
NoFreeOfLivePage == fault # "corrupt"


-----------------------------------------------------------------------------
(* Refinement: fork, exit and wait implement the slot life cycle of        *)
(* ProcLifecycle.  A slot holds kernel memory while it has a kernel stack. *)
(* exec and every faulting step are stutters of the life cycle.            *)

HoldsStack == [q \in Procs |-> kstack[q] # NULL]

Lifecycle == INSTANCE ProcLifecycle WITH slot <- state, par <- parent, mem <- HoldsStack

\* allocproc, fork's success and failure paths, exit and wait move slots
\* only along the life cycle of spec.md 4.3: only the parent's wait
\* harvests a zombie, exit hands its children to init, and the kernel
\* stack is held from allocproc until fork's teardown or the wait.
LifecycleSpec == Lifecycle!Spec

\* exit's reparenting to init and wait's choice of a zombie child keep every
\* zombie harvestable: its parent is a running process.
ZombiesReapable == Lifecycle!ZombiesReapable

=============================================================================
