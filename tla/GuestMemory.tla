----------------------------- MODULE GuestMemory -----------------------------
(***************************************************************************)
(* The guest's privileged memory calls of src/kernel/guest.c: gaddmap,     *)
(* gremovemap and gupdate_flags, over the guest's frame bitmap user_pages, *)
(* the kernel's copy of the app descriptors app_processes, the app's and   *)
(* the guest's page-table entries in the app range.  The stack and heap     *)
(* region sizes gaddmap grows are left out: no property reads them.  The   *)
(* apps' lifecycle events that change                                      *)
(* what findproc(pid) returns are actions too: grequest_proc, the teardown *)
(* of sys_gload_program / sys_gdeploy_program, and exit followed by the    *)
(* shell's wait.                                                           *)
(*                                                                         *)
(* The guest is a user process: the kernel validates what it passes, so    *)
(* each call is taken with any arguments from small sets.  Addresses are   *)
(* virtual page numbers; a page-table page covers TableSpan of them, and   *)
(* walkpml4(pgtbl, va, 0) is NULL until a walk with alloc = 1 made it.     *)
(***************************************************************************)
EXTENDS Integers, FiniteSets

CONSTANTS
    Pids,       \* pids grequest_proc can hand out
    Frames,     \* physical page numbers, 0 included
    GuestFrames,\* the frames fork_guest gave the guest (user_pages = 1)
    VAs,        \* virtual page numbers the guest passes
    Base, Midpoint, Bound, \* guest_init_app's SZ_2G, SZ_3G, SZ_4G in pages
    TableSpan   \* pages covered by one last-level page-table page

ASSUME GuestFrames \subseteq Frames \ {0} /\ Base < Midpoint /\ Midpoint < Bound

\* A zeroed page-table entry and the entry PTE(ppn << PT_SHIFT, perm).
NoPte == [ppn |-> 0, p |-> FALSE, w |-> FALSE]
Pte   == [ppn : Frames, p : BOOLEAN, w : BOOLEAN]
Tbl(va) == va \div TableSpan
Slots == {"none", "live", "torn", "reaped"}

VARIABLES
    userPages,  \* myproc()->user_pages of the guest: 0 unowned, 1 free, 2 in use
    owned,      \* pids with myproc()->app_processes[pid].owned = 1
    slot,       \* what findproc(pid) reaches: none yet, the live app, a slot
                \* torn down with its pid kept, or nothing after wait reaped it
    appPte,     \* the app's last-level entries in its own pgtbl
    appTbl,     \* page-table pages present in the app's pgtbl
    guestPte,   \* the guest's shadow entries (ppn only: always P|U|W)
    guestTbl,   \* page-table pages present in the guest's pgtbl
    fault       \* "none", "null_deref" or "use_after_free"

vars == <<userPages, owned, slot, appPte, appTbl, guestPte, guestTbl,
          fault>>

\* The guest's user pages of fork_guest, no apps yet.  The guest was exec'd
\* with its stack just below SZ_2G (exec.c), so no page-table page of its
\* own covers the app range.
Init ==
    /\ userPages = [f \in Frames |-> IF f \in GuestFrames THEN 1 ELSE 0]
    /\ owned = {}
    /\ slot = [pid \in Pids |-> "none"]
    /\ appPte = [pid \in Pids |-> [va \in VAs |-> NoPte]]
    /\ appTbl = [pid \in Pids |-> {}]
    /\ guestPte = [va \in VAs |-> 0]
    /\ guestTbl = {}
    /\ fault = "none"

Running == fault = "none"

\* The call fails validation and returns -1 with nothing changed.
Reject ==
    UNCHANGED <<userPages, owned, slot, appPte, appTbl, guestPte, guestTbl, fault>>

\* The call dereferences a bad pointer: the kernel is gone.
Crash(kind) ==
    /\ fault' = kind
    /\ UNCHANGED <<userPages, owned, slot, appPte, appTbl, guestPte, guestTbl>>

\* app_proc = findproc(pid) followed by a use of app_proc->vspace.pgtbl:
\* a torn-down slot keeps its pid and its kfree'd pgtbl; a reaped one has
\* pid 0, so findproc returns NULL.
AppFault(pid) == IF slot[pid] = "torn" THEN "use_after_free" ELSE "null_deref"

\* The check va < base || va > bound of all three calls.
OutOfBounds(va) == va < Base \/ va > Bound

-----------------------------------------------------------------------------
(* Lifecycle steps that change what findproc(pid) returns.                 *)

\* sys_grequest_proc's effect on the address spaces: a fresh pgtbl for the
\* app (vspaceinit) and the descriptor marked owned in the kernel's copy.
GrequestProc ==
    /\ Running
    /\ \E pid \in Pids :
         /\ slot[pid] = "none"
         /\ \A q \in Pids : q < pid => slot[q] # "none"
         /\ slot' = [slot EXCEPT ![pid] = "live"]
         /\ owned' = owned \cup {pid}
         /\ appPte' = [appPte EXCEPT ![pid] = [va \in VAs |-> NoPte]]
         /\ appTbl' = [appTbl EXCEPT ![pid] = {}]
    /\ UNCHANGED <<userPages, guestPte, guestTbl, fault>>

\* The bad: path of sys_gload_program or sys_gdeploy_program: kfree of the
\* kstack and the pgtbl, state = UNUSED; the pid and app_processes[pid]
\* are left as they were.
AppTeardown ==
    /\ Running
    /\ \E pid \in Pids :
         /\ slot[pid] = "live"
         /\ slot' = [slot EXCEPT ![pid] = "torn"]
    /\ UNCHANGED <<userPages, owned, appPte, appTbl, guestPte, guestTbl,
                   fault>>

\* exit() of the app and wait() of the shell, its parent: vspacefree and
\* p->pid = 0.  Nothing tells the guest.
AppReaped ==
    /\ Running
    /\ \E pid \in Pids :
         /\ slot[pid] = "live"
         /\ slot' = [slot EXCEPT ![pid] = "reaped"]
    /\ UNCHANGED <<userPages, owned, appPte, appTbl, guestPte, guestTbl,
                   fault>>

-----------------------------------------------------------------------------
(* The privileged calls.                                                   *)

PGSIZE == 4096

\* argint(1, &x) reads argument 1, which for gupdate_flags is the va: the
\* int stored is the low 32 bits of the byte address (2^20 pages of PGSIZE
\* bytes make 2^32).
ArgintVa(va) == (va % 1048576) * PGSIZE

\* Mutant: the entry written with the frame shifted twice, PTE(ppn << 2*PT_SHIFT).
GaddmapShifted(pid, f, va, p, w) ==
    /\ Running
    /\ pid \in owned /\ userPages[f] # 0 /\ ~OutOfBounds(va) /\ slot[pid] = "live"
    /\ appPte' = [appPte EXCEPT ![pid][va] = [ppn |-> f * PGSIZE, p |-> p, w |-> w]]
    /\ appTbl' = [appTbl EXCEPT ![pid] = @ \cup {Tbl(va)}]
    /\ guestPte' = [guestPte EXCEPT ![va] = f]
    /\ guestTbl' = guestTbl \cup {Tbl(va)}
    /\ userPages' = [userPages EXCEPT ![f] = 2]
    /\ UNCHANGED <<owned, slot, fault>>

\* Mutant: gaddmap without the check that the guest owns the frame.
GaddmapAnyFrame(pid, f, va, p, w) ==
    /\ Running
    /\ \/ pid \notin owned /\ Reject
       \/ /\ pid \in owned /\ OutOfBounds(va) /\ Reject
       \/ /\ pid \in owned /\ ~OutOfBounds(va)
          /\ slot[pid] = "live"
          /\ appPte' = [appPte EXCEPT ![pid][va] = [ppn |-> f, p |-> p, w |-> w]]
          /\ appTbl' = [appTbl EXCEPT ![pid] = @ \cup {Tbl(va)}]
          /\ guestPte' = [guestPte EXCEPT ![va] = f]
          /\ guestTbl' = guestTbl \cup {Tbl(va)}
          /\ userPages' = [userPages EXCEPT ![f] = 2]
          /\ UNCHANGED <<owned, slot, fault>>

\* sys_gaddmap(pid, ppn, va, app_present, app_writeable): after the owner,
\* frame and bounds checks, walkpml4(..., 1) in both page tables and the
\* two entries written, the app's with the requested flags and the guest's
\* P|U|W; the frame becomes in use.  The frame's current state is not checked
\* beyond "owned".
Gaddmap(pid, f, va, p, w) ==
    /\ Running
    /\ \/ pid \notin owned /\ Reject
       \/ pid \in owned /\ userPages[f] = 0 /\ Reject
       \/ /\ pid \in owned /\ userPages[f] # 0 /\ OutOfBounds(va) /\ Reject
       \/ /\ pid \in owned /\ userPages[f] # 0 /\ ~OutOfBounds(va)
          /\ slot[pid] # "live"
          /\ Crash(AppFault(pid))
       \/ /\ pid \in owned /\ userPages[f] # 0 /\ ~OutOfBounds(va)
          /\ slot[pid] = "live"
          /\ appPte' = [appPte EXCEPT ![pid][va] = [ppn |-> f, p |-> p, w |-> w]]
          /\ appTbl' = [appTbl EXCEPT ![pid] = @ \cup {Tbl(va)}]
          /\ guestPte' = [guestPte EXCEPT ![va] = f]
          /\ guestTbl' = guestTbl \cup {Tbl(va)}
          /\ userPages' = [userPages EXCEPT ![f] = 2]
          /\ UNCHANGED <<owned, slot, fault>>

\* sys_gremovemap(pid, va): owner and bounds checks; ppn is read through
\* the guest's walkpml4(..., 0) before that pointer is tested, then the
\* frame must be owned; the app's entry is read the same way and must hold
\* the same frame; both entries are zeroed and the frame is free again.
Gremovemap(pid, va) ==
    LET ppn  == guestPte[va]
        Checked == pid \in owned /\ ~OutOfBounds(va)
    IN
    /\ Running
    /\ \/ pid \notin owned /\ Reject
       \/ pid \in owned /\ OutOfBounds(va) /\ Reject
       \/ Checked /\ Tbl(va) \notin guestTbl /\ Crash("null_deref")
       \/ Checked /\ Tbl(va) \in guestTbl /\ userPages[ppn] = 0 /\ Reject
       \/ /\ Checked /\ Tbl(va) \in guestTbl /\ userPages[ppn] # 0
          /\ slot[pid] # "live"
          /\ Crash(AppFault(pid))
       \/ /\ Checked /\ Tbl(va) \in guestTbl /\ userPages[ppn] # 0
          /\ slot[pid] = "live"
          /\ \/ Tbl(va) \notin appTbl[pid] /\ Crash("null_deref")
             \/ /\ Tbl(va) \in appTbl[pid] /\ appPte[pid][va].ppn # ppn
                /\ Reject
             \/ /\ Tbl(va) \in appTbl[pid] /\ appPte[pid][va].ppn = ppn
                /\ guestPte' = [guestPte EXCEPT ![va] = 0]
                /\ appPte' = [appPte EXCEPT ![pid][va] = NoPte]
                /\ userPages' = [userPages EXCEPT ![ppn] = 1]
                /\ UNCHANGED <<owned, slot, appTbl, guestTbl, fault>>

\* sys_gupdate_flags(app_pid, va, present, writeable): owner and bounds
\* checks; present and writeable are both read with argint(1, ...), the
\* slot holding the va; both entries are looked up (the app's through
\* findproc(app_pid)->vspace) and must exist and agree on the frame; then
\* PTE_P is set iff present == 1 and PTE_W iff writeable == 1.
GupdateFlags(pid, va, p, w) ==
    LET present   == ArgintVa(va)
        writeable == ArgintVa(va)
        Checked   == pid \in owned /\ ~OutOfBounds(va)
    IN
    /\ Running
    /\ \/ pid \notin owned /\ Reject
       \/ pid \in owned /\ OutOfBounds(va) /\ Reject
       \/ Checked /\ slot[pid] # "live" /\ Crash(AppFault(pid))
       \/ /\ Checked /\ slot[pid] = "live"
          /\ \/ Tbl(va) \notin guestTbl \/ Tbl(va) \notin appTbl[pid]
             \/ guestPte[va] # appPte[pid][va].ppn
          /\ Reject
       \/ /\ Checked /\ slot[pid] = "live"
          /\ Tbl(va) \in guestTbl /\ Tbl(va) \in appTbl[pid]
          /\ guestPte[va] = appPte[pid][va].ppn
          /\ appPte' = [appPte EXCEPT ![pid][va].p = (present = 1),
                                      ![pid][va].w = (writeable = 1)]
          /\ UNCHANGED <<userPages, owned, slot, appTbl, guestPte, guestTbl, fault>>

-----------------------------------------------------------------------------
GuestCall ==
    \E pid \in Pids, va \in VAs :
        \/ Gremovemap(pid, va)
        \/ \E p, w \in BOOLEAN :
              \/ GupdateFlags(pid, va, p, w)
              \/ \E f \in Frames : Gaddmap(pid, f, va, p, w)

Next == GuestCall \/ GrequestProc \/ AppTeardown \/ AppReaped

Spec == Init /\ [][Next]_vars

-----------------------------------------------------------------------------
(* Properties.                                                             *)

TypeOK ==
    /\ userPages \in [Frames -> {0, 1, 2}]
    /\ owned \subseteq Pids
    /\ slot \in [Pids -> Slots]
    /\ appPte \in [Pids -> [VAs -> Pte]]
    /\ guestPte \in [VAs -> Frames]

\* Isolation: whatever the guest passes, gaddmap's ownership check keeps
\* every app mapping on a frame fork_guest granted to the guest.
AppsMapOnlyGuestFrames ==
    \A pid \in Pids, va \in VAs : appPte[pid][va].ppn \in GuestFrames \cup {0}

\* Every page gaddmap maps for an app lies in the app's range [base, bound).
MapsWithinBounds ==
    \A pid \in Pids, va \in VAs : appPte[pid][va].ppn # 0 => Base <= va /\ va < Bound

\* No privileged call dereferences a NULL pointer.
NoNullDeref == fault # "null_deref"

\* No privileged call walks a page table that has been kfree'd.
NoUseAfterFree == fault # "use_after_free"

=============================================================================
