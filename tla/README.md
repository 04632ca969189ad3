# TLA+ models of the xk guest-virtualization core

This directory holds TLA+ models of the kernel in `src/`. In that kernel, a
privileged user process (the *guest OS*, pid 2) hosts *app* processes. The
kernel forwards each app system call to the guest as a message. The guest
decides how to serve it, maps memory into the app through privileged calls,
and resumes the app. Each module is translated from the C source. PROJECT.json
maps every definition that models code to the lines it stands for.

## 1. The system

| part | source | state | operations |
|---|---|---|---|
| Forwarding protocol | `kernel/guest.c` 24-135 | the guest's intrusive list `syscall_buffer` of `struct syscall_message` | `sys_app_syscall`, `insert_syscall`, `sys_gnext_syscall`, `sys_gresume` |
| Guest OS loop | `user/guest_os.c` | `new_app_pid`, the guest's copies `proc_map` and `page_map` | `gnext_syscall` → `guest_syscall` (`guest_write`, `guest_init_app`) → `gresume(new_app_pid)` |
| Process table | `kernel/proc.c` | `ptable.proc[]`: state, pid, parent, chan, kstack, vspace; `nextpid` | `allocproc`, `fork`, `fork_guest`, `exit`, `wait`, `kill`, `sleep`, `sleep_process`, `sleep_process2`, `wakeup1`, `scheduler`, `yield`, `findproc` |
| App spawn | `kernel/guest.c` 157-302 | the guest's `app_processes[pid]` (owned, base, midpoint, bound) | `sys_grequest_proc`, `sys_gload_program`, `sys_gdeploy_program` |
| Guest memory calls | `kernel/guest.c` 305-434 | the guest's `user_pages[]` (0 unowned, 1 owned-free, 2 in use), the app's and the guest's page-table entries, region sizes | `sys_gaddmap`, `sys_gremovemap`, `sys_gupdate_flags` |
| Address spaces | `kernel/vspace.c` | regions (dir, base, size) and their `vpage_info` lists | `vregionaddmap`, `vregiondelmap`, `vspaceloadcode`, `vspaceinvalidate`, `vspacecopy`, `cow_vspacecopy`, `vregioncontains`, `va2vregion` |
| Frame allocator | `kernel/kalloc.c` | `core_map[]` (available, ref), `pages_in_use`, `free_pages` | `kalloc`, `kfree`, `kincref` |
| Files, fs, exec | `kernel/fs.c`, `file.c`, `exec.c` | inodes, buffers, file table; exec's new address space | ftable refs and `ofile` (filedup, fileclose) and exec's allocations are part of ProcMemory; fs.c is not modelled (§6) |

How the parts interact:

1. An app traps into `sys_app_syscall`. It `kalloc`s a message, fills it, and
   walks the guest's list to link the message at the tail. Both the walk and
   the link happen **without** `ptable.lock`.
2. The app then takes `ptable.lock`, wakes the guest, and sleeps on itself,
   all in one hold of the lock.
3. The guest loops in `gnext_syscall`. It pops the head and `kfree`s it, then
   dispatches on the message type:
   - `MESSAGE_WRITE` writes to the console.
   - `MESSAGE_INIT_APP`, which the shell sends, runs `grequest_proc`, then
     `gload_program`, then `gaddmap` ×10, then `gdeploy_program`. It sets
     `new_app_pid`, and on a failure sets it to `SHELL_PID`.
4. The guest then calls `gresume(new_app_pid)`. This makes that process
   RUNNABLE, and the guest sleeps on itself.
5. An app's `exit()` wakes its parent, the shell, which sleeps on its own
   channel inside `app_syscall`.

## 2. Modules

### Forwarding.tla (+ MC_Forwarding.tla)

This module models the protocol above over the process state machine of
`proc.c`, with the guest's main loop.

- **State.** It has `state`, `chan`, `parent` and `pid` per process, and
  `nextpid`. The linked list is `head` plus a `next` function over the
  messages. `freed` holds the nodes the guest has `kfree`d. `gcur` is the
  guest's `curr_s`, and `newAppPid` is `new_app_pid`. `pc` says where each
  process is in its code. `onCpu` records which processes execute on a CPU.
  It is kept apart from `state` because `gresume` can set a running process
  RUNNABLE.
- **History variables.** `linked` and `delivered` record the order in which
  messages were linked and copied out. `fault` records kernel faults: a NULL
  dereference, a use after free, one process on two CPUs, or a switch to a
  dead slot.
- **Messages.** A message is named `<<sender pid, rank>>`. Its arguments are
  abstracted away. The shell sends INIT and every other caller sends WRITE.
- **Granularity.** Each unlocked access to the list is a step of its own:
  `SysAppSyscall` (reads the head), `InsertSyscallHead`, `InsertSyscallWalk`
  (one pointer per step), `InsertSyscallLink`, `GnextRead`, `GnextCheck`,
  `GnextCopy`, `GnextAdvance` and `GnextFree`. Each critical section under
  `ptable.lock` is one atomic step: `SysAppSyscallSleep`, `GnextSleep`,
  `Gresume`, `Exit`, `GrequestProc`, `GloadProgram`, `Scheduler` and `Yield`.
- **Scheduling.** `Scheduler(p)` models one iteration of the scan in
  `scheduler()`. `Yield(p)` is the timer interrupt (constant `Preempt`).
  `NCPU` CPUs exist.
- **Kill.** `killed` is the set of processes with `p->killed` set.
  `GuestSyscall` runs `GuestWrite` for a WRITE. When the constant
  `WriteFails` allows it, the console `write()` may fail, and then `Kill`
  (`kill(syscall.pid)`) marks the sender and makes it RUNNABLE if it sleeps.
  trap.c is not in the tree. So, from spec.md §5, a killed caller makes no
  further `app_syscall` and takes `Exit` at its next return to user mode.
  `fwd_coop` has `WriteFails = TRUE`; the other runs keep writes
  succeeding, to bound their state spaces.
- **Callers.** The callers are the shell, the apps (slots that start UNUSED
  and are allocated by `GrequestProc`), and `Direct`: processes the shell
  forked before any app existed, which call `app_syscall` too.

Properties:

- `TypeOK`.
- `NoKernelFault`: no NULL dereference, use after free, double run or switch
  to a dead slot.
- `DeliveredInOrder`: FIFO. Each message is copied out once, in link order.
- `NoLostMessage`: every linked message is delivered or still reachable from
  the head.
- `NoOrphanedSleeper`: a caller asleep in `app_syscall` has something that
  will wake it.
- `ReturnedOnlyWhenServed`: `app_syscall` returns only after the guest took
  the caller's message.
- `SyscallReturns` (liveness): every call returns.
- No property is about the kill itself. `Kill` models `kill()` and
  `guest_write`'s call of it. The exit at the next return to user mode
  comes from spec.md §5, because trap.c is not in the tree. Every caller
  makes a bounded number of calls and then exits, so "a killed caller ends
  as a ZOMBIE" would hold whatever the kill path did. Kills take part in
  the other properties instead: `NoKernelFault` covers the kill-then-`gresume`
  order of `guest_write`.
- `MailboxSpec` (refinement): the forwarding list implements the abstract
  mailbox of `MessageQueue.tla`.

### MessageQueue.tla (abstract mailbox)

This module states what forwarding promises its callers. A caller enqueues
a message once (`Send`). The guest takes the oldest waiting message
(`Take`), and it takes each message exactly once. Under `WF(Take)`, a waiting
message is eventually taken. `Forwarding` instantiates it as
`Mailbox == INSTANCE MessageQueue WITH Msgs <- Msg, queue <- Pending, taken <- delivered`.

- `Pending` is the chain from `syscall_buffer`. It leaves out the head while
  the guest is between `GnextCopy` and `GnextAdvance`, because that message
  has already been copied out.
- `InsertSyscallHead` and `InsertSyscallLink` are `Send`.
- `GnextCopy` is `Take`.
- Every other step is a stutter of the mailbox.

The check fails if the guest serves a message twice, or if a message is
never served. Mutants show both: leaving the served message at the head
(`GnextAdvanceStale`), and a caller that never wakes the guest.

In `fwd_coop`, callers are serialised by the protocol itself. Each caller
sleeps until it is resumed, and only one non-guest process is runnable at a
time, so the list never holds more than one message. In that run the
refinement shows exactly-once delivery and eventual delivery, but not
ordering. Ordering among several queued messages is `DeliveredInOrder` in
`fwd_smp_order`. That run cannot check `MailboxSpec`, because concurrent
inserts lose messages there (`fwd_lost_message`).

`kill` races the guest's own `gresume`. `guest_write` kills the sender,
which is then RUNNABLE, before the loop's `gresume(new_app_pid)`. In
`fwd_coop` nothing runs between the two, because the guest is not
preempted. With a timer (the constants of `fwd_gnext_null`, plus
`WriteFails = TRUE`), TLC finds this sequence: the guest is preempted after
the kill, the killed app exits, and `gresume` switches into the ZOMBIE
(`fault = "resume_dead"`). This is a listed hazard (guest_os.c:74). It has
no run of its own, because all run slots are in use.

### ProcLifecycle.tla (abstract process table)

This module is the slot state machine of spec.md §4.3, with no frames:

- `Allocate`: UNUSED → EMBRYO;
- `Adopt`: EMBRYO → RUNNABLE, with the forking process as parent;
- `TearDown`: EMBRYO → UNUSED;
- `Exit`: RUNNABLE → ZOMBIE, with the children passed to init;
- `Wait`: the parent harvests a ZOMBIE child, which becomes UNUSED.

The spec's RUNNING and SLEEPING states are RUNNABLE here, as in
`ProcMemory`. `mem` says whether a slot holds kernel memory. `ProcMemory`
refines the module with this mapping:

`Lifecycle == INSTANCE ProcLifecycle WITH slot <- state, par <- parent, mem <- HoldsStack`

`HoldsStack` is "has a kernel stack". `ForkAlloc`, `ForkDone`, `ForkFail`,
`Exit` and `Wait` are the abstract steps. `exec`, the copy steps and the
faulting steps are stutters. The refinement fails if:

- a slot changes state along an edge the life cycle does not have;
- `exit` does not hand its children to init;
- a harvested zombie has no running parent;
- `wait` or fork's teardown leaves the kernel stack allocated
  (mutant `WaitKeepStack`).

The abstract steps do not say which process acts, so the refinement does not
check that the harvesting process is the parent. The action guards of `Wait`
check that.

### GuestMemory.tla (+ MC_GuestMemory.tla)

This module models the guest's three memory calls and the app lifecycle
events that change what `findproc(pid)` returns.

- **State.**
  - `userPages` is the guest's `user_pages[]` bitmap.
  - `owned` is the set of pids with `app_processes[pid].owned = 1`.
  - `appPte` and `guestPte` are the last-level entries in the app range.
    An app entry is a record of frame, P and W. A guest entry is a frame
    only, because it is always P|U|W.
  - `appTbl` and `guestTbl` are the page-table pages present. `walkpml4(...,
    0)` returns NULL for a va whose page `Tbl(va)` is absent.
  - `slot` says what `findproc(pid)` reaches: `none` (not allocated yet),
    `live`, `torn` (the `bad:` path of `gload_program`/`gdeploy_program`
    kfree'd the pgtbl and kept the pid) or `reaped` (`wait` set the pid to 0,
    so `findproc` returns NULL).
- **History variable.** `fault` records a NULL dereference or a use after
  free.
- **Addresses.** Addresses are page numbers. The range 2G..4G of
  `guest_init_app` is scaled to 8..16, with the midpoint at 12 and one
  page-table page per 4 pages. `argint(1)` in `gupdate_flags` reads the va,
  and the model computes the int it stores (`ArgintVa`).
- **Actions.** `Gaddmap`, `Gremovemap` and `GupdateFlags` take any arguments
  from small sets, because the guest is an untrusted user process. Each call
  is one action, with one disjunct per early return or crash, in code order.
  The other actions are `GrequestProc`, `AppTeardown` and `AppReaped`.
- **Left out.** The stack and heap sizes that `gaddmap` grows are left out:
  no property reads them (see hazards).

Properties:

- `AppsMapOnlyGuestFrames`: an app maps only frames granted to the guest.
- `MapsWithinBounds`: app pages lie in [base, bound).
- `NoNullDeref` and `NoUseAfterFree`.

Three more discrepancies came up while modelling. They are hazards in
PROJECT.json, but no run checks them:

- two apps with the same range share one shadow entry per page;
- after a double map and one remove, a frame is marked free while still
  mapped;
- `gupdate_flags` reads both flags from the va.

### ProcMemory.tla (+ MC_ProcMemory.tla)

Models the physical frames of `kalloc.c` under the process lifecycle of
`proc.c` and the address-space copy of `vspace.c`.

- State:
  - `avail[f]` is `core_map[f].available`;
  - `state`, `parent`, `kstack` and `pgtbl` are the fields of a process slot;
  - `desc[p][r]` is `regions[r].pages`, a frame holding a page-descriptor page;
  - `vpi[d]` is the ppn that descriptor page `d` names;
  - `mapped[p]` is the data frames `vspaceinvalidate` put in p's page table;
  - `ofile[p][fd]` is `p->ofile[fd]`, and `fref[f]` is `ftable.file[f].ref`.
    init starts with the console open on every fd (`init.c` opens it and
    dups it twice).
- Descriptors are indexed by the frame that holds them, not by the process,
  so the pointer aliasing that `vspacecopy`'s `memmove` creates is explicit.
  `kfree` writes junk into the frame (`JUNK`), as the code's `memset(v, 2, ...)`
  does.
- Regions: code, heap and user stack. `userinit` gives code and stack one
  descriptor page and one data page each. Nothing under `src/` grows the heap,
  and the guest-only regions are empty in an ordinary process.
- Actions:
  - `ForkAlloc` is `allocproc`, including the path where it finds no free slot
    or no frame for the kernel stack;
  - `ForkInit` is `vspaceinit` (whose result `fork` ignores) followed by the
    `memmove` of the parent's regions;
  - `ForkCopyDesc` and `ForkCopyPage` are the two allocations of
    `copy_vpi_page` for one region;
  - `ForkDone` is `vspaceinvalidate`, then fork's `filedup` loop
    (`FileDup`), then making the child RUNNABLE;
  - `ForkFail` is `fork`'s failure path: `vspacefree`, `kfree(kstack)`,
    UNUSED;
  - `Exit` is `exit`, with its `fileclose` loop (`FileClose`). `Wait` is
    `wait`;
  - the `filedup` and `fileclose` loops are each one step. Each ref update
    is atomic under `ftable.lock` and commutes with the others, and each loop
    writes only its own process's table;
  - the `Exec*` actions are `exec` (`exec.c`), one step per allocation:
    - `ExecInit` is `vspaceinit(&newva)`, with `badnofree` on failure;
    - `ExecLoadCode` and `ExecCodePage` are `vspaceloadcode` for a program
      with one segment of one page. The file system's answers, from `namei`
      to the last `readi`, are a choice of success or `elf_failure`;
    - `ExecStack` and `ExecStackPage` are `vspaceinitstack`, whose result
      `exec` ignores, followed by `vspaceinvalidate`;
    - `ExecCommit` is the argument writes followed by the commit to `newva`
      and `vspacefree(&oldva)`;
    - `ExecBad` is `bad:`, which runs `vspacefree(&newva)`.
  - `newva` holds the address space under construction. `va2vpage_info`'s
    unchecked `kalloc` of a descriptor page sets `fault` to `null_deref`.
    The failed `assert(vpi->used)` after an ignored `vspaceinitstack`
    failure sets it to `assert`.
- `MaxExecs` bounds the number of `exec` calls in a behaviour.
- Each `kalloc` and `kfree` is atomic under `kmem.lock`, and `fork` runs
  without `ptable.lock` between them. So `fork` is split at its allocations,
  and the forks of several processes interleave.
- A step that reads a NULL page table or memsets a NULL page sets `fault`
  to `null_deref`. A `kfree`
  of a frame another live process holds sets it to `corrupt`. Faulting states
  are terminal.
- Properties:
  - `FramesExclusive`: every frame a settled process holds is allocated, in
    its address space or in the one `exec` is building. No frame is held by
    two processes, or by both of one process's address spaces. Each process
    holds exactly its kernel stack, its page table, and one descriptor page
    and one data page per region with pages;
  - `NoFreeOfLivePage`: `kfree` never junk-fills a page that another live
    process holds;
  - `FileRefsMatch`: each ftable entry's ref is the number of fds, over all
    slots, that hold it. So `fileclose` frees an entry exactly when its last
    holder closes it, and `filedup` never meets a freed entry;
  - `OrphansReaped` (liveness): once init stops starting forks, every zombie
    whose parent is init is eventually reaped, unless the kernel faults;
  - `ZombiesReapable`: every ZOMBIE's parent is RUNNABLE, so some `wait`
    can still harvest it. It depends on `exit` handing its children to init,
    including children that are already zombies;
  - `LifecycleSpec` (refinement): fork, exit and wait implement
    `ProcLifecycle`.
- Fairness, in `FairSpec`:
  - `SF` on init's `wait`, because `init.c`'s parent loop calls `wait()`
    again after every return;
  - `WF` on the kernel steps of a fork or exec that init has begun.
  - No other process is assumed to make progress.
- The premise of `OrphansReaped` is needed. `wait` reaps the first zombie
  in table order. Without the premise, TLC finds this cycle: init forks into
  slot 2, that child exits, and init reaps it. An older zombie in slot 3 is
  passed over on every round. `init.c` is not exposed, because it waits
  until its shell exits. It is listed as a hazard.
- `MC_ProcMemory.MCView` is the run's VIEW. It leaves out two things no step
  reads before writing them:
  - `vpi` of frames that are nobody's descriptor page;
  - fork's region cursor outside `vspacecopy`.
  States that differ only in these behave alike.

### VRegion.tla (pure operators, checked through MC_Forwarding)

`VRegion` holds the address arithmetic of `vspace.c` as operators. It has
no state. Its checks are constant formulas over bounded inputs.

- Width: addresses are `WIDTH`-bit unsigned integers, `U(x) == x % 2^WIDTH`,
  with pages of `2^PAGE_SHIFT` bytes. The cfgs use `WIDTH = 4`,
  `PAGE_SHIFT = 1` and `KERNBASE = 12`. This keeps the kernel's layout in
  proportion: user regions lie below `KERNBASE`, with at least two pages
  above it before the word wraps. The `ASSUME` requires this.
- Operators and the code they translate:
  - `VRTOP`/`VRBOT` (vspace.h). An UP region is `[base, base+size)` and a
    DOWN region is `[base-size, base)`;
  - `va2vpi_idx`: a DOWN region counts from `base - 1`;
  - `va2vregion` (the first matching region) and `vregioncontains`, which
    tests `va + size < VRTOP`. `vspacecontains` combines the two;
  - `AddmapRet`/`AddmapPages`: `vregionaddmap`'s return value and the pages
    its loop fills;
  - `Rebuild`: `vspaceinvalidate`'s per-region loop, with its alignment
    assert as `panic`;
  - `LoadStep`/`LoadLoop`/`LoadCode`: `vspaceloadcode`'s segment loop, with
    every `goto elf_failure`, `va += sz`, and the final `PGROUNDUP(sz)`.
    `LoadPages` is the set of pages `vrloaddata` asserts are allocated.
- Inputs:
  - `AnyRegion`: every region below `KERNBASE`, aligned or not;
  - `CreatedRegion`: the aligned regions that `vspaceinit` and `exec`
    create;
  - `Program`: every list of up to two headers, built from LOAD headers with
    aligned and unaligned `vaddr` and `memsz`/`filesz` in `0..2*PGSIZE`, and
    one non-LOAD header.
- Properties:
  - `VspaceContainsSound`: every byte of a range that `vspacecontains`
    admits lies in the region `va2vregion` found, even when a DOWN region's bottom
    wraps;
  - `RebuildIndexBijective`: for a created region, `vspaceinvalidate` maps
    exactly its aligned pages without hitting the assert, and `va2vpi_idx`
    numbers them `0..size/PGSIZE-1` one-to-one. Every page `vregionaddmap`
    fills inside the region is one of them;
  - `LoadedPagesMapped`: no header list reaches `vrloaddata`'s
    "page must be allocated" assertion.
- These formulas are constant. `MC_Forwarding` extends `VRegion` and states
  each one as an action property, `VspaceContainsSoundStep ==
  [][VspaceContainsSound]_vars` and likewise for the other two. They are
  `PROPERTY` lines of `fwd_coop`, the smallest passing run (291 states).
  A false formula fails on the run's first step.
- What the operators show but no property states:
  - `va += sz` adds vregionaddmap's return value, which is the absolute end
    `vaddr + memsz`. After two LOAD segments the code region's size,
    `PGROUNDUP(sz)` of the last segment only, need not cover the pages
    loaded. `vspaceinvalidate` then never maps them;
  - `sz` is never assigned without a LOAD header (`szSet = FALSE`);
  - spec.md §8 describes a DOWN region as `(base-size, base]`. The code
    uses `[base-size, base)`, consistently in `va2vregion`, `va2vpi_idx`
    and the initial `rsp = VRTOP` (proc.c:114);
  - `vregioncontains`' strict `<` rejects a range ending exactly at the
    top. This is conservative; `VspaceContainsSound` checks soundness only.

## 3. Runs

| run | configuration | result | what it shows |
|---|---|---|---|
| fwd_coop | 1 CPU, no preemption, shell + 2 app slots, 2 INITs, 2 writes each, writes may fail | pass (291 states) | With every unlocked section running to its sleep, the protocol is correct: no fault, no stranded sleeper, no early return, and every call returns. The list refines the FIFO mailbox `MessageQueue`. A caller killed after a failed write is torn down. Alongside, as action properties of constant formulas over bounded inputs at `WIDTH = 4` (`VRegion`): `vspacecontains` is sound, `vspaceinvalidate` maps a created region's pages one-to-one with their descriptor indices, and no ELF header list reaches `vrloaddata`'s assertion. |
| fwd_smp_order | 2 CPUs, preemption, shell + 1 app + 2 direct callers | pass (1.59M states) | Whatever the guest copies out, it copies once and in link order, under every interleaving. Faulting states are terminal and are judged by the other runs. |
| fwd_lost_resume | 1 CPU, preemption | violation of NoOrphanedSleeper | A timer interrupt between `insert_syscall` and `lock_ptable` (guest.c:54-59) loses the resume for good. |
| fwd_gnext_null | 1 CPU, preemption | violation of NoKernelFault | `gnext_syscall` copies through a NULL `curr_s` (guest.c:108-114). |
| fwd_lost_message | 2 CPUs, 2 direct callers | violation of NoLostMessage | Two concurrent unlocked inserts both install their message as the head (guest.c:74-77). |
| fwd_early_return | 1 CPU, preemption, 1 direct caller | violation of ReturnedOnlyWhenServed | `gresume(new_app_pid)` wakes the newest app when a different sender was served (guest_os.c:61). |

| gm_apps | 2 apps, 1 guest frame, 1 foreign frame, pages 7, 8, 17 | pass (889 states) | Whatever the guest passes, through every reject, NULL-walk and mismatch path, apps map only guest frames. |
| gm_bound | 1 app, pages 8 and 16 | violation of MapsWithinBounds | `va == bound` is accepted (guest.c:323). |
| gm_remove_null | 1 app, page 8 | violation of NoNullDeref | `*pte_guest` is read before the NULL test (guest.c:375). |
| gm_stale_owner | 1 app, page 8 | violation of NoUseAfterFree | A torn-down app stays owned and its freed pgtbl is walked (guest.c:199). |
| pm_fork_wait | 3 slots, 18 frames, 12 free at boot, 1 exec | pass (40,215 states) | Interleaved forks and an exec can each run out of memory at any allocation, alongside exits and waits. No frame is handed to two processes, held frames stay allocated, and exec's two address spaces never share a frame. The slots follow the life cycle of `ProcLifecycle`, and every zombie has a running parent. File ref counts match the ofile tables. Once init stops forking, the zombies handed to it are reaped.  |
| pm_fork_alias | 2 slots, 12 frames, 3 free frames at boot | violation of NoFreeOfLivePage | A fork that runs out of memory on the code page frees the parent's stack descriptor page, which is still aliased by the child (vspace.c:426-430, proc.c:145). |

### Bounds

- `NInit` bounds the shell's INIT requests and `NWrites` bounds each other
  caller's writes.
- The app slots (`Apps`) are as many as the INITs, so the table is never full
  unless a run says so.
- With 2 INITs and 2 app slots, a slot is torn down and reused, and the shell
  runs twice.
- One write per caller with three callers on two CPUs covers concurrent
  inserts, walks over a node being freed, and an insert racing a pop.
- GuestMemory's passing run has a page below the range, the base and a page
  above the bound, so every bounds branch is reached.
- It has two apps. The second app is what makes the guest's page-table page
  present while an app's own is absent, or holds a different frame: these
  are the NULL and mismatch paths of `gremovemap`.
- One guest frame and one frame the guest does not own are enough to break
  the ownership check.
- GuestMemory has no fairness and states only invariants.
- ProcMemory's passing run starts with 12 free frames. That is enough for
  two children, or for a child that execs while init forks a third.
  - The frames in use and the pages exec leaks make every smaller count
    reachable.
  - Memory therefore runs out at every allocation: fork's kernel stack, page
    table, descriptor pages and data pages, and each of exec's.
  - One path TLC reaches: init forks while its first child is in exec.
    The fork's `vspaceinit` finds no frame. The exec then commits and frees
    the old address space, which lets the copy succeed, and
    `vspaceinvalidate` runs on a NULL page table.
  - Three slots let a child be reparented to init, and let init reap it.
- One exec keeps the run under a minute. With two execs the run takes 3M
  states and 7 minutes.
- The alias run needs only enough memory for the first region's copy, and
  runs with no exec.
- ProcMemory's fairness covers only init, for `OrphansReaped`.

### Fairness

- `WF` on each process's own steps: a process on a CPU keeps executing.
- `SF` on `Scheduler(p)`: `scheduler()` scans the table round-robin, so a
  process that is RUNNABLE infinitely often while a CPU is free is eventually
  picked.
- `Yield` has no fairness, because the timer may stay quiet.
- These are Forwarding's. ProcMemory's fairness is in `FairSpec`:
  - `SF` on init's `wait`, and `WF` on init's kernel steps (see its section);
  - GuestMemory has none.

## 4. Findings

See `findings` in PROJECT.json. For Forwarding they are the lost resume, the
NULL copy, the message lost under concurrent inserts, and the early return
through `new_app_pid`. For ProcMemory it is the failed `vspacecopy` whose
regions still alias the parent's descriptor pages, which `fork` then frees.
For GuestMemory they are the inclusive bound, the NULL
read in `gremovemap`, and the stale owner that leads to a use after free.

## 5. Plan

The modules come in this order, each with its own MC module and runs:

1. `Forwarding`. Done.
2. `GuestMemory`. Done, except the region sizes and `gdeploy_program`'s
   stack copy.
3. `Kalloc`: the frame allocator is part of `ProcMemory`. Its counters are
   never read, and its reference counts stay at 1 because `kincref`'s only
   caller, `cow_vspacecopy`, is never called.
4. `Regions`: the region arithmetic of `vspace.c`
   (`VRTOP`/`VRBOT`/`va2vpi_idx`/`vregioncontains`/`va2vregion`) and
   `vspaceloadcode`'s segment loop, as operators checked against reference
   definitions over bounded inputs. Done (`VRegion`, in `pm_fork_wait`).
5. `ProcMemory`: `userinit`, `allocproc`, `fork` with the `vspacecopy`
   failure path, `exec`, `exit` and `wait`, over `kalloc`'s frames. Done,
   except `vspacewritetova`'s chunk loop (its hang at a page-aligned va is a
   listed hazard) and a check of the NULL and assert faults, which the
   passing run reaches.
6. `MessageQueue`: an abstract FIFO that `Forwarding` refines when callers are
   serialised. Done (`MailboxSpec` in `fwd_coop`).
7. `ProcLifecycle`: the process table's slot life cycle, refined by
   `ProcMemory`. Done (`LifecycleSpec` in `pm_fork_wait`).

## 6. Not modelled

- The byte-level parts of `exec` and of the loading half of `vspace.c`:
  reading the ELF header and the file data, argument strings, and the
  chunking of `vspacewritetova`. `VRegion` models the segment loop over the
  header fields.
  The chunking's endless loop at a page-aligned va is a listed hazard.
- Page-table pages below the root: `setupkvm`, `mappages` and `freevm` are
  one frame, the root.
- `fs.c`: disk and inode I/O, outside the guest subsystem. Its only
  callers under `src/` are `exec`'s `namei` and `fileclose`'s `irelease`.
  With one `exec`, nothing concurrent reaches the inode cache. The root
  inode's ref leak in `namex` is a listed hazard.
  `file.c`'s `filedup` and `fileclose` are part of `ProcMemory`.
  `filealloc`, `fileread`, `filewrite` and `filestat` are called only from
  system calls that are not in the tree.
  - `findBlocks` and its caller `createInode` have no caller under `src/`.
  - The bitmap geometry (`BPB`, `BBLOCK`, in `fs.h`) is not in the tree.
  - `findBlocks`' bitmap scan is therefore unreachable and is not listed
    as a hazard. The `iget` race on an entry whose fields are not yet
    loaded is listed as a hazard without a run.
- The open-file tables. `sys_grequest_proc` tests the shell's `ofile[i]`
  but duplicates the guest's (guest.c:255). This divergence from spec.md
  §4.4 is a listed hazard. Checking it would need file tables for the shell
  and the guest, and the project's runs are all in use.
- `sys_gdeploy_program`'s argument copy and its `bad:` path. The path reads
  `app_proc` uninitialised when the `goto` comes before its assignment
  (guest.c:450-496). That needs a model of arbitrary kernel memory; it is a
  listed hazard.
- Pids at or above `MAX_PROC` = 64, which overrun `app_processes` and
  `proc_map` in `sys_grequest_proc` (guest.c:261-270). The models create at
  most 3 apps; this is a listed hazard.
- `guest_syscall`'s unknown-index branch, which also kills the sender. The
  shell and `aputc` send only INIT and WRITE, so no caller in the tree
  reaches it.
- `vregiondelmap` and the `cow_*` helpers of `vspace.c`, which have no
  caller under `src/`. `vradddata` (userinit's code copy) is
  `vregionaddmap` followed by a byte copy, so it changes no frame or
  descriptor beyond `vregionaddmap`'s.
- An unaligned midpoint in `sys_grequest_proc`, which panics
  `vspaceinvalidate` (guest.c:228, 299). `RebuildIndexBijective` covers
  only the regions that `vspaceinit` and `exec` create. This is a listed
  hazard.
- Console output and the argument strings of messages.
- The shell, which is not under `src/`. It is modelled from the spec as the
  caller that sends `MESSAGE_INIT_APP`.
