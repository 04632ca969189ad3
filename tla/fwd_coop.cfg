\* Protocol logic with no concurrency inside system calls: one CPU, no timer.
CONSTANTS
    Guest = Guest
    Shell = Shell
    InitProc = InitProc
    Nil = Nil
    Apps = {a1, a2}
    Direct = {}
    NCPU <- CoopCPUs
    Preempt <- CoopPreempt
    NInit = 2
    NWrites = 2
    WriteFails = TRUE
    \* 4-bit addresses, 2-byte pages, KERNBASE at 12: two-page regions up
    \* to the kernel boundary and stacks whose bottom wraps.
    PAGE_SHIFT = 1
    WIDTH = 4
    KERNBASE = 12
SPECIFICATION Spec
INVARIANT TypeOK
INVARIANT NoKernelFault
INVARIANT NoOrphanedSleeper
INVARIANT ReturnedOnlyWhenServed
PROPERTY SyscallReturns
PROPERTY MailboxSpec
\* Constant formulas over bounded regions and ELF headers (VRegion).
PROPERTY VspaceContainsSoundStep
PROPERTY RebuildIndexBijectiveStep
PROPERTY LoadedPagesMappedStep
\* With every process blocked the scheduler idles; whether a blocked
\* caller is stuck is what SyscallReturns decides.
CHECK_DEADLOCK FALSE
