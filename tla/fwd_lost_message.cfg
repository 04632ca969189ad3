CONSTANTS
    Guest = Guest
    Shell = Shell
    InitProc = InitProc
    Nil = Nil
    Apps = {a1}
    Direct = {d1, d2}
    NCPU <- SmpCPUs
    Preempt <- SmpPreempt
    NInit = 0
    NWrites = 1
    WriteFails = FALSE
    \* 4-bit addresses, 2-byte pages, KERNBASE at 12: two-page regions up
    \* to the kernel boundary and stacks whose bottom wraps.
    PAGE_SHIFT = 1
    WIDTH = 4
    KERNBASE = 12
SPECIFICATION Spec
INVARIANT NoLostMessage
CHECK_DEADLOCK FALSE
