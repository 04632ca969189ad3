---------------------------- MODULE ProcLifecycle ----------------------------
(***************************************************************************)
(* What the process table promises (spec.md, section 4.3), without frames  *)
(* or address spaces: a slot goes UNUSED -> EMBRYO when fork allocates it, *)
(* EMBRYO -> RUNNABLE with the forking process as its parent, or back to   *)
(* UNUSED when fork tears the partial child down; RUNNABLE -> ZOMBIE on    *)
(* exit, which hands the children to init; ZOMBIE -> UNUSED only when its  *)
(* parent's wait harvests it.  RUNNING and SLEEPING are RUNNABLE here.     *)
(* mem says whether a slot holds kernel memory (its kernel stack): from    *)
(* allocation until fork's teardown or the parent's wait, and through the  *)
(* ZOMBIE state.                                                           *)
(***************************************************************************)
CONSTANTS Procs, initproc, NULL

VARIABLES
    slot,   \* the slot's state
    par,    \* the slot's parent, NULL for none
    mem     \* the slot holds kernel memory

lvars == <<slot, par, mem>>

Init ==
    /\ slot = [p \in Procs |-> IF p = initproc THEN "RUNNABLE" ELSE "UNUSED"]
    /\ par = [p \in Procs |-> NULL]
    /\ mem = [p \in Procs |-> p = initproc]

\* A running process's fork reserves an unused slot.
Allocate(p, c) ==
    /\ slot[p] = "RUNNABLE" /\ slot[c] = "UNUSED"
    /\ slot' = [slot EXCEPT ![c] = "EMBRYO"]
    /\ mem' = [mem EXCEPT ![c] = TRUE]
    /\ UNCHANGED par

\* The fork completes: the child is runnable and p is its parent.
Adopt(p, c) ==
    /\ slot[p] = "RUNNABLE" /\ slot[c] = "EMBRYO"
    /\ slot' = [slot EXCEPT ![c] = "RUNNABLE"]
    /\ par' = [par EXCEPT ![c] = p]
    /\ UNCHANGED mem

\* The fork fails: the partial child is torn down.
TearDown(c) ==
    /\ slot[c] = "EMBRYO"
    /\ slot' = [slot EXCEPT ![c] = "UNUSED"]
    /\ mem' = [mem EXCEPT ![c] = FALSE]
    /\ UNCHANGED par

\* exit: the children pass to init and the process becomes a zombie that
\* keeps its memory.
Exit(p) ==
    /\ slot[p] = "RUNNABLE" /\ p # initproc
    /\ slot' = [slot EXCEPT ![p] = "ZOMBIE"]
    /\ par' = [q \in Procs |-> IF par[q] = p THEN initproc ELSE par[q]]
    /\ UNCHANGED mem

\* wait: a parent harvests one of its zombie children and reclaims it.
Wait(p, c) ==
    /\ slot[p] = "RUNNABLE" /\ par[c] = p /\ slot[c] = "ZOMBIE"
    /\ slot' = [slot EXCEPT ![c] = "UNUSED"]
    /\ par' = [par EXCEPT ![c] = NULL]
    /\ mem' = [mem EXCEPT ![c] = FALSE]

Next ==
    \E p, c \in Procs : Allocate(p, c) \/ Adopt(p, c) \/ TearDown(c)
                        \/ Exit(p) \/ Wait(p, c)

Spec == Init /\ [][Next]_lvars

\* Every zombie has a running parent, so some wait can still harvest it.
ZombiesReapable ==
    \A c \in Procs : slot[c] = "ZOMBIE" => par[c] # NULL /\ slot[par[c]] = "RUNNABLE"

=============================================================================
