------------------------------ MODULE Forwarding ------------------------------
(***************************************************************************)
(* The guest syscall-forwarding protocol of src/kernel/guest.c, run over   *)
(* the process state machine and sleep/wakeup of src/kernel/proc.c and     *)
(* driven by the guest OS main loop of src/user/guest_os.c.                *)
(*                                                                         *)
(* Callers (the shell, the app processes the guest creates, and any other  *)
(* process that calls app_syscall) append a message to the guest's         *)
(* unlocked singly linked syscall_buffer, then wake the guest and sleep    *)
(* under ptable.lock.  The guest pops messages in gnext_syscall, serves    *)
(* them (MESSAGE_WRITE, MESSAGE_INIT_APP) and calls gresume(new_app_pid).  *)
(*                                                                         *)
(* Granularity: every access to the shared list outside ptable.lock is a   *)
(* step of its own; every critical section under ptable.lock is one atomic *)
(* step (the lock serialises them).  A process executes only while it is   *)
(* on a CPU; scheduler() puts a RUNNABLE process on a free CPU and, since  *)
(* the resumed process only releases the lock and clears chan, that        *)
(* continuation is folded into the scheduling step.                        *)
(***************************************************************************)
EXTENDS Naturals, Sequences, FiniteSets, Functions

CONSTANTS
    Guest,    \* the guest OS process, pid GUEST_PID
    Shell,    \* the shell, pid SHELL_PID; it sends MESSAGE_INIT_APP
    InitProc, \* initproc: the parent orphans are handed to (never runs here)
    Apps,     \* process-table slots allocproc can give to app processes
    Direct,   \* processes not spawned by the guest that call app_syscall
    NCPU,     \* processors running scheduler()
    Preempt,  \* whether the timer interrupt may yield a running process
    NInit,    \* bound: MESSAGE_INIT_APP requests the shell makes
    NWrites,  \* bound: MESSAGE_WRITE requests each other caller makes
    WriteFails, \* whether the guest's write() for a MESSAGE_WRITE may fail
    Nil       \* NULL pointer / no process

ASSUME NCPU \in Nat \ {0} /\ Preempt \in BOOLEAN /\ NInit \in Nat /\ NWrites \in Nat
       /\ WriteFails \in BOOLEAN

\* src/inc/syscall_message.h: fixed pids of the guest and the shell.
GUEST_PID == 2
SHELL_PID == 3

Callers == {Shell} \cup Apps \cup Direct
Proc    == {Guest} \cup Callers
States  == {"UNUSED", "EMBRYO", "SLEEPING", "RUNNABLE", "RUNNING", "ZOMBIE"}

\* Pids: init is 1, the guest 2, the shell 3, direct callers next, then apps.
FirstAppPid == 4 + Cardinality(Direct)
MaxPid      == FirstAppPid + NInit
\* Direct callers were forked by the shell before the guest created any app.
DirectPid   == CHOOSE f \in [Direct -> 4..(FirstAppPid - 1)] : IsInjective(f)
Quota(p)    == IF p = Shell THEN NInit ELSE NWrites
\* A message is named by the pid of its sender and its rank among them.
Msg         == (1..MaxPid) \X (1..(IF NInit > NWrites THEN NInit ELSE NWrites))
\* guest_os.c dispatches on syscall_index; the shell sends INIT, others WRITE.
Kind(m)     == IF m[1] = SHELL_PID THEN "init" ELSE "write"

VARIABLES
    state,      \* p->state
    onCpu,      \* p is executing on some CPU (between swtch in and sched out)
    chan,       \* p->chan
    parent,     \* p->parent
    pid,        \* p->pid
    nextpid,    \* nextpid in proc.c
    owned,      \* pids with guest->app_processes[pid].owned = 1
    pc,         \* where each process is in its code
    sent,       \* app_syscall calls a caller has made
    msg,        \* the message a caller is sending (new_message)
    cur,        \* the caller's list cursor in insert_syscall
    head,       \* guest->syscall_buffer
    next,       \* next_message of each message node
    freed,      \* message nodes the guest has kfree'd
    gcur,       \* curr_s in sys_gnext_syscall
    gmsg,       \* the guest's copy of the message it is serving
    newAppPid,  \* new_app_pid in guest_os.c
    linked,     \* history: messages in the order they were linked in
    delivered,  \* history: messages in the order the guest copied them out
    killed,     \* processes with p->killed = 1
    fault       \* "none", or the kernel fault the code ran into

vars == <<state, onCpu, chan, parent, pid, nextpid, owned, pc, sent, msg, cur,
          head, next, freed, gcur, gmsg, newAppPid, linked, delivered, killed, fault>>

-----------------------------------------------------------------------------
(* Helpers translated from proc.c.                                         *)

\* findproc: the process with the given pid, or NULL.
FindProc(x) == IF \E p \in Proc : pid[p] = x
               THEN CHOOSE p \in Proc : pid[p] = x
               ELSE Nil

\* wakeup1: every process sleeping on c becomes RUNNABLE.
Wakeup1(st, c) ==
    [q \in Proc |-> IF st[q] = "SLEEPING" /\ chan[q] = c THEN "RUNNABLE" ELSE st[q]]

\* p executes only while it is on a CPU and the kernel has not faulted.
Running(p) == onCpu[p] /\ fault = "none"

CpusBusy == Cardinality({q \in Proc : onCpu[q]})

\* sleep(chan) in the caller's own context: SLEEPING and off the CPU.
SleepSelf(p, c, resumeAt, st) ==
    /\ state' = [st EXCEPT ![p] = "SLEEPING"]
    /\ chan' = [chan EXCEPT ![p] = c]
    /\ onCpu' = [onCpu EXCEPT ![p] = FALSE]
    /\ pc' = [pc EXCEPT ![p] = resumeAt]

-----------------------------------------------------------------------------
Init ==
    /\ state = [p \in Proc |-> IF p \in Apps THEN "UNUSED" ELSE "RUNNABLE"]
    /\ onCpu = [p \in Proc |-> FALSE]
    /\ chan = [p \in Proc |-> Nil]
    /\ parent = [p \in Proc |-> CASE p \in Apps   -> Nil
                                  [] p \in Direct -> Shell
                                  [] OTHER        -> InitProc]
    /\ pid = [p \in Proc |-> CASE p = Guest   -> GUEST_PID
                               [] p = Shell   -> SHELL_PID
                               [] p \in Direct -> DirectPid[p]
                               [] OTHER       -> 0]
    /\ nextpid = FirstAppPid
    /\ owned = {}
    /\ pc = [p \in Proc |-> IF p = Guest THEN "next_read" ELSE "user"]
    /\ sent = [p \in Callers |-> 0]
    /\ msg = [p \in Callers |-> Nil]
    /\ cur = [p \in Callers |-> Nil]
    /\ head = Nil
    /\ next = [m \in Msg |-> Nil]
    /\ freed = {}
    /\ gcur = Nil
    /\ gmsg = Nil
    /\ newAppPid = 0
    /\ linked = <<>>
    /\ delivered = <<>>
    /\ killed = {}
    /\ fault = "none"

-----------------------------------------------------------------------------
(* Callers: sys_app_syscall and insert_syscall (guest.c), exit (proc.c).   *)

\* Mutant: the message numbered with the count before the increment.
SysAppSyscallStaleCount(p) ==
    /\ Running(p) /\ pc[p] = "user" /\ sent[p] < Quota(p) /\ p \notin killed
    /\ sent' = [sent EXCEPT ![p] = @ + 1]
    /\ msg' = [msg EXCEPT ![p] = <<pid[p], sent[p]>>]
    /\ cur' = [cur EXCEPT ![p] = head]
    /\ pc' = [pc EXCEPT ![p] = "ins_walk"]
    /\ UNCHANGED <<state, onCpu, chan, parent, pid, nextpid, owned, head, next,
                   freed, gcur, gmsg, newAppPid, linked, delivered, fault>>

\* sys_app_syscall up to insert_syscall's read of the guest's list head:
\* kalloc a message, fill it, set next_message = NULL, read syscall_buffer.
SysAppSyscall(p) ==
    /\ Running(p) /\ pc[p] = "user" /\ sent[p] < Quota(p) /\ p \notin killed
    /\ LET m == <<pid[p], sent[p] + 1>> IN
         /\ sent' = [sent EXCEPT ![p] = @ + 1]
         /\ msg' = [msg EXCEPT ![p] = m]
    /\ cur' = [cur EXCEPT ![p] = head]
    /\ pc' = [pc EXCEPT ![p] = "ins_walk"]
    /\ UNCHANGED <<state, onCpu, chan, parent, pid, nextpid, owned, head, next,
                   freed, gcur, gmsg, newAppPid, linked, delivered, fault>>

\* insert_syscall, empty list: the new message becomes syscall_buffer.
InsertSyscallHead(p) ==
    /\ Running(p) /\ pc[p] = "ins_walk" /\ cur[p] = Nil
    /\ head' = msg[p]
    /\ linked' = Append(linked, msg[p])
    /\ pc' = [pc EXCEPT ![p] = "wake"]
    /\ UNCHANGED <<state, onCpu, chan, parent, pid, nextpid, owned, sent, msg,
                   cur, next, freed, gcur, gmsg, newAppPid, delivered, fault>>

\* insert_syscall's walk to the tail: one read of next_message per step.
\* A node the guest has already kfree'd is junk-filled: following its
\* next_message dereferences a garbage pointer.
InsertSyscallWalk(p) ==
    /\ Running(p) /\ pc[p] = "ins_walk" /\ cur[p] # Nil
    /\ IF cur[p] \in freed
       THEN /\ fault' = "use_after_free"
            /\ UNCHANGED <<cur, pc>>
       ELSE /\ IF next[cur[p]] # Nil
               THEN /\ cur' = [cur EXCEPT ![p] = next[cur[p]]]
                    /\ UNCHANGED pc
               ELSE /\ pc' = [pc EXCEPT ![p] = "ins_link"]
                    /\ UNCHANGED cur
            /\ UNCHANGED fault
    /\ UNCHANGED <<state, onCpu, chan, parent, pid, nextpid, owned, sent, msg,
                   head, next, freed, gcur, gmsg, newAppPid, linked, delivered>>

\* Mutant: the new message pushed at the front instead of linked at the tail.
InsertSyscallPush(p) ==
    /\ Running(p) /\ pc[p] = "ins_link"
    /\ next' = [next EXCEPT ![msg[p]] = head]
    /\ head' = msg[p]
    /\ linked' = Append(linked, msg[p])
    /\ pc' = [pc EXCEPT ![p] = "wake"]
    /\ UNCHANGED <<state, onCpu, chan, parent, pid, nextpid, owned, sent, msg,
                   cur, freed, gcur, gmsg, newAppPid, delivered, fault>>

\* insert_syscall: link the message behind the tail the walk stopped at
\* (which the guest may have popped and freed in the meantime).
InsertSyscallLink(p) ==
    /\ Running(p) /\ pc[p] = "ins_link"
    /\ next' = [next EXCEPT ![cur[p]] = msg[p]]
    /\ linked' = Append(linked, msg[p])
    /\ pc' = [pc EXCEPT ![p] = "wake"]
    /\ UNCHANGED <<state, onCpu, chan, parent, pid, nextpid, owned, sent, msg,
                   cur, head, freed, gcur, gmsg, newAppPid, delivered, fault>>

\* Mutant: the guest is woken but the caller does not go to sleep.
SysAppSyscallNoSleep(p) ==
    /\ Running(p) /\ pc[p] = "wake"
    /\ state' = Wakeup1(state, Guest)
    /\ pc' = [pc EXCEPT ![p] = "user"]
    /\ UNCHANGED <<onCpu, chan, parent, pid, nextpid, owned, sent, msg, cur, head,
                   next, freed, gcur, gmsg, newAppPid, linked, delivered, fault>>

\* Mutant: the caller sleeps without waking the guest.
SysAppSyscallNoWake(p) ==
    /\ Running(p) /\ pc[p] = "wake"
    /\ SleepSelf(p, p, "user", state)
    /\ UNCHANGED <<parent, pid, nextpid, owned, sent, msg, cur, head, next,
                   freed, gcur, gmsg, newAppPid, linked, delivered, fault>>

\* lock_ptable; wakeup1(guest); sleep_process2(myproc()); ... in one hold of
\* ptable.lock.  When resumed the caller unlocks and returns 0 to user mode.
SysAppSyscallSleep(p) ==
    /\ Running(p) /\ pc[p] = "wake"
    /\ SleepSelf(p, p, "user", Wakeup1(state, Guest))
    /\ UNCHANGED <<parent, pid, nextpid, owned, sent, msg, cur, head, next,
                   freed, gcur, gmsg, newAppPid, linked, delivered, fault>>

\* Mutant: exit() without wakeup1(parent).
ExitNoWake(p) ==
    /\ Running(p) /\ pc[p] = "user" /\ (sent[p] = Quota(p) \/ p \in killed)
    /\ state' = [state EXCEPT ![p] = "ZOMBIE"]
    /\ parent' = [q \in Proc |-> IF parent[q] = p THEN InitProc ELSE parent[q]]
    /\ onCpu' = [onCpu EXCEPT ![p] = FALSE]
    /\ pc' = [pc EXCEPT ![p] = "exited"]
    /\ UNCHANGED <<chan, pid, nextpid, owned, sent, msg, cur, head, next, freed,
                   gcur, gmsg, newAppPid, linked, delivered, fault>>

\* exit(): wake the parent, hand children to initproc, become ZOMBIE, sched.
\* A caller exits once it has made all its calls, or, once killed, at its
\* next return to user mode (the trap's p->killed check, spec.md section 5).
Exit(p) ==
    /\ Running(p) /\ pc[p] = "user" /\ (sent[p] = Quota(p) \/ p \in killed)
    /\ state' = [Wakeup1(state, parent[p]) EXCEPT ![p] = "ZOMBIE"]
    /\ parent' = [q \in Proc |-> IF parent[q] = p THEN InitProc ELSE parent[q]]
    /\ onCpu' = [onCpu EXCEPT ![p] = FALSE]
    /\ pc' = [pc EXCEPT ![p] = "exited"]
    /\ UNCHANGED <<chan, pid, nextpid, owned, sent, msg, cur, head, next, freed,
                   gcur, gmsg, newAppPid, linked, delivered, fault>>

-----------------------------------------------------------------------------
(* The guest: sys_gnext_syscall, guest_syscall, sys_grequest_proc,         *)
(* sys_gload_program and sys_gresume, in the order of guest_os.c's loop.   *)

GuestStep(newPc) == pc' = [pc EXCEPT ![Guest] = newPc]

\* curr_s = myproc()->syscall_buffer (before the loop and after each sleep).
GnextRead ==
    /\ Running(Guest) /\ pc[Guest] = "next_read"
    /\ gcur' = head
    /\ GuestStep("next_check")
    /\ UNCHANGED <<state, onCpu, chan, parent, pid, nextpid, owned, sent, msg,
                   cur, head, next, freed, gmsg, newAppPid, linked, delivered, fault>>

\* while (myproc()->syscall_buffer == NULL): a second, separate read.
GnextCheck ==
    /\ Running(Guest) /\ pc[Guest] = "next_check"
    /\ GuestStep(IF head = Nil THEN "next_sleep" ELSE "copy")
    /\ UNCHANGED <<state, onCpu, chan, parent, pid, nextpid, owned, sent, msg,
                   cur, head, next, freed, gcur, gmsg, newAppPid, linked, delivered, fault>>

\* Mutant: after waking, the loop test is redone but curr_s is not re-read.
GnextSleepNoReread ==
    /\ Running(Guest) /\ pc[Guest] = "next_sleep"
    /\ SleepSelf(Guest, Guest, "next_check", state)
    /\ UNCHANGED <<parent, pid, nextpid, owned, sent, msg, cur, head, next,
                   freed, gcur, gmsg, newAppPid, linked, delivered, fault>>

\* sleep_process(myproc()): take ptable.lock and sleep, without re-checking.
GnextSleep ==
    /\ Running(Guest) /\ pc[Guest] = "next_sleep"
    /\ SleepSelf(Guest, Guest, "next_read", state)
    /\ UNCHANGED <<parent, pid, nextpid, owned, sent, msg, cur, head, next,
                   freed, gcur, gmsg, newAppPid, linked, delivered, fault>>

\* *s = *curr_s: copy the message out (NULL if curr_s was read too early).
GnextCopy ==
    /\ Running(Guest) /\ pc[Guest] = "copy"
    /\ IF gcur = Nil
       THEN /\ fault' = "null_deref"
            /\ UNCHANGED <<gmsg, delivered, pc>>
       ELSE /\ gmsg' = gcur
            /\ delivered' = Append(delivered, gcur)
            /\ GuestStep("advance")
            /\ UNCHANGED fault
    /\ UNCHANGED <<state, onCpu, chan, parent, pid, nextpid, owned, sent, msg,
                   cur, head, next, freed, gcur, newAppPid, linked>>

\* Mutant: syscall_buffer = curr_s, the message served left at the head.
GnextAdvanceStale ==
    /\ Running(Guest) /\ pc[Guest] = "advance"
    /\ head' = gcur
    /\ GuestStep("free")
    /\ UNCHANGED <<state, onCpu, chan, parent, pid, nextpid, owned, sent, msg,
                   cur, next, freed, gcur, gmsg, newAppPid, linked, delivered, fault>>

\* myproc()->syscall_buffer = curr_s->next_message
GnextAdvance ==
    /\ Running(Guest) /\ pc[Guest] = "advance"
    /\ head' = next[gcur]
    /\ GuestStep("free")
    /\ UNCHANGED <<state, onCpu, chan, parent, pid, nextpid, owned, sent, msg,
                   cur, next, freed, gcur, gmsg, newAppPid, linked, delivered, fault>>

\* kfree(curr_s)
GnextFree ==
    /\ Running(Guest) /\ pc[Guest] = "free"
    /\ freed' = freed \cup {gcur}
    /\ GuestStep("dispatch")
    /\ UNCHANGED <<state, onCpu, chan, parent, pid, nextpid, owned, sent, msg,
                   cur, head, next, gcur, gmsg, newAppPid, linked, delivered, fault>>

\* kill(pid): the slot with that pid gets p->killed = 1 and, if SLEEPING,
\* becomes RUNNABLE (chan is left set); no such pid, no change.
Kill(x) ==
    LET q == FindProc(x) IN
    /\ killed' = IF q = Nil THEN killed ELSE killed \cup {q}
    /\ state' = IF q # Nil /\ state[q] = "SLEEPING"
                THEN [state EXCEPT ![q] = "RUNNABLE"] ELSE state

\* guest_write: write() to the console; if it fails, kill(syscall.pid).
GuestWrite ==
    \/ UNCHANGED <<state, killed>>
    \/ WriteFails /\ Kill(gmsg[1])

\* guest_syscall: MESSAGE_WRITE runs guest_write; MESSAGE_INIT_APP runs
\* guest_init_app, which starts with grequest_proc.
GuestSyscall ==
    /\ Running(Guest) /\ pc[Guest] = "dispatch"
    /\ GuestStep(IF Kind(gmsg) = "write" THEN "resume" ELSE "request")
    /\ IF Kind(gmsg) = "write" THEN GuestWrite ELSE UNCHANGED <<state, killed>>
    /\ UNCHANGED <<onCpu, chan, parent, pid, nextpid, owned, sent, msg,
                   cur, head, next, freed, gcur, gmsg, newAppPid, linked, delivered, fault>>

\* sys_grequest_proc: allocproc takes the first UNUSED slot (EMBRYO, fresh
\* pid); the slot's parent is the shell and the guest records it as owned.
\* allocproc's NULL result is dereferenced without a check.
GrequestProc ==
    /\ Running(Guest) /\ pc[Guest] = "request"
    /\ IF \A a \in Apps : state[a] # "UNUSED"
       THEN /\ fault' = "null_deref"
            /\ UNCHANGED <<state, parent, pid, nextpid, owned, sent, chan, pc, newAppPid>>
       ELSE LET a == CHOOSE a \in Apps : state[a] = "UNUSED" IN
            /\ state' = [state EXCEPT ![a] = "EMBRYO"]
            /\ pid' = [pid EXCEPT ![a] = nextpid]
            /\ nextpid' = nextpid + 1
            /\ parent' = [parent EXCEPT ![a] = Shell]
            /\ owned' = owned \cup {nextpid}
            /\ chan' = [chan EXCEPT ![a] = Nil]
            /\ sent' = [sent EXCEPT ![a] = 0]
            /\ pc' = [pc EXCEPT ![a] = "user", ![Guest] = "load"]
            /\ newAppPid' = nextpid
            /\ UNCHANGED fault
    /\ UNCHANGED <<onCpu, msg, cur, head, next, freed, gcur, gmsg, linked, delivered>>

\* gload_program: the path loads (then gaddmap and gdeploy_program, which
\* change no process state), or it fails and sys_gload_program tears the
\* app down under ptable.lock (waking the shell, slot UNUSED, pid kept) and
\* guest_init_app sets new_app_pid = SHELL_PID.
GloadProgram ==
    /\ Running(Guest) /\ pc[Guest] = "load"
    /\ \/ /\ GuestStep("resume")
          /\ UNCHANGED <<state, parent, newAppPid>>
       \/ LET a == FindProc(newAppPid) IN
          /\ state' = [Wakeup1(state, Shell) EXCEPT ![a] = "UNUSED"]
          /\ parent' = [parent EXCEPT ![a] = Nil]
          /\ newAppPid' = SHELL_PID
          /\ GuestStep("resume")
    /\ UNCHANGED <<onCpu, chan, pid, nextpid, owned, sent, msg, cur, head, next,
                   freed, gcur, gmsg, linked, delivered, fault>>

\* gresume(new_app_pid): findproc(pid)->state = RUNNABLE whatever its state,
\* then sleep_process2(myproc()) in the same hold of ptable.lock.  An UNUSED
\* slot (pid 0, or a torn-down app that kept its pid) has no valid context
\* and a ZOMBIE returns into exit()'s panic: switching to either faults, and
\* the fault is taken here.
Gresume ==
    /\ Running(Guest) /\ pc[Guest] = "resume"
    /\ LET q == FindProc(newAppPid) IN
       IF q = Nil \/ state[q] \in {"UNUSED", "ZOMBIE"}
       THEN /\ fault' = IF q = Nil THEN "null_deref" ELSE "resume_dead"
            /\ UNCHANGED <<state, chan, onCpu, pc>>
       ELSE /\ SleepSelf(Guest, Guest, "next_read", [state EXCEPT ![q] = "RUNNABLE"])
            /\ UNCHANGED fault
    /\ UNCHANGED <<parent, pid, nextpid, owned, sent, msg, cur, head, next, freed,
                   gcur, gmsg, newAppPid, linked, delivered>>

-----------------------------------------------------------------------------
(* Scheduling: scheduler() and yield() in proc.c.                          *)

\* A CPU in scheduler() picks a RUNNABLE process and switches to it; the
\* process clears chan and releases ptable.lock.  The scheduler does not
\* know whether the process is already executing on another CPU: two CPUs
\* on one kernel stack is a fault.
Scheduler(p) ==
    /\ fault = "none" /\ state[p] = "RUNNABLE" /\ CpusBusy < NCPU
    /\ IF onCpu[p]
       THEN /\ fault' = "double_run"
            /\ UNCHANGED <<state, onCpu, chan>>
       ELSE /\ state' = [state EXCEPT ![p] = "RUNNING"]
            /\ onCpu' = [onCpu EXCEPT ![p] = TRUE]
            /\ chan' = [chan EXCEPT ![p] = Nil]
            /\ UNCHANGED fault
    /\ UNCHANGED <<parent, pid, nextpid, owned, pc, sent, msg, cur, head, next,
                   freed, gcur, gmsg, newAppPid, linked, delivered>>

\* The timer interrupt in user or kernel code outside a spinlock: yield().
Yield(p) ==
    /\ Preempt /\ Running(p)
    /\ state' = [state EXCEPT ![p] = "RUNNABLE"]
    /\ onCpu' = [onCpu EXCEPT ![p] = FALSE]
    /\ UNCHANGED <<chan, parent, pid, nextpid, owned, pc, sent, msg, cur, head,
                   next, freed, gcur, gmsg, newAppPid, linked, delivered, fault>>

-----------------------------------------------------------------------------
\* Only the guest's kill() sets p->killed; every other step leaves it.
CallerStep(p) ==
    /\ \/ SysAppSyscall(p) \/ InsertSyscallHead(p) \/ InsertSyscallWalk(p)
       \/ InsertSyscallLink(p) \/ SysAppSyscallSleep(p) \/ Exit(p)
    /\ UNCHANGED killed

GuestProcStep ==
    \/ /\ \/ GnextRead \/ GnextCheck \/ GnextSleep \/ GnextCopy \/ GnextAdvance
          \/ GnextFree \/ GrequestProc \/ GloadProgram \/ Gresume
       /\ UNCHANGED killed
    \/ GuestSyscall

SchedStep(p) == Scheduler(p) /\ UNCHANGED killed

Next ==
    \/ GuestProcStep
    \/ \E p \in Callers : CallerStep(p)
    \/ \E p \in Proc : SchedStep(p) \/ (Yield(p) /\ UNCHANGED killed)

\* Each CPU keeps executing the process on it, and the round-robin scan of
\* scheduler() reaches every process that is RUNNABLE whenever a CPU is free.
Fairness ==
    /\ WF_vars(GuestProcStep)
    /\ \A p \in Callers : WF_vars(CallerStep(p))
    /\ \A p \in Proc : SF_vars(SchedStep(p))

Spec == Init /\ [][Next]_vars /\ Fairness

-----------------------------------------------------------------------------
(* Properties.                                                             *)

TypeOK ==
    /\ state \in [Proc -> States]
    /\ onCpu \in [Proc -> BOOLEAN]
    /\ chan \in [Proc -> Proc \cup {Nil}]
    /\ parent \in [Proc -> Proc \cup {InitProc, Nil}]
    /\ pid \in [Proc -> 0..MaxPid]
    /\ owned \subseteq FirstAppPid..MaxPid
    /\ msg \in [Callers -> Msg \cup {Nil}]
    /\ cur \in [Callers -> Msg \cup {Nil}]
    /\ head \in Msg \cup {Nil}
    /\ next \in [Msg -> Msg \cup {Nil}]
    /\ gcur \in Msg \cup {Nil}
    /\ killed \subseteq Proc
    /\ CpusBusy <= NCPU

\* The kernel never dereferences NULL or freed memory and never runs one
\* process on two CPUs (gnext_syscall's early read of curr_s, insert_syscall
\* racing the guest's kfree, gresume making a running process RUNNABLE).
NoKernelFault == fault = "none"

\* FIFO: the guest copies messages out at most once each, and in the order
\* insert_syscall linked them into syscall_buffer, however the unlocked
\* appends of several callers and the guest's pops interleave.
DeliveredInOrder ==
    /\ IsInjective(delivered)
    /\ \A i \in DOMAIN delivered : \E k \in DOMAIN linked : linked[k] = delivered[i]
    /\ \A i, j \in DOMAIN delivered : \A k, l \in DOMAIN linked :
          (i < j /\ linked[k] = delivered[i] /\ linked[l] = delivered[j]) => k < l

\* The messages reachable from syscall_buffer.
RECURSIVE ChainFrom(_, _)
ChainFrom(m, n) == IF m = Nil \/ n = 0 THEN {} ELSE {m} \cup ChainFrom(next[m], n - 1)
Queued == ChainFrom(head, Cardinality(Msg))

\* No message is lost: each message insert_syscall linked in has been copied
\* out by the guest or is still reachable from syscall_buffer.
NoLostMessage ==
    \A k \in DOMAIN linked :
        \/ \E i \in DOMAIN delivered : delivered[i] = linked[k]
        \/ linked[k] \in Queued

\* A caller asleep in app_syscall waits for something that will wake it:
\* its message has not been taken by the guest yet, or the guest is still
\* serving it, or (for the shell) an app it parents is alive and will wake
\* it from exit().  Otherwise nothing ever makes it RUNNABLE again.
SleepingInSyscall(p) == state[p] = "SLEEPING" /\ chan[p] = p
Served(m) == \E i \in DOMAIN delivered : delivered[i] = m
NoOrphanedSleeper ==
    \A p \in Callers : SleepingInSyscall(p) =>
        \/ ~Served(msg[p])
        \/ gmsg = msg[p] /\ pc[Guest] \in {"advance", "free", "dispatch", "request", "load", "resume"}
        \/ p = Shell /\ \E a \in Apps : parent[a] = Shell /\ state[a] \notin {"UNUSED", "ZOMBIE"}

\* app_syscall returns to its caller only once the guest has taken that
\* caller's message: a caller back in user mode with a message sent has had
\* it copied out by gnext_syscall.  What wakes a sleeping caller is
\* gresume(new_app_pid) and the wakeup1(parent) of exit(), and neither is
\* tied to whose message was served.
ReturnedOnlyWhenServed ==
    \A p \in Callers : (onCpu[p] /\ pc[p] = "user" /\ msg[p] # Nil) => Served(msg[p])

\* Every app_syscall eventually returns to its caller in user mode.
InSyscall(p) == pc[p] \in {"ins_walk", "ins_link", "wake"} \/ SleepingInSyscall(p)
SyscallReturns ==
    \A p \in Callers : InSyscall(p) ~> (state[p] = "RUNNING" /\ pc[p] = "user")

-----------------------------------------------------------------------------
(* Refinement: with the callers serialised, the linked list and the        *)
(* guest's copy-outs implement the abstract mailbox of MessageQueue.       *)

\* The messages reachable from syscall_buffer, in list order.
RECURSIVE ChainSeq(_, _)
ChainSeq(m, n) == IF m = Nil \/ n = 0 THEN <<>> ELSE <<m>> \o ChainSeq(next[m], n - 1)

\* The waiting messages: the list, less the head the guest has already
\* copied out but not yet unlinked (between *s = *curr_s and the store to
\* syscall_buffer).
Pending ==
    LET q == ChainSeq(head, Cardinality(Msg)) IN
    IF pc[Guest] = "advance" /\ q # <<>> THEN Tail(q) ELSE q

Mailbox == INSTANCE MessageQueue WITH Msgs <- Msg, queue <- Pending, taken <- delivered

\* insert_syscall and gnext_syscall implement a FIFO mailbox: every link of
\* a message is a send of a new message at the tail, every copy-out takes
\* the head, no other step changes what is waiting, and a waiting message
\* is eventually copied out by the guest (woken by the sender's wakeup1).
MailboxSpec == Mailbox!Spec
=============================================================================
