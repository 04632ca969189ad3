----------------------------- MODULE MessageQueue -----------------------------
(***************************************************************************)
(* What the syscall-forwarding protocol promises its callers: a FIFO       *)
(* mailbox of the guest.  A caller's message is enqueued once; the guest   *)
(* takes messages one at a time, oldest first, each exactly once; and a    *)
(* message that is waiting is eventually taken.                            *)
(***************************************************************************)
EXTENDS Sequences, Functions

CONSTANT Msgs   \* the messages callers can send

VARIABLES
    queue,  \* messages enqueued and not yet taken, oldest first
    taken   \* messages the guest has taken, in the order it took them

qvars == <<queue, taken>>

Init ==
    /\ queue = <<>>
    /\ taken = <<>>

\* A caller enqueues a message it has not sent before.
Send(m) ==
    /\ m \notin Range(queue) \cup Range(taken)
    /\ queue' = Append(queue, m)
    /\ UNCHANGED taken

\* The guest takes the oldest waiting message.
Take ==
    /\ queue # <<>>
    /\ taken' = Append(taken, Head(queue))
    /\ queue' = Tail(queue)

Next == (\E m \in Msgs : Send(m)) \/ Take

Spec == Init /\ [][Next]_qvars /\ WF_qvars(Take)

=============================================================================
