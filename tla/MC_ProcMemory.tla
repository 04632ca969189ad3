---------------------------- MODULE MC_ProcMemory ----------------------------
(* Instances of the frame and process model for TLC.                      *)
EXTENDS ProcMemory

\* Twelve free frames at boot: enough for two forks (six frames each), or
\* for one child and an exec (five frames) while a third fork is under
\* way.  Exec's leaked pages and the frames in use bring every smaller
\* count about, so every allocation of fork and exec can be the one that
\* fails.
MCInitFree == {12}

\* Room for a fork that allocates the stack, the table and the code
\* region's descriptor, and runs out at the code region's data page.
MCOutAtCodePage == {3}

\* The state with what no step reads before writing it left out: vpi of a
\* frame that is no one's descriptor page (kalloc of a descriptor zeroes
\* it, and a data page's vpi is never read), and the region cursor of a
\* process that is not in vspacecopy (ForkInit resets it).
DescFrames == UNION {{desc[q][r], newva[q].desc[r]} : q \in Procs, r \in Regions} \ {NULL}
MCView ==
    <<avail, state, parent, kstack, pgtbl, desc,
      [f \in DescFrames |-> vpi[f]], mapped, pc, child,
      [q \in Procs |-> IF pc[q] \in {"copy_desc", "copy_page"} THEN cur[q] ELSE 0],
      execs, newva, ofile, fref, fault>>
=============================================================================
