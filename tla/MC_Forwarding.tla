---------------------------- MODULE MC_Forwarding ----------------------------
(* Instances of the forwarding protocol for TLC, with the region          *)
(* arithmetic of vspace.c (VRegion) checked over its bounded inputs.       *)
EXTENDS Forwarding, VRegion

\* Uniprocessor without timer preemption: every unlocked step of a system
\* call runs to its next sleep before any other process runs.
CoopCPUs == 1
CoopPreempt == FALSE

\* Two CPUs with timer preemption.
SmpCPUs == 2
SmpPreempt == TRUE

\* Uniprocessor with timer preemption.
UniCPUs == 1
UniPreempt == TRUE

\* The constant checks of VRegion, as action properties: every step of a
\* forwarding behaviour satisfies them, so TLC evaluates each on the
\* run's first non-stuttering steps and reports a false one there.

\* vspacecontains (vspace.c:375) admits only ranges whose every byte lies
\* in the region va2vregion found, wrapped stack bottoms included.
VspaceContainsSoundStep == [][VspaceContainsSound]_vars

\* vspaceinvalidate (vspace.c:261) maps exactly the pages of a created
\* region, and va2vpi_idx numbers them one-to-one from 0.
RebuildIndexBijectiveStep == [][RebuildIndexBijective]_vars

\* vspaceloadcode (vspace.c:207) never reaches vrloaddata's assertion that
\* a page being loaded was allocated.
LoadedPagesMappedStep == [][LoadedPagesMapped]_vars
=============================================================================
