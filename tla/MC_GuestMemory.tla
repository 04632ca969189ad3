---------------------------- MODULE MC_GuestMemory ----------------------------
(* Instances of the guest memory calls for TLC.  Addresses are page        *)
(* numbers: the app range SZ_2G..SZ_4G of guest_init_app is scaled to 8..16 *)
(* with the midpoint at 12; a page-table page covers 4 pages, so the      *)
(* base and the bound lie under tables of their own.                      *)
EXTENDS GuestMemory

MCBase == 8
MCMidpoint == 12
MCBound == 16
MCTableSpan == 4

\* Below the base, the base, above the bound: every bounds branch, and one
\* page in range that two apps both map.
MCVAs == {7, 8, 17}

\* The base and the bound itself.
MCVAsBound == {8, 16}

\* The base alone.
MCVAsBase == {8}
=============================================================================
