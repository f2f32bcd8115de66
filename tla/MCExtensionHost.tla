-------------------------- MODULE MCExtensionHost --------------------------
(***************************************************************************)
(* Two extensions, with two sessions and one, one obligation per cell.     *)
(* Quarantine and Revocation differ from Unload and Suspend in the number  *)
(* of ticks only, and a nonzero number of ticks has one effect: the events *)
(* are one that aborts, the one configured not to, and the zero-tick one.  *)
(* The budgets lie on both sides of every threshold of a teardown: 3 for   *)
(* the effect, 5 for one cell, 9 running dry in the second cell.           *)
(***************************************************************************)
EXTENDS ExtensionHost

MCExtensions == {1, 2}
MCSessions == <<{1, 2}, {1}>>
MCEvents == {"Unload", "Suspend", "Terminate"}
MCBudgets == {2, 4, 5, 9, 30}
=============================================================================
