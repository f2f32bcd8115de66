------------------------------- MODULE MCHosts -------------------------------
(***************************************************************************)
(* The two hosts built on execution cells, side by side: the lifecycle     *)
(* manager of MCExtensionHost and the binding.  focus picks the one that   *)
(* moves and the other keeps its initial state.                            *)
(*                                                                         *)
(* Binding: three ids for extensions and sessions alike, a zero-tick and a *)
(* nonzero drain deadline, and budgets that fail at once, in the second    *)
(* cell, or not at all.                                                    *)
(***************************************************************************)
EXTENDS MCExtensionHost, HostBinding

VARIABLE focus

HostsInit == /\ Init /\ BindingInit
             /\ focus \in {"lifecycle", "binding"}
             /\ focus = "lifecycle" => deadline = 0

HostsNext == /\ UNCHANGED focus
             /\ \/ focus = "lifecycle" /\ Next /\ UNCHANGED bound
                \/ focus = "binding" /\ BindingNext /\ UNCHANGED vars

HostsSpec == HostsInit /\ [][HostsNext]_<<focus, vars, bound>>
=============================================================================
