--------------------------- MODULE MCLeaseTracker ---------------------------
(***************************************************************************)
(* Three leases with two lifetimes, three ticks and two epochs that may    *)
(* alternate: leases share index slots, expire together, are renewed into  *)
(* each other's slots and are released after they expired.                 *)
(***************************************************************************)
EXTENDS LeaseTracker

MCTtls == {1, 2}
=============================================================================
