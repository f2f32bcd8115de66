------------------------- MODULE MCSeqlockFastpath -------------------------
(***************************************************************************)
(* Three threads share two reads and three writes, two under fairness: a   *)
(* second writer queues at the gate while a reader is between its loads,   *)
(* two readers hold the lock together, and with three writes a reader uses *)
(* up its retries.  The modulus leaves the sequence room not to wrap.      *)
(***************************************************************************)
EXTENDS SeqlockFastpath, TLC

\* Threads run the same code and are compared only for identity; the run that
\* checks liveness does without.
ThreadSymmetry == Permutations(Threads)
=============================================================================
