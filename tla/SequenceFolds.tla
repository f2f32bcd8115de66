--------------------------- MODULE SequenceFolds ---------------------------
(***************************************************************************)
(* The two operators on sequences that the models of the loops need, with  *)
(* the meaning they have in SequencesExt.  That module also brings in the  *)
(* bags, whose instances the proof manager carries through every           *)
(* obligation of a module that extends it.                                 *)
(***************************************************************************)
EXTENDS Integers, Sequences, FiniteSets, FiniteSetsExt, Folds, Functions, TLC

\* op applied to the elements of seq from the first to the last, from base on.
FoldLeft(op(_, _), base, seq) ==
  MapThenFoldSet(LAMBDA elem, acc : op(acc, elem), base,
                 LAMBDA i : seq[i], LAMBDA S : Max(S), DOMAIN seq)

\* All of s but its last element.
Front(s) == SubSeq(s, 1, Len(s) - 1)
=============================================================================
