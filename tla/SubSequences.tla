--------------------------- MODULE SubSequences ---------------------------
(***************************************************************************)
(* The handlers of an event among those that wait, as jQuery finds them.   *)
(* This is SelectSeq with a set for its test, written as a fold: of the    *)
(* operators of Sequences the provers know no definition.                  *)
(***************************************************************************)
EXTENDS Sequences, SequencesExt

KeepIn(s, S, x) == IF x \in S THEN Append(s, x) ELSE s

(* The elements of s that are in S, in their order. *)
ElementsIn(s, S) ==
    LET keep(kept, x) == KeepIn(kept, S, x)
    IN  FoldLeft(keep, <<>>, s)

=============================================================================
