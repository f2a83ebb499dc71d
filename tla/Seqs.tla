------------------------------- MODULE Seqs --------------------------------
(* The two operators of the community module SequencesExt that specifications
   with proofs use.  They have its names and meaning; the module itself brings
   more than a hundred definitions into the context of every proof step. *)
EXTENDS Integers, Sequences, FiniteSets, Functions

(* The sequence s without its i-th element *)
RemoveAt(s, i) == SubSeq(s, 1, i - 1) \o SubSeq(s, i + 1, Len(s))

(* The elements of the finite set S in some order, the same every time *)
SetToSeq(S) == CHOOSE f \in [1..Cardinality(S) -> S] : IsInjective(f)
=============================================================================
