--------------------------- MODULE MCDecompositions ---------------------------
(***************************************************************************)
(* Instances of Decompositions.  The algorithms treat all attributes       *)
(* alike.                                                                  *)
(***************************************************************************)
EXTENDS Decompositions, TLC

Symmetry == Permutations(Attr)
=============================================================================
