--------------------------- MODULE MCSourceCenter ---------------------------
(***************************************************************************)
(* Symmetry for the runs of SourceCenter that check no liveness and whose  *)
(* providers are alike.                                                    *)
(***************************************************************************)
EXTENDS SourceCenter, TLC

\* Where every provider belongs to the same of the constants' sets they are
\* interchangeable.
SourceSymmetry == Permutations(Sources)

=============================================================================
