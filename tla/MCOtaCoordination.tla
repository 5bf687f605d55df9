------------------------- MODULE MCOtaCoordination --------------------------
(***************************************************************************)
(* OtaCoordination for TLC.                                                *)
(***************************************************************************)
EXTENDS OtaCoordination, TLC

\* No id means more than another.
IdSymmetry == Permutations(Ids)
=============================================================================
