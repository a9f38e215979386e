---------------------------- MODULE MCRoundEngine ----------------------------
(* Model-checking instance of RoundEngine: the constants are given values  *)
(* in the .cfg files; the symmetry of the honest parties is not used, as   *)
(* Update walks the slices in index order.                                  *)
EXTENDS RoundEngine
=============================================================================
