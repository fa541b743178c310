---------------------------- MODULE MCIntercept ----------------------------
(* Instances of Intercept for TLC. *)
EXTENDS Intercept, TLC

CONSTANTS k1, k2, c1, c2

(* Callers run the same code and keys are only compared: exchanging two of *)
(* them changes no behaviour.                                              *)
KeySymmetry == Permutations(Callers) \cup Permutations(Keys)
=============================================================================
