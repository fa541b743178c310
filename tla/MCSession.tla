------------------------------ MODULE MCSession ------------------------------
(***************************************************************************)
(* Session for TLC: contexts that the store starts out with alike, and     *)
(* callers that do the same things, are interchangeable.                   *)
(***************************************************************************)
EXTENDS Session, TLC

Symmetry == Permutations(Contexts) \cup Permutations(Callers)
=============================================================================
