-------------------------- MODULE MCIngressOutcome --------------------------
(***************************************************************************)
(* Small instances of IngressOutcome for TLC.                              *)
(***************************************************************************)
EXTENDS IngressRefinement, TLC

IngressSymmetry == Permutations(Workers) \cup Permutations(Envelopes)
=============================================================================
