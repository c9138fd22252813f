----------------------------- MODULE MCHistory -----------------------------
(***************************************************************************)
(* History on small instances.  The files MCHistory*.cfg choose the peers, *)
(* the cap, the batch sizes and the failures.                              *)
(***************************************************************************)
EXTENDS History, TLC

\* Peers are interchangeable: no definition tells one from another.
Symmetry == Permutations(Peers)
=============================================================================
