----------------------------- MODULE MCNetwork -----------------------------
(***************************************************************************)
(* Network for TLC.                                                        *)
(***************************************************************************)
EXTENDS Network, TLC

Symmetry == Permutations(Session)

=============================================================================
