---------------------------- MODULE MCViewDaemon ----------------------------
(* Instances of ViewDaemon small enough for TLC. *)
EXTENDS ViewDaemon, TLC

Symmetry == Permutations(Runs) \union Permutations(Daemons)
=============================================================================
