---------------------------- MODULE MCActorRuntime ----------------------------
(* ActorProperties on instances for TLC.                                   *)
EXTENDS ActorProperties, TLC

Symmetry == Permutations(Workers) \cup Permutations(Messages)
=============================================================================
