-------------------------- MODULE MCModelRegistry --------------------------
(* Instances of ModelRegistry for TLC. *)
EXTENDS ModelRegistry, TLC

\* Clients, providers and metadata are only compared: permuting them is sound.
Symmetry == Permutations(Clients) \cup Permutations(Infos) \cup Permutations(Providers)

=============================================================================
