------------------------- MODULE MCEffectCoordinator -------------------------
(* Two drivers; two effects for the safety properties, one where leases    *)
(* expire under a live holder and for liveness.                            *)
EXTENDS EffectCoordinator, TLC

Interchangeable == Permutations(Drivers) \cup Permutations(Effects)
=============================================================================
