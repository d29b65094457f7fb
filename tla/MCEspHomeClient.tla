-------------------------- MODULE MCEspHomeClient --------------------------
(* Model checking EspHomeClient: connections are interchangeable. *)
EXTENDS EspHomeClient, TLC

Symmetry == Permutations(Conns)
=============================================================================
