------------------------------ MODULE MCBridge ------------------------------
(* Bridge for TLC: services are interchangeable model values.              *)
EXTENDS Bridge, TLC

Symmetry == Permutations(Service)

=============================================================================
