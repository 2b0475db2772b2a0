---------------------------- MODULE MCX402Gate ------------------------------
(* Instances of X402Gate for TLC; the values of the constants are in the   *)
(* configurations.                                                         *)
EXTENDS X402Gate, TLC

AnyGate == Permutations(Gates)

=============================================================================
