--------------------------- MODULE MCGatewayConfig ---------------------------
(***************************************************************************)
(* Instances of GatewayConfig for TLC.                                     *)
(***************************************************************************)
EXTENDS GatewayConfig, TLC

\* Requests of one kind, gateways and answers are interchangeable.
Symmetry == Permutations(Reads) \cup Permutations(Updates)
            \cup Permutations(Gateways) \cup Permutations(Answers)

=============================================================================
