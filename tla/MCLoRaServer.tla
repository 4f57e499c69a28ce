---------------------------- MODULE MCLoRaServer ----------------------------
(***************************************************************************)
(* Instances of LoRaServer for TLC.                                        *)
(***************************************************************************)
EXTENDS LoRaServer, TLC

Plain     == [conf |-> FALSE, data |-> TRUE]
Confirmed == [conf |-> TRUE, data |-> TRUE]
Empty     == [conf |-> FALSE, data |-> FALSE]

OnlyPlain     == {Plain}
OnlyEmpty     == {Empty}
OnlyConfirmed == {Confirmed}

\* Copies, joins and requests are interchangeable in the safety runs.
Symmetry == Permutations(Copies) \cup Permutations(Joins) \cup Permutations(Requests)

=============================================================================
