---------------------------- MODULE MCMqttBroker ----------------------------
(***************************************************************************)
(* Instances of MqttBroker for TLC.                                        *)
(***************************************************************************)
EXTENDS MqttBroker

CONSTANTS p1, s1, s2, b1, pub, sub, own, f1, f2, t1

\* A publisher, and a subscriber that connects twice.
OfTwo == (p1 :> pub) @@ (s1 :> sub) @@ (s2 :> sub)
\* A publisher, a subscriber and the broker's own client.
OfThree == (p1 :> pub) @@ (s1 :> sub) @@ (b1 :> own)
TwoFilters == t1 :> {f1, f2}
OneFilter == t1 :> {f1}

=============================================================================
