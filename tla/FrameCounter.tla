---------------------------- MODULE FrameCounter ----------------------------
(***************************************************************************)
(* LoRaWAN frames carry the low 16 bits of a 32-bit uplink counter.        *)
(* payload_decode (devices_manager/src/service/lorawan_node.rs) guesses    *)
(* the full counter from the counter kept for the device and the 16 bits   *)
(* received, and lets the MIC decide whether the guess was right.          *)
(***************************************************************************)
EXTENDS Integers

CONSTANT Modulus      \* number of values of the transmitted counter: 2^16 in the code

ASSUME ModulusAssumption ==
    /\ Modulus \in Nat \ {0}
    /\ \E h \in 1 .. Modulus : Modulus = 2 * h

\* 1 << 15: a forward distance below it is taken for progress of the device.
Half == Modulus \div 2

\* The counters are u32 values.
CounterSpace == Modulus * Modulus

\* `as u16`: what a frame with counter n transmits.
Low(n) == n % Modulus

\* u16::wrapping_sub
Forward(from, to) == (to - from) % Modulus

\* Mutant of Reconstruct: the received bits replace the low bits, no carry.
ReconstructNoCarry(kept, c) == kept - Low(kept) + c

\* The counter tried first for the received bits c, given the kept counter.
Reconstruct(kept, c) ==
    LET diff == Forward(Low(kept), c)
    IN  IF diff < Half
        THEN (kept + diff) % CounterSpace
        ELSE (kept + Modulus + diff) % CounterSpace

\* Mutant of Repetition: the check is left out.
RepetitionNever(kept, c) == FALSE

\* decode_node_payload: the frame is taken for a repetition of the last one.
\* Counters 0 and 1 are exempt.
Repetition(kept, c) ==
    /\ Low(kept) = c
    /\ ~(c = 0 \/ Low(kept) = 1)

=============================================================================
