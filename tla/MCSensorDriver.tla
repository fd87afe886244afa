--------------------------- MODULE MCSensorDriver ---------------------------
(***************************************************************************)
(* The instance of SensorDriver for TLC.                                   *)
(***************************************************************************)
EXTENDS SensorDriver

\* A reading whose pulses have the given lengths in turn.
Sent(h, t, lows, zeros, ones) ==
    [humidity |-> h, temperature |-> t,
     low |-> [k \in 1..(MessageBits + 1) |-> lows[1 + (k % Len(lows))]],
     zero |-> [k \in 1..MessageBits |-> zeros[1 + (k % Len(zeros))]],
     one |-> [k \in 1..MessageBits |-> ones[1 + (k % Len(ones))]]]

\* Mixed bits and a negative temperature with pulses at the limits of what is accepted,
\* a positive temperature with the pulses of the datasheet, and the same with a 1 of 58
\* microseconds, which line 154 allows and the program refuses.
MCReadings ==
    {Sent(5, 9, <<36, 50, 74>>, <<12, 39>>, <<61, 84>>),
     Sent(3, 6, <<50>>, <<26>>, <<70>>),
     Sent(3, 6, <<50>>, <<26>>, <<70, 70, 58>>)}

\* A zero and a one.
MCOddPulses == {26, 70}

\* The middle of most pulses, and a gap that looks like a zero in 16 bits.
MCNoiseAt == {20, 65562}

=============================================================================
