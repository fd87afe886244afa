---------------------------- MODULE SensorDriver ----------------------------
(***************************************************************************)
(* arduino_avr/RHT03_DHT22_humidity_temp_sensor.c: loop() asks the sensor  *)
(* for a reading with a low pulse; the sensor answers with a train of      *)
(* pulses whose lengths carry the bits.  The interrupt handler             *)
(* sensorLineChange() records when the line changes, while the main        *)
(* program waits; afterwards analyseTimings() decodes the record.          *)
(*                                                                         *)
(* Time is in the lengths of pulses, in microseconds.  The sensor, the     *)
(* line and the interrupt controller are external.  A byte has ByteBits    *)
(* bits instead of 8, which scales the 86 line changes of a reading and    *)
(* the 88 elements of timings down with it.                                *)
(***************************************************************************)
EXTENDS Integers, Sequences

CONSTANTS
    ByteBits,   \* bits in a byte: 8 in the program
    Readings,   \* the readings the sensor may send: the words and the lengths of the pulses
    OddPulses,  \* lengths that a pulse may have instead of the right one
    NoiseAt,    \* how long after the last change a disturbance may come
    MaxFaults   \* bound on what goes wrong on the line

WordBits == 2 * ByteBits
MessageBits == 5 * ByteBits
Expected == 6 + 10 * ByteBits   \* the line changes of a complete reading: 86
Slots == 0..(Expected + 1)      \* the indexes of timings: 0..87

\* The powers of two that the widths of a byte and a word call for.
PowerOfTwo[n \in 0..WordBits] == IF n = 0 THEN 1 ELSE 2 * PowerOfTwo[n - 1]

\* low, zero and one: for each bit, the length of the pulse in front of it and what it
\* takes when it is a 0 or a 1.  The ranges are those which the comments of lines 154,
\* 204 and 218 have seen or call for: wider than the datasheet's, and wider than what
\* checkPreBitLowPulse() and shiftNextBit() accept.
ASSUME SensorAssumption ==
    /\ ByteBits \in Nat \ {0} /\ MaxFaults \in Nat /\ OddPulses \cup NoiseAt \subseteq Nat
    /\ Readings \subseteq [humidity : 0..(PowerOfTwo[WordBits - 1] - 1),
                     temperature : 0..(PowerOfTwo[WordBits] - 1),
                     low : [1..(MessageBits + 1) -> 35..75],
                     zero : [1..MessageBits -> 12..40],
                     one : [1..MessageBits -> 55..85]]

VARIABLES
    pc,                 \* where the main program is
    errorFlag,
    printed,            \* what loop() prints: <<humidity, temperature>>, or <<>>
    attached,           \* the interrupt is enabled
    intf,               \* the controller's flag: a change that was not served
    since,              \* microseconds from lastTransitionMicros to the last change
    signalLineChanges,
    timings,
    overrun,            \* something behind the end of timings was written
    wire,               \* the pulses the sensor has still to send
    answer,             \* the set of the reading it was asked for, if any
    disturbed,          \* the faults that the reading under way has met, leftover with them
    leftover,           \* the changes from before it that the interrupt was attached with
    faults              \* what has gone wrong on the line so far

main == <<pc, errorFlag, printed>>
record == <<since, signalLineChanges, timings, overrun>>
sensor == <<wire, answer>>
vars == <<main, attached, intf, record, sensor, disturbed, leftover, faults>>

States == {"loop", "request", "low", "high", "collect", "check", "analyse", "delay"}
HalfInt == 32768
Ints == (-HalfInt)..(HalfInt - 1)

-----------------------------------------------------------------------------
(* The sensor's side: what is on the wire.                                 *)

\* The i-th of the n bits of v, the most significant first.
BitOf(v, n, i) == (v \div PowerOfTwo[n - i]) % 2

HighByte(v) == v \div PowerOfTwo[ByteBits]
LowByte(v) == v % PowerOfTwo[ByteBits]

\* The four bytes added up in a byte.
Sum(h, t) == (HighByte(h) + LowByte(h) + HighByte(t) + LowByte(t)) % PowerOfTwo[ByteBits]

\* The k-th bit of the message.
MessageBit(r, k) ==
    IF k <= WordBits THEN BitOf(r.humidity, WordBits, k)
    ELSE IF k <= 2 * WordBits THEN BitOf(r.temperature, WordBits, k - WordBits)
    ELSE BitOf(Sum(r.humidity, r.temperature), ByteBits, k - 2 * WordBits)

\* After the request the line stays high for a moment; then low and high to
\* acknowledge, low and high for each bit, and a last low.
Pulses(r) ==
    [j \in 1..(Expected - 2) |->
        IF j = 1 THEN 30
        ELSE IF j <= 3 THEN 80
        ELSE IF j % 2 = 0 THEN r.low[(j - 2) \div 2]
        ELSE IF MessageBit(r, (j - 3) \div 2) = 1 THEN r.one[(j - 3) \div 2]
        ELSE r.zero[(j - 3) \div 2]]

\* What the words mean: the temperature is a sign and a magnitude.
Meaning(r) ==
    <<r.humidity,
      IF r.temperature < PowerOfTwo[WordBits - 1] THEN r.temperature
      ELSE PowerOfTwo[WordBits - 1] - r.temperature>>

Init ==
    /\ pc = "loop" /\ errorFlag = FALSE /\ printed = <<>>
    /\ attached = FALSE /\ intf = FALSE /\ since = 0
    /\ signalLineChanges = 0 /\ timings = [i \in Slots |-> 0] /\ overrun = FALSE
    /\ wire = <<>> /\ answer = {} /\ disturbed = 0 /\ leftover = 0 /\ faults = 0

-----------------------------------------------------------------------------
(* The interrupt.                                                          *)

\* A long assigned to an int of 16 bits.
ToInt(us) == ((us + HalfInt) % (2 * HalfInt)) - HalfInt

\* sensorLineChange(), once for each of the changes that end pulses of lengths
\* ds.  The first also covers what has passed since the last one it has seen.
sensorLineChange(ds) ==
    /\ timings' = [i \in Slots |->
                     LET k == i - signalLineChanges + 1
                     IN  IF k \notin DOMAIN ds THEN timings[i]
                         ELSE ToInt(ds[k] + (IF k = 1 THEN since ELSE 0))]
    /\ signalLineChanges' = signalLineChanges + Len(ds)
    /\ overrun' = (overrun \/ signalLineChanges + Len(ds) - 1 \notin Slots)
    /\ since' = 0

\* The line changes.  The controller notes it even if nobody is attached.
LineChanges(ds) ==
    IF attached THEN sensorLineChange(ds) /\ intf' = FALSE
    ELSE intf' = TRUE /\ UNCHANGED record

\* The next pulse of the sensor ends.
SensorChange ==
    /\ wire # <<>>
    /\ LineChanges(<<Head(wire)>>)
    /\ wire' = Tail(wire)
    /\ UNCHANGED <<main, attached, answer, disturbed, leftover, faults>>

Fault ==
    /\ faults < MaxFaults
    /\ faults' = faults + 1
    /\ disturbed' = disturbed + 1 /\ UNCHANGED leftover

\* The next pulse is too long or too short, or is measured so.
OddChange(us) ==
    /\ wire # <<>> /\ us # Head(wire)
    /\ Fault
    /\ LineChanges(<<us>>)
    /\ wire' = Tail(wire)
    /\ UNCHANGED <<main, attached, answer>>

\* Interrupts are off for so long that the handler runs once for this change
\* and the next.
MissedChange ==
    /\ wire # <<>> /\ attached
    /\ Fault
    /\ since' = since + Head(wire) /\ intf' = TRUE
    /\ wire' = Tail(wire)
    /\ UNCHANGED <<main, attached, signalLineChanges, timings, overrun, answer>>

\* ... or for this change after all, when no other follows.
LateChange ==
    /\ wire = <<>> /\ attached /\ intf
    /\ LineChanges(<<0>>)
    /\ UNCHANGED <<main, attached, sensor, disturbed, leftover, faults>>

\* A disturbance on the line for a microsecond, in the middle of a pulse or
\* later: two changes, which the handler sees as two or as one.
Noise(us) ==
    /\ Fault
    /\ \E ds \in {<<us, 1>>, <<us>>} : LineChanges(ds)
    /\ \/ wire = <<>> /\ UNCHANGED wire
       \/ wire # <<>> /\ us < Head(wire) /\ wire' = [wire EXCEPT ![1] = @ - us]
    /\ UNCHANGED <<main, attached, answer>>

\* The sensor does not answer, or stops in the middle.
SensorStops ==
    /\ wire # <<>>
    /\ Fault
    /\ wire' = <<>>
    /\ UNCHANGED <<main, attached, intf, record, answer>>

-----------------------------------------------------------------------------
(* The main program.                                                       *)

\* flagError(): loop() prints nothing, whatever comes after.  The pin is
\* already an input with its pull-up on when it is called.
flagError(state) == pc' = state /\ errorFlag' = TRUE /\ UNCHANGED printed

\* initState(), and attachInterrupt() after it: a change that the controller has
\* noted before is served at once.
Cleared == [i \in Slots |-> IF i < Expected THEN 0 ELSE timings[i]]
FirstChange == IF intf THEN 1 ELSE 0

MutKeepError ==
    timings' = Cleared /\ since' = 0 /\ signalLineChanges' = FirstChange /\ UNCHANGED errorFlag
MutKeepCount ==
    timings' = Cleared /\ since' = 0 /\ errorFlag' = FALSE /\ UNCHANGED signalLineChanges
initState ==
    timings' = Cleared /\ since' = 0 /\ errorFlag' = FALSE /\ signalLineChanges' = FirstChange

\* loop() calls readSensor().
readSensor ==
    /\ pc = "loop" /\ pc' = "request"
    /\ initState
    /\ attached' = TRUE /\ intf' = FALSE
    /\ disturbed' = FirstChange /\ leftover' = FirstChange
    /\ UNCHANGED <<printed, overrun, sensor, faults>>

\* requestSensorRead(): the line is held low by something.  readSensor()
\* leaves the interrupt attached when the request fails.
LineNotHigh ==
    /\ pc = "request"
    /\ Fault
    /\ flagError("delay")
    /\ UNCHANGED <<attached, intf, record, sensor>>

\* Otherwise the line is pulsed low for 7ms, and the sensor starts to answer.
requestSensorRead ==
    /\ pc = "request"
    /\ pc' = "low" /\ UNCHANGED <<errorFlag, printed>>
    /\ sensorLineChange(<<10, 7000>>)
    /\ \E r \in Readings : answer' = {r} /\ wire' = Pulses(r)
    /\ UNCHANGED <<attached, intf, disturbed, leftover, faults>>

\* pulseIn() returns 0 when it sees no complete pulse in 200 microseconds.  It
\* has seen one only if the sensor has sent n pulses.
pulseIn(state, n, next) ==
    /\ pc = state
    /\ \/ /\ Len(wire) <= Expected - 2 - n
          /\ pc' = next /\ UNCHANGED <<errorFlag, printed>>
       \/ flagError("delay")
    /\ UNCHANGED <<attached, intf, record, sensor, disturbed, leftover, faults>>

AckLow == pulseIn("low", 2, "high")
AckHigh == pulseIn("high", 5, "collect")

\* The sensor takes 5ms.  The loop looks at the count every 100ms, until it is
\* complete or a second has passed; then the interrupt is detached.
MutNoTimeout == signalLineChanges >= Expected /\ attached' = FALSE
StopCollecting == attached' = FALSE

Collect ==
    /\ pc = "collect" /\ wire = <<>>
    /\ StopCollecting
    /\ pc' = "check"
    /\ UNCHANGED <<errorFlag, printed, intf, record, sensor, disturbed, leftover, faults>>

Check ==
    /\ pc = "check"
    /\ IF signalLineChanges # Expected THEN flagError("delay")
       ELSE pc' = "analyse" /\ UNCHANGED <<errorFlag, printed>>
    /\ UNCHANGED <<attached, intf, record, sensor, disturbed, leftover, faults>>

\* checkPreBitLowPulse() and shiftNextBit(): which pulses are accepted.
LowPulse(us) == us > 35 /\ us < 75
ZeroPulse(us) == us > 10 /\ us < 40
OnePulse(us) == us > 60 /\ us < 85

\* readnbits(): a bad pulse sets errorFlag and the result is not used.
BitsOK(idx, n) ==
    \A k \in 0..(n - 1) :
        /\ LowPulse(timings[idx + 2 * k])
        /\ ZeroPulse(timings[idx + 2 * k + 1]) \/ OnePulse(timings[idx + 2 * k + 1])

readnbits(idx, n) ==
    LET result[k \in 0..n] ==
            IF k = 0 THEN 0
            ELSE 2 * result[k - 1] + (IF ZeroPulse(timings[idx + 2 * k - 1]) THEN 0 ELSE 1)
    IN  result[n]

\* analyseTimings() starts with the sixth pulse.  A humidity with its top bit set,
\* which no sensor sends and the checksum lets pass only after two faults, would be
\* negative in an int of 16 bits.
humid16 == readnbits(5, WordBits)
temp16 == readnbits(5 + 2 * WordBits, WordBits)
checksum8 == readnbits(5 + 4 * WordBits, ByteBits)
AllBitsOK == BitsOK(5, 2 * WordBits + ByteBits)

MutChecksumOK == TRUE
ChecksumOK == Sum(humid16, temp16) = checksum8

\* A set bit 16 means minus.
Signed(t) == IF BitOf(t, WordBits, 1) = 1 THEN -(t - PowerOfTwo[WordBits - 1]) ELSE t

analyseTimings ==
    /\ pc = "analyse"
    /\ IF AllBitsOK /\ ChecksumOK
       THEN /\ pc' = "delay" /\ UNCHANGED errorFlag
            /\ printed' = (IF errorFlag THEN <<>> ELSE <<humid16, Signed(temp16)>>)
       ELSE flagError("delay")
    /\ UNCHANGED <<attached, intf, record, sensor, disturbed, leftover, faults>>

\* loop() sleeps for five seconds: the sensor is silent when it is called again.
Delay ==
    /\ pc = "delay" /\ wire = <<>>
    /\ pc' = "loop" /\ printed' = <<>> /\ answer' = {} /\ UNCHANGED errorFlag
    /\ UNCHANGED <<attached, intf, record, wire, disturbed, leftover, faults>>

Program ==
    \/ readSensor \/ requestSensorRead \/ AckLow \/ AckHigh
    \/ Collect \/ Check \/ analyseTimings \/ Delay

Next ==
    \/ Program \/ LineNotHigh
    \/ SensorChange \/ MissedChange \/ LateChange \/ SensorStops
    \/ \E us \in OddPulses : OddChange(us)
    \/ \E us \in NoiseAt : Noise(us)

Spec == Init /\ [][Next]_vars

\* The program and the sensor go on; nothing has to go wrong.
FairSpec == Spec /\ WF_vars(Program) /\ WF_vars(SensorChange)

-----------------------------------------------------------------------------
(* Properties.                                                             *)

\* The state is in its types; a recorded time fits an int of 16 bits.
TypeOK ==
    /\ pc \in States /\ {errorFlag, attached, intf, overrun} \subseteq BOOLEAN
    /\ Len(printed) \in {0, 2}
    /\ since \in Nat /\ signalLineChanges \in Nat
    /\ timings \in [Slots -> Ints]
    /\ wire \in Seq(Nat) /\ answer \in SUBSET Readings
    /\ faults \in 0..MaxFaults /\ disturbed \in 0..(MaxFaults + 1) /\ leftover \in {0, 1}

\* Whatever one thing was missed, added, bent or cut off on the line, in this reading or
\* left over from an earlier one, loop() prints what the sensor has sent in answer
\* to this request, or nothing: no misread of readnbits() gets past the count of
\* changes, the pulse lengths and the checksum.
PrintedIsAnswer == printed # <<>> /\ disturbed <= 1 => printed \in {Meaning(r) : r \in answer}

\* The pulses that carry the bits of a reading pass checkPreBitLowPulse() and shiftNextBit().
Accepted(r) ==
    \A k \in 1..MessageBits :
        /\ LowPulse(r.low[k])
        /\ IF MessageBit(r, k) = 1 THEN OnePulse(r.one[k]) ELSE ZeroPulse(r.zero[k])

\* A reading that nothing disturbs is printed if and only if the sensor's pulses are
\* accepted, whatever happened to the readings before it.  Two things keep a sound
\* reading from being printed.  The limits of lines 205 to 220 are tighter than the
\* comments: a 1 of 55 to 60 or of 85 microseconds, a 0 of 40, a low pulse of 35 or 75
\* are refused, all of which lines 154, 204 and 218 count as good.  And initState() clears
\* the record but not the controller's flag: a change from before the interrupt is
\* attached is counted with this reading, which then always fails.  (The request may
\* still fail: then the program never gets to the collecting loop.)
CleanIsPrinted ==
    [][(pc \in {"check", "analyse"} /\ pc' = "delay") =>
          /\ disturbed = 0 => (printed' # <<>> <=> \A r \in answer : Accepted(r))
          /\ disturbed = 1 /\ leftover = 1 => printed' = <<>>]_vars

\* sensorLineChange() does not check its index: timings has two spare elements,
\* enough for one disturbance and for every reading after a failed one, during
\* which the interrupt stays attached.
RoomForOneFault == overrun => faults >= 2

\* readSensor() detaches the interrupt before it looks at the count: what it
\* checks is what it decodes.
DecodeIsStable == [][(pc \in {"check", "analyse"}) => (UNCHANGED record)]_vars

\* Every call of readSensor() returns, also when the sensor is silent.
ReadingsGoOn == []<>(pc = "loop")

=============================================================================
