------------------------- MODULE SensorDriverProofs -------------------------
(***************************************************************************)
(* Proofs about SensorDriver, for every width of a byte, every set of      *)
(* readings and disturbances and every number of faults: first how much is *)
(* recorded, then what numbers made of bits are, what the decoder makes of *)
(* a record with one wrong pulse, and at last the course that a reading    *)
(* takes with one fault at most.                                           *)
(***************************************************************************)
EXTENDS SensorDriver, TLAPS, WellFoundedInduction

\* The part of the types that the argument needs.
Types ==
    /\ wire \in Seq(Nat) /\ signalLineChanges \in Nat
    /\ disturbed \in Nat /\ faults \in Nat

\* The sensor is silent outside a reading, and once the interrupt is detached.
Silent ==
    /\ pc \in {"loop", "request", "check", "analyse"} \/ ~ attached => wire = <<>>
    /\ pc \in {"check", "analyse"} => ~ attached
    /\ pc = "request" => attached /\ ~ intf

\* A change that waits to be served is a fault, and the reading under way has
\* met at most the faults there were.
FaultsCount == disturbed <= faults /\ (intf => faults >= 1)

\* A change that was missed, and may still be served.
Waiting == IF attached /\ intf THEN 1 ELSE 0

\* Each fault adds two changes at most to those of the reading.
Budget ==
    IF pc = "request" THEN signalLineChanges <= (disturbed + disturbed)
    ELSE signalLineChanges + Len(wire) + Waiting <= Expected + (disturbed + disturbed)

IInv == Types /\ Silent /\ FaultsCount /\ Budget /\ RoomForOneFault

-----------------------------------------------------------------------------
\* The count of the changes of a reading is a positive number.
LEMMA ExpectedPositive == Expected \in Nat /\ Expected >= 16
<1>1. ByteBits \in Nat \ {0}
  BY SensorAssumption
<1> QED
  BY <1>1 DEF Expected

\* A disturbance comes after some microseconds, and an odd pulse has a length.
LEMMA OddAreLengths == OddPulses \subseteq Nat /\ NoiseAt \subseteq Nat
BY SensorAssumption, Zenon

\* The bound on the faults is a number.
LEMMA SensorBound == MaxFaults \in Nat
BY SensorAssumption, Zenon

\* The lengths of the sensor's pulses, as the comments have them.
LEMMA PulseLengths ==
    ASSUME NEW r \in Readings
    PROVE  /\ \A k \in 1..(MessageBits + 1) : r.low[k] \in 35..75
           /\ \A k \in 1..MessageBits : r.zero[k] \in 12..40 /\ r.one[k] \in 55..85
<1>1. r \in [humidity : 0..(PowerOfTwo[WordBits - 1] - 1),
            temperature : 0..(PowerOfTwo[WordBits] - 1),
            low : [1..(MessageBits + 1) -> 35..75],
            zero : [1..MessageBits -> 12..40],
            one : [1..MessageBits -> 55..85]]
  BY SensorAssumption, Zenon
<1>2. /\ r.low \in [1..(MessageBits + 1) -> 35..75]
      /\ r.zero \in [1..MessageBits -> 12..40] /\ r.one \in [1..MessageBits -> 55..85]
  BY <1>1
<1> QED
  BY <1>2

\* Where they are on the wire.
LEMMA PulseKinds ==
    ASSUME NEW r \in Readings, NEW j \in 1..(Expected - 2)
    PROVE  \/ j <= 3 /\ Pulses(r)[j] \in {30, 80}
           \/ \E k \in 1..(MessageBits + 1) : j = 2 + 2 * k /\ Pulses(r)[j] = r.low[k]
           \/ \E k \in 1..MessageBits :
                 /\ j = 3 + 2 * k
                 /\ Pulses(r)[j] = IF MessageBit(r, k) = 1 THEN r.one[k] ELSE r.zero[k]
<1> DEFINE v(i) == IF i = 1 THEN 30
                   ELSE IF i <= 3 THEN 80
                   ELSE IF i % 2 = 0 THEN r.low[(i - 2) \div 2]
                   ELSE IF MessageBit(r, (i - 3) \div 2) = 1 THEN r.one[(i - 3) \div 2]
                   ELSE r.zero[(i - 3) \div 2]
<1>1. Pulses(r)[j] = v(j)
  <2> HIDE DEF v
  <2>1. Pulses(r) = [i \in 1..(Expected - 2) |-> v(i)]
    BY Zenon DEF Pulses, v
  <2> QED
    BY <2>1
<1>2. MessageBits \in Nat /\ Expected - 2 = 4 + 2 * MessageBits
  BY SensorAssumption DEF Expected, MessageBits
<1>3. CASE j <= 3
  BY <1>1, <1>3
<1>4. CASE j > 3 /\ j % 2 = 0
  <2> DEFINE k == (j - 2) \div 2
  <2>1. k \in 1..(MessageBits + 1) /\ j = 2 + 2 * k
    BY <1>2, <1>4
  <2>2. v(j) = r.low[k]
    BY <1>4
  <2> HIDE DEF k, v
  <2> QED
    BY <1>1, <2>1, <2>2
<1>5. CASE j > 3 /\ j % 2 # 0
  <2> DEFINE k == (j - 3) \div 2
  <2>1. k \in 1..MessageBits /\ j = 3 + 2 * k
    BY <1>2, <1>5
  <2> DEFINE u(i) == IF MessageBit(r, i) = 1 THEN r.one[i] ELSE r.zero[i]
  <2>2. v(j) = u(k)
    <3>1. j # 1 /\ ~ (j <= 3)
      BY <1>5
    <3> QED
      BY <1>5, <3>1, Zenon
  <2> HIDE DEF k, v, u
  <2>3. \E i \in 1..MessageBits : j = 3 + 2 * i /\ Pulses(r)[j] = u(i)
    BY <1>1, <2>1, <2>2, Zenon
  <2> USE DEF u
  <2> QED
    BY <2>3, Zenon
<1> QED
  BY <1>3, <1>4, <1>5

\* All of them are short.
LEMMA PulsesShort ==
    ASSUME NEW r \in Readings, NEW j \in 1..(Expected - 2)
    PROVE  Pulses(r)[j] \in 12..85
<1>1. MessageBits \in Nat
  BY SensorAssumption DEF MessageBits
<1>2. CASE j <= 3 /\ Pulses(r)[j] \in {30, 80}
  BY <1>2
<1>3. CASE \E k \in 1..(MessageBits + 1) : j = 2 + 2 * k /\ Pulses(r)[j] = r.low[k]
  BY <1>3, PulseLengths
<1>4. CASE \E k \in 1..MessageBits :
              /\ j = 3 + 2 * k
              /\ Pulses(r)[j] = IF MessageBit(r, k) = 1 THEN r.one[k] ELSE r.zero[k]
  <2>1. PICK k \in 1..MessageBits :
           Pulses(r)[j] = IF MessageBit(r, k) = 1 THEN r.one[k] ELSE r.zero[k]
    BY <1>4
  <2>2. Pulses(r)[j] = r.one[k] \/ Pulses(r)[j] = r.zero[k]
    BY <2>1, Zenon
  <2> QED
    BY <2>2, PulseLengths
<1> QED
  BY <1>2, <1>3, <1>4, PulseKinds, Zenon

\* The sensor's answer has two changes less than a reading: the first two are
\* those of the request.
LEMMA PulsesLen ==
    ASSUME NEW r \in Readings
    PROVE  Pulses(r) \in Seq(Nat) /\ Len(Pulses(r)) = Expected - 2
<1> DEFINE n == Expected - 2
<1>1. n \in Nat
  BY ExpectedPositive
<1>2. \A j \in 1..n : Pulses(r)[j] \in Nat
  BY PulsesShort
<1>3. Pulses(r) \in [1..n -> Nat]
  <2>1. DOMAIN Pulses(r) = 1..n /\ Pulses(r) = [j \in 1..n |-> Pulses(r)[j]]
    BY DEF Pulses
  <2> QED
    BY <2>1, <1>2
<1> QED
  BY <1>1, <1>3

\* What sensorLineChange() does to the count and to overrun.
LEMMA Recorded ==
    ASSUME NEW ds \in Seq(Nat), Len(ds) >= 1, signalLineChanges \in Nat,
           sensorLineChange(ds)
    PROVE  /\ signalLineChanges' = signalLineChanges + Len(ds)
           /\ overrun' => overrun \/ signalLineChanges' > Expected + 2
<1>1. overrun' => overrun \/ signalLineChanges + Len(ds) - 1 \notin Slots
  BY Zenon DEF sensorLineChange
<1>2. signalLineChanges' = signalLineChanges + Len(ds) /\ Len(ds) \in Nat
  BY DEF sensorLineChange
<1>3. signalLineChanges + Len(ds) - 1 \notin Slots => signalLineChanges' > Expected + 2
  BY <1>2, ExpectedPositive DEF Slots
<1> QED
  BY <1>1, <1>2, <1>3

\* Two changes at once, as those of the request.
LEMMA TwoRecorded ==
    ASSUME NEW d \in Nat, NEW e \in Nat, signalLineChanges \in Nat, sensorLineChange(<<d, e>>)
    PROVE  /\ signalLineChanges' = signalLineChanges + 2
           /\ overrun' => overrun \/ signalLineChanges' > Expected + 2
<1>1. <<d, e>> \in Seq(Nat) /\ Len(<<d, e>>) = 2 /\ Len(<<d, e>>) >= 1
  OBVIOUS
<1>2. PICK ds \in Seq(Nat) : Len(ds) = 2 /\ Len(ds) >= 1 /\ sensorLineChange(ds)
  BY <1>1, Zenon
<1> QED
  BY <1>2, Recorded

\* A change of the line is recorded, or noted when nobody is attached.
LEMMA LineRecorded ==
    ASSUME NEW ds \in Seq(Nat), Len(ds) >= 1, Types, LineChanges(ds)
    PROVE  /\ signalLineChanges' = signalLineChanges + (IF attached THEN Len(ds) ELSE 0)
           /\ overrun' => overrun \/ signalLineChanges' > Expected + 2
           /\ intf' => ~ attached
<1>1. CASE attached
  <2>1. sensorLineChange(ds) /\ ~ intf'
    BY <1>1 DEF LineChanges
  <2> QED
    BY <1>1, <2>1, Recorded DEF Types
<1>2. CASE ~ attached
  <2>1. signalLineChanges' = signalLineChanges /\ (overrun' => overrun)
    BY <1>2 DEF LineChanges, record
  <2> QED
    BY <1>2, <2>1 DEF Types
<1> QED
  BY <1>1, <1>2

\* Arithmetic: more than the two spare elements take more than one fault.
LEMMA TwoFaults ==
    ASSUME NEW s \in Nat, NEW d \in Nat, NEW e \in Nat, s <= e + (d + d), s > e + 2
    PROVE  d >= 2
OBVIOUS

\* Within the budget one fault never fills timings.
LEMMA RoomKept ==
    ASSUME Types, Types', FaultsCount', faults' >= faults, RoomForOneFault,
           signalLineChanges' <= Expected + (disturbed + disturbed)',
           overrun' => overrun \/ signalLineChanges' > Expected + 2
    PROVE  RoomForOneFault'
<1>1. faults \in Nat /\ faults' \in Nat /\ disturbed' \in Nat /\ signalLineChanges' \in Nat
  BY DEF Types
<1>2. signalLineChanges' > Expected + 2 => disturbed' >= 2
  BY <1>1, ExpectedPositive, TwoFaults
<1>3. disturbed' <= faults'
  BY DEF FaultsCount
<1> QED
  BY <1>1, <1>2, <1>3 DEF RoomForOneFault

-----------------------------------------------------------------------------
\* The invariant holds at the start.
LEMMA InitIInv == Init => IInv
BY ExpectedPositive DEF Init, IInv, Types, Silent, FaultsCount, Waiting, Budget, RoomForOneFault

\* The steps of the main program keep it.
LEMMA ProgramStep ==
    ASSUME IInv, Program \/ LineNotHigh
    PROVE  IInv'
<1> USE ExpectedPositive DEF IInv, Types, Silent, FaultsCount, Waiting, Budget
<1>1. CASE readSensor
  BY <1>1 DEF readSensor, initState, FirstChange, sensor, RoomForOneFault
<1>2. CASE requestSensorRead
  <2>1. PICK r \in Readings : wire' = Pulses(r)
    BY <1>2 DEF requestSensorRead
  <2>2. wire' \in Seq(Nat) /\ Len(wire') = Expected - 2
    BY <2>1, PulsesLen
  <2>3. /\ signalLineChanges' = signalLineChanges + 2
        /\ overrun' => overrun \/ signalLineChanges' > Expected + 2
    <3>1. signalLineChanges \in Nat /\ sensorLineChange(<<10, 7000>>)
      BY <1>2 DEF requestSensorRead
    <3> QED
      BY <3>1, TwoRecorded
  <2>4. pc = "request" /\ pc' = "low" /\ UNCHANGED <<attached, intf, disturbed, faults>>
    BY <1>2 DEF requestSensorRead
  <2>5. Types' /\ Silent' /\ FaultsCount' /\ Budget'
    BY <2>2, <2>3, <2>4
  <2>6. RoomForOneFault'
    BY <2>2, <2>3, <2>4, <2>5 DEF RoomForOneFault
  <2> QED
    BY <2>5, <2>6
<1>3. CASE AckLow \/ AckHigh
  <2>1. /\ UNCHANGED <<wire, signalLineChanges, disturbed, faults, attached, intf, overrun>>
        /\ pc \in {"low", "high"} /\ pc' \in {"high", "collect", "delay"}
    BY <1>3, Zenon DEF AckLow, AckHigh, pulseIn, flagError, record, sensor
  <2> QED
    BY <2>1 DEF RoomForOneFault
<1>4. CASE Collect
  BY <1>4 DEF Collect, StopCollecting, record, sensor, RoomForOneFault
<1>5. CASE Check
  BY <1>5 DEF Check, flagError, record, sensor, RoomForOneFault
<1>6. CASE analyseTimings
  BY <1>6 DEF analyseTimings, flagError, record, sensor, RoomForOneFault
<1>7. CASE Delay
  BY <1>7 DEF Delay, record, RoomForOneFault
<1>8. CASE LineNotHigh
  BY <1>8 DEF LineNotHigh, Fault, flagError, record, sensor, RoomForOneFault
<1> QED
  BY <1>1, <1>2, <1>3, <1>4, <1>5, <1>6, <1>7, <1>8 DEF Program

\* What a disturbance does to the count: one change or two, if anybody is attached.
LEMMA NoiseCounts ==
    ASSUME Types, NEW us \in NoiseAt, Noise(us)
    PROVE  /\ wire' \in Seq(Nat) /\ Len(wire') = Len(wire) /\ (wire = <<>> => wire' = <<>>)
           /\ overrun' => overrun \/ signalLineChanges' > Expected + 2
           /\ intf' => ~ attached
           /\ \E n \in {1, 2} : signalLineChanges' = signalLineChanges + (IF attached THEN n ELSE 0)
<1>1. us \in Nat
  BY OddAreLengths
<1>2. PICK ds \in Seq(Nat) : (Len(ds) = 1 \/ Len(ds) = 2) /\ LineChanges(ds)
  <2>1. \/ LineChanges(<<us, 1>>)
        \/ LineChanges(<<us>>)
    BY Zenon DEF Noise
  <2>2. /\ <<us, 1>> \in Seq(Nat) /\ Len(<<us, 1>>) = 2
        /\ <<us>> \in Seq(Nat) /\ Len(<<us>>) = 1
    BY <1>1
  <2> QED
    BY <2>1, <2>2, Zenon
<1>3. PICK n \in {1, 2} : Len(ds) = n
  BY <1>2, Zenon
<1>4. wire' \in Seq(Nat) /\ Len(wire') = Len(wire) /\ (wire = <<>> => wire' = <<>>)
  <2>1. CASE wire = <<>> /\ UNCHANGED wire
    BY <2>1 DEF Types
  <2>2. CASE wire # <<>> /\ us < Head(wire) /\ wire' = [wire EXCEPT ![1] = @ - us]
    <3>1. Len(wire) \in Nat /\ 1 \in 1..Len(wire) /\ wire[1] \in Nat /\ wire[1] - us \in Nat
      BY <1>1, <2>2 DEF Types
    <3> QED
      BY <2>2, <3>1 DEF Types
  <2> QED
    BY <2>1, <2>2 DEF Noise
<1>5. /\ signalLineChanges' = signalLineChanges + (IF attached THEN n ELSE 0)
      /\ overrun' => overrun \/ signalLineChanges' > Expected + 2
      /\ intf' => ~ attached
  <2>1. Len(ds) >= 1
    BY <1>3
  <2> QED
    BY <1>2, <1>3, <2>1, LineRecorded
<1> QED
  BY <1>4, <1>5, Zenon

\* A disturbance keeps it: it is one fault and two changes at most.
LEMMA NoiseStep ==
    ASSUME IInv, NEW us \in NoiseAt, Noise(us)
    PROVE  IInv'
<1>1. /\ disturbed' = disturbed + 1 /\ faults' = faults + 1
      /\ pc' = pc /\ attached' = attached
  BY DEF Noise, Fault, main
<1>2. Types
  BY DEF IInv
<1>3. wire' \in Seq(Nat) /\ Len(wire') = Len(wire) /\ (wire = <<>> => wire' = <<>>)
  BY <1>2, NoiseCounts
<1>4. PICK n \in {1, 2} : signalLineChanges' = signalLineChanges + (IF attached THEN n ELSE 0)
  BY <1>2, NoiseCounts
<1>5. /\ signalLineChanges' = signalLineChanges + (IF attached THEN n ELSE 0)
      /\ overrun' => overrun \/ signalLineChanges' > Expected + 2
      /\ intf' => ~ attached
  BY <1>4, <1>2, NoiseCounts
<1>6. Types' /\ Silent' /\ FaultsCount'
  BY <1>4, <1>1, <1>2, <1>3, <1>5 DEF IInv, Types, Silent, FaultsCount
<1>7. Budget' /\ signalLineChanges' <= Expected + (disturbed + disturbed)'
  <2>1. Len(wire) \in Nat /\ signalLineChanges \in Nat /\ disturbed \in Nat
    BY <1>2 DEF Types
  <2>2. CASE pc = "request"
    <3>1. signalLineChanges <= disturbed + disturbed
      BY <2>2 DEF IInv, Budget
    <3>2. signalLineChanges' <= disturbed' + disturbed'
      BY <1>4, <1>1, <1>5, <2>1, <3>1
    <3>3. signalLineChanges' <= Expected + (disturbed' + disturbed')
      BY <1>4, <1>1, <1>5, <2>1, <3>1, ExpectedPositive
    <3> QED
      BY <1>1, <2>2, <3>2, <3>3 DEF Budget
  <2>3. CASE pc # "request"
    <3>1. signalLineChanges + Len(wire) <= Expected + (disturbed + disturbed)
      <4>1. signalLineChanges + Len(wire) + Waiting <= Expected + (disturbed + disturbed)
        BY <2>3 DEF IInv, Budget
      <4>2. Waiting \in {0, 1}
        BY DEF Waiting
      <4> QED
        BY <2>1, <4>1, <4>2, ExpectedPositive
    <3>2. Waiting' = 0
      BY <1>1, <1>5 DEF Waiting
    <3>3. /\ signalLineChanges' + Len(wire') + Waiting' <= Expected + (disturbed' + disturbed')
          /\ signalLineChanges' <= Expected + (disturbed' + disturbed')
      BY <1>4, <1>1, <1>3, <1>5, <2>1, <3>1, <3>2, ExpectedPositive
    <3> QED
      BY <1>1, <2>3, <3>3 DEF Budget
  <2> QED
    BY <2>2, <2>3
<1>8. RoomForOneFault'
  BY <1>1, <1>2, <1>5, <1>6, <1>7, RoomKept DEF IInv, Types
<1> QED
  BY <1>6, <1>7, <1>8 DEF IInv

\* The changes of the line, right and wrong, keep it.
LEMMA LineStep ==
    ASSUME IInv,
           \/ SensorChange \/ MissedChange \/ LateChange \/ SensorStops
           \/ \E us \in OddPulses : OddChange(us)
           \/ \E us \in NoiseAt : Noise(us)
    PROVE  IInv'
<1> USE DEF IInv
<1>1. CASE SensorChange \/ \E us \in OddPulses : OddChange(us)
  <2>1. PICK d \in Nat : /\ wire # <<>> /\ LineChanges(<<d>>) /\ wire' = Tail(wire)
                         /\ pc' = pc /\ attached' = attached
                         /\ \/ UNCHANGED <<disturbed, faults>>
                            \/ disturbed' = disturbed + 1 /\ faults' = faults + 1
    <3>1. CASE SensorChange
      <4>1. Head(wire) \in Nat
        BY <3>1 DEF SensorChange, Types
      <4> QED
        BY <3>1, <4>1, Zenon DEF SensorChange, main
    <3>2. CASE \E us \in OddPulses : OddChange(us)
      <4>1. PICK us \in OddPulses : OddChange(us)
        BY <3>2
      <4>2. us \in Nat
        BY OddAreLengths
      <4> QED
        BY <4>1, <4>2, Zenon DEF OddChange, Fault, main
    <3> QED
      BY <1>1, <3>1, <3>2
  <2>2. /\ signalLineChanges' = signalLineChanges + (IF attached THEN 1 ELSE 0)
        /\ overrun' => overrun \/ signalLineChanges' > Expected + 2
        /\ intf' => ~ attached
    <3>1. <<d>> \in Seq(Nat) /\ Len(<<d>>) = 1 /\ Len(<<d>>) >= 1
      OBVIOUS
    <3>2. PICK ds \in Seq(Nat) : Len(ds) = 1 /\ Len(ds) >= 1 /\ LineChanges(ds)
      BY <2>1, <3>1, Zenon
    <3> QED
      BY <2>1, <3>2, LineRecorded
  <2>3. attached /\ wire' \in Seq(Nat) /\ Len(wire') = Len(wire) - 1
    BY <2>1 DEF Silent, Types
  <2>4. Types' /\ Silent' /\ FaultsCount'
    BY <2>1, <2>2, <2>3 DEF Types, Silent, FaultsCount
  <2>5. Budget' /\ signalLineChanges' <= Expected + (disturbed + disturbed)'
    <3>1. pc # "request"
      BY <2>1 DEF Silent
    <3>2. signalLineChanges + Len(wire) <= Expected + (disturbed + disturbed)
      <4>1. signalLineChanges + Len(wire) + Waiting <= Expected + (disturbed + disturbed)
        BY <3>1 DEF Budget
      <4>2. Waiting \in {0, 1}
        BY DEF Waiting
      <4> QED
        BY <4>1, <4>2, ExpectedPositive DEF Types
    <3>3. Waiting' = 0
      BY <2>1, <2>2 DEF Waiting
    <3>4. /\ signalLineChanges' = signalLineChanges + 1 /\ Len(wire') = Len(wire) - 1
          /\ disturbed' = disturbed \/ disturbed' = disturbed + 1
          /\ signalLineChanges \in Nat /\ Len(wire) \in Nat /\ Len(wire) >= 1 /\ disturbed \in Nat
      BY <2>1, <2>2, <2>3 DEF Types
    <3>5. /\ signalLineChanges' + Len(wire') + Waiting' <= Expected + (disturbed' + disturbed')
          /\ signalLineChanges' <= Expected + (disturbed' + disturbed')
      BY <3>2, <3>3, <3>4, ExpectedPositive
    <3> QED
      BY <2>1, <3>1, <3>5 DEF Budget
  <2>6. RoomForOneFault'
    BY <2>1, <2>2, <2>4, <2>5, RoomKept DEF Types
  <2> QED
    BY <2>4, <2>5, <2>6
<1>2. CASE MissedChange
  <2>1. /\ wire' \in Seq(Nat) /\ Len(wire') = Len(wire) - 1
        /\ wire # <<>> /\ attached /\ attached' = attached /\ intf' = TRUE /\ pc' = pc
        /\ disturbed' = disturbed + 1 /\ faults' = faults + 1
        /\ UNCHANGED <<signalLineChanges, overrun>>
    BY <1>2 DEF MissedChange, Types, Fault, main
  <2> QED
    BY <2>1, ExpectedPositive
    DEF Types, Silent, FaultsCount, Waiting, Budget, RoomForOneFault
<1>3. CASE LateChange
  <2>1. LineChanges(<<0>>) /\ attached /\ intf /\ wire = <<>>
        /\ UNCHANGED <<pc, attached, wire, disturbed, faults>>
    BY <1>3 DEF LateChange, main, sensor
  <2>2. /\ signalLineChanges' = signalLineChanges + 1
        /\ overrun' => overrun \/ signalLineChanges' > Expected + 2
        /\ intf' => ~ attached
    <3>1. <<0>> \in Seq(Nat) /\ Len(<<0>>) = 1 /\ Len(<<0>>) >= 1
      OBVIOUS
    <3>2. PICK ds \in Seq(Nat) : Len(ds) = 1 /\ Len(ds) >= 1 /\ LineChanges(ds)
      BY <2>1, <3>1, Zenon
    <3> QED
      BY <2>1, <3>2, LineRecorded
  <2>3. Types' /\ Silent' /\ FaultsCount'
    BY <2>1, <2>2 DEF Types, Silent, FaultsCount
  <2>4. Budget' /\ signalLineChanges' <= Expected + (disturbed + disturbed)'
    BY <2>1, <2>2, ExpectedPositive DEF Budget, Types, Waiting, Silent
  <2>5. RoomForOneFault'
    BY <2>1, <2>2, <2>3, <2>4, RoomKept DEF Types
  <2> QED
    BY <2>3, <2>4, <2>5
<1>4. CASE SensorStops
  BY <1>4, ExpectedPositive
  DEF SensorStops, Fault, main, record, Types, Silent, FaultsCount, Waiting, Budget, RoomForOneFault
<1>5. CASE \E us \in NoiseAt : Noise(us)
  BY <1>5, NoiseStep
<1> QED
  BY <1>1, <1>2, <1>3, <1>4, <1>5

\* Every step keeps it.
LEMMA NextIInv == IInv /\ [Next]_vars => IInv'
<1>1. ASSUME IInv, Next PROVE IInv'
  BY <1>1, ProgramStep, LineStep DEF Next
<1>2. ASSUME IInv, UNCHANGED vars PROVE IInv'
  BY <1>2
  DEF vars, main, record, sensor, IInv, Types, Silent, FaultsCount, Waiting, Budget, RoomForOneFault
<1> QED
  BY <1>1, <1>2

\* IInv is an invariant.
LEMMA SpecIInv == Spec => []IInv
BY InitIInv, NextIInv, PTL DEF Spec

-----------------------------------------------------------------------------
\* The types of what the argument above leaves out; faults are counted up to the
\* bound.
MoreTypes ==
    /\ pc \in States /\ {errorFlag, attached, intf, overrun} \subseteq BOOLEAN
    /\ Len(printed) \in {0, 2} /\ since \in Nat /\ timings \in [Slots -> Ints]
    /\ answer \in SUBSET Readings /\ faults <= MaxFaults

\* Arithmetic: twice h values, read as signed ones.
LEMMA SignedRange ==
    ASSUME NEW h \in Nat, h > 0, NEW us \in Nat
    PROVE  ((us + h) % (2 * h)) - h \in (-h)..(h - 1)
<1>1. 2 * h \in Nat /\ 2 * h > 0 /\ us + h \in Nat
  OBVIOUS
<1>2. \A x, m \in Nat : m > 0 => x % m \in 0..(m - 1)
  OBVIOUS
<1>3. PICK r \in 0..(2 * h - 1) : r = (us + h) % (2 * h)
  BY <1>1, <1>2
<1>4. r - h \in (-h)..(h - 1)
  OBVIOUS
<1> QED
  BY <1>3, <1>4

\* A time that is recorded fits an int.
LEMMA ToIntType == ASSUME NEW us \in Nat PROVE ToInt(us) \in Ints
<1>1. HalfInt \in Nat /\ HalfInt > 0
  BY DEF HalfInt
<1> QED
  BY <1>1, SignedRange DEF ToInt, Ints

\* sensorLineChange() keeps the types of its record.
LEMMA RecordedType ==
    ASSUME NEW ds \in Seq(Nat), Types, MoreTypes, sensorLineChange(ds)
    PROVE  since' \in Nat /\ timings' \in [Slots -> Ints] /\ overrun' \in BOOLEAN
<1>1. since' \in Nat
  BY DEF sensorLineChange
<1>2. overrun' \in BOOLEAN
  BY Zenon DEF sensorLineChange
<1>3. ASSUME NEW i \in Slots, NEW k \in DOMAIN ds
      PROVE  ToInt(ds[k] + (IF k = 1 THEN since ELSE 0)) \in Ints
  <2>1. ds[k] + (IF k = 1 THEN since ELSE 0) \in Nat
    BY DEF MoreTypes
  <2> QED
    BY <2>1, ToIntType
<1>4. timings' = [i \in Slots |->
                     LET k == i - signalLineChanges + 1
                     IN  IF k \notin DOMAIN ds THEN timings[i]
                         ELSE ToInt(ds[k] + (IF k = 1 THEN since ELSE 0))]
  BY DEF sensorLineChange
<1>5. \A i \in Slots : timings[i] \in Ints
  BY DEF MoreTypes
<1>6. timings' \in [Slots -> Ints]
  BY <1>3, <1>4, <1>5
<1> QED
  BY <1>1, <1>2, <1>6

\* The two changes of a request keep them.
LEMMA PairType ==
    ASSUME NEW d \in Nat, NEW e \in Nat, Types, MoreTypes, sensorLineChange(<<d, e>>)
    PROVE  since' \in Nat /\ timings' \in [Slots -> Ints] /\ overrun' \in BOOLEAN
<1>1. <<d, e>> \in Seq(Nat)
  OBVIOUS
<1>2. PICK ds \in Seq(Nat) : sensorLineChange(ds)
  BY <1>1, Zenon
<1> QED
  BY <1>2, RecordedType

\* ... whatever their lengths are.
LEMMA RequestType ==
    ASSUME Types, MoreTypes, sensorLineChange(<<10, 7000>>)
    PROVE  since' \in Nat /\ timings' \in [Slots -> Ints] /\ overrun' \in BOOLEAN
<1>1. PICK d \in Nat, e \in Nat : sensorLineChange(<<d, e>>)
  OBVIOUS
<1> QED
  BY <1>1, PairType

\* A change of the line keeps them.
LEMMA LineType ==
    ASSUME NEW ds \in Seq(Nat), Types, MoreTypes, LineChanges(ds)
    PROVE  /\ since' \in Nat /\ timings' \in [Slots -> Ints]
           /\ overrun' \in BOOLEAN /\ intf' \in BOOLEAN
<1>1. CASE attached
  BY <1>1, RecordedType DEF LineChanges
<1>2. CASE ~ attached
  BY <1>2 DEF LineChanges, record, MoreTypes
<1> QED
  BY <1>1, <1>2

-----------------------------------------------------------------------------
\* The steps of the main program keep them.
LEMMA ProgramTypes ==
    ASSUME IInv, MoreTypes, Program \/ LineNotHigh
    PROVE  MoreTypes'
<1>1. CASE readSensor
  <2>1. timings' \in [Slots -> Ints]
    <3>1. 0 \in Ints
      <4>1. HalfInt \in Nat /\ HalfInt > 0
        BY DEF HalfInt
      <4> QED
        BY <4>1 DEF Ints
    <3> QED
      BY <1>1, <3>1 DEF readSensor, initState, Cleared, MoreTypes
  <2> QED
    BY <1>1, <2>1 DEF readSensor, initState, sensor, States, MoreTypes
<1>2. CASE requestSensorRead
  <2>1. Types
    BY DEF IInv
  <2>2. sensorLineChange(<<10, 7000>>)
    BY <1>2 DEF requestSensorRead
  <2>3. since' \in Nat /\ timings' \in [Slots -> Ints] /\ overrun' \in BOOLEAN
    BY <2>1, <2>2, RequestType
  <2> QED
    BY <1>2, <2>3 DEF requestSensorRead, States, MoreTypes
<1>3. CASE AckLow \/ AckHigh
  BY <1>3 DEF AckLow, AckHigh, pulseIn, flagError, record, sensor, States, MoreTypes
<1>4. CASE Collect
  BY <1>4 DEF Collect, StopCollecting, record, sensor, States, MoreTypes
<1>5. CASE Check
  BY <1>5 DEF Check, flagError, record, sensor, States, MoreTypes
<1>6. CASE analyseTimings
  <2>1. Len(printed') \in {0, 2}
    BY <1>6 DEF analyseTimings, flagError, MoreTypes
  <2>2. pc' = "delay" /\ errorFlag' \in BOOLEAN /\ UNCHANGED <<attached, intf, record, sensor, disturbed, faults>>
    BY <1>6 DEF analyseTimings, flagError, MoreTypes
  <2> QED
    BY <2>1, <2>2 DEF record, sensor, States, MoreTypes
<1>7. CASE Delay
  BY <1>7 DEF Delay, record, States, MoreTypes
<1>8. CASE LineNotHigh
  BY <1>8, SensorBound DEF LineNotHigh, Fault, flagError, record, sensor, States, MoreTypes, IInv, Types
<1> QED
  BY <1>1, <1>2, <1>3, <1>4, <1>5, <1>6, <1>7, <1>8 DEF Program

\* The changes of the line keep them.
LEMMA LineTypes ==
    ASSUME IInv, MoreTypes,
           \/ SensorChange \/ MissedChange \/ LateChange \/ SensorStops
           \/ \E us \in OddPulses : OddChange(us)
           \/ \E us \in NoiseAt : Noise(us)
    PROVE  MoreTypes'
<1>1. UNCHANGED <<pc, errorFlag, printed, attached, answer>>
  BY DEF SensorChange, MissedChange, LateChange, SensorStops, OddChange, Noise, main, sensor
<1>2. faults' <= MaxFaults
  <2>1. faults \in Nat /\ MaxFaults \in Nat /\ faults <= MaxFaults
    BY SensorBound DEF MoreTypes, IInv, Types
  <2>2. Fault \/ UNCHANGED faults
    BY DEF SensorChange, MissedChange, LateChange, SensorStops, OddChange, Noise
  <2>3. Fault => faults < MaxFaults /\ faults' = faults + 1
    BY DEF Fault
  <2> QED
    BY <2>1, <2>2, <2>3
<1>3. /\ since' \in Nat /\ timings' \in [Slots -> Ints]
      /\ overrun' \in BOOLEAN /\ intf' \in BOOLEAN
  <2>1. CASE MissedChange
    <3>1. Head(wire) \in Nat
      BY <2>1 DEF MissedChange, IInv, Types
    <3> QED
      BY <2>1, <3>1 DEF MissedChange, MoreTypes
  <2>2. CASE SensorStops
    BY <2>2 DEF SensorStops, record, MoreTypes
  <2>3. CASE SensorChange \/ LateChange \/ (\E us \in OddPulses : OddChange(us)) \/ \E us \in NoiseAt : Noise(us)
    <3>1. PICK ds \in Seq(Nat) : LineChanges(ds)
      <4>1. CASE SensorChange
        <5>1. <<Head(wire)>> \in Seq(Nat)
          BY <4>1 DEF SensorChange, IInv, Types
        <5> QED
          BY <4>1, <5>1, Zenon DEF SensorChange
      <4>2. CASE LateChange
        <5>1. <<0>> \in Seq(Nat)
          OBVIOUS
        <5> QED
          BY <4>2, <5>1, Zenon DEF LateChange
      <4>3. CASE \E us \in OddPulses : OddChange(us)
        <5>1. \A us \in OddPulses : <<us>> \in Seq(Nat)
          BY OddAreLengths
        <5> QED
          BY <4>3, <5>1, Zenon DEF OddChange
      <4>4. CASE \E us \in NoiseAt : Noise(us)
        <5>1. \A us \in NoiseAt : <<us>> \in Seq(Nat) /\ <<us, 1>> \in Seq(Nat)
          BY OddAreLengths
        <5> QED
          BY <4>4, <5>1, Zenon DEF Noise
      <4> QED
        BY <2>3, <4>1, <4>2, <4>3, <4>4
    <3> QED
      BY <3>1, LineType DEF IInv
  <2> QED
    BY <2>1, <2>2, <2>3
<1> QED
  BY <1>1, <1>2, <1>3 DEF MoreTypes

\* Only readSensor() attaches the interrupt, and with it a change left over or none.
LEMMA LeftoverStep ==
    ASSUME Next
    PROVE  leftover' = leftover \/ (readSensor /\ leftover' = FirstChange)
<1>1. CASE readSensor
  BY <1>1, Zenon DEF readSensor
<1>2. CASE requestSensorRead \/ AckLow \/ AckHigh \/ Collect
  BY <1>2 DEF requestSensorRead, AckLow, AckHigh, pulseIn, Collect
<1>3. CASE Check \/ analyseTimings \/ Delay \/ LineNotHigh
  BY <1>3, Zenon DEF Check, analyseTimings, Delay, LineNotHigh, Fault
<1>4. CASE SensorChange \/ MissedChange \/ LateChange \/ SensorStops
  BY <1>4, Zenon DEF SensorChange, MissedChange, LateChange, SensorStops, Fault
<1>5. CASE \E us \in OddPulses : OddChange(us)
  BY <1>5, Zenon DEF OddChange, Fault
<1>6. CASE \E us \in NoiseAt : Noise(us)
  BY <1>6, Zenon DEF Noise, Fault
<1> QED
  BY <1>1, <1>2, <1>3, <1>4, <1>5, <1>6, Zenon DEF Next, Program

\* The state stays in its types; in particular a recorded time fits an int.
THEOREM TypeCorrect == Spec => []TypeOK
<1>1. ASSUME Init PROVE MoreTypes
  <2>1. 0 \in Ints
    <3>1. HalfInt \in Nat /\ HalfInt > 0
      BY DEF HalfInt
    <3> QED
      BY <3>1 DEF Ints
  <2>2. timings \in [Slots -> Ints]
    BY <1>1, <2>1 DEF Init
  <2>3. Len(printed) \in {0, 2}
    BY <1>1 DEF Init
  <2>4. faults <= MaxFaults
    BY <1>1, SensorBound DEF Init
  <2>5. since \in Nat /\ answer \in SUBSET Readings /\ pc \in States
    BY <1>1 DEF Init, States
  <2>6. {errorFlag, attached, intf, overrun} \subseteq BOOLEAN
    BY <1>1, Zenon DEF Init
  <2> QED
    BY <2>2, <2>3, <2>4, <2>5, <2>6, Zenon DEF MoreTypes
<1>2. ASSUME IInv, MoreTypes, [Next]_vars PROVE MoreTypes'
  <2>1. CASE Next
    BY <1>2, <2>1, ProgramTypes, LineTypes DEF Next
  <2>2. CASE UNCHANGED vars
    BY <1>2, <2>2 DEF vars, main, record, sensor, MoreTypes
  <2> QED
    BY <1>2, <2>1, <2>2
<1> DEFINE LeftoverType == leftover \in {0, 1}
<1>3. IInv /\ MoreTypes /\ LeftoverType => TypeOK
  BY SensorBound DEF IInv, Types, MoreTypes, FaultsCount, TypeOK
<1>4. ASSUME Init PROVE LeftoverType
  BY <1>4 DEF Init
<1>5. ASSUME LeftoverType, [Next]_vars PROVE LeftoverType'
  <2>1. leftover' = leftover \/ leftover' = FirstChange
    BY <1>5, LeftoverStep, Zenon DEF vars
  <2>2. FirstChange \in {0, 1}
    BY DEF FirstChange
  <2> QED
    BY <1>5, <2>1, <2>2
<1> HIDE DEF LeftoverType
<1> QED
  BY <1>1, <1>2, <1>3, <1>4, <1>5, SpecIInv, PTL DEF Spec

\* The two spare elements of timings are enough for any number of readings
\* with one fault: sensorLineChange() writes behind the end only after two.
THEOREM NoOverrun == Spec => []RoomForOneFault
<1>1. IInv => RoomForOneFault
  BY DEF IInv
<1> QED
  BY <1>1, SpecIInv, PTL

\* A detached interrupt records nothing, and the main program does so only with the
\* request.
LEMMA StableStep ==
    ASSUME IInv, Next, pc \in {"check", "analyse"}
    PROVE  UNCHANGED record
<1>1. ~ attached /\ wire = <<>>
  BY DEF IInv, Silent
<1>2. CASE Program \/ LineNotHigh
  BY <1>2
  DEF Program, readSensor, requestSensorRead, AckLow, AckHigh, pulseIn, Collect, Check,
      analyseTimings, Delay, LineNotHigh
<1>3. CASE SensorChange \/ MissedChange \/ LateChange \/ \E us \in OddPulses : OddChange(us)
  BY <1>1, <1>3 DEF SensorChange, MissedChange, LateChange, OddChange
<1>4. CASE SensorStops
  BY <1>4 DEF SensorStops
<1>5. CASE \E us \in NoiseAt : Noise(us)
  BY <1>1, <1>5 DEF Noise, LineChanges
<1> QED
  BY <1>2, <1>3, <1>4, <1>5 DEF Next

\* Nothing is recorded between detachInterrupt() and the end of
\* analyseTimings(), whatever the sensor, the line and the controller do.
THEOREM RecordIsStable == Spec => DecodeIsStable
<1>1. ASSUME IInv, [Next]_vars
      PROVE  [(pc \in {"check", "analyse"}) => (UNCHANGED record)]_vars
  BY <1>1, StableStep
<1> QED
  BY <1>1, SpecIInv, PTL DEF Spec, DecodeIsStable

-----------------------------------------------------------------------------
(* Numbers.                                                                *)

\* A set of naturals has a least element.
LEMMA LeastNatural ==
    ASSUME NEW T, T \subseteq Nat, T # {}
    PROVE  \E n \in T : \A m \in T : ~ (m < n)
<1>1. \E n \in T : \A m \in T : ~ (<<m, n>> \in OpToRel(<, Nat))
  BY WFMin, NatLessThanWellFounded, Zenon
<1> QED
  BY <1>1, Zenon DEF OpToRel

\* Induction, for a property given as the set of the naturals that have it.
LEMMA Induction ==
    ASSUME NEW S, 0 \in S, \A k \in Nat : k \in S => k + 1 \in S
    PROVE  Nat \subseteq S
<1> DEFINE T == {m \in Nat : m \notin S}
<1>1. SUFFICES ASSUME T # {} PROVE FALSE
  OBVIOUS
<1>2. PICK m \in T : \A k \in T : ~ (k < m)
  <2>1. T \subseteq Nat
    OBVIOUS
  <2> HIDE DEF T
  <2> QED
    BY <1>1, <2>1, LeastNatural
<1>3. m \in Nat /\ m \notin S /\ m # 0
  OBVIOUS
<1>4. m - 1 \in Nat /\ m - 1 \in S
  BY <1>2, <1>3
<1>5. (m - 1) + 1 \in S
  BY <1>4
<1> QED
  BY <1>3, <1>5

\* A quotient and a remainder are what makes up the number.
LEMMA Divides ==
    ASSUME NEW p \in Nat, p > 0, NEW q \in Nat, NEW s \in 0..(p - 1)
    PROVE  (q * p + s) \div p = q /\ (q * p + s) % p = s
OBVIOUS

\* Every number has them.
LEMMA Quotients ==
    ASSUME NEW p \in Nat, p > 0, NEW x \in Nat
    PROVE  \E q \in Nat, s \in 0..(p - 1) : x = q * p + s
<1>1. x \div p \in Nat /\ x % p \in 0..(p - 1) /\ x = (x \div p) * p + (x % p)
  OBVIOUS
<1> QED
  BY <1>1, Zenon

\* What is added to a number modulo p is determined by the sum.
LEMMA Addends ==
    ASSUME NEW p \in Nat, p > 0, NEW a \in Nat, NEW x \in 0..(p - 1), NEW y \in 0..(p - 1),
           (a + x) % p = (a + y) % p
    PROVE  x = y
<1>1. PICK q \in Nat, s \in 0..(p - 1) : a + x = q * p + s
  BY Quotients
<1>2. PICK t \in Nat, u \in 0..(p - 1) : a + y = t * p + u
  BY Quotients
<1>3. s = u
  <2>1. (q * p + s) % p = s /\ (t * p + u) % p = u
    BY Divides
  <2> QED
    BY <1>1, <1>2, <2>1
<1>4. x - y = q * p - t * p /\ q * p \in Nat /\ t * p \in Nat
  BY <1>1, <1>2, <1>3
<1>5. \A k, l \in Nat : k < l => k * p + p <= l * p
  OBVIOUS
<1>6. ~ (q < t) /\ ~ (t < q)
  BY <1>4, <1>5
<1>7. q = t
  BY <1>6
<1> QED
  BY <1>4, <1>7

\* Doubling, with a bit at the end, undoes halving.
LEMMA Halves ==
    ASSUME NEW p \in Nat, p > 0, NEW v \in Nat
    PROVE  /\ v \div p \in Nat /\ (v \div p) % 2 \in {0, 1}
           /\ v \div p = 2 * (v \div (2 * p)) + ((v \div p) % 2)
<1>1. PICK q \in Nat, s \in 0..(p - 1) : v = q * p + s
  BY Quotients
<1>2. v \div p = q
  BY <1>1, Divides
<1>3. PICK h \in Nat, b \in {0, 1} : q = 2 * h + b /\ q % 2 = b
  <2>1. q % 2 \in {0, 1} /\ q \div 2 \in Nat /\ q = 2 * (q \div 2) + (q % 2)
    OBVIOUS
  <2> QED
    BY <2>1
<1>4. v = h * (2 * p) + (b * p + s) /\ b * p + s \in 0..(2 * p - 1)
  <2>1. b * p \in {0, p}
    OBVIOUS
  <2>2. q * p = h * (2 * p) + b * p
    BY <1>3
  <2> QED
    BY <1>1, <2>1, <2>2
<1>5. v \div (2 * p) = h
  <2>1. 2 * p \in Nat /\ 2 * p > 0
    OBVIOUS
  <2> QED
    BY <1>4, <2>1, Divides
<1> QED
  BY <1>2, <1>3, <1>5
-----------------------------------------------------------------------------
(* Numbers made of bits.                                                   *)

\* g is what readnbits() and the powers of two have in common: from the start s it
\* doubles, and adds the next of b.
Doubles(g, s, b, n) ==
    g \in [0..n -> Nat] /\ g[0] = s /\ \A k \in 1..n : g[k] = 2 * g[k - 1] + b[k]

\* There is such a function for every start and every sequence.
LEMMA DoublesExist ==
    ASSUME NEW s \in Nat, NEW n \in Nat, NEW b, \A k \in 1..n : b[k] \in Nat
    PROVE  \E g : Doubles(g, s, b, n)
<1> DEFINE Is(g, m) == \A k \in 0..m : g[k] = IF k = 0 THEN s ELSE 2 * g[k - 1] + b[k]
           S == {m \in Nat : m <= n => \E g \in [0..m -> Nat] : Is(g, m)}
<1>1. 0 \in S
  <2> DEFINE g == [k \in 0..0 |-> s]
  <2>1. g \in [0..0 -> Nat] /\ Is(g, 0)
    OBVIOUS
  <2> QED
    BY <2>1
<1>2. ASSUME NEW m \in Nat, m \in S PROVE m + 1 \in S
  <2>1. ASSUME m + 1 <= n PROVE \E g \in [0..(m + 1) -> Nat] : Is(g, m + 1)
    <3>1. PICK g \in [0..m -> Nat] : Is(g, m)
      BY <1>2, <2>1
    <3> DEFINE f == [k \in 0..(m + 1) |-> IF k <= m THEN g[k] ELSE 2 * g[m] + b[m + 1]]
    <3>2. f \in [0..(m + 1) -> Nat]
      <4>1. 2 * g[m] + b[m + 1] \in Nat
        <5>1. m + 1 \in 1..n /\ g[m] \in Nat
          BY <2>1
        <5>2. b[m + 1] \in Nat
          BY <5>1
        <5> QED
          BY <5>1, <5>2
      <4>2. \A k \in 0..(m + 1) : k <= m => g[k] \in Nat
        OBVIOUS
      <4> QED
        BY <4>1, <4>2
    <3>3. ASSUME NEW k \in 0..(m + 1)
          PROVE  f[k] = IF k = 0 THEN s ELSE 2 * f[k - 1] + b[k]
      <4>1. CASE k = m + 1
        BY <4>1
      <4>2. CASE k # m + 1
        <5>1. k \in 0..m /\ (k # 0 => k - 1 \in 0..m)
          BY <4>2
        <5>2. f[k] = g[k] /\ (k # 0 => f[k - 1] = g[k - 1])
          BY <5>1
        <5> HIDE DEF f
        <5> QED
          BY <3>1, <5>1, <5>2
      <4> QED
        BY <4>1, <4>2
    <3> HIDE DEF f
    <3> QED
      BY <3>2, <3>3
  <2> HIDE DEF Is
  <2> QED
    BY <2>1
<1> HIDE DEF S
<1>3. n \in S
  BY <1>1, <1>2, Induction
<1>4. PICK g \in [0..n -> Nat] : Is(g, n)
  BY <1>3 DEF S
<1>5. g[0] = s /\ \A k \in 1..n : g[k] = 2 * g[k - 1] + b[k]
  BY <1>4
<1>6. Doubles(g, s, b, n)
  BY <1>4, <1>5, Zenon DEF Doubles
<1> QED
  BY <1>6

\* The widths are positive numbers.
LEMMA Widths ==
    /\ ByteBits \in Nat /\ ByteBits >= 1 /\ WordBits = 2 * ByteBits /\ WordBits \in Nat
    /\ WordBits - 1 \in 0..WordBits
<1>1. ByteBits \in Nat \ {0}
  BY SensorAssumption
<1> QED
  BY <1>1 DEF WordBits

\* The powers of two.
LEMMA Powers ==
    /\ PowerOfTwo[0] = 1
    /\ \A n \in 0..WordBits : PowerOfTwo[n] \in Nat /\ PowerOfTwo[n] > 0
    /\ \A n \in 1..WordBits : PowerOfTwo[n] = 2 * PowerOfTwo[n - 1]
<1> DEFINE Is(g) == g = [n \in 0..WordBits |-> IF n = 0 THEN 1 ELSE 2 * g[n - 1]]
           gg == CHOOSE g : Is(g)
           zeros == [k \in 1..WordBits |-> 0]
<1>0. /\ 1 \in Nat /\ WordBits \in Nat
      /\ \A k \in 1..WordBits : zeros[k] = 0 /\ zeros[k] \in Nat
  BY Widths
<1> HIDE DEF zeros
<1>1. PICK f : Doubles(f, 1, zeros, WordBits)
  BY <1>0, DoublesExist, Zenon
<1>2. /\ f \in [0..WordBits -> Nat] /\ f[0] = 1
      /\ \A k \in 1..WordBits : f[k] = 2 * f[k - 1] + zeros[k]
  BY <1>1, Zenon DEF Doubles
<1>3. \A k \in 0..WordBits : f[k] = IF k = 0 THEN 1 ELSE 2 * f[k - 1]
  <2>1. ASSUME NEW k \in 1..WordBits PROVE f[k] = 2 * f[k - 1]
    <3>1. f[k - 1] \in Nat
      BY <1>2, Widths
    <3>2. f[k] = 2 * f[k - 1] + 0
      BY <1>0, <1>2, Zenon
    <3> QED
      BY <3>1, <3>2
  <2> QED
    BY <1>2, <2>1, Widths
<1>4. Is(f)
  BY <1>2, <1>3
<1>5. Is(gg)
  <2> HIDE DEF Is
  <2> QED
    BY <1>4
<1>6. PowerOfTwo = gg
  BY DEF PowerOfTwo
<1>7. PowerOfTwo = [n \in 0..WordBits |-> IF n = 0 THEN 1 ELSE 2 * PowerOfTwo[n - 1]]
  <2> HIDE DEF gg
  <2> QED
    BY <1>5, <1>6
<1>8. \A n \in 0..WordBits : PowerOfTwo[n] = IF n = 0 THEN 1 ELSE 2 * PowerOfTwo[n - 1]
  BY <1>7, Zenon
<1> DEFINE S == {n \in Nat : n <= WordBits => PowerOfTwo[n] \in Nat /\ PowerOfTwo[n] > 0}
<1>9. 0 \in S
  BY <1>8, Widths
<1>10. ASSUME NEW n \in Nat, n \in S PROVE n + 1 \in S
  <2>1. n + 1 <= WordBits => PowerOfTwo[n + 1] = 2 * PowerOfTwo[n]
    BY <1>8, Widths
  <2> QED
    BY <1>10, <2>1, Widths
<1>11. Nat \subseteq S
  <2> HIDE DEF S
  <2> QED
    BY <1>9, <1>10, Induction
<1>12. \A n \in 0..WordBits : PowerOfTwo[n] \in Nat /\ PowerOfTwo[n] > 0
  BY <1>11, Widths
<1> HIDE DEF S
<1> QED
  BY <1>8, <1>12, Widths

\* The bits of a message.
BitStrings == [1..MessageBits -> {0, 1}]

\* g reads n bits of b, behind the first o: every bit doubles what was read before.
Reads(g, b, o, n) ==
    g \in [0..n -> Nat] /\ g[0] = 0 /\ \A k \in 1..n : g[k] = 2 * g[k - 1] + b[o + k]

\* The number they are.
Number(b, o, n) == (CHOOSE g : Reads(g, b, o, n))[n]

\* Every part of a message can be read.
LEMMA ReadsExist ==
    ASSUME NEW b \in BitStrings, NEW o \in Nat, NEW n \in Nat, o + n <= MessageBits
    PROVE  \E g : Reads(g, b, o, n)
<1> DEFINE c == [k \in 1..n |-> b[o + k]]
<1>1. /\ 0 \in Nat /\ \A k \in 1..n : c[k] = b[o + k] /\ c[k] \in Nat
  <2>1. \A k \in 1..n : o + k \in 1..MessageBits
    BY Widths DEF MessageBits
  <2> QED
    BY <2>1 DEF BitStrings
<1> HIDE DEF c
<1>2. PICK g : Doubles(g, 0, c, n)
  BY <1>1, DoublesExist, Zenon
<1>3. g \in [0..n -> Nat] /\ g[0] = 0 /\ \A k \in 1..n : g[k] = 2 * g[k - 1] + b[o + k]
  BY <1>1, <1>2, Zenon DEF Doubles
<1> QED
  BY <1>3, Zenon DEF Reads

\* n bits of b behind the first o are those of c behind the first q.
Alike(b, o, c, q, n) == \A k \in 1..n : b[o + k] = c[q + k]

ReadAlike(g, b, o, f, c, q, n) == Reads(g, b, o, n) /\ Reads(f, c, q, n) /\ Alike(b, o, c, q, n)

\* The same bits, wherever they are, are read alike.
LEMMA ReadsSame ==
    ASSUME NEW n \in Nat, NEW b, NEW o, NEW c, NEW q, NEW g, NEW f,
           ReadAlike(g, b, o, f, c, q, n)
    PROVE  g[n] = f[n]
<1> DEFINE S == {k \in Nat : k <= n => g[k] = f[k]}
<1>1. 0 \in S
  BY DEF ReadAlike, Reads
<1>2. ASSUME NEW k \in Nat, k \in S PROVE k + 1 \in S
  <2>1. ASSUME k + 1 <= n PROVE g[k + 1] = f[k + 1]
    <3>1. k + 1 \in 1..n /\ (k + 1) - 1 = k
      BY <2>1
    <3>2. g[k] = f[k]
      BY <1>2, <2>1
    <3>3. /\ g[k + 1] = 2 * g[(k + 1) - 1] + b[o + (k + 1)]
          /\ f[k + 1] = 2 * f[(k + 1) - 1] + c[q + (k + 1)]
          /\ b[o + (k + 1)] = c[q + (k + 1)]
      BY <3>1, Zenon DEF ReadAlike, Reads, Alike
    <3>4. (k + 1) - 1 = k
      BY <3>1
    <3> QED
      BY <3>2, <3>3, <3>4, Zenon
  <2> QED
    BY <2>1
<1> HIDE DEF S
<1>3. n \in S
  BY <1>1, <1>2, Induction
<1> QED
  BY <1>3 DEF S

\* What is read is the number.
LEMMA NumberRead ==
    ASSUME NEW b \in BitStrings, NEW o \in Nat, NEW n \in Nat, o + n <= MessageBits,
           NEW g, Reads(g, b, o, n)
    PROVE  Number(b, o, n) = g[n]
<1> DEFINE f == CHOOSE h : Reads(h, b, o, n)
<1>1. Reads(f, b, o, n)
  BY Zenon
<1>2. Number(b, o, n) = f[n]
  BY DEF Number
<1> HIDE DEF f
<1>3. f[n] = g[n]
  <2>1. ReadAlike(f, b, o, g, b, o, n)
    BY <1>1 DEF ReadAlike, Alike
  <2> QED
    BY <2>1, ReadsSame
<1> QED
  BY <1>2, <1>3

\* The same bits are the same number.
LEMMA SameNumber ==
    ASSUME NEW b \in BitStrings, NEW c \in BitStrings, NEW o \in Nat, NEW n \in Nat,
           o + n <= MessageBits, Alike(b, o, c, o, n)
    PROVE  Number(b, o, n) = Number(c, o, n)
<1>1. PICK g : Reads(g, b, o, n)
  BY ReadsExist
<1>2. PICK f : Reads(f, c, o, n)
  BY ReadsExist
<1>3. g[n] = f[n]
  <2>1. ReadAlike(g, b, o, f, c, o, n)
    BY <1>1, <1>2 DEF ReadAlike
  <2> QED
    BY <2>1, ReadsSame
<1>4. Number(b, o, n) = g[n] /\ Number(c, o, n) = f[n]
  BY <1>1, <1>2, NumberRead
<1> QED
  BY <1>3, <1>4

\* A number of n bits is less than the n-th power.
LEMMA NumberBound ==
    ASSUME NEW b \in BitStrings, NEW o \in Nat, NEW n \in 0..WordBits, o + n <= MessageBits
    PROVE  Number(b, o, n) \in 0..(PowerOfTwo[n] - 1)
<1>1. n \in Nat /\ n <= WordBits /\ WordBits \in Nat
  BY Widths
<1>2. PICK g : Reads(g, b, o, n)
  BY <1>1, ReadsExist
<1> DEFINE S == {k \in Nat : k <= n => g[k] \in 0..(PowerOfTwo[k] - 1)}
<1>3. 0 \in S
  <2>1. g[0] = 0 /\ PowerOfTwo[0] = 1
    BY <1>2, Powers DEF Reads
  <2> QED
    BY <2>1
<1>4. ASSUME NEW k \in Nat, k \in S PROVE k + 1 \in S
  <2>1. ASSUME k + 1 <= n PROVE g[k + 1] \in 0..(PowerOfTwo[k + 1] - 1)
    <3>1. k + 1 \in 1..n /\ (k + 1) - 1 = k /\ k + 1 \in 1..WordBits /\ k \in 0..WordBits
          /\ o + (k + 1) \in 1..MessageBits
      BY <1>1, <2>1, Widths DEF MessageBits
    <3>2. g[k + 1] = 2 * g[k] + b[o + (k + 1)]
      <4>1. g[k + 1] = 2 * g[(k + 1) - 1] + b[o + (k + 1)]
        BY <1>2, <3>1, Zenon DEF Reads
      <4> QED
        BY <3>1, <4>1
    <3>3. b[o + (k + 1)] \in {0, 1}
      BY <3>1 DEF BitStrings
    <3>4. PowerOfTwo[k + 1] = 2 * PowerOfTwo[k] /\ PowerOfTwo[k] \in Nat
      <4>1. PowerOfTwo[k + 1] = 2 * PowerOfTwo[(k + 1) - 1]
        BY <3>1, Powers
      <4> QED
        BY <3>1, <4>1, Powers
    <3>5. g[k] \in 0..(PowerOfTwo[k] - 1)
      BY <1>4, <2>1
    <3> QED
      BY <3>2, <3>3, <3>4, <3>5
  <2> QED
    BY <2>1
<1> HIDE DEF S
<1>5. n \in S
  BY <1>1, <1>3, <1>4, Induction
<1> QED
  BY <1>1, <1>2, <1>5, NumberRead DEF S

\* What is read of two adjacent parts.
LEMMA NumberJoined ==
    ASSUME NEW b \in BitStrings, NEW o \in Nat, NEW m \in Nat, NEW n \in 0..WordBits,
           o + m + n <= MessageBits
    PROVE  Number(b, o, m + n) = Number(b, o, m) * PowerOfTwo[n] + Number(b, o + m, n)
<1>1. /\ n \in Nat /\ n <= WordBits /\ WordBits \in Nat /\ MessageBits \in Nat
      /\ m + n \in Nat /\ o + m \in Nat /\ o + (m + n) <= MessageBits /\ (o + m) + n <= MessageBits
      /\ o + m <= MessageBits
  BY Widths DEF MessageBits
<1>2. PICK g : Reads(g, b, o, m + n)
  BY <1>1, ReadsExist
<1>3. PICK h : Reads(h, b, o + m, n)
  BY <1>1, ReadsExist
<1>4. PICK f : Reads(f, b, o, m)
  BY <1>1, ReadsExist
<1>5. g[m] = f[m]
  <2> DEFINE e == [k \in 0..m |-> g[k]]
  <2>1. e \in [0..m -> Nat]
    BY <1>1, <1>2 DEF Reads
  <2>2. e[0] = 0 /\ e[m] = g[m]
    BY <1>2 DEF Reads
  <2>3. ASSUME NEW k \in 1..m PROVE e[k] = 2 * e[k - 1] + b[o + k]
    <3>1. k \in 1..(m + n) /\ k \in 0..m /\ k - 1 \in 0..m
      BY <1>1
    <3>2. e[k] = g[k] /\ e[k - 1] = g[k - 1]
      BY <3>1
    <3>3. g[k] = 2 * g[k - 1] + b[o + k]
      BY <1>2, <3>1, Zenon DEF Reads
    <3> QED
      BY <3>2, <3>3, Zenon
  <2> HIDE DEF e
  <2>4. Reads(e, b, o, m)
    BY <2>1, <2>2, <2>3, Zenon DEF Reads
  <2>5. ReadAlike(e, b, o, f, b, o, m)
    BY <1>4, <2>4 DEF ReadAlike, Alike
  <2> QED
    BY <2>2, <2>5, ReadsSame
<1> DEFINE S == {k \in Nat : k <= n => g[m + k] = f[m] * PowerOfTwo[k] + h[k]}
<1>6. 0 \in S
  <2>1. g[m + 0] = g[m] /\ h[0] = 0 /\ PowerOfTwo[0] = 1 /\ f[m] \in Nat
    BY <1>3, <1>4, Powers DEF Reads
  <2> QED
    BY <1>5, <2>1
<1>7. ASSUME NEW k \in Nat, k \in S PROVE k + 1 \in S
  <2>1. ASSUME k + 1 <= n PROVE g[m + (k + 1)] = f[m] * PowerOfTwo[k + 1] + h[k + 1]
    <3>1. /\ k + 1 \in 1..n /\ (k + 1) - 1 = k /\ k + 1 \in 1..WordBits /\ k \in 0..WordBits
          /\ k \in 0..n /\ m + (k + 1) \in 1..(m + n) /\ (m + (k + 1)) - 1 = m + k
          /\ o + (m + (k + 1)) = (o + m) + (k + 1) /\ o + (m + (k + 1)) \in 1..MessageBits
      BY <1>1, <2>1
    <3>2. g[m + (k + 1)] = 2 * g[m + k] + b[o + (m + (k + 1))]
      <4>1. g[m + (k + 1)] = 2 * g[(m + (k + 1)) - 1] + b[o + (m + (k + 1))]
        BY <1>2, <3>1, Zenon DEF Reads
      <4> QED
        BY <3>1, <4>1
    <3>3. h[k + 1] = 2 * h[k] + b[o + (m + (k + 1))]
      <4>1. h[k + 1] = 2 * h[(k + 1) - 1] + b[(o + m) + (k + 1)]
        BY <1>3, <3>1, Zenon DEF Reads
      <4> QED
        BY <3>1, <4>1
    <3>4. PowerOfTwo[k + 1] = 2 * PowerOfTwo[k] /\ PowerOfTwo[k] \in Nat
      <4>1. PowerOfTwo[k + 1] = 2 * PowerOfTwo[(k + 1) - 1]
        BY <3>1, Powers
      <4> QED
        BY <3>1, <4>1, Powers
    <3>5. g[m + k] = f[m] * PowerOfTwo[k] + h[k]
      BY <1>7, <2>1
    <3>6. f[m] \in Nat /\ h[k] \in Nat /\ b[o + (m + (k + 1))] \in Nat
      <4>1. f \in [0..m -> Nat] /\ h \in [0..n -> Nat]
        BY <1>3, <1>4, Zenon DEF Reads
      <4>2. b[o + (m + (k + 1))] \in {0, 1}
        BY <3>1 DEF BitStrings
      <4>3. m \in 0..m
        OBVIOUS
      <4> QED
        BY <3>1, <4>1, <4>2, <4>3
    <3>7. \A x, p, y, z \in Nat : 2 * (x * p + y) + z = x * (2 * p) + (2 * y + z)
      OBVIOUS
    <3> QED
      BY <3>2, <3>3, <3>4, <3>5, <3>6, <3>7
  <2> QED
    BY <2>1
<1> HIDE DEF S
<1>8. n \in S
  BY <1>1, <1>6, <1>7, Induction
<1>9. g[m + n] = f[m] * PowerOfTwo[n] + h[n]
  BY <1>1, <1>8 DEF S
<1>10. Number(b, o, m + n) = g[m + n] /\ Number(b, o, m) = f[m] /\ Number(b, o + m, n) = h[n]
  BY <1>1, <1>2, <1>3, <1>4, NumberRead
<1> QED
  BY <1>9, <1>10

\* The bits of a number are the number.
LEMMA NumberSpelled ==
    ASSUME NEW b \in BitStrings, NEW o \in Nat, NEW n \in 0..WordBits, o + n <= MessageBits,
           NEW v \in 0..(PowerOfTwo[n] - 1), \A k \in 1..n : b[o + k] = BitOf(v, n, k)
    PROVE  Number(b, o, n) = v
<1>1. n \in Nat /\ n <= WordBits /\ WordBits \in Nat /\ v \in Nat
  BY Widths, Powers
<1>2. PICK g : Reads(g, b, o, n)
  BY <1>1, ReadsExist
<1> DEFINE S == {k \in Nat : k <= n => g[k] = v \div PowerOfTwo[n - k]}
<1>3. 0 \in S
  <2>1. g[0] = 0
    BY <1>2 DEF Reads
  <2>2. PowerOfTwo[n] \in Nat /\ PowerOfTwo[n] > 0 /\ v \in 0..(PowerOfTwo[n] - 1)
    BY <1>1, Powers
  <2>3. v \div PowerOfTwo[n] = 0
    <3>1. 0 * PowerOfTwo[n] + v = v
      BY <1>1, <2>2
    <3>2. (0 * PowerOfTwo[n] + v) \div PowerOfTwo[n] = 0
      BY <2>2, Divides
    <3> QED
      BY <3>1, <3>2
  <2>4. n - 0 = n
    BY <1>1
  <2> QED
    BY <2>1, <2>3, <2>4
<1>4. ASSUME NEW k \in Nat, k \in S PROVE k + 1 \in S
  <2>1. ASSUME k + 1 <= n PROVE g[k + 1] = v \div PowerOfTwo[n - (k + 1)]
    <3> DEFINE p == PowerOfTwo[n - (k + 1)]
    <3>1. /\ k + 1 \in 1..n /\ (k + 1) - 1 = k /\ n - (k + 1) \in 0..WordBits
          /\ n - k \in 1..WordBits /\ (n - k) - 1 = n - (k + 1)
      BY <1>1, <2>1
    <3>2. p \in Nat /\ p > 0 /\ PowerOfTwo[n - k] = 2 * p
      <4>1. PowerOfTwo[n - k] = 2 * PowerOfTwo[(n - k) - 1]
        BY <3>1, Powers
      <4> QED
        BY <3>1, <4>1, Powers
    <3>3. g[k + 1] = 2 * g[k] + b[o + (k + 1)]
      <4>1. g[k + 1] = 2 * g[(k + 1) - 1] + b[o + (k + 1)]
        BY <1>2, <3>1, Zenon DEF Reads
      <4> QED
        BY <3>1, <4>1
    <3>4. b[o + (k + 1)] = (v \div p) % 2
      BY <3>1 DEF BitOf
    <3>5. g[k] = v \div (2 * p)
      <4>1. g[k] = v \div PowerOfTwo[n - k]
        BY <1>1, <1>4, <2>1
      <4> QED
        BY <3>2, <4>1
    <3> HIDE DEF p
    <3>6. v \div p = 2 * (v \div (2 * p)) + ((v \div p) % 2)
      BY <1>1, <3>2, Halves
    <3>7. g[k + 1] = v \div p
      BY <3>3, <3>4, <3>5, <3>6
    <3> QED
      BY <3>7 DEF p
  <2> QED
    BY <2>1
<1> HIDE DEF S
<1>5. n \in S
  BY <1>1, <1>3, <1>4, Induction
<1>6. g[n] = v
  <2>1. g[n] = v \div PowerOfTwo[0]
    <3>1. n - n = 0
      BY <1>1
    <3> QED
      BY <1>1, <1>5, <3>1 DEF S
  <2>2. v \div 1 = v
    BY <1>1
  <2> QED
    BY <2>1, <2>2, Powers
<1> QED
  BY <1>1, <1>2, <1>6, NumberRead

-----------------------------------------------------------------------------
(* What is decoded.                                                        *)

\* The bits that readnbits() makes of the pulses recorded, and those that the sensor sends.
Bits == [k \in 1..MessageBits |-> IF ZeroPulse(timings[4 + 2 * k]) THEN 0 ELSE 1]
Message(r) == [k \in 1..MessageBits |-> MessageBit(r, k)]

\* A bit of a number is a bit.
LEMMA BitIsBit ==
    ASSUME NEW v \in Nat, NEW n \in 0..WordBits, NEW i \in 1..n
    PROVE  BitOf(v, n, i) \in {0, 1}
<1>1. n - i \in 0..WordBits
  BY Widths
<1>2. PowerOfTwo[n - i] \in Nat /\ PowerOfTwo[n - i] > 0
  BY <1>1, Powers
<1> QED
  BY <1>2, Halves DEF BitOf

\* Sizes of the parts of a message.
LEMMA Parts ==
    /\ ByteBits \in 0..WordBits /\ WordBits \in 0..WordBits /\ MessageBits \in Nat
    /\ MessageBits = 2 * WordBits + ByteBits /\ WordBits = ByteBits + ByteBits
    /\ PowerOfTwo[ByteBits] \in Nat /\ PowerOfTwo[ByteBits] > 0
<1>1. ByteBits \in 0..WordBits
  BY Widths
<1> QED
  BY <1>1, Widths, Powers DEF MessageBits

\* A byte that adds up bytes is a byte.
LEMMA SumIsByte ==
    ASSUME NEW h \in Nat, NEW t \in Nat
    PROVE  Sum(h, t) \in 0..(PowerOfTwo[ByteBits] - 1)
<1> DEFINE p == PowerOfTwo[ByteBits]
<1>1. p \in Nat /\ p > 0
  BY Parts
<1> HIDE DEF p
<1>2. h \div p \in Nat /\ h % p \in Nat /\ t \div p \in Nat /\ t % p \in Nat
  BY <1>1
<1>3. \A x \in Nat : x % p \in 0..(p - 1)
  BY <1>1
<1>4. ((h \div p) + (h % p) + (t \div p) + (t % p)) % p \in 0..(p - 1)
  BY <1>2, <1>3
<1> QED
  BY <1>4 DEF p, Sum, HighByte, LowByte

\* Readings are pairs of words.
LEMMA ReadingWords ==
    ASSUME NEW r \in Readings
    PROVE  /\ r.humidity \in Nat /\ r.humidity \in 0..(PowerOfTwo[WordBits] - 1)
           /\ r.temperature \in Nat /\ r.temperature \in 0..(PowerOfTwo[WordBits] - 1)
<1>1. /\ r.humidity \in 0..(PowerOfTwo[WordBits - 1] - 1)
      /\ r.temperature \in 0..(PowerOfTwo[WordBits] - 1)
  <2>1. r \in [humidity : 0..(PowerOfTwo[WordBits - 1] - 1),
              temperature : 0..(PowerOfTwo[WordBits] - 1),
              low : [1..(MessageBits + 1) -> 35..75],
              zero : [1..MessageBits -> 12..40],
              one : [1..MessageBits -> 55..85]]
    BY SensorAssumption, Zenon
  <2> QED
    BY <2>1
<1>2. PowerOfTwo[WordBits] = 2 * PowerOfTwo[WordBits - 1] /\ PowerOfTwo[WordBits - 1] \in Nat
  <2>1. WordBits \in 1..WordBits
    BY Widths
  <2> QED
    BY <2>1, Powers, Widths
<1> QED
  BY <1>1, <1>2

\* The sum over the bytes of a reading.
LEMMA SumOfReading ==
    ASSUME NEW r \in Readings
    PROVE  /\ Sum(r.humidity, r.temperature) \in Nat
           /\ Sum(r.humidity, r.temperature) \in 0..(PowerOfTwo[ByteBits] - 1)
<1>1. PICK h \in Nat : h = r.humidity
  BY ReadingWords
<1>2. PICK t \in Nat : t = r.temperature
  BY ReadingWords
<1>3. Sum(h, t) \in 0..(PowerOfTwo[ByteBits] - 1)
  BY SumIsByte
<1>4. PICK s \in 0..(PowerOfTwo[ByteBits] - 1) : s = Sum(h, t)
  BY <1>3, Zenon
<1>5. s \in Nat
  BY Parts
<1> QED
  BY <1>1, <1>2, <1>4, <1>5, Zenon

\* What is read is a string of bits.
LEMMA BitsTyped == Bits \in BitStrings
BY DEF Bits, BitStrings

\* So is the message.
LEMMA MessageTyped ==
    ASSUME NEW r \in Readings
    PROVE  Message(r) \in BitStrings
<1>1. ASSUME NEW k \in 1..MessageBits PROVE MessageBit(r, k) \in {0, 1}
  <2>1. CASE k <= WordBits
    <3>1. k \in 1..WordBits
      BY <2>1, Parts, Widths
    <3> QED
      BY <2>1, <3>1, Parts, ReadingWords, BitIsBit DEF MessageBit
  <2>2. CASE ~ (k <= WordBits) /\ k <= 2 * WordBits
    <3>1. k - WordBits \in 1..WordBits
      BY <2>2, Parts, Widths
    <3> QED
      BY <2>2, <3>1, Parts, ReadingWords, BitIsBit DEF MessageBit
  <2>3. CASE ~ (k <= WordBits) /\ ~ (k <= 2 * WordBits)
    <3>1. k - 2 * WordBits \in 1..ByteBits
      BY <2>3, Parts, Widths
    <3>2. Sum(r.humidity, r.temperature) \in Nat
      BY SumOfReading
    <3> QED
      BY <2>3, <3>1, <3>2, Parts, BitIsBit DEF MessageBit
  <2> QED
    BY <2>1, <2>2, <2>3
<1> QED
  BY <1>1 DEF Message, BitStrings

\* readnbits() reads the number that the bits are.
LEMMA ReadAsNumber ==
    ASSUME NEW o \in Nat, NEW n \in Nat, o + n <= MessageBits
    PROVE  readnbits(5 + 2 * o, n) = Number(Bits, o, n)
<1> DEFINE Is(g) == g = [k \in 0..n |->
                           IF k = 0 THEN 0
                           ELSE 2 * g[k - 1]
                                + (IF ZeroPulse(timings[5 + 2 * o + 2 * k - 1]) THEN 0 ELSE 1)]
           gg == CHOOSE g : Is(g)
<1>1. readnbits(5 + 2 * o, n) = gg[n]
  BY DEF readnbits
<1>2. \A k \in 1..n : Bits[o + k] = IF ZeroPulse(timings[5 + 2 * o + 2 * k - 1]) THEN 0 ELSE 1
  <2>1. ASSUME NEW k \in 1..n
        PROVE  Bits[o + k] = IF ZeroPulse(timings[5 + 2 * o + 2 * k - 1]) THEN 0 ELSE 1
    <3>1. o + k \in 1..MessageBits /\ 4 + 2 * (o + k) = 5 + 2 * o + 2 * k - 1
      BY Parts
    <3>2. Bits[o + k] = IF ZeroPulse(timings[4 + 2 * (o + k)]) THEN 0 ELSE 1
      BY <3>1 DEF Bits
    <3> QED
      BY <3>1, <3>2, Zenon
  <2> QED
    BY <2>1
<1>3. PICK f : Reads(f, Bits, o, n)
  BY ReadsExist, BitsTyped
<1>4. Is(f)
  <2>1. /\ f \in [0..n -> Nat] /\ f[0] = 0
        /\ \A k \in 1..n : f[k] = 2 * f[k - 1] + Bits[o + k]
    BY <1>3, Zenon DEF Reads
  <2>2. \A k \in 0..n : f[k] = IF k = 0 THEN 0
                               ELSE 2 * f[k - 1]
                                    + (IF ZeroPulse(timings[5 + 2 * o + 2 * k - 1]) THEN 0 ELSE 1)
    <3>1. ASSUME NEW k \in 1..n
          PROVE  f[k] = 2 * f[k - 1]
                        + (IF ZeroPulse(timings[5 + 2 * o + 2 * k - 1]) THEN 0 ELSE 1)
      BY <1>2, <2>1, Zenon
    <3>2. \A k \in 0..n : k = 0 \/ k \in 1..n
      OBVIOUS
    <3>3. 0 \notin 1..n
      OBVIOUS
    <3> QED
      BY <2>1, <3>1, <3>2, <3>3, Zenon
  <2> QED
    BY <2>1, <2>2, Zenon
<1>5. Is(gg)
  <2> HIDE DEF Is
  <2> QED
    BY <1>4
<1>6. Reads(gg, Bits, o, n)
  <2> HIDE DEF gg
  <2> DEFINE body(k) == IF k = 0 THEN 0
                        ELSE 2 * gg[k - 1]
                             + (IF ZeroPulse(timings[5 + 2 * o + 2 * k - 1]) THEN 0 ELSE 1)
  <2>1. gg = [k \in 0..n |-> body(k)]
    BY <1>5, Zenon
  <2>2. \A k \in 0..n : gg[k] = body(k)
    <3> HIDE DEF body
    <3> QED
      BY <2>1
  <2>3. gg[0] = 0 /\ \A k \in 1..n : gg[k] = 2 * gg[k - 1] + Bits[o + k]
    <3>1. 0 \in 0..n /\ \A k \in 1..n : k \in 0..n /\ k # 0
      OBVIOUS
    <3> QED
      BY <1>2, <2>2, <3>1, Zenon
  <2> DEFINE S == {k \in Nat : k <= n => gg[k] \in Nat}
  <2>4. Nat \subseteq S
    <3>1. 0 \in S
      BY <2>3
    <3>2. ASSUME NEW k \in Nat, k \in S PROVE k + 1 \in S
      <4>1. ASSUME k + 1 <= n PROVE gg[k + 1] \in Nat
        <5>1. k + 1 \in 1..n /\ (k + 1) - 1 = k /\ o + (k + 1) \in 1..MessageBits
          BY <4>1, Parts
        <5>2. gg[k + 1] = 2 * gg[(k + 1) - 1] + Bits[o + (k + 1)]
          BY <2>3, <5>1
        <5>3. gg[k] \in Nat /\ Bits[o + (k + 1)] \in {0, 1}
          BY <3>2, <4>1, <5>1, BitsTyped DEF BitStrings
        <5> QED
          BY <5>1, <5>2, <5>3
      <4> QED
        BY <4>1
    <3> HIDE DEF S
    <3> QED
      BY <3>1, <3>2, Induction
  <2>5. \A k \in 0..n : gg[k] \in Nat
    BY <2>4
  <2>6. gg \in [0..n -> Nat]
    <3> HIDE DEF body
    <3> QED
      BY <2>1, <2>5
  <2> QED
    BY <2>3, <2>6, Zenon DEF Reads
<1> HIDE DEF gg
<1> QED
  BY <1>1, <1>6, NumberRead, BitsTyped

\* The two bytes of a word.
LEMMA WordBytes ==
    ASSUME NEW b \in BitStrings, NEW o \in Nat, o + WordBits <= MessageBits
    PROVE  /\ Number(b, o, WordBits) \in Nat
           /\ Number(b, o, WordBits)
                = Number(b, o, ByteBits) * PowerOfTwo[ByteBits] + Number(b, o + ByteBits, ByteBits)
           /\ HighByte(Number(b, o, WordBits)) = Number(b, o, ByteBits)
           /\ LowByte(Number(b, o, WordBits)) = Number(b, o + ByteBits, ByteBits)
<1> DEFINE p == PowerOfTwo[ByteBits]
           q == Number(b, o, ByteBits)
           s == Number(b, o + ByteBits, ByteBits)
<1>1. /\ ByteBits \in 0..WordBits /\ ByteBits \in Nat /\ o + ByteBits \in Nat
      /\ o + ByteBits + ByteBits <= MessageBits /\ o + ByteBits <= MessageBits
      /\ WordBits = ByteBits + ByteBits /\ p \in Nat /\ p > 0
  BY Parts, Widths
<1>2. Number(b, o, ByteBits + ByteBits) = q * p + s
  BY <1>1, NumberJoined
<1>3. q \in 0..(p - 1)
  BY <1>1, NumberBound
<1>4. s \in 0..(p - 1)
  BY <1>1, NumberBound
<1> HIDE DEF p, q, s
<1>5. q \in Nat /\ q * p + s \in Nat
  BY <1>1, <1>3, <1>4
<1>6. (q * p + s) \div p = q /\ (q * p + s) % p = s
  BY <1>1, <1>4, <1>5, Divides
<1>7. Number(b, o, WordBits) = q * p + s
  BY <1>1, <1>2
<1> QED
  BY <1>5, <1>6, <1>7 DEF HighByte, LowByte, p, q, s

\* Where the bytes of a message begin.
Offsets == {0, ByteBits, 2 * ByteBits, 3 * ByteBits, 4 * ByteBits}

\* The last byte is the sum of the others.
Checked(b) ==
    Number(b, 4 * ByteBits, ByteBits)
      = (Number(b, 0, ByteBits) + Number(b, ByteBits, ByteBits) + Number(b, 2 * ByteBits, ByteBits)
         + Number(b, 3 * ByteBits, ByteBits)) % PowerOfTwo[ByteBits]

\* Of any two bytes of b and c one is the same.
OneByteOff(b, c) ==
    \A o, q \in Offsets : o # q => Alike(b, o, c, o, ByteBits) \/ Alike(b, q, c, q, ByteBits)

\* Two lists of four addends below p with the same sum modulo p, of which at most
\* one differs.
OneOff(p, a, b, c, d, e, f, g, h) ==
    /\ p \in Nat /\ p > 0
    /\ a \in 0..(p - 1) /\ b \in 0..(p - 1) /\ c \in 0..(p - 1) /\ d \in 0..(p - 1)
    /\ e \in 0..(p - 1) /\ f \in 0..(p - 1) /\ g \in 0..(p - 1) /\ h \in 0..(p - 1)
    /\ (a + b + c + d) % p = (e + f + g + h) % p
    /\ a = e \/ b = f
    /\ a = e \/ c = g
    /\ a = e \/ d = h
    /\ b = f \/ c = g
    /\ b = f \/ d = h
    /\ c = g \/ d = h

\* Then none does.
LEMMA OneAddendOff ==
    ASSUME NEW p, NEW a, NEW b, NEW c, NEW d, NEW e, NEW f, NEW g, NEW h,
           OneOff(p, a, b, c, d, e, f, g, h)
    PROVE  a = e /\ b = f /\ c = g /\ d = h
<1> USE DEF OneOff
<1>1. \A n \in Nat, x, y \in 0..(p - 1) : (n + x) % p = (n + y) % p => x = y
  BY Addends
<1>2. CASE a # e
  <2>1. b + c + d \in Nat /\ (b + c + d) + a = a + b + c + d /\ (b + c + d) + e = e + f + g + h
    BY <1>2
  <2>2. ((b + c + d) + a) % p = ((b + c + d) + e) % p
    BY <2>1
  <2> QED
    BY <1>1, <1>2, <2>1, <2>2
<1>3. CASE b # f
  <2>1. a + c + d \in Nat /\ (a + c + d) + b = a + b + c + d /\ (a + c + d) + f = e + f + g + h
    BY <1>3
  <2>2. ((a + c + d) + b) % p = ((a + c + d) + f) % p
    BY <2>1
  <2> QED
    BY <1>1, <1>3, <2>1, <2>2
<1>4. CASE c # g
  <2>1. a + b + d \in Nat /\ (a + b + d) + c = a + b + c + d /\ (a + b + d) + g = e + f + g + h
    BY <1>4
  <2>2. ((a + b + d) + c) % p = ((a + b + d) + g) % p
    BY <2>1
  <2> QED
    BY <1>1, <1>4, <2>1, <2>2
<1>5. CASE d # h
  <2>1. a + b + c \in Nat /\ (a + b + c) + d = a + b + c + d /\ (a + b + c) + h = e + f + g + h
    BY <1>5
  <2>2. ((a + b + c) + d) % p = ((a + b + c) + h) % p
    BY <2>1
  <2> QED
    BY <1>1, <1>5, <2>1, <2>2
<1> QED
  BY <1>2, <1>3, <1>4, <1>5

\* A message that adds up and is another one in one byte at most has its words.
LEMMA Corrected ==
    ASSUME NEW b \in BitStrings, NEW c \in BitStrings, Checked(b), Checked(c), OneByteOff(b, c)
    PROVE  /\ Number(b, 0, WordBits) = Number(c, 0, WordBits)
           /\ Number(b, WordBits, WordBits) = Number(c, WordBits, WordBits)
<1> DEFINE p == PowerOfTwo[ByteBits]
           B(o) == Number(b, o, ByteBits)
           C(o) == Number(c, o, ByteBits)
<1>1. p \in Nat /\ p > 0 /\ ByteBits \in Nat /\ ByteBits >= 1 /\ ByteBits \in 0..WordBits
  BY Parts, Widths
<1>2. \A o \in Offsets : o \in Nat /\ o + ByteBits <= MessageBits
  BY Parts, Widths DEF Offsets
<1>3. \A o \in Offsets : B(o) \in 0..(p - 1) /\ C(o) \in 0..(p - 1)
  BY <1>1, <1>2, NumberBound
<1>4. \A o \in Offsets : Alike(b, o, c, o, ByteBits) => B(o) = C(o)
  BY <1>1, <1>2, SameNumber
<1>5. \A o, q \in Offsets : o # q => B(o) = C(o) \/ B(q) = C(q)
  BY <1>4, Zenon DEF OneByteOff
<1> HIDE DEF p, B, C
<1>6. /\ 0 \in Offsets /\ ByteBits \in Offsets /\ 2 * ByteBits \in Offsets
      /\ 3 * ByteBits \in Offsets /\ 4 * ByteBits \in Offsets
      /\ 0 # ByteBits /\ 0 # 2 * ByteBits /\ 0 # 3 * ByteBits /\ 0 # 4 * ByteBits
      /\ ByteBits # 2 * ByteBits /\ ByteBits # 3 * ByteBits /\ ByteBits # 4 * ByteBits
      /\ 2 * ByteBits # 3 * ByteBits /\ 2 * ByteBits # 4 * ByteBits /\ 3 * ByteBits # 4 * ByteBits
  BY <1>1 DEF Offsets
<1>7. /\ B(0) = C(0) /\ B(ByteBits) = C(ByteBits)
      /\ B(2 * ByteBits) = C(2 * ByteBits) /\ B(3 * ByteBits) = C(3 * ByteBits)
  <2>1. CASE B(4 * ByteBits) # C(4 * ByteBits)
    BY <1>5, <1>6, <2>1, Zenon
  <2>2. CASE B(4 * ByteBits) = C(4 * ByteBits)
    <3>1. /\ B(4 * ByteBits) = (B(0) + B(ByteBits) + B(2 * ByteBits) + B(3 * ByteBits)) % p
          /\ C(4 * ByteBits) = (C(0) + C(ByteBits) + C(2 * ByteBits) + C(3 * ByteBits)) % p
      BY DEF Checked, B, C, p
    <3>2. (B(0) + B(ByteBits) + B(2 * ByteBits) + B(3 * ByteBits)) % p
            = (C(0) + C(ByteBits) + C(2 * ByteBits) + C(3 * ByteBits)) % p
      BY <2>2, <3>1, Zenon
    <3>3. /\ B(0) = C(0) \/ B(ByteBits) = C(ByteBits)
          /\ B(0) = C(0) \/ B(2 * ByteBits) = C(2 * ByteBits)
          /\ B(0) = C(0) \/ B(3 * ByteBits) = C(3 * ByteBits)
          /\ B(ByteBits) = C(ByteBits) \/ B(2 * ByteBits) = C(2 * ByteBits)
          /\ B(ByteBits) = C(ByteBits) \/ B(3 * ByteBits) = C(3 * ByteBits)
          /\ B(2 * ByteBits) = C(2 * ByteBits) \/ B(3 * ByteBits) = C(3 * ByteBits)
      BY <1>5, <1>6, Zenon
    <3>4. /\ B(0) \in 0..(p - 1) /\ B(ByteBits) \in 0..(p - 1)
          /\ B(2 * ByteBits) \in 0..(p - 1) /\ B(3 * ByteBits) \in 0..(p - 1)
          /\ C(0) \in 0..(p - 1) /\ C(ByteBits) \in 0..(p - 1)
          /\ C(2 * ByteBits) \in 0..(p - 1) /\ C(3 * ByteBits) \in 0..(p - 1)
      BY <1>3, <1>6, Zenon
    <3>5. OneOff(p, B(0), B(ByteBits), B(2 * ByteBits), B(3 * ByteBits),
                 C(0), C(ByteBits), C(2 * ByteBits), C(3 * ByteBits))
      BY <1>1, <3>2, <3>3, <3>4, Zenon DEF OneOff
    <3> QED
      BY <3>5, OneAddendOff, Zenon
  <2> QED
    BY <2>1, <2>2
<1>8. /\ 0 \in Nat /\ 0 + WordBits <= MessageBits /\ 0 + ByteBits = ByteBits
      /\ WordBits \in Nat /\ WordBits + WordBits <= MessageBits
      /\ WordBits = 2 * ByteBits /\ WordBits + ByteBits = 3 * ByteBits
  BY Parts, Widths
<1>9. /\ Number(b, 0, WordBits) = B(0) * p + B(ByteBits)
      /\ Number(c, 0, WordBits) = C(0) * p + C(ByteBits)
  <2>1. /\ Number(b, 0, WordBits) = Number(b, 0, ByteBits) * p + Number(b, 0 + ByteBits, ByteBits)
        /\ Number(c, 0, WordBits) = Number(c, 0, ByteBits) * p + Number(c, 0 + ByteBits, ByteBits)
    BY <1>8, WordBytes DEF p
  <2> QED
    BY <1>8, <2>1, Zenon DEF B, C
<1>10. /\ Number(b, WordBits, WordBits) = B(2 * ByteBits) * p + B(3 * ByteBits)
       /\ Number(c, WordBits, WordBits) = C(2 * ByteBits) * p + C(3 * ByteBits)
  <2>1. /\ Number(b, WordBits, WordBits)
             = Number(b, WordBits, ByteBits) * p + Number(b, WordBits + ByteBits, ByteBits)
        /\ Number(c, WordBits, WordBits)
             = Number(c, WordBits, ByteBits) * p + Number(c, WordBits + ByteBits, ByteBits)
    BY <1>8, WordBytes DEF p
  <2> QED
    BY <1>8, <2>1, Zenon DEF B, C
<1> QED
  BY <1>7, <1>9, <1>10, Zenon

\* The checksum of a message is that of its words.
LEMMA CheckedWords ==
    ASSUME NEW b \in BitStrings
    PROVE  Checked(b) <=> Sum(Number(b, 0, WordBits), Number(b, WordBits, WordBits))
                            = Number(b, 2 * WordBits, ByteBits)
<1>1. /\ 0 \in Nat /\ 0 + WordBits <= MessageBits /\ 0 + ByteBits = ByteBits
      /\ WordBits \in Nat /\ WordBits + WordBits <= MessageBits
      /\ WordBits = 2 * ByteBits /\ WordBits + ByteBits = 3 * ByteBits
      /\ 2 * WordBits = 4 * ByteBits
  BY Parts, Widths
<1>2. /\ HighByte(Number(b, 0, WordBits)) = Number(b, 0, ByteBits)
      /\ LowByte(Number(b, 0, WordBits)) = Number(b, ByteBits, ByteBits)
  <2>1. LowByte(Number(b, 0, WordBits)) = Number(b, 0 + ByteBits, ByteBits)
    BY <1>1, WordBytes
  <2>2. HighByte(Number(b, 0, WordBits)) = Number(b, 0, ByteBits)
    BY <1>1, WordBytes
  <2> QED
    BY <1>1, <2>1, <2>2, Zenon
<1>3. /\ HighByte(Number(b, WordBits, WordBits)) = Number(b, 2 * ByteBits, ByteBits)
      /\ LowByte(Number(b, WordBits, WordBits)) = Number(b, 3 * ByteBits, ByteBits)
  <2>1. LowByte(Number(b, WordBits, WordBits)) = Number(b, WordBits + ByteBits, ByteBits)
    BY <1>1, WordBytes
  <2>2. HighByte(Number(b, WordBits, WordBits)) = Number(b, WordBits, ByteBits)
    BY <1>1, WordBytes
  <2> QED
    BY <1>1, <2>1, <2>2, Zenon
<1>4. Number(b, 2 * WordBits, ByteBits) = Number(b, 4 * ByteBits, ByteBits)
  BY <1>1, Zenon
<1>5. Sum(Number(b, 0, WordBits), Number(b, WordBits, WordBits))
        = (Number(b, 0, ByteBits) + Number(b, ByteBits, ByteBits) + Number(b, 2 * ByteBits, ByteBits)
           + Number(b, 3 * ByteBits, ByteBits)) % PowerOfTwo[ByteBits]
  BY <1>2, <1>3, Zenon DEF Sum
<1>6. ASSUME Checked(b)
      PROVE  Sum(Number(b, 0, WordBits), Number(b, WordBits, WordBits))
               = Number(b, 2 * WordBits, ByteBits)
  BY <1>4, <1>5, <1>6, Zenon DEF Checked
<1>7. ASSUME Sum(Number(b, 0, WordBits), Number(b, WordBits, WordBits))
               = Number(b, 2 * WordBits, ByteBits)
      PROVE  Checked(b)
  BY <1>4, <1>5, <1>7, Zenon DEF Checked
<1> QED
  BY <1>6, <1>7, Zenon

\* The bits that the sensor sends spell the words of the reading and their sum.
LEMMA MessageSpells ==
    ASSUME NEW r \in Readings
    PROVE  /\ Number(Message(r), 0, WordBits) = r.humidity
           /\ Number(Message(r), WordBits, WordBits) = r.temperature
           /\ Checked(Message(r))
<1> DEFINE m == Message(r)
           s == Sum(r.humidity, r.temperature)
<1>1. m \in BitStrings
  BY MessageTyped
<1>2. \A k \in 1..MessageBits : m[k] = MessageBit(r, k)
  BY DEF Message
<1> HIDE DEF m
<1>3. Number(m, 0, WordBits) = r.humidity
  <2>1. ASSUME NEW k \in 1..WordBits PROVE m[0 + k] = BitOf(r.humidity, WordBits, k)
    <3>1. 0 + k \in 1..MessageBits /\ 0 + k = k /\ k <= WordBits
      BY Parts, Widths
    <3>2. MessageBit(r, k) = BitOf(r.humidity, WordBits, k)
      BY <3>1, Zenon DEF MessageBit
    <3> QED
      BY <1>2, <3>1, <3>2, Zenon
  <2>2. 0 \in Nat /\ WordBits \in 0..WordBits /\ 0 + WordBits <= MessageBits
    BY Parts, Widths
  <2> QED
    BY <1>1, <2>1, <2>2, ReadingWords, NumberSpelled
<1>4. Number(m, WordBits, WordBits) = r.temperature
  <2>1. ASSUME NEW k \in 1..WordBits PROVE m[WordBits + k] = BitOf(r.temperature, WordBits, k)
    <3>1. /\ WordBits + k \in 1..MessageBits /\ (WordBits + k) - WordBits = k
          /\ ~ (WordBits + k <= WordBits) /\ WordBits + k <= 2 * WordBits
      BY Parts, Widths
    <3>2. MessageBit(r, WordBits + k) = BitOf(r.temperature, WordBits, (WordBits + k) - WordBits)
      BY <3>1, Zenon DEF MessageBit
    <3> QED
      BY <1>2, <3>1, <3>2, Zenon
  <2>2. WordBits \in Nat /\ WordBits \in 0..WordBits /\ WordBits + WordBits <= MessageBits
    BY Parts, Widths
  <2> QED
    BY <1>1, <2>1, <2>2, ReadingWords, NumberSpelled
<1>5. Number(m, 2 * WordBits, ByteBits) = s
  <2>1. ASSUME NEW k \in 1..ByteBits PROVE m[2 * WordBits + k] = BitOf(s, ByteBits, k)
    <3>1. /\ 2 * WordBits + k \in 1..MessageBits /\ (2 * WordBits + k) - 2 * WordBits = k
          /\ ~ (2 * WordBits + k <= WordBits) /\ ~ (2 * WordBits + k <= 2 * WordBits)
      BY Parts, Widths
    <3>2. MessageBit(r, 2 * WordBits + k) = BitOf(s, ByteBits, (2 * WordBits + k) - 2 * WordBits)
      BY <3>1, Zenon DEF MessageBit
    <3> QED
      BY <1>2, <3>1, <3>2, Zenon
  <2>2. 2 * WordBits \in Nat /\ ByteBits \in 0..WordBits /\ 2 * WordBits + ByteBits <= MessageBits
    BY Parts, Widths
  <2>3. s \in 0..(PowerOfTwo[ByteBits] - 1)
    BY SumOfReading
  <2> HIDE DEF s
  <2> QED
    BY <1>1, <2>1, <2>2, <2>3, NumberSpelled
<1>6. Checked(m)
  BY <1>1, <1>3, <1>4, <1>5, CheckedWords, Zenon
<1> QED
  BY <1>3, <1>4, <1>6, Zenon DEF m

\* The pulses recorded are those that the sensor has sent, all but the x-th.
AllBut(r, x) == \A j \in 1..(Expected - 2) : j # x => timings[j + 1] = Pulses(r)[j]

\* The pulse of a bit has the length of this bit.
LEMMA PulseOfBit ==
    ASSUME NEW r \in Readings, NEW k \in 1..MessageBits
    PROVE  /\ 3 + 2 * k \in 1..(Expected - 2) /\ (3 + 2 * k) + 1 = 4 + 2 * k
           /\ Pulses(r)[3 + 2 * k] = IF MessageBit(r, k) = 1 THEN r.one[k] ELSE r.zero[k]
<1>1. /\ MessageBits \in Nat /\ 3 + 2 * k \in 1..(Expected - 2) /\ (3 + 2 * k) + 1 = 4 + 2 * k
      /\ ~ (3 + 2 * k <= 3)
      /\ \A m \in 1..(MessageBits + 1) : 3 + 2 * k # 2 + 2 * m
      /\ \A m \in 1..MessageBits : 3 + 2 * k = 3 + 2 * m => k = m
  BY Widths DEF Expected, MessageBits
<1>2. PICK m \in 1..MessageBits :
         /\ 3 + 2 * k = 3 + 2 * m
         /\ Pulses(r)[3 + 2 * k] = IF MessageBit(r, m) = 1 THEN r.one[m] ELSE r.zero[m]
  BY <1>1, PulseKinds, Zenon
<1>3. k = m
  BY <1>1, <1>2, Zenon
<1> QED
  BY <1>1, <1>2, <1>3, Zenon

\* So has the pulse in front of it.
LEMMA PulseBeforeBit ==
    ASSUME NEW r \in Readings, NEW k \in 1..MessageBits
    PROVE  /\ 2 + 2 * k \in 1..(Expected - 2) /\ (2 + 2 * k) + 1 = 3 + 2 * k
           /\ Pulses(r)[2 + 2 * k] = r.low[k]
<1>1. /\ MessageBits \in Nat /\ 2 + 2 * k \in 1..(Expected - 2) /\ (2 + 2 * k) + 1 = 3 + 2 * k
      /\ ~ (2 + 2 * k <= 3)
      /\ \A m \in 1..MessageBits : 2 + 2 * k # 3 + 2 * m
      /\ \A m \in 1..(MessageBits + 1) : 2 + 2 * k = 2 + 2 * m => k = m
  BY Widths DEF Expected, MessageBits
<1>2. PICK m \in 1..(MessageBits + 1) :
         2 + 2 * k = 2 + 2 * m /\ Pulses(r)[2 + 2 * k] = r.low[m]
  BY <1>1, PulseKinds, Zenon
<1>3. k = m
  BY <1>1, <1>2, Zenon
<1> QED
  BY <1>1, <1>2, <1>3, Zenon

\* A pulse that carries a bit is read as this bit if it is accepted.
LEMMA PulseIsBit ==
    ASSUME NEW r \in Readings, NEW k \in 1..MessageBits,
           timings[(3 + 2 * k) + 1] = Pulses(r)[3 + 2 * k],
           ZeroPulse(timings[4 + 2 * k]) \/ OnePulse(timings[4 + 2 * k])
    PROVE  Bits[k] = Message(r)[k]
<1>1. timings[4 + 2 * k] = IF MessageBit(r, k) = 1 THEN r.one[k] ELSE r.zero[k]
  BY PulseOfBit, Zenon
<1>2. Message(r)[k] = MessageBit(r, k) /\ Message(r)[k] \in {0, 1}
  BY MessageTyped DEF Message, BitStrings
<1>3. Bits[k] = IF ZeroPulse(timings[4 + 2 * k]) THEN 0 ELSE 1
  BY DEF Bits
<1>4. r.zero[k] \in 12..40 /\ r.one[k] \in 55..85
  BY PulseLengths
<1>5. CASE MessageBit(r, k) = 1
  <2>1. timings[4 + 2 * k] \in 55..85
    BY <1>1, <1>4, <1>5
  <2> QED
    BY <1>2, <1>3, <1>5, <2>1 DEF ZeroPulse
<1>6. CASE MessageBit(r, k) # 1
  <2>1. timings[4 + 2 * k] \in 12..40
    BY <1>1, <1>4, <1>6
  <2>2. ZeroPulse(timings[4 + 2 * k])
    BY <2>1 DEF OnePulse
  <2> QED
    BY <1>2, <1>3, <1>6, <2>2
<1> QED
  BY <1>5, <1>6

\* What is decoded without an error consists of pulses that are a zero or a one.
LEMMA AcceptedBits ==
    ASSUME AllBitsOK, NEW k \in 1..MessageBits
    PROVE  ZeroPulse(timings[4 + 2 * k]) \/ OnePulse(timings[4 + 2 * k])
<1>1. k - 1 \in 0..((2 * WordBits + ByteBits) - 1) /\ 5 + 2 * (k - 1) + 1 = 4 + 2 * k
  BY Parts
<1>2. ZeroPulse(timings[5 + 2 * (k - 1) + 1]) \/ OnePulse(timings[5 + 2 * (k - 1) + 1])
  BY <1>1, Zenon DEF AllBitsOK, BitsOK
<1> QED
  BY <1>1, <1>2, Zenon

\* One pulse that is not the right one spoils one byte at most.
LEMMA OneByteSpoilt ==
    ASSUME NEW r \in Readings, NEW x, AllBut(r, x), AllBitsOK
    PROVE  OneByteOff(Bits, Message(r))
<1> DEFINE b == Bits
           c == Message(r)
<1>1. ASSUME NEW k \in 1..MessageBits, b[k] # c[k] PROVE x = 3 + 2 * k
  <2>1. 3 + 2 * k \in 1..(Expected - 2)
    BY Widths DEF Expected, MessageBits
  <2> QED
    BY <1>1, <2>1, PulseIsBit, AcceptedBits, Zenon DEF AllBut
<1> HIDE DEF b, c
<1>2. ASSUME NEW o \in Offsets, NEW q \in Offsets, o # q,
             ~ Alike(b, o, c, o, ByteBits), ~ Alike(b, q, c, q, ByteBits)
      PROVE  FALSE
  <2>1. PICK k \in 1..ByteBits : b[o + k] # c[o + k]
    BY <1>2, Zenon DEF Alike
  <2>2. PICK l \in 1..ByteBits : b[q + l] # c[q + l]
    BY <1>2, Zenon DEF Alike
  <2>3. o + k \in 1..MessageBits /\ q + l \in 1..MessageBits /\ o \in Nat /\ q \in Nat
    BY Widths DEF Offsets, MessageBits
  <2>4. x = 3 + 2 * (o + k) /\ x = 3 + 2 * (q + l)
    BY <1>1, <2>1, <2>2, <2>3, Zenon
  <2>5. o + k = q + l
    BY <2>3, <2>4
  <2> QED
    BY <1>2, <2>5, Widths DEF Offsets
<1> QED
  BY <1>2, Zenon DEF OneByteOff, b, c

\* What analyseTimings() reads is numbers made of the bits.
LEMMA Decoded ==
    /\ humid16 = Number(Bits, 0, WordBits)
    /\ temp16 = Number(Bits, WordBits, WordBits)
    /\ checksum8 = Number(Bits, 2 * WordBits, ByteBits)
<1>1. /\ 0 \in Nat /\ WordBits \in Nat /\ ByteBits \in Nat /\ 2 * WordBits \in Nat
      /\ 0 + WordBits <= MessageBits /\ WordBits + WordBits <= MessageBits
      /\ 2 * WordBits + ByteBits <= MessageBits
      /\ 5 + 2 * 0 = 5 /\ 5 + 2 * (2 * WordBits) = 5 + 4 * WordBits
  BY Parts, Widths
<1>2. /\ readnbits(5 + 2 * 0, WordBits) = Number(Bits, 0, WordBits)
      /\ readnbits(5 + 2 * WordBits, WordBits) = Number(Bits, WordBits, WordBits)
      /\ readnbits(5 + 2 * (2 * WordBits), ByteBits) = Number(Bits, 2 * WordBits, ByteBits)
  BY <1>1, ReadAsNumber, Zenon
<1> QED
  BY <1>1, <1>2, Zenon DEF humid16, temp16, checksum8

\* The words of a reading as loop() prints them.
LEMMA SignedMeaning ==
    ASSUME NEW r \in Readings
    PROVE  <<r.humidity, Signed(r.temperature)>> = Meaning(r)
<1> DEFINE q == PowerOfTwo[WordBits - 1]
           t == r.temperature
<1>1. q \in Nat /\ q > 0 /\ PowerOfTwo[WordBits] = 2 * q /\ WordBits - 1 \in 0..WordBits
  <2>1. WordBits \in 1..WordBits
    BY Widths
  <2> QED
    BY <2>1, Powers, Widths
<1>2. t \in Nat /\ t < 2 * q
  BY <1>1, ReadingWords
<1>3. BitOf(t, WordBits, 1) = (t \div q) % 2
  BY DEF BitOf
<1>4. Signed(t) = IF BitOf(t, WordBits, 1) = 1 THEN -(t - q) ELSE t
  BY DEF Signed
<1>5. Meaning(r) = <<r.humidity, IF t < q THEN t ELSE q - t>>
  BY DEF Meaning
<1> HIDE DEF q, t
<1>6. CASE t < q
  <2>1. 0 * q + t = t /\ t \in 0..(q - 1)
    BY <1>1, <1>2, <1>6
  <2>2. (0 * q + t) \div q = 0
    BY <1>1, <2>1, Divides
  <2>3. Signed(t) = t
    BY <1>3, <1>4, <2>1, <2>2
  <2> QED
    BY <1>5, <1>6, <2>3 DEF t
<1>7. CASE ~ (t < q)
  <2>1. 1 * q + (t - q) = t /\ t - q \in 0..(q - 1)
    BY <1>1, <1>2, <1>7
  <2>2. (1 * q + (t - q)) \div q = 1
    BY <1>1, <2>1, Divides
  <2>3. Signed(t) = -(t - q) /\ -(t - q) = q - t
    BY <1>1, <1>2, <1>3, <1>4, <2>1, <2>2
  <2> QED
    BY <1>5, <1>7, <2>3 DEF t
<1> QED
  BY <1>6, <1>7

\* One wrong pulse is found out, or does not matter.
LEMMA DecodesRight ==
    ASSUME NEW r \in Readings, NEW x, AllBut(r, x), AllBitsOK, ChecksumOK
    PROVE  <<humid16, Signed(temp16)>> = Meaning(r)
<1>1. Bits \in BitStrings /\ Message(r) \in BitStrings
  BY BitsTyped, MessageTyped
<1>2. Checked(Bits)
  BY <1>1, CheckedWords, Decoded, Zenon DEF ChecksumOK
<1>3. /\ Number(Bits, 0, WordBits) = Number(Message(r), 0, WordBits)
      /\ Number(Bits, WordBits, WordBits) = Number(Message(r), WordBits, WordBits)
  BY <1>1, <1>2, Corrected, MessageSpells, OneByteSpoilt
<1>4. humid16 = r.humidity /\ temp16 = r.temperature
  BY <1>3, Decoded, MessageSpells
<1> QED
  BY <1>4, SignedMeaning, Zenon

\* The right pulses pass every check if and only if they are accepted.
LEMMA CleanPasses ==
    ASSUME NEW r \in Readings, AllBut(r, 0)
    PROVE  (AllBitsOK <=> Accepted(r)) /\ (AllBitsOK => ChecksumOK)
<1>1. ASSUME NEW k \in 1..MessageBits
      PROVE  /\ timings[3 + 2 * k] = r.low[k]
             /\ timings[(3 + 2 * k) + 1] = Pulses(r)[3 + 2 * k]
             /\ timings[4 + 2 * k] = IF MessageBit(r, k) = 1 THEN r.one[k] ELSE r.zero[k]
  <2>1. 3 + 2 * k # 0 /\ 2 + 2 * k # 0
    BY Widths DEF MessageBits
  <2> QED
    BY <2>1, PulseOfBit, PulseBeforeBit, Zenon DEF AllBut
<1>2. ASSUME AllBitsOK PROVE ChecksumOK
  <2>1. \A k \in 1..MessageBits : Bits[k] = Message(r)[k]
    BY <1>1, <1>2, PulseIsBit, AcceptedBits, Zenon
  <2> DEFINE f(k) == IF ZeroPulse(timings[4 + 2 * k]) THEN 0 ELSE 1
             g(k) == MessageBit(r, k)
  <2>2. \A k \in 1..MessageBits : f(k) = g(k)
    BY <2>1 DEF Bits, Message
  <2>3. Bits = [k \in 1..MessageBits |-> f(k)] /\ Message(r) = [k \in 1..MessageBits |-> g(k)]
    BY Zenon DEF Bits, Message
  <2> HIDE DEF f, g
  <2>4. [k \in 1..MessageBits |-> f(k)] = [k \in 1..MessageBits |-> g(k)]
    BY <2>2, SMT
  <2>5. Bits = Message(r)
    BY <2>3, <2>4, Zenon
  <2>6. Checked(Bits)
    BY <2>5, MessageSpells
  <2> QED
    BY <2>6, BitsTyped, CheckedWords, Decoded, Zenon DEF ChecksumOK
<1> DEFINE Passes(k) == /\ LowPulse(timings[3 + 2 * k])
                        /\ ZeroPulse(timings[4 + 2 * k]) \/ OnePulse(timings[4 + 2 * k])
           Fits(k) == /\ LowPulse(r.low[k])
                      /\ IF MessageBit(r, k) = 1 THEN OnePulse(r.one[k]) ELSE ZeroPulse(r.zero[k])
<1>3. ASSUME NEW k \in 1..MessageBits PROVE Passes(k) <=> Fits(k)
  <2>1. r.zero[k] \in 12..40 /\ r.one[k] \in 55..85
    BY PulseLengths
  <2>2. CASE MessageBit(r, k) = 1
    <3>1. timings[4 + 2 * k] = r.one[k] /\ ~ ZeroPulse(r.one[k])
      BY <1>1, <2>1, <2>2 DEF ZeroPulse
    <3> QED
      BY <1>1, <2>2, <3>1, Zenon
  <2>3. CASE MessageBit(r, k) # 1
    <3>1. timings[4 + 2 * k] = r.zero[k] /\ ~ OnePulse(r.zero[k])
      BY <1>1, <2>1, <2>3 DEF OnePulse
    <3> QED
      BY <1>1, <2>3, <3>1, Zenon
  <2> QED
    BY <2>2, <2>3
<1>4. ASSUME NEW k \in 1..MessageBits
      PROVE  /\ k - 1 \in 0..((2 * WordBits + ByteBits) - 1)
             /\ 5 + 2 * (k - 1) = 3 + 2 * k /\ 5 + 2 * (k - 1) + 1 = 4 + 2 * k
  BY Parts
<1>5. ASSUME NEW k \in 0..((2 * WordBits + ByteBits) - 1)
      PROVE  /\ k + 1 \in 1..MessageBits
             /\ 3 + 2 * (k + 1) = 5 + 2 * k /\ 4 + 2 * (k + 1) = 5 + 2 * k + 1
  BY Parts
<1>6. AllBitsOK <=> \A k \in 1..MessageBits : Passes(k)
  <2>1. ASSUME AllBitsOK, NEW k \in 1..MessageBits PROVE Passes(k)
    <3>1. /\ LowPulse(timings[5 + 2 * (k - 1)])
          /\ ZeroPulse(timings[5 + 2 * (k - 1) + 1]) \/ OnePulse(timings[5 + 2 * (k - 1) + 1])
      BY <1>4, <2>1, Zenon DEF AllBitsOK, BitsOK
    <3> QED
      BY <1>4, <3>1, Zenon
  <2>2. ASSUME \A k \in 1..MessageBits : Passes(k) PROVE AllBitsOK
    <3>1. ASSUME NEW k \in 0..((2 * WordBits + ByteBits) - 1)
          PROVE  /\ LowPulse(timings[5 + 2 * k])
                 /\ ZeroPulse(timings[5 + 2 * k + 1]) \/ OnePulse(timings[5 + 2 * k + 1])
      <4>1. Passes(k + 1)
        BY <1>5, <2>2, Zenon
      <4> QED
        BY <1>5, <4>1, Zenon
    <3> QED
      BY <3>1, Zenon DEF AllBitsOK, BitsOK
  <2> QED
    BY <2>1, <2>2
<1>7. Accepted(r) <=> \A k \in 1..MessageBits : Fits(k)
  BY Zenon DEF Accepted
<1> HIDE DEF Passes, Fits
<1> QED
  BY <1>2, <1>3, <1>6, <1>7, Zenon

-----------------------------------------------------------------------------
(* The course of a reading.                                                *)

\* What the sensor has still to send are its pulses behind those recorded.
Following(r) == \A i \in 1..Len(wire) : wire[i] = Pulses(r)[signalLineChanges - 2 + i]

\* Those recorded so far are the sensor's, all but the x-th.
RecordedBut(r, x) ==
    \A j \in 1..(Expected - 2) :
        j + 1 < signalLineChanges /\ j # x => timings[j + 1] = Pulses(r)[j]

\* The count will be right, and one pulse at most is wrong, none of a clean reading.
Right(r) ==
    /\ leftover = 0
    /\ signalLineChanges + Len(wire) = Expected /\ signalLineChanges >= 2
    /\ Waiting = 0 /\ since = 0
    /\ Following(r)
    /\ \E x \in Nat : (disturbed = 0 => x = 0) /\ RecordedBut(r, x)

\* A change was missed; it is made up for only if it was the last one.
Missed(r) ==
    /\ leftover = 0
    /\ disturbed = 1 /\ Waiting = 1 /\ signalLineChanges + Len(wire) + 1 = Expected
    /\ wire = <<>> => since = Pulses(r)[Expected - 2] /\ RecordedBut(r, 0)

\* The count will be wrong.
Off == disturbed = 1 /\ Waiting = 0 /\ signalLineChanges + Len(wire) # Expected

Course(r) == Right(r) \/ Missed(r) \/ Off

Reading == {"low", "high", "collect", "check", "analyse"}

\* The interrupt is attached before the line is pulsed: what it sees is counted.
\* A change left over from before is one fault.
Requesting ==
    /\ leftover # 0 => disturbed # 0
    /\ pc = "request" => since = 0 /\ (signalLineChanges = 0 <=> disturbed = 0)

Traced ==
    pc \in Reading => \E r \in Readings : answer = {r} /\ (disturbed <= 1 => Course(r))

Flags ==
    /\ pc \in Reading \cup {"request"} => errorFlag = FALSE
    /\ pc = "analyse" => signalLineChanges = Expected
    /\ pc # "delay" => printed = <<>>

DInv == Requesting /\ Traced /\ Flags /\ PrintedIsAnswer

-----------------------------------------------------------------------------
\* Pulses are short enough for an int of 16 bits.
LEMMA ShortPulses ==
    ASSUME NEW r \in Readings, NEW j \in 1..(Expected - 2)
    PROVE  Pulses(r)[j] \in Nat /\ ToInt(Pulses(r)[j]) = Pulses(r)[j]
<1>1. Pulses(r)[j] \in 12..85
  BY PulsesShort
<1>2. \A p \in 12..85 : p \in Nat /\ ToInt(p) = p
  BY DEF ToInt, HalfInt
<1> QED
  BY <1>1, <1>2

\* What one change does to the record.
LEMMA OneRecorded ==
    ASSUME NEW d \in Nat, Types, sensorLineChange(<<d>>)
    PROVE  /\ signalLineChanges' = signalLineChanges + 1 /\ since' = 0
           /\ \A i \in Slots : i # signalLineChanges => timings'[i] = timings[i]
           /\ signalLineChanges \in Slots => timings'[signalLineChanges] = ToInt(d + since)
<1>1. signalLineChanges' = signalLineChanges + 1 /\ since' = 0
  BY DEF sensorLineChange
<1>2. DOMAIN <<d>> = {1} /\ <<d>>[1] = d
  OBVIOUS
<1>3. signalLineChanges \in Nat /\ Slots \subseteq Int
  BY ExpectedPositive DEF Types, Slots
<1>4. timings' = [i \in Slots |->
                     IF i - signalLineChanges + 1 \notin {1} THEN timings[i]
                     ELSE ToInt(<<d>>[i - signalLineChanges + 1]
                                + (IF i - signalLineChanges + 1 = 1 THEN since ELSE 0))]
  BY <1>2 DEF sensorLineChange
<1>5. ASSUME NEW i \in Slots, i # signalLineChanges PROVE timings'[i] = timings[i]
  <2>1. i - signalLineChanges + 1 \notin {1}
    BY <1>3, <1>5
  <2> QED
    BY <1>4, <2>1
<1>6. ASSUME signalLineChanges \in Slots
      PROVE  timings'[signalLineChanges] = ToInt(d + since)
  <2>1. signalLineChanges - signalLineChanges + 1 = 1
    BY <1>3
  <2> QED
    BY <1>2, <1>4, <1>6, <2>1
<1> QED
  BY <1>1, <1>5, <1>6

\* Nothing that the course of a reading depends on changes.
Still == UNCHANGED <<attached, intf, record, sensor, disturbed, leftover>>

\* Then the course is the same.
LEMMA CourseKept ==
    ASSUME NEW r, Course(r), Still
    PROVE  Course(r)'
BY Zenon DEF Still, record, sensor, Course, Right, Missed, Off, Following, RecordedBut, Waiting

\* A reading starts right, unless the request was disturbed.
LEMMA CourseStarts ==
    ASSUME IInv, DInv, NEW r \in Readings, pc = "request", sensorLineChange(<<10, 7000>>),
           wire' = Pulses(r), attached' = attached, intf' = intf, disturbed' = disturbed,
           leftover' = leftover, disturbed <= 1
    PROVE  Course(r)'
<1>1. /\ signalLineChanges' = signalLineChanges + 2 /\ since' = 0
      /\ signalLineChanges \in Nat /\ disturbed \in Nat
      /\ (signalLineChanges = 0 <=> disturbed = 0)
      /\ (disturbed = 0 => leftover = 0)
      /\ attached' = TRUE /\ Waiting' = 0
  <2>1. signalLineChanges' = signalLineChanges + 2
    BY TwoRecorded DEF IInv, Types
  <2> QED
    BY <2>1 DEF sensorLineChange, IInv, Types, Silent, DInv, Requesting, Waiting
<1>2. Len(wire') = Expected - 2 /\ Expected \in Nat
  BY PulsesLen, ExpectedPositive
<1>3. CASE disturbed = 0
  <2>1. signalLineChanges' = 2 /\ signalLineChanges' + Len(wire') = Expected
    BY <1>1, <1>2, <1>3
  <2>2. Following(r)'
    <3>1. \A i \in 1..Len(wire') : wire'[i] = Pulses(r)[signalLineChanges' - 2 + i]
      BY <2>1
    <3> QED
      BY <3>1 DEF Following
  <2>3. RecordedBut(r, 0)'
    BY <2>1 DEF RecordedBut
  <2>4. \E x \in Nat : (disturbed' = 0 => x = 0) /\ RecordedBut(r, x)'
    BY <2>3
  <2>5. Right(r)'
    BY <1>1, <1>3, <2>1, <2>2, <2>4 DEF Right
  <2> QED
    BY <2>5 DEF Course
<1>4. CASE disturbed # 0
  <2>1. Off'
    BY <1>1, <1>2, <1>4 DEF Off
  <2> QED
    BY <2>1 DEF Course
<1> QED
  BY <1>3, <1>4

\* Arithmetic: what is taken from one is added to the other.
LEMMA Moved ==
    ASSUME NEW a \in Nat, NEW l \in Nat, NEW c, NEW m, c = a + 1, m = l - 1
    PROVE  c + m = a + l
OBVIOUS

\* A change is recorded: the right one, or the one wrong one.
LEMMA CourseGoesOn ==
    ASSUME IInv, NEW r \in Readings, Course(r), NEW d \in Nat, wire # <<>>, LineChanges(<<d>>),
           wire' = Tail(wire), UNCHANGED <<attached, leftover>>, disturbed' <= 1,
           \/ d = Head(wire) /\ disturbed' = disturbed
           \/ disturbed' = disturbed + 1
    PROVE  Course(r)'
<1>1. /\ attached /\ wire \in Seq(Nat) /\ signalLineChanges \in Nat /\ disturbed \in Nat
      /\ Len(wire) \in Nat /\ Len(wire) >= 1 /\ Len(wire') = Len(wire) - 1
      /\ Head(wire) = wire[1]
      /\ \A i \in 1..Len(wire') : wire'[i] = wire[i + 1]
      /\ Expected \in Nat
  BY ExpectedPositive DEF IInv, Silent, Types
<1>2. /\ signalLineChanges' = signalLineChanges + 1 /\ since' = 0
      /\ \A i \in Slots : i # signalLineChanges => timings'[i] = timings[i]
      /\ signalLineChanges \in Slots => timings'[signalLineChanges] = ToInt(d + since)
  <2>1. sensorLineChange(<<d>>)
    BY <1>1 DEF LineChanges
  <2> QED
    BY <2>1, OneRecorded DEF IInv
<1>3. Waiting' = 0
  BY <1>1 DEF LineChanges, Waiting
<1>6. signalLineChanges' + Len(wire') = signalLineChanges + Len(wire)
  <2>1. /\ signalLineChanges \in Nat /\ Len(wire) \in Nat
        /\ signalLineChanges' = signalLineChanges + 1 /\ Len(wire') = Len(wire) - 1
    BY <1>1, <1>2
  <2> QED
    BY <2>1, Moved
<1>4. CASE Right(r)
  <2> DEFINE s == signalLineChanges
  <2>1. s + Len(wire) = Expected /\ s >= 2 /\ since = 0 /\ Following(r)
    BY <1>4 DEF Right
  <2>2. s \in 2..(Expected - 1) /\ s \in Slots /\ s - 1 \in 1..(Expected - 2)
    BY <1>1, <2>1 DEF Slots
  <2>3. s' = s + 1 /\ timings'[s] = ToInt(d)
    BY <1>2, <2>1, <2>2
  <2>4. Head(wire) = Pulses(r)[s - 1]
    <3>1. 1 \in 1..Len(wire) /\ s - 2 + 1 = s - 1
      BY <1>1
    <3>2. wire[1] = Pulses(r)[s - 2 + 1]
      BY <2>1, <3>1, Zenon DEF Following
    <3> QED
      BY <1>1, <3>1, <3>2, Zenon
  <2>5. Following(r)'
    <3>1. ASSUME NEW i \in 1..Len(wire') PROVE wire'[i] = Pulses(r)[s' - 2 + i]
      <4>1. i + 1 \in 1..Len(wire) /\ s' - 2 + i = s - 2 + (i + 1)
        BY <1>1, <2>3
      <4>2. wire[i + 1] = Pulses(r)[s - 2 + (i + 1)]
        BY <2>1, <4>1, Zenon DEF Following
      <4> QED
        BY <1>1, <4>1, <4>2
    <3> QED
      BY <3>1 DEF Following
  <2>6. \E x \in Nat : (disturbed' = 0 => x = 0) /\ RecordedBut(r, x)'
    <3>1. PICK x \in Nat : (disturbed = 0 => x = 0) /\ RecordedBut(r, x)
      BY <1>4 DEF Right
    <3>2. ASSUME NEW j \in 1..(Expected - 2), j + 1 < s', j # s - 1
          PROVE  timings'[j + 1] = timings[j + 1] /\ j + 1 < s
      <4>1. j + 1 \in Slots /\ j + 1 # s /\ j + 1 < s
        BY <1>1, <2>3, <3>2 DEF Slots
      <4> QED
        BY <1>2, <4>1
    <3>3. CASE disturbed' = disturbed /\ d = Head(wire)
      <4>1. timings'[(s - 1) + 1] = Pulses(r)[s - 1]
        BY <1>1, <2>2, <2>3, <2>4, <3>3, ShortPulses
      <4>2. RecordedBut(r, x)'
        <5>1. ASSUME NEW j \in 1..(Expected - 2), j + 1 < s', j # x
              PROVE  timings'[j + 1] = Pulses(r)[j]
          BY <3>1, <3>2, <4>1, <5>1 DEF RecordedBut
        <5> QED
          BY <5>1 DEF RecordedBut
      <4> QED
        BY <3>1, <3>3, <4>2
    <3>4. CASE disturbed' = disturbed + 1
      <4>1. x = 0
        BY <1>1, <3>1, <3>4
      <4>2. PICK y \in Nat : y = s - 1
        BY <2>2
      <4>3. RecordedBut(r, y)'
        <5>1. ASSUME NEW j \in 1..(Expected - 2), j + 1 < s', j # y
              PROVE  timings'[j + 1] = Pulses(r)[j]
          <6>1. j # x /\ j # s - 1
            BY <4>1, <4>2, <5>1
          <6> QED
            BY <3>1, <3>2, <5>1, <6>1 DEF RecordedBut
        <5> QED
          BY <5>1 DEF RecordedBut
      <4>4. disturbed' # 0
        BY <1>1, <3>4
      <4> QED
        BY <4>3, <4>4
    <3> QED
      BY <3>3, <3>4
  <2>7. s' + Len(wire') = Expected /\ s' >= 2
    <3>1. s' >= 2
      BY <1>1, <2>1, <2>3
    <3> QED
      BY <1>6, <2>1, <3>1, Zenon
  <2> QED
    BY <1>2, <1>3, <1>4, <2>5, <2>6, <2>7 DEF Course, Right
<1>5. CASE Missed(r) \/ Off
  <2>1. disturbed = 1 /\ signalLineChanges + Len(wire) # Expected
    BY <1>1, <1>5 DEF Missed, Off
  <2>2. disturbed' = 1
    BY <2>1
  <2>3. signalLineChanges' + Len(wire') # Expected
    BY <1>6, <2>1, Zenon
  <2> QED
    BY <1>3, <2>2, <2>3 DEF Course, Off
<1> QED
  BY <1>4, <1>5 DEF Course

\* A change is missed.
LEMMA CourseMisses ==
    ASSUME IInv, NEW r \in Readings, Course(r), MissedChange, disturbed' <= 1
    PROVE  Course(r)'
<1>1. /\ wire # <<>> /\ attached /\ attached' = attached /\ intf' = TRUE
      /\ wire \in Seq(Nat) /\ signalLineChanges \in Nat /\ disturbed \in Nat
      /\ Len(wire) \in Nat /\ Len(wire) >= 1 /\ Len(wire') = Len(wire) - 1
      /\ Head(wire) = wire[1] /\ since' = since + Head(wire)
      /\ signalLineChanges' = signalLineChanges /\ timings' = timings
      /\ disturbed' = disturbed + 1 /\ Expected \in Nat /\ leftover' = leftover
  BY ExpectedPositive DEF IInv, Types, MissedChange, Fault
<1>2. disturbed = 0 /\ disturbed' = 1 /\ Waiting' = 1
  BY <1>1 DEF Waiting
<1>3. PICK x \in Nat : x = 0 /\ RecordedBut(r, x)
  BY <1>2 DEF Course, Right, Missed, Off
<1>4. signalLineChanges + Len(wire) = Expected /\ since = 0 /\ Following(r) /\ leftover = 0
  BY <1>2 DEF Course, Right, Missed, Off
<1>5. signalLineChanges' + Len(wire') + 1 = Expected
  BY <1>1, <1>4
<1>6. RecordedBut(r, 0)'
  BY <1>1, <1>3 DEF RecordedBut
<1>7. ASSUME wire' = <<>> PROVE since' = Pulses(r)[Expected - 2]
  <2>1. Len(wire) = 1 /\ 1 \in 1..Len(wire) /\ signalLineChanges - 2 + 1 = Expected - 2
    <3>1. Len(wire') = 0
      BY <1>7
    <3>2. Len(wire) = 1
      BY <1>1, <3>1
    <3> QED
      BY <1>1, <1>4, <3>2
  <2>2. wire[1] = Pulses(r)[Expected - 2]
    <3>1. wire[1] = Pulses(r)[signalLineChanges - 2 + 1]
      BY <1>4, <2>1, Zenon DEF Following
    <3> QED
      BY <2>1, <3>1, Zenon
  <2>3. Expected - 2 \in 1..(Expected - 2)
    BY ExpectedPositive
  <2> QED
    BY <1>1, <1>4, <2>2, <2>3, ShortPulses
<1> QED
  BY <1>1, <1>2, <1>4, <1>5, <1>6, <1>7 DEF Course, Missed

\* The last change is not missed after all.
LEMMA CourseCatchesUp ==
    ASSUME IInv, NEW r \in Readings, Course(r), LateChange, disturbed' <= 1
    PROVE  Course(r)'
<1>1. /\ wire = <<>> /\ wire' = wire /\ Len(wire) = 0 /\ attached /\ intf /\ attached' = attached
      /\ disturbed' = disturbed /\ signalLineChanges \in Nat /\ Expected \in Nat
      /\ LineChanges(<<0>>) /\ leftover' = leftover
  BY ExpectedPositive DEF LateChange, main, sensor, IInv, Types
<1>2. /\ signalLineChanges' = signalLineChanges + 1 /\ since' = 0
      /\ \A i \in Slots : i # signalLineChanges => timings'[i] = timings[i]
      /\ signalLineChanges \in Slots => timings'[signalLineChanges] = ToInt(0 + since)
  <2>1. sensorLineChange(<<0>>)
    BY <1>1 DEF LineChanges
  <2>2. PICK d \in Nat : d = 0 /\ sensorLineChange(<<d>>)
    BY <2>1
  <2> QED
    BY <2>2, OneRecorded DEF IInv
<1>3. Waiting = 1 /\ Waiting' = 0
  BY <1>1 DEF LineChanges, Waiting
<1>4. /\ disturbed = 1 /\ signalLineChanges + 1 = Expected
      /\ since = Pulses(r)[Expected - 2] /\ RecordedBut(r, 0) /\ leftover = 0
  <2>1. Missed(r)
    BY <1>3 DEF Course, Right, Off
  <2> QED
    BY <1>1, <2>1 DEF Missed
<1>5. /\ Expected - 2 \in 1..(Expected - 2) /\ signalLineChanges = (Expected - 2) + 1
      /\ signalLineChanges \in Slots
  BY <1>1, <1>4, ExpectedPositive DEF Slots
<1>6. timings'[(Expected - 2) + 1] = Pulses(r)[Expected - 2]
  <2>1. since \in Nat /\ ToInt(since) = Pulses(r)[Expected - 2] /\ 0 + since = since
    BY <1>4, <1>5, ShortPulses
  <2> QED
    BY <1>2, <1>5, <2>1
<1>7. RecordedBut(r, 0)'
  <2>1. ASSUME NEW j \in 1..(Expected - 2), j # 0
        PROVE  timings'[j + 1] = Pulses(r)[j]
    <3>1. CASE j = Expected - 2
      BY <1>6, <3>1
    <3>2. CASE j # Expected - 2
      <4>1. j + 1 \in Slots /\ j + 1 # signalLineChanges /\ j + 1 < signalLineChanges
        BY <1>1, <1>5, <3>2 DEF Slots
      <4> QED
        BY <1>2, <1>4, <2>1, <4>1 DEF RecordedBut
    <3> QED
      BY <3>1, <3>2
  <2> QED
    BY <2>1 DEF RecordedBut
<1>8. Following(r)'
  BY <1>1 DEF Following
<1>9. signalLineChanges' + Len(wire') = Expected /\ signalLineChanges' >= 2
  BY <1>1, <1>2, <1>4, ExpectedPositive
<1>10. \E x \in Nat : (disturbed' = 0 => x = 0) /\ RecordedBut(r, x)'
  BY <1>7
<1> QED
  BY <1>1, <1>2, <1>3, <1>4, <1>8, <1>9, <1>10 DEF Course, Right

\* A disturbance adds changes, if they are counted at all.
LEMMA CourseDisturbed ==
    ASSUME IInv, NEW r \in Readings, Course(r), NEW us \in NoiseAt, Noise(us), disturbed' <= 1
    PROVE  Course(r)'
<1>1. /\ Types /\ signalLineChanges \in Nat /\ disturbed \in Nat /\ Expected \in Nat
      /\ disturbed' = disturbed + 1 /\ attached' = attached /\ Len(wire) \in Nat
      /\ leftover' = leftover
  BY ExpectedPositive DEF IInv, Types, Noise, Fault, main
<1>2. disturbed = 0 /\ disturbed' = 1
  BY <1>1
<1>3. Right(r)
  BY <1>2 DEF Course, Missed, Off
<1>4. CASE attached
  <2>1. /\ Len(wire') = Len(wire) /\ ~ intf'
        /\ \E n \in {1, 2} : signalLineChanges' = signalLineChanges + n
    BY <1>1, <1>4, NoiseCounts
  <2>2. signalLineChanges' + Len(wire') # Expected
    <3>1. \A a, l \in Nat : a + l = Expected => a + 1 + l # Expected /\ a + 2 + l # Expected
      BY <1>1
    <3>2. signalLineChanges + Len(wire) = Expected
      BY <1>3 DEF Right
    <3> QED
      BY <1>1, <2>1, <3>1, <3>2
  <2>3. Waiting' = 0
    BY <2>1 DEF Waiting
  <2> QED
    BY <1>2, <2>2, <2>3 DEF Course, Off
<1>5. CASE ~ attached
  <2>1. wire = <<>> /\ wire' = wire /\ UNCHANGED record /\ Waiting' = 0
    BY <1>1, <1>5 DEF Noise, LineChanges, IInv, Silent, Waiting
  <2>2. PICK x \in Nat : RecordedBut(r, x)
    BY <1>3 DEF Right
  <2>3. RecordedBut(r, x)' /\ disturbed' # 0
    BY <1>2, <2>1, <2>2 DEF RecordedBut, record
  <2>4. Following(r)'
    BY <1>3, <2>1, Zenon DEF Right, Following, record
  <2>5. /\ signalLineChanges' + Len(wire') = Expected /\ signalLineChanges' >= 2 /\ since' = 0
    BY <1>3, <2>1, Zenon DEF Right, record
  <2>6. leftover' = 0
    BY <1>1, <1>3 DEF Right
  <2> QED
    BY <2>1, <2>3, <2>4, <2>5, <2>6 DEF Course, Right
<1> QED
  BY <1>4, <1>5

\* The sensor stops: what it has not sent will not be counted.
LEMMA CourseStops ==
    ASSUME IInv, NEW r \in Readings, Course(r), SensorStops, disturbed' <= 1
    PROVE  Course(r)'
<1>1. /\ signalLineChanges \in Nat /\ disturbed \in Nat /\ Expected \in Nat
      /\ disturbed' = disturbed + 1 /\ wire # <<>> /\ wire' = <<>> /\ wire \in Seq(Nat)
      /\ Len(wire) \in Nat /\ Len(wire) >= 1 /\ Len(wire') = 0
      /\ UNCHANGED <<attached, intf>> /\ signalLineChanges' = signalLineChanges
  BY ExpectedPositive DEF IInv, Types, SensorStops, Fault, record
<1>2. disturbed = 0 /\ disturbed' = 1
  BY <1>1
<1>3. Right(r)
  BY <1>2 DEF Course, Missed, Off
<1>4. signalLineChanges' + Len(wire') # Expected /\ Waiting' = 0
  BY <1>1, <1>3 DEF Right, Waiting
<1> QED
  BY <1>2, <1>4 DEF Course, Off

\* Whatever happens on the line, it takes its course.
LEMMA LineCourse ==
    ASSUME IInv, NEW r \in Readings, Course(r), disturbed' <= 1,
           \/ SensorChange \/ MissedChange \/ LateChange \/ SensorStops
           \/ \E us \in OddPulses : OddChange(us)
           \/ \E us \in NoiseAt : Noise(us)
    PROVE  Course(r)'
<1>1. CASE SensorChange
  <2>1. /\ wire # <<>> /\ LineChanges(<<Head(wire)>>) /\ wire' = Tail(wire)
        /\ UNCHANGED <<attached, leftover>> /\ disturbed' = disturbed /\ Head(wire) \in Nat
    BY <1>1 DEF SensorChange, IInv, Types
  <2>2. PICK d \in Nat : d = Head(wire) /\ LineChanges(<<d>>)
    BY <2>1
  <2> QED
    BY <2>1, <2>2, CourseGoesOn
<1>2. CASE \E us \in OddPulses : OddChange(us)
  <2>1. PICK us \in OddPulses : OddChange(us)
    BY <1>2
  <2>2. us \in Nat
    BY OddAreLengths
  <2>3. /\ wire # <<>> /\ LineChanges(<<us>>) /\ wire' = Tail(wire)
        /\ UNCHANGED <<attached, leftover>> /\ disturbed' = disturbed + 1
    BY <2>1 DEF OddChange, Fault
  <2> QED
    BY <2>2, <2>3, CourseGoesOn
<1>3. CASE MissedChange
  BY <1>3, CourseMisses
<1>4. CASE LateChange
  BY <1>4, CourseCatchesUp
<1>5. CASE SensorStops
  BY <1>5, CourseStops
<1>6. CASE \E us \in NoiseAt : Noise(us)
  BY <1>6, CourseDisturbed
<1> QED
  BY <1>1, <1>2, <1>3, <1>4, <1>5, <1>6

-----------------------------------------------------------------------------
\* What the decoding of a complete record gives.
LEMMA CompleteRecord ==
    ASSUME IInv, DInv, pc = "analyse", disturbed <= 1
    PROVE  \E r \in Readings :
              /\ answer = {r} /\ leftover = 0
              /\ AllBitsOK /\ ChecksumOK => <<humid16, Signed(temp16)>> = Meaning(r)
              /\ disturbed = 0 => (AllBitsOK <=> Accepted(r)) /\ (AllBitsOK => ChecksumOK)
<1>1. PICK r \in Readings : answer = {r} /\ Course(r)
  BY DEF DInv, Traced, Reading
<1>2. wire = <<>> /\ ~ attached /\ signalLineChanges = Expected /\ Len(wire) = 0
  BY DEF IInv, Silent, DInv, Flags
<1>3. Right(r)
  <2>1. ~ Missed(r)
    BY <1>2 DEF Missed, Waiting
  <2>2. ~ Off
    BY <1>2, ExpectedPositive DEF Off
  <2> QED
    BY <1>1, <2>1, <2>2 DEF Course
<1>4. PICK x \in Nat : (disturbed = 0 => x = 0) /\ RecordedBut(r, x)
  BY <1>3 DEF Right
<1>5. AllBut(r, x)
  <2>1. \A j \in 1..(Expected - 2) : j + 1 < signalLineChanges
    BY <1>2, ExpectedPositive
  <2> QED
    BY <1>4, <2>1, Zenon DEF RecordedBut, AllBut
<1>6. AllBitsOK /\ ChecksumOK => <<humid16, Signed(temp16)>> = Meaning(r)
  BY <1>5, DecodesRight, Zenon
<1>7. disturbed = 0 => (AllBitsOK <=> Accepted(r)) /\ (AllBitsOK => ChecksumOK)
  BY <1>4, <1>5, CleanPasses, Zenon
<1>8. leftover = 0
  BY <1>3 DEF Right
<1> QED
  BY <1>1, <1>6, <1>7, <1>8, Zenon

\* The sensor starts to answer.
LEMMA RequestCourse ==
    ASSUME IInv, DInv, requestSensorRead
    PROVE  Traced'
<1>1. /\ pc = "request" /\ pc' = "low" /\ sensorLineChange(<<10, 7000>>)
      /\ attached' = attached /\ intf' = intf /\ disturbed' = disturbed /\ leftover' = leftover
  BY DEF requestSensorRead
<1>2. PICK r \in Readings : answer' = {r} /\ wire' = Pulses(r)
  BY DEF requestSensorRead
<1>3. ASSUME disturbed <= 1 PROVE Course(r)'
  BY <1>1, <1>2, <1>3, CourseStarts
<1> QED
  BY <1>1, <1>2, <1>3 DEF Traced

\* The steps of the main program keep the course of a reading.
LEMMA ProgramCourse ==
    ASSUME IInv, DInv, Program \/ LineNotHigh
    PROVE  DInv'
<1>0. requestSensorRead => Traced'
  BY RequestCourse, Zenon
<1> USE DEF DInv, Requesting, Flags, PrintedIsAnswer
<1>1. CASE readSensor
  BY <1>1 DEF readSensor, initState, FirstChange, sensor, Traced, Reading
<1>2. CASE requestSensorRead
  BY <1>0, <1>2 DEF requestSensorRead, Reading
<1>3. CASE AckLow \/ AckHigh
  <2>1. /\ pc \in {"low", "high"} /\ Still /\ UNCHANGED printed /\ UNCHANGED answer
        /\ \/ pc' \in {"high", "collect"} /\ UNCHANGED errorFlag
           \/ pc' = "delay"
    BY <1>3 DEF AckLow, AckHigh, pulseIn, flagError, Still, sensor
  <2>2. Traced'
    BY <2>1, CourseKept DEF Traced, Reading, Still
  <2>3. UNCHANGED <<disturbed, leftover, since, signalLineChanges>>
    BY <2>1 DEF Still, record
  <2> QED
    BY <2>1, <2>2, <2>3 DEF Reading
<1>4. CASE Collect
  <2>1. /\ pc = "collect" /\ pc' = "check" /\ wire = <<>> /\ attached' = FALSE
        /\ UNCHANGED <<errorFlag, printed, intf, disturbed, leftover>> /\ UNCHANGED record /\ UNCHANGED sensor
    BY <1>4 DEF Collect, StopCollecting
  <2>2. ASSUME NEW r \in Readings, Course(r) PROVE Course(r)'
    <3>1. Waiting' = 0
      BY <2>1 DEF Waiting
    <3>2. CASE Right(r)
      <4>1. Right(r)'
        BY <2>1, <3>1, <3>2, Zenon DEF Right, Following, RecordedBut, record, sensor
      <4> QED
        BY <4>1 DEF Course
    <3>3. CASE Missed(r)
      <4>1. Len(wire) = 0 /\ signalLineChanges \in Nat
        BY <2>1 DEF IInv, Types
      <4>2. signalLineChanges + Len(wire) # Expected
        BY <3>3, <4>1, ExpectedPositive DEF Missed
      <4>3. Off'
        BY <2>1, <3>1, <3>3, <4>2, Zenon DEF Missed, Off, record, sensor
      <4> QED
        BY <4>3 DEF Course
    <3>4. CASE Off
      <4>1. Off'
        BY <2>1, <3>1, <3>4, Zenon DEF Off, record, sensor
      <4> QED
        BY <4>1 DEF Course
    <3> QED
      BY <2>2, <3>2, <3>3, <3>4 DEF Course
  <2>3. Traced'
    BY <2>1, <2>2 DEF Traced, Reading, sensor
  <2> QED
    BY <2>1, <2>3 DEF Reading, record
<1>5. CASE Check
  <2>1. /\ pc = "check" /\ Still /\ UNCHANGED printed /\ UNCHANGED <<answer, signalLineChanges>>
        /\ \/ pc' = "analyse" /\ signalLineChanges = Expected /\ UNCHANGED errorFlag
           \/ pc' = "delay"
    BY <1>5 DEF Check, flagError, Still, sensor, record
  <2>2. Traced'
    BY <2>1, CourseKept DEF Traced, Reading, Still
  <2>3. UNCHANGED <<disturbed, leftover, since, signalLineChanges>>
    BY <2>1 DEF Still, record
  <2> QED
    BY <2>1, <2>2, <2>3 DEF Reading
<1>6. CASE analyseTimings
  <2>1. /\ pc = "analyse" /\ pc' = "delay" /\ printed = <<>>
        /\ UNCHANGED <<disturbed, leftover, answer>>
    BY <1>6 DEF analyseTimings, flagError, sensor
  <2>2. printed' # <<>> => AllBitsOK /\ ChecksumOK /\ printed' = <<humid16, Signed(temp16)>>
    BY <1>6, <2>1 DEF analyseTimings, flagError
  <2>3. PrintedIsAnswer'
    BY <2>1, <2>2, CompleteRecord
  <2>4. Requesting' /\ Flags'
    BY <2>1 DEF Reading
  <2>5. Traced'
    BY <2>1 DEF Traced, Reading
  <2> QED
    BY <2>3, <2>4, <2>5
<1>7. CASE Delay
  BY <1>7 DEF Delay, Traced, Reading
<1>8. CASE LineNotHigh
  <2>1. /\ pc = "request" /\ pc' = "delay" /\ UNCHANGED <<printed, leftover>>
        /\ disturbed' = disturbed + 1 /\ disturbed \in Nat
    BY <1>8 DEF LineNotHigh, flagError, Fault, IInv, Types
  <2> QED
    BY <2>1 DEF Traced, Reading
<1> QED
  BY <1>1, <1>2, <1>3, <1>4, <1>5, <1>6, <1>7, <1>8 DEF Program

\* The main program does not move with the line; faults add up.
LEMMA LineKeepsMain ==
    ASSUME \/ SensorChange \/ MissedChange \/ LateChange \/ SensorStops
           \/ \E us \in OddPulses : OddChange(us)
           \/ \E us \in NoiseAt : Noise(us)
    PROVE  /\ UNCHANGED <<pc, errorFlag, printed, answer, leftover>>
           /\ disturbed' = disturbed \/ disturbed' = disturbed + 1
<1>1. CASE SensorChange \/ LateChange
  BY <1>1, Zenon DEF SensorChange, LateChange, main, sensor
<1>2. CASE MissedChange \/ SensorStops
  BY <1>2, Zenon DEF MissedChange, SensorStops, Fault, main
<1>3. CASE \E us \in OddPulses : OddChange(us)
  BY <1>3, Zenon DEF OddChange, Fault, main
<1>4. CASE \E us \in NoiseAt : Noise(us)
  BY <1>4, Zenon DEF Noise, Fault, main
<1> QED
  BY <1>1, <1>2, <1>3, <1>4, Zenon

\* The changes of the line keep it.
LEMMA LineKeepsCourse ==
    ASSUME IInv, DInv,
           \/ SensorChange \/ MissedChange \/ LateChange \/ SensorStops
           \/ \E us \in OddPulses : OddChange(us)
           \/ \E us \in NoiseAt : Noise(us)
    PROVE  DInv'
<1>1. UNCHANGED <<pc, errorFlag, printed, answer, leftover>>
  BY LineKeepsMain, Zenon
<1>2. disturbed \in Nat /\ disturbed' \in Nat /\ disturbed <= disturbed'
  <2>1. disturbed' = disturbed \/ disturbed' = disturbed + 1
    BY LineKeepsMain, Zenon
  <2>2. disturbed \in Nat
    BY DEF IInv, Types
  <2> QED
    BY <2>1, <2>2
<1>3. Traced'
  BY <1>1, <1>2, LineCourse DEF DInv, Traced
<1>4. Requesting'
  <2>1. CASE pc = "request"
    <3>1. /\ wire = <<>> /\ attached /\ ~ intf /\ signalLineChanges \in Nat /\ since = 0
          /\ Types
      BY <2>1 DEF IInv, Silent, Types, DInv, Requesting
    <3>2. PICK us \in NoiseAt : Noise(us)
      BY <3>1 DEF SensorChange, MissedChange, LateChange, SensorStops, OddChange
    <3>3. \E n \in {1, 2} : signalLineChanges' = signalLineChanges + n
      BY <3>1, <3>2, NoiseCounts
    <3>4. since' = 0
      BY <3>1, <3>2, Zenon DEF Noise, LineChanges, sensorLineChange
    <3>5. disturbed' = disturbed + 1
      BY <3>2 DEF Noise, Fault
    <3> QED
      BY <1>2, <3>1, <3>3, <3>4, <3>5 DEF Requesting
  <2>2. CASE pc # "request"
    BY <1>1, <1>2, <2>2 DEF DInv, Requesting
  <2> QED
    BY <2>1, <2>2
<1>5. Flags'
  <2>1. pc = "analyse" => signalLineChanges' = signalLineChanges
    BY StableStep DEF Next, record
  <2> QED
    BY <1>1, <2>1 DEF DInv, Flags
<1>6. PrintedIsAnswer'
  BY <1>1, <1>2 DEF DInv, PrintedIsAnswer
<1> QED
  BY <1>3, <1>4, <1>5, <1>6 DEF DInv

\* The course of a reading is kept by every step.
LEMMA SpecDInv == Spec => [](IInv /\ DInv)
<1>1. ASSUME Init PROVE DInv
  BY <1>1 DEF Init, DInv, Requesting, Traced, Flags, PrintedIsAnswer, Reading
<1>2. ASSUME IInv, DInv, [Next]_vars PROVE DInv'
  <2>1. CASE Next
    BY <1>2, <2>1, ProgramCourse, LineKeepsCourse DEF Next
  <2>2. CASE UNCHANGED vars
    <3>1. Still /\ UNCHANGED <<pc, errorFlag, printed, answer, disturbed, leftover, since, signalLineChanges>>
      BY <2>2 DEF vars, main, record, sensor, Still
    <3>2. Traced'
      BY <1>2, <3>1, CourseKept DEF DInv, Traced
    <3> QED
      BY <1>2, <3>1, <3>2 DEF DInv, Requesting, Flags, PrintedIsAnswer
  <2> QED
    BY <1>2, <2>1, <2>2
<1> QED
  BY <1>1, <1>2, SpecIInv, PTL DEF Spec

\* What loop() prints after at most one fault is what the sensor has sent: the wrong
\* pulse that the count of changes lets pass spoils one byte, and the checksum tells.
THEOREM AnswersOnly == Spec => []PrintedIsAnswer
<1>1. DInv => PrintedIsAnswer
  BY DEF DInv
<1> QED
  BY <1>1, SpecDInv, PTL

\* A reading without a fault is printed if and only if its pulses are accepted,
\* whatever the readings before it met; one that a change is left over for is not.
THEOREM CleanReadings == Spec => CleanIsPrinted
<1> DEFINE Decides == /\ disturbed = 0 => (printed' # <<>> <=> \A r \in answer : Accepted(r))
                      /\ disturbed = 1 /\ leftover = 1 => printed' = <<>>
<1>1. ASSUME IInv, DInv, Next, pc \in {"check", "analyse"}, pc' = "delay"
      PROVE  Decides
  <2>1. Check \/ analyseTimings
    <3>1. CASE Program \/ LineNotHigh
      BY <1>1, <3>1
      DEF Program, readSensor, requestSensorRead, AckLow, AckHigh, pulseIn, Collect, Delay, LineNotHigh
    <3>2. CASE \/ SensorChange \/ MissedChange \/ LateChange \/ SensorStops
               \/ \E us \in OddPulses : OddChange(us)
               \/ \E us \in NoiseAt : Noise(us)
      <4>1. pc' = pc
        BY <3>2, LineKeepsMain, Zenon
      <4> QED
        BY <1>1, <4>1
    <3> QED
      BY <1>1, <3>1, <3>2, Zenon DEF Next
  <2>2. CASE Check
    <3>1. signalLineChanges # Expected /\ printed' = <<>>
      BY <1>1, <2>2 DEF Check, flagError, DInv, Flags
    <3>2. disturbed # 0
      <4>1. ASSUME disturbed = 0 PROVE FALSE
        <5>1. PICK r \in Readings : Course(r)
          BY <1>1, <4>1 DEF DInv, Traced, Reading
        <5>2. Right(r) /\ wire = <<>> /\ Len(wire) = 0 /\ signalLineChanges \in Nat
          BY <1>1, <2>2, <4>1, <5>1 DEF Check, Course, Missed, Off, IInv, Silent, Types
        <5>3. signalLineChanges = Expected
          BY <5>2 DEF Right
        <5> QED
          BY <3>1, <5>3
      <4> QED
        BY <4>1
    <3> QED
      BY <3>1, <3>2
  <2>3. CASE analyseTimings
    <3>1. pc = "analyse" /\ errorFlag = FALSE /\ printed = <<>>
      BY <1>1, <2>3 DEF analyseTimings, DInv, Flags, Reading
    <3>2. printed' # <<>> <=> AllBitsOK /\ ChecksumOK
      <4>1. CASE AllBitsOK /\ ChecksumOK
        <5>1. printed' = <<humid16, Signed(temp16)>>
          BY <2>3, <3>1, <4>1 DEF analyseTimings
        <5> QED
          BY <4>1, <5>1
      <4>2. CASE ~ (AllBitsOK /\ ChecksumOK)
        BY <2>3, <3>1, <4>2 DEF analyseTimings, flagError
      <4> QED
        BY <4>1, <4>2
    <3>3. ASSUME disturbed <= 1
          PROVE  \E r \in Readings :
                    /\ answer = {r} /\ leftover = 0
                    /\ disturbed = 0 => (AllBitsOK <=> Accepted(r)) /\ (AllBitsOK => ChecksumOK)
      BY <1>1, <3>1, <3>3, CompleteRecord, Zenon
    <3>4. CASE disturbed = 0
      <4>1. PICK r \in Readings :
               answer = {r} /\ (AllBitsOK <=> Accepted(r)) /\ (AllBitsOK => ChecksumOK)
        BY <3>3, <3>4
      <4>2. printed' # <<>> <=> Accepted(r)
        BY <3>2, <4>1, Zenon
      <4>3. Accepted(r) <=> \A q \in answer : Accepted(q)
        BY <4>1, Zenon
      <4> QED
        BY <3>4, <4>2, <4>3
    <3>5. CASE disturbed = 1
      <4>1. leftover = 0
        BY <3>3, <3>5
      <4> QED
        BY <3>5, <4>1
    <3>6. CASE disturbed \notin {0, 1}
      BY <3>6
    <3> QED
      BY <3>4, <3>5, <3>6
  <2> QED
    BY <2>1, <2>2, <2>3
<1> HIDE DEF Decides
<1>2. ASSUME IInv, DInv, [Next]_vars
      PROVE  [(pc \in {"check", "analyse"} /\ pc' = "delay") => Decides]_vars
  BY <1>1, <1>2
<1> USE DEF Decides
<1> QED
  BY <1>2, SpecDInv, PTL DEF Spec, CleanIsPrinted

=============================================================================
