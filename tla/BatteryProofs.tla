---------------------------- MODULE BatteryProofs ---------------------------
(***************************************************************************)
(* Proofs about the battery: the protocol of BatterySense on the shared    *)
(* pin and ADC, for any set of threads and any number of samples; the      *)
(* conversions of Readings, for every voltage and every reading; and the   *)
(* drifting gauge of BatteryGauge.                                         *)
(*                                                                         *)
(* DividerOffBetweenReadings needs no assumption on overlaps: every call   *)
(* that leaves the section drives the pin high.  The others need Alone.    *)
(*                                                                         *)
(* A segment of the curve is a line that rises by less than half a percent *)
(* for a count of the ADC.  That, and the order of the corners, is all     *)
(* that is used of kCurve: another calibration with the same two facts     *)
(* keeps every theorem.                                                    *)
(***************************************************************************)
EXTENDS BatterySense, BatteryGauge, TLAPS

-----------------------------------------------------------------------------
(* The protocol.                                                           *)

Measuring(t) == pc[t] \in {"enable", "sample", "count", "release"}

\* Unless readings overlap there is one at most.
Alone ==
  ~overlap => \A t, u \in Threads : Reading(t) /\ Reading(u) => t = u

\* PlaceholderExplained, for every step that may lead to a placeholder.
FailuresTracked ==
  ~overlap => \A t \in Threads :
    /\ SettingUp(t) \/ pc[t] = "latch" => adcFailures = countAtStart[t]
    /\ Measuring(t) => sInit /\ sReady /\ adcFailures = countAtStart[t]
    /\ pc[t] = "placeholder" =>
         /\ sInit
         /\ adcFailures = countAtStart[t] + (IF sReady /\ diagnosticMode THEN 1 ELSE 0)

\* FullAverage, for every step that may lead to a sample.
SamplesCounted ==
  \A t \in Threads :
    /\ SettingUp(t) \/ pc[t] \in {"latch", "enable"} => samples[t] = 0
    /\ pc[t] = "sample" => samples[t] < SampleCount
    /\ pc[t] = "release" => samples[t] = SampleCount

\* The latch is set from the start of the set-up, sReady at its end.  With
\* overlapping readings one thread may set up after the other is ready.
Latched ==
  /\ sReady => sInit
  /\ \A t \in Threads : SettingUp(t) => sInit
  /\ ~overlap => \A t \in Threads : SettingUp(t) \/ pc[t] = "latch" => ~sReady

DividerOn ==
  ~overlap => \A t \in Threads : pc[t] \in {"sample", "release"} => pin = "low"

SafetyInv ==
  /\ TypeOK
  /\ DividerOffBetweenReadings
  /\ Alone
  /\ Latched
  /\ DividerOn
  /\ FailuresTracked
  /\ SamplesCounted

-----------------------------------------------------------------------------
\* The statics and the pin of a boot satisfy the invariant.
LEMMA SafetyInit == Init => SafetyInv
<1> SUFFICES ASSUME Init PROVE SafetyInv
  OBVIOUS
<1>1. \A t \in Threads : pc[t] = "idle"
  BY DEF Init
<1>2. TypeOK
  <2>1. SampleCount \in Nat /\ 0 \in 0..SampleCount
    BY SenseAssumption
  <2>2. samples \in [Threads -> 0..SampleCount] /\ countAtStart \in [Threads -> Nat]
    BY <2>1 DEF Init
  <2>3. pc \in [Threads -> Steps]
    BY DEF Init, Steps
  <2> QED BY <2>2, <2>3 DEF Init, TypeOK
<1>3. DividerOffBetweenReadings /\ Latched
  BY <1>1 DEF Init, DividerOffBetweenReadings, Latched, SettingUp
<1>4. Alone /\ DividerOn /\ FailuresTracked /\ SamplesCounted
  BY <1>1 DEF Alone, Reading, DividerOn, FailuresTracked, SettingUp, Measuring,
     SamplesCounted
<1> QED BY <1>2, <1>3, <1>4 DEF SafetyInv

\* Every step of a reading, and a reset, keep the invariant.
LEMMA SafetyStep == SafetyInv /\ [Next]_vars => SafetyInv'
<1> SUFFICES ASSUME SafetyInv, [Next]_vars PROVE SafetyInv'
  OBVIOUS
<1> USE SenseAssumption DEF SafetyInv
<1>1. ASSUME NEW t \in Threads, StartReading(t) PROVE SafetyInv'
  <2> USE <1>1 DEF StartReading, Begin, MayRead, history, latch
  <2>1. TypeOK'
    BY DEF TypeOK, Steps, Go
  <2>2. \A u \in Threads \ {t} : pc'[u] = pc[u] /\ samples'[u] = samples[u]
                                 /\ countAtStart'[u] = countAtStart[u]
    BY DEF TypeOK, Go
  <2>3. pc'[t] \in {"latch", "enable", "placeholder"} /\ samples'[t] = 0
    BY DEF TypeOK, Go
  <2>4. DividerOffBetweenReadings'
    BY <2>2, <2>3 DEF DividerOffBetweenReadings, At, Reading
  <2>5. Alone'
    BY <2>2 DEF Alone, Reading
  <2>a. ~overlap' => \A u \in Threads \ {t} : pc'[u] = "idle"
    BY <2>2 DEF Reading
  <2>6. DividerOn'
    BY <2>2, <2>3, <2>a DEF DividerOn
  <2>7. FailuresTracked'
    <3>1. pc'[t] = IF ~sInit THEN "latch" ELSE IF sReady THEN "enable" ELSE "placeholder"
      BY DEF TypeOK, Go
    <3>2. countAtStart'[t] = adcFailures /\ adcFailures \in Nat
      BY DEF TypeOK
    <3> QED BY <2>a, <3>1, <3>2 DEF FailuresTracked, SettingUp, Measuring, Latched
  <2>8. SamplesCounted'
    BY <2>2, <2>3 DEF SamplesCounted, SettingUp
  <2>9. Latched'
    <3>1. pc'[t] = "latch" => ~sInit
      BY DEF TypeOK, Go
    <3> QED BY <2>2, <2>3, <2>a, <3>1 DEF Latched, SettingUp
  <2> QED BY <2>1, <2>4, <2>5, <2>6, <2>7, <2>8, <2>9
<1>2. ASSUME NEW t \in Threads, ReadingStep(t) PROVE SafetyInv'
  <2> DEFINE Others == \A u \in Threads \ {t} : pc'[u] = pc[u] /\ samples'[u] = samples[u]
  <2>1. TypeOK'
    <3> USE DEF TypeOK, Steps, Go, latch, history
    <3>1. CASE SetLatch(t) \/ SetUpFails(t) \/ ConfigurePin(t) \/ Deselect(t) \/ SetUpChannel(t)
      BY <3>1 DEF SetLatch, SetUpFails, ConfigurePin, Deselect, SetUpChannel
    <3>2. CASE Enable(t) \/ SampleFails(t) \/ CountFailure(t) \/ Release(t)
      BY <3>2 DEF Enable, SampleFails, CountFailure, Release
    <3>3. CASE Sample(t)
      <4>1. samples[t] < SampleCount
        BY <3>3 DEF Sample, SamplesCounted
      <4>2. samples' \in [Threads -> 0..SampleCount]
        BY <3>3, <4>1 DEF Sample
      <4>3. pc' \in [Threads -> Steps]
        BY <3>3 DEF Sample
      <4> QED BY <3>3, <4>2, <4>3 DEF Sample
    <3>4. CASE ReadBatteryVoltsPlaceholder(t)
      BY <3>4 DEF ReadBatteryVoltsPlaceholder
    <3> QED BY <1>2, <3>1, <3>2, <3>3, <3>4 DEF ReadingStep
  <2>2. Others /\ Reading(t) /\ UNCHANGED <<countAtStart, overlap>>
    BY <1>2 DEF ReadingStep, TypeOK, Go, history, Reading, SetLatch, SetUpFails,
       ConfigurePin, Deselect, SetUpChannel, Enable, Sample, SampleFails, CountFailure, Release,
       ReadBatteryVoltsPlaceholder
  <2>3. Alone'
    BY <2>2 DEF Alone, Reading
  <2>4. ~overlap => \A u \in Threads \ {t} : pc'[u] = "idle"
    BY <2>2 DEF Alone, Reading
  <2> HIDE DEF Others
  <2> USE DEF TypeOK, Go, latch, history, Latched
  <2>15. CASE SetLatch(t)
    BY <2>15, <2>1, <2>2, <2>3, <2>4
       DEF SetLatch, DividerOffBetweenReadings, At, DividerOn, FailuresTracked,
           SamplesCounted, SettingUp, Measuring, Others
  <2>5. CASE SetUpFails(t)
    BY <2>5, <2>1, <2>2, <2>3, <2>4
       DEF SetUpFails, DividerOffBetweenReadings, At, DividerOn, FailuresTracked,
           SamplesCounted, SettingUp, Measuring, Others
  <2>6. CASE ConfigurePin(t)
    BY <2>6, <2>1, <2>2, <2>3, <2>4
       DEF ConfigurePin, DividerOffBetweenReadings, At, DividerOn, FailuresTracked,
           SamplesCounted, SettingUp, Measuring, Others
  <2>7. CASE Deselect(t)
    BY <2>7, <2>1, <2>2, <2>3, <2>4
       DEF Deselect, DividerOffBetweenReadings, At, DividerOn, FailuresTracked,
           SamplesCounted, SettingUp, Measuring, Others
  <2>8. CASE SetUpChannel(t)
    <3>1. DividerOffBetweenReadings'
      BY <2>8, <2>1, <2>2 DEF SetUpChannel, DividerOffBetweenReadings, At, Others
    <3>2. DividerOn'
      BY <2>8, <2>1, <2>2, <2>4 DEF SetUpChannel, DividerOn
    <3>3. SettingUp(t) /\ (~overlap => ~sReady)
      BY <2>8 DEF SetUpChannel, SettingUp
    <3>4. /\ pc'[t] \in {"enable", "placeholder"}
          /\ ~overlap => pc'[t] = (IF sReady' THEN "enable" ELSE "placeholder")
      BY <2>8, <3>3 DEF SetUpChannel
    <3>5. FailuresTracked'
      BY <2>8, <2>1, <2>2, <2>4, <3>3, <3>4
         DEF SetUpChannel, FailuresTracked, SettingUp, Measuring
    <3>6. SamplesCounted'
      BY <2>8, <2>2, <3>3, <3>4 DEF SetUpChannel, SamplesCounted, SettingUp, Others
    <3>7. ~overlap => \A u \in Threads : ~(SettingUp(u)') /\ pc'[u] # "latch"
      BY <2>1, <2>4, <3>4 DEF SettingUp
    <3>8. Latched'
      BY <2>8, <2>2, <3>3, <3>4, <3>7 DEF SetUpChannel, SettingUp, Others
    <3> QED BY <2>1, <2>3, <3>1, <3>2, <3>5, <3>6, <3>8
  <2>9. CASE Enable(t)
    BY <2>9, <2>1, <2>2, <2>3, <2>4
       DEF Enable, DividerOffBetweenReadings, At, DividerOn, FailuresTracked,
           SamplesCounted, SettingUp, Measuring, Others
  <2>10. CASE Sample(t)
    BY <2>10, <2>1, <2>2, <2>3, <2>4
       DEF Sample, DividerOffBetweenReadings, At, DividerOn, FailuresTracked,
           SamplesCounted, SettingUp, Measuring, Others
  <2>11. CASE SampleFails(t)
    BY <2>11, <2>1, <2>2, <2>3, <2>4
       DEF SampleFails, DividerOffBetweenReadings, At, DividerOn, FailuresTracked,
           SamplesCounted, SettingUp, Measuring, Others
  <2>12. CASE CountFailure(t)
    BY <2>12, <2>1, <2>2, <2>3, <2>4
       DEF CountFailure, DividerOffBetweenReadings, At, DividerOn, FailuresTracked,
           SamplesCounted, SettingUp, Measuring, Others
  <2>13. CASE Release(t)
    BY <2>13, <2>1, <2>2, <2>3, <2>4
       DEF Release, DividerOffBetweenReadings, At, DividerOn, FailuresTracked,
           SamplesCounted, SettingUp, Measuring, Others
  <2>14. CASE ReadBatteryVoltsPlaceholder(t)
    BY <2>14, <2>1, <2>2, <2>3, <2>4
       DEF ReadBatteryVoltsPlaceholder, DividerOffBetweenReadings, At, DividerOn,
           FailuresTracked, SamplesCounted, SettingUp, Measuring, Others
  <2> QED BY <1>2, <2>5, <2>6, <2>7, <2>8, <2>9, <2>10, <2>11, <2>12, <2>13, <2>14, <2>15
          DEF ReadingStep
<1>3. CASE Reset
  <2>1. \A t \in Threads : pc'[t] = "idle"
    BY <1>3 DEF Reset
  <2>2. TypeOK'
    <3>1. SampleCount \in Nat /\ 0 \in 0..SampleCount
      OBVIOUS
    <3>2. samples' \in [Threads -> 0..SampleCount] /\ countAtStart' \in [Threads -> Nat]
      BY <1>3, <3>1 DEF Reset, TypeOK
    <3>3. pc' \in [Threads -> Steps]
      BY <1>3 DEF Reset, Steps
    <3>4. adcFailures' \in Nat
      BY <1>3 DEF Reset
    <3> QED BY <1>3, <3>2, <3>3, <3>4 DEF Reset, TypeOK
  <2>3. DividerOffBetweenReadings' /\ Latched'
    BY <1>3, <2>1 DEF Reset, DividerOffBetweenReadings, Latched, SettingUp
  <2>4. Alone' /\ DividerOn' /\ FailuresTracked' /\ SamplesCounted'
    BY <2>1 DEF Alone, Reading, DividerOn, FailuresTracked, SettingUp, Measuring,
       SamplesCounted
  <2> QED BY <2>2, <2>3, <2>4
<1>4. CASE UNCHANGED vars
  BY <1>4 DEF vars, latch, history, TypeOK, DividerOffBetweenReadings, At, Alone, Reading,
     Latched, DividerOn, FailuresTracked, SettingUp, Measuring, SamplesCounted
<1> QED BY <1>1, <1>2, <1>3, <1>4 DEF Next

\* The invariant of every behaviour.
THEOREM SafetyHolds == Spec => []SafetyInv
  BY SafetyInit, SafetyStep, PTL DEF Spec

\* Type correctness of the battery measurement.
THEOREM TypeCorrect == Spec => []TypeOK
<1>1. SafetyInv => TypeOK
  BY DEF SafetyInv
<1> QED BY <1>1, SafetyHolds, PTL

\* Whatever fails and however readings overlap, the divider draws current
\* only inside a reading or a set-up.
THEOREM DividerOff == Spec => []DividerOffBetweenReadings
<1>1. SafetyInv => DividerOffBetweenReadings
  BY DEF SafetyInv
<1> QED BY <1>1, SafetyHolds, PTL

\* Readings that do not overlap sample the battery and nothing else.
THEOREM SamplesTheBattery == Spec => []SampledWithDividerOn
<1>1. SafetyInv => SampledWithDividerOn
  BY DEF SafetyInv, DividerOn, SampledWithDividerOn, At
<1> QED BY <1>1, SafetyHolds, PTL

\* In a diagnostic build a placeholder voltage has a counted failure or a
\* failed set-up behind it; in any other the count rests.
THEOREM PlaceholderAccounted == Spec => []PlaceholderExplained
<1>1. SafetyInv => PlaceholderExplained
  <2> SUFFICES ASSUME SafetyInv, ~overlap, NEW t \in Threads, pc[t] = "placeholder"
               PROVE  /\ sInit
                      /\ sReady /\ diagnosticMode => adcFailures = countAtStart[t] + 1
                      /\ ~(sReady /\ diagnosticMode) => adcFailures = countAtStart[t]
    BY DEF PlaceholderExplained, At
  <2>1. adcFailures \in Nat /\ countAtStart[t] \in Nat
    BY DEF SafetyInv, TypeOK
  <2>2. sInit /\ adcFailures = countAtStart[t] + (IF sReady /\ diagnosticMode THEN 1 ELSE 0)
    BY DEF SafetyInv, FailuresTracked
  <2> QED BY <2>1, <2>2
<1> QED BY <1>1, SafetyHolds, PTL

\* The average is of SampleCount samples.
THEOREM AverageIsFull == Spec => []FullAverage
<1>1. SafetyInv => FullAverage
  BY DEF SafetyInv, SamplesCounted, FullAverage, At
<1> QED BY <1>1, SafetyHolds, PTL

-----------------------------------------------------------------------------
(* The conversions and the gauge.                                          *)

\* The corners fall strictly in volts and never rise in percent, and one
\* count of the ADC is worth less than half a percent in every segment.
LEMMA CurveFalls ==
  \A i \in Segments :
    /\ kCurve[i].v \in Int /\ kCurve[i + 1].v \in Int
    /\ kCurve[i].p \in Int /\ kCurve[i + 1].p \in Int
    /\ kCurve[i].v > kCurve[i + 1].v
    /\ kCurve[i].p >= kCurve[i + 1].p
    /\ 2 * (UnitsPerCount * (kCurve[i].p - kCurve[i + 1].p)) < kCurve[i].v - kCurve[i + 1].v
    /\ 0 <= kCurve[i + 1].p /\ kCurve[i].p <= 100
    /\ kCurve[i + 1].v >= Millivolts(3000) /\ kCurve[i].v <= Millivolts(4140)
  BY SMT DEF Segments, kCurve, Vp, Millivolts, VoltUnit, UnitsPerCount

\* Rounded division by a positive divisor, as two inequalities.
LEMMA RoundDivBounds ==
  ASSUME NEW n \in Int, NEW d \in Int, d > 0
  PROVE  LET q == RoundDiv(n, d)
         IN  /\ q \in Int
             /\ (2 * d) * q <= 2 * n + d
             /\ 2 * n + d < (2 * d) * (q + 1)
<1>1. 2 * d \in Int /\ 2 * d > 0 /\ 2 * n + d \in Int
  OBVIOUS
<1>2. \A x, e \in Int : e > 0 =>
        /\ x \div e \in Int
        /\ e * (x \div e) <= x
        /\ x < e * (x \div e) + e
  BY SMT
<1>3. \A e, q \in Int : e * q + e = e * (q + 1)
  BY SMT
<1> QED BY <1>1, <1>2, <1>3 DEF RoundDiv

\* A positive factor cancels from an inequality.
LEMMA Cancel ==
  ASSUME NEW d \in Int, d > 0, NEW m \in Int, NEW n \in Int, d * m < d * n
  PROVE  m < n
  BY SMT

\* A product grows with either factor.
LEMMA Grows ==
  ASSUME NEW k \in Int, k >= 0, NEW x \in Int, NEW y \in Int, x <= y
  PROVE  x * k <= y * k
  BY SMT

-----------------------------------------------------------------------------
\* A line from (0, 0) to (d, k), rounded: it stays between its ends, never
\* falls, and a step of at most u moves it by at most one, and not at all
\* next to an end.
Line(d, k, u, x, y) ==
  LET q == RoundDiv(x * k, d)
      r == RoundDiv(y * k, d)
  IN  /\ q \in Int /\ r \in Int
      /\ 0 <= q /\ q <= r /\ r <= k
      /\ x <= u => q = 0
      /\ d - y <= u => r = k
      /\ y - x <= u => r <= q + 1

\* It does if a step of u is worth less than a half.
LEMMA RoundedLine ==
  ASSUME NEW d \in Int, d > 0, NEW k \in Int, k >= 0,
         NEW u \in Int, u >= 0, 2 * (u * k) < d,
         NEW x \in Int, NEW y \in Int, 0 <= x, x <= y, y <= d
  PROVE  Line(d, k, u, x, y)
<1> DEFINE a == x * k
           b == y * k
           q == RoundDiv(a, d)
           r == RoundDiv(b, d)
           e == 2 * d
<1>1. a \in Int /\ b \in Int /\ u * k \in Int /\ d * k \in Int /\ e \in Int /\ e > 0
  OBVIOUS
<1>2. 0 <= a /\ a <= b /\ b <= d * k
  <2>1. 0 * k <= x * k /\ x * k <= y * k /\ y * k <= d * k
    BY Grows
  <2> QED BY <2>1
<1>3. q \in Int /\ e * q <= 2 * a + d /\ 2 * a + d < e * (q + 1)
  BY <1>1, RoundDivBounds
<1>4. r \in Int /\ e * r <= 2 * b + d /\ 2 * b + d < e * (r + 1)
  BY <1>1, RoundDivBounds
<1>5. x <= u => a <= u * k
  BY Grows
<1>6. d - y <= u => d * k - u * k <= b
  <2>1. d - u <= y => (d - u) * k <= y * k
    BY Grows
  <2>2. (d - u) * k = d * k - u * k
    BY SMT
  <2> QED BY <2>1, <2>2
<1>7. y - x <= u => b - a <= u * k
  <2>1. y - x <= u => (y - x) * k <= u * k
    BY Grows
  <2>2. (y - x) * k = y * k - x * k
    BY SMT
  <2> QED BY <2>1, <2>2
<1>8. e * 0 = 0 /\ e * 1 = 2 * d /\ e * k = 2 * (d * k) /\ e * (k + 1) = 2 * (d * k) + 2 * d
      /\ e * (q + 2) = e * (q + 1) + 2 * d /\ e * (q + 1) \in Int /\ e * (r + 1) \in Int
      /\ e * q \in Int /\ e * r \in Int
  BY <1>1, <1>3, <1>4, SMT
<1> HIDE DEF a, b, q, r, e
<1>9. 0 < q + 1
  <2>1. e * 0 < e * (q + 1)
    BY <1>1, <1>2, <1>3, <1>8
  <2> QED BY ONLY <2>1, <1>1, <1>3, Cancel
<1>10. q < r + 1
  <2>1. e * q < e * (r + 1)
    BY <1>1, <1>2, <1>3, <1>4, <1>8
  <2> QED BY ONLY <2>1, <1>1, <1>3, <1>4, Cancel
<1>11. r < k + 1
  <2>1. e * r < e * (k + 1)
    BY <1>1, <1>2, <1>4, <1>8
  <2> QED BY <2>1, <1>1, <1>4, Cancel
<1>12. x <= u => q < 1
  <2>1. x <= u => e * q < e * 1
    BY <1>1, <1>2, <1>3, <1>5, <1>8
  <2> QED BY <2>1, <1>1, <1>3, Cancel
<1>13. d - y <= u => k < r + 1
  <2>1. d - y <= u => e * k < e * (r + 1)
    BY <1>1, <1>2, <1>4, <1>6, <1>8
  <2> QED BY <2>1, <1>1, <1>4, Cancel
<1>14. y - x <= u => r < q + 2
  <2>1. y - x <= u => e * r < e * (q + 2)
    BY <1>1, <1>2, <1>3, <1>4, <1>7, <1>8
  <2> QED BY <2>1, <1>1, <1>3, <1>4, Cancel
<1>15. /\ q \in Int /\ r \in Int
       /\ 0 <= q /\ q <= r /\ r <= k
       /\ x <= u => q = 0
       /\ d - y <= u => r = k
       /\ y - x <= u => r <= q + 1
  BY <1>3, <1>4, <1>9, <1>10, <1>11, <1>12, <1>13, <1>14
<1> QED BY <1>15 DEF Line, a, b, q, r

-----------------------------------------------------------------------------
\* Inside its segment, the percentage lies between those of the corners,
\* never falls, moves by at most one for a count of the ADC, and is that of
\* the corner within a count of a corner.
LEMMA SegmentShape ==
  ASSUME NEW i \in Segments, NEW v \in Int, NEW w \in Int,
         kCurve[i + 1].v <= v, v <= w, w <= kCurve[i].v
  PROVE  /\ Interpolate(i, v) \in Int /\ Interpolate(i, w) \in Int
         /\ kCurve[i + 1].p <= Interpolate(i, v)
         /\ Interpolate(i, v) <= Interpolate(i, w)
         /\ Interpolate(i, w) <= kCurve[i].p
         /\ v - kCurve[i + 1].v <= UnitsPerCount => Interpolate(i, v) = kCurve[i + 1].p
         /\ kCurve[i].v - w <= UnitsPerCount => Interpolate(i, w) = kCurve[i].p
         /\ w - v <= UnitsPerCount => Interpolate(i, w) <= Interpolate(i, v) + 1
<1> DEFINE lo == kCurve[i + 1]
           d == kCurve[i].v - lo.v
           k == kCurve[i].p - lo.p
           x == v - lo.v
           y == w - lo.v
<1>1. /\ lo.v \in Int /\ lo.p \in Int /\ kCurve[i].v \in Int /\ kCurve[i].p \in Int
      /\ d \in Int /\ d > 0 /\ k \in Int /\ k >= 0 /\ 2 * (UnitsPerCount * k) < d
  BY CurveFalls
<1>2. x \in Int /\ y \in Int /\ 0 <= x /\ x <= y /\ y <= d
  BY <1>1
<1>3. Interpolate(i, v) = lo.p + RoundDiv(x * k, d)
  BY DEF Interpolate
<1>4. Interpolate(i, w) = lo.p + RoundDiv(y * k, d)
  BY DEF Interpolate
<1>5. UnitsPerCount \in Int /\ UnitsPerCount >= 0
  BY DEF UnitsPerCount
<1>6. /\ d - y = kCurve[i].v - w /\ y - x = w - v
      /\ lo.p + k = kCurve[i].p
  BY <1>1
<1> HIDE DEF lo, d, k, x, y
<1>7. /\ RoundDiv(x * k, d) \in Int /\ RoundDiv(y * k, d) \in Int
      /\ 0 <= RoundDiv(x * k, d) /\ RoundDiv(x * k, d) <= RoundDiv(y * k, d)
      /\ RoundDiv(y * k, d) <= k
      /\ x <= UnitsPerCount => RoundDiv(x * k, d) = 0
      /\ d - y <= UnitsPerCount => RoundDiv(y * k, d) = k
      /\ y - x <= UnitsPerCount => RoundDiv(y * k, d) <= RoundDiv(x * k, d) + 1
  <2>2. Line(d, k, UnitsPerCount, x, y)
    BY ONLY <1>1, <1>2, <1>5, RoundedLine
  <2> QED BY <2>2 DEF Line
<1> DEFINE q == RoundDiv(x * k, d)
           r == RoundDiv(y * k, d)
<1> HIDE DEF q, r
<1>8. /\ q \in Int /\ r \in Int /\ 0 <= q /\ q <= r /\ r <= k
      /\ x <= UnitsPerCount => q = 0
      /\ kCurve[i].v - w <= UnitsPerCount => r = k
      /\ w - v <= UnitsPerCount => r <= q + 1
      /\ Interpolate(i, v) = lo.p + q /\ Interpolate(i, w) = lo.p + r
  BY <1>3, <1>4, <1>6, <1>7 DEF q, r
<1>9. /\ Interpolate(i, v) \in Int /\ Interpolate(i, w) \in Int
      /\ lo.p <= Interpolate(i, v)
      /\ Interpolate(i, v) <= Interpolate(i, w)
      /\ Interpolate(i, w) <= lo.p + k
      /\ x <= UnitsPerCount => Interpolate(i, v) = lo.p
      /\ kCurve[i].v - w <= UnitsPerCount => Interpolate(i, w) = lo.p + k
      /\ w - v <= UnitsPerCount => Interpolate(i, w) <= Interpolate(i, v) + 1
  BY ONLY <1>1, <1>8
<1> QED BY <1>6, <1>9 DEF lo, x

\* Between the ends of the curve some segment covers the voltage and decides
\* the percentage.
LEMMA CoveredBySegment ==
  ASSUME NEW v \in Int, Millivolts(3000) < v, v < Millivolts(4140)
  PROVE  \E i \in Segments : Covers(i, v) /\ VoltsToPercent(v) = Interpolate(i, v)
<1> DEFINE First(i) == Covers(i, v) /\ \A j \in 1..(i - 1) : ~Covers(j, v)
<1>1. \E i \in Segments : First(i)
  <2> DEFINE Above(i) == v <= kCurve[i].v /\ v >= kCurve[i + 1].v
                         /\ \A j \in 1..(i - 1) : v < kCurve[j + 1].v
  <2>1. \E i \in Segments : Above(i)
    <3>1. CASE kCurve[2].v <= v
      <4>1. Above(1)
        BY <3>1, SMT DEF kCurve, Vp, Millivolts, VoltUnit
      <4> QED BY <4>1 DEF Segments
    <3>2. CASE v < kCurve[2].v /\ kCurve[3].v <= v
      <4>1. Above(2)
        BY <3>2, SMT DEF kCurve, Vp, Millivolts, VoltUnit
      <4> QED BY <4>1 DEF Segments
    <3>3. CASE v < kCurve[3].v /\ kCurve[4].v <= v
      <4>1. Above(3)
        BY <3>3, SMT DEF kCurve, Vp, Millivolts, VoltUnit
      <4> QED BY <4>1 DEF Segments
    <3>4. CASE v < kCurve[4].v /\ kCurve[5].v <= v
      <4>1. Above(4)
        BY <3>4, SMT DEF kCurve, Vp, Millivolts, VoltUnit
      <4> QED BY <4>1 DEF Segments
    <3>5. CASE v < kCurve[5].v /\ kCurve[6].v <= v
      <4>1. Above(5)
        BY <3>5, SMT DEF kCurve, Vp, Millivolts, VoltUnit
      <4> QED BY <4>1 DEF Segments
    <3>6. CASE v < kCurve[6].v /\ kCurve[7].v <= v
      <4>1. Above(6)
        BY <3>6, SMT DEF kCurve, Vp, Millivolts, VoltUnit
      <4> QED BY <4>1 DEF Segments
    <3>7. CASE v < kCurve[7].v /\ kCurve[8].v <= v
      <4>1. Above(7)
        BY <3>7, SMT DEF kCurve, Vp, Millivolts, VoltUnit
      <4> QED BY <4>1 DEF Segments
    <3>8. CASE v < kCurve[8].v /\ kCurve[9].v <= v
      <4>1. Above(8)
        BY <3>8, SMT DEF kCurve, Vp, Millivolts, VoltUnit
      <4> QED BY <4>1 DEF Segments
    <3>9. CASE v < kCurve[9].v /\ kCurve[10].v <= v
      <4>1. Above(9)
        BY <3>9, SMT DEF kCurve, Vp, Millivolts, VoltUnit
      <4> QED BY <4>1 DEF Segments
    <3>10. CASE v < kCurve[10].v /\ kCurve[11].v <= v
      <4>1. Above(10)
        BY <3>10, SMT DEF kCurve, Vp, Millivolts, VoltUnit
      <4> QED BY <4>1 DEF Segments
    <3>11. CASE v < kCurve[11].v /\ kCurve[12].v <= v
      <4>1. Above(11)
        BY <3>11, SMT DEF kCurve, Vp, Millivolts, VoltUnit
      <4> QED BY <4>1 DEF Segments
    <3> HIDE DEF Above
    <3>13. \/ kCurve[2].v <= v
           \/ \E i \in 2..11 : v < kCurve[i].v /\ kCurve[i + 1].v <= v
      BY SMT DEF kCurve, Vp, Millivolts, VoltUnit
    <3>14. \A i \in 2..11 : i = 2 \/ i = 3 \/ i = 4 \/ i = 5 \/ i = 6 \/ i = 7 \/ i = 8
                             \/ i = 9 \/ i = 10 \/ i = 11
      BY SMT
    <3>15. /\ 2 + 1 = 3 /\ 3 + 1 = 4 /\ 4 + 1 = 5 /\ 5 + 1 = 6 /\ 6 + 1 = 7 /\ 7 + 1 = 8
           /\ 8 + 1 = 9 /\ 9 + 1 = 10 /\ 10 + 1 = 11 /\ 11 + 1 = 12
      BY SMT
    <3> QED BY <3>1, <3>2, <3>3, <3>4, <3>5, <3>6, <3>7, <3>8, <3>9, <3>10, <3>11,
               <3>13, <3>14, <3>15
  <2> QED
    <3> PICK i \in Segments : v <= kCurve[i].v /\ v >= kCurve[i + 1].v
                              /\ \A j \in 1..(i - 1) : v < kCurve[j + 1].v
      BY <2>1
    <3>1. \A j \in 1..(i - 1) : ~Covers(j, v)
      <4> SUFFICES ASSUME NEW j \in 1..(i - 1) PROVE ~Covers(j, v)
        OBVIOUS
      <4>1. j \in Segments
        BY DEF Segments
      <4> QED BY <4>1, CurveFalls DEF Covers
    <3> QED BY <3>1 DEF Covers
<1> DEFINE c == CHOOSE i \in Segments : First(i)
<1>2. c \in Segments /\ First(c)
  BY <1>1
<1>3. VoltsToPercent(v) = Interpolate(c, v)
  <2>1. ~(v >= Millivolts(4140)) /\ ~(v <= Millivolts(3000))
    BY DEF Millivolts, VoltUnit
  <2> QED BY <1>2, <2>1 DEF VoltsToPercent
<1>4. Covers(c, v)
  BY <1>2
<1> HIDE DEF c, First
<1> QED BY <1>2, <1>3, <1>4

\* Corners of a higher number are lower, by more than a count of the ADC.
LEMMA CornerOrder ==
  \A i, j \in 1..12 : i < j =>
    /\ kCurve[i].v - kCurve[j].v > UnitsPerCount
    /\ kCurve[i].p >= kCurve[j].p
  BY SMTT(60) DEF kCurve, Vp, Millivolts, VoltUnit, UnitsPerCount

\* The ends of the curve.
LEMMA CurveEnds ==
  /\ kCurve[1].v = Millivolts(4140) /\ kCurve[1].p = 100
  /\ kCurve[12].v = Millivolts(3000) /\ kCurve[12].p = 0
  /\ \A i \in 1..12 : /\ kCurve[i].v \in Int /\ kCurve[i].p \in Int
                       /\ kCurve[i].p >= 0 /\ kCurve[i].p <= 100
  /\ Millivolts(4140) \in Int /\ Millivolts(3000) \in Int
  /\ Millivolts(3000) + UnitsPerCount < Millivolts(4140) - UnitsPerCount
  /\ UnitsPerCount \in Int /\ UnitsPerCount > 0
  BY SMT DEF kCurve, Vp, Millivolts, VoltUnit, UnitsPerCount

-----------------------------------------------------------------------------
\* What a voltage reads outside the curve, inside it, and next to its ends.
LEMMA PercentOf ==
  ASSUME NEW v \in Int
  PROVE  /\ VoltsToPercent(v) \in 0..100
         /\ v > Millivolts(4140) - UnitsPerCount - 1 => VoltsToPercent(v) = 100
         /\ v < Millivolts(3000) + UnitsPerCount + 1 => VoltsToPercent(v) = 0
<1> USE CurveEnds
<1>1. CASE v >= Millivolts(4140)
  <2>1. VoltsToPercent(v) = 100
    BY <1>1 DEF VoltsToPercent
  <2>2. ~(v < Millivolts(3000) + UnitsPerCount + 1)
    BY <1>1
  <2> QED BY <2>1, <2>2
<1>2. CASE v <= Millivolts(3000)
  <2>1. ~(v >= Millivolts(4140)) /\ ~(v > Millivolts(4140) - UnitsPerCount - 1)
    BY <1>2
  <2>2. VoltsToPercent(v) = 0
    BY <1>2, <2>1 DEF VoltsToPercent
  <2> QED BY <2>1, <2>2
<1>3. CASE Millivolts(3000) < v /\ v < Millivolts(4140)
  <2> PICK i \in Segments : Covers(i, v) /\ VoltsToPercent(v) = Interpolate(i, v)
    BY <1>3, CoveredBySegment
  <2>1. i \in 1..12 /\ i + 1 \in 1..12 /\ kCurve[i + 1].v <= v /\ v <= kCurve[i].v
    BY DEF Segments, Covers
  <2>2. /\ Interpolate(i, v) \in Int
        /\ kCurve[i + 1].p <= Interpolate(i, v) /\ Interpolate(i, v) <= kCurve[i].p
        /\ v - kCurve[i + 1].v <= UnitsPerCount => Interpolate(i, v) = kCurve[i + 1].p
        /\ kCurve[i].v - v <= UnitsPerCount => Interpolate(i, v) = kCurve[i].p
    <3>1. v <= v
      OBVIOUS
    <3> QED BY ONLY <2>1, <3>1, SegmentShape
  <2>3. VoltsToPercent(v) \in 0..100
    <3>1. kCurve[i + 1].p \in Int /\ kCurve[i + 1].p >= 0
          /\ kCurve[i].p \in Int /\ kCurve[i].p <= 100
      BY ONLY <2>1, CurveEnds
    <3> QED BY ONLY <2>2, <3>1, VoltsToPercent(v) = Interpolate(i, v)
  <2>4. ASSUME v > Millivolts(4140) - UnitsPerCount - 1 PROVE VoltsToPercent(v) = 100
    <3>1. i = 1
      BY <2>1, <2>4, CornerOrder DEF Segments
    <3> QED BY <2>1, <2>2, <2>4, <3>1
  <2>5. ASSUME v < Millivolts(3000) + UnitsPerCount + 1 PROVE VoltsToPercent(v) = 0
    <3>1. i + 1 = 12
      BY <2>1, <2>5, CornerOrder DEF Segments
    <3> QED BY <2>1, <2>2, <2>5, <3>1
  <2> QED BY <2>3, <2>4, <2>5
<1> QED BY <1>1, <1>2, <1>3

\* A higher voltage never reads a lower percentage, and one that is higher by
\* no more than a count of the ADC reads at most one percent more.
THEOREM PercentMonotone ==
  ASSUME NEW v \in Int, NEW w \in Int, v <= w
  PROVE  /\ VoltsToPercent(v) <= VoltsToPercent(w)
         /\ w - v <= UnitsPerCount => VoltsToPercent(w) <= VoltsToPercent(v) + 1
<1> USE CurveEnds
<1>1. VoltsToPercent(v) \in 0..100 /\ VoltsToPercent(w) \in 0..100
  BY PercentOf
<1>2. CASE w >= Millivolts(4140)
  <2>1. VoltsToPercent(w) = 100 /\ (w - v <= UnitsPerCount => VoltsToPercent(v) = 100)
    BY <1>2, PercentOf
  <2> QED BY <1>1, <2>1
<1>3. CASE v <= Millivolts(3000)
  <2>1. VoltsToPercent(v) = 0 /\ (w - v <= UnitsPerCount => VoltsToPercent(w) = 0)
    BY <1>3, PercentOf
  <2> QED BY <1>1, <2>1
<1>4. CASE Millivolts(3000) < v /\ w < Millivolts(4140)
  <2> PICK i \in Segments : Covers(i, v) /\ VoltsToPercent(v) = Interpolate(i, v)
    BY <1>4, CoveredBySegment
  <2> PICK j \in Segments : Covers(j, w) /\ VoltsToPercent(w) = Interpolate(j, w)
    BY <1>4, CoveredBySegment
  <2>1. /\ i \in 1..12 /\ i + 1 \in 1..12 /\ kCurve[i + 1].v <= v /\ v <= kCurve[i].v
        /\ j \in 1..12 /\ j + 1 \in 1..12 /\ kCurve[j + 1].v <= w /\ w <= kCurve[j].v
    BY DEF Segments, Covers
  <2>2. CASE i = j
    <3>1. /\ Interpolate(i, v) <= Interpolate(i, w)
          /\ w - v <= UnitsPerCount => Interpolate(i, w) <= Interpolate(i, v) + 1
      BY ONLY <2>1, <2>2, v \in Int, w \in Int, v <= w, i \in Segments, SegmentShape
    <3> QED BY <2>2, <3>1
  <2>3. CASE j < i
    <3>1. /\ Interpolate(i, v) \in Int /\ Interpolate(i, v) <= kCurve[i].p
          /\ kCurve[i].v - v <= UnitsPerCount => Interpolate(i, v) = kCurve[i].p
      BY ONLY <2>1, v \in Int, v <= v, i \in Segments, SegmentShape
    <3>2. /\ Interpolate(j, w) \in Int /\ kCurve[j + 1].p <= Interpolate(j, w)
          /\ w - kCurve[j + 1].v <= UnitsPerCount => Interpolate(j, w) = kCurve[j + 1].p
      BY ONLY <2>1, w \in Int, w <= w, j \in Segments, SegmentShape
    <3>3. \/ j + 1 = i
          \/ j + 1 < i /\ kCurve[j + 1].v - kCurve[i].v > UnitsPerCount
                       /\ kCurve[j + 1].p >= kCurve[i].p
      BY <2>1, <2>3, CornerOrder DEF Segments
    <3>4. /\ kCurve[i].v \in Int /\ kCurve[j + 1].v \in Int
          /\ kCurve[i].p \in Int /\ kCurve[j + 1].p \in Int
      BY ONLY <2>1, CurveEnds
    <3> DEFINE p == Interpolate(i, v)
               q == Interpolate(j, w)
    <3>5. p = VoltsToPercent(v) /\ q = VoltsToPercent(w)
      OBVIOUS
    <3> HIDE DEF p, q
    <3>6. p <= q /\ (w - v <= UnitsPerCount => q <= p + 1)
      <4>1. CASE j + 1 = i
        <5>1. kCurve[j + 1] = kCurve[i]
          BY <4>1
        <5> QED BY ONLY <2>1, <3>1, <3>2, <3>4, <5>1, CurveEnds,
                        v \in Int, w \in Int, v <= w DEF p, q
      <4>2. CASE /\ j + 1 < i /\ kCurve[j + 1].v - kCurve[i].v > UnitsPerCount
                 /\ kCurve[j + 1].p >= kCurve[i].p
        BY ONLY <2>1, <3>1, <3>2, <3>4, <4>2, CurveEnds,
                v \in Int, w \in Int, v <= w DEF p, q
      <4> QED BY <3>3, <4>1, <4>2
    <3> QED BY <3>5, <3>6
  <2>4. CASE i < j
    <3>1. v = w
      <4>1. i + 1 = j \/ (i + 1 < j /\ kCurve[i + 1].v - kCurve[j].v > UnitsPerCount)
        BY <2>1, <2>4, CornerOrder DEF Segments
      <4>2. CASE i + 1 = j
        BY <2>1, <4>2
      <4>3. CASE i + 1 < j /\ kCurve[i + 1].v - kCurve[j].v > UnitsPerCount
        BY <2>1, <4>3
      <4> QED BY <4>1, <4>2, <4>3
    <3> QED BY <3>1, <1>1
  <2>5. i \in Int /\ j \in Int
    BY DEF Segments
  <2> QED BY <2>2, <2>3, <2>4, <2>5
<1> QED BY <1>2, <1>3, <1>4

-----------------------------------------------------------------------------
\* BatPercentRemaining never wraps: it is a whole charge twice, of 200 at most.
LEMMA HalfPercentExact ==
  \A pct \in 0..100 : HalfPercent(pct) = 2 * pct
  BY DEF HalfPercent

\* The readings a SHT4x can produce, -45 C to 130 C, survive the narrowing to
\* int16_t.
THEOREM TemperatureExact ==
  ASSUME NEW micro \in Int, -45000000 <= micro, micro <= 130000000
  PROVE  CurrentTemperature(micro) = Centi(micro)
<1>1. Centi(micro) \in Int /\ -4500 <= Centi(micro) /\ Centi(micro) <= 13000
  BY SMT DEF Centi, RoundDiv
<1> HIDE DEF Centi
<1> QED BY <1>1, SMT DEF CurrentTemperature, ToInt16

\* Of the readings a SHT4x can produce, -6 % to 119 %, the published humidity
\* lies within 0 % to 100 % exactly for those that do: a reading below zero
\* wraps, but never onto a plausible value.
THEOREM HumidityHonest ==
  ASSUME NEW micro \in Int, -6000000 <= micro, micro <= 119000000
  PROVE  /\ CurrentHumidity(micro) <= 10000 <=> 0 <= Centi(micro) /\ Centi(micro) <= 10000
         /\ CurrentHumidity(micro) <= 10000 => CurrentHumidity(micro) = Centi(micro)
<1>1. Centi(micro) \in Int /\ -600 <= Centi(micro) /\ Centi(micro) <= 11900
  BY SMT DEF Centi, RoundDiv
<1> HIDE DEF Centi
<1> QED BY <1>1, SMT DEF CurrentHumidity, ToUInt16

-----------------------------------------------------------------------------
\* What a controller has read is what the last voltage says.
Published ==
  LET v == IF placeholder THEN PlaceholderVolts ELSE BatteryVolts(rawSum)
  IN  mv = ToMillivolts(v) /\ half_pct = HalfPercent(VoltsToPercent(v))

GaugeInv ==
  /\ rawSum \in RawSums
  /\ placeholder \in BOOLEAN
  /\ Published

\* The invariant of every behaviour.
LEMMA GaugeInvHolds == GaugeSpec => []GaugeInv
<1>1. GaugeInit => GaugeInv
  BY DEF GaugeInit, GaugeInv, Published
<1>2. GaugeInv /\ [GaugeNext]_gaugeVars => GaugeInv'
  <2> SUFFICES ASSUME GaugeInv, [GaugeNext]_gaugeVars PROVE GaugeInv'
    OBVIOUS
  <2>1. CASE Drift
    BY <2>1 DEF Drift, PublishBattery, GaugeInv, Published
  <2>2. CASE ReadingFails
    BY <2>2 DEF ReadingFails, PublishBattery, GaugeInv, Published
  <2>3. CASE ReadingWorksAgain
    BY <2>3 DEF ReadingWorksAgain, PublishBattery, GaugeInv, Published
  <2>4. CASE UNCHANGED gaugeVars
    BY <2>4 DEF gaugeVars, GaugeInv, Published
  <2> QED BY <2>1, <2>2, <2>3, <2>4 DEF GaugeNext
<1> QED BY <1>1, <1>2, PTL DEF GaugeSpec

\* The two attributes of consecutive readings, the voltage a count higher.
LEMMA OneCountMore ==
  ASSUME NEW n \in Int
  PROVE  LET v == BatteryVolts(n)
             w == BatteryVolts(n + 1)
         IN  /\ ToMillivolts(v) <= ToMillivolts(w)
             /\ HalfPercent(VoltsToPercent(w)) - HalfPercent(VoltsToPercent(v)) \in {0, 2}
<1> DEFINE v == BatteryVolts(n)
           w == BatteryVolts(n + 1)
<1>1. v \in Int /\ w \in Int /\ v <= w /\ w - v <= UnitsPerCount
  BY SMT DEF BatteryVolts, UnitsPerCount
<1>2. ToMillivolts(v) <= ToMillivolts(w)
  BY SMT DEF ToMillivolts, RoundDiv, BatteryVolts, UnitsPerCount, VoltUnit
<1> HIDE DEF v, w
<1> DEFINE p == VoltsToPercent(v)
           q == VoltsToPercent(w)
<1>3. p \in 0..100 /\ q \in 0..100 /\ p <= q /\ q <= p + 1
  BY <1>1, PercentOf, PercentMonotone
<1> HIDE DEF p, q
<1>4. HalfPercent(q) - HalfPercent(p) \in {0, 2}
  <2>1. HalfPercent(q) = 2 * q /\ HalfPercent(p) = 2 * p
    BY <1>3, HalfPercentExact
  <2> QED BY <1>3, <2>1
<1> QED BY <1>2, <1>4 DEF v, w, p, q

\* Whatever sums the ADC can deliver, a drifting battery never shows a charge
\* that moves against its voltage, nor by more than one percent for a count.
THEOREM SmoothGauge == GaugeSpec => GaugeIsSmooth
<1>1. GaugeInv /\ GaugeInv' /\ [GaugeNext]_gaugeVars =>
        [~placeholder /\ ~placeholder' =>
           IF rawSum' > rawSum THEN mv' >= mv /\ half_pct' - half_pct \in {0, 2}
                               ELSE mv' <= mv /\ half_pct - half_pct' \in {0, 2}]_gaugeVars
  <2> SUFFICES ASSUME GaugeInv, GaugeInv', GaugeNext, ~placeholder, ~placeholder'
               PROVE  IF rawSum' > rawSum THEN mv' >= mv /\ half_pct' - half_pct \in {0, 2}
                                          ELSE mv' <= mv /\ half_pct - half_pct' \in {0, 2}
    OBVIOUS
  <2>1. Drift
    BY DEF GaugeNext, ReadingFails, ReadingWorksAgain
  <2>2. rawSum \in Int /\ (rawSum' = rawSum + 1 \/ rawSum' = rawSum - 1)
    <3>1. rawSum \in RawSums /\ rawSum' \in {rawSum - 1, rawSum + 1}
      BY <2>1 DEF Drift, GaugeInv
    <3>2. RawSums \subseteq Int
      BY DEF RawSums
    <3> QED BY <3>1, <3>2
  <2>3. /\ mv = ToMillivolts(BatteryVolts(rawSum))
        /\ mv' = ToMillivolts(BatteryVolts(rawSum'))
        /\ half_pct = HalfPercent(VoltsToPercent(BatteryVolts(rawSum)))
        /\ half_pct' = HalfPercent(VoltsToPercent(BatteryVolts(rawSum')))
    BY DEF GaugeInv, Published
  <2>4. CASE rawSum' = rawSum + 1
    <3>1. mv <= mv' /\ half_pct' - half_pct \in {0, 2}
      BY <2>2, <2>3, <2>4, OneCountMore
    <3> QED BY <2>2, <2>4, <3>1
  <2>5. CASE rawSum' = rawSum - 1
    <3>1. rawSum' \in Int /\ rawSum' + 1 = rawSum /\ ~(rawSum' > rawSum)
      BY <2>2, <2>5
    <3>2. mv' <= mv /\ half_pct - half_pct' \in {0, 2}
      BY <2>3, <3>1, OneCountMore
    <3> QED BY <3>1, <3>2
  <2> QED BY <2>2, <2>4, <2>5
<1> QED BY <1>1, GaugeInvHolds, PTL DEF GaugeSpec, GaugeIsSmooth

\* The charge computed back from the published millivolts is at most one
\* percent off, as rounding moves the voltage by less than a count.
LEMMA AgreesAfterRounding ==
  ASSUME NEW v \in Int
  PROVE  VoltsToPercent(Millivolts(ToMillivolts(v))) - HalfPercent(VoltsToPercent(v)) \div 2
           \in {-1, 0, 1}
<1> DEFINE m == ToMillivolts(v)
           w == Millivolts(m)
           p == VoltsToPercent(v)
           q == VoltsToPercent(w)
<1>1. w \in Int /\ v - w <= UnitsPerCount /\ w - v <= UnitsPerCount
  <2>1. m \in Int /\ 9282 * m <= 2 * v + 4641 /\ 2 * v + 4641 < 9282 * (m + 1)
    BY RoundDivBounds, SMT DEF ToMillivolts, VoltUnit
  <2> HIDE DEF m
  <2> QED BY <2>1, SMT DEF Millivolts, VoltUnit, UnitsPerCount
<1> HIDE DEF m, w
<1>2. p \in 0..100 /\ q \in 0..100
  BY <1>1, PercentOf
<1>3. CASE v <= w
  <2>1. p <= q /\ q <= p + 1
    BY <1>1, <1>3, PercentMonotone
  <2>2. HalfPercent(p) = 2 * p
    BY <1>2, HalfPercentExact
  <2> HIDE DEF p, q
  <2>3. q - HalfPercent(p) \div 2 \in {-1, 0, 1}
    BY ONLY <1>2, <2>1, <2>2, SMT
  <2> QED BY <2>3 DEF p, q, w, m
<1>4. CASE w <= v
  <2>1. q <= p /\ p <= q + 1
    BY <1>1, <1>4, PercentMonotone
  <2>2. HalfPercent(p) = 2 * p
    BY <1>2, HalfPercentExact
  <2> HIDE DEF p, q
  <2>3. q - HalfPercent(p) \div 2 \in {-1, 0, 1}
    BY ONLY <1>2, <2>1, <2>2, SMT
  <2> QED BY <2>3 DEF p, q, w, m
<1> QED BY <1>1, <1>3, <1>4

\* BatVoltage and BatPercentRemaining tell the same story, the placeholder's
\* included.
THEOREM AttributesAgree == GaugeSpec => []VoltageAndChargeAgree
<1>1. GaugeInv => VoltageAndChargeAgree
  <2> SUFFICES ASSUME GaugeInv PROVE VoltageAndChargeAgree
    OBVIOUS
  <2> DEFINE v == IF placeholder THEN PlaceholderVolts ELSE BatteryVolts(rawSum)
  <2>1. v \in Int
    <3>1. PlaceholderVolts \in Int /\ (rawSum \in Int => BatteryVolts(rawSum) \in Int)
      BY SMT DEF PlaceholderVolts, Millivolts, VoltUnit, BatteryVolts, UnitsPerCount
    <3>2. rawSum \in Int
      BY DEF GaugeInv, RawSums, kBatterySampleCount, RawMax
    <3> QED BY <3>1, <3>2
  <2>2. mv = ToMillivolts(v) /\ half_pct = HalfPercent(VoltsToPercent(v))
    BY DEF GaugeInv, Published
  <2> HIDE DEF v
  <2> QED BY <2>1, <2>2, AgreesAfterRounding DEF VoltageAndChargeAgree
<1> QED BY <1>1, GaugeInvHolds, PTL

-----------------------------------------------------------------------------
\* Two segments that hold a voltage share it as a corner.
LEMMA SegmentsMeet ==
  ASSUME NEW v \in Int, NEW i \in Segments, NEW j \in Segments,
         Covers(i, v), Covers(j, v)
  PROVE  i = j \/ (i + 1 = j /\ v = kCurve[j].v) \/ (j + 1 = i /\ v = kCurve[i].v)
<1>1. /\ i \in 1..12 /\ i + 1 \in 1..12 /\ j \in 1..12 /\ j + 1 \in 1..12
      /\ kCurve[i + 1].v <= v /\ v <= kCurve[i].v /\ kCurve[j + 1].v <= v /\ v <= kCurve[j].v
  BY DEF Segments, Covers
<1>2. /\ kCurve[i].v \in Int /\ kCurve[i + 1].v \in Int
      /\ kCurve[j].v \in Int /\ kCurve[j + 1].v \in Int
  BY <1>1, CurveEnds
<1>3. CASE i < j
  <2>1. i + 1 = j \/ (i + 1 < j /\ kCurve[i + 1].v - kCurve[j].v > UnitsPerCount)
    BY <1>1, <1>3, CornerOrder
  <2>2. i + 1 = j
    BY <1>1, <1>2, <2>1, CurveEnds
  <2>3. v = kCurve[j].v
    BY <1>1, <1>2, <2>2
  <2> QED BY <2>2, <2>3
<1>4. CASE j < i
  <2>1. j + 1 = i \/ (j + 1 < i /\ kCurve[j + 1].v - kCurve[i].v > UnitsPerCount)
    BY <1>1, <1>4, CornerOrder
  <2>2. j + 1 = i
    BY <1>1, <1>2, <2>1, CurveEnds
  <2>3. v = kCurve[i].v
    BY <1>1, <1>2, <2>2
  <2> QED BY <2>2, <2>3
<1>5. i = j \/ i < j \/ j < i
  BY <1>1
<1> QED BY <1>3, <1>4, <1>5

\* At a corner of the curve the percentage is the corner's, whichever of the
\* two segments decides it.
LEMMA CornersExact ==
  ASSUME NEW i \in 1..12
  PROVE  VoltsToPercent(kCurve[i].v) = kCurve[i].p
<1> DEFINE v == kCurve[i].v
<1> USE CurveEnds
<1>1. v \in Int
  OBVIOUS
<1>2. CASE i = 1 \/ i = 12
  BY <1>1, <1>2, PercentOf
<1>3. CASE i # 1 /\ i # 12
  <2>1. Millivolts(3000) < v /\ v < Millivolts(4140)
    BY <1>3, CornerOrder
  <2> PICK j \in Segments : Covers(j, v) /\ VoltsToPercent(v) = Interpolate(j, v)
    BY <1>1, <2>1, CoveredBySegment
  <2>2. i \in Segments /\ kCurve[i + 1].v \in Int /\ kCurve[i].v > kCurve[i + 1].v
    BY <1>3, CurveFalls DEF Segments
  <2>3. Covers(i, v)
    BY <2>2 DEF Covers
  <2>4. i = j \/ (i = j + 1 /\ v = kCurve[i].v) \/ (i + 1 = j /\ v = kCurve[j].v)
    BY <1>1, <2>2, <2>3, SegmentsMeet
  <2>5. i + 1 # j
    <3>1. ASSUME i + 1 = j PROVE FALSE
      <4>1. v = kCurve[i + 1].v
        BY <2>2, <2>4, <3>1 DEF Segments
      <4> QED BY <2>2, <4>1
    <3> QED BY <3>1
  <2>6. /\ kCurve[j + 1].v <= v /\ v <= v /\ v <= kCurve[j].v
        /\ kCurve[j].v - kCurve[j].v = 0 /\ kCurve[j + 1].v - kCurve[j + 1].v = 0
        /\ j \in 1..12 /\ j + 1 \in 1..12
    BY <1>1 DEF Covers, Segments
  <2>7. /\ v - kCurve[j + 1].v <= UnitsPerCount => Interpolate(j, v) = kCurve[j + 1].p
        /\ kCurve[j].v - v <= UnitsPerCount => Interpolate(j, v) = kCurve[j].p
    BY ONLY <1>1, <2>6, SegmentShape, j \in Segments
  <2>8. CASE i = j
    BY <2>6, <2>7, <2>8
  <2>9. CASE i = j + 1
    BY <2>6, <2>7, <2>9
  <2> QED BY <2>4, <2>5, <2>8, <2>9
<1> QED BY <1>2, <1>3

\* A rounded quotient is off by half its divisor at most.
LEMMA NearestQuotient ==
  ASSUME NEW a \in Int, NEW d \in Int, d > 0
  PROVE  LET error == 2 * (RoundDiv(a, d) * d - a)
         IN  -d <= error /\ error <= d
<1> DEFINE q == RoundDiv(a, d)
<1>1. q \in Int /\ (2 * d) * q <= 2 * a + d /\ 2 * a + d < (2 * d) * (q + 1)
  BY RoundDivBounds
<1> HIDE DEF q
<1>2. (2 * d) * q = 2 * (q * d) /\ (2 * d) * (q + 1) = 2 * (q * d) + 2 * d /\ q * d \in Int
  BY <1>1, SMT
<1> DEFINE m == q * d
<1> HIDE DEF m
<1>3. -d <= 2 * (m - a) /\ 2 * (m - a) <= d
  BY <1>1, <1>2 DEF m
<1> QED BY <1>3 DEF m, q

\* The percentage is the nearest one to the line of every segment that holds
\* the voltage.
LEMMA NearestInSegment ==
  ASSUME NEW v \in Int, NEW i \in Segments, Covers(i, v)
  PROVE  LET hi == kCurve[i]
             lo == kCurve[i + 1]
             error == 2 * ((VoltsToPercent(v) - lo.p) * (hi.v - lo.v)
                             - (v - lo.v) * (hi.p - lo.p))
         IN  -(hi.v - lo.v) <= error /\ error <= hi.v - lo.v
<1> DEFINE hi == kCurve[i]
           lo == kCurve[i + 1]
           d == hi.v - lo.v
           k == hi.p - lo.p
           x == v - lo.v
           P == VoltsToPercent(v)
<1>1. /\ i \in 1..12 /\ i + 1 \in 1..12
      /\ lo.v \in Int /\ lo.p \in Int /\ hi.v \in Int /\ hi.p \in Int
      /\ d \in Int /\ d > 0 /\ k \in Int /\ x \in Int
  BY CurveFalls DEF Segments
<1>2. CASE v = lo.v
  <2>1. P - lo.p = 0 /\ x = 0
    BY <1>1, <1>2, CornersExact
  <2> HIDE DEF P, x, d, k
  <2>2. 2 * ((P - lo.p) * d - x * k) = 0
    BY <1>1, <2>1
  <2> QED BY <1>1, <2>2 DEF P, x, d, k
<1>3. CASE v = hi.v
  <2>1. P - lo.p = k /\ x = d
    BY <1>1, <1>3, CornersExact
  <2> HIDE DEF P, x, d, k
  <2>2. 2 * ((P - lo.p) * d - x * k) = 0
    BY <1>1, <2>1
  <2> QED BY <1>1, <2>2 DEF P, x, d, k
<1>4. CASE lo.v < v /\ v < hi.v
  <2>1. Millivolts(3000) < v /\ v < Millivolts(4140)
    BY <1>1, <1>4, CurveFalls, CurveEnds
  <2> PICK j \in Segments : Covers(j, v) /\ P = Interpolate(j, v)
    BY <2>1, CoveredBySegment
  <2>2. j = i
    <3>1. j \in 1..12 /\ (j + 1 = i => v = hi.v) /\ (i + 1 = j => v = lo.v)
      BY SegmentsMeet DEF Segments
    <3> QED BY <1>1, <1>4, <3>1, SegmentsMeet
  <2>3. P = lo.p + RoundDiv(x * k, d)
    BY <2>2 DEF Interpolate
  <2> HIDE DEF P, x, d, k, lo, hi
  <2> DEFINE a == x * k
             q == RoundDiv(a, d)
  <2>4. a \in Int /\ q \in Int
    <3>1. a \in Int
      BY <1>1
    <3> HIDE DEF a
    <3> QED BY <1>1, <3>1, RoundDivBounds
  <2>5. -d <= 2 * (q * d - a) /\ 2 * (q * d - a) <= d
    BY <1>1, <2>4, NearestQuotient
  <2> HIDE DEF a, q
  <2>6. P - lo.p = q
    BY <1>1, <2>3, <2>4 DEF a, q
  <2> QED BY <2>5, <2>6 DEF a, P, x, d, k, lo, hi
<1>5. v = lo.v \/ v = hi.v \/ (lo.v < v /\ v < hi.v)
  <2>1. lo.v <= v /\ v <= hi.v
    BY DEF Covers
  <2> HIDE DEF lo, hi
  <2> QED BY <1>1, <2>1
<1> QED BY <1>2, <1>3, <1>4, <1>5

\* Of every sum of samples the charge shown is the nearest whole percent to
\* the curve, from both sides of each corner.
THEOREM ChargeIsNearest == GaugeSpec => []NearestPercent
<1>1. GaugeInv => NearestPercent
  <2> SUFFICES ASSUME GaugeInv, ~placeholder, NEW i \in Segments,
                      Covers(i, BatteryVolts(rawSum))
               PROVE  LET v == BatteryVolts(rawSum)
                          hi == kCurve[i]
                          lo == kCurve[i + 1]
                          error == 2 * ((half_pct \div 2 - lo.p) * (hi.v - lo.v)
                                          - (v - lo.v) * (hi.p - lo.p))
                      IN  -(hi.v - lo.v) <= error /\ error <= hi.v - lo.v
    BY DEF NearestPercent, Covers
  <2> DEFINE v == BatteryVolts(rawSum)
  <2>1. v \in Int
    BY DEF GaugeInv, RawSums, kBatterySampleCount, RawMax, BatteryVolts, UnitsPerCount
  <2>2. half_pct \div 2 = VoltsToPercent(v)
    <3>1. half_pct = HalfPercent(VoltsToPercent(v))
      BY DEF GaugeInv, Published
    <3> DEFINE p == VoltsToPercent(v)
    <3>2. p \in 0..100 /\ half_pct = 2 * p
      BY <2>1, <3>1, PercentOf, HalfPercentExact
    <3> HIDE DEF p
    <3>3. half_pct \div 2 = p
      BY <3>2, SMT
    <3> QED BY <3>3 DEF p
  <2>3. Covers(i, v)
    OBVIOUS
  <2> HIDE DEF v
  <2> QED BY <2>1, <2>2, <2>3, NearestInSegment DEF v
<1> QED BY <1>1, GaugeInvHolds, PTL

=============================================================================
