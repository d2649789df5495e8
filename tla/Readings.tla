------------------------------ MODULE Readings ------------------------------
(***************************************************************************)
(* The conversions between the hardware and the attributes: VoltsToPercent *)
(* and the arithmetic of ReadBatteryVolts, UpdateSensorReadings and        *)
(* UpdateMatterAttributes (src/app_task.cpp).                              *)
(*                                                                         *)
(* The code computes in float and double.  Here volts are exact: a voltage *)
(* is a number of VoltUnits, 1/4641 mV, in which both a sum of ADC samples *)
(* and the corners of kCurve are integers.  The percentage is the same as  *)
(* in float for every sum of samples; the rounded millivolts differ by one *)
(* at five sums that lie within an ulp of a half.                          *)
(***************************************************************************)
EXTENDS Integers, Sequences

kBatterySampleCount == 4
RawMax == 4095                               \* (1 << kAdcResolution) - 1
RawSums == 0..(kBatterySampleCount * RawMax) \* negative samples count as 0

\* One count of raw_sum is full_scale * kVbatDividerRatio / 4 / 4095
\* = 3600 mV * (1510/510) / 16380 = 3020 VoltUnits.
VoltUnit == 4641                             \* VoltUnits in a millivolt
UnitsPerCount == 3020
Millivolts(mv) == mv * VoltUnit

\* vbat of a reading, and the value published if the ADC fails.
BatteryVolts(rawSum) == rawSum * UnitsPerCount
PlaceholderVolts == Millivolts(3690)

\* (x / d) rounded half up, for x >= 0: lroundf.
RoundDiv(x, d) == (2 * x + d) \div (2 * d)

\* BatVoltage: static_cast<uint32_t>(lroundf(vbat * 1000)).
ToMillivolts(v) == RoundDiv(v, VoltUnit)

-----------------------------------------------------------------------------
(* VoltsToPercent.                                                         *)

Vp(mv, percent) == [v |-> Millivolts(mv), p |-> percent]

kCurve ==
  << Vp(4140, 100), Vp(4100, 95), Vp(4000, 85), Vp(3900, 75), Vp(3800, 65), Vp(3700, 50),
     Vp(3600, 35), Vp(3500, 20), Vp(3400, 10), Vp(3300, 5), Vp(3200, 2), Vp(3000, 0) >>

Segments == 1..11

Covers(i, v) == v <= kCurve[i].v /\ v >= kCurve[i + 1].v

\* Mutants: truncated instead of rounded, and taken from the wrong corner.
InterpolateDown(i, v) ==
  LET hi == kCurve[i]  lo == kCurve[i + 1]
  IN  lo.p + ((v - lo.v) * (hi.p - lo.p)) \div (hi.v - lo.v)
InterpolateFromTop(i, v) ==
  LET hi == kCurve[i]  lo == kCurve[i + 1]
  IN  hi.p - RoundDiv((v - lo.v) * (hi.p - lo.p), hi.v - lo.v)

Interpolate(i, v) ==
  LET hi == kCurve[i]  lo == kCurve[i + 1]
  IN  lo.p + RoundDiv((v - lo.v) * (hi.p - lo.p), hi.v - lo.v)

\* The first segment that covers v decides; a voltage in no segment reads 0.
VoltsToPercent(v) ==
  IF v >= Millivolts(4140) THEN 100
  ELSE IF v <= Millivolts(3000) THEN 0
  ELSE IF \E i \in Segments : Covers(i, v)
  THEN Interpolate(CHOOSE i \in Segments : Covers(i, v) /\ \A j \in 1..(i - 1) : ~Covers(j, v), v)
  ELSE 0

\* Mutant: published in whole percents.
HalfPercentWhole(pct) == pct

\* BatPercentRemaining counts half percents.
HalfPercent(pct) == IF pct >= 100 THEN 200 ELSE (pct * 2) % 256

-----------------------------------------------------------------------------
(* A sensor_value of val1 + val2 / 1000000, given here in millionths, to   *)
(* the hundredths of an attribute: lround, half away from zero.            *)

Centi(micro) ==
  IF micro >= 0 THEN RoundDiv(micro, 10000) ELSE -RoundDiv(-micro, 10000)

\* Narrowing conversions keep the low 16 bits.
ToInt16(n) == ((n + 32768) % 65536) - 32768
ToUInt16(n) == n % 65536

CurrentTemperature(micro) == ToInt16(Centi(micro))
CurrentHumidity(micro) == ToUInt16(Centi(micro))

=============================================================================
