---------------------------- MODULE BatteryGauge ----------------------------
(***************************************************************************)
(* What a controller sees of the battery while its voltage drifts:         *)
(* BatVoltage and BatPercentRemaining of consecutive readings, each        *)
(* computed by UpdateMatterAttributes (src/app_task.cpp) from a sum of ADC *)
(* samples one count away from the last one, or from the placeholder when  *)
(* the ADC fails.                                                          *)
(***************************************************************************)
EXTENDS Readings

VARIABLES
  rawSum,         \* raw_sum of the last complete reading
  placeholder,    \* the last reading failed
  mv,             \* BatVoltage
  half_pct        \* BatPercentRemaining

gaugeVars == <<rawSum, placeholder, mv, half_pct>>

PublishBattery(v) ==
  /\ mv' = ToMillivolts(v)
  /\ half_pct' = HalfPercent(VoltsToPercent(v))

GaugeInit ==
  /\ rawSum \in RawSums
  /\ placeholder = FALSE
  /\ mv = ToMillivolts(BatteryVolts(rawSum))
  /\ half_pct = HalfPercent(VoltsToPercent(BatteryVolts(rawSum)))

Drift ==
  /\ ~placeholder
  /\ rawSum' \in {rawSum - 1, rawSum + 1} \cap RawSums
  /\ PublishBattery(BatteryVolts(rawSum'))
  /\ UNCHANGED placeholder

ReadingFails ==
  /\ ~placeholder
  /\ placeholder' = TRUE
  /\ PublishBattery(PlaceholderVolts)
  /\ UNCHANGED rawSum

ReadingWorksAgain ==
  /\ placeholder
  /\ placeholder' = FALSE
  /\ PublishBattery(BatteryVolts(rawSum))
  /\ UNCHANGED rawSum

GaugeNext == Drift \/ ReadingFails \/ ReadingWorksAgain

GaugeSpec == GaugeInit /\ [][GaugeNext]_gaugeVars

-----------------------------------------------------------------------------
\* A higher voltage never shows a lower charge, and one count of the ADC
\* never moves the charge by more than one percent: the curve has no gap and
\* no fall at any of its corners.
GaugeIsSmooth ==
  [][~placeholder /\ ~placeholder' =>
       IF rawSum' > rawSum THEN mv' >= mv /\ half_pct' - half_pct \in {0, 2}
                           ELSE mv' <= mv /\ half_pct - half_pct' \in {0, 2}]_gaugeVars

\* The charge is the nearest whole percent to the curve, in every segment
\* that holds the voltage and so from both sides of a corner.
NearestPercent ==
  ~placeholder =>
    \A i \in Segments :
      LET v == BatteryVolts(rawSum)
          hi == kCurve[i]
          lo == kCurve[i + 1]
          error == 2 * ((half_pct \div 2 - lo.p) * (hi.v - lo.v) - (v - lo.v) * (hi.p - lo.p))
      IN  lo.v <= v /\ v <= hi.v => -(hi.v - lo.v) <= error /\ error <= hi.v - lo.v

\* The two attributes tell the same story: the charge computed back from the
\* published millivolts is at most one percent away from the published one.
VoltageAndChargeAgree ==
  VoltsToPercent(Millivolts(mv)) - half_pct \div 2 \in {-1, 0, 1}

=============================================================================
