--------------------------- MODULE BatteryMeter ---------------------------
(***************************************************************************)
(* BatteryMeter: the voltage of a battery in per cent of its range.        *)
(*                                                                         *)
(* The quotient is exact here.  In the code it is a float: the values are  *)
(* of 16 bits, so that a quotient that is not half of an odd number is at  *)
(* least 1/131070 away from one, and rounding to a float, which moves it   *)
(* by less than 1/250000, does not change the per cent.                    *)
(***************************************************************************)
EXTENDS Integers

CONSTANTS MaxVoltage  \* of uint16_t, or less to bound the model

ASSUME VoltageAssumption == MaxVoltage \in Nat

Voltages == 0 .. MaxVoltage
Bytes == 0 .. 255  \* uint8_t

VARIABLES
  dischargedVoltage, fullVoltage,  \* set by the constructor
  voltage                          \* the reading

meterVars == <<dischargedVoltage, fullVoltage, voltage>>

MeterInit == dischargedVoltage \in Voltages /\ fullVoltage \in Voltages /\ voltage = 0

\* The battery is charged.
Charge ==
  /\ voltage < MaxVoltage /\ voltage' = voltage + 1
  /\ UNCHANGED <<dischargedVoltage, fullVoltage>>

MeterSpec == MeterInit /\ [][Charge]_meterVars

\* Mutant: a reading below the discharged voltage is not clamped.
RoundUnclamped(n, m) == {IF n >= 100 * m THEN 100 ELSE ((2 * n + m) \div (2 * m)) % 256}

\* n/m, m > 0, clamped to 0 .. 100 and rounded.
RoundClamped(n, m) ==
  {CASE n > 100 * m -> 100
     [] n < 0 -> 0
     [] OTHER -> (2 * n + m) \div (2 * m)}

\* Division by zero is infinite, or not a number, of which the conversion to
\* uint8_t is undefined.
ChargePercent(reading) ==
  LET n == 100 * (reading - dischargedVoltage)
      m == fullVoltage - dischargedVoltage
  IN CASE m > 0 -> RoundClamped(n, m)
       [] m < 0 -> RoundClamped(-n, -m)
       [] m = 0 /\ n > 0 -> {100}
       [] m = 0 /\ n < 0 -> {0}
       [] m = 0 /\ n = 0 -> Bytes

-----------------------------------------------------------------------------
(* Properties.                                                             *)

\* The charge is one value of 0 to 100, unless all three voltages are the same.
\* When the full voltage is the higher one, it is 0 up to the discharged
\* voltage, 100 from the full voltage on, and never lower at a higher voltage.
ChargeRises ==
  /\ voltage # dischargedVoltage \/ fullVoltage # dischargedVoltage =>
       \E p \in 0 .. 100 : ChargePercent(voltage) = {p}
  /\ dischargedVoltage < fullVoltage =>
       \A p \in ChargePercent(voltage) :
         /\ voltage <= dischargedVoltage => p = 0
         /\ voltage >= fullVoltage => p = 100
         /\ \A higher \in voltage .. MaxVoltage : \A q \in ChargePercent(higher) : p <= q
=============================================================================
