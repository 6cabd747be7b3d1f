------------------------------- MODULE MCUart -------------------------------
(***************************************************************************)
(* Small instances of Uart for TLC: a clock that wraps after Modulus ms,   *)
(* and a vTaskDelay that lasts between one tick less than the period and   *)
(* the period.                                                             *)
(***************************************************************************)
EXTENDS Uart

SleepsOfOneTick == {Period}
SleepsOfTicks == {Period - 1, Period}
=============================================================================
