------------------------------ MODULE ApiClock ------------------------------
(***************************************************************************)
(* The clock the capabilities read (now_ts_ms), in steps as long as the    *)
(* lifetimes, cooldowns and windows that are compared with it need.        *)
(***************************************************************************)
EXTENDS Naturals

CONSTANT MaxTime    \* bound: the last instant of the clock

ASSUME ApiClockAssumption == MaxTime \in Nat \ {0}

VARIABLE now

Null == 0           \* an empty timestamp; the clock starts at 1

ClockInit == now = 1

Tick == now < MaxTime /\ now' = now + 1
=============================================================================
