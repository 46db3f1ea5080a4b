----------------------------- MODULE Protection -----------------------------
(***************************************************************************)
(* The protection helpers of foc-algo with a memory (protection.rs): the   *)
(* thermal I2t limiter and the stall detector.  The application calls them *)
(* in any order; the stall detector is given the millisecond counter of    *)
(* the system, which wraps.                                                *)
(*                                                                         *)
(* Floats are integers.  The cooling rate is in percent of the accumulator *)
(* per unit of time, and what it removes is rounded down.                  *)
(***************************************************************************)
EXTENDS Bounds

CONSTANTS
  StallClockMod,           \* the values of the millisecond counter
  MinIqAfterMs,            \* min_iq_after_ms, the grace period
  MinSpeed,                \* min_speed_rad_s
  RotorSpeeds,             \* measured speeds
  PhaseCurrents,           \* measured current magnitudes
  CycleTimes,              \* the cycle times passed to foldback()
  RatedCurrent, I2tLimit, CoolingPercent

ASSUME StallAssumption ==
  /\ StallClockMod \in Nat \ {0} /\ MinIqAfterMs \in Nat
  /\ MinSpeed \in Nat /\ RotorSpeeds \subseteq Int
ASSUME ThermalAssumption ==
  /\ PhaseCurrents \subseteq Nat /\ CycleTimes \subseteq Int
  /\ RatedCurrent \in Nat /\ I2tLimit \in Nat /\ CoolingPercent \in Nat

\* armed_at_ms when it is None in the code.
Disarmed == -1

VARIABLES
  accumulator,
  armed_at_ms,
  stall_now_ms,      \* the counter, as the application reads it
  armed_for          \* milliseconds since arm(), capped at MinIqAfterMs

stall_vars == <<armed_at_ms, stall_now_ms, armed_for>>
protection_vars == <<accumulator, stall_vars>>

ProtectionTypeOK ==
  /\ accumulator \in 0..I2tLimit
  /\ armed_at_ms \in 0..(StallClockMod - 1) \cup {Disarmed}
  /\ stall_now_ms \in 0..(StallClockMod - 1)
  /\ armed_for \in 0..MinIqAfterMs

ProtectionInit ==
  /\ accumulator = 0
  /\ armed_at_ms = Disarmed
  /\ stall_now_ms \in 0..(StallClockMod - 1)
  /\ armed_for = 0

\* I2tLimiter::foldback: heating, then cooling, then the clamp.
Foldback(current, dt) ==
  LET heated == accumulator + (current * current - RatedCurrent * RatedCurrent) * dt
      cooled == heated - (CoolingPercent * heated * dt) \div 100
  IN /\ accumulator' = IF dt <= 0 THEN accumulator ELSE Between(cooled, 0, I2tLimit)
     /\ UNCHANGED stall_vars

\* I2tLimiter::reset.
ThermalReset == accumulator' = 0 /\ UNCHANGED stall_vars

Arm ==
  /\ armed_at_ms' = stall_now_ms
  /\ armed_for' = 0
  /\ UNCHANGED <<accumulator, stall_now_ms>>

Disarm ==
  /\ armed_at_ms' = Disarmed
  /\ armed_for' = 0
  /\ UNCHANGED <<accumulator, stall_now_ms>>

Millisecond ==
  /\ stall_now_ms' = (stall_now_ms + 1) % StallClockMod
  /\ armed_for' = IF armed_at_ms = Disarmed THEN 0 ELSE AtMost(armed_for + 1, MinIqAfterMs)
  /\ UNCHANGED <<accumulator, armed_at_ms>>

SaturatingSub(a, b) == IF a < b THEN 0 ELSE a - b

\* Fault: the counter is compared instead of the time since arm().
StallCheckAbsolute(speed) ==
  /\ armed_at_ms # Disarmed
  /\ stall_now_ms >= MinIqAfterMs
  /\ Abs(speed) < MinSpeed

\* StallDetector::check.
StallCheck(speed) ==
  /\ armed_at_ms # Disarmed
  /\ SaturatingSub(stall_now_ms, armed_at_ms) >= MinIqAfterMs
  /\ Abs(speed) < MinSpeed

ProtectionNext ==
  \/ \E current \in PhaseCurrents, dt \in CycleTimes : Foldback(current, dt)
  \/ ThermalReset
  \/ Arm \/ Disarm \/ Millisecond

ProtectionSpec == ProtectionInit /\ [][ProtectionNext]_protection_vars

-----------------------------------------------------------------------------
\* The detector never fires before the rotor has had the whole grace period
\* to start, wherever in the range of the counter it is armed and whether or
\* not the counter wraps in that time.
GraceRespected ==
  (\E speed \in RotorSpeeds : StallCheck(speed)) => armed_for >= MinIqAfterMs

=============================================================================
