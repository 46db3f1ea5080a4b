----------------------------- MODULE FocCascade -----------------------------
(***************************************************************************)
(* The controller of foc-algo (cascade.rs): the dispatch of one control    *)
(* cycle over the modes, the ramps between the loops (math/ramp.rs), the   *)
(* PI controllers of the position and the speed loop (loops/position.rs,   *)
(* loops/speed.rs, math/pid.rs), the limits on the current vector          *)
(* (math/circle_limitation.rs, the demagnetization floor) and the          *)
(* alignment procedure.  The application calls update() once per cycle and *)
(* anything else in between, in any order.                                 *)
(*                                                                         *)
(* Floats are integers in units the application chooses.  The derivative   *)
(* term is off, as in the defaults.  What the current loop makes of the    *)
(* commanded currents is left out but for the duties: "off" is (0, 0, 0),  *)
(* and so is what the modulator returns without a bus voltage.             *)
(***************************************************************************)
EXTENDS Bounds

CONSTANTS
  Speeds, Positions, Currents,    \* references and measurements
  Feedforwards,                   \* what a feedforward callback returns
  Dts, MaxDt,                     \* the cycle times passed to update()
  Durations, MaxDuration,         \* the durations passed to align()
  PosRate, SpeedRate, IqRate,     \* rate_limit of the ramps
  SpeedLimit, IqLimit,            \* output_limit of the two PIDs
  KP, KI,                         \* their gains
  CurrentLimit, IDemag,           \* current_limit, i_demag
  ResetChoices                    \* reset_on_off

ASSUME SignalAssumption ==
  /\ Speeds \subseteq Int /\ Positions \subseteq Int /\ Currents \subseteq Int
  /\ Feedforwards \subseteq Int
  /\ MaxDt \in Nat /\ Dts \subseteq Int /\ \A dt \in Dts : dt <= MaxDt
  /\ MaxDuration \in Nat /\ Durations \subseteq 0..MaxDuration
ASSUME TuningAssumption ==
  /\ PosRate \in Nat /\ SpeedRate \in Nat /\ IqRate \in Nat
  /\ SpeedLimit \in Nat /\ IqLimit \in Nat
  /\ KP \in Nat /\ KI \in Nat
  /\ CurrentLimit \in Int /\ IDemag \in Int
  /\ ResetChoices \subseteq BOOLEAN

\* What keeps an integrator in its limit: in one cycle it takes in no more
\* of an error than the proportional term takes away.
ASSUME GainAssumption == KI * MaxDt <= KP

VARIABLES
  mode, prev_mode,
  id_ref,                         \* target.id_ref
  meas_speed,                     \* meas.speed in the last cycle
  pos_ramp, speed_ramp, iq_ramp,
  pos_integral, speed_integral,
  speed_target, id_command, iq_command,     \* of runtime
  duty,
  align_elapsed, align_duration,
  reset_on_off

ramp_vars == <<pos_ramp, speed_ramp, iq_ramp>>
integral_vars == <<pos_integral, speed_integral>>
command_vars == <<speed_target, id_command, iq_command>>
align_vars == <<align_elapsed, align_duration>>
foc_vars == <<mode, prev_mode, id_ref, meas_speed, ramp_vars, integral_vars,
              command_vars, duty, align_vars, reset_on_off>>

Mode == {"Off", "Align", "Torque", "Speed", "Position"}

FocTypeOK ==
  /\ mode \in Mode /\ prev_mode \in Mode
  /\ id_ref \in Int /\ meas_speed \in Int
  /\ pos_ramp \in Int /\ speed_ramp \in Int /\ iq_ramp \in Int
  /\ pos_integral \in Int /\ speed_integral \in Int
  /\ speed_target \in Int /\ id_command \in Int /\ iq_command \in Int
  /\ duty \in {"off", "driven"}
  /\ align_elapsed \in 0..MaxDuration /\ align_duration \in 0..MaxDuration
  /\ reset_on_off \in BOOLEAN

FocInit ==
  /\ mode = "Off" /\ prev_mode = "Off"
  /\ id_ref = 0 /\ meas_speed = 0
  /\ pos_ramp = 0 /\ speed_ramp = 0 /\ iq_ramp = 0
  /\ pos_integral = 0 /\ speed_integral = 0
  /\ speed_target = 0 /\ id_command = 0 /\ iq_command = 0
  /\ duty = "off"
  /\ align_elapsed = 0 /\ align_duration = 0
  /\ reset_on_off \in ResetChoices

-----------------------------------------------------------------------------
(***************************************************************************)
(* Ramp::update, Pid::update and combine_pi_ff.                            *)
(***************************************************************************)
RampStep(value, target, rate, dt) ==
  IF rate <= 0 THEN target ELSE value + Clamp(target - value, rate * dt)

PidRaw(integral, error) == KP * error + integral
PidOutput(integral, error, limit) == Clamp(PidRaw(integral, error), limit)

\* Fault: the integrator runs on while the output is saturated.
PidIntegralWindup(integral, error, limit, dt) == integral + KI * error * dt

\* The integrator is frozen while the output is saturated.
PidIntegral(integral, error, limit, dt) ==
  IF Abs(PidRaw(integral, error)) < limit THEN integral + KI * error * dt ELSE integral

LoopOutput(integral, error, limit, ff) ==
  Clamp(PidOutput(integral, error, limit) + ff, limit)

(***************************************************************************)
(* apply_circle_limit and circle_limitation, and the floor for id.  The    *)
(* scaled components are rounded towards zero.                             *)
(***************************************************************************)
Magnitude(square) == CHOOSE m \in 1..square : (m - 1) * (m - 1) < square /\ square <= m * m
Scaled(x, mag) ==
  LET length == (Abs(x) * CurrentLimit) \div mag IN IF x < 0 THEN -length ELSE length

\* Fault: each component is limited by itself.
CircleLimitedSquare(id, iq) ==
  IF CurrentLimit <= 0 THEN <<id, iq>>
  ELSE <<Clamp(id, CurrentLimit), Clamp(iq, CurrentLimit)>>

CircleLimited(id, iq) ==
  LET square == id * id + iq * iq
  IN IF CurrentLimit <= 0 \/ square <= CurrentLimit * CurrentLimit THEN <<id, iq>>
     ELSE <<Scaled(id, Magnitude(square)), Scaled(iq, Magnitude(square))>>

DemagFloor(id) == IF IDemag < 0 /\ id < IDemag THEN IDemag ELSE id

\* The end of a cycle, from the current references on.
Command(iq_target) ==
  LET limited == CircleLimited(id_ref, iq_target)
  IN /\ id_command' = DemagFloor(limited[1])
     /\ iq_command' = limited[2]
     /\ duty' \in {"off", "driven"}

-----------------------------------------------------------------------------
(***************************************************************************)
(* What the application calls between two cycles.                          *)
(***************************************************************************)
set_mode(m) ==
  /\ mode' = m
  /\ UNCHANGED <<prev_mode, id_ref, meas_speed, ramp_vars, integral_vars, command_vars,
                 duty, align_vars, reset_on_off>>

\* target.id_ref is written; the other targets are read in a cycle only and
\* are parameters of the cycle.
set_id_ref(id) ==
  /\ id_ref' = id
  /\ UNCHANGED <<mode, prev_mode, meas_speed, ramp_vars, integral_vars, command_vars,
                 duty, align_vars, reset_on_off>>

ZeroIntegrators == pos_integral' = 0 /\ speed_integral' = 0

zero_integrators ==
  /\ ZeroIntegrators
  /\ UNCHANGED <<mode, prev_mode, id_ref, meas_speed, ramp_vars, command_vars, duty,
                 align_vars, reset_on_off>>

\* The first call of align(); later ones only compare the timer.
align(id, duration) ==
  /\ mode # "Align"
  /\ id_ref' = id
  /\ align_elapsed' = 0
  /\ align_duration' = duration
  /\ mode' = "Align"
  /\ ZeroIntegrators
  /\ UNCHANGED <<prev_mode, meas_speed, ramp_vars, command_vars, duty, reset_on_off>>

AlignComplete == mode = "Align" /\ align_elapsed >= align_duration

-----------------------------------------------------------------------------
(***************************************************************************)
(* update(), one action for each way through it.  A cycle time that is not *)
(* positive, or not finite, changes nothing.                               *)
(***************************************************************************)
ValidDts == {dt \in Dts : dt > 0}

\* Fault: only the ramp of the outermost loop is seeded.
SeededSpeedOuter(speed) ==
  IF mode # prev_mode /\ mode = "Speed" THEN speed ELSE speed_ramp

\* seed_ramps_on_mode_change.
SeededSpeed(speed) ==
  IF mode # prev_mode /\ mode \in {"Speed", "Position"} THEN speed ELSE speed_ramp
SeededPosition(position) ==
  IF mode # prev_mode /\ mode = "Position" THEN position ELSE pos_ramp

\* A measurement or a target is not finite.
RejectedCycle(speed) ==
  /\ meas_speed' = speed
  /\ ZeroIntegrators
  /\ duty' = "off"
  /\ UNCHANGED <<mode, prev_mode, id_ref, ramp_vars, command_vars, align_vars, reset_on_off>>

\* apply_off_state and reset.
OffCycle(speed) ==
  /\ mode = "Off"
  /\ meas_speed' = speed
  /\ prev_mode' = "Off"
  /\ speed_target' = 0 /\ id_command' = 0 /\ iq_command' = 0
  /\ duty' = "off"
  /\ IF reset_on_off
     THEN /\ pos_ramp' = 0 /\ speed_ramp' = 0 /\ iq_ramp' = 0
          /\ ZeroIntegrators
     ELSE UNCHANGED <<ramp_vars, integral_vars>>
  /\ UNCHANGED <<mode, id_ref, align_vars, reset_on_off>>

AlignCycle(dt, speed) ==
  /\ mode = "Align"
  /\ meas_speed' = speed
  /\ prev_mode' = mode
  /\ align_elapsed' = AtMost(align_elapsed + dt, MaxDuration)
  /\ speed_target' = 0
  /\ Command(0)
  /\ UNCHANGED <<mode, id_ref, ramp_vars, integral_vars, align_duration, reset_on_off>>

TorqueCycle(dt, speed, iq) ==
  /\ mode = "Torque"
  /\ meas_speed' = speed
  /\ prev_mode' = mode
  /\ iq_ramp' = RampStep(iq_ramp, iq, IqRate, dt)
  /\ speed_target' = 0
  /\ Command(iq_ramp')
  /\ UNCHANGED <<mode, id_ref, pos_ramp, speed_ramp, integral_vars, align_vars, reset_on_off>>

\* The speed loop and what follows it, for a reference of the speed.
SpeedStage(dt, speed, speed_ref, ff) ==
  LET reference == RampStep(SeededSpeed(speed), speed_ref, SpeedRate, dt)
      error == reference - speed
  IN /\ speed_ramp' = reference
     /\ speed_target' = reference
     /\ speed_integral' = PidIntegral(speed_integral, error, IqLimit, dt)
     /\ iq_ramp' = RampStep(iq_ramp, LoopOutput(speed_integral, error, IqLimit, ff), IqRate, dt)
     /\ Command(iq_ramp')

SpeedCycle(dt, speed, speed_ref, ff) ==
  /\ mode = "Speed"
  /\ meas_speed' = speed
  /\ prev_mode' = mode
  /\ SpeedStage(dt, speed, speed_ref, ff)
  /\ UNCHANGED <<mode, id_ref, pos_ramp, pos_integral, align_vars, reset_on_off>>

PositionCycle(dt, speed, position, position_ref, ff, position_ff) ==
  LET reference == RampStep(SeededPosition(position), position_ref, PosRate, dt)
      error == reference - position
  IN /\ mode = "Position"
     /\ meas_speed' = speed
     /\ prev_mode' = mode
     /\ pos_ramp' = reference
     /\ pos_integral' = PidIntegral(pos_integral, error, SpeedLimit, dt)
     /\ SpeedStage(dt, speed, LoopOutput(pos_integral, error, SpeedLimit, position_ff), ff)
     /\ UNCHANGED <<mode, id_ref, align_vars, reset_on_off>>

Update ==
  \E dt \in ValidDts, speed \in Speeds :
    \/ RejectedCycle(speed)
    \/ OffCycle(speed)
    \/ AlignCycle(dt, speed)
    \/ \E iq \in Currents : TorqueCycle(dt, speed, iq)
    \/ \E speed_ref \in Speeds, ff \in Feedforwards : SpeedCycle(dt, speed, speed_ref, ff)
    \/ \E position, position_ref \in Positions, ff, position_ff \in Feedforwards :
         PositionCycle(dt, speed, position, position_ref, ff, position_ff)

FocNext ==
  \/ \E m \in Mode : set_mode(m)
  \/ \E id \in Currents : set_id_ref(id)
  \/ zero_integrators
  \/ \E id \in Currents, duration \in Durations : align(id, duration)
  \/ Update

FocSpec == FocInit /\ [][FocNext]_foc_vars

-----------------------------------------------------------------------------
(***************************************************************************)
(* Properties.                                                             *)
(***************************************************************************)

\* Bumpless transfer: when the speed loop takes over from another loop, or from
\* Off with reset_on_off, the reference it follows starts at the measured speed,
\* and from then on it moves by at most what the ramp allows in a cycle.  Cycles
\* that are rejected in between do not change that.  Where the loops should start
\* after an Off without reset_on_off, its doc and the code do not agree; nothing
\* is said of that cycle.
SpeedReferenceContinuous ==
  [][SpeedRate > 0 /\ prev_mode' \in {"Speed", "Position"}
       /\ (prev_mode # "Off" \/ reset_on_off) /\ speed_target' # speed_target
       => LET start == IF prev_mode' = prev_mode THEN speed_target ELSE meas_speed'
          IN Abs(speed_target' - start) <= SpeedRate * MaxDt]_foc_vars

\* Anti-windup: however long a loop is saturated, its integrator stays within
\* the limit of its output, so that it lets go as soon as the error changes
\* sign.
IntegratorsBounded ==
  /\ Abs(pos_integral) <= SpeedLimit
  /\ Abs(speed_integral) <= IqLimit

\* The commanded current is within the current limit, and the d-axis current
\* above the demagnetization floor, whichever of the limits came into play:
\* the floor moves the vector after the circle has scaled it.
CommandWithinLimits ==
  /\ CurrentLimit > 0
       => id_command * id_command + iq_command * iq_command <= CurrentLimit * CurrentLimit
  /\ IDemag < 0 => id_command >= IDemag

=============================================================================
