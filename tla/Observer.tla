------------------------------ MODULE Observer ------------------------------
(***************************************************************************)
(* The phase-locked loop of the sliding-mode observer (foc-algo,           *)
(* observer.rs), and what can be called between two of its steps.  The     *)
(* current observer and the filters in front of it decide the raw angle,   *)
(* which is any angle here.                                                *)
(*                                                                         *)
(* Angles are integers, TAU of them to a turn; the gains are integers too, *)
(* and a step with a cycle time that is not positive, or with an input     *)
(* that is not finite, changes nothing.                                    *)
(***************************************************************************)
EXTENDS Bounds

CONSTANTS
  TAU,               \* a full turn
  PllKp, PllKi,
  MaxOmega,          \* max_omega, the limit of the integrator
  StepTimes, MaxStepTime,
  SeedSpeeds         \* what set_speed is called with

Half == TAU \div 2

ASSUME TurnAssumption == TAU \in Nat \ {0}
ASSUME PllAssumption ==
  /\ PllKp \in Nat /\ PllKi \in Nat /\ MaxOmega \in Nat
  /\ MaxStepTime \in Nat /\ StepTimes \subseteq 1..MaxStepTime
  /\ SeedSpeeds \subseteq Int

\* The angle moves by no more than a turn in a step.
ASSUME StepAssumption == (MaxOmega + PllKp * Half) * MaxStepTime <= TAU

Angles == 0..(TAU - 1)

VARIABLES theta_hat, omega_hat, pll_integral

observer_vars == <<theta_hat, omega_hat, pll_integral>>

\* The estimated angle is within one turn although update() takes off or adds
\* a turn only once, and the integrator, which is fed with the error, cannot
\* run away.
ObserverTypeOK ==
  /\ theta_hat \in Angles
  /\ omega_hat \in Int
  /\ pll_integral \in -MaxOmega..MaxOmega

ObserverInit == theta_hat = 0 /\ omega_hat = 0 /\ pll_integral = 0

SetAngle(theta) == theta_hat' = theta /\ UNCHANGED <<omega_hat, pll_integral>>
SetSpeed(omega) == omega_hat' = omega /\ UNCHANGED <<theta_hat, pll_integral>>
ResetObserver == theta_hat' = 0 /\ omega_hat' = 0 /\ pll_integral' = 0

\* The error, wrapped to half a turn either way.
PllError(theta_raw) ==
  LET error == theta_raw - theta_hat
  IN IF error > Half THEN error - TAU ELSE IF error < -Half THEN error + TAU ELSE error

\* One turn off or on.
Normalised(theta) ==
  IF theta >= TAU THEN theta - TAU ELSE IF theta < 0 THEN theta + TAU ELSE theta

PllStep(theta_raw, dt) ==
  LET error == PllError(theta_raw)
  IN /\ pll_integral' = Clamp(pll_integral + PllKi * error * dt, MaxOmega)
     /\ omega_hat' = PllKp * error + pll_integral'
     /\ theta_hat' = Normalised(theta_hat + omega_hat' * dt)

ObserverNext ==
  \/ \E theta \in Angles : SetAngle(theta)
  \/ \E omega \in SeedSpeeds : SetSpeed(omega)
  \/ ResetObserver
  \/ \E theta_raw \in Angles, dt \in StepTimes : PllStep(theta_raw, dt)

ObserverSpec == ObserverInit /\ [][ObserverNext]_observer_vars

=============================================================================
