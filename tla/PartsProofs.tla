----------------------------- MODULE PartsProofs -----------------------------
(***************************************************************************)
(* Theorems about MotorDrive, Protection and Observer, for every set of    *)
(* commands and all limits, for every counter width, grace period and      *)
(* thermal tuning, and for every resolution of the angle and every tuning  *)
(* of the loop that keeps a step within one turn; and the theorem that     *)
(* carries these, and those about the parts with a proof module of their   *)
(* own, over to the run that checks the parts together.                    *)
(***************************************************************************)
EXTENDS MCParts, DtcStoreProofs, LineEditorProofs, FocCascadeProofs, FirmwareSwapProofs

-----------------------------------------------------------------------------
(***************************************************************************)
(* The open-loop drive.                                                    *)
(***************************************************************************)

\* From the moment a reboot is asked for the command cell is off, and from
\* the first tick after the prompt the motor task has seen it.
RebootInv ==
  /\ REBOOT_REQUESTED => shell \in {"prompt", "wait"} /\ ~OPEN_LOOP_CMD.enabled
  /\ shell = "wait" => REBOOT_REQUESTED
  /\ waited > 0 => shell = "wait" /\ ~prev_enabled

DriveInv == DriveTypeOK /\ BridgeFollowsCommand /\ RebootInv

\* A command that run_spin writes is within the limits.
LEMMA SpinType ==
  ASSUME NEW l \in Line, OPEN_LOOP_CMD \in Cmd, run_spin(l)
  PROVE  OPEN_LOOP_CMD' \in Cmd
  <1>1. CASE l.freq_hz < 0 \/ l.voltage < 0
    BY <1>1 DEF run_spin
  <1>2. CASE ~(l.freq_hz < 0 \/ l.voltage < 0)
    <2>1. l.freq_hz \in Int /\ l.voltage \in Int
      BY RequestedAssumption DEF Line
    <2>2. AtMost(l.freq_hz, MAX_SPIN_FREQ_HZ) \in 0..MAX_SPIN_FREQ_HZ
      BY <1>2, <2>1, LimitAssumption DEF AtMost
    <2>3. AtMost(l.voltage, MAX_OPENLOOP_V) \in 0..MAX_OPENLOOP_V
      BY <1>2, <2>1, LimitAssumption DEF AtMost
    <2>4. QED
      BY <1>2, <2>2, <2>3 DEF run_spin, Cmd
  <1>3. QED
    BY <1>1, <1>2

\* A tick moves the ramp towards a target in range.
LEMMA RampType ==
  ASSUME DriveTypeOK
  PROVE  RampUpdate(TargetVoltage) \in 0..MAX_OPENLOOP_V
  <1>1. TargetVoltage \in 0..MAX_OPENLOOP_V
    BY LimitAssumption DEF TargetVoltage, AtMost, DriveTypeOK, Cmd
  <1>2. voltage_ramp \in 0..MAX_OPENLOOP_V
    BY DEF DriveTypeOK
  <1>3. QED
    BY <1>1, <1>2, LimitAssumption DEF RampUpdate

\* The command the cell starts with is one, and off.
LEMMA DefaultCommand == CMD_DEFAULT \in Cmd /\ ~CMD_DEFAULT.enabled
  BY LimitAssumption DEF CMD_DEFAULT, Cmd

\* So do the other numbers.
LEMMA ZeroInRange == 0 \in 0..MAX_OPENLOOP_V /\ 0 \in 0..RebootTicks /\ ~(0 > 0)
  BY LimitAssumption, RebootAssumption

LEMMA DriveInitInv == DriveInit => DriveInv
  <1> SUFFICES ASSUME DriveInit PROVE DriveInv
    OBVIOUS
  <1>1. DriveTypeOK
    BY DefaultCommand, ZeroInRange DEF DriveInit, DriveTypeOK
  <1>2. BridgeFollowsCommand
    BY DEF DriveInit, BridgeFollowsCommand
  <1>3. RebootInv
    BY ZeroInRange DEF DriveInit, RebootInv
  <1>4. QED
    BY <1>1, <1>2, <1>3 DEF DriveInv

LEMMA DriveStepInv == DriveInv /\ [DriveNext]_drive_vars => DriveInv'
  <1> SUFFICES ASSUME DriveInv, [DriveNext]_drive_vars PROVE DriveInv'
    OBVIOUS
  <1> USE DEF DriveInv
  <1>1. ASSUME NEW l \in Line, Enter(l) PROVE DriveInv'
    BY <1>1 DEF Enter, motor_vars, DriveTypeOK, BridgeFollowsCommand, RebootInv
  <1>2. CASE Execute
    <2>1. line \in Line \/ line.op = "none"
      BY DEF DriveTypeOK, NoLine
    <2>2. CASE line.op = "spin"
      <3>1. run_spin(line) /\ line \in Line
        BY <1>2, <2>1, <2>2 DEF Execute
      <3>2. OPEN_LOOP_CMD' \in Cmd
        BY <3>1, SpinType DEF DriveTypeOK
      <3>3. REBOOT_REQUESTED' = REBOOT_REQUESTED
        BY <1>2, <2>2 DEF Execute, DriveTypeOK
      <3>4. QED
        BY <1>2, <3>2, <3>3 DEF Execute, motor_vars, DriveTypeOK, BridgeFollowsCommand, RebootInv
    <2>3. CASE line.op \in {"stop", "reboot"}
      <3>1. run_stop_inner
        BY <1>2, <2>3 DEF Execute
      <3>2. OPEN_LOOP_CMD' \in Cmd /\ ~OPEN_LOOP_CMD'.enabled
        BY <3>1 DEF run_stop_inner, DriveTypeOK, Cmd
      <3>3. QED
        BY <1>2, <3>2 DEF Execute, motor_vars, DriveTypeOK, BridgeFollowsCommand, RebootInv
    <2>4. CASE line.op \notin {"spin", "stop", "reboot"}
      <3>1. OPEN_LOOP_CMD' = OPEN_LOOP_CMD
        BY <1>2, <2>4 DEF Execute
      <3>2. REBOOT_REQUESTED' = REBOOT_REQUESTED
        BY <1>2, <2>4 DEF Execute, DriveTypeOK
      <3>3. QED
        BY <1>2, <3>1, <3>2 DEF Execute, motor_vars, DriveTypeOK, BridgeFollowsCommand, RebootInv
    <2>5. QED
      BY <2>2, <2>3, <2>4
  <1>3. CASE Prompted
    BY <1>3, RebootAssumption
    DEF Prompted, motor_vars, DriveTypeOK, BridgeFollowsCommand, RebootInv
  <1>4. CASE SysReset
    <2>1. DriveTypeOK'
      BY <1>4, DefaultCommand, ZeroInRange DEF SysReset, DriveTypeOK
    <2>2. BridgeFollowsCommand' /\ RebootInv'
      BY <1>4, ZeroInRange DEF SysReset, BridgeFollowsCommand, RebootInv
    <2>3. QED
      BY <2>1, <2>2
  <1>5. CASE Tick
    <2>1. voltage_ramp' \in 0..MAX_OPENLOOP_V
      BY <1>5, RampType DEF Tick
    <2>2. MOE' \in BOOLEAN /\ (MOE' => prev_enabled')
      BY <1>5, Zenon
      DEF Tick, Bridge, FallingEdge, DutyDeparted, DriveTypeOK, BridgeFollowsCommand, Cmd
    <2>3. waited' \in 0..RebootTicks /\ (waited' > 0 => waited > 0 \/ shell = "wait")
      BY <1>5, RebootAssumption DEF Tick, DriveTypeOK
    <2>4. QED
      BY <1>5, <2>1, <2>2, <2>3
      DEF Tick, shell_vars, DriveTypeOK, BridgeFollowsCommand, RebootInv, Cmd
  <1>6. CASE UNCHANGED drive_vars
    BY <1>6
    DEF drive_vars, motor_vars, shell_vars, DriveTypeOK, BridgeFollowsCommand, RebootInv
  <1>7. QED
    BY <1>1, <1>2, <1>3, <1>4, <1>5, <1>6 DEF DriveNext, ShellStep

LEMMA DriveAlways == DriveSpec => []DriveInv
  <1>1. QED
    BY DriveInitInv, DriveStepInv, PTL DEF DriveSpec

\* Whatever is typed, the command, the ramp and the shell keep their types,
\* the voltage its limit.
THEOREM DriveTypeCorrect == DriveSpec => []DriveTypeOK
  BY DriveAlways, PTL DEF DriveInv

\* A stop switches the bridge off in the first tick that sees it.
THEOREM BridgeCorrect == DriveSpec => []BridgeFollowsCommand
  BY DriveAlways, PTL DEF DriveInv

\* However short the wait, a reboot finds the bridge off.
THEOREM RebootCorrect == DriveSpec => []RebootFindsBridgeOff
  <1>1. DriveInv => RebootFindsBridgeOff
    BY RebootAssumption
    DEF DriveInv, DriveTypeOK, BridgeFollowsCommand, RebootInv, RebootFindsBridgeOff, RebootNow
  <1>2. QED
    BY <1>1, DriveAlways, PTL

-----------------------------------------------------------------------------
(***************************************************************************)
(* The thermal limiter and the stall detector.                             *)
(***************************************************************************)

\* The time the detector reckons with is never more than the time that has
\* passed; the counter wrapping can only make it less.
GraceInv ==
  armed_at_ms # Disarmed
    => armed_for >= AtMost(SaturatingSub(stall_now_ms, armed_at_ms), MinIqAfterMs)

ProtectionInv == ProtectionTypeOK /\ GraceInv

\* The clamp at the end of foldback().
LEMMA AccumulatorType ==
  ASSUME ProtectionTypeOK, NEW current \in PhaseCurrents, NEW dt \in CycleTimes,
         Foldback(current, dt)
  PROVE  accumulator' \in 0..I2tLimit
  <1> DEFINE heated == accumulator + (current * current - RatedCurrent * RatedCurrent) * dt
             cooled == heated - (CoolingPercent * heated * dt) \div 100
  <1>1. heated \in Int
    BY ThermalAssumption DEF ProtectionTypeOK
  <1>2. cooled \in Int
    <2> HIDE DEF heated
    <2>1. CoolingPercent * heated * dt \in Int
      BY <1>1, ThermalAssumption
    <2>2. (CoolingPercent * heated * dt) \div 100 \in Int
      BY <2>1
    <2>3. QED
      BY <1>1, <2>2
  <1>3. Between(cooled, 0, I2tLimit) \in 0..I2tLimit
    <2> HIDE DEF cooled
    <2>1. QED
      BY <1>2, ThermalAssumption DEF Between, AtMost
  <1>4. accumulator' = IF dt <= 0 THEN accumulator ELSE Between(cooled, 0, I2tLimit)
    BY DEF Foldback
  <1>5. QED
    BY <1>3, <1>4 DEF ProtectionTypeOK

LEMMA ProtectionStepInv ==
  ProtectionInv /\ [ProtectionNext]_protection_vars => ProtectionInv'
  <1> SUFFICES ASSUME ProtectionInv, [ProtectionNext]_protection_vars PROVE ProtectionInv'
    OBVIOUS
  <1> USE DEF ProtectionInv
  <1>1. ASSUME NEW current \in PhaseCurrents, NEW dt \in CycleTimes, Foldback(current, dt)
        PROVE  ProtectionInv'
    <2>1. accumulator' \in 0..I2tLimit
      BY <1>1, AccumulatorType
    <2>2. QED
      BY <1>1, <2>1 DEF Foldback, stall_vars, ProtectionTypeOK, GraceInv
  <1>2. CASE ThermalReset
    BY <1>2, ThermalAssumption DEF ThermalReset, stall_vars, ProtectionTypeOK, GraceInv
  <1>3. CASE Arm
    BY <1>3, StallAssumption
    DEF Arm, ProtectionTypeOK, GraceInv, SaturatingSub, AtMost
  <1>4. CASE Disarm
    BY <1>4, StallAssumption DEF Disarm, ProtectionTypeOK, GraceInv
  <1>5. CASE Millisecond
    <2>1. \/ stall_now_ms' = 0
          \/ stall_now_ms' = stall_now_ms + 1 /\ stall_now_ms' < StallClockMod
      BY <1>5, StallAssumption DEF Millisecond, ProtectionTypeOK
    <2>2. ProtectionTypeOK'
      BY <1>5, <2>1, StallAssumption DEF Millisecond, ProtectionTypeOK, AtMost
    <2>3. GraceInv'
      BY <1>5, <2>1, <2>2, StallAssumption
      DEF Millisecond, ProtectionTypeOK, GraceInv, SaturatingSub, AtMost, Disarmed
    <2>4. QED
      BY <2>2, <2>3
  <1>6. CASE UNCHANGED protection_vars
    BY <1>6 DEF protection_vars, stall_vars, ProtectionTypeOK, GraceInv
  <1>7. QED
    BY <1>1, <1>2, <1>3, <1>4, <1>5, <1>6 DEF ProtectionNext

LEMMA ProtectionAlways == ProtectionSpec => []ProtectionInv
  <1>1. ProtectionInit => ProtectionInv
    BY StallAssumption, ThermalAssumption
    DEF ProtectionInit, ProtectionInv, ProtectionTypeOK, GraceInv
  <1>2. QED
    BY <1>1, ProtectionStepInv, PTL DEF ProtectionSpec

-----------------------------------------------------------------------------
\* The accumulator stays between cold and the limit whatever currents and
\* cycle times it is fed with, so that cooling down takes a bounded time.
THEOREM ProtectionTypeCorrect == ProtectionSpec => []ProtectionTypeOK
  BY ProtectionAlways, PTL DEF ProtectionInv

\* No stall is reported within the grace period, for every width of the
\* counter and every moment of arming.
THEOREM GraceCorrect == ProtectionSpec => []GraceRespected
  <1>1. ProtectionInv => GraceRespected
    BY StallAssumption
    DEF ProtectionInv, ProtectionTypeOK, GraceInv, GraceRespected, StallCheck,
        SaturatingSub, AtMost, Disarmed
  <1>2. QED
    BY <1>1, ProtectionAlways, PTL

-----------------------------------------------------------------------------
(***************************************************************************)
(* The phase-locked loop.                                                  *)
(***************************************************************************)

\* A product of bounded factors is bounded.
LEMMA ProductBound ==
  ASSUME NEW a \in Nat, NEW b \in Nat, NEW x \in -a..a, NEW y \in 0..b
  PROVE  x * y \in -(a * b)..(a * b)
  <1>1. x * y \in Int
    OBVIOUS
  <1>2. y * (a - x) >= 0 /\ y * (a + x) >= 0
    <2>1. \A p, q \in Nat : p * q >= 0
      OBVIOUS
    <2>2. y \in Nat /\ a - x \in Nat /\ a + x \in Nat
      OBVIOUS
    <2>3. QED
      BY <2>1, <2>2
  <1>3. a * (b - y) >= 0
    <2>1. \A p, q \in Nat : p * q >= 0
      OBVIOUS
    <2>2. b - y \in Nat
      OBVIOUS
    <2>3. QED
      BY <2>1, <2>2
  <1>4. y * (a - x) = a * y - x * y /\ y * (a + x) = a * y + x * y
    BY SMT
  <1>5. a * (b - y) = a * b - a * y
    BY SMT
  <1>6. a * y \in Int /\ a * b \in Int
    OBVIOUS
  <1>7. QED
    BY <1>1, <1>2, <1>3, <1>4, <1>5, <1>6

\* The wrapped error is at most half a turn.
LEMMA ErrorBound ==
  ASSUME NEW theta_raw \in Angles, theta_hat \in Angles
  PROVE  PllError(theta_raw) \in -Half..Half
  BY TurnAssumption DEF PllError, Angles, Half

\* An angle that is off by at most a turn is brought back by one correction.
LEMMA NormalisedType ==
  ASSUME NEW theta \in -TAU..(2 * TAU - 1)
  PROVE  Normalised(theta) \in Angles
  BY TurnAssumption DEF Normalised, Angles

LEMMA ClampType ==
  ASSUME NEW x \in Int, NEW limit \in Nat
  PROVE  Clamp(x, limit) \in -limit..limit
  BY DEF Clamp, Between, AtMost

-----------------------------------------------------------------------------
LEMMA PllStepType ==
  ASSUME ObserverTypeOK, NEW theta_raw \in Angles, NEW dt \in StepTimes,
         PllStep(theta_raw, dt)
  PROVE  ObserverTypeOK'
  <1> DEFINE error == PllError(theta_raw)
             reach == MaxOmega + PllKp * Half
  <1>1. Half \in Nat /\ PllKp \in Nat /\ PllKi \in Nat /\ MaxOmega \in Nat
        /\ dt \in 1..MaxStepTime /\ MaxStepTime \in Nat /\ TAU \in Nat
    BY TurnAssumption, PllAssumption DEF Half
  <1>2. error \in -Half..Half
    BY ErrorBound DEF ObserverTypeOK
  <1>3. pll_integral' \in -MaxOmega..MaxOmega
    <2>1. PllKi * error * dt \in Int
      BY <1>1, <1>2
    <2>2. pll_integral + PllKi * error * dt \in Int
      BY <1>1, <2>1 DEF ObserverTypeOK
    <2>3. Clamp(pll_integral + PllKi * error * dt, MaxOmega) \in -MaxOmega..MaxOmega
      BY <1>1, <2>2, ClampType
    <2>4. pll_integral' = Clamp(pll_integral + PllKi * error * dt, MaxOmega)
      BY DEF PllStep
    <2>5. QED
      BY <2>3, <2>4
  <1>4. PllKp * error \in -(PllKp * Half)..(PllKp * Half)
    <2>1. error * PllKp \in -(Half * PllKp)..(Half * PllKp)
      <3>1. PllKp \in 0..PllKp
        BY <1>1
      <3>2. QED
        BY <1>1, <1>2, <3>1, ProductBound
    <2>2. error * PllKp = PllKp * error /\ Half * PllKp = PllKp * Half
      BY <1>1, <1>2
    <2>3. QED
      BY <2>1, <2>2
  <1>5. reach \in Nat
    <2>1. PllKp * Half \in Nat
      BY <1>1
    <2>2. QED
      BY <1>1, <2>1
  <1>6. omega_hat' \in -reach..reach
    <2>1. omega_hat' = PllKp * error + pll_integral'
      BY DEF PllStep
    <2>2. PllKp * Half \in Nat
      BY <1>1
    <2>3. QED
      BY <1>1, <1>3, <1>4, <2>1, <2>2
  <1>7. omega_hat' * dt \in -TAU..TAU
    <2>1. dt \in 0..MaxStepTime
      BY <1>1
    <2>2. omega_hat' * dt \in -(reach * MaxStepTime)..(reach * MaxStepTime)
      <3> HIDE DEF reach
      <3>1. QED
        BY <1>1, <1>5, <1>6, <2>1, ProductBound
    <2>3. reach * MaxStepTime <= TAU
      BY StepAssumption
    <2>4. reach * MaxStepTime \in Int
      <3> HIDE DEF reach
      <3>1. QED
        BY <1>1, <1>5
    <2>5. omega_hat' * dt \in Int
      <3> HIDE DEF reach
      <3>1. QED
        BY <1>1, <1>5, <1>6
    <2>6. QED
      <3> HIDE DEF reach
      <3>1. QED
        BY <1>1, <2>2, <2>3, <2>4, <2>5
  <1>8. theta_hat' \in Angles
    <2>1. theta_hat + omega_hat' * dt \in -TAU..(2 * TAU - 1)
      BY <1>1, <1>7 DEF ObserverTypeOK, Angles
    <2>2. theta_hat' = Normalised(theta_hat + omega_hat' * dt)
      BY DEF PllStep
    <2>3. QED
      BY <2>1, <2>2, NormalisedType
  <1>9. omega_hat' \in Int
    <2> HIDE DEF reach
    <2>1. QED
      BY <1>5, <1>6
  <1>10. QED
    BY <1>3, <1>8, <1>9 DEF ObserverTypeOK

\* The estimated angle stays within one turn, with the single correction per
\* step, and the integrator within its limit, whatever the raw angle does and
\* whatever the loop is seeded with.
THEOREM ObserverTypeCorrect == ObserverSpec => []ObserverTypeOK
  <1>1. ObserverInit => ObserverTypeOK
    BY TurnAssumption, PllAssumption DEF ObserverInit, ObserverTypeOK, Angles
  <1>2. ObserverTypeOK /\ [ObserverNext]_observer_vars => ObserverTypeOK'
    <2> SUFFICES ASSUME ObserverTypeOK, [ObserverNext]_observer_vars PROVE ObserverTypeOK'
      OBVIOUS
    <2>1. ASSUME NEW theta \in Angles, SetAngle(theta) PROVE ObserverTypeOK'
      BY <2>1 DEF SetAngle, ObserverTypeOK
    <2>2. ASSUME NEW omega \in SeedSpeeds, SetSpeed(omega) PROVE ObserverTypeOK'
      BY <2>2, PllAssumption DEF SetSpeed, ObserverTypeOK
    <2>3. CASE ResetObserver
      BY <2>3, TurnAssumption, PllAssumption DEF ResetObserver, ObserverTypeOK, Angles
    <2>4. ASSUME NEW theta_raw \in Angles, NEW dt \in StepTimes, PllStep(theta_raw, dt)
          PROVE  ObserverTypeOK'
      BY <2>4, PllStepType
    <2>5. CASE UNCHANGED observer_vars
      BY <2>5 DEF observer_vars, ObserverTypeOK
    <2>6. QED
      BY <2>1, <2>2, <2>3, <2>4, <2>5 DEF ObserverNext
  <1>3. QED
    BY <1>1, <1>2, PTL DEF ObserverSpec

-----------------------------------------------------------------------------
(***************************************************************************)
(* The parts together.                                                     *)
(***************************************************************************)

\* A step belongs to one part and leaves the others alone.
LEMMA PartsStep ==
  ASSUME [PartsNext]_parts_vars
  PROVE  /\ [Next]_vars /\ [StoreNext]_DTCS /\ [EditorNext]_editor_vars /\ [DriveNext]_drive_vars
         /\ [FocNext]_foc_vars /\ [ProtectionNext]_protection_vars
         /\ [ObserverNext]_observer_vars
  BY DEF PartsNext, UpdateMoves, StoreMoves, EditorMoves, DriveMoves, CascadeMoves,
         ProtectionMoves, ObserverMoves, OtherThanDrive, parts_vars

\* Every behaviour of the parts together is one of each part, so that what is
\* proved of a part by itself holds in the run that checks all of them.
THEOREM PartsFollowed ==
  PartsSpec => /\ Spec /\ StoreSpec /\ EditorSpec /\ DriveSpec
               /\ FocSpec /\ ProtectionSpec /\ ObserverSpec
  <1>1. PartsInit => /\ Init /\ StoreInit /\ EditorInit /\ DriveInit
                     /\ FocInit /\ ProtectionInit /\ ObserverInit
    BY DEF PartsInit
  <1>2. QED
    BY <1>1, PartsStep, PTL
       DEF PartsSpec, Spec, StoreSpec, EditorSpec, DriveSpec, FocSpec, ProtectionSpec, ObserverSpec

\* The state of every part keeps its type, for every value of the constants.
THEOREM PartsTypeCorrect == PartsSpec => []PartsTypeOK
  BY PartsFollowed, FirmwareTypeCorrect, StoreTypeCorrect, EditorTypeCorrect, DriveTypeCorrect,
     FocTypeCorrect, ProtectionTypeCorrect, ObserverTypeCorrect, PTL DEF PartsTypeOK

=============================================================================
