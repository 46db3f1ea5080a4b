----------------------------- MODULE MotorDrive -----------------------------
(***************************************************************************)
(* The open-loop drive: the motor task (src/tasks/motor.rs) with its       *)
(* voltage ramp (src/motor/open_loop.rs, foc-algo/src/math/ramp.rs) and    *)
(* the bridge (src/drivers/motor_pwm.rs), and the shell commands that      *)
(* reach it through the shared cell OPEN_LOOP_CMD                          *)
(* (src/shell/commands.rs, the end of the loop in src/shell/task.rs).      *)
(*                                                                         *)
(* The two tasks interleave at their awaits: the motor task has one, the   *)
(* ticker, so that a tick is one step; the shell has one before and one    *)
(* after it writes the cell.                                               *)
(*                                                                         *)
(* The unit of voltage is what the ramp moves in one tick.  The angle of   *)
(* the voltage vector is left out: it decides which phase a voltage        *)
(* appears on, and so whether a voltage between V_NEVER and V_ALWAYS moves *)
(* some duty by more than 0.02.  Below V_NEVER none does, from V_ALWAYS on *)
(* one always does.                                                        *)
(***************************************************************************)
EXTENDS Bounds

CONSTANTS
  Frequencies, Voltages,   \* what a spin line can ask for
  MAX_SPIN_FREQ_HZ, MAX_OPENLOOP_V,
  V_NEVER, V_ALWAYS,
  RebootTicks              \* motor ticks in the 50 ms before a reboot

ASSUME RequestedAssumption == Frequencies \subseteq Int /\ Voltages \subseteq Int
ASSUME LimitAssumption ==
  /\ MAX_SPIN_FREQ_HZ \in Nat
  /\ MAX_OPENLOOP_V \in Nat
  /\ V_NEVER \in Nat \ {0}
  /\ V_ALWAYS \in Nat
  /\ V_NEVER <= V_ALWAYS
ASSUME RebootAssumption == RebootTicks \in Nat \ {0}

VARIABLES
  OPEN_LOOP_CMD,      \* the command cell
  prev_enabled,       \* enabled, as the last tick saw it
  voltage_ramp,       \* the ramp, which is also the voltage in the duties
  MOE,                \* the bridge is connected to the timer
  shell,              \* where the shell is
  line,               \* the command it has parsed
  REBOOT_REQUESTED,
  waited              \* ticks since the 50 ms began, capped at RebootTicks

motor_vars == <<prev_enabled, voltage_ramp, MOE>>
shell_vars == <<OPEN_LOOP_CMD, shell, line, REBOOT_REQUESTED>>
drive_vars == <<motor_vars, shell_vars, waited>>

Cmd == [enabled : BOOLEAN, freq_hz : 0..MAX_SPIN_FREQ_HZ, voltage : 0..MAX_OPENLOOP_V]
CMD_DEFAULT == [enabled |-> FALSE, freq_hz |-> 0, voltage |-> 0]

\* "other" are the commands that only write to the terminal, and Unknown.
Line == [op : {"spin", "stop", "reboot", "other"}, freq_hz : Frequencies, voltage : Voltages]
NoLine == [op |-> "none", freq_hz |-> 0, voltage |-> 0]

DriveTypeOK ==
  /\ OPEN_LOOP_CMD \in Cmd
  /\ prev_enabled \in BOOLEAN
  /\ voltage_ramp \in 0..MAX_OPENLOOP_V
  /\ MOE \in BOOLEAN
  /\ shell \in {"read", "exec", "prompt", "wait"}
  /\ line \in Line \cup {NoLine}
  /\ REBOOT_REQUESTED \in BOOLEAN
  /\ waited \in 0..RebootTicks

DriveInit ==
  /\ OPEN_LOOP_CMD = CMD_DEFAULT
  /\ prev_enabled = FALSE
  /\ voltage_ramp = 0
  /\ MOE = FALSE
  /\ shell = "read"
  /\ line = NoLine
  /\ REBOOT_REQUESTED = FALSE
  /\ waited = 0

-----------------------------------------------------------------------------
(***************************************************************************)
(* The shell.                                                              *)
(***************************************************************************)

\* Enter, on a line that is not empty.
Enter(l) ==
  /\ shell = "read"
  /\ shell' = "exec"
  /\ line' = l
  /\ UNCHANGED <<motor_vars, OPEN_LOOP_CMD, REBOOT_REQUESTED, waited>>

\* run_spin: negative values are refused, large ones cut down.
run_spin(l) ==
  OPEN_LOOP_CMD' =
    IF l.freq_hz < 0 \/ l.voltage < 0 THEN OPEN_LOOP_CMD
    ELSE [enabled |-> TRUE,
          freq_hz |-> AtMost(l.freq_hz, MAX_SPIN_FREQ_HZ),
          voltage |-> AtMost(l.voltage, MAX_OPENLOOP_V)]

\* Fault: the command is left as it is.
run_stop_forgotten == UNCHANGED OPEN_LOOP_CMD

run_stop_inner == OPEN_LOOP_CMD' = [OPEN_LOOP_CMD EXCEPT !.enabled = FALSE]

\* exec_cmd.
Execute ==
  /\ shell = "exec"
  /\ shell' = "prompt"
  /\ CASE line.op = "spin" -> run_spin(line)
       [] line.op \in {"stop", "reboot"} -> run_stop_inner
       [] OTHER -> UNCHANGED OPEN_LOOP_CMD
  /\ REBOOT_REQUESTED' = (REBOOT_REQUESTED \/ line.op = "reboot")
  /\ UNCHANGED <<motor_vars, line, waited>>

\* The prompt is out; the reboot flag is looked at.
Prompted ==
  /\ shell = "prompt"
  /\ shell' = IF REBOOT_REQUESTED THEN "wait" ELSE "read"
  /\ line' = NoLine
  /\ waited' = 0
  /\ UNCHANGED <<motor_vars, OPEN_LOOP_CMD, REBOOT_REQUESTED>>

RebootNow == shell = "wait" /\ waited = RebootTicks

\* SCB::sys_reset, after 50 ms.
SysReset ==
  /\ RebootNow
  /\ OPEN_LOOP_CMD' = CMD_DEFAULT
  /\ prev_enabled' = FALSE
  /\ voltage_ramp' = 0
  /\ MOE' = FALSE
  /\ shell' = "read"
  /\ line' = NoLine
  /\ REBOOT_REQUESTED' = FALSE
  /\ waited' = 0

-----------------------------------------------------------------------------
(***************************************************************************)
(* The motor task.                                                         *)
(***************************************************************************)

\* Fault: the ramp does not rest at its target.
RampOvershoots(target) == IF target >= voltage_ramp THEN voltage_ramp + 1 ELSE voltage_ramp - 1

\* OpenLoop's ramp, Ramp::update, whose step is one unit of voltage.
RampUpdate(target) ==
  CASE target > voltage_ramp -> voltage_ramp + 1
    [] target < voltage_ramp -> voltage_ramp - 1
    [] OTHER -> voltage_ramp

\* OpenLoop::step: without a command the target is 0.
TargetVoltage ==
  IF OPEN_LOOP_CMD.enabled THEN AtMost(OPEN_LOOP_CMD.voltage, MAX_OPENLOOP_V) ELSE 0

FallingEdge == ~OPEN_LOOP_CMD.enabled /\ prev_enabled

\* Whether some phase is more than 0.02 away from the centre.
DutyDeparted(v) == {b \in BOOLEAN : (v < V_NEVER => ~b) /\ (v >= V_ALWAYS => b)}

\* Fault: the falling edge is looked for after prev_enabled is overwritten.
BridgeNoEdge ==
  IF OPEN_LOOP_CMD.enabled /\ ~MOE THEN MOE' \in DutyDeparted(voltage_ramp') ELSE MOE' = MOE

\* Fault: the bridge waits for the ramp to reach the command exactly.
BridgeAtTarget ==
  LET on == MOE /\ ~FallingEdge
  IN IF OPEN_LOOP_CMD.enabled /\ ~on
     THEN MOE' = (voltage_ramp' > OPEN_LOOP_CMD.voltage) ELSE MOE' = on

\* The bridge is switched off on the falling edge, before the duties change,
\* and on once a duty has departed from the centre.
Bridge ==
  LET on == MOE /\ ~FallingEdge
  IN IF OPEN_LOOP_CMD.enabled /\ ~on THEN MOE' \in DutyDeparted(voltage_ramp') ELSE MOE' = on

Tick ==
  /\ prev_enabled' = OPEN_LOOP_CMD.enabled
  /\ voltage_ramp' = RampUpdate(TargetVoltage)
  /\ Bridge
  /\ waited' = IF shell = "wait" /\ waited < RebootTicks THEN waited + 1 ELSE waited
  /\ UNCHANGED shell_vars

ShellStep == Execute \/ Prompted \/ SysReset

DriveNext ==
  \/ \E l \in Line : Enter(l)
  \/ ShellStep
  \/ Tick

DriveSpec == DriveInit /\ [][DriveNext]_drive_vars

\* Both tasks are polled: the ticker goes on, and what the shell waits for
\* after a line has been entered is the terminal and a timer.
DriveFairness == WF_drive_vars(Tick) /\ WF_drive_vars(ShellStep)

DriveFairSpec == DriveSpec /\ DriveFairness

-----------------------------------------------------------------------------
(***************************************************************************)
(* Safety.                                                                 *)
(***************************************************************************)

\* The bridge carries voltage only if the last tick saw a command: a stop
\* takes effect in the first tick that sees it, and nothing but a new spin
\* switches the bridge on again, although the ramp is still on its way down.
BridgeFollowsCommand == MOE => prev_enabled

\* A reboot from the shell finds the bridge off, and no command can switch it
\* on in the time the shell waits.
RebootFindsBridgeOff == RebootNow => ~MOE /\ ~OPEN_LOOP_CMD.enabled

(***************************************************************************)
(* Liveness.                                                               *)
(***************************************************************************)

\* A command that is not withdrawn and asks for enough voltage is powered.
Commanded(v) == OPEN_LOOP_CMD.enabled /\ OPEN_LOOP_CMD.voltage >= v
SpinStarts == Commanded(V_ALWAYS) ~> MOE \/ ~Commanded(V_ALWAYS)

(***************************************************************************)
(* What the comments in the code say of it.                                *)
(***************************************************************************)

\* tasks/motor.rs: on a rising edge the voltage is ramped up from 0, and the
\* bridge is switched on by the way; so it is never switched on at more than
\* the voltage at which it should have been on already.
BridgeStartsLow == [][~MOE /\ MOE' => voltage_ramp' <= V_ALWAYS]_drive_vars

=============================================================================
