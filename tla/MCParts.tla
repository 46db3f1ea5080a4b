------------------------------ MODULE MCParts ------------------------------
(***************************************************************************)
(* The parts that share no state with each other, checked in one run: the  *)
(* firmware update, the fault memory, the line editor of the shell, the    *)
(* open-loop drive, the FOC controller, the protection helpers and the     *)
(* observer.  A behaviour belongs to one of them, its subject, and leaves  *)
(* the others in their initial states, so that the states add up and do    *)
(* not multiply.                                                           *)
(***************************************************************************)
EXTENDS MCFirmwareUpdate, DtcStore, LineEditor, MotorDrive, FocCascade, Protection, Observer

VARIABLE subject

parts_vars == <<vars, DTCS, editor_vars, drive_vars, foc_vars, protection_vars,
                observer_vars, subject>>

PartsInit ==
  /\ subject \in {"update", "store", "editor", "drive", "cascade", "protection", "observer"}
  /\ Init /\ StoreInit /\ EditorInit /\ DriveInit /\ FocInit /\ ProtectionInit /\ ObserverInit
  /\ subject # "cascade" => reset_on_off = FALSE
  /\ subject # "protection" => stall_now_ms = 0

UpdateMoves ==
  /\ subject = "update" /\ Next
  /\ UNCHANGED <<DTCS, editor_vars, drive_vars, foc_vars, protection_vars, observer_vars,
                 subject>>

StoreMoves ==
  /\ subject = "store" /\ StoreNext
  /\ UNCHANGED <<vars, editor_vars, drive_vars, foc_vars, protection_vars, observer_vars, subject>>

EditorMoves ==
  /\ subject = "editor" /\ EditorNext
  /\ UNCHANGED <<vars, DTCS, drive_vars, foc_vars, protection_vars, observer_vars, subject>>

OtherThanDrive == <<vars, DTCS, editor_vars, foc_vars, protection_vars, observer_vars, subject>>
DriveMoves == subject = "drive" /\ DriveNext /\ UNCHANGED OtherThanDrive
DriveTicks == subject = "drive" /\ Tick /\ UNCHANGED OtherThanDrive
DriveShell == subject = "drive" /\ ShellStep /\ UNCHANGED OtherThanDrive

CascadeMoves ==
  /\ subject = "cascade" /\ FocNext
  /\ UNCHANGED <<vars, DTCS, editor_vars, drive_vars, protection_vars, observer_vars, subject>>

ProtectionMoves ==
  /\ subject = "protection" /\ ProtectionNext
  /\ UNCHANGED <<vars, DTCS, editor_vars, drive_vars, foc_vars, observer_vars, subject>>

ObserverMoves ==
  /\ subject = "observer" /\ ObserverNext
  /\ UNCHANGED <<vars, DTCS, editor_vars, drive_vars, foc_vars, protection_vars, subject>>

PartsNext ==
  \/ UpdateMoves \/ StoreMoves \/ EditorMoves \/ DriveMoves
  \/ CascadeMoves \/ ProtectionMoves \/ ObserverMoves

\* The fairness of MotorDrive.
PartsSpec ==
  /\ PartsInit /\ [][PartsNext]_parts_vars
  /\ WF_parts_vars(DriveTicks) /\ WF_parts_vars(DriveShell)

\* The state of every part has its type.
PartsTypeOK ==
  /\ TypeOK /\ StoreTypeOK /\ EditorTypeOK /\ DriveTypeOK
  /\ FocTypeOK /\ ProtectionTypeOK /\ ObserverTypeOK

-----------------------------------------------------------------------------
(***************************************************************************)
(* The values of the constants: two codes in one group and one in another; *)
(* spins that are refused, cut down, too weak to open the bridge, between  *)
(* the two thresholds and above both.                                      *)
(***************************************************************************)
TroubleCodes == {"U1", "U2", "P1"}
TroubleGroups == {"U", "P"}
TroubleGroupOf == [c \in TroubleCodes |-> IF c = "P1" THEN "P" ELSE "U"]

SpinFrequencies == {-1, 2}
SpinVoltages == {-1, 0, 2, 3, 7}

MotorSpeeds == {-1, 1}
MotorCurrents == {-3, 0}
DemagCurrent == -1
ZeroOrOne == {0, 1}
Both == BOOLEAN

RotorAtRestOrNot == {-2, 0}
LockSpeeds == {-9, 9}

=============================================================================
