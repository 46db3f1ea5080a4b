------------------------------- MODULE Bounds -------------------------------
(***************************************************************************)
(* The clamps of the control code: f32::clamp with symmetric limits, min   *)
(* and abs, on integers that stand for floats.                             *)
(***************************************************************************)
EXTENDS Integers

Abs(x) == IF x < 0 THEN -x ELSE x
AtMost(x, max) == IF x > max THEN max ELSE x
Between(x, low, high) == IF x < low THEN low ELSE AtMost(x, high)
Clamp(x, limit) == Between(x, -limit, limit)

=============================================================================
