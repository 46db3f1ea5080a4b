-------------------------- MODULE FocCascadeProofs --------------------------
(***************************************************************************)
(* Theorems about FocCascade, for all references, rates, limits and gains  *)
(* its assumptions allow.                                                  *)
(***************************************************************************)
EXTENDS FocCascade, WellFoundedInduction, TLAPS

-----------------------------------------------------------------------------
(***************************************************************************)
(* Arithmetic.                                                             *)
(***************************************************************************)
LEMMA ProductNat == \A p, q \in Nat : p * q \in Nat
  OBVIOUS

LEMMA ClampRange ==
  ASSUME NEW x \in Int, NEW limit \in Nat
  PROVE  Clamp(x, limit) \in -limit..limit
  BY DEF Clamp, Between, AtMost

\* A ramp that is not disabled moves by at most its rate times the cycle.
LEMMA RampBound ==
  ASSUME NEW value \in Int, NEW target \in Int, NEW rate \in Nat, NEW dt \in ValidDts
  PROVE  /\ RampStep(value, target, rate, dt) \in Int
         /\ rate > 0 => Abs(RampStep(value, target, rate, dt) - value) <= rate * MaxDt
  <1>1. dt \in Nat /\ MaxDt \in Nat /\ MaxDt - dt \in Nat
    BY SignalAssumption DEF ValidDts
  <1>2. rate * dt \in Nat /\ rate * (MaxDt - dt) \in Nat /\ rate * MaxDt \in Nat
    BY <1>1, ProductNat
  <1>3. rate * (MaxDt - dt) = rate * MaxDt - rate * dt
    BY <1>1
  <1>4. Clamp(target - value, rate * dt) \in -(rate * dt)..(rate * dt)
    <2>1. target - value \in Int
      OBVIOUS
    <2>2. QED
      BY <1>2, <2>1, ClampRange, Zenon
  <1>5. QED
    BY <1>2, <1>3, <1>4 DEF RampStep, Abs

\* What one cycle adds to an integrator has the sign of the proportional
\* term and is no larger.
LEMMA IntegralGain ==
  ASSUME NEW error \in Int, NEW dt \in ValidDts
  PROVE  /\ KI * error * dt \in Int
         /\ KP * error \in Int
         /\ error >= 0 => 0 <= KI * error * dt /\ KI * error * dt <= KP * error
         /\ error < 0 => KP * error <= KI * error * dt /\ KI * error * dt <= 0
  <1> DEFINE gain == KI * dt
  <1>1. dt \in Nat /\ MaxDt \in Nat /\ MaxDt - dt \in Nat /\ KI \in Nat /\ KP \in Nat
    BY SignalAssumption, TuningAssumption DEF ValidDts
  <1>2. gain \in Nat /\ KP - gain \in Nat
    <2>1. KI * dt \in Nat /\ KI * (MaxDt - dt) \in Nat /\ KI * MaxDt \in Nat
      BY <1>1, ProductNat
    <2>2. KI * (MaxDt - dt) = KI * MaxDt - KI * dt
      BY <1>1
    <2>3. QED
      BY <1>1, <2>1, <2>2, GainAssumption
  <1>3. KI * error * dt = gain * error
    BY <1>1
  <1>4. gain * error \in Int /\ KP * error \in Int
    BY <1>1, <1>2
  <1>5. ASSUME error >= 0 PROVE 0 <= gain * error /\ gain * error <= KP * error
    <2> HIDE DEF gain
    <2>1. gain * error \in Nat /\ (KP - gain) * error \in Nat
      BY <1>2, <1>5, ProductNat
    <2>2. (KP - gain) * error = KP * error - gain * error
      BY <1>1, <1>2
    <2>3. QED
      BY <1>4, <2>1, <2>2
  <1>6. ASSUME error < 0 PROVE KP * error <= gain * error /\ gain * error <= 0
    <2> HIDE DEF gain
    <2>1. -error \in Nat
      BY <1>6
    <2>2. gain * (-error) \in Nat /\ (KP - gain) * (-error) \in Nat
      BY <1>2, <2>1, ProductNat
    <2>3. gain * (-error) = -(gain * error)
          /\ (KP - gain) * (-error) = gain * error - KP * error
      BY <1>1, <1>2
    <2>4. QED
      BY <1>4, <2>2, <2>3
  <1>7. QED
    BY <1>3, <1>4, <1>5, <1>6

\* Conditional integration keeps an integrator within the output limit.
LEMMA IntegralBound ==
  ASSUME NEW limit \in Nat, NEW integral \in Int, Abs(integral) <= limit,
         NEW error \in Int, NEW dt \in ValidDts
  PROVE  /\ PidIntegral(integral, error, limit, dt) \in Int
         /\ Abs(PidIntegral(integral, error, limit, dt)) <= limit
  <1> DEFINE p == KP * error
             i == KI * error * dt
  <1>1. /\ p \in Int /\ i \in Int
        /\ error >= 0 => 0 <= i /\ i <= p
        /\ error < 0 => p <= i /\ i <= 0
    BY IntegralGain
  <1>2. PidIntegral(integral, error, limit, dt)
          = IF Abs(p + integral) < limit THEN integral + i ELSE integral
    BY DEF PidIntegral, PidRaw
  <1>3. QED
    <2> HIDE DEF p, i
    <2>1. QED
      BY <1>1, <1>2 DEF Abs

LEMMA LoopOutputType ==
  ASSUME NEW integral \in Int, NEW error \in Int, NEW limit \in Nat, NEW ff \in Int
  PROVE  LoopOutput(integral, error, limit, ff) \in Int
  <1>1. PidRaw(integral, error) \in Int
    BY TuningAssumption DEF PidRaw
  <1>2. PidOutput(integral, error, limit) \in Int
    BY <1>1, ClampRange DEF PidOutput
  <1>3. QED
    BY <1>2, ClampRange DEF LoopOutput

-----------------------------------------------------------------------------
(***************************************************************************)
(* The limits on the current vector.                                       *)
(***************************************************************************)

\* A nonempty set of natural numbers has a least element.
LEMMA LeastNatural ==
  ASSUME NEW T, T \subseteq Nat, T # {}
  PROVE  \E x \in T : \A y \in T : x <= y
  <1> DEFINE R == {ss \in Nat \X Nat : ss[1] < ss[2]}
  <1>1. IsWellFoundedOn(R, Nat)
    BY NatLessThanWellFounded DEF OpToRel
  <1>2. PICK x \in T : \A y \in T : <<y, x>> \notin R
    <2> HIDE DEF R
    <2> QED
      BY <1>1, WFMin
  <1>3. \A y \in T : x <= y
    <2>1. SUFFICES ASSUME NEW y \in T PROVE x <= y
      OBVIOUS
    <2>2. x \in Nat /\ y \in Nat
      BY <1>2
    <2>3. ~(y < x)
      BY <1>2, <2>2
    <2>4. QED
      BY <2>2, <2>3
  <1>4. QED
    BY <1>2, <1>3

\* The length of a vector that is not zero, rounded up.
LEMMA MagnitudeBound ==
  ASSUME NEW square \in Nat \ {0}
  PROVE  /\ Magnitude(square) \in Nat \ {0}
         /\ square <= Magnitude(square) * Magnitude(square)
  <1> DEFINE T == {m \in 1..square : square <= m * m}
             Fits(m) == (m - 1) * (m - 1) < square /\ square <= m * m
  <1>1. square \in T
    <2>1. square - 1 \in Nat /\ square \in Nat
      OBVIOUS
    <2>2. (square - 1) * square \in Nat
      BY <2>1, ProductNat
    <2>3. (square - 1) * square = square * square - square
      BY <2>1
    <2>4. QED
      BY <2>2, <2>3
  <1>2. PICK m \in T : \A n \in T : m <= n
    <2>1. T \subseteq Nat
      OBVIOUS
    <2> HIDE DEF T
    <2>2. QED
      BY <1>1, <2>1, LeastNatural
  <1>3. m \in 1..square /\ square <= m * m
    BY <1>2
  <1>4. (m - 1) * (m - 1) < square
    <2>1. CASE m = 1
      BY <2>1
    <2>2. CASE m # 1
      <3>1. m - 1 \in 1..square
        BY <1>3, <2>2
      <3>2. m - 1 \notin T
        BY <1>2, <1>3
      <3>3. (m - 1) * (m - 1) \in Int
        BY <1>3
      <3>4. QED
        BY <3>1, <3>2, <3>3
    <2>3. QED
      BY <2>1, <2>2
  <1>5. \E k \in 1..square : Fits(k)
    BY <1>3, <1>4
  <1>6. Magnitude(square) = CHOOSE k \in 1..square : Fits(k)
    BY DEF Magnitude
  <1>7. Magnitude(square) \in 1..square /\ Fits(Magnitude(square))
    <2> HIDE DEF Fits
    <2>1. QED
      BY <1>5, <1>6
  <1>8. QED
    BY <1>7

\* Rounding towards zero never makes a component longer.
LEMMA ScaledBound ==
  ASSUME NEW x \in Int, NEW mag \in Nat \ {0}, CurrentLimit > 0
  PROVE  /\ Scaled(x, mag) \in Int
         /\ Abs(Scaled(x, mag)) * mag <= Abs(x) * CurrentLimit
  <1>1. CurrentLimit \in Nat
    BY TuningAssumption
  <1>2. ASSUME NEW n \in Nat
        PROVE  n \div mag \in Nat /\ (n \div mag) * mag <= n
    OBVIOUS
  <1>3. Abs(x) \in Nat /\ Abs(x) * CurrentLimit \in Nat
    <2>1. Abs(x) \in Nat
      BY DEF Abs
    <2>2. QED
      BY <1>1, <2>1, ProductNat
  <1> DEFINE q == (Abs(x) * CurrentLimit) \div mag
  <1>4. q \in Nat /\ q * mag <= Abs(x) * CurrentLimit
    BY <1>2, <1>3
  <1>5. Scaled(x, mag) = IF x < 0 THEN -q ELSE q
    BY DEF Scaled
  <1>6. QED
    <2> HIDE DEF q
    <2>1. Abs(Scaled(x, mag)) = q /\ Scaled(x, mag) \in Int
      BY <1>4, <1>5 DEF Abs
    <2>2. QED
      BY <1>4, <2>1

\* Squares keep the order of lengths.
LEMMA SquareOrder ==
  ASSUME NEW a \in Nat, NEW b \in Nat, a <= b
  PROVE  a * a <= b * b
  <1>1. b - a \in Nat /\ a + b \in Nat
    OBVIOUS
  <1>2. (b - a) * (a + b) \in Nat
    BY <1>1, ProductNat
  <1>3. (b - a) * (a + b) = b * b - a * a
    OBVIOUS
  <1>4. QED
    BY <1>2, <1>3

LEMMA SquareOfAbs == \A x \in Int : Abs(x) \in Nat /\ Abs(x) * Abs(x) = x * x
  BY DEF Abs

\* One component of the scaled vector, squared.
LEMMA ScaledSquare ==
  ASSUME NEW x \in Int, NEW mag \in Nat \ {0}, CurrentLimit > 0
  PROVE  /\ Scaled(x, mag) \in Int
         /\ (Scaled(x, mag) * Scaled(x, mag)) * (mag * mag)
              <= (x * x) * (CurrentLimit * CurrentLimit)
  <1> DEFINE s == Scaled(x, mag)
             a == Abs(s)
             n == Abs(x)
             L == CurrentLimit
  <1>1. s \in Int /\ a * mag <= n * L
    BY ScaledBound
  <1>2. L \in Nat /\ a \in Nat /\ n \in Nat /\ a * a = s * s /\ n * n = x * x
    <2> HIDE DEF s
    <2>1. QED
      BY <1>1, SquareOfAbs, TuningAssumption
  <1> HIDE DEF a, n, L, s
  <1>3. a * mag \in Nat /\ n * L \in Nat
    BY <1>2, ProductNat
  <1>4. (a * mag) * (a * mag) <= (n * L) * (n * L)
    BY <1>1, <1>3, SquareOrder
  <1>5. (a * mag) * (a * mag) = (a * a) * (mag * mag)
    BY <1>2
  <1>6. (n * L) * (n * L) = (n * n) * (L * L)
    BY <1>2
  <1>7. (s * s) * (mag * mag) <= (x * x) * (L * L)
    BY <1>2, <1>4, <1>5, <1>6
  <1>8. QED
    BY <1>1, <1>7 DEF s, L

\* A common positive factor can be taken off.
LEMMA CancelFactor ==
  ASSUME NEW a \in Nat, NEW b \in Nat, NEW c \in Nat \ {0}, a * c <= b * c
  PROVE  a <= b
  <1> SUFFICES ASSUME a > b PROVE FALSE
    OBVIOUS
  <1>1. a - b - 1 \in Nat
    OBVIOUS
  <1>2. (a - b - 1) * c \in Nat
    BY <1>1, ProductNat
  <1>3. (a - b - 1) * c = a * c - b * c - c
    OBVIOUS
  <1>4. a * c \in Int /\ b * c \in Int
    OBVIOUS
  <1>5. QED
    BY <1>2, <1>3, <1>4

\* The circle limit does what it says.
LEMMA CircleCorrect ==
  ASSUME NEW id \in Int, NEW iq \in Int
  PROVE  /\ CircleLimited(id, iq)[1] \in Int /\ CircleLimited(id, iq)[2] \in Int
         /\ CurrentLimit > 0
              => CircleLimited(id, iq)[1] * CircleLimited(id, iq)[1]
                   + CircleLimited(id, iq)[2] * CircleLimited(id, iq)[2]
                 <= CurrentLimit * CurrentLimit
  <1> DEFINE square == id * id + iq * iq
             L2 == CurrentLimit * CurrentLimit
             mag == Magnitude(square)
  <1>1. square \in Nat
    <2>1. id * id \in Nat /\ iq * iq \in Nat
      BY SquareOfAbs, ProductNat
    <2>2. QED
      BY <2>1
  <1>2. CASE CurrentLimit <= 0
    BY <1>2, TuningAssumption DEF CircleLimited
  <1>3. CASE CurrentLimit > 0 /\ square <= L2
    <2>1. CircleLimited(id, iq) = <<id, iq>>
      BY <1>3 DEF CircleLimited
    <2>2. QED
      BY <1>3, <2>1
  <1>4. CASE CurrentLimit > 0 /\ ~(square <= L2)
    <2> DEFINE x == Scaled(id, mag)
               y == Scaled(iq, mag)
               x2 == x * x
               y2 == y * y
               m2 == mag * mag
    <2>1. CurrentLimit \in Nat /\ L2 \in Nat
      BY <1>4, TuningAssumption, ProductNat
    <2>2. square \in Nat \ {0}
      <3> HIDE DEF square, L2
      <3>1. QED
        BY <1>1, <1>4, <2>1
    <2>3. mag \in Nat \ {0} /\ square <= m2
      <3> HIDE DEF square
      <3>1. QED
        BY <2>2, MagnitudeBound
    <2>4. CircleLimited(id, iq) = <<x, y>>
      BY <1>4, TuningAssumption DEF CircleLimited
    <2>5. x \in Int /\ y \in Int /\ x2 * m2 <= (id * id) * L2 /\ y2 * m2 <= (iq * iq) * L2
      <3> HIDE DEF mag
      <3>1. QED
        BY <1>4, <2>3, ScaledSquare
    <2>6. x2 \in Nat /\ y2 \in Nat /\ m2 \in Nat /\ m2 > 0
      <3>1. x2 \in Nat /\ y2 \in Nat
        <4> HIDE DEF x, y
        <4>1. QED
          BY <2>5, SquareOfAbs, ProductNat
      <3>2. m2 \in Nat /\ m2 > 0
        <4> HIDE DEF mag
        <4>1. mag * mag \in Nat /\ (mag - 1) * (mag - 1) \in Nat
          <5>1. mag - 1 \in Nat /\ mag \in Nat
            BY <2>3
          <5>2. QED
            BY <5>1, ProductNat
        <4>2. (mag - 1) * (mag - 1) = mag * mag - 2 * mag + 1
          BY <2>3
        <4>3. QED
          BY <2>3, <4>1, <4>2
      <3>3. QED
        BY <3>1, <3>2
    <2>7. (x2 + y2) * m2 <= L2 * m2
      <3>1. L2 * square <= L2 * m2
        <4> HIDE DEF L2, square, m2
        <4>1. m2 - square \in Nat
          BY <2>2, <2>3, <2>6
        <4>2. L2 * (m2 - square) \in Nat
          BY <2>1, <4>1, ProductNat
        <4>3. L2 * (m2 - square) = L2 * m2 - L2 * square
          BY <1>1, <2>1, <2>6
        <4>4. L2 * m2 \in Int /\ L2 * square \in Int
          BY <1>1, <2>1, <2>6
        <4>5. QED
          BY <4>2, <4>3, <4>4
      <3>2. (id * id) * L2 + (iq * iq) * L2 = L2 * square
        <4> HIDE DEF L2
        <4>1. QED
          BY <2>1
      <3>3. (x2 + y2) * m2 = x2 * m2 + y2 * m2
        <4> HIDE DEF x2, y2, m2
        <4>1. QED
          BY <2>6
      <3>4. x2 * m2 \in Int /\ y2 * m2 \in Int /\ (id * id) * L2 \in Int
            /\ (iq * iq) * L2 \in Int /\ L2 * square \in Int /\ L2 * m2 \in Int
        <4>1. id * id \in Int /\ iq * iq \in Int
          OBVIOUS
        <4> HIDE DEF x2, y2, m2, L2, square
        <4>2. QED
          BY <1>1, <2>1, <2>6, <4>1
      <3>5. QED
        <4> DEFINE a == x2 * m2
                   b == y2 * m2
                   c == (id * id) * L2
                   d == (iq * iq) * L2
                   e == L2 * square
                   f == L2 * m2
        <4>1. a \in Int /\ b \in Int /\ c \in Int /\ d \in Int /\ e \in Int /\ f \in Int
          BY <3>4
        <4>2. a <= c /\ b <= d /\ c + d = e /\ e <= f /\ (x2 + y2) * m2 = a + b
          BY <2>5, <3>1, <3>2, <3>3
        <4> HIDE DEF a, b, c, d, e, f
        <4>3. (x2 + y2) * m2 <= f
          <5> HIDE DEF x2, y2, m2
          <5>1. QED
            BY <4>1, <4>2
        <4>4. QED
          BY <4>3 DEF f
    <2>8. x2 + y2 <= L2
      <3> HIDE DEF x2, y2, m2, L2
      <3>1. x2 + y2 \in Nat /\ m2 \in Nat \ {0}
        BY <2>6
      <3>2. QED
        BY <2>1, <2>7, <3>1, CancelFactor
    <2>9. QED
      <3>1. CircleLimited(id, iq)[1] = x /\ CircleLimited(id, iq)[2] = y
        <4> HIDE DEF x, y
        <4>1. QED
          BY <2>4
      <3>2. QED
        BY <2>5, <2>8, <3>1
  <1>5. QED
    BY <1>2, <1>3, <1>4, TuningAssumption

\* What a cycle sends to the current loop.
LEMMA CommandType ==
  ASSUME NEW iq_target \in Int, id_ref \in Int, Command(iq_target)
  PROVE  id_command' \in Int /\ iq_command' \in Int /\ CommandWithinLimits'
         /\ duty' \in {"off", "driven"}
  <1> DEFINE x == CircleLimited(id_ref, iq_target)[1]
             y == CircleLimited(id_ref, iq_target)[2]
             f == DemagFloor(x)
             L2 == CurrentLimit * CurrentLimit
  <1>1. x \in Int /\ y \in Int /\ (CurrentLimit > 0 => x * x + y * y <= L2)
    BY CircleCorrect
  <1>2. id_command' = f /\ iq_command' = y /\ duty' \in {"off", "driven"}
    BY DEF Command
  <1>3. f \in Int /\ (IDemag < 0 => f >= IDemag) /\ f * f <= x * x
    <2> HIDE DEF x
    <2>1. f \in Int /\ (IDemag < 0 => f >= IDemag) /\ Abs(f) <= Abs(x)
      BY <1>1, TuningAssumption DEF DemagFloor, Abs
    <2>2. f * f = Abs(f) * Abs(f) /\ x * x = Abs(x) * Abs(x)
          /\ Abs(f) \in Nat /\ Abs(x) \in Nat
      <3> HIDE DEF f
      <3>1. QED
        BY <1>1, <2>1, SquareOfAbs
    <2>3. Abs(f) * Abs(f) <= Abs(x) * Abs(x)
      <3> HIDE DEF f
      <3>1. QED
        BY <2>1, <2>2, SquareOrder
    <2>4. QED
      BY <2>1, <2>2, <2>3
  <1>4. x * x \in Int /\ y * y \in Int /\ f * f \in Int /\ L2 \in Int
    <2> HIDE DEF x, y, f
    <2>1. QED
      BY <1>1, <1>3, TuningAssumption
  <1>5. CurrentLimit > 0 => f * f + y * y <= L2
    <2> DEFINE a == x * x
               b == y * y
               c == f * f
    <2>1. a \in Int /\ b \in Int /\ c \in Int /\ L2 \in Int /\ c <= a
          /\ (CurrentLimit > 0 => a + b <= L2)
      BY <1>1, <1>3, <1>4
    <2> HIDE DEF a, b, c, L2
    <2>2. CurrentLimit > 0 => c + b <= L2
      BY <2>1
    <2>3. QED
      BY <2>2 DEF b, c
  <1>6. QED
    <2> HIDE DEF x, y, f
    <2>1. QED
      BY <1>1, <1>2, <1>3, <1>5 DEF CommandWithinLimits

-----------------------------------------------------------------------------
(***************************************************************************)
(* The inductive invariant.                                                *)
(***************************************************************************)

\* While the speed loop is in charge its ramp holds the reference it was
\* last given, also over rejected cycles.
RampInv == prev_mode \in {"Speed", "Position"} => speed_ramp = speed_target

FocInv == FocTypeOK /\ IntegratorsBounded /\ CommandWithinLimits /\ RampInv

\* The numbers a cycle reads.
LEMMA SignalTypes ==
  ASSUME NEW dt \in ValidDts, NEW speed \in Speeds
  PROVE  speed \in Int /\ dt \in Nat
  BY SignalAssumption DEF ValidDts

LEMMA ZeroBounded == Abs(0) = 0 /\ 0 <= SpeedLimit /\ 0 <= IqLimit
  BY TuningAssumption DEF Abs

\* The speed loop and everything behind it.
LEMMA SpeedStageStep ==
  ASSUME FocInv, NEW dt \in ValidDts, NEW speed \in Speeds, NEW speed_ref \in Int,
         NEW ff \in Feedforwards, SpeedStage(dt, speed, speed_ref, ff)
  PROVE  /\ speed_ramp' \in Int /\ speed_target' = speed_ramp' /\ iq_ramp' \in Int
         /\ speed_integral' \in Int /\ Abs(speed_integral') <= IqLimit
         /\ id_command' \in Int /\ iq_command' \in Int /\ CommandWithinLimits'
         /\ duty' \in {"off", "driven"}
         /\ SpeedRate > 0 => Abs(speed_target' - SeededSpeed(speed)) <= SpeedRate * MaxDt
  <1> DEFINE reference == RampStep(SeededSpeed(speed), speed_ref, SpeedRate, dt)
             error == reference - speed
             output == LoopOutput(speed_integral, error, IqLimit, ff)
  <1>1. speed \in Int /\ ff \in Int /\ SpeedRate \in Nat /\ IqRate \in Nat /\ IqLimit \in Nat
    BY SignalAssumption, TuningAssumption
  <1>2. /\ speed_integral \in Int /\ Abs(speed_integral) <= IqLimit
        /\ iq_ramp \in Int /\ speed_ramp \in Int /\ id_ref \in Int
    BY DEF FocInv, FocTypeOK, IntegratorsBounded
  <1>3. SeededSpeed(speed) \in Int
    BY <1>1, <1>2 DEF SeededSpeed
  <1>4. /\ reference \in Int
        /\ SpeedRate > 0 => Abs(reference - SeededSpeed(speed)) <= SpeedRate * MaxDt
    BY <1>1, <1>3, RampBound
  <1>5. /\ speed_ramp' = reference /\ speed_target' = reference
        /\ speed_integral' = PidIntegral(speed_integral, error, IqLimit, dt)
        /\ iq_ramp' = RampStep(iq_ramp, output, IqRate, dt)
        /\ Command(iq_ramp')
    BY DEF SpeedStage
  <1> HIDE DEF reference
  <1>6. error \in Int
    BY <1>1, <1>4
  <1> HIDE DEF error
  <1>7. output \in Int
    BY <1>1, <1>2, <1>6, LoopOutputType
  <1> HIDE DEF output
  <1>8. iq_ramp' \in Int
    BY <1>1, <1>2, <1>5, <1>7, RampBound
  <1>9. speed_integral' \in Int /\ Abs(speed_integral') <= IqLimit
    BY <1>1, <1>2, <1>5, <1>6, IntegralBound
  <1>10. /\ id_command' \in Int /\ iq_command' \in Int /\ CommandWithinLimits'
         /\ duty' \in {"off", "driven"}
    BY <1>2, <1>5, <1>8, CommandType
  <1>11. QED
    BY <1>4, <1>5, <1>8, <1>9, <1>10

\* The position loop in front of it.
LEMMA PositionLoopStep ==
  ASSUME FocInv, NEW dt \in ValidDts, NEW position \in Positions,
         NEW position_ref \in Positions, NEW ff \in Feedforwards,
         NEW reference, reference = RampStep(SeededPosition(position), position_ref, PosRate, dt)
  PROVE  /\ reference \in Int
         /\ LoopOutput(pos_integral, reference - position, SpeedLimit, ff) \in Int
         /\ PidIntegral(pos_integral, reference - position, SpeedLimit, dt) \in Int
         /\ Abs(PidIntegral(pos_integral, reference - position, SpeedLimit, dt)) <= SpeedLimit
  <1>1. position \in Int /\ position_ref \in Int /\ ff \in Int
        /\ PosRate \in Nat /\ SpeedLimit \in Nat
    BY SignalAssumption, TuningAssumption
  <1>2. pos_integral \in Int /\ Abs(pos_integral) <= SpeedLimit /\ pos_ramp \in Int
    BY DEF FocInv, FocTypeOK, IntegratorsBounded
  <1>3. SeededPosition(position) \in Int
    BY <1>1, <1>2 DEF SeededPosition
  <1>4. reference \in Int
    BY <1>1, <1>3, RampBound
  <1>5. reference - position \in Int
    BY <1>1, <1>4
  <1>6. QED
    BY <1>1, <1>2, <1>4, <1>5, LoopOutputType, IntegralBound

\* The cycles that run the speed loop, with what they say about the speed
\* reference.
LEMMA SpeedCycleStep ==
  ASSUME FocInv, NEW dt \in ValidDts, NEW speed \in Speeds, NEW speed_ref \in Speeds,
         NEW ff \in Feedforwards, SpeedCycle(dt, speed, speed_ref, ff)
  PROVE  /\ FocInv'
         /\ meas_speed' = speed /\ prev_mode' = mode
         /\ SpeedRate > 0 => Abs(speed_target' - SeededSpeed(speed)) <= SpeedRate * MaxDt
  <1>1. speed_ref \in Int /\ speed \in Int
    BY SignalAssumption
  <1>2. SpeedStage(dt, speed, speed_ref, ff)
    BY DEF SpeedCycle
  <1>3. /\ speed_ramp' \in Int /\ speed_target' = speed_ramp' /\ iq_ramp' \in Int
        /\ speed_integral' \in Int /\ Abs(speed_integral') <= IqLimit
        /\ id_command' \in Int /\ iq_command' \in Int /\ CommandWithinLimits'
        /\ duty' \in {"off", "driven"}
        /\ SpeedRate > 0 => Abs(speed_target' - SeededSpeed(speed)) <= SpeedRate * MaxDt
    BY <1>1, <1>2, SpeedStageStep
  <1>4. FocTypeOK'
    BY <1>1, <1>3 DEF FocInv, FocTypeOK, SpeedCycle, align_vars
  <1>5. IntegratorsBounded'
    BY <1>3 DEF FocInv, IntegratorsBounded, SpeedCycle
  <1>6. RampInv'
    BY <1>3 DEF RampInv
  <1>7. QED
    BY <1>3, <1>4, <1>5, <1>6 DEF FocInv, SpeedCycle

LEMMA PositionCycleStep ==
  ASSUME FocInv, NEW dt \in ValidDts, NEW speed \in Speeds, NEW position \in Positions,
         NEW position_ref \in Positions, NEW ff \in Feedforwards,
         NEW position_ff \in Feedforwards,
         PositionCycle(dt, speed, position, position_ref, ff, position_ff)
  PROVE  /\ FocInv'
         /\ meas_speed' = speed /\ prev_mode' = mode
         /\ SpeedRate > 0 => Abs(speed_target' - SeededSpeed(speed)) <= SpeedRate * MaxDt
  <1> DEFINE reference == RampStep(SeededPosition(position), position_ref, PosRate, dt)
             omega == LoopOutput(pos_integral, reference - position, SpeedLimit, position_ff)
             integral == PidIntegral(pos_integral, reference - position, SpeedLimit, dt)
  <1>1. reference \in Int /\ omega \in Int /\ integral \in Int /\ Abs(integral) <= SpeedLimit
    BY PositionLoopStep
  <1>2. /\ mode = "Position" /\ meas_speed' = speed /\ prev_mode' = mode
        /\ pos_ramp' = reference /\ pos_integral' = integral
        /\ SpeedStage(dt, speed, omega, ff)
        /\ UNCHANGED <<mode, id_ref, align_vars, reset_on_off>>
    BY DEF PositionCycle
  <1> HIDE DEF reference, omega, integral
  <1>3. /\ speed_ramp' \in Int /\ speed_target' = speed_ramp' /\ iq_ramp' \in Int
        /\ speed_integral' \in Int /\ Abs(speed_integral') <= IqLimit
        /\ id_command' \in Int /\ iq_command' \in Int /\ CommandWithinLimits'
        /\ duty' \in {"off", "driven"}
        /\ SpeedRate > 0 => Abs(speed_target' - SeededSpeed(speed)) <= SpeedRate * MaxDt
    BY <1>1, <1>2, SpeedStageStep
  <1>4. FocTypeOK'
    <2>1. speed \in Int
      BY SignalTypes
    <2>2. QED
      BY <1>1, <1>2, <1>3, <2>1 DEF FocInv, FocTypeOK, align_vars
  <1>5. IntegratorsBounded'
    BY <1>1, <1>2, <1>3 DEF IntegratorsBounded
  <1>6. RampInv'
    BY <1>3 DEF RampInv
  <1>7. QED
    BY <1>2, <1>3, <1>4, <1>5, <1>6 DEF FocInv

\* The other cycles.
LEMMA RejectedCycleStep ==
  ASSUME FocInv, NEW speed \in Speeds, RejectedCycle(speed)
  PROVE  FocInv'
  <1>1. speed \in Int
    BY SignalAssumption
  <1>2. FocTypeOK'
    BY <1>1
    DEF FocInv, FocTypeOK, RejectedCycle, ZeroIntegrators, ramp_vars, command_vars, align_vars
  <1>3. IntegratorsBounded'
    BY ZeroBounded DEF IntegratorsBounded, RejectedCycle, ZeroIntegrators
  <1>4. CommandWithinLimits' /\ RampInv'
    BY DEF FocInv, CommandWithinLimits, RampInv, RejectedCycle, ramp_vars, command_vars
  <1>5. QED
    BY <1>2, <1>3, <1>4 DEF FocInv

LEMMA OffCycleStep ==
  ASSUME FocInv, NEW speed \in Speeds, OffCycle(speed)
  PROVE  FocInv'
  <1>1. speed \in Int
    BY SignalAssumption
  <1>2. FocTypeOK'
    BY <1>1
    DEF FocInv, FocTypeOK, Mode, OffCycle, ZeroIntegrators, ramp_vars, integral_vars, align_vars
  <1>3. IntegratorsBounded'
    BY ZeroBounded
    DEF FocInv, IntegratorsBounded, OffCycle, ZeroIntegrators, ramp_vars, integral_vars
  <1>4. CommandWithinLimits'
    <2>1. 0 <= CurrentLimit * CurrentLimit
      BY SquareOfAbs, ProductNat, TuningAssumption
    <2>2. id_command' = 0 /\ iq_command' = 0
      BY DEF OffCycle
    <2>3. QED
      BY <2>1, <2>2, TuningAssumption DEF CommandWithinLimits
  <1>5. RampInv'
    BY DEF RampInv, OffCycle
  <1>6. QED
    BY <1>2, <1>3, <1>4, <1>5 DEF FocInv

LEMMA AlignCycleStep ==
  ASSUME FocInv, NEW dt \in ValidDts, NEW speed \in Speeds, AlignCycle(dt, speed)
  PROVE  FocInv'
  <1>1. speed \in Int /\ dt \in Nat /\ MaxDuration \in Nat
    BY SignalAssumption, SignalTypes
  <1>2. /\ id_command' \in Int /\ iq_command' \in Int /\ CommandWithinLimits'
        /\ duty' \in {"off", "driven"}
    <2>1. Command(0) /\ id_ref \in Int /\ 0 \in Int
      BY DEF AlignCycle, FocInv, FocTypeOK
    <2>2. QED
      BY <2>1, CommandType
  <1>3. align_elapsed' \in 0..MaxDuration
    BY <1>1 DEF AlignCycle, AtMost, FocInv, FocTypeOK
  <1>4. FocTypeOK'
    BY <1>1, <1>2, <1>3
    DEF FocInv, FocTypeOK, AlignCycle, ramp_vars, integral_vars
  <1>5. IntegratorsBounded' /\ RampInv'
    BY DEF FocInv, IntegratorsBounded, RampInv, AlignCycle, ramp_vars, integral_vars
  <1>6. QED
    BY <1>2, <1>4, <1>5 DEF FocInv

LEMMA TorqueCycleStep ==
  ASSUME FocInv, NEW dt \in ValidDts, NEW speed \in Speeds, NEW iq \in Currents,
         TorqueCycle(dt, speed, iq)
  PROVE  FocInv'
  <1>1. speed \in Int /\ iq \in Int /\ IqRate \in Nat
    BY SignalAssumption, TuningAssumption
  <1>2. iq_ramp \in Int /\ id_ref \in Int
    BY DEF FocInv, FocTypeOK
  <1>3. iq_ramp' = RampStep(iq_ramp, iq, IqRate, dt) /\ Command(iq_ramp')
    BY DEF TorqueCycle
  <1>4. iq_ramp' \in Int
    BY <1>1, <1>2, <1>3, RampBound
  <1>5. /\ id_command' \in Int /\ iq_command' \in Int /\ CommandWithinLimits'
        /\ duty' \in {"off", "driven"}
    BY <1>2, <1>3, <1>4, CommandType
  <1>6. FocTypeOK'
    BY <1>1, <1>4, <1>5 DEF FocInv, FocTypeOK, TorqueCycle, integral_vars, align_vars
  <1>7. IntegratorsBounded' /\ RampInv'
    BY DEF FocInv, IntegratorsBounded, RampInv, TorqueCycle, integral_vars
  <1>8. QED
    BY <1>5, <1>6, <1>7 DEF FocInv

\* What the application does between two cycles.
LEMMA CallStep ==
  ASSUME FocInv,
         \/ \E m \in Mode : set_mode(m)
         \/ \E id \in Currents : set_id_ref(id)
         \/ zero_integrators
         \/ \E id \in Currents, duration \in Durations : align(id, duration)
  PROVE  FocInv'
  <1>1. ASSUME NEW m \in Mode, set_mode(m) PROVE FocInv'
    BY <1>1
    DEF set_mode, FocInv, FocTypeOK, IntegratorsBounded, CommandWithinLimits, RampInv,
        ramp_vars, integral_vars, command_vars, align_vars
  <1>2. ASSUME NEW id \in Currents, set_id_ref(id) PROVE FocInv'
    BY <1>2, SignalAssumption
    DEF set_id_ref, FocInv, FocTypeOK, IntegratorsBounded, CommandWithinLimits, RampInv,
        ramp_vars, integral_vars, command_vars, align_vars
  <1>3. CASE zero_integrators
    BY <1>3, ZeroBounded
    DEF zero_integrators, ZeroIntegrators, FocInv, FocTypeOK, IntegratorsBounded,
        CommandWithinLimits, RampInv, ramp_vars, command_vars, align_vars
  <1>4. ASSUME NEW id \in Currents, NEW duration \in Durations, align(id, duration)
        PROVE  FocInv'
    BY <1>4, ZeroBounded, SignalAssumption
    DEF align, ZeroIntegrators, FocInv, FocTypeOK, Mode, IntegratorsBounded,
        CommandWithinLimits, RampInv, ramp_vars, command_vars
  <1>5. QED
    BY <1>1, <1>2, <1>3, <1>4

LEMMA FocStepInv == FocInv /\ [FocNext]_foc_vars => FocInv'
  <1> SUFFICES ASSUME FocInv, [FocNext]_foc_vars PROVE FocInv'
    OBVIOUS
  <1>1. CASE Update
    BY <1>1, RejectedCycleStep, OffCycleStep, AlignCycleStep, TorqueCycleStep,
       SpeedCycleStep, PositionCycleStep DEF Update
  <1>2. CASE UNCHANGED foc_vars
    BY <1>2
    DEF FocInv, FocTypeOK, IntegratorsBounded, CommandWithinLimits, RampInv, foc_vars,
        ramp_vars, integral_vars, command_vars, align_vars
  <1>3. QED
    BY <1>1, <1>2, CallStep DEF FocNext

LEMMA FocAlways == FocSpec => []FocInv
  <1>1. FocInit => FocInv
    <2> SUFFICES ASSUME FocInit PROVE FocInv
      OBVIOUS
    <2>1. FocTypeOK
      BY SignalAssumption, TuningAssumption DEF FocInit, FocTypeOK, Mode
    <2>2. IntegratorsBounded /\ RampInv
      BY ZeroBounded DEF FocInit, IntegratorsBounded, RampInv
    <2>3. CommandWithinLimits
      <3>1. 0 <= CurrentLimit * CurrentLimit
        BY SquareOfAbs, ProductNat, TuningAssumption
      <3>2. QED
        BY <3>1, TuningAssumption DEF FocInit, CommandWithinLimits
    <2>4. QED
      BY <2>1, <2>2, <2>3 DEF FocInv
  <1>2. QED
    BY <1>1, FocStepInv, PTL DEF FocSpec

-----------------------------------------------------------------------------
\* The state of the controller has its type in every order of calls.
THEOREM FocTypeCorrect == FocSpec => []FocTypeOK
  BY FocAlways, PTL DEF FocInv

\* Conditional integration bounds the integrators, for every tuning in which
\* a cycle integrates no more of an error than the proportional gain.
THEOREM IntegratorsCorrect == FocSpec => []IntegratorsBounded
  BY FocAlways, PTL DEF FocInv

\* The commanded current obeys both limits, for all of their values.
THEOREM CommandCorrect == FocSpec => []CommandWithinLimits
  BY FocAlways, PTL DEF FocInv

\* The transfer to the speed loop is bumpless, in every order of mode
\* changes, cycles and rejected cycles, but for the one after an Off that keeps
\* the state.
THEOREM SpeedReferenceCorrect == FocSpec => SpeedReferenceContinuous
  <1> DEFINE Start == IF prev_mode' = prev_mode THEN speed_target ELSE meas_speed'
             Step == SpeedRate > 0 /\ prev_mode' \in {"Speed", "Position"}
                       /\ (prev_mode # "Off" \/ reset_on_off)
                       /\ speed_target' # speed_target
                       => Abs(speed_target' - Start) <= SpeedRate * MaxDt
  <1>1. FocInv /\ [FocNext]_foc_vars => [Step]_foc_vars
    <2> SUFFICES ASSUME FocInv, FocNext, SpeedRate > 0,
                        prev_mode' \in {"Speed", "Position"}, speed_target' # speed_target
                 PROVE  Abs(speed_target' - Start) <= SpeedRate * MaxDt
      OBVIOUS
    <2>1. ASSUME NEW speed \in Speeds, meas_speed' = speed, prev_mode' = mode,
                 Abs(speed_target' - SeededSpeed(speed)) <= SpeedRate * MaxDt
          PROVE  Abs(speed_target' - Start) <= SpeedRate * MaxDt
      <3>1. SeededSpeed(speed) = Start
        BY <2>1 DEF SeededSpeed, FocInv, RampInv
      <3>2. QED
        BY <2>1, <3>1
    <2>2. \/ \E dt \in ValidDts, speed \in Speeds, speed_ref \in Speeds, ff \in Feedforwards :
               SpeedCycle(dt, speed, speed_ref, ff)
          \/ \E dt \in ValidDts, speed \in Speeds, position \in Positions,
                position_ref \in Positions, ff \in Feedforwards, position_ff \in Feedforwards :
               PositionCycle(dt, speed, position, position_ref, ff, position_ff)
      BY DEF FocNext, Update, set_mode, set_id_ref, zero_integrators, align, command_vars,
             RejectedCycle, OffCycle, AlignCycle, TorqueCycle
    <2>3. QED
      BY <2>1, <2>2, SpeedCycleStep, PositionCycleStep
  <1>2. QED
    BY <1>1, FocAlways, PTL DEF FocSpec, SpeedReferenceContinuous

=============================================================================
