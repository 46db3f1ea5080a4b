SPECIFICATION PartsSpec
CONSTANTS
  Codes <- TroubleCodes
  Groups <- TroubleGroups
  GroupOf <- TroubleGroupOf
  Bits = {"pending", "confirmed"}
  MAX_DTCS = 2
  Chars = {"a", "b"}
  CMD_BUF_SIZE = 3
  Frequencies <- SpinFrequencies
  Voltages <- SpinVoltages
  MAX_SPIN_FREQ_HZ = 1
  MAX_OPENLOOP_V = 5
  V_NEVER = 2
  V_ALWAYS = 3
  RebootTicks = 2
  Speeds <- MotorSpeeds
  Positions = {0, 1}
  Currents <- MotorCurrents
  Feedforwards <- ZeroOrOne
  Dts <- ZeroOrOne
  MaxDt = 1
  Durations = {1}
  MaxDuration = 1
  PosRate = 1
  SpeedRate = 1
  IqRate = 2
  SpeedLimit = 1
  IqLimit = 2
  KP = 1
  KI = 1
  CurrentLimit = 2
  IDemag <- DemagCurrent
  ResetChoices <- Both
  StallClockMod = 6
  MinIqAfterMs = 3
  MinSpeed = 1
  RotorSpeeds <- RotorAtRestOrNot
  PhaseCurrents = {0, 2, 3}
  CycleTimes <- ZeroOrOne
  RatedCurrent = 2
  I2tLimit = 12
  CoolingPercent = 20
  TAU = 12
  PllKp = 1
  PllKi = 1
  MaxOmega = 5
  StepTimes = {1}
  MaxStepTime = 1
  SeedSpeeds <- LockSpeeds
  WordBytes = 4
  PageWords = 2
  ActivePages = 2
  DfuPages = 4
  KeyWords = 2
  SeqMod = 3
  Window = 1
  Images <- FittingImages
  Size <- FittingSizes
  Faulty <- EveryFault
  MaxKeys = 2
INVARIANTS
  PartsTypeOK
  RunsWholeImage
  ArmedImageWhole
  FallbackKept
  StreamInOrder
  FlashFollowsStream
  OneRecordPerCode
  BridgeFollowsCommand
  RebootFindsBridgeOff
  IntegratorsBounded
  CommandWithinLimits
  GraceRespected
PROPERTIES
  ImplementsStore
  StatusAccumulates
  ImplementsText
  SpinStarts
  SpeedReferenceContinuous
