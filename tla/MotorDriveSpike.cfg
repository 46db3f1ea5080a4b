SPECIFICATION DriveSpec
CONSTANTS
  Frequencies = {0}
  Voltages = {0, 5}
  MAX_SPIN_FREQ_HZ = 1
  MAX_OPENLOOP_V = 5
  V_NEVER = 2
  V_ALWAYS = 3
  RebootTicks = 2
PROPERTY
  BridgeStartsLow
