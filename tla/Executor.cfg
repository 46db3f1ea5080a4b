SPECIFICATION ExecSpec
INVARIANT
  WatchdogFed
