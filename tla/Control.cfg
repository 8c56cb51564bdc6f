SPECIFICATION Spec
CONSTANTS
  Requests = {r1}
  Outer = Outer
  Health = Health
  Hysteresis = 2
  FailLimit = 2
INVARIANTS SwapSustained PolicyStopSustained HealthReportTrue ControlInv
