SPECIFICATION Spec
CONSTANTS
  Requests = {r1, r2}
  Outer = Outer
  Health = Health
  Hysteresis = 2
  FailLimit = 2
PROPERTIES CancelledStartNeverStarts
