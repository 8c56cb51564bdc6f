SPECIFICATION FairSpec
CONSTANTS
  Requests = {}
  Outer = Outer
  Health = Health
  Hysteresis = 2
  FailLimit = 2
PROPERTIES VpnComesUp
