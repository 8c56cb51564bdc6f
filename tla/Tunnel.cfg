SPECIFICATION FairSpec
CONSTANTS
  Callers = {c1, c2}
  Guard = Guard
  None = None
  MaxGeneration = 3
  MaxTrouble = 2
INVARIANTS OneEngine CaptureHasEngine CaptureHasPolicy NoLeftovers TunnelInv
PROPERTIES RoutesRepaired CallReturns
