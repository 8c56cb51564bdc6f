SPECIFICATION Spec
CONSTANTS
  Callers = {c1}
  Guard = Guard
  None = None
  MaxGeneration = 1
  MaxTrouble = 0
PROPERTIES GracefulShutdownCleans
