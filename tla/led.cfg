\* Two processes, two lines, one death, and a module that comes and goes
CONSTANTS
  Clients = {c1, c2}
  Ports = {p1, p2}
  BadPort = BadPort
  MaxCrashes = 1
SPECIFICATION Spec
INVARIANTS OneClient LinesHeld FailsByAccident
SYMMETRY Alike
CHECK_DEADLOCK FALSE
