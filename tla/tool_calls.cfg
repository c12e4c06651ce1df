CONSTANTS
  a = a
  d = d
  short = short
  long = long
  odd = odd
  Names = {a, d}
  Contents = {short, long, odd}
  Long = {long}
  Huge = {}
  Unencodable = {odd}
  Foreign = Foreign
  Partial = Partial
  Launched <- SomeLaunches
  Risky = {"file_write"}
  MaxCalls = 2
  MaxEdits = 1
  MaxConns = 2
  None = None
SPECIFICATION Spec
INVARIANTS StaysInside EffectIsRecorded ChainHolds TamperShows
PROPERTIES RefusedChangesNothing
SYMMETRY NameSymmetry
CHECK_DEADLOCK FALSE
