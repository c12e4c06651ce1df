CONSTANTS
  Conns = {c1, c2}
  Main = Main
  None = None
  MaxBoots = 2
  MaxTurns = 1
  Allowed = {"overlap"}
SPECIFICATION Spec
INVARIANTS OneGuest
CHECK_DEADLOCK FALSE
