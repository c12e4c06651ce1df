CONSTANTS
  Conns = {c1, c2}
  Main = Main
  None = None
  MaxBoots = 2
  MaxTurns = 1
  Allowed = {}
SPECIFICATION FairSpec
PROPERTIES ChatAnswered
CHECK_DEADLOCK FALSE
