CONSTANTS
  Conns = {c1, c2}
  Main = Main
  None = None
  MaxBoots = 2
  MaxTurns = 1
  Allowed = {"open_chat", "late_chat"}
SPECIFICATION FairSpec
INVARIANTS OneGuest
PROPERTIES StartOkMeansReady StopAnswered
CHECK_DEADLOCK FALSE
