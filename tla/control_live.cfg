CONSTANTS
  Conns = {c1, c2}
  Main = Main
  None = None
  MaxBoots = 2
  MaxTurns = 2
  Allowed = {}
SPECIFICATION FairSpec
PROPERTIES StopReleasesChat ChatAnsweredWhileUp
CHECK_DEADLOCK FALSE
