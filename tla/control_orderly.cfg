CONSTANTS
  Conns = {c1, c2, c3}
  Main = Main
  None = None
  MaxBoots = 2
  MaxTurns = 2
  Allowed = {}
SPECIFICATION Spec
SYMMETRY Symmetry
INVARIANTS TypeOK ExclusiveAttach
PROPERTIES ReplyToAsker
CHECK_DEADLOCK FALSE
