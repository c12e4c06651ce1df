CONSTANTS
  Conns = {c1, c2}
  Main = Main
  None = None
  MaxBoots = 2
  MaxTurns = 1
  Allowed = {"overlap", "open_chat", "late_chat"}
SPECIFICATION Spec
SYMMETRY Symmetry
INVARIANTS AttachedHasChat SentinelPending
PROPERTIES ImplementsContract
CHECK_DEADLOCK FALSE
