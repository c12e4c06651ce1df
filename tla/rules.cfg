CONSTANTS
  Operators = {o1, o2}
  tool = tool
  other = other
  Default = Default
  Tools = {tool}
  Folders = {Default, other}
  NoFolder = NoFolder
  Absent = Absent
  Empty = Empty
  Garbled = Garbled
  None = None
  Issued <- SomeCommands
  MaxCommands = 3
  MaxBoots = 2
  MaxHost = 2
SPECIFICATION Spec
SYMMETRY Symmetry
INVARIANTS NoLostUpdate RulesInForce OnceLeavesNothing
CHECK_DEADLOCK FALSE
