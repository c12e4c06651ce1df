CONSTANTS
  Tools <- RepositoryTools
  FileTools <- RepositoryFileTools
  ListTool = "file_list"
  Risky <- RepositoryRisky
SPECIFICATION Spec
INVARIANTS OneRule DecisionIsGranted VisibleIsUsable
CHECK_DEADLOCK FALSE
