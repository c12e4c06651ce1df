SPECIFICATION FairSpec
INVARIANTS NoOrphan NothingLeft
PROPERTIES CleanUpEnds DeathNoticed ImplementsContract
CHECK_DEADLOCK FALSE
