CONSTANTS
  call_1 = call_1
  call_2 = call_2
  CallIds = {call_1, call_2}
  CallLists <- ManyCalls
  CallDecisions = {"allow", "deny"}
  LlmDecisions = {"allow"}
  MaxTurns = 2
  MaxMessages = 6
  DenyBurst = 2
  Once = FALSE
SPECIFICATION FairSpec
INVARIANTS TypeOK SeqInStep NoFalseAlarm ReplyMatchesRequest NoMutualWait GuestFailsOnlyWhenCut
PROPERTIES AckedResultWasApproved TurnAnswered ImplementsContract
CHECK_DEADLOCK FALSE
