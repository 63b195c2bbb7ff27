SPECIFICATION ExecutorSpec
CONSTANTS
  NumberOf <- NumberValues
  Limit = 2
  Numerals <- TheNumerals
  ChoiceIndices = {0}
  Requests <- AllRequests
  InfoOf <- Models
  FirstModel <- Newest
  Refusals <- TheLimits
  Now = 3
  PartLists <- Replies
  Args <- CallArguments
  CallIds <- Ids
  MaxItems = 3
CONSTRAINT Answered
INVARIANTS
  EffortHonoured
  ShortNamesRestored
  ToolNamesRestored
  StreamMatchesWhole
  EndpointsAgree
  ResponsesWellFormed
CHECK_DEADLOCK FALSE
