SPECIFICATION Spec
CONSTANTS
  NumNonsense = 2
  NumPaths = 2
  Budget = 8
  Policies <- MCPolicies
  Signatures = {"shell", "api"}
  Responses <- MCResponses
  Calls <- MCCalls
  NoDelay = NoDelay
  NoStatus = NoStatus
  NoAnswer = NoAnswer
  NoText = "empty"
  Unread = Unread
INVARIANTS
  PaceKept
  SpecNeedsBaseline
  OpenedOnlyIfPermitted
PROPERTIES
  RefusedUpFront
CHECK_DEADLOCK FALSE
