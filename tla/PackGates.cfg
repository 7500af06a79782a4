SPECIFICATION GateSpec
CONSTANTS
  Units = {"v", "/v", "w", "x", "u", " ", "[...]", "..."}
  Blank = " "
  RolePriority <- MCRolePriority
  Marker <- MCMarker
  Budget = 5
  Requests <- MCRequests
  NoEntry = NoEntry
  Packs <- MCPacks
  ContextPreamble <- MCPreamble
  HostOf <- MCHostOf
  MinText = 2
  ContractDimensions <- MCDimensions
  Categories <- MCCategories
  NotDeclared = NotDeclared
  Unreadable = Unreadable
INVARIANTS
  LowestRoleDropped
  BudgetHeld
  AuditBlamesBudget
  NoForcedCopy
  AnswerInWindow
CHECK_DEADLOCK FALSE
