CONSTANTS
  p1 = p1
  p2 = p2
  c1 = c1
  c2 = c2
  r1 = r1
  r2 = r2
  None = None
  Idle = Idle
  Projects <- MCProjects
  CallIds <- MCCallIds
  SessionsOf <- MCSessionsOf
  SessionLogs <- MCSessionLogs
  FailedEntries <- MCFailedEntries
  DetailLimit = 3
  Users = {u1, u2}
  Bindable = {p1}
  MaxBindings = 1
  Kinds = {"cdns"}
  Providers <- MCProviders
  MaxWrites = 1
  OtherBindings <- MCOtherBindings
  ContextOf <- MCContextOf
  Links = {p1}
  Visitors = {FALSE}
  ActionsOf <- MCActionsOf
  AuditLinks <- MCAuditLinks
  OverviewProjects <- MCOverviewProjects
  Windows <- MCWindows
  RiskLimit = 1
  ActivityLimit = 2
  MaxRequests = 3
  Tabs = {t1, t2}
  PlatformRoleOf <- MCPlatformRoleOf
SPECIFICATION PagesSpec
SYMMETRY Symmetry
INVARIANTS
  PagesTypeOK
  PagesNeverStuck
  NoCrossUserSave
  ReasonsOfTheirSession
  CurrentFormAccepted
  OperationsKeptApart
  QueriesInTurn
  WorkbenchOfSelectedWindow
  PageOfItsSession
PROPERTIES
  LateLoadsIgnored
CHECK_DEADLOCK FALSE
