SPECIFICATION FairGatewaySpec
CONSTANTS
  r1 = r1
  r2 = r2
  c1 = c1
  c2 = c2
  c3 = c3
  c4 = c4
  Run = {}
  NoRun = NoRun
  Backend = {"cloud", "project", "local"}
  BackendOf <- MCBackendOf
  RuntimeOf <- MCRuntimeOf
  Amount <- MCAmount
  Scoped = {}
  WorkspaceLimit = 7
  ProjectLimit = 2
  AgentLimit = 3
  Actual = {3}
  Connections = 3
  LastMonth = 1
  MaxFaults = 2
  Call = {c1, c2, c3, c4}
  CallBackend <- MCCallBackend
  Estimate <- MCEstimate
  Rank <- MCRank
  Local = {"local"}
  Capacity = 1
  MaxDepth = 1
  Response = {2}
CHECK_DEADLOCK FALSE
INVARIANT NobodyWaitsIdly
PROPERTY CallsEnd
