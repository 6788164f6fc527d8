SPECIFICATION PlatformSpec
CONSTANTS
  r1 = r1
  r2 = r2
  a1 = a1
  a2 = a2
  b1 = b1
  c1 = c1
  s1 = s1
  s2 = s2
  s3 = s3
  f1 = f1
  f2 = f2
  g1 = g1
  g2 = g2
  k1 = k1
  k2 = k2
  l1 = l1
  LogRun = {r1, r2}
  NoRun = norun
  LineCap = 2
  PageSize = 1
  MaxShown = 2
  Says <- MCSays
  MaxLooks = 2
  MaxSlips = 1
  Executor = {e1, e2}
  NoOne = noone
  MaxAttempts = 2
  MaxFaults = 1
  Planner = {a1, a2, b1, c1}
  Process = {s1, s2, s3}
  ProcessOf <- MCProcessOf
  RunOf <- MCRunOf
  NoLock = nolock
  Ticket = {t1, t2, t3}
  NoTicket = noticket
  Request = {q1, q2}
  MaxRequests = 3
  Activation = {x1, x2}
  Sprint = {y1, y2}
  MaxChanges = 4
  Order <- MCOrder
  Planned <- MCPlanned
  NoOrder = noorder
  Flow = {f1, f2}
  LayerOf <- MCLayerOf
  Agent = {k1, k2}
  Editor = {x1, x2}
  OwnerLists <- MCOwnerLists
  FlowLayer = "frontend"
  MaxEdits = 2
  CompanyRequest = {g1, g2}
  NoCompany = nocompany
  MaxTries = 2
  Forced = {g2}
  MaxRetries = 1
  MaxTriesUsed = 2
  Credential = {y1, y2, l1}
  NoCredential = nocredential
  ProviderOf <- MCProviderOf
  CanCode = {"cursor"}
  DefaultLabel = {y1, l1}
  KeyOptional = {"ollama"}
  NoKey = nokey
  Key = {good, bad}
  GoodKey = {good}
  Caller = {x1, x2}
  MaxCalls = 3
INVARIANTS
  EveryPieceOnce PageFaithful OneAgent NothingRunsUnwatched MirrorExclusive WorktreeStands
  HierarchyKept OneActiveSprint RosterSound OwnersExclusive RosterAsAsked ActiveUsable
CHECK_DEADLOCK FALSE
