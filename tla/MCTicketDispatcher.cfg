SPECIFICATION DispatchSpec
CONSTANTS
  t1 = t1
  t2 = t2
  t3 = t3
  a1 = a1
  a2 = a2
  a3 = a3
  Ticket = {t1, t2, t3}
  Agent = {a1, a2, a3}
  NoAgent = noagent
  ByPriority <- MCByPriority
  SweepLimit = 2
  Readied = {t1, t2}
  OnPath = {t1}
  OfFlow = {t3}
  Developer = {a1, a2}
  WipLimit = 1
  MergeCounts = FALSE
  FirstPath <- MCFirstPath
  FirstFlow <- MCFirstFlow
  MaxUserActs = 2
  MaxFaults = 1
INVARIANTS WipRespected ChoiceStands
PROPERTY NoneHeldUp
CHECK_DEADLOCK FALSE
