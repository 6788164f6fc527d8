SPECIFICATION FairWorkSpec
CONSTANTS
  r1 = r1
  a1 = a1
  t1 = t1
  w1 = w1
  w2 = w2
  e1 = e1
  e2 = e2
  Run = {r1}
  Agent = {a1}
  NoAgent = NoAgent
  Ticket = {t1}
  NoTicket = NoTicket
  Worker = {w1}
  NoWorker = NoWorker
  NoRun = NoRun
  AgentFor <- MCAgentFor
  TicketFor <- MCTicketFor
  Cloud = {r1}
  MaxAttempts = 2
  Slot = {e1, e2}
  OwnerOf <- MCOwnerOf
  MaxFaults = 1
CHECK_DEADLOCK FALSE
INVARIANT ChargedOnce
PROPERTY WorkEnds
