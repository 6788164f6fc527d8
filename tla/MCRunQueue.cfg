SPECIFICATION QueueFleetSpec
CONSTANTS
  r1 = r1
  r2 = r2
  a1 = a1
  t1 = t1
  w1 = w1
  w2 = w2
  b1 = b1
  b2 = b2
  b3 = b3
  Run = {r1, r2}
  Agent = {a1}
  NoAgent = NoAgent
  Ticket = {t1}
  NoTicket = NoTicket
  Worker = {w1, w2}
  NoWorker = NoWorker
  NoRun = NoRun
  AgentFor <- MCAgentFor
  TicketFor <- MCTicketFor
  Cloud = {r2}
  MaxAttempts = 2
  Waiter = {b1, b2, b3}
  NoWaiter = NoWaiter
  Window = 1
  Timeout = 3
  MaxDelay = 1
  MaxClock = 3
  MaxSince = 1
CHECK_DEADLOCK FALSE
SYMMETRY Symmetry
INVARIANTS OneRunningPerAgent AttemptsLeft OffAgentIdle
PROPERTIES KeepsLifecycle SweepsFindDeadlocks
