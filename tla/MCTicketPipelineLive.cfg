SPECIFICATION FairSpec
CONSTANTS
  e1 = e1
  e2 = e2
  Slot = {e1}
  MaxAttempts = 2
  MaxReviewRounds = 1
  MaxQaRounds = 1
  MaxRuns = 14
  MaxFaults = 1
  MaxOrders = 1
  MaxEvents = 1
CHECK_DEADLOCK FALSE
PROPERTY TicketRests
