SPECIFICATION RunRoutingSpec
CONSTANTS
  r1 = r1
  a1 = a1
  t1 = t1
  w1 = w1
  w2 = w2
  e1 = e1
  e2 = e2
  Run = {r1}
  Agent = {a1}
  NoAgent = NoAgent
  Ticket = {t1}
  NoTicket = NoTicket
  Worker = {w1, w2}
  NoWorker = NoWorker
  NoRun = NoRun
  AgentFor <- MCAgentFor
  TicketFor <- MCTicketFor
  Cloud = {r1}
  MaxAttempts = 2
  Slot = {e1, e2}
  OwnerOf <- MCOwnerOf
  MaxFaults = 1
  hosted = hosted
  routed = routed
  local = local
  large = large
  larger = larger
  small = small
  twin = twin
  auto = auto
  named = named
  alias = alias
  Provider = {hosted, routed, local}
  NoProvider = NoProvider
  Own = {local}
  AutoRouted = {routed}
  Model = {large, larger, small, twin, auto, named, alias}
  NoModel = NoModel
  Preference <- MCPreference
  Like <- MCLike
  DefaultModel <- MCDefaultModel
  AdapterModel <- MCAdapterModel
  Entered <- MCEntered
  Alias <- MCAlias
  Offers <- MCOffers
  Wanted = {larger, named}
  RoutedRun = {r1}
  AskedTier = {"top"}
  Day = 0
  LastDay = 1
  MaxEdits = 2
  MaxOffers = 1
CHECK_DEADLOCK FALSE
INVARIANTS LedgerCovers NothingLeaks RoutesAreCurrent
