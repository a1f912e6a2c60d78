SPECIFICATION FairScenarioSpec
CONSTANTS
  o1 = o1
  o2 = o2
  o3 = o3
  alice = alice
  mallory = mallory
  bob = bob
  w1 = w1
  w2 = w2
  s1 = s1
  s2 = s2
  Faults = {"abort", "ack_lost", "query_fails", "crash"}
  NoTx = NoTx
  None = None
  AnyOrder = AnyOrder
  Orders = {o1}
  Workers = {w1, w2}
  Settlers = {s1, s2}
  Parties <- AllParties
  Keys <- AllKeys
  Outcome <- MCOutcome
  Calls <- LiveCalls
  GeneratedIds = {}
  SettleCalls <- BothDays
  MaxDay = 2
  MaxAmount = 1000
  ColumnMax = 1000
  Scenarios <- LiveScenarios
PROPERTIES
  EveryCallEnds
  EverySettlementCallEnds
