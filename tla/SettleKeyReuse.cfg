SPECIFICATION Spec
CONSTANTS
  o1 = o1
  o2 = o2
  alice = alice
  mallory = mallory
  bob = bob
  w1 = w1
  w2 = w2
  s1 = s1
  s2 = s2
  Faults = {"abort", "ack_lost", "query_fails", "crash"}
  NoTx = NoTx
  None = None
  AnyOrder = AnyOrder
  Orders = {o1}
  Workers = {w1}
  Settlers = {s1}
  Parties <- AllParties
  Keys <- AllKeys
  Outcome <- MCOutcome
  Calls <- SettleOneCalls
  GeneratedIds = {}
  SettleCalls <- SettleOneSettles
  MaxDay = 2
  MaxAmount = 1000
  ColumnMax = 1000
INVARIANTS
  ReusedSettlementKeyIsReported
