SPECIFICATION RSpec
CONSTANTS
  o1 = o1
  o2 = o2
  alice = alice
  mallory = mallory
  bob = bob
  w1 = w1
  w2 = w2
  s1 = s1
  s2 = s2
  Faults = {}
  NoTx = NoTx
  None = None
  AnyOrder = AnyOrder
  Orders = {o1}
  Workers = {w1}
  Settlers = {s1}
  Parties <- AllParties
  Keys <- AllKeys
  Outcome <- MCOutcome
  Calls <- PaidOrRefundedCalls
  GeneratedIds = {}
  SettleCalls <- BothDays
  MaxDay = 2
  MaxAmount = 1000
  ColumnMax = 1000
  Damaged = {}
  MaxDamages = 0
INVARIANTS
  OnePayoutPerOrder
