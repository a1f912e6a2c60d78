SPECIFICATION RSpec
CONSTANTS
  o1 = o1
  o2 = o2
  alice = alice
  mallory = mallory
  bob = bob
  w1 = w1
  w2 = w2
  s1 = s1
  s2 = s2
  Faults = {}
  NoTx = NoTx
  None = None
  AnyOrder = AnyOrder
  Orders = {o1, o2}
  Workers = {w1}
  Settlers = {s1}
  Parties <- AllParties
  Keys <- AllKeys
  Outcome <- MCOutcome
  Calls <- RebuildCalls
  GeneratedIds = {}
  SettleCalls <- OneDay
  MaxDay = 1
  MaxAmount = 1000
  ColumnMax = 1000
  Damaged = {"row", "status", "version", "amount", "customer", "fee", "charge", "paidDay", "settlement"}
  MaxDamages = 1
INVARIANTS
  RepairedIsNotDrifted
