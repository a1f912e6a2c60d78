SPECIFICATION ScriptsFairSpec
CONSTANTS
  o1 = o1
  o2 = o2
  o3 = o3
  o4 = o4
  o5 = o5
  alice = alice
  mallory = mallory
  bob = bob
  x1 = x1
  x2 = x2
  w1 = w1
  w2 = w2
  s1 = s1
  s2 = s2
  Faults = {"abort", "ack_lost", "query_fails", "crash"}
  NoTx = NoTx
  None = None
  AnyOrder = AnyOrder
  Orders = {o1, o2, o3, o4, o5}
  Workers = {w1, w2}
  Settlers = {s1}
  Parties <- ScriptParties
  Keys <- ScriptKeys
  Outcome <- ScriptOutcome
  Calls <- ScriptCalls
  GeneratedIds = {}
  SettleCalls <- TestSettles
  MaxDay = 2
  MaxAmount = 1000
  ColumnMax = 1000
  Nobody = Nobody
  Clients = {x1, x2}
  MaxFaults = 0
  List <- MCList
  SeedKey <- MCSeedKey
  Seeder = w1
  MaxMishaps = 2
  Creates <- TestCreates
  Pays <- TestPays
  SettleKey <- MCSettleKey
  Tester = s1
INVARIANTS
  SeededAsListed
  WholeRunIsPaidOut
PROPERTIES
  LoadTestPasses
CHECK_DEADLOCK FALSE
