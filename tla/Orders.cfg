SPECIFICATION ScenarioSpec
CONSTANTS
  o1 = o1
  o2 = o2
  o3 = o3
  alice = alice
  mallory = mallory
  bob = bob
  w1 = w1
  w2 = w2
  s1 = s1
  s2 = s2
  Faults = {"abort", "ack_lost", "query_fails", "crash"}
  NoTx = NoTx
  None = None
  AnyOrder = AnyOrder
  Orders = {o1, o2, o3}
  Workers = {w1, w2}
  Settlers = {}
  Parties <- AllParties
  Keys <- AllKeys
  Outcome <- MCOutcome
  Calls <- OrderCalls
  GeneratedIds = {o2, o3}
  SettleCalls = {}
  MaxDay = 1
  MaxAmount = 1000
  ColumnMax = 1000
  Scenarios <- OrderScenarios
SYMMETRY Permuted
INVARIANTS
  TypeOK
  VersionsDense
  LegalHistory
  ReadModelMatchesReplay
  LedgerMatchesReadModel
  NoDoubleCharge
  ChargeRecoverable
  OneEventPerKey
  SuccessIsStored
PROPERTIES
  ImplementsAtomicService
  StoredIsSuccess
