SPECIFICATION ScenarioFairSpec
CONSTANTS
  o1 = o1
  o2 = o2
  alice = alice
  mallory = mallory
  bob = bob
  f1 = f1
  t1 = t1
  t2 = t2
  w1 = w1
  w2 = w2
  s1 = s1
  s2 = s2
  Faults = {"abort", "ack_lost", "query_fails", "crash"}
  NoTx = NoTx
  None = None
  AnyOrder = AnyOrder
  Orders = {o1, o2}
  Workers = {w1, w2}
  Settlers = {}
  Parties <- AllParties
  Keys <- AllKeys
  Outcome <- MCOutcome
  Calls <- BrowserCalls
  GeneratedIds = {o1, o2}
  SettleCalls = {}
  MaxDay = 1
  MaxAmount = 1000
  ColumnMax = 1000
  Nobody = Nobody
  Clients = {f1, t1, t2}
  Forms = {f1}
  FormUuids <- MCFormUuids
  Entries <- MCEntries
  Tabs = {t1, t2}
  Order = o1
  Uuids <- MCUuids
  MaxFaults = 2
INVARIANTS
  AttemptKeyIsKept
  UserMeetsNoConflict
  EveryOrderIsAccountedFor
PROPERTIES
  PaymentIsDecided
CHECK_DEADLOCK FALSE
