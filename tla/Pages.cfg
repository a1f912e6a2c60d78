SPECIFICATION ScenarioSpec
CONSTANTS
  o1 = o1
  o2 = o2
  alice = alice
  mallory = mallory
  bob = bob
  o3 = o3
  o4 = o4
  r1 = r1
  w1 = w1
  w2 = w2
  s1 = s1
  s2 = s2
  Faults = {}
  NoTx = NoTx
  None = None
  AnyOrder = AnyOrder
  Orders = {o1, o2, o3, o4}
  Workers = {w1}
  Settlers = {s1}
  Parties <- AllParties
  Keys <- AllKeys
  Outcome <- MCOutcome
  Calls <- PageCalls
  GeneratedIds = {}
  SettleCalls <- BothDays
  MaxDay = 2
  MaxAmount = 1000
  ColumnMax = 1000
  Readers = {r1}
  CreatedAt <- MCCreatedAt
  Pages = {"detail", "ledger", "summary", "list"}
  PageSize = 2
INVARIANTS
  HistoryExplainsStatus
  LedgerPageIsNotBehind
  SettledPayoutIsPaidOut
  WalkShowsEachOrderOnce
