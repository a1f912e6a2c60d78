# Verification of the seller ledger

TLA+ modules, TLC runs and machine-checked proofs about the seller ledger: an
event-sourced order service with a double-entry ledger, a payment saga and a daily
settlement, all on one PostgreSQL database at READ COMMITTED, and about its clients:
the browser's pages, the repair script, the load test and the seed.

Paths below are relative to the repository's root; `FS` is
`backend/src/services/financial-service.ts`.

## 1. The system

| component | code | state it keeps | operations |
| --- | --- | --- | --- |
| money | `backend/src/lib/money.ts` | none | parse, print, fee |
| state machine | `backend/src/domain/state-machine.ts` | none | which event from which status |
| ledger | `backend/src/services/ledger.ts` | `ledger_entry` rows, append-only | build, validate and insert a posting set |
| event store | `backend/src/services/event-store.ts` | `event_log` rows, append-only | append, look up by key, replay or execute |
| order mutations, payment saga | `FS:94-533` | one `order_projection` row per order | create, pay (processing, charge, confirmed, fee), ship, deliver, refund |
| payment provider | `backend/src/services/stripe-mock.ts` | captured charges | charge under a key |
| daily settlement | `FS:582-701` | one `settlement` row per date | settle a date |
| projector | `backend/src/services/projector.ts` | none | fold the log into rows |
| rebuild script | `backend/scripts/rebuild-projections.ts` | writes `order_projection` | report or repair drift |
| queries, verification | `backend/src/services/queries.ts`, `FS:703-780` | none | read |
| routes, errors | `backend/src/routes`, `plugins/error-handler.ts` | none | validate, call, map errors |
| browser, order page | `frontend/components/OrderActions.tsx`, `lib/idempotency.ts`, `lib/api.ts`, `lib/hooks.ts` | the row polled last, one key per action in sessionStorage | poll, click, retry, reload |
| browser, order form | `frontend/components/CreateOrderForm.tsx` | one key per submission in React state | submit, retry, reload |
| browser, settlement card | `frontend/components/SettleCard.tsx` | none: a fresh key per click | settle a date |
| load test | `backend/scripts/load-test.ts` | phase, job index, failures | create, pay, settle twice, verify |
| seed | `backend/scripts/seed.ts` | position in its list | run a list of calls |

**Interaction.** Every mutation of an order goes through `withIdempotentEvent`: look up
the key, otherwise run a transaction of four or five statements (read the row, read the
latest event, insert the event and its postings, update the row under a version guard),
otherwise, if anything throws, look up the key again. The saga strings up to three such
mutations together with keys derived from the client's key, around a call to the
provider that no transaction covers. A settlement shares the tables with all of them,
uses the event table's unique indexes as its gate, and marks order rows without
touching their version. Nothing else is shared: requests communicate only through the
database, and wait for each other only on index entries and row locks.

Clients reach the service over HTTP, except the seed, which calls the service functions,
and the rebuild script, which writes a table behind their back. A request outlives its
client: when a connection breaks, the handler goes on and its answer goes nowhere. What a
client does next depends on the code of the answer, on the row it polled last, and on
where it kept the key.

**What is hard.** The statements of a transaction see different committed states; the
row a handler decides on may be stale when it writes. Two writers may compute the same
version, or different versions from rows of different age. Losing a race surfaces in
three different errors, and the loser must turn it into the winner's answer. The
process may die, or the acknowledgement of a commit be lost, anywhere between the three
transactions of a payment and the charge. A refund and a settlement are guarded against
each other by different columns. Two settlements of different dates share no key and no
date, only order rows, which they lock in any order. A client that was not answered does
not know whether its request took effect. The pages combine statements that saw different
moments. `PROJECT.json` lists these
hazards at their lines.

**What correctness means.**

- event store: one event per key; per order, versions 1, 2, ... without gap; every
  event legal after its predecessor;
- order mutations: the ledger and the row tell the same story; a call whose work has been
  done under its key is answered with success, unless a query outside a transaction fails,
  and a success means that what was asked for is stored;
- saga: one capture per order, and captured money is never stranded;
- settlement: it names exactly the orders marked with it, its totals are theirs, nobody
  is paid twice or refunded afterwards; it is refused only for a conflict that is real;
- projector: replaying the log gives the rows, column by column;
- money: fees are rounded correctly, admitted amounts can be posted, texts lose nothing;
- every call ends;
- the service as a whole: each mutation takes effect once, in one step, on the orders as
  they are at that step;
- rebuild script: the rows it has repaired agree with the log in the columns it compares
  and writes (not in the amount: finding 4);
- queries: a page is never behind the row it shows, a walk through the list is complete;
- browser: the key of an attempt lives as long as the attempt, so every payment that was
  begun is decided if the users of all open tabs keep clicking, and no order is recorded
  twice unless the form is reloaded;
- seed and load test: the first ends in the state its list names, the second passes on
  what the first left, and its settlement pays its whole run.

## 2. The modules

| module | models | extends |
| --- | --- | --- |
| `Money` | `lib/money.ts`, in integer units of 0.0001 USD | |
| `StateMachine` | `domain/state-machine.ts` | |
| `Ledger` | posting sets; an order's rows kept as a net per account | |
| `Database` | tables, unique indexes, row locks, commit and rollback, the calendar | the three above |
| `OrderService` | `withIdempotentEvent` and all mutations of one order, the saga, the provider | `Database` |
| `SettlementService` | `dailySettlement` | `Database` |
| `Projector` | `rebuildOrderStates` and its reducers | `Database` |
| `SellerLedger` | the composition, fairness, all properties | the services |
| `AtomicService` | abstract specification: the promise, one step per mutation | `StateMachine`, `Ledger`, `Money` |
| `SellerLedgerRefinement` | `SellerLedger` implements `AtomicService` | `SellerLedger`, instantiates `AtomicService` |
| `MCSellerLedger` | instances: menus of calls, keys, customers | `SellerLedgerRefinement` |
| `MCScenarios` | several instances in one run: a behaviour picks its menus of calls | `MCSellerLedger` |
| `RebuildScript` | `scripts/rebuild-projections.ts` next to the service | `SellerLedger` |
| `Queries` | `services/queries.ts`, `verifyLedgerBalance`, next to the service | `SellerLedger` |
| `HttpApi` | requests and answers between a client and the workers: `lib/api.ts` | `SellerLedger` |
| `OrderPage` | `OrderActions.tsx`, `idempotency.ts` in one or several tabs | `HttpApi` |
| `CreateOrderForm` | `CreateOrderForm.tsx` | `HttpApi` |
| `Browser` | forms and tabs in front of one service, and their fairness | `OrderPage`, `CreateOrderForm` |
| `SeedScript` | `scripts/seed.ts` | `SellerLedger` |
| `LoadTest` | `scripts/load-test.ts` | `HttpApi` |
| `Scripts` | the seed, then the load test on what it left | `SeedScript`, `LoadTest` |
| `MCRebuildScript`, `MCQueries`, `MCBrowser`, `MCScripts` | instances of the four systems around the service | each, and `MCSellerLedger` |
| `MCMoney` | the path of an amount text through parser and fee | `Money` |
| `MoneyProofs` | the theorems about amounts | `MCMoney` |
| `SellerLedgerProofs` | types, keys, versions, histories | `SellerLedger` |
| `BooksProofs` | ledger and read model agree; sums over finite sets, settlements add up; the shapes of a step, which all later proofs use | `SellerLedgerProofs` |
| `SagaProofs` | charges and answers | `BooksProofs` |
| `ReplayProofs` | the fold of the log; the repair script | `BooksProofs`, `RebuildScript` |
| `RefinementProofs` | the service implements `AtomicService` | `SellerLedgerRefinement`, `BooksProofs` |
| `ClientProofs` | pages, list, form and buttons | `Queries`, `Browser`, `SagaProofs` |
| `ScriptProofs` | the seed and the load test | `Scripts`, `SagaProofs` |

### State

| TLA+ | code |
| --- | --- |
| `events` | committed rows of `event_log`; payload kept where some code reads it back |
| `orders[o]` | the row of `order_projection`; `NONE` stands for no row, `NoFee` and `NoDay` for NULL |
| `ledger[o]` | debits minus credits of the order's `ledger_entry` rows, by account |
| `settlements[d]` | the row of `settlement` for calendar day `d` |
| `pending[t]`, `locks[o]` | what an open transaction has inserted or updated: the index entries and row locks others wait for |
| `pc`, `call`, `step`, `target`, `seen`, `nextVersion`, `outcome` | a request's position in the code and its local variables (`order`, `version`, the error in flight) |
| `spc`, `scall`, `lines`, `todo`, `result` | the same for a settlement request |
| `charges` | what the provider has captured |
| `rpc`, `log`, `drifted` | the rebuild script's position, the events it read, the rows it is going to write |
| `page`, `about`, `parts`, `listed` | the page a reader polls, its order, what its statements have answered; a walk through the list |
| `waiting` | the client that waits for each worker |
| `shown`, `saved`, `busy`, `minted` | a tab: the row it polled last, its sessionStorage, the button that waits, the keys drawn so far |
| `pendingKey`, `submitting`, `drawn`, `recorded`, `forgotten` | a form: its key, whether it waits, the keys drawn so far; two histories: keys reported as recorded, keys a reload took |
| `phase`, `next`, `failures`, `first`, `date` | the load test's `main` |
| `at`, `nth`, `mishaps` | the index of the order the seed is at, 0 when it is not running, and of the next call of its `seedOrder`; the failures, kills and repetitions so far |
| `faults` | the failures of workers, broken connections and reloads so far (`HttpApi`) |
| `scenario` | of the MC modules: the menus this behaviour draws its calls from |

A worker is a request handler with at most one request at a time: n workers are all the
ways n requests overlap, over any number of requests one after the other.

### Actions

Each action is one round trip. `Lookup`, `ReadOrder`, `ReadLatest`, `InsertEvent`,
`UpdateOrder`, `Commit` and `Recheck` are the seven control points every mutation has;
what differs between mutations (`Rejection`, `EventOf`, `SameIntent`, `UpdateGuard`,
`Written`, `PostEvent`) is an operator by event type. Any of them can throw, which rolls
back and goes to `Recheck`, the catch block of `withIdempotentEvent`. `Continue` is the
code between two mutations of a saga. `FindOrder` and `Charge` belong to the saga alone.
A settlement has `FindSettlement`, `SelectEligible`, `InsertSettlement`, `MarkOrder`
(one row of its UPDATE), `CommitSettlement` and `RecheckSettlement`.

Statements that cannot be told apart from outside are one action: the postings follow
the event in the same transaction and no other transaction waits for them; the SELECT
after the guarded UPDATE reads the transaction's own row.

The environment: calls in any order and number from a menu (`Start`), the calendar
(`AdvanceDay`), and the faults of `Faults`: a transaction is aborted anywhere (`Abort`:
timeout, lost connection, deadlock victim), a query outside a transaction fails
(`QueryFails`), a commit takes effect but throws (`CommitAckLost`), the process dies
(`Crash`), and the same for settlements.

The clients add actions to this. A page `Request`s a call, is `Answered` or learns that it
will not be (`WorkerDied`, `ConnectionBroke`, both `NETWORK_ERROR` in `api.ts`), and may be
reloaded at any time; what it keeps is `EndsTheIntent` of the answer for a button,
`KeyAfter` for the form. A reader runs one `RunStatement` per query, in the order the code
awaits them (`Needs`): two for an order page; four for a ledger page, with the order read a
second time by `verifyLedgerBalance` (`FS:772`); five for the summary, which run in parallel
(`Parallel`) and so in any order. The rebuild script is `ReadLog`, `ReadRows` and one `Repair` per
row; `DamageRow` is the operator who made it necessary. The seed is a list of
orders, each with the calls of its flow (`CallsOfFlow`), and the load test two lists of jobs.

**The abstract specification.** `AtomicService` has one step for each mutation: `Open`,
`Move`, `Capture`, `TakeFee`, `Refund`, `PayOut`. There are no transactions, versions,
retries or failures in it; a step looks at the orders as they are and spends a key that
nobody has spent. The refinement mapping forgets all transactions in flight: the abstract
state is a function of the committed rows. `SellerLedger` has to show that every commit,
which acts on what its transaction read some statements ago, is one of those steps, and
that nothing else is visible. It subsumes the races of `docs/CONCURRENCY.md`: a lost
update, a repeated fee, a refund of a settled order or a second payout is not a step of
`AtomicService`. What it leaves to other properties is the log itself (`VersionsDense`,
`LegalHistory`, `ReadModelMatchesReplay`), the provider, and the answers.

The database follows PostgreSQL: an INSERT waits while a conflicting index entry is
uncommitted and fails once it is committed; an UPDATE skips rows that do not match, and
waits for the lock of a row that does and then evaluates its WHERE on the new row. If an
INSERT conflicts with both indexes, either may be reported.

## 3. The runs

`1 worker` means one order request at a time, `2 settlers` two concurrent settlements,
and so on; clients repeat their calls without limit. The event log is bounded by the
keys of the menu, since no key stores two events: this is the only bound on the
length of a behaviour, besides `MaxDay` calendar days.

| run | instance | states | question |
| --- | --- | --- | --- |
| `Money` | integer parts 0..1, up to 5 digits of {0, 1, 5, 9}: both sides of one cent, of the cap and of the rounding limit | 6 thousand | are fee, parser and stored text right at the edges? |
| `Orders` | 2 workers, three scenarios, all faults: (1) one order, three customers want its id, two payments, ship, deliver, refund; (2) service functions called directly with wrong amounts, two fees, an unpostable fee; (3) two orders with generated ids, both paid, keys reused with another amount, order, operation, and colliding with derived keys | 759 thousand | does an order survive everything that can happen to it, and does a key name one event and an answer speak of it? |
| `Settle` | 1 worker, 2 days, three scenarios: (1) 1 order, 2 settlers, a settlement under an order's key, lost acknowledgements, crashes; (2) 2 orders, 1 settler, totals that overflow, all faults; (3) 2 orders, 2 settlers of two dates, no faults | 1.25 million | does a settlement hold its own against payment, shipment, refund and itself, is one of several rows all or nothing, and who pays out when two dates cover the same orders, deadlock included? |
| `Live` | fair, two scenarios: (1) 2 workers, the payment of one order, all faults; (2) 1 worker, 2 settlers, 1 order, no faults | 80 thousand | does every order call and every settlement call end? |
| `Rebuild` | 1 worker, 1 settler, 2 orders; two damages, each to one of the eight columns of a row or to the whole row, script killed anywhere | 954 thousand | does a repair heal what it compares and writes, whatever was damaged and whatever is in flight? |
| `Pages` | 1 reader, two scenarios: (1) order, ledger and summary pages of 1 order, 1 worker, 1 settler, 2 days; (2) the list, 4 orders, 2 to a page, 1 worker | 1.83 million | what can a page put together from several statements show, and is a walk through the list complete while orders arrive? |
| `Browser` | 1 form, 2 workers, four scenarios: (1) 1 tab with three buttons, three customers, one fault; (2) 1 tab that pays, two faults; (3) 2 tabs that pay, one process dies; (4) the form alone, filled in twice, two faults | 184 thousand | is a key kept exactly as long as it is needed, and is every payment that was begun decided when the users of all open tabs keep clicking? |
| `Scripts` | seed: 3 orders (delivered, refunded, declined), two mishaps; load test: 2 clients, 2 workers, 1 settler, 2 orders, twin creates, 2 days; fair | 51 thousand | does the seed end in the state it lists, and does the load test pass on it, with a complete settlement? |
| `FeeWindow` | 2 workers, 1 order | violation | finding 1 |
| `SettleKeyReuse` | 1 worker, 1 settler, 1 order | violation | finding 2 |
| `RebuildLive` | 1 worker, 1 settler, 1 order, 2 days, nothing damaged | violation | finding 3 |
| `RebuildAmount` | the instance of `Rebuild`, one damage | violation | finding 4 |

A scenario is chosen in the initial state and constrains only which calls start and, in a
quiet one, that nothing fails; it never touches what a call does. Running related
scenarios together keeps one run for one question.

`Orders` and `Settle` also check that the service implements
`AtomicService`.

**Why these bounds are enough to be interesting.** Every race of `docs/CONCURRENCY.md`
is between two requests, and two writers per contended resource reach it: two workers on
one order, two settlers on one date or on one set of rows, a settler against a worker.
Two orders are needed for a settlement that is partly overtaken and for a cycle of row
locks, two days for two settlements that want the same order. Amounts are above
`MIN_ORDER_AMOUNT` = 100 units and at it or below it where a run asks for it; 16 units is
an amount whose fee rounds to zero. `MaxAmount` and `ColumnMax` are small stand-ins for
`MAX_AMOUNT` and the range of DECIMAL(18,4). Faults are left out where the question is
about the interleaving alone and the state space would double, and named in each cfg.
Symmetry is used on workers and settlers, in safety runs only.

The clients' instances are bounded by the keys they can draw (`Uuids`, `FormUuids`: two
or three, so that an attempt can be given up and another begun) and by the number of
faults, broken connections and reloads (`MaxFaults` = 2, because a retry after a failure
can fail again; a scenario may allow fewer), the seed by `MaxMishaps` = 2 and damage from
outside by `MaxDamages` = 2 (one before and one between two runs of the script). One
reader is enough, since readers change nothing; one tab is where a key can be lost by its
own page, two are where tabs do not share keys. With two tabs the one failure is the death
of a process: a lost answer or a reload, which a tab meets alone, belongs to the scenarios
with one. Where the workers are alike, `Browser` gives a call to the second only while the
first is busy. The list has two orders to a page and four orders: a second page exists as
soon as three of them do, so an order can arrive between two pages, newer than the cursor
or older, and a walk can cross two boundaries.

**Fairness** (`FairSpec`). A request whose next statement can run eventually runs it:
Node.js and PostgreSQL schedule every ready request. For a statement that has to wait for
a row or an index entry this is strong fairness: it may be found free, taken by another
and free again. Row locks are queued in PostgreSQL; a waiter on a unique index waits for the
transaction that holds the entry and then retries, so it has a chance at every end of a
transaction rather than a place in a queue: strong fairness is an assumption there.
Nothing is assumed of failures, of clients or of the calendar. A deadlock is eventually
broken (`deadlock_timeout`); the liveness runs have one order, so they do not need it.

The clients' runs add to this. `Browser` (`ServiceFairness`, `PageFairness`): the browser
takes an answer that has arrived and notices a dead connection, SWR polls again
(`refreshInterval`, `hooks.ts:22`), and the user of every open tab keeps clicking "pay" as
long as the page offers it. The last is an assumption about persons; it makes
`PaymentIsDecided` say that clicking is enough if the tab that began the payment is among
those that click. It has to be: a payment under way can be resumed only with its key, which
no other tab has, and if its own tab is left alone after a failure, clicks in the others
are refused for ever. The strong fairness of the click covers a button that is disabled
again and again while an answer is on its way. `Scripts`
(`ScriptsFairSpec`): scripts and server run until they have nothing left to do and a dead
seed is started again, until the load test begins; mishaps are bounded, not fair, and
nothing is assumed of the clock.
`Live` uses `Fairness` of `SellerLedger` as it is. No scenario blocks an action that is
assumed to be fair: menus limit only the start of calls, and in the form-only scenario
there is no payment to decide.

**Invariants and action properties**

| property | says | where it could go wrong |
| --- | --- | --- |
| `VersionsDense` | versions of an order are 1..row.version | latest event read without a lock |
| `OneEventPerKey` | a key stores one event, across orders and settlements | three statements between look-up and insert |
| `LegalHistory` | each event was legal after its predecessor | status checked on a stale row |
| `ReadModelMatchesReplay` | the fold of the log equals the row | two implementations of one rule |
| `LedgerMatchesReadModel` | nets by account are what status, fee and settlement imply | a posting without its row update, or twice |
| `SettlementsAddUp` | marked orders, totals, payouts agree; settled is never refunded | refund or other date between SELECT and UPDATE |
| `NoDoubleCharge` | one client key per order reaches a capture | a second attempt after an outage |
| `ChargeRecoverable` | a captured charge is confirmed or its order waits for that key | cancelling under a live charge |
| `StoredIsSuccess` | a call whose work is done under its key, by whomever, is answered with success | lost acknowledgements, twins, an order that has moved on since |
| `SettlementRefusalIsReal` | a refused settlement's date is open, and an order it wanted was refunded or settled elsewhere, or its key belongs to another aggregate | a loser's recheck, a row only shipped meanwhile |
| `SuccessIsStored` | success means: this order, operation, amount | keys reused while running |
| `EveryCallEnds`, `EverySettlementCallEnds` | no waiting for ever | index waits, row waits, recheck |
| `ImplementsAtomicService` | every commit is one step of `AtomicService`, everything else is invisible | a decision on rows that have moved |
| `RepairHeals` | an undisturbed repair leaves rows that replay in the columns it compares and writes | damaged again or killed half-way |
| `HistoryExplainsStatus` | an order page has the event behind its status | row and events read in two statements |
| `LedgerPageIsNotBehind` | a ledger page has the postings behind a settlement or refund, totals balance | three statements |
| `SettledPayoutIsPaidOut` | the settled payout of the summary has been paid by settlements | sums of rows against settlements |
| `WalkShowsEachOrderOnce` | a walk shows each order of its beginning once | cursor, skip and limit + 1 |
| `AttemptKeyIsKept` | an undecided payment's key is in the tab's storage | key dropped on an error that decided nothing |
| `UserMeetsNoConflict` | clicking never ends in IDEMPOTENCY_CONFLICT | keys shared by actions, or reused |
| `PaymentIsDecided` | every payment that was begun is confirmed or declined, if the users of all open tabs keep clicking | key and button after a failure |
| `EveryOrderIsAccountedFor` | an order's key was reported, is still held, or went with a reload | key dropped on an unanswered attempt |
| `LoadTestPasses`, `WholeRunIsPaidOut` | the seed gets through, the load test passes and pays its whole run | twin creates, midnight |
| `SeededAsListed` | a finished seed leaves each order in the listed state | killed half-way and repeated |

Every property has at least one mutant in `PROJECT.json`: a plausible bug of the code
(a dropped guard, a skipped recheck, a missing index, ...) under which the run finds it
violated. The mutated definitions stand above the ones they replace, marked `Mutant:`.

## 4. Findings

1. **The fee window is not harmless** (run `FeeWindow`, `ConfirmedSagaResumes`).
   `FS:370-372` promises that a retry after any partial failure resumes where the saga
   stopped, `docs/ARCHITECTURE.md:63-65` that the time between `PaymentConfirmed` and
   `FeeCalculated` is harmless. An order that is shipped in that window leaves PAID;
   `FeeCalculated` is allowed from PAID only (`state-machine.ts:25`), so this payment call
   and every retry of it end with `INVALID_TRANSITION`, the order never gets a fee and
   is never settled (`FS:602`).
2. **A settlement under a used key is an internal error** (run `SettleKeyReuse`,
   `ReusedSettlementKeyIsReported`). `docs/CONCURRENCY.md:49-53` says
   `withIdempotentEvent` wraps every mutation and a mismatch is 422; `dailySettlement`
   does not use it, and the raw unique violation reaches `error-handler.ts:54-57` as a
   500. No state is damaged: `OneEventPerKey` holds in the presence of such calls.
3. **The read model cannot be rebuilt at any time** (run `RebuildLive`,
   `OnePayoutPerOrder`). `schema.prisma:105` says it can. A settlement that commits between
   the script's two reads looks like drift; the upsert (`rebuild-projections.ts:68`, no
   version, no transaction) takes the settlement mark away, and the next settlement pays
   the order a second time: the log has two `SettlementProcessed` events that name it, where
   `docs/CONCURRENCY.md:11` promises one payout per order. `RepairHeals` says that the script
   is safe while nothing commits.
4. **A wrong amount is reported as repaired and stays** (run `RebuildAmount`,
   `RepairedIsNotDrifted`). The script compares the amount (`rebuild-projections.ts:21`),
   does not write it in the update branch of its upsert (`:85-94`), and prints `repaired from
   event stream` (`:96`); its comment says that drifted rows are repaired (`:7-8`). The next
   run reports the same row again.

Smaller remarks, which follow from reading the code and have no run of their own:

- A replay answers with the row as it is now (`replayOrderResult`, `FS:55-64`), not as the
  original call left it, where `docs/CONCURRENCY.md:10` speaks of the same outcome.
- The rebuild script compares neither customer nor `paidAt`: a row that is wrong in these
  alone is never found (`paidAt` is written if another column has drifted, the customer only
  if the row is missing).
- `getOrderWithEvents` (`queries.ts:11-16`) can return a history that is ahead of its row.
  The order of its statements matters: the other way round it could be behind
  (`HistoryExplainsStatus`, mutant `NeedsOrderLast`).
- If a failure falls between confirmation and fee, the order is PAID, for which no pay
  button is offered (`OrderActions.tsx:50`): the key is still stored and nothing sends it.
  This is the way into finding 1 without any second actor.
- "Resume payment (same key)" (`OrderActions.tsx:73`) depends on the order's status, the key
  on the tab's own sessionStorage (`idempotency.ts:12`): a second tab sends another key,
  which is refused. After a failure, a payment whose own tab is left alone or closed is
  never decided, whatever is clicked elsewhere (see the fairness of `Browser`).
- The form's key is React state (`CreateOrderForm.tsx:20`): a reload forgets it, and the
  order may be recorded twice. `EveryOrderIsAccountedFor` names the reload as the only way.
- On a day that was settled before, the load test passes with nothing of its run paid out:
  it compares two answers of the settlement with each other (`load-test.ts:151`).

## 5. The proofs

Every safety property that a passing run checks is also proved for all values of the
constants: any number of orders, workers, settlers, days, keys, tabs, forms and readers,
any menu of calls, any list of the seed and any jobs of the load test, any damage, with
every fault the model of the component has. The theorems:

| module | theorems | property | invariant behind it |
| --- | --- | --- | --- |
| `MoneyProofs` | `FeeRoundsHalfUp`, `AdmittedAmountsPostable`, `StoredTextExact`, `PayoutPositive` | `FeeIsNearestHalfUp`, `EveryAdmittedAmountIsPostable`, `StoredTextIsExact` | the path of one text |
| `SellerLedgerProofs` | `TypeCorrect`, `KeysUnique`, `VersionsAreDense`, `HistoriesAreLegal` | `TypeOK`, `OneEventPerKey`, `VersionsDense`, `LegalHistory` | `IInv` |
| `BooksProofs` | `BooksAgree`, `SettlementsBalance` | `LedgerMatchesReadModel`, `SettlementsAddUp` | `BooksInv`, `SettledInv` |
| `SagaProofs` | `ChargedOnce`, `ChargesAreRecoverable`, `SuccessesAreStored`, `StoredCallsSucceed`, `SettlementRefusalsAreReal` | `NoDoubleCharge`, `ChargeRecoverable`, `SuccessIsStored`; action properties `StoredIsSuccess`, `SettlementRefusalIsReal` | `SagaInv`, `RefusalInv` |
| `ReplayProofs` | `ReadModelIsReplay`, `RepairsHeal` | `ReadModelMatchesReplay`, `RepairHeals` | `ReplayInv`, `HealInv` |
| `RefinementProofs` | `ServiceIsAtomic` | `ImplementsAtomicService` | `RefinementInv` |
| `ClientProofs` | `HistoriesExplainStatus`, `LedgerPagesKeepUp`, `SummariesArePaidOut`, `WalksShowEachOrderOnce`, `FormsAccountForOrders`, `AttemptKeysAreKept`, `UsersMeetNoConflict` | the four of `Pages`, the three safety properties of `Browser` | `PagesInv`, `WalkInv`; `FormInv`, `PageInv`, `KeysOwned` |
| `ScriptProofs` | `SeedEndsAsListed`, `PassedRunsPaidOut`, `VerificationPasses` | `SeededAsListed`, `WholeRunIsPaidOut`; an action property that no run has | `ScriptInv` |

`PayoutPositive` is what allows `InsertSettlement` to have no branch for refused postings.

**The argument, layer by layer.** No property above is inductive alone; each layer adds
what transactions in flight, or clients, know.

*Log* (`IInv`): `ReadOK` (the row a worker has read allowed its event, and if the order's
version has not moved it still has that status), `VersionOK` (the version it is about to
write is at most one past the order's), `PendingOK` and `SettlerOK` (a transaction at or
past its insert, and no other, has a pending event), `GateOK` (no two event rows clash,
committed or pending), and `StreamOK` (versions dense, neighbours legal, the row in the
status of the last event). The step that matters is the commit: the pending event does
not clash with a committed one (`GateOK`), committed versions are exactly
1..row.version (`StreamOK`), and its own version is at most row.version + 1
(`VersionOK`), so it is row.version + 1 (lemma `PendingVersion`); it equals
seen.version + 1, so the row has not moved since it was read, and the event is legal
(`ReadOK`). The row lock is not needed: the gate alone carries the argument, and the
guarded UPDATE makes up for a row read before the latest event. `docs/CONCURRENCY.md`
calls that update "belt-and-braces"; in fact `LegalHistory` fails without it (mutant
`GuardWithoutVersion`), because the row and the latest event are read by two statements.

*Books* (`BooksInv`): the version guard makes the row a mutation overwrites the row it
read (`SeenOK`) up to the settlement column, which moves without the version; a refund
is safe from it by the row lock it holds until it commits (`HeldOK`, `LockOK`). What a
settlement has read of a line never changes again (`LinesOK`), but for status and
settlement, which its UPDATE checks under the lock.

*Saga* (`SagaInv`): money is captured only after `PaymentProcessing` was stored under the
client's key (`ChargeOK`), and an order leaves PAYMENT_PROCESSING by `PaymentConfirmed`,
for good, or by `PaymentFailed`, which is recorded only for a customer whose card is
declined (`EventOK`): an order with a capture has one `PaymentProcessing` event
(`OneProcessing`). What a worker knows of its call (`WorkerOK`) is about events, charges
and columns that no step takes back (`Grows`). That a call whose work is done is answered
with success goes by its way to the answer. Every statement that throws leads to the look-up of
the key; what is found there is the event the call asked for, because an event carries what
its type carries (`EventOK`: amount, party, order), so the intents agree
(`StoredIsReplayed`), the row it belongs to is there, and the replay succeeds
(`StoredAnswer`). A saga goes on to its next step, where the same holds, and a payment
that is done has not been declined (`NotDeclined`).

*Refusals* (`RefusalInv`): the event of a date is stored only together with its settlement
(`DateOK`), so a lost race for the date is found again; a row that the UPDATE passed over
was refunded or settled elsewhere, and stays so (`MarkOK`, `SettledGrows`), whereas a row
that was only shipped matches and is marked; and the error in flight keeps its reason until
the answer (`FailureOK`).

*Settlements* (`SettledInv`): the row of a date is the total of the orders that carry it
(`DayOK`): settled orders keep amount and fee, and the event of a date keeps a second
settlement of that date out.

*Replay* (`ReplayInv`): for every order, every function that satisfies the equation of the
projector's fold ends in the stored row (`FoldOK`). A commit adds one event, and with it
one step of the fold, which is the step the service took (`AppliedRow`).

*Repair* (`HealInv`): on damaged rows none of the above holds; what remains is that events
are numbered, that an open transaction holds an event nobody else has, and that a row
that is there has events. A commit therefore always makes the log longer: if the log is
the one the script read, nobody else wrote a row since (`ScriptOK`).

*Refinement* (`RefinementInv`): only a commit changes a committed row; at that moment the
rows it was computed from are the rows as they are (lemmas `CommitFacts`, `SettledRows`),
and its key was never spent. So it is one step of `AtomicService`; every other step is a
stutter, but for the calendar's.

*Pages* (`PagesInv`, with `FeesOK`: a fee is the fee of its amount): what a page has read
stays true of a database that only grows (`OrderLasts`, `PaidOutGrows`). *The list*
(`WalkInv`): a walk takes the newest of the orders older than its cursor, the last order
it has shown, so nothing comes twice and what is missing is older than the cursor; that
every finite set of orders has a listing at all is a lemma (`ListingExists`).

*Browser* (`FormInv`, `PageInv`, `KeysOwned`): a call in flight carries a key that some
form or tab still holds or whose attempt is over; a tab waits for one worker, which
serves its action and its key; each key is drawn for one action, so whatever is stored
under it was stored for that action.

*Scripts* (`ScriptInv`). While the seed runs no other worker is busy, and its own serves
the call at the script's position; once the load test has begun every busy worker serves
a job of the pool (`WorkInv`). So the events of a listed
order are of the types its flow asks for, and every call before the position has stored
its last event: a success is stored (`SuccessIsStored`), and only the payment of an order
meant to be declined may fail unnoticed (`EventsInv`). By `StreamOK` the versions of an
order are dense and its neighbours legal, so its last event, and with it the status, is
the one the flow ends with. In the load test a payment that is counted as a success has
stored its fee, so when the pool is done without a failure no paid order lacks a fee. From
then on only its own settlement writes: before it is stored nothing is settled, and what it
selects, marks and stores is every paid order (`SettleInv`); that the stored sum is the
sum of the property is `SettledInv` and the facts about sums. The interesting case is
midnight: the second request must name the day of the first, which the script keeps in
`date`. `VerificationPasses` needs none of this, only `BooksInv`: every order balances, so
the trial balance is zero. The load test can therefore fail only by a job or a settlement
that is refused, or a second settlement that is not a replay.

TLC checked such an invariant before it was proved, on the instances of the runs (among
them `ReplayInv` on `Orders` and on the scenarios of `Settle` with two orders, `FormInv`,
`PageInv` and `KeysOwned` on `Browser`, `HealInv` on `Rebuild`, `WalkInv` on `Pages`,
`ScriptInv` on `Scripts`).

**Induction over data.** The installed provers cannot instantiate an induction theorem,
which takes an operator. Facts about sums, folds and listings are therefore proved as the
absence of a smallest counterexample (`SmallestSubset`, `SmallestNat`, from
well-foundedness): that a sum over a finite set does not depend on the order in which
CHOOSE picks it (`SumByChoiceIsAdditive`), that parts add up (`TotalOfParts`), that the
fold of a stream exists and has the columns of a row (`FoldExists`, `FoldHasColumns`).

**Assumptions.** All are about constants, named in the module that declares them, and
evaluated by TLC on every run:

- parameters have their types; transactions of workers and settlers are distinct;
  settlement aggregates are not order ids; clients do not create orders under generated
  ids; no order and no key is the null value; keys are closed under the saga's suffixes and
  the keys of payments are texts (`OrderServiceAssumption`), since two keys derived from
  different texts must differ;
- `crypto.randomUUID()` (`BrowserAssumption`): no key is drawn twice, and none is another
  one with a suffix of the saga. Only the proofs about the browser use it; the service's
  own theorems hold for clients that repeat, share and forge keys;
- creation times order the orders (`QueriesAssumption`): (created_at, id) is a total order;
- the orders of the seed's list have distinct ids, and the customer of one that is meant to
  be declined is one whose card the provider declines (`SeedAssumption`; `seed.ts:27-36`,
  `cus_eve_declined`); the jobs of the load test are creates and payments
  (`LoadTestAssumption`), of orders of its own (`ScriptsAssumption`: `ord_${RUN_ID}_${i}`).

`VerificationPasses` supposes that `Orders` is finite, without which a sum over all orders
means nothing. One more theorem has a hypothesis of its own: `ChargesAreRecoverable` assumes
`PaymentsBySagaOnly`, that no call is `recordPayment`. That function (`FS:270`) is called
by tests, no route leads to it, and it can confirm the payment of an order whose capture is
under way under another key. In `Orders` the two never meet: the scenario that drives the
service functions directly has no saga.

**Model-checked only.** The liveness properties (`EveryCallEnds`,
`EverySettlementCallEnds`, `PaymentIsDecided`, `LoadTestPasses`): TLAPS does not reason
about ENABLED, hence not about fairness. The four findings are counterexamples.

## 6. What is not modelled

- `isValidDateString` and the schema validation of routes: they reject a request before
  anything happens.
- Wording of errors and JSON, reasons and payment methods, timestamps within a day, the
  serializers. Two settlement events that name the same order would be ordered by timestamp
  in the projector; the model leaves the order open (it never happens: `SettlementsAddUp`).
- `payoutAmount` as a column: it is amount minus fee wherever it is written, and the model
  has no damage to it alone.
- The status filter of `listOrders`: what `skip: 1` skips when the cursor's row has left the
  filter is up to Prisma. `listSettlements` is one statement. Running balances of a ledger
  page are sums of the rows it shows.
- The fallback of `actionKey` without sessionStorage, SWR's cache and its revalidations
  after an action: `PollOrder` may happen at any time, which covers them.
- The settlement card of the dashboard keeps nothing between clicks: it is a settlement
  under a fresh key, which the settlers of `SellerLedger` already send at any time. It
  is not run next to the load test.
- The browser's liveness when one of two tabs is left alone: it does not hold, since the
  other tab has not the key and cannot resume (section 4); no run shows it. With two tabs
  in use, `PaymentIsDecided` is checked with the death of a process as the only failure.
- In the seed, `--reset` (a TRUNCATE before anything else) and the printed trial balance; in
  the load test, the timings and the two checks before the run.
- Wiring and configuration; the components that only display what a query answered.
- The mock provider is modelled by its contract, one capture per key; its latency is the
  interleaving of other workers.

## 7. Plan

In the order in which it matters to the system:

1. *(done)* `Money`, `StateMachine`, `Ledger`, `Database`, `OrderService`,
   `SettlementService`, `Projector`, `SellerLedger`; safety, liveness, first theorems.
2. *(done)* `RebuildScript` composed with `SellerLedger`.
3. *(done)* `AtomicService` and the refinement, by TLC. The streams and the books of an order
   are one abstract specification rather than two: an event, its row and its postings
   become visible together, and a specification of each alone could not say that.
4. *(done)* `Queries`.
5. *(done)* The browser: `HttpApi`, `OrderPage`, `CreateOrderForm`, composed in `Browser`;
   the scripts `SeedScript` and `LoadTest`, composed in `Scripts`.
6. *(done)* The proofs: the books, the saga and the answers, the settlements, the replay, the
   repair, the refinement, the pages and the browser.
7. *(done)* The proofs about the scripts: `SeededAsListed` and `WholeRunIsPaidOut`.

Liveness stays with TLC.
