# Verification of the OraiDEX SDK

TLA+ models of the parts of the SDK where something can go wrong that a unit
test would hardly reach, with the TLC configurations that check them on small
instances and the theorems that TLAPS proves for all instances.  Every
definition is translated from the TypeScript source; `PROJECT.json` says which
lines each one stands for (`map`), which run checks what (`runs`), which
deliberate bug breaks each property (`mutants`), what was found (`findings`),
and which hazard each property is for (`hazards`).

Run a configuration with `tlc -config MC_X.cfg MC_Module`, check proofs with
`tlapm M_proofs.tla`.


## 1. Inventory

The repository is a set of TypeScript packages.  They keep little state; what
makes them hard is that their output is executed elsewhere, later, by chains
they do not control, or that their methods interleave at every `await`.

| Component | State | Operations | Interacts with |
|---|---|---|---|
| **Universal swap messages and memos** (`universal-swap/src/msg`) | none; a loop over the paths of a route | `generateMsgSwap`, `generateMemoSwap`, `buildMemoSwap`, `buildExecuteMsg`; per chain `OraichainMsg`, `OsmosisMsg`, `CosmosMsg` | handler (input), packet-forward middleware, ibc-hooks, entry point and ibc-wasm contracts (output) |
| **Universal swap handler** (`handler.ts`) | `swapData`, `config` | `processUniversalSwap`: alpha smart router, swap, transfer and swap, swap and transfer, EVM swap | wallets, simulation, contracts |
| **Simulation and routing** (`helper.ts`, `swap-filter.ts`) | none | `handleSimulateSwap`, `flattenSmartRouters`, `addOraiBridgeRoute`, `generateAddress` | smart router service, contract queries |
| **Wallets** (`oraidex-common/src/wallet.ts`) | allowances on the EVM chain | `checkOrIncreaseAllowance`, `submitTronSmartContract` | EVM chain, Tron extension |
| **oraidex-common helpers** | `OraidexCommon.instance` | predicates on addresses and chains, `fetchRetry`, `BigDecimal`, `OraidexCommon.load` | all of the above |
| **IBC routing state store** (`ibc-routing/src/db.ts`) | static `instances`, the database, one temporary file per table | `create`, `createTable`, `insertData`, `findStateByPacketSequence`, single-table queries | DuckDB, file system |
| **IBC routing events** (`event.ts`, `machine.ts`) | list of machines (never filled) | `handleEvent` | EVM provider, Tendermint socket |
| **Oraiswap V3 client** (`oraiswap-v3/src/handler.ts`) | none | paging over positions, pools, ticks | contract queries |
| **Zap consumer** (`zap-consumer.ts`) | none | split of an amount over two sides | smart router, V3 math |
| **TradingView feed** (`oraidex-common-ui/.../TVChartContainer`) | cached bars, last bar, timers | `getBars`, `getLiveBar`, subscribe and unsubscribe | price service, chart |
| Generated code, lists, demos | - | contract clients, typechain, protobuf, WebAssembly bindings, token lists | - |

**Hard behaviours.**  In the swap: partial failure and timeouts in the middle of
a route, nested memos that are built backwards and read forwards, two memo
formats of which the chain before decides, addresses that may be missing.  In
the state store: interleaving at every await, a file shared by all callers,
errors and crashes between two steps.  In the handler and wallets: an allowance
or a simulation that is stale when used.  In the clients: paging over data that
changes, late answers, retries that share one timer.

**What makes each part correct.**

- Messages and journey: whatever fails on the way, the tokens end with the user
  or the recipient; no transfer is sent to nobody; the chains perform the
  actions of the route in order, once each; without failures the final receiver
  gets the tokens; another person is paid only when the route is done.
- State store: one database per process; an insert answers truthfully and is
  refused only for its row; a search misses nothing that was known when it
  began; no temporary file stays but those of inserts that threw and of crashes.
- Handler, classic flow: a user loses no more than the slippage, whatever happens
  between the simulation and the execution; the tokens go to the own account or
  to the recipient; a transfer comes to rest.  From other chains: the tokens of a
  call are in one place, and at rest no fewer than was agreed if they were
  swapped, or all of them with the user if not.
- EVM swaps and wallets: a deposit finds the allowance that was raised for it; USDT
  refuses no approval; a call answers what the chain did; no allowance is left.
- V3 client: a list has every entry that is there throughout, once; queries end.
- Zap consumer: no more is swapped than was given, and neither part is negative; the
  status tells where the pool's price is and where it ends; a zap out removes its own
  position.
- Feed: bars of one pair and period are never mixed with another's or shown for it,
  without gaps; every call is answered; a reset brings what the server has.


## 2. Modules

| Module | Models | Source |
|---|---|---|
| `SwapMemo` | every message and memo builder, as operators | `universal-swap/src/msg/**` |
| `SwapJourney` (EXTENDS `SwapMemo`) | one swap from the request to the place where its tokens rest | `msgs.ts`, `helper.ts`, `handler.ts`; the chains as the SDK relies on them |
| `FundsCustody` | the promise: abstract specification of the above | - |
| `ClassicSwap` | several overlapping calls of `processUniversalSwap` without the alpha router, with the pool, the channel, the wallet and the clock | `handler.ts`, `helper.ts` |
| `RemoteSwap` (EXTENDS `ClassicSwap`) | the calls that begin on another chain: the memo, the transfer to Oraichain, and what the contract there does with it | `handler.ts`, `helper.ts`, `universal-swap-memo-proto-handler.ts` |
| `EvmSwap` | several overlapping calls of `transferAndSwap` of one EVM or Tron account | `handler.ts`, `helper.ts`, `wallet.ts` |
| `StateStore` | `DuckDbNode` and the clients that share it | `ibc-routing/src/db.ts` |
| `PagedQuery` | one list query of the V3 client while the list changes | `oraiswap-v3/src/handler.ts` |
| `ZapConsumer` | a zap in, and zaps out whose messages are sent later | `zap-consumer.ts`, `helpers.ts` |
| `BarFeed` | the calls of `getBars` that overlap, and the object they share | `TVDataProvider.ts`, `useTVDatafeed.ts`, `utils.ts`, `TVChartContainer.tsx` |
| `MC_*` | small instances | - |
| `*_proofs` | theorems | - |

`ClassicSwap`, `RemoteSwap` and `EvmSwap` are the ways on which `processUniversalSwap`
goes without the alpha router.  `ClassicSwap` ends a call that is handed to
`swapCosmosToOtherNetwork` or `transferAndSwap`; `RemoteSwap` goes on there, up to the
place where the tokens rest.  How the deposit of an EVM chain is approved and signed
is in `EvmSwap`, which shares no variable with the others: they spend on Oraichain,
it spends on an EVM chain.

### SwapMemo

A memo in the code is a JSON or protobuf text that contains the memo of the next
path, which contains the next.  Here it is the sequence of those instructions,
outermost first: nesting is `<<instruction>> \o memo`.  An instruction says who
reads it (packet-forward middleware, ibc-hooks, ibc-wasm), which swaps it
performs, the leg (transfer) it ends with, and its recovery address.  Every
builder is a pair: `Can...`, the condition under which the code does not throw,
and the value it returns.  Addresses keep chain, owner and encoding; amounts,
denoms and texts are abstracted.

### SwapJourney

`Start`, `BuildMemo`, `BuildExecute` and `MemoReady` are the loop of
`generateMsgSwap` and `generateMemoSwap`, from the last path to the first, each
with the action in which it throws; `MemoReady` is the deposit on an EVM chain
or on TON whose memo `addOraiBridgeRoute` builds; `Sign` is the broadcast.  After
that only the chains act, and they are not in this repository: `Credit`,
`Forward`, `Execute`, `ExecuteFails`, `ErrorAck` and `Timeout` model what the SDK
relies on (in `map` they are external).  A memo is obeyed only by a reader that
the chain has and that the packet reaches (`Reads`): a hook only for the contract
that is the receiver, an ibc-wasm memo only where ibc-wasm receives the packet.

### FundsCustody

The tokens leave the wallet at most once, come to rest at most once, and come to
rest with an owner unless some transfer names nobody to recover it.
`KeepsCustody` in `SwapJourney` is the refinement: `place` is computed from
`holder` and `pc`.

### StateStore

A step lies between two awaits.  `Create` looks at the static `instances`;
`Opened` and `OpenFails` end the two `Database.create`, the `close` and the
`connect`; `CreateTable` and `TableCreated` are the loop of `createTable`;
`Insert`, `Written`, `Load` and `Unlink` are `insertData`: opening the file (which
empties it), writing, the `INSERT ... SELECT * FROM read_json_auto`, and the
deletion; `Find` and `Queried` are `findStateByPacketSequence`, one table per
query, errors caught.  `Crash` restarts the process: files survive, a database
in memory does not.  Overlapping writes to one file may leave either text or a
mixture that is no JSON (`AfterWrite`).  The awaits inside `create` are one step:
between them it touches nothing that other clients look at.

The variables `raced`, `clashed`, `known`, `since` and `failed` are history: no
guard reads them.


### ClassicSwap

The user is shown a price (`Simulate`), which is also when the handler is made and
`currentTimestamp` taken; then every await is a step: `ProcessUniversalSwap`
(recipient and `getRoute`), `CheckSender`, `CheckFeeRelayer`, `BuildSwap` or
`BuildTransfer`, `CheckBalanceChannelIbc`, `SignAndBroadcast`.  Oraichain then
executes the transaction as a whole or not at all.  `MinReceives` is the
`minimum_receive` of each route, `Bridged` the amount of the transfer behind it,
which is simulated and not received: `ShortfallWithinSlippage` is about their
difference.  Amounts are whole tokens and prices whole numbers; `trunc` is `\div`.
`executed` and `initial` are history.

### RemoteSwap

`GetToAddress` is `getToAddressUniversalSwap`; `ProcessRemote` contains the step of
`ClassicSwap` and makes the first memo (`addOraiBridgeRoute` without the alpha router,
`getRouteV2`, `buildUniversalSwapMemo`); `BuildTransferToOraichain` is
`swapCosmosToOtherNetwork`, which asks for the address again and makes a second memo,
and `SignTransfer` its signature; `DepositOnEvm` is the deposit of `transferEvmToIBC`
with the first memo.  `MinimumReceive` is `calculateMinimumReceive`.  A memo keeps
what decides where the tokens go: the post action, the minimum, the receiver, the
recovery address and the time until which it may be executed.  The relayer's fee is a
number of ORAI; `calculateMinimumReceive` has it converted by a simulation, each time
anew (`RelayerFees`), or takes the number of ORAI for one of wanted tokens when nothing
is returned.  The two memos may so have different minimums; `fee` (history) is the fee
of the last one, which is what `AgreedOrBack` measures against.

The contract on Oraichain is not in the repository.  It is taken to do what the fields
of the memo ask for (`Swapped`), or to pay the recovery address (`Recovered`) for
whatever reason; without a memo the tokens rest where they arrive (`Unswapped`).  A
transfer from a cosmos chain may time out (`Refunded`); what the contract sends on
arrives or returns to the recovery address (`Onward`).  `rested` is history.

### EvmSwap

`TransferAndSwap` chooses; `ReadAllowance`, `CompareAllowance`, `ApproveZero` and
`Approve` are `checkOrIncreaseAllowance`; `Deposit` is the last call of `evmSwap` or
`transferToGravity`.  `Include` is the chain: it executes or reverts a transaction
and thereby resolves or rejects the `wait()` of its call.  On Tron nobody waits.
`Method`, `Puller` and `Spender` translate the cases of `evmSwap`; a request whose
`Spender` is not its `Puller` is not `Matched`, see section 4.  A call is `clashed`
(history) if it uses what it read of an allowance while another call of the same
asset does: the properties about allowances speak of the other calls.

### PagedQuery

One action per kind of loop, and `AddEntry` and `RemoveEntry` for what others do
between two queries.  The contract's answers are what its parameters say: a page
after a key, a page from an offset, a batch.  A page after a key is taken from the ids
above it in ascending order (`SortedOf`: at each place the id that has one less below it),
which is the order in which the contract keeps them.

### ZapConsumer

`GetPool`, `SingleSide`, `Calculate1`, `FindRoutes` (with Calculate 2 and 3 behind
its await) and `FindFinalRoutes` are `processZapInPositionLiquidity`;
`ReadPositions` and `BuildZapOut` are `processZapOutPositionLiquidity`.  The router
gives any amount up to what it promised, through the pool or not; a simulated swap
ends at any price.  Fractions are kept as numerator and denominator and rounded
where the code calls `Math.round`.  `status` is `zapInResult.status`, which several steps
write (`SingleSideStatus`, `InRangeStatus`); `poolPrice` is the price that `getPool`
returned, to compare it with.

### BarFeed

`Call` is `getBars` up to its await: answered from the shared object, or a request
to the price service.  What comes after the await is one step, as in the code:
`Receive` when the service answers with a list or not at all (`getTokenChartPrice` makes
an empty list of an error), `ReceiveNoBars` when it answers with `null` or an object, on
which `fillBarGaps` throws, and `ReceiveNothing` when it answers with an empty body.  The
`catch` at `TVDataProvider.ts:60` puts `initialHistoryBarsInfo` back, which is the same
object that every answer changes: the call is then answered from what the last answer
left there.  An empty body is a string; it is stored, has no `filter`, and ends in
`onErrorCallback`.  Other texts, which the service would have to send as JSON, are left
out.  A bar carries the pair and the period it belongs to.

## 3. Runs

| Run | Configuration | Distinct states | Result |
|---|---|---|---|
| `swap_journey` | `MC_SwapJourney.cfg` | 42,538 | passes |
| `tron_recipient` | `MC_TronRecipient.cfg` | - | violation of `EvmReceiverIsHex` |
| `state_store` | `MC_StateStore.cfg` | 1,807,069 | passes |
| `evm_swap` | `MC_EvmSwap.cfg` | 590,754 | passes |
| `router_allowance` | `MC_RouterAllowance.cfg` | - | violation of `RouterApprovedFirst` |
| `classic_swap` | `MC_RemoteSwap.cfg` | 1,582,575 | passes |
| `memo_recipient` | `MC_MemoRecipient.cfg` | - | violation of `RecipientIsPaid` |
| `paged_query` | `MC_PagedQuery.cfg` | 215,881 | passes |
| `zap_consumer` | `MC_ZapConsumer.cfg` | 5,707,537 | passes |
| `zap_status` | `MC_ZapStatus.cfg` | - | violation of `OutRangeAsDocumented` |
| `bar_feed` | `MC_BarFeed.cfg` | 1,200,585 | passes |
| `chart_reset` | `MC_ChartReset.cfg` | - | violation of `FreshAfterReset` |

**swap_journey** checks `TypeOK`, `OwnerSafe`, `NeverToNobody`, `RouteOrder`,
`EndToEnd`, `RecipientPaidLast` and the refinement `KeepsCustody`.  Bounds: one hub
chain (all are served by the same branch), one EVM chain of each kind (with a prefix, with base58 addresses, with no
prefix), all connected routes of up to three paths with a bridge, or a swap and
a bridge, per path; routes of up to two paths with every malformed list that
`validatePath` refuses; each address of the user missing in turn; an invalid
recipient; a slippage out of range; deposits from TON and from EVM chains; two
retries.  Three paths are enough for a memo inside a memo inside a message: the
builder looks at one path, its predecessor's chain and the result for the paths
behind it, so a fourth path adds no new combination.  Deadlock is not checked:
a swap that has settled or thrown is over.

**state_store** checks `TypeOK`, `OneDatabase`, `AnswersTrue`,
`FindsWhatIsKnown`, `CleansUp` and `RefusedOnlyForTheRow` for a store in memory
and for one in a file.  Bounds: two interchangeable clients, three calls of
`insertData` or `findStateByPacketSequence` in all, one restart, three rows, two
of them of one table and one of the table without a sequence.  Two clients are
enough for every race (each race is between two steps of two callers), and three
calls for an insert, a second one that meets what the first left, and a search.
The theorems below hold for any number.  Deadlock is not checked: the bound on
calls ends every run.


**evm_swap** checks `TypeOK`, `DepositCovered`, `UsdtNeverRefuses`,
`TellsTheTruth` and `NoStandingAllowance`.  Bounds: two calls, each with any of
sixteen requests over four assets (ETH, USDT, another token, a token on Tron),
amounts of one and two, every allowance from zero to two left by earlier calls, a
balance that is enough for one call only or for both.  Two calls are enough for
every race over one allowance; the theorems hold for any number.  Deadlock is not
checked: calls end.

**classic_swap** checks `TypeOK`, `RemoteTypeOK`, `AgreedOrBack`,
`ShortfallWithinSlippage`, `PaidToOwnAccount` and the liveness property `Settles`, for
`ClassicSwap` and `RemoteSwap` together.  Bounds: two calls from Oraichain, each with any
of ten requests, or one call with any of ten requests from another chain, with and
without a memo, from a cosmos chain, Noble or an EVM chain, with every post action; a
pool that gives two, four or five for one, a slippage of a fifth, affiliates that get a
tenth, a bridge fee of a tenth, a relayer's fee of one or two ORAI, worth as many wanted
tokens or three times that (more than all that is transferred); one change of the pool or of the channel, one change of
account, one unit of time until a timeout.  A rate of four is exactly the minimum for a
price of five, two is below every minimum.  A call from another chain runs alone
(`Alone`): it reads the wallet, the clock and the pool, which others change anyway, and
touches nothing that another call reads; the theorem below holds for any number.
`ShortfallWithinSlippage` leaves out KWT and MILKY (section 4).

**paged_query** checks `TypeOK`, `NoneMissed`, `NoDuplicates`,
`FailsOnlyWhenRemoved` and the liveness property `Returns`.  Bounds: up to four
entries, pages of two, three changes: a full page, a last page that is full and
one that is not, an empty page behind a full one, and a change in each gap.

**zap_consumer** checks `TypeOK`, `SpendsWhatIsGiven`, `StatusTellsRange`,
`SplitUnlessMoved` and `ZapsOutItsOwn`.  Bounds: an amount of ten, four pairs of
prices, four ticks with the range in the middle, a router that gives up to two
less than promised; two positions, two zaps out, and one new position.  The
amounts are small so that rounding matters in nearly every step.

**bar_feed** checks `TypeOK`, `OwnSeries`, `NoGaps`, `AllThatIsWanted` and the
liveness property `Answered`.  Bounds: two pairs and two periods, three units of
time with a candle without trades, a range of all and a range of its end, three calls,
so that a late answer can meet an answer for another series and a call that is answered
from what both left, or from it because its own answer was no list.


## 4. What the code does not do

**A recipient on Tron keeps its base58 form** (`tron_recipient`).
`handler.ts:501` says that Tron addresses have to be converted "to hex if its
tron because the contracts are using the hex form as parameters", and the user's
own address is converted.  The recipient's address is not: it is passed on in
base58, `isEthAddress` does not recognise it, and the ibc-wasm transfer to
OraiBridge names it as `remote_address` without a denom prefix.

**The router is called without an allowance** (`router_allowance`).
`handler.ts:421`: "approve uniswap router first before swapping because it will use
transfer from to swap fromToken".  The spender becomes the router only for a swap
to the native coin (`handler.ts:422`).  A swap of a token for a token on the same
chain has an empty destination and calls `routerV2.swapExactTokensForTokens`
(`handler.ts:450`) too: the transaction reverts, and gravity keeps an allowance.
`DepositCovered` and `NoStandingAllowance` speak of the `Matched` requests.

**A recipient on Oraichain is not paid** (`memo_recipient`).  `types.ts:65`:
"recipient address from client, if user want to send to another address".  For a
destination on Oraichain the memo's post action transfers to `basic.recoveryAddr`
(`helper.ts:583`), which is the user's own address; `destReceiver`, the validated
recipient, is used for the other two post actions only.  `AgreedOrBack` shows that
the tokens are not lost: they are paid to the user.

**A reset of the chart resets nothing** (`chart_reset`).
`TVChartContainer.tsx:63`: the library "only fetches the historical data once so if
the tab is inactive or system is in sleep mode for a long time, the historical data
will be outdated".  `resetCache` sets `shouldRefetchBars` and clears it before it
returns (`useTVDatafeed.ts:51-53`), `resetData` comes after it, and `getBars` answers
from the old bars.

**A pool that a zap brings into the range is reported as good** (`zap_status`).
`types.ts:285` has a status for it, `OutRangeHasRouteThroughSelfMayBecomeInRange`:
"This zap operation has swap through this pool and the position is out of range but the
next tick is in range so the accuracy is low".  `zap-consumer.ts:342` keeps it, and line
426 overwrites it with `InRangeNoRouteThroughSelf` ("no swap through this pool and the
position is in range so the accuracy is good"), or lines 434 and 439 with one of the
others: no caller ever sees it.  `StatusTellsRange` says what holds otherwise
(`BroughtIn`), and in this case too that the status tells where the price ends.

**What the properties of the swaps leave out.**  `types.ts:60` calls `simulateAmount`
"the minimum receive", while the minimum of the swap is below it by the slippage,
and the transfer takes `simulateAmount`: the difference is taken from the user's own
balance, or the whole transaction fails.  `ShortfallWithinSlippage` says that it is
never more than the slippage.  For KWT and MILKY the transfer takes the number of
tokens that are swapped from, whatever the swap gives (`handler.ts:340`).  The
affiliates' share is taken off the transfer on native channels only.
`checkBalanceChannelIbc` compares with an amount that is converted at the price a
second time.  Only `swapAndTransferToOtherNetworks` compares the sender with the
wallet; `swapCosmosToOtherNetwork` asks for the address on Oraichain without it
(`handler.ts:752`), so that another account of the wallet may be paid:
`AgreedOrBack` counts all accounts of the wallet as the user's.  Without `isIbcWasm`
there is no memo and nothing is swapped: the tokens rest on Oraichain.  `signAndBroadcast` resolves also when the transaction failed.  With picking
another account and the first one again, both in one call, `PaidToOwnAccount` would
not hold: the address is asked for while the other one is picked.  The deadline of a
router swap is in milliseconds where the router counts seconds (`handler.ts:448`),
and gravity's `bridgeFromETH` names no recipient.

**What the properties of the queries leave out.**  `getPositions` and
`getPositionTicks` read by offset, which misses entries after a removal.
`tokens(owner)` passes its loop variable as the id to start after and counts the
tokens of all owners: it is complete only while ids have no holes, and returns
tokens twice.  `allTokens` asks for ever when a token is burned meanwhile, which
`Returns` exempts.  `liquidityTicks` empties the caller's array.

**What the properties of the zaps leave out.**  When a swap goes through the pool
itself, Calculate 2 has already replaced the split, and Calculate 3 adds the
correction computed from the routes of the old one (`zap-consumer.ts:464-499`): of an
amount of 10 the parts can become 11 and -1.  `SplitUnlessMoved` says that nothing of
the kind happens otherwise.  The router refuses an amount below zero, and then the zap
throws; but where the token is one of the pool's, its own part is kept without asking
the router, and a message that swaps 14 of 10 is returned.  `SpendsWhatIsGiven` leaves out
these: a token of the pool with the status `InRangeHasRouteThroughSelf`.  At `current == upperTick` the single
side buys X though only Y can be deposited (`<=` at `zap-consumer.ts:321`, `<` at
`:235`).  `InRangeNoRouteThroughSelf` is decided by the first routes, the message
uses the last.  A fractional percentage of `zapFee` throws (`BigInt`), and so does
a position that is not found.  A zap out whose list is stale removes another
position (`overtaken`, history).

**What the properties of the feed leave out.**  A range that is longer than what is
cached is answered from the cache: `AllThatIsWanted` speaks of fetched answers.  An
error of the service becomes an empty list, and `onErrorCallback` is not called.  A
service that answers with what is no list makes the code answer from the bars of any pair
and period (`ReceiveNoBars`): `OwnSeries` then says only that they are of one series.

**One transfer names no recovery address.**  The entry point contract of
Oraichain, called by a hook, swaps and then bridges over ibc-wasm: the other
three post actions name a recovery address, this one does not
(`oraichain.ts:345`).  What fails there stays with the contract as far as the
SDK can tell.  `OwnerSafe` and `KeepsCustody` exempt exactly the routes that
contain such a path (`Unrecovered`); no document of the repository says
otherwise, so it is listed as a hazard and not as a finding.

**What the properties of the store leave out.**  The comment at `db.ts:161` says that
the temporary file "will be deleted after insertion"; an `INSERT` that throws skips the
`unlink`.  `CleansUp` allows these files (`failed`), and `RefusedOnlyForTheRow` shows that
they do no harm to the next insert.  Overlapping inserts into one
table share one file and may be answered wrongly, and two overlapping calls of
`create` with `":memory:"` open two databases.  The properties say what holds for
all other calls; `clashed` and `raced` mark these.


## 5. Fairness and liveness

`SwapJourney` states no liveness: whether what was broadcast comes to rest is up to the
chains and the middleware alone, whatever memo the SDK has built.  `ClassicSwap` assumes
that time passes and that somebody relays a timeout, once it is there; nobody has to
relay a packet, sign or execute.
`RemoteSwap` adds the same for transfers to Oraichain, and that the gravity bridge,
whose deposits carry no timeout, delivers, and that what the contract sent on arrives
or returns: both are what the SDK relies on.
`PagedQuery` assumes that a query that has begun is answered, however the list
changes; nobody has to change it.  `BarFeed` assumes that a request ends: axios
gives up after `AXIOS_TIMEOUT` and three retries (`requests.ts:6-18`), and
`getTokenChartPrice` makes an answer of that.  `EvmSwap` and `ZapConsumer` state no
liveness: users need not sign, and transactions may wait.  `StateStore` states no liveness: DuckDB and the file system
may take as long as they like.


## 6. Proofs

All theorems hold for every value of the constants under the named assumptions
`ChainsAssumption` (kinds of chains are disjoint), `RequestsAssumption` (routes
are connected and the address book lists the user's addresses),
`RetriesAssumption`; for the store `RowsAssumption`, `BoundsAssumption` and
`NamesAssumption`; `EvmAssumption`, `ClassicAssumption`, `RemoteAssumption`,
`ZapAssumption`, `PagesAssumption` and `FeedAssumption` for the modules of these names.  TLC evaluates them
in the runs.  They say what kind of value a constant has; three say more.
`RequestsAssumption` is about the routes of the service; `FeedAssumption` lets the clock
run from 1 to at least 1; `ZapAssumption` has room for one more position than there are at
the start.

| Theorem | Property | Argument |
|---|---|---|
| `TypeCorrect` | `TypeOK` of `SwapJourney` | with `Asked`; the first lemmas of `SwapJourney_proofs` give the type of every builder's result where its `Can...` holds |
| `OwnerAlwaysSafe` | `OwnerSafe` | `RouteInv`, below |
| `NeverSentToNobody` | `NeverToNobody` | `RouteInv` |
| `RouteAlwaysInOrder` | `RouteOrder` | `RouteInv` |
| `SwapsEndToEnd` | `EndToEnd` | `RouteInv` |
| `RecipientAlwaysPaidLast` | `RecipientPaidLast` | `RouteInv` |
| `JourneyKeepsCustody` | `KeepsCustody`, the refinement of `FundsCustody` | `RouteInv`; every step of `SwapJourney` is one of `FundsCustody` or a stutter |
| `StoreTypeCorrect` | `TypeOK` of `StateStore` | `TypeInv`: a file holds rows of `Rows` only, a method that runs has a handle |
| `InsertTellsTheTruth` | `AnswersTrue` | `InsertInv`, below |
| `RefusedForGoodReason` | `RefusedOnlyForTheRow` | `InsertInv` |
| `OneDatabaseForAll` | `OneDatabase` | `Shared`: a database in memory is opened by one client only, and only while there is none |
| `SearchMissesNothing` | `FindsWhatIsKnown` | `SearchInv`, below |
| `LeavesNoFile` | `CleansUp` | inductive with the types |
| `Types` | `TypeOK` of `EvmSwap` | inductive; an included deposit is covered by balance and allowance |
| `DepositsAreCovered` | `DepositCovered` | `IInv`, below |
| `UsdtIsNeverRefused` | `UsdtNeverRefuses` | `IInv` |
| `CallsTellTheTruth` | `TellsTheTruth` | `IInv` |
| `NothingIsLeftStanding` | `NoStandingAllowance` | `LedgerInv`, below |
| `ClassicTypes` | `TypeOK` of `ClassicSwap` | `TxInv`: what is signed is what was made for the request, at the price that was shown |
| `TransfersPayTheSender` | `PaidToOwnAccount` | `PayInv`, below; if another account is picked at most once |
| `LossesWithinSlippage` | `ShortfallWithinSlippage` | `ShortfallInv`, below |
| `TransfersTimeOutSoon` | - | `WaitInv`, below |
| `RemoteKeepsClassic` | - | every step of `RemoteSwap` is one of `ClassicSwap` or leaves its variables alone |
| `RemoteTypes` | `TypeOK` and `RemoteTypeOK` | inductive with `TxInv` |
| `RemoteTransfersPayTheSender` | `PaidToOwnAccount` | `PayInv`, by `RemoteKeepsClassic` |
| `RemoteLossesWithinSlippage` | `ShortfallWithinSlippage` | `ShortfallInv`, by `RemoteKeepsClassic` |
| `AgreedOrAllBack` | `AgreedOrBack` | `PlaceInv` and `AgreedInv`, below |
| `RemoteTransfersTimeOutSoon` | - | `RemoteWaitInv`, below |
| `ZapTypes` | `TypeOK` of `ZapConsumer` | `SplitInv` and `PlaceInv` |
| `SpendsAll` | `SpendsWhatIsGiven` | `SplitInv`, below |
| `StatusIsTrue` | `StatusTellsRange` | `SplitInv` |
| `SplitsBetweenNothingAndAll` | `SplitUnlessMoved` | `SplitInv` |
| `ZapOutsAreRight` | `ZapsOutItsOwn` | `PlaceInv`: until another position goes, the place that was read is the position's; appending keeps places |
| `LibraryGetsItsSeries` | `OwnSeries` | `SeriesInv`: the shared object holds one series, whatever the last answer was, and an answer fills and reads it in one step |
| `FeedTypes` | `TypeOK` of `BarFeed` | `FeedInv`, below |
| `ChartHasNoGaps` | `NoGaps` | `FeedInv` |
| `FetchedIsComplete` | `AllThatIsWanted` | `FeedInv` |
| `CallsAreNotForgotten` | - | `CallInv`, below |
| `CallsAreAnsweredOnce` | - | `CallInv` |
| `PageTypes` | `TypeOK` of `PagedQuery` | `IInv`: no more is counted than there is, as a list has no entry twice |
| `NothingMissed` | `NoneMissed` | `IInv`, below |
| `NothingTwice` | `NoDuplicates` | `IInv`, below |
| `ThrowsOnlyAfterRemoval` | `FailsOnlyWhenRemoved` | `ChunkInv`: while nothing is removed, what has not been asked about is there |
| `EveryCallGetsOn` | - | `IInv`; `MoreTokens` |
| `LoopsAreBounded` | - | `IInv` |

**RouteInv.**  The properties of `SwapJourney` speak of where the tokens are now and of
what has been done; what keeps them true is hidden in memos that will be read several
chains later.  `RouteInv` says of every memo that its instructions perform the last paths
of the route, one each (`RouteMemo`), and of every transfer that is built, signed or in
flight, nested or not, that it leads to the reader of the instruction behind it, or to the
final receiver if there is none (`Leads`), and is given back to an owner when it fails
(`GivesBack`).  What has been done, with what the message at hand performs, reaches to the
end of the path before the memo (`Reached`): so that at rest either the whole route is
done and the final receiver has the tokens, or there was trouble and an owner has them
(`Rested`).  For the builder's loop, which goes from the last path to the first, `Awaits`
says that the memo built so far is one for the receiver that the next message will name.
That owners have the tokens could be kept without the order of the actions; the order needs
all of it, because each chain sees its own instruction only.

**InsertInv.**  An insert that no other into its table overlaps has the temporary
file for itself (`Own`): empty while it writes, its own row while it loads.  This
needs `Marked` (overlapping inserts are marked) because the file is shared, and
`Pending` (an answer is given only at the end).

**SearchInv.**  What is known is in the one database (`Findable`, `Shared`), and a
search that has asked the first tables has asked them in vain (`Searching`): rows
are never taken out (`Growth`), so what was there when it began is there when its
table's turn comes.  `Rewound` says that every loop starts at the first table.

**IInv of EvmSwap.**  What a call knows of its allowance has to be true when it is
used, several transactions later.  `CoverInv` says that it is, for a call that no
other overlaps: `current` is the allowance, it is zero between the two approvals of
USDT, and enough once the deposit is signed.  It is inductive because another call
of the same asset is marked as soon as it reads (`ClashInv`), and because a pending
transaction is the one its call waits for (`PendInv`), so that an inclusion moves
the right call.  `TruthInv` relates the outcome on the chain with the end of the
call.

**LedgerInv of EvmSwap.**  Calls that overlap spoil each other's allowances, and still
nothing is left when all succeed.  The ledger says that an allowance is never more than
what was there at the start and what the calls that have yet to spend of it have raised.
The sum over those calls is not a recursive operator but a certificate: a list of calls,
none twice, with its running totals (`Backed`, `RunsTo`); a step takes one call off the
list or puts one on it.

**PayInv.**  `SwitchedAway` says that the account is another one for good.  After
`CheckSender` the account is the sender's or `SwitchedAway`; what is built names the
sender or the recipient or else `SwitchedAway`, and then the wallet does not sign.

**ShortfallInv.**  The transfer takes what was simulated, so a swap that returns less is
made up from the user's own balance.  `ShortfallInv` says that the balance and what is
tolerated of each executed call are together no less than the balance at the start.  It
is inductive because a call is executed once (`executed` has calls that are done only) and
because of `TxInv`: what is signed is what was made, at a price that does not change after
it was shown.  What is left is one execution in numbers: `ReturnsEnough` bounds what the
routes of a call return by their minimums, each rounded down, and `WithinSlippage` sets
against it what the transfer takes and what the affiliates get, whether the pool returned
more than was shown or less.

**PlaceInv and AgreedInv.**  `PlaceInv` says that no two of the transfers to
Oraichain, the transfers from it and the tokens at rest are of one call, and that a
call has one exactly if it was sent.  `AgreedInv` says of every memo, wherever it is,
that its minimum is no less than what was agreed, up to one token that is rounded off,
and that it names an account of the wallet for recovery.  It is inductive because a price
that was shown does not change (`Unchanging`): `CallsInv` needs that no memo is made
before the price is shown, `SentInv` that none is changed afterwards.  The fee against
which a memo is measured is the one it was made with (`Agreed`): whoever converts it anew
makes a new memo with it, and nobody does once the transfer is signed.

**SplitInv.**  At every await of a zap in, the two parts make up the amount, the price is
one that the pool can have, and a pool that was in the range starts from its own price
(`InPrices`): so that the status, which is computed from the start, tells where the pool's
price is (`GoodStatus`).  The router gives a route only for what is not below zero
(`RouteTypes`, `QuotientBelowZero`), which is why no message swaps more than was given
(`GoodParts`).  As long as no swap goes through the pool, the first part is a fraction of the amount
rounded to the nearest (`RoundBetween`), and the corrections keep it between nothing and
the amount (`FirstSplit`, `RebalanceBounds`).

**FeedInv.**  All bars are on the grid of their period and of one series (`OnGrid`); the
bars in the shared object, and those of an answer, are `Steady`: between any two of them
every candle is there.  Filling the holes of a history makes it so (`FilledBars`,
`FilledSteady`) and taking the latest `countBack` keeps it (`SelectedSteady`);
`SelectedWanted` is the reason why nothing that was wanted is left out, and rests on
`LatestCount`: that the latest n bars are n.

**IInv of PagedQuery.**  What a loop has to know between two calls depends on how it
reads, and the list changes under it.  By offset (`OffsetInv`), nothing behind the place
reached so far has been returned: a removal moves entries forward only, so what is still
to come is new; and while nothing is removed, everything before that place has been
returned.  By key (`KeyInv`), the result ascends and no old entry up to the last key has
been passed over.  `tokens` starts its pages after the loop variable, so a page has all
ids of the owner among the next n ones, as these are no more than n (`OwnerInv`); that the
loop goes far enough is where dense ids are needed.  `allTokens` stops when it has as many
ids as there were at the start, new ones included: `PoolInv` says that the old ids, those
already burned too, are no more than that, so if one were missing, all that is collected
would be old and below it, and too few.  Chunks and what is left of the list are together
the list that was read (`ChunkInv`).  The lemmas on pages rest on `SortedFacts`: the place
of an id in the sorted list is one more than the number of ids below it.

**Induction over data.**  The provers cannot instantiate the induction theorems of the
library, which take an operator.  Three proofs need one all the same (the latest n bars, a
list of calls with its totals, sums), and take the smallest counterexample instead: a
non-empty set of numbers has a least element (`WFMin`, which takes a set), at which both
the step and the failure hold.  For sums, `ClassicSwap_proofs` shows in this way that the
fold of the library exists (`FoldExists`), that it is one over the subsets too
(`SumIsFold`), that it does not matter which element is taken first (`SumWithout`), and
that a linear bound on each term is one on the sums (`SumLinear`).

**What liveness rests on.**  That something happens in the end needs fairness, and is left
to TLC; that nothing stands in its way, or goes on for ever, is safety and proved.

- `Settles` of `RemoteSwap`: `RemoteTransfersTimeOutSoon`.  `WaitInv` says that no handler
  was made in the future and that what is about to be signed has a deadline at most
  `IBC_TRANSFER_TIMEOUT` ahead; `RemoteWaitInv` says it of what a cosmos chain is asked to
  transfer too.  The deadlines are also no later than the bounded clock gets, so that it is
  not the bound that lets a transfer wait.
- `Returns`: `EveryCallGetsOn` and `LoopsAreBounded`.  That a page of `allTokens` is not
  empty while too few are collected (`MoreTokens`) needs that no token is burned: `CountInv`
  says that then as many old ids are still there as were counted.  Once one is burned the
  loop may ask in vain until enough ids are minted, which is why `Returns` and `GetsOn`
  except this case.
- `Answered`: `CallsAreNotForgotten` and `CallsAreAnsweredOnce`.  `CallInv` says that every number given to a call is
  that of one request under way or of one answer, and not of both.

**Model-checked only.**  `Settles`, `Returns` and `Answered` are liveness under
fairness and out of the prover's reach, as is anything that needs `ENABLED`.  Every other
property of a passing run is a theorem.  The properties of the runs that expect a
violation are false.  No module uses RECURSIVE operators.


## 7. Not modelled

- `DuckDbWasm`: its `insertData` does nothing, its `findStateByPacketSequence`
  throws "Not implemented", and its `queryInitialEvmStateByNonce` asks by hash
  (`db.ts:218`), so the class as a whole cannot store or find anything.
- The single-table queries of `DuckDbNode`: they read and change nothing.
- Events and state machine of `ibc-routing`: the calls that would store an event
  are commented out.
- Several routes in one request: each is a journey of its own; they share only
  the signature.
- `transferAndSwapTon`, which is reached with the alpha router only: it hands
  everything to the TON wallet and bridge.  `checkBalanceIBCOraichain` is one of the
  reasons of `GiveUp`: what it compares is not modelled.
- What a smart router answers: `handleSimulateSwap`, `flattenSmartRouters` and the
  simulations are functions of remote answers.  Their result is an input.
- `fetchRetry`, one loop over one abort signal; `OraidexCommon.load`, of which two
  overlapping calls make two equal objects; `BigDecimal`, whose results the models
  take for exact; `shiftDecimal`, and with it tokens whose decimals differ.
- Statistics of the V3 client (volumes, fees, price impact): arithmetic over one
  answer, without state.
- `streaming.ts` and `getLiveBar`: reached from nowhere.  `SaveLoadAdapter`: a list in
  the browser's storage.
- Generated code and data: contract clients (8,483 lines), typechain (15,215),
  WebAssembly bindings (1,612), protobuf (1,136), token lists, demos.  These are about
  two thirds of the 38,601 lines of implementation and hold nothing to model, which
  bounds the share of all lines that a model can cover.


## 8. Plan

The order is that of importance: first what moves users' tokens, then shared
state, then the clients that only read.

1. `SwapMemo`, `SwapJourney`, `FundsCustody`: done, with a theorem for each safety
   property and for the refinement.
2. `StateStore`: done, with a theorem for each of its properties.
3. `EvmSwap`: done, with a theorem for each safety property that holds.
4. `ClassicSwap` and `RemoteSwap`: done, with a theorem for each safety property that
   holds.
5. `ZapConsumer`: done, with a theorem for each of its properties.
6. `PagedQuery`: done, with a theorem for each safety property.
7. `BarFeed`: done, with a theorem for each safety property that holds.
8. Theorems that are left: none on safety.  `Settles`, `Returns` and `Answered` need a
   prover with `ENABLED`; what they rest on besides fairness is proved (section 6).
