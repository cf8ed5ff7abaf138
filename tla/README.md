# TLA+ models of the Nolus money market

TLA+ modules of the lease protocol in `src/`, with the TLC configurations
that check them. The modules model the code's control flow: its guards,
early returns, error paths and their order. Data is abstracted to what the
properties need. `PROJECT.json` maps every definition that models code to
the lines it translates. It also lists the runs, the mutants that show each
property can fail, the findings and the hazards.

## 1. The system and its parts

Execution model (CosmWasm): every entry point runs as one atomic
transaction. Submessages run in order after the handler, and each reply
comes right after its submessage. A failed submessage rolls back its own
writes, and the caller sees the failure in its reply. Nothing blocks: a lease
sends an instruction and is resumed later by a separate invocation. That
invocation is a response, a timeout or an alarm.

| Part | Source | State | Operations | Interacts with |
|---|---|---|---|---|
| Time-alarms service | `contracts/timealarms/src/alarms.rs`, `packages/time-oracle/src/alarms.rs` | `IndexedMap` subscriber → seconds, indexed by (time, address); deque `ALARMS_IN_DELIVERY` | `try_add`, `remove`, `try_notify(ctime, max_count)`, `out_for_delivery`, `last_delivered`, `last_failed`, `try_any_alarm` (query) | every lease state that waits on time; profit; dispatcher |
| dex framework | `packages/dex/src/{entry_delay,swap_exact_in,resp_delivery/mod,coin_index}.rs` | the persisted state of the current step | `EntryDelay::enter / on_time_alarm`, `SwapExactIn::enter_state / on_response / on_timeout`, `ResponseDelivery::enter / on_inner / reply / on_time_alarm`, `visit_at_index` | time-alarms; the remote venue through the ICA; the lease |
| Loan (accrual engine) | `contracts/lease/src/loan/{mod,liability}.rs` | `current_period` (InterestPeriod), margin rate, due period | `open`, `repay`, `state` / `merge_state_with`, `open_next_period` | the pool (`loan`, `loan_outstanding_interest`, `repay_loan_req`) |
| Lease states | `contracts/lease/src/contract/state/{paid/mod,paid/transfer_in_init,closed}.rs` | the lease's state enum | per-state `execute` allow-lists, `on_response`, `on_timeout`, `on_time_alarm`, `on_price_alarm` | dex framework, Loan |
| Finance values | `packages/finance/src/{duration,fractionable/percent,price/dto/mod}.rs` | none | arithmetic and conversions | everything |
| Platform ICA and remote bank | `packages/platform/src/{ica,bank_ibc/remote}.rs` | none | message building and parsing of responses | dex framework |
| Versioning | `packages/versioning/src/release.rs` | none | migration guard | every contract's migrate |
| Leaser migration | `contracts/leaser/src/migrate.rs` | none (a batch) | `migrate_leases`, `migrate_or_be_next` | leases |
| Pool lender | `contracts/lpp/src/contract/lender.rs` | pool balance, nTokens | `try_deposit`, `try_withdraw` | lenders |
| Profit idle | `contracts/profit/src/state/idle.rs` | cadence | `on_time_alarm`, `try_enter_buy_back`, `enter` | time-alarms, dex |

Hard behaviours:
- An alarm that fails is put back one second in the past.
- A dispatch takes at most `max_count` alarms.
- A subscriber holds one alarm, and a new one overwrites the old.
- Timestamps are truncated to seconds when an alarm is saved.
- A response that fails to deliver is retried through alarms.
- A timed-out swap repairs its channel and is retried, with no bound on retries.
- A repayment is split between margin and pool interest, with a period rollover between the two.

### A note on source versions

`src/` mixes versions of the code:
- `contracts/timealarms/src/alarms.rs::try_notify` only selects alarms and sends them.
- The store in `packages/time-oracle` has `out_for_delivery`, `last_delivered` and `last_failed`. The contract's reply entry point that calls them is not under `src/`.
- The model follows the store: a dispatch moves every taken alarm out for delivery, and each reply pops the queue's head.
- `liability.rs` uses `previous_*` and `current_*` fields of a later `Loan`, which do not exist in `loan/mod.rs`. It is not modelled.

Code not under `src/` is modelled from `spec.md` and marked `spec_modelled` in the map:
- `InterestPeriod`
- the pool's loan
- `on_timeout_repair_channel`

## 2. Modules

| Module | Models | Composes |
|---|---|---|
| `AlarmService` | what the time-alarms service promises: one wanted time per subscriber, set, cancelled, woken only when due | |
| `TimeAlarms` | the time-alarms service, checked as `ResponseDelivery`'s instance | refines `AlarmService` |
| `ResponseDelivery` | one lease through EntryDelay → SwapExactIn → ResponseDelivery → TransferInInit, with other subscribers | `INSTANCE TimeAlarms` |
| `Loan` | `Loan::open`, `repay`, `state` against a pool loan | |
| `LeaseAbstract` | the spec's life-cycle of a lease being closed: Active → ClosingTransferIn → Closed | |
| `LeaseClosing` | a paid lease: Active → TransferInInit → TransferInFinish → Closed | refines `LeaseAbstract` |
| `SwapExactIn` | the swap of a task's coins, coin by coin: `enter_state`, `decode_response`, the two state-enum variants | |
| `RemoteTransfer` | the lease's interchain account (`register_account`, `parse_register_response`, `HostAccount`) and the ICS-20 transfer back to the lease (`Sender::send`, `new_msg`, `submit_transaction`) | |
| `DexFlow` | the swap through the account, its out_local `on_response` entering TransferInInit, which submits the transfer in the same handler | `INSTANCE SwapExactIn`, `INSTANCE RemoteTransfer` |
| `CoinIndex` | `visit_at_index` and `CoinsIndexVisitor` | |
| `MC_DexFlow` | `DexFlow` beside `CoinIndex` over the same task, interleaved | `INSTANCE CoinIndex` |
| `LeaserMigrate` | one `migrate_leases` call, customer by customer and lease by lease | |
| `Versioning` | the migration guards of `release.rs` over any sequence of releases | |
| `MC_ContractUpgrade` | `Versioning` and `LeaserMigrate` side by side (no shared state) | `INSTANCE` of both |
| `PoolLender` | `try_deposit`, `try_withdraw` and the queries of the pool's lender side, with loans opened, repaid and accruing | |
| `FinanceValues` | `Sub for Duration` and `PartialOrd for PriceDTO`, beside the definitions they should implement | |
| `ProfitIdle` | the Idle state of the profit contract, its cadence alarm a boolean | |
| `ProfitAlarms` | the Idle state as a subscriber of the alarm store, beside another subscriber | `INSTANCE TimeAlarms`, `INSTANCE ProfitIdle` (its actions) |
| `MC_*` | model values for TLC | |

### TimeAlarms

Variables:
- `now`: block time in Units, with `UnitsPerSecond` of them per second. This models the truncation done by `as_seconds`.
- `alarms`: the index.
- `inDelivery`: the deque.
- `asked`, `owed`: history variables. They record the time a subscriber asked for, and who is still owed a delivery.

Actions:
- `AddAlarm`: `try_add`. It rejects a time before now and overwrites any existing alarm.
- `RemoveAlarm`: `remove`.
- `Notify`: `try_notify`. It builds the selection `Due`: the alarms strictly before the current second, in (time, address) order. It takes `MaxCount` of them and moves them out for delivery.
- `DeliverOk(t)`: the head subscriber handles its alarm, possibly asking for a new one, and `last_delivered` pops it.
- `DeliverFail`: `last_failed` pops the head and re-adds it at `as_seconds(now) - 1`.
- `Tick`: a new block.

A dispatch is one transaction, so no other step starts while the queue is non-empty (`Idle`).

The store's helpers are operators: `AddInternal` (the index insert, in whole seconds), `Add`, `RemoveIndexed`, `LastFailed`, and `AnyAlarm`, the `try_any_alarm` query. `TimeAlarms` has no run of its own: its safety properties are checked on the instance inside `ResponseDelivery`, where a lease whose deliveries fail for good shares the service with two other subscribers.

### AlarmService and the refinement

`AlarmService` is the service as its subscribers see it, with no index, no seconds and no queue:
- `now`, `wanted` (a subscriber's wake-up time or none), `woken` (the subscribers of the dispatch in progress);
- `Set`, `Cancel` between dispatches; `Wake(S)` wakes a non-empty set of subscribers that are all due; `Handled(s, t)` sets the next wanted time (or none); `Failed(s)` leaves the wanted time as it was; `Tick`.

The mapping (`TimeAlarms`): a subscriber wants `asked[s]` while it is `owed`, and `woken` is the set of subscribers in `inDelivery`. Making the wake-up visible matters: without `woken`, a successful delivery could be matched by `Set` or `Cancel` and the check would say nothing. `ImplementsAlarmService` is checked as a `PROPERTY` in `response_delivery`.

### ResponseDelivery

Stage variables:
- `stage`: the lease's dex state.
- `trx`: the swap transaction on the remote venue.
- `response`: the payload held by the ResponseDelivery.

Actions:
- `EntryDelayOnTimeAlarm`: the alarm set by `EntryDelay::enter` fires. The inner swap is entered, or the failure escapes to `last_failed`.
- `OnSwapResponse(p, ok)`: one transaction covering:
  - `ResponseDelivery::enter`
  - the self-call `on_inner`, which runs `Delivery::deliver`, i.e. `SwapExactIn::on_response`
  - on failure, the error `reply` and its `setup_next_delivery`, which adds an alarm 1ns after now, in the current second.
- `OnSwapTimeout` / `OnChannelRepaired`: `on_timeout` → channel repair, then the step is submitted again.
- `OnTimeAlarm(ok)`: `ResponseDelivery::on_time_alarm`. Its error escapes to the service's `last_failed`.

A payload is `Good` or `Malformed`. A malformed one never decodes. A good one may still fail transiently while the next state is entered.

### Loan

Variables:
- `period`: `current_period`, as `[start, length]`.
- `pool`: the pool's loan, as `[principal, paidTo]`. A principal of 0 means the pool has closed the loan.

`Repayment(payment)` is `Loan::repay` line by line:
1. The first `repay_margin_interest`.
2. The early return on zero change.
3. `load_loan_interest_due` as of the moved period start.
4. The rollover guard `loan_interest_due <= change && zero_length()`.
5. `open_next_period`.
6. The second margin payment.
7. `loan_interest_due + change`.

`Repay` applies the request to the pool in the same transaction, because it is a submessage. `Debt` is `state(now)`, which is `merge_state_with`. Interest is `Duration::annualized_slice_of` of `principal * rate`, i.e. `principal * rate * elapsed / YearLen` truncated; the part of a period paid for by a partial payment is `Duration::into_slice_per_ratio`, `elapsed * repayment / due` truncated (`AnnualizedSliceOf`, `IntoSlicePerRatio`).

### LeaseClosing and LeaseAbstract

Variables:
- `state`: the lease's state.
- `alarm`: whether the lease has an alarm pending. The time-alarms service is represented by the guarantees checked on `TimeAlarms` in the `response_delivery` run: one alarm per subscriber, never lost, eventually dispatched. `Init` lets an alarm of an earlier state be pending.
- `ica`: the transfer-in transaction (`None`, `Sent`, `Executed`, `Repairing`).
- `remote`, `inTransit`, `local`, `customer`: where the collateral is.
- `sendable`: whether the collateral's currency has a denomination on the dex. It is chosen in `Init` and held. Without it, `sender.send` in `TransferInInit::enter_state` fails.

Actions:
- `Execute(cmd)`: the `execute` of the current state. Active accepts `Close` and enters TransferInInit, whose `enter_state` sends the transfer. `Repay`, a `Close` in any other state, and a `Close` whose `enter_state` fails are errors that change nothing. The lease then stays Active. A price alarm is ignored.
- `RemoteExecute`, `TransferArrives`: the host executes the transaction, and the ICS-20 transfer it starts reaches the lease before or after the response.
- `OnTimeout`, `ChannelRepaired`: a timeout repairs the channel and the transaction is sent again.
- `OnResponse`: `TransferInInit::on_response`, i.e. `TransferInFinish::try_complete`. It reaches Closed if the collateral is there, and otherwise sets an alarm to poll again.
- `OnTimeAlarm`: ignored in Active, TransferInInit and Closed; TransferInFinish polls again.

`TransferInFinish` and the channel repair are not under `src/`; they are modelled from the spec. The spec only says that the closing moves to Closed "on completion". That `try_complete` sets up a time alarm to poll again while the collateral has not arrived is an assumption of this model, not something the spec states. The liveness part of `ImplementsLifeCycle` rests on it.

The refinement mapping sends TransferInInit and TransferInFinish to the spec's `ClosingTransferIn`, and `returned` to what the customer received. `LeaseAbstract!Spec`, with weak fairness on completing the closing, is checked as a `PROPERTY`.

### SwapExactIn

Variables: `variant` (OutLocal or OutRemote), `n` coins, `stage`, `batch` (the swap messages, as coin positions), `trx`, `reply` (whether it decodes, and its results), `produced` (history: what each swap yielded), `amountOut`, `outcome`, `timeouts`.

- `SwapsFrom(i, failing)` is `enter_state`'s visit as a `RECURSIVE` operator: one swap per coin, and any coin that cannot be swapped fails the whole visit.
- `DecodeFrom(results, i)` is `decode_response`: the coins are visited again, and each takes the next result, which must be there and be a swap's; the amounts are added up.
- Actions: `Enter(failing)`, `RemoteExecute` (a response of one result per message, or a malformed one), `OnResponse(enterOk)` (out_local's TransferInInit enter may fail), `OnTimeout`, `ChannelRepaired`, `Done`.
- A failed handler leaves the state as it was (`outcome = "Err"`).

### RemoteTransfer and DexFlow

`RemoteTransfer` variables: `account` (`None`, `Pending` or the host address), `task` (the coins to transfer), `submitted` (the transactions sent through the account), `outcome`.
- `Register`: `register_account`.
- `OpenAck(resp)`: the open ack is parsed (`parse_register_response`). A malformed ack or an empty address (`TryFrom<String> for HostAccount`) fails the handler, and the lease keeps waiting.
- `TransferIn`: one `MsgTransfer` per coin, from the host account to the lease (`new_msg`), submitted as one transaction. A coin with no dex denomination fails the sends and the handler.

`DexFlow` shares `outcome` between the two instances and adds the interaction:
- `OpenAccount`: the account is opened while the swap waits.
- `Enter(failing)`: the swap is entered only through an opened account.
- `OnResponseLocal`: out_local `on_response` with a decoding response. It is `RemoteTransfer!TransferIn` and `SwapExactIn!OnResponse` with TransferInInit's enter succeeding exactly when the transfer's messages can be built. One conjunction is one handler: if the enter fails, neither the swap's move nor the transfer happens.
- `OnResponseOther`: out_remote finishes, or the response does not decode; the account is untouched.

The dex's `TransferInInit` is not under `src/`. Its enter sends the one coin of the swap's output, as the lease's own `TransferInInit::enter_state` sends its amount. So the task is one coin (`MaxCoins <- 1`).

### CoinIndex

`visit_at_index` walks the task's coins through `on_coins` (spec §SwapTask: declared order, Stop ends the walk, an error aborts it). `CoinsIndexVisitor` counts `counter` down with `next_coin` and hands the coin to the real visitor when `at_coin`. `failing` is the set of coins on which the real visitor fails. The reference `Target` is the coin at the 0-based index, or none.

### LeaserMigrate

One call of `migrate_leases`. A customer is `[ok, n]`: whether the iterator yields it or an error, and its number of leases. `VisitCustomer` covers `migrate_or_be_next`: the read error, the failed conversion to `MaxLeases` (n above `MaxLeasesMax`), `checked_sub`, and the return of the customer that does not fit. `ScheduleLease(fails)` schedules one lease. `Exhausted` is the end of the iterator. The reference `Plan` (`RECURSIVE PlanFrom`) is what the call should return.

### Versioning

`current` is the contract's `Version` (storage segment, software rank); `installed` is the history of versions run. The release type is derived from the build's label as `release_type()` does: `Dev` only for `"dev-release"` (the run uses a production label). `MigrateSoftware(new)` and `MigrateStorage(from, new)` are a release of either kind. It is accepted and saved, or it is rejected and nothing changes. The segment wraps at `SegmentMax` (`wrapping_add`).

### PoolLender

Variables: `balance` (the pool's Lpn, a pending deposit included), `loans` (owed to the pool, interest included), `deposits` (nLpn per lender), `sent` (the bank messages of the last handler).

- `Deposit(l, amount)`: `try_deposit`. The funds arrive with the message, so the balance the handler sees holds them. A deposit above `DepositCapacity` fails; otherwise nLpn are bought at `CalculatePrice` without the pending amount, rounded down (`Receipts`).
- `Withdraw(l, amount)`: `try_withdraw`. `WithdrawLpn` prices the nLpn, rounded down. It fails with no liquidity, with no Deposit, or when the amount exceeds it. The payment is sent, then a reward in Nls when there is a non-zero one.
- `OpenLoan`, `RepayLoan`, `Accrue`: the pool's collaborators (borrow, repay, interest), from the spec.

`LiquidityPool` and `Deposit` are not under `src/`, so `TotalNLpn`, `PoolValue`, `DepositCapacity`, `CalculatePrice`, `Receipts` and `WithdrawLpn` are marked spec-modelled. Their arithmetic follows what `lender.rs`'s own tests assert: the capacity under `min_utilization`, the nToken price, the receipts and the payment. `Init` is any pool whose lenders deposited at the identity price while the minimum was zero, the empty pool included.

No property is stated about the rounding of receipts and payments: it lives in `LiquidityPool`, and a property about it would only restate the assumption.

### FinanceValues

The inputs are chosen in `Init` and then held. `DurationSub` and `PriceCmp` are the code's operators; the properties compare them with subtraction and with the derived equality.

### ProfitIdle

Variables: `state` (Idle or BuyBack), `alarm` (a cadence alarm is pending), `cadence`, `nls` and `others` (balances), `treasury` (Nls sent), `receipts` (history).

- `Receive`: profit arrives.
- `UpdateConfig(c)`: `try_update_config`.
- `OnTimeAlarm(enterOk)`: `on_time_alarm`. With no other coins, `send_nls` sets up the next alarm and sends the Nls to the treasury. With other coins, the buy-back is entered. A failing enter fails the handler, so the time-alarms service puts the alarm back.
- `InBuyBack`: the model ends there, since `BuyBack` is not under `src/`.

ProfitIdle is the contract with the service abstracted: `alarm` says that a wake-up is pending. It has no run of its own; its actions are checked inside `ProfitAlarms`.

### ProfitAlarms

`ProfitAlarms` puts the profit contract (address `Profit`) into the real alarm store, beside another subscriber that sets, removes, handles and fails alarms of its own, like the other subscribers of `ResponseDelivery`.

- `Scheduled`: the profit contract's alarm is in the index, or its TimeAlarm message is in the dispatch in progress. `PI == INSTANCE ProfitIdle WITH alarm <- Scheduled`.
- `Init`: `Idle::new` entered, its first alarm at `NextAlarm`, cadence hours after the block time (`CadenceUnits`: `UnitsPerHour` Units an hour).
- `Receive`, `UpdateConfig(c)`, `InBuyBack`: ProfitIdle's actions, as transactions of their own (no dispatch in progress).
- `OnTimeAlarm(enterOk)`: the profit contract is at the head of the dispatch. Staying Idle, its reply is `last_delivered` with the next alarm set up at `NextAlarm`, and the Nls goes to the treasury. Starting the buy-back, the reply asks for no alarm. On an error, `AlarmFailed`: the reply is `last_failed`, and nothing the handler wrote survives.
- `OtherSubscriber`, `NotifyStep`, `TickStep`: as in `ResponseDelivery`. Block time stops at `LastBlock`, so every alarm the profit contract asks for lies within the store's horizon.

Whether the store keeps the profit contract's wake-up is `ProfitWakeUpScheduled`, stated over the store's own state. ProfitIdle's fairness does not carry over: with time bounded, the last alarm set up is never due. Liveness is stated on the composition instead (`NlsForwarded`).

## 3. Runs

The project has twelve runs. Components that share no state but belong to the same package or concern are checked side by side in one model (`MC_DexFlow`, `MC_ContractUpgrade`); their steps interleave freely.

| Run | What it checks | Result |
|---|---|---|
| `response_delivery` | `TypeOK`, `OneWakeUpScheduled`, `NoLostAlarm`, `NoneRemainingMeansNoneOverdue`, `ImplementsAlarmService`, `GuaranteedDelivery`, `AlarmEventuallyDispatched` on the lease and two other subscribers, `UnitsPerSecond = 2`, `MaxTime = 8`, `MaxCount = 2`, one swap timeout | pass (52241 states) |
| `decode_retry` | `DecodeErrorNotRetried` | violation: a malformed response is attempted a third time, after the self-call and the one re-delivery that 4.6 allows |
| `lease_closing` | `TypeOK`, `ImplementsLifeCycle` with collateral 2, up to 2 timeouts, a stale alarm possibly pending, and a collateral currency that can be sent or not | pass (114 states) |
| `dex_flow` | `MC_TypeOK`, `OneSwapPerCoin`, `AmountOutIsSwapped`, `SubmittedFromHostAccount`, `TransferInWithTransfer`, `VisitsOnlyTarget` on 1..3 coins, outputs {1, 2}, one timeout, open acks malformed, empty or at one of two addresses, an output currency among three (one unknown on the dex), index 0..3 | pass (188748 states) |
| `swap_extra_results` | `ExtraResultsRejected` | violation: a response with more results than coins is accepted |
| `contract_upgrade` | `TypeOK`, `ResultIsPlan`, `BudgetAccounted` on up to 3 customers of up to 3 leases, `max_leases` 0..2; `NoSoftwareReinstalled`, `NoStorageSkipped` with segments 0..2, software ranks 0..3, Prod | pass (568680 states) |
| `pool_lender` | `TypeOK`, `DepositKeepsUtilization` on two lenders (symmetric), amounts 1..3, `min_utilization` 50%, pool value up to 7 | pass (2467 states) |
| `duration_sub` | `SubUndoesAdd` | violation: `a - b` is `a + b` |
| `price_order` | `PriceOrderAgreesWithEq` | violation: different prices compare Equal |
| `profit_alarms` | `TypeOK`, `ProfitWakeUpScheduled`, `NlsForwarded` on the profit contract and one other subscriber, cadences {1, 2} hours of one Unit, `UnitsPerSecond = 2`, `MaxCount = 2`, time stopping at 8, balances up to 2, 3 receipts | pass (34798 states) |
| `loan` | `TypeOK`, `PaymentConserved`, `MarginNotPrepaid`, `PoolPaidBeforeRollover`, `RepayReducesDebt` with principal 4, due period 2 s, payments {1, 3, 8}, up to 3 repayments, time 0..5 s | pass (561 states) |
| `loan_coarse` | `RepayReducesDebt` with `YearLen = 2` (half a coin of interest a second) | violation: paying in pieces removes more debt than it pays |

What the properties say:
- `NoLostAlarm`: a subscriber owed an alarm always has it in the index or in the queue.
- `ImplementsAlarmService`: the store is a correct alarm service. Nobody is woken before the time it asked for, although the index keeps whole seconds and `last_failed` saves alarms one second in the past. Nobody is woken for an alarm it removed or already handled, or twice in one dispatch.
- `NoneRemainingMeansNoneOverdue`: when `try_any_alarm` answers that no alarm remains, no subscriber owed an alarm asked for a second already past.
- `AlarmEventuallyDispatched`: every alarm in the index eventually leaves it, with three subscribers competing for a dispatch of two alarms and the lease's failures putting its alarm back. Time is bounded in the model, and in its last second a subscriber that fails for good keeps winning the tie on the alarm's second. A lease retrying a malformed response forever is such a subscriber (that is `decode_retry`), so the property is stated for behaviours without one.
- `OneWakeUpScheduled`: the lease has a wake-up, an alarm or a call in the current dispatch, exactly when it is in a waiting state (EntryDelay, ResponseDelivery).
- `GuaranteedDelivery`: a response that decodes is eventually delivered.
- `DecodeErrorNotRetried`: the spec's claim, which the code does not keep.
- `PaymentConserved`: every coin paid is either margin interest kept or requested from the pool.
- `MarginNotPrepaid`: the margin period never starts after now.
- `PoolPaidBeforeRollover`: the pool's interest is paid at least up to where the current margin period was opened from.
- `ImplementsLifeCycle`: the closing implements the spec's life-cycle. It never goes back, it returns the whole collateral, and a started closing eventually completes. A `Close` whose send fails leaves the lease Active, never in TransferInInit with nothing sent.
- `RepayReducesDebt`: an action property. A repayment never raises the reported debt, and never lowers it by more than what the pool kept.

- `OneSwapPerCoin`: the transaction in flight swaps every coin once, in order.
- `AmountOutIsSwapped`: the amount handed to TransferInInit or to the finish is the sum of what the swaps yielded.
- `SubmittedFromHostAccount`: every transaction goes through an account the host opened at a real address, never before the open ack and never with an empty one.
- `TransferInWithTransfer`: the swap is in TransferInInit exactly when the transfer of its output was submitted. The decoding and the next state's enter take effect together or not at all.
- `VisitsOnlyTarget`: `visit_at_index` hands the real visitor the coin at the index and no other, and visits nothing when the task is shorter.
- `ResultIsPlan`: an Ok result has scheduled exactly the reference plan's migrations and names its next customer. Every customer before that one was readable.
- `BudgetAccounted`: during the call, the scheduled migrations, the room left and the leases of the current customer still to schedule add up to `max_leases`.
- `NoSoftwareReinstalled`: a production contract never runs a software version again once it has moved past it.
- `NoStorageSkipped`: every storage layout the contract ran with was followed by its successor; no migration is skipped, including across the wrap.
- `SubUndoesAdd`, `PriceOrderAgreesWithEq`: what `Sub` and `PartialOrd` promise (findings below).
- `DepositKeepsUtilization`: an action property. An accepted deposit leaves the utilization at or above `min_utilization`.
- `ProfitWakeUpScheduled`: the profit contract holds exactly one wake-up (never in the index and the dispatch at once) while Idle, and none after the buy-back starts.
- `NlsForwarded`: Nls collected while Idle, with the alarm in the dispatch or in the index before the last block's second, eventually reaches the treasury, unless the buy-back starts.

### Findings

- `decode_retry`: the spec says a decode error is fatal and not retried. The code lets it escape from `on_time_alarm`, and `last_failed` re-adds the alarm, so a malformed response is delivered again at every dispatch. TLC finds the third attempt: the self-call, then the one alarm-driven re-delivery of 4.6, then one more.
- `duration_sub`: `Sub<Duration> for Duration` (`finance/src/duration.rs:87`) adds its operands. TLC finds a = b = 1 with (a − b) + b = 3.
- `price_order`: `PartialOrd for PriceDTO` compares amounts only and ignores currencies, while `PartialEq` is derived. 1 USDC/1 USDC and 1 DAI/1 USDC compare Equal but are not `==`.
- `swap_extra_results`: the spec says decoding a reply with more results than coins must fail rather than truncate. `decode_response` takes one result per coin and never checks that the results are exhausted; TLC finds a one-coin task completed from a two-result response.
- `loan_coarse`: the spec does not say how rounding composes over repayments. With interest truncated per payment, a payment of 1 lowers the reported debt by 2: the interest of the paid second and of the second after it are each truncated.

Every property of a passing run has a mutant in `PROJECT.json` that TLC finds violating it.

### Bounds

Time-alarms:
- `UnitsPerSecond = 2` makes sub-second alarm times, and with them truncation, happen.
- `MaxCount = 2` with three subscribers: a dispatch carries a batch, whose handlers run in turn and add alarms while the others wait in the queue, and still leaves a due alarm behind.
- `MaxTime = 8` units (four seconds) leaves room for the entry delay, a swap with a timeout, a failed delivery, an alarm put back at `now - 1` and its redelivery.

Loan:
- `YearLen = 1`, with integer rates, makes interest exact per second. The allocation logic is then checked apart from truncation; see the truncation hazard in `PROJECT.json`.
- The payments are below, around and above one period's interest.
- A payment of 8 reaches the rollover, the payoff of the loan and a surplus.

Swap, account, coin index, migration and versioning:
- Three coins give a first, a middle and a last coin. Any coin may fail, and there is one timeout.
- `MaxIndex = 3` reaches an index equal to the coin count, past the end of the shortest tasks.
- LeaserMigrate uses three customers, with lease counts 0..3 around `max_leases` 0..2. That covers an exact fit, a customer exceeding the room by one, a count above `MaxLeasesMax` that fails conversion, and read and scheduling errors.
- Versioning uses three storage segments, so the wrap from 2 to 0 is reached within a sequence of releases, and four software ranks, so a rank is passed and offered again.
- The account's open acks are malformed, empty or one of two addresses. The swap's output is one of three currencies, one unknown on the dex, so TransferInInit's enter fails in some behaviours. One transfer is enough: the flow submits at most one.

Pool lender:
- Two lenders, symmetric, reach a deposit or withdrawal of one lender changing the price the other sees.
- `Hundred = 2` and `MinUtilization = 1` make `min_utilization` 50%. Amounts 1..3 against a pool value of at most 7 reach a capacity of zero, an exact fit and a deposit just above it, and prices that are not whole, so both roundings matter.
- Deadlock is not checked: a pool with a minimum utilization and no loans refuses every deposit, as `test_no_leases` asserts, and an empty such pool can do nothing.

Profit: two cadences, of one and two Units with two Units a second, so the next alarm falls in the same second as the block or in the next one, and `as_seconds` truncates it. Time from 2 to 8 Units lets two cadence alarms be handled, failed and put back. The other subscriber shares dispatches with the profit contract (`MaxCount = 2`); the profit contract has the higher address, so it is called second in a batch of one second. Balances up to 2 and 3 receipts reach both branches of the alarm with Nls present or absent.

### Fairness

- **Dispatcher:** it is called regularly (`WF` on the dispatch), and blocks keep coming (`SF` on a new block, since a block is only possible between transactions).
- **Subscribers:** the other subscribers handle or fail their deliveries (`WF`), with no fairness on success: they may fail for good. The lease's failures of a good response are transient: strong fairness on its successful handling.
- **Remote venue:** the host delivers one outcome, a response or a timeout, for every transaction in flight, and a repaired channel eventually opens. Timeouts are bounded (`MaxTimeouts`).
- **Loan, DexFlow, CoinIndex, LeaserMigrate, Versioning, PoolLender:** safety only, with no fairness.
- **Profit idle:** the dispatcher and blocks as above; the profit contract in the dispatch is called (weak fairness on `OnTimeAlarm`). A failing enter is transient: strong fairness on its success. The other subscriber may fail for good.
- **Lease closing:** the host relays responses and transfers, a repaired channel opens, and the time-alarms service delivers a pending alarm (the last is checked on `TimeAlarms` in `response_delivery`). No fairness is assumed on the owner's commands.

## 4. Plan for the remaining parts

Done: TimeAlarms (refining AlarmService), ResponseDelivery, Loan, LeaseClosing (refining LeaseAbstract), SwapExactIn, RemoteTransfer and DexFlow, CoinIndex, LeaserMigrate, Versioning, FinanceValues, PoolLender, ProfitIdle and ProfitAlarms (refining ProfitIdle).

Next:
1. Compose `LeaseClosing` with `INSTANCE TimeAlarms` as `ProfitAlarms` does for `ProfitIdle`. TransferInFinish's polling alarms are set by code not under `src/`, so the composition would rest on the spec; until then the boolean `alarm` stands for the store, whose promises `ImplementsAlarmService` and the `response_delivery` liveness properties check.
2. `LeaserMigrate`: repeated calls resuming from `next_customer`. The entry point is not under `src/`; this needs the spec, and its progress hazard.
3. `PoolLender`: the pool's interest on loans as `LiquidityPool` computes it, once that code is in the repository.

## 5. Not modelled

- Price DTO validation and the schemas of messages and errors: data conversions with no state.
- The `Percent` fractions (`fractionable/percent.rs`): the multiplication is a widened product; its only failure, an overflow, is a panic that the spec (4.1) makes fatal.
- Event emission (`event.rs`).
- Tests, which were read for the expected behaviour.
- The pool's `LiquidityPool` and `Deposit` (`contracts/lpp`): not in the repository. `PoolLender` takes their arithmetic from the tests of `lender.rs`; `error.rs` is an older version than `lender.rs` and is not modelled.
- The profit contract's `BuyBack` and the oracle's price alarms (`marketprice`): not under `src/`. The oracle's `MarketAlarms` only forwards to that store.
- The leaser's `Config` store: loading and saving a record.
- Queries (`state()`, `try_query_config`, `query_balance`): read-only. `try_any_alarm`, `query_balance`, `deposit_capacity` and `query_ntoken_price` are operators that properties use.
- `liability_status`, which belongs to a later `Loan`.
