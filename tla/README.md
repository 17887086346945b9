# A verification model of the Bitcoin Trading System (BTS)

BTS receives trading signals from Eagle over a WebSocket, keeps three durable
SQLite stores, and trades one contract of Micro Bitcoin futures (MBT) on an
Interactive Brokers (IB) paper account. Two threads run in the process: the main
thread of `scripts/run_real_eagle_ib_paper_trader.py` ("the runner"), and the
network thread of the IB API, which delivers callbacks. Eagle, IB, both
connections and the process itself fail independently of one another.

The modules here model the path from an Eagle frame to an order at IB and back:
what is durable, in which order it is written, what a crash or a lost connection
leaves behind, what the next process or session does with it, and which gates an
order has to pass. A second program, `scripts/run_local_eagle_client.py` ("the local
client"), runs a session against a fake Eagle with the replay tracker, the heartbeat
watchdog and the resume gate, on one asyncio loop; it has a module of its own.

## 1. The system

### Components, their state and their operations

| component | source (`src/`) | state | operations that change it | status |
|---|---|---|---|---|
| Event store | `app/event_store.py`, `event_processor.py`, `heartbeat_processor.py` | `processed_events`, `last_processed_seq` (SQLite) | `check_and_mark_event_with_seq`, `check_and_mark_seq`, `mark_seq_processed`, `mark_event_processed` | modelled: `EventStore` |
| Execution ledger | `app/execution_ledger.py` | one record per event id with status and broker order id, and an audit history (SQLite) | `reserve`, `transition`, `mark_*` | modelled: `ExecutionLedger` |
| IB order ids | `app/ib_order_id_allocator.py`, `ib_api_ready.py`, callbacks in `ib_api_position_app.py` | next, highest allocated and highest observed id; readiness | `initialize`, `observe_order_id`, `allocate`, `ensure_minimum_next_id` | modelled: `IBOrderIds` |
| IB execution path | `app/ib_execution_client.py`, `ib_order_status_transport.py`, `ib_execution_details_transport.py`, `ib_error_handler.py`, `duplicate_order_guard.py` | the ledger, `ib_execution_details` (SQLite), the duplicate guard, the kill switch | reserve, submit, wait; order status, execution and error callbacks | partly: `IBExecution` |
| Paper trader | `scripts/run_real_eagle_ib_paper_trader.py` | the session's gates, the missed trades, the step it is in | start, hello, heartbeat, replay, live entry, live exit, connection errors | partly: `PaperTrader` |
| Signal lifecycle | `app/signal_lifecycle_guard.py` | one state per Eagle signal (SQLite) | `process` | partly, inside `PaperTrader` |
| Trade coordinator, Eagle adapter | `app/trade_coordinator.py`, `communications/eagle_trade_adapter.py` | none of their own | prepare, commit; intent of an event | partly: `PaperTrader`, and the pause and the quantity in `TradingGates` |
| Kill switch | `app/kill_switch.py` | active | activate, reset | modelled: `TradingGates` (and its activation in `IBExecution`) |
| IB connection | `app/ib_connection_manager.py`, `ib_api_position_app.py` | socket, network thread, readiness | connect, reconnect, disconnect, `connectionClosed` | partly: as seen by ids and callbacks |
| Position snapshots | `app/ib_broker_client.py`, `ib_position_transport.py`, `broker_position*.py` | positions, in progress, complete, subscription active | refresh, position, positionEnd | partly: `PositionSnapshot` (the stateless layers that translate symbols are left out) |
| Risk and readiness | `app/risk_manager.py`, `ib_trading_readiness.py`, `trading_controls.py`, `daily_loss_guard.py` | pause, quantity, P&L | pause, resume, update settings, update P&L, reset day; evaluate, require_ready | modelled: `TradingGates` |
| Local session helpers | `app/replay_tracker.py`, `reconciliation_manager.py`, `connection_health.py`, `heartbeat_watchdog.py`, `reconnect_readiness.py`, `resume_manager.py`, `scripts/run_local_eagle_client.py` | counters and flags of one session | hello, heartbeat, entry and exit handlers; monitor; request_resume | modelled: `EagleSession` |
| Eagle client, protocol | `app/communications/*` | the WebSocket | connect, listen, parse | partly: replay request, dispatch and close in `EagleSession`; JSON and field validation is not |
| Order factory | `app/ib_order_factory.py` | none | build a contract and a market order | partly: action and quantity in `TradingGates` |
| Fake servers | `scripts/fake_eagle_*.py` | the stream | hello, replay, heartbeat, close | partly: they are the Eagle of `EagleSession` |
| In-memory duplicate filters | `app/sequence_manager.py`, `app/idempotency_manager.py` | ids, a number | check, mark | not modelled: superseded by the event store, only unit tests use them |
| Manual test scripts, old runner, entry point | `scripts/*`, `app/main.py` | | | not modelled: no part of the running system |

### How they interact

1. Eagle's hello names its open positions. The runner takes a fresh position
   from IB, compares Eagle, IB and the durable lifecycle, and either accepts the
   session, declares trades it was too late for as *missed*, or ends the process.
2. Eagle replays every frame after the durable cursor. A replayed entry is
   consumed and its lifecycle rebuilt; a replayed exit of an owned position is
   turned into a durable obligation (a RESERVED execution) and then consumed;
   no order is sent. The first heartbeat after the replay authorizes trading, and
   is meant to submit a recovered exit as well (today that ends the process, section 6).
3. A live entry is consumed in the event store, its lifecycle is committed, and
   then its execution is reserved, marked SUBMITTED with an order id and placed.
   A live exit is consumed, reserved, submitted and placed, and its lifecycle is
   closed only once the ledger says FILLED.
4. Before the order, the runner asks one gate after another: the pause, the
   position, the risk manager with the kill switch and the daily loss guard, then the
   trading readiness. The network thread may close a gate between any two of them.
5. The network thread moves the execution on as callbacks arrive. The main
   thread polls the ledger, not the callbacks.
6. A connection error or a timeout, whatever caused it, closes the Eagle session
   and starts another; any other exception ends the process. A fresh process is
   refused while an execution is unresolved or IB and the lifecycle disagree.

### What is hard about it

Several durable commits make up one trade, with no transaction over them, and a
crash may fall between any two. The two threads share the ledger, and its
`transition` reads in one connection and writes in another. Callbacks are lost
with the connection and are never asked for again. The meaning of a frame depends
on session state (missed trades, gap, replay counts, heartbeat seen) that the next
session has to rebuild. `PROJECT.json` lists each hazard at its line, with the
properties that would show it going wrong; two that no property of these models could
show are in section 4 only (gates that a restart opens, and positions compared once per
session).

## 2. The modules

### `EventStore`

`processed`, `cursor` are the two tables, `accepted` a history variable. One
action per method, each one SQLite transaction. `Eligibility` is the verdict of
`check_event_with_seq`, which `CheckAndMarkEventWithSeq` repeats inside its
transaction before it writes. It is also the abstract store of both programs:
`PaperTrader` uses it by `Store == INSTANCE EventStore WITH ...` and its actions call
the store's, `EagleSession` extends it, with the local client's handlers as the
callers. That both implement it is proved (`SpecImplementsStore`,
`SpecSessionImplementsStore`), so what holds of the store holds of them.

- `AcceptedOnce`: no event and no sequence number is accepted twice.
- `AcceptedIsDurable`: what was accepted is in both tables.
- `AcceptedInOrder`: acceptances come in order, whatever the caller hands in.

### `ExecutionLedger`

`records` (status and order id by event) and `history`, over the transition table
`Allowed`. This is the *abstract* ledger: check and write in one step. `IBExecution`
(two threads, check and write apart) and `PaperTrader` (one status per event) both
implement it, each by a proof named `SpecImplementsLedger`.

- `HistoryExplainsRecord`: the audit trail is a path of the transition table that
  ends in the record's status.
- `BrokerStateHasOrderId`: an order id is there exactly when something may have
  reached the broker.
- `RecordsAreFinal`: a terminal record never changes, an id is never replaced.

### `IBOrderIds`

The allocator, the network thread before, inside (its two calls are two actions) or past
`nextValidId`, and the main thread from the handshake to `placeOrder`. A connection
can be lost, or its handshake time out, at any point; `disconnect` joins the network
thread only for a time and `_cleanup_failed_connection` not at all, so an old thread may
still be inside `nextValidId` (`stale`), mark the *next* connection ready and initialize
the allocator with an old id. Only `durable`, the highest id in the ledger, survives the
process. IB's own sequence is external and may be reset by the operator.

- `UniqueUnlessReset`: an id about to be recorded is above every recorded one as
  long as IB's sequence was never reset.
- `FloorHolds`, `FlooredIdsUnique`: once the durable floor reached the allocator,
  the ids are unique even after a reset, for the life of the process.
- `AllocatorMonotone`, `AllocatesInitialized` (proved, with no run of their own):
  reconnects and foreign orders only raise the allocator, and the handshake race never
  leads to an allocation from an uninitialized allocator, because the position refresh
  waits for the same thread.
- `FreshUnlessReset` (proved, with no run of its own): without a reset an id in the main
  thread's hand is above every id of the ledger and of IB. It is what `IBExecution` takes
  from this module (`Fresh`).

### `IBExecution`

The detailed ledger. The main thread goes idle, built, checked, marked, waiting;
the network thread idle, write, record. `CheckSubmission` and `ReceiveStatus` are
the read of `transition`, `WriteSubmission` and `WriteStatus` the write, so the
other thread, a crash or a disconnect can fall between them. `wire` is the set of
callbacks IB sent on this connection: they may arrive in any order, repeatedly, or
never. A callback that a handler refuses raises and ends the network loop
(`CallbackRaises`). `Fresh` is what `IBOrderIds` provides (`SpecFreshUnlessReset`).

- `OneOrderPerEvent`: "BTS must never create a second broker action for the same
  event_id" (`BTS_PROJECT_STATUS.txt:186`).
- `SubmittedBeforeBroker`: no order at IB is unknown to the ledger.
- `LedgerFollowsBroker`: a final status in the ledger is IB's final status.
- `ExecIdsAreBacked`: an execution id is recorded only behind the fill it stands
  for, so that a crash between the two transactions repeats the callback.
- `ImplementsLedger`: `Ledger!Spec`, with `Ledger == INSTANCE ExecutionLedger WITH
  records <- records, history <- history`, that is, the two threads implement the ledger
  whose transitions are atomic. The mapping is the identity on `records` and
  `history`; every other step is a stutter. By that refinement the three properties of
  `ExecutionLedger` hold of the two threads; they are proved in `IBExecutionProofs`.
- `SubmissionsResolve`: without an interruption a submission ends.

### `PositionSnapshot`

How the runner learns its position: `refresh_position_snapshot` on the main thread,
`position` and `positionEnd` on the network thread. `toIB` and `wire` are the two
directions of the socket, in order. `reqPositions` is a subscription, and nothing on
the wire names the request it belongs to, so rows and end marks of an earlier one
may meet a later snapshot. `since` and `held` are history: the positions since the
refresh began, and ever.

- `FlatIsReal`: a flat account read by the runner was flat at some time since it
  asked. This direction matters most: a flat account lets entries through and lets
  a lifecycle be closed. It holds under two conditions which the property names. If
  a refresh timed out, the late end mark of its request completes the next snapshot
  before its rows. And a late row of a short position and the row of a long one
  would cancel out in one snapshot. TLC finds both when the condition is dropped.
- `StableWhenComplete`: a completed snapshot does not change until the next refresh
  begins; a late update raises instead, which closes the connection.

### `TradingGates`

What stands between a request and an order: `paused` and `quantity` of
`TradingControls`, `killed`, the daily loss guard (`realized`, `unrealized`,
`tripped`), and the runner's thread, which asks them at separate steps.

| step of the runner's thread | action | code |
|---|---|---|
| start | `Start` | new gates, resumed; a clear execution state is required |
| a live entry | `BeginEntry`, `PrepareEntry` | flat position, `prepare_event` (pause, quantity) |
| a live exit | `PrepareExit`, `ReadPosition`, `PostponeExit` | `prepare_event`, `reserve`, refresh |
| approval | `Judge` | `validate_trade_request_against_position`, `RiskManager.evaluate` |
| readiness | `RequireReady` | `IBTradingReadiness.require_ready` |
| the order | `PlaceOrder` | `IBOrderFactory.create`, `submit`, `submit_reserved` |
| the wait | `Settle`, `WaitTimesOut` | fill, kill switch, timeout |

`Pause`, `Resume`, `UpdateSettings`, `ResetKillSwitch`, `UpdatePnl` and `ResetDay` are
the interface to a console and may be called at any step. `Activate` is the network
thread's. `late` and `barred` are history: per gate, the orders placed since it closed,
and the gates that were closed when the request was begun. A gate *stops* a request if
it is meant to: the loss guard stops entries only.

- `AtMostOneLate`: a gate that closes between its check and `placeOrder` lets the
  order under way through, but no second one, until somebody reopens it.
- `NoneBegunClosed`: a request begun behind a closed gate never becomes an order. The
  risk manager lets exits pass, so for them this rests on the readiness check; for an
  entry after a recovered loss it rests on the guard that stays tripped.
- `PositionBounded`: the account never holds more than the configured quantity. After a
  timed-out wait the order may still fill; the unresolved record keeps the next
  request, and the next process, from placing another one. And a filled order leaves a
  whole position, one a start accepts, although the settings may change between a
  request and its validation.

### `EagleSession`

The local client's session and the next ones. A handler runs to its end on the asyncio
loop, so `Hello`, `Heartbeat` and `Lifecycle` (entry and exit) are one action each;
`Check`, `HeartbeatTimeout` and `StopListener` are the watchdog and the main task,
which come between them at any point; `Tick` is time, while nothing on the loop is due.
`Connect` starts a process with everything new but the store, and Eagle sends the hello
and the frames after the durable cursor. `Close` ends it anywhere. The stream has
lifecycle frames and numbered heartbeats; `Beat` is a heartbeat without a number of its
own.

- `CompleteMeansDrained`: the replay counts as complete only when everything Eagle had
  at the hello is consumed; "interrupted replay was incorrectly marked complete" is the
  safety violation of `scripts/test_eagle_automatic_reconnect.py`.
- `NothingMissed`: whatever sequence of broken replays, no lifecycle frame at or below
  the cursor is unconsumed.
- `ReplayNeverApproved`: what the coordinator approves is newer than the hello.
- `FreshWhileTrading`: trading is open only while the last heartbeat is at most one
  timeout and one check interval old. The exact bound is the interesting part: the
  watchdog looks only once per interval.
- `ReadyOrOver`: a session whose positions agree becomes ready or ends; an Eagle that
  says hello and falls silent does not leave it waiting.

### `MCComponents`

The TLC instance of `EventStore`, `ExecutionLedger` and `TradingGates`, which share no
state. One run explores each of them exhaustively while the other two stay in their
initial states: interleaving them would multiply the states and reach nothing new.

### `PaperTrader`

The composition: the event store (by INSTANCE ... WITH), the lifecycle, the ledger's status
per event, the session and IB, at the grain of one action per durable commit or
broker call. The details of callbacks are in `IBExecution`; here `BrokerEnds` and
`Answer` are a fill or rejection and its write to the ledger. `session` is a record
of the loop's local variables; `task` is where the main thread is and for which
event.

| action | code |
|---|---|
| `Start`, `Hello`, `HelloRaises`, `HelloWithoutIB` | start-up checks, the EagleHello branch |
| `Heartbeat`, `HeartbeatWithoutIB`, `RecoveryRaises`, `HeartbeatRaises` | the EagleHeartbeat branch |
| `ReplayIgnored`, `ReplayConsumed`, `CommitReplayedEntry` | replayed entries, updates, duplicates |
| `RecoverReplayedExit`, `ConsumeReplayedExit`, `ReplayedExitRaises` | `recover_replayed_owned_exit` and the consumption after it |
| `LiveUnauthorized`, `LiveIgnored`, `LiveExitRaises`, `LiveEntryRaises` | live frames that trade nothing |
| `ConsumeExit`, `ReserveExit`, `SubmitExit`, `PostponeExit` | a live exit up to the order |
| `MissEntry`, `ConsumeEntry`, `CommitEntry`, `ReserveEntry`, `SubmitEntry` | a live entry up to the order |
| `PlaceOrder`, `OrderFilled`, `Settle`, `WaitTimesOut`, `OrderRaises`, `SettleFails` | the order and its wait |
| `EagleDrops`, `IBDrops`, `Flatten`, `Crash`, `EaglePublishes`, `BrokerEnds`, `Answer` | the environment |

- `ExposureIsOwned`: while IB holds a position, an open signal in the durable
  lifecycle accounts for it, whatever crashed or timed out on the way.
- `OrdersMatchPosition`: when an order reaches IB the position is still the one it
  was approved for.
- `MissedNeverTraded`: a trade declared missed is never traded later.
- `OrdersFollowReplay`: no order reaches IB before the session's replay is drained and
  the heartbeat after it was seen, that of a recovered exit included. A replayed entry
  is never ordered.
- `NothingSkipped`: every frame up to the cursor was consumed, so resuming after
  the cursor loses nothing.
- `ReplayedExitIsReserved`, `ConsumedExitIsReserved`: an exit is not consumed while
  IB holds its position and no obligation is durable; the second covers live exits
  too and excepts the step between the two commits (see 4).
- `ExitIsFollowed`: the exit of the owned signal closes the position or stops the
  process.

Defined in `PaperTraderProofs` and proved, with no run of their own:

- `PlacedOnce`: the order of an event is placed once at most, over all replays, crashes,
  sessions and processes.
- `RecordsAreFinal`: no late answer, replay or other process overwrites a final status
  or forgets a record.
- `LifecycleFollows`: a signal leaves the open ones only when it is closed, while IB holds
  no position, and is not opened again.
- `StartFindsNothing`: BTS never asks IB for its open orders, and need not: a start that
  passes its checks leaves no order working and no answer under way.
- `ConsumedExitIsTracked`: after a crash between the two commits of a live exit, any later
  session that is open has its gap flag (`possible_pending_gap_exit`) set.
- `ExitIsTracked`: the safety half of `ExitIsFollowed`. While a session is open, the exit
  of the signal that owns the exposure is still to come, in the ledger, on its way there,
  or the gap flag is set.
- `NoTradeOverGap`: while the gap flag is set no event is on its way to an order, even if
  a heartbeat that could not reach IB authorized the session without the check of the
  flag (`HeartbeatWithoutIB`).

`SpecImplementsLedger` maps a status to the audit history it stands for (`Path`) and to a
record whose order id is that of a function `id` from events to numbers once the status
has one (`RecordOf`); it holds for every such function, because the runner never looks at
an id.

## 3. The runs

| run | instance | shows |
|---|---|---|
| `Components` | store: 3 events, seq up to 3; ledger: 3 events, 2 ids, histories up to 6; gates: contracts of 2, settings 1 and 2, loss limit 2, reports of 0, -1, -2 | every order of duplicates, renumbered redeliveries and heartbeats; every sequence of ledger calls; every interleaving of the gates with an order |
| `IBOrderIds` | ids up to 4, 2 crashes, 2 lost or failed connections, 1 reset | the unique and floored ids |
| `IBOrderIdsRace` | the same | expected violation of `OrderIdsUnique` (finding) |
| `IBExecution` | 2 events, 2 ids, 1 contract, 1 crash, 1 drop | two executions that meet in the guard, the ledger and the ids |
| `IBExecutionPartial` | 1 event, 2 ids, 2 contracts, 2 crashes, 2 drops, fair | the ledger follows IB through partial fills, reordered executions and a crash after a crash; liveness |
| `PositionSnapshot` | 3 refreshes, 3 changes of the position, 1 timeout, 1 drop | every overlap of two requests and of updates with them |
| `PaperTrader` | a long and a short trade, 4 frames, 1 crash, 1 drop of each connection, 1 outside close, fair | all of the properties above, two trades in a row, liveness |
| `PaperTraderOvertaken` | a Bitcoin trade with an update, one on another symbol, 5 frames, heartbeats overtaking the replay | the obligation of a consumed exit survives the heartbeat finding |
| `PaperTraderHeartbeat`, `PaperTraderUnownedExit`, `PaperTraderReservedExit` | one Bitcoin trade and one on another symbol | expected violations (findings) |
| `EagleSession` | 4 numbered frames, 3 sessions, timeout 2, check interval 1, fair | broken replays of broken replays, silence, late heartbeats, liveness |

Why the bounds are enough. In the stores a property concerns at most two events
and one cursor. `MaxHistory = 6` is longer than the longest path of the transition
table (Reserved, Submitted, Acknowledged, PartiallyFilled, terminal). Two crashes
give a process that starts from what a process left that itself started from a
crash. BTS owns at most one position, so two trades exhibit an entry in the shadow
of another trade, a missed one after an owned one, and an exit replayed for the
wrong trade. Three refreshes let one follow the one after a timeout, and three
changes take the position from one side of the market to the other. Contracts of two
make a partial fill and a setting below the limit possible; two reports of one reach the
loss limit and one of two reaches it at once. In `EagleSession` three sessions let a
replay of a replay break off, four frames leave room for a live frame after each of
them, and a timeout longer than the interval lets a heartbeat go stale between two
checks. Four frames of `PaperTrader` are two complete trades; five add an update. One drop of
each connection puts a loss at every step; the second loss at another step is what
these bounds leave out. Deadlock is not checked: once the bounds are used up the
environment stops.

Faulty variants: several modules contain operators marked as such. They are the
plausible bugs each property has been seen to catch, and no specification uses
them.

### Fairness

`IBExecution.FairSpec`: the main thread goes on from a check to its write and to
`placeOrder` (straight-line code), the network thread takes some callback that
changes something while there is one, and finishes its transaction; IB ends every
order it works (a market order). There is no fairness on crashes, on lost or
restored connections, on the order of callbacks, on new reservations or on the end
of the wait. `SubmissionsResolve` excuses executions with `Interrupted`, because
BTS never asks IB again for callbacks it missed.

`PaperTrader.FairSpec`: weak fairness of `MainThread`, which is the loop with its
handlers: some step of it is taken while one is possible, be it a heartbeat (Eagle
sends them periodically), a frame or a connection attempt; and each working order
ends and each answer is written. Which step the main thread takes, and every other
event, is unconstrained. A retry that finds IB away (`HelloWithoutIB`,
`HeartbeatWithoutIB`) changes nothing, so weak fairness does not count it as a step:
TWS is assumed to come back. `ExitIsFollowed` includes that a session in which
heartbeats keep arriving cannot postpone the exit for ever, because the hello of a
gap session is only accepted with `gap` set, and the heartbeat after the replay
then ends the process.

`EagleSession.SessionFairSpec`: weak fairness of `Listen` and of `Watchdog`, each as a
whole: the asyncio loop keeps running, so the listener takes what has arrived, time
passes, and a due check gets its turn. The socket may close at any time and Eagle may
never send another frame, with one exception: it sends the whole replay it announced,
because `Connect` puts it on the wire. The code would wait for ever for the rest of a
replay that stops short while heartbeats go on.

## 4. Assumptions of the model

- A SQLite transaction is atomic and durable.
- In `PaperTrader` a position read by the runner in a handler is exact at that step.
  `PositionSnapshot` shows how far that is so: a flat reading is real (with the two
  exceptions above); another reading may count a change during the refresh twice, in
  which case it matches neither Eagle nor the lifecycle and the runner refuses.
- The position at IB is short, flat or long by one contract and changes by one.
- `Flatten`, a position closed outside BTS, does not happen while an order works
  or between the snapshot an order is approved on and `placeOrder`. IB offers no
  way to make those atomic.
- Risk, readiness and controls may refuse any order (`OrderRaises`); they are not
  assumed to let one pass or to refuse for a particular reason.
- A heartbeat carries Eagle's global sequence number. With `GlobalHeartbeats` one
  may overtake the replay; without it, heartbeats come in stream order.
- In the runner nobody pauses, changes the settings, resets the kill switch or reports
  profit and loss while it trades; `TradingGates` lets a console do all of it at any
  time. What fixed arguments of the readiness check stand for (reconciliation, clear
  executions) is passed as TRUE by the code, and so by the model.
- An abandoned network thread finishes the `nextValidId` it is in and ends, since the
  loop of the IB client library ends with its connection; at most one is still in it at
  a time (a bound). Positions are answered by the network thread of their connection.
- Kill switch, loss guard and pause are not durable: `Start` makes new ones, and the
  properties of `TradingGates` speak of one life of them.
- `TradingGates` and the local client's session trade an account nobody else trades.
- `EagleSession` has one clock. The code takes the heartbeat's age from the wall clock
  and the grace period from the event loop's; a wall clock set back would break the bound
  of `FreshWhileTrading`. `Beat` is enabled only with nothing in flight, which bounds the
  wire and loses no order of arrival, because a heartbeat between numbered frames is a
  numbered one in the stream.
- `EagleSession` models the client with its coordinator built. As committed,
  `scripts/run_local_eagle_client.py:103` calls `TradeCoordinator(controls)` without the
  required `signal_lifecycle_guard` (`app/trade_coordinator.py:24`) and so ends in a
  `TypeError` before it connects. The handlers and their order are those of that file.
  `scripts/test_eagle_automatic_reconnect.py` and
  `scripts/test_eagle_disconnect_recovery.py` wire the same parts, but count a replayed
  frame after its consumption, and only if it was ACCEPTED. The client's broker holds no
  position, so a hello matches exactly when Eagle is flat, and the comparison, made once
  per session, cannot become out of date.
- Signal ids and event ids are unique at Eagle, and Eagle closes each trade once.
- Observe mode, and the recovery argument of the command line, which raises on
  every path, are left out.
- Between `ConsumeExit` and `ReserveExit` a live exit is consumed with nothing
  reserved. A crash there leaves a position whose exit will not be replayed; the
  next hello finds Eagle flat and refuses, so the process stops (`ExitIsFollowed`
  holds), and a person has to close it. `ConsumedExitIsReserved` is therefore
  checked without crashes, and `ReplayedExitIsReserved`, with the opposite order of
  the commits, with crashes. What holds with crashes is proved: no session forgets the
  lost exit (`ConsumedExitIsTracked`), and one that remembers it does not trade
  (`NoTradeOverGap`).

## 5. Proofs

`*Proofs` modules hold theorems that hold for every value of the constants, from
the named assumptions (`BoundsAssumption` and the like: bounds are naturals,
`NoEvent` is no event, ids are naturals).

| module | theorem | argument |
|---|---|---|
| `EventStoreProofs` | `SpecStoreTypeOK`, `SpecAcceptedOnce`, `SpecAcceptedIsDurable`, `SpecAcceptedInOrder` | `IInv` = `StoreTypeOK`, `AcceptedOnce`, `AcceptedIsDurable`: the verdict ACCEPTED implies a new id and a number above the cursor, and `AcceptedIsDurable` puts everything accepted at or below it |
| `ExecutionLedgerProofs` | `SpecTypeOK`, `SpecHistoryExplainsRecord`, `SpecBrokerStateHasOrderId`, `SpecRecordsAreFinal` | every step is one `Write` (`StepIsWrite`), and `WriteEffect` says what one does to its event and that it leaves the others alone |
| `IBOrderIdsProofs` | `SpecTypeOK`, `SpecFloorHolds`, `SpecFlooredIdsUnique`, `SpecAllocatesInitialized`, `SpecAllocatorMonotone` | needs `Initialized` (a network thread past `nextValidId`, and a main thread past the refresh, have an initialized allocator) and `NextIsFresh` (the next id is above everything allocated); `FloorHolds` alone is not inductive because `MarkSubmitted` raises `durable` to the id in hand |
| `IBOrderIdsProofs` | `SpecUniqueUnlessReset` | `BelowSequence`: without a reset the ledger is below IB's sequence, but for one id recorded and never placed, whose unresolved execution keeps the next process from starting; so the first id a process is offered is above the ledger, and the allocator stays there |
| `IBOrderIdsProofs` | `SpecFreshUnlessReset` | `AboveSequence`: the allocator starts at IB's next id and both are raised by the same placements, so an allocated id is not below IB's next one either |
| `IBExecutionProofs` | `SpecTypeOK`, `SpecSubmittedBeforeBroker`, `SpecOneOrderPerEvent` | the id in hand of the main thread is carried by no record and no order until it is written, and the record in hand is still a reservation, because the network thread finds no owner for it |
| `IBExecutionProofs` | `SpecImplementsLedger` | under that invariant the status a thread checked is still there when it writes: the main thread owns reservations, the network thread everything with an id. Every step is a ledger step or leaves `records` and `history` alone |
| `IBExecutionProofs` | `SpecLedgerFollowsBroker`, `SpecExecIdsAreBacked` | `TruthInv`: whatever is on the wire or in the network thread's hands is true of IB's order and cannot cease to be (`WireTruthful`, `NetTruthful`), for an order only fills further and its end is final (`OrdersGrow`); a record's status is what such a message said and is in its history (`LedgerTruthful`); the fill behind an execution id is in the history before the id is recorded (`ExecsTruthful`) |
| `IBExecutionProofs` | `SpecHistoryExplainsRecord`, `SpecBrokerStateHasOrderId`, `SpecRecordsAreFinal` | the properties of the abstract ledger, from `ExecutionLedgerProofs` through the refinement |
| `PositionSnapshotProofs` | `SpecTypeOK`, `SpecStableWhenComplete` | a completed snapshot is not in progress (`NotBoth`), and a row is added only to one in progress |
| `PositionSnapshotProofs` | `SpecFlatIsReal` | `FlatInv`: as long as nothing timed out at most one request or end mark is under way, and only while the runner waits for it (`AskedInv`); so the end mark comes behind the row of an account that is not flat (`AnswerInv`); rows of one sign never add up to zero again (`HeldInv`) |
| `TradingGatesProofs` | `SpecGatesTypeOK`, `SpecAtMostOneLate`, `SpecNoneBegunClosed` | a request is *cleared* of a gate once it is past the last check of it; an order counts as late only while the gate is closed and no request is cleared (`LateInv`), the same holds of a barred gate (`BeginInv`), and the guard is tripped exactly if the worst total reached the limit (`LossInv`) |
| `TradingGatesProofs` | `SpecPositionBounded` | `AccountInv`: the bound counts in what still works at IB; while something works the record is SUBMITTED, so no request is under way, and the position a request was judged on is still the position; the order is for the whole quantity, so what is held and still works is whole |
| `EagleSessionProofs` | `SpecSessionTypeOK`, `SpecNothingMissed`, `SpecCompleteMeansDrained`, `SpecReplayNeverApproved`, `SpecFreshWhileTrading` | `SessionInv`: no frame overtakes a lifecycle frame with a smaller number (`WireInv`); every lifecycle frame of the stream is consumed or on the wire (`WaitInv`); as many frames of the replay are on the wire as are still to be counted (`CountInv`, by cardinalities); trading is open only after the replay (`OpenInv`); the age and the rest of the watchdog's nap are together at most timeout plus interval (`FreshInv`) |
| `EagleSessionProofs` | `SpecSessionImplementsStore`, `SpecSessionAcceptedOnce`, `SpecSessionAcceptedInOrder` | a handler writes to the store only by one of its actions, with a number of the stream, and no end of a process touches it; the rest is `EventStoreProofs` |
| `PaperTraderProofs` | `SpecTypeOK`, `SpecExposureIsOwned`, `SpecOrdersMatchPosition`, `SpecMissedNeverTraded`, `SpecReplayedExitIsReserved`, `SpecConsumedExitIsReserved`, `SpecNothingSkipped` | the invariant described below |
| `PaperTraderProofs` | `SpecOrdersFollowReplay` | `AuthorizedInv`: a session is authorized only once its replay is drained, and an event is on its way to an order only in such a session; with `StoreInv`, a live event under way was not consumed by a replay |
| `PaperTraderProofs` | `SpecImplementsStore`, `SpecAcceptedOnce`, `SpecAcceptedInOrder` | every step of the runner, of Eagle and of IB is a store step or leaves the store alone, because the number of the frame under way is one of the store's (`WindowInv`); the properties of the store follow from the theorems of `EventStoreProofs`, instantiated |
| `PaperTraderProofs` | `SpecImplementsLedger`, `SpecRecordsAreFinal` | a step changes at most one status, along the path from a reservation to its end (`LedgerMoves`), and such a move is one operation of the ledger (`MoveIsALedgerStep`); reserving needs that the event under way has no record yet (`UnreservedInv`) |
| `PaperTraderProofs` | `SpecPlacedOnce` | an event is *gone* once its status is past RESERVED and the runner does not hold it between the mark and the order; only a RESERVED event is marked, so what is gone stays gone |
| `PaperTraderProofs` | `SpecLifecycleFollows` | a signal is opened by an entry that was new, and closed by an exit whose fill, or whose flat account, the books agree on (`BooksInv`, `OwnerInv`) |
| `PaperTraderProofs` | `SpecStartFindsNothing` | a working order or an answer under way has the status SUBMITTED (`BrokerInv`), for an event that is an entry or an exit (`OrdersInv`), which keeps a start from passing; nothing is heard by a process that is down (`DownInv`) |
| `PaperTraderProofs` | `SpecConsumedExitIsTracked`, `SpecExitIsTracked` | a hello accepts a flat Eagle over an owned position only with the gap flag, and only the consumption of a recovered exit clears it; until then what `recover_replayed_owned_exit` found stays true (`RecoveryInv`). With stream-order heartbeats a frame a session is past was consumed (`SpecNothingSkipped`) |
| `PaperTraderProofs` | `SpecNoTradeOverGap` | `SuspectInv`: under the flag the owner of the exposure stays open, and no exit of an open signal is still to come as a live frame; so a live exit finds nothing to close, and a live entry finds something open. It needs that Eagle had no Bitcoin trade open at the hello, and that BTS takes up no other (`BitcoinInv`) |

The invariant of `PaperTrader`. None of its properties is inductive: whether a replayed
exit belongs to a position, say, depends on what the lifecycle and the ledger
remember of an entry that an earlier session saw. `IInv` names what each of the books
says of the others, and holds whatever crashes, drops and is closed by hand:

| part | what it says |
|---|---|
| `LogInv` | Eagle's stream has no frame twice, and an exit comes after its entry |
| `WindowInv` | a session stands at one place of the stream, and the frame a step is about is the one at that place |
| `StoreInv` | what was consumed is at or below the cursor; a live frame under way is consumed, and not by a replay |
| `GapInv` | behind the session's place nothing is unconsumed, but the exit that is being recovered. It needs heartbeats in stream order (`~ GlobalHeartbeats`); without them it is false, which is the finding `PaperTraderHeartbeat` |
| `BooksInv` | the lifecycle is open only if the entry was consumed, closed only if the exit was published; the ledger knows an event only after the lifecycle knows its signal |
| `BrokerInv` | at most one order works, for the position it was approved on, and no session is open while an entry works |
| `ApprovalInv` | from the approval to the order nothing of what was checked changes: the account is flat, or owned by the signal alone, nothing works, the exit has not arrived |
| `OwnerInv` | a position at IB has an open signal on its side whose entry is in the ledger |
| `MissedInv` | a missed trade has no execution, and both its frames are history for the session, unless the session itself knows it was missed |
| `ExitInv` | the reservation of consumed exits, with the step between the two commits of a replayed exit |

TLC checked `IInv` on the instances of `PaperTrader` and `PaperTraderOvertaken` before
it was proved, and `TruthInv`, `FlatInv` and `AboveSequence` on the instances of their
modules. The further parts and the properties of `PaperTraderProofs` without a run, the
refinement included, were checked by TLC on the same instances, and on one with two
crashes and two drops, before their proofs.

Three theorems carry a condition. `SpecNothingSkipped` and `SpecExitIsTracked` are stated
for `~ GlobalHeartbeats`, the assumption on Eagle under which a run checks the first.
`SpecConsumedExitIsReserved` is stated for `crashes = 0`: a live exit is consumed first
and reserved second (section 4). Four of the properties state their own exceptions:
`FlatIsReal` (timeouts, an account both long and short), `UniqueUnlessReset`,
`FreshUnlessReset` and `ConsumedExitIsTracked` (the gap flag). `SpecFlatIsReal` says
nothing of what the runner reads after a refresh that timed out.

Model-checked only: liveness (`SubmissionsResolve`, `ExitIsFollowed`, `ReadyOrOver`),
because the prover handles neither fairness nor ENABLED, and `ComponentsTypeOK`, the
conjunction of three type invariants in a module that exists for TLC; each of the three
is proved in its own module (`SpecStoreTypeOK`, `SpecTypeOK`, `SpecGatesTypeOK`). What
`expect: violation` runs show are counterexamples. No module needs a RECURSIVE operator
or induction over data.

## 6. Where code and text disagree

`PROJECT.json` quotes the lines.

- A RESERVED exit cannot be retried: three places call
  `execution_ledger.get_trade_request`, which the ledger does not define, so taking
  one up raises `AttributeError` and ends the process (`PaperTraderReservedExit`).
- The exit of a missed trade, if it comes in a replay after a reconnect, is taken
  for an owned one and ends the process; so does every restart. A replayed exit on
  another instrument does the same (`PaperTraderUnownedExit`).
- A heartbeat during a replay moves the durable cursor past frames not yet
  delivered, which are then never consumed (`PaperTraderHeartbeat`).
- The main thread can apply the durable id floor before `nextValidId` initialized
  the allocator, where it has no effect; after a reset of IB's sequence an id the
  ledger already has is allocated (`IBOrderIdsRace`).

Three more were seen while modelling, and no run of its own shows them. The docstring of
`RiskManager.__init__` (`app/risk_manager.py:54`) keeps risk-reducing closes eligible
under pause, kill switch and daily loss, but the runner then calls `require_ready`,
which refuses every order while paused or killed, and `prepare_event` drops an exit
while paused: the risk manager itself does what it says, the path behind it does not let
such a close through (`NoneBegunClosed` holds for exits too). And the local client
cannot be started as committed (section 4). Finally, the comments of
`IBConnectionManager` (`app/ib_connection_manager.py:163`, `:191`) say that a stale
`nextValidId` cannot satisfy the readiness of a new connection, and that a reconnect
leaves no network loop behind; a thread held up in its callback for longer than the
join or the retry delay can do both (`StaleRecords`). The ids stay unique all the same.

## 7. Plan

Written so far, in order: the two stores, the order ids, the execution path, the
runner, the position snapshot, the trading gates, the local session, proofs of every
safety property the runs check, and of what a trade over several sessions and processes
rests on: one order per event, the two abstract stores implemented by the runner, an
exit that is never lost from sight. What is left, most important first:

1. `SignalLifecycle`: the guard with its two answers (accepted, invalid transition) and
   the last event id of a signal, and the lifecycle of `PaperTrader` as its refinement.
2. The other callbacks of an abandoned network thread, as far as the IB client library
   lets it go on.
