# HFT-Order-Book: specification and proofs

TLA+ models of the bookkeeping core (`include/`), of the FIX gateway (`gateway/`)
with its killswitch, and of the life of the process (`src/main.cpp`), TLC configurations that check them on small
instances, and TLAPS proofs of the main invariants for every instance.

## The system

A trading process keeps an append-only event log in a memory-mapped file and two
in-memory projections of it. `FIXGateway` connects them to an exchange.

| Part | State | Operations | What makes it correct |
|---|---|---|---|
| `EventLog` | file: header (magic, `next_sequence`) and event slots; process: `next_seq_` | `open_or_create`, `append`, `read`, `replay` | a returned append survives death and restart; readers see whole events; the durable part only grows |
| `PositionTracker` | one slot per symbol, at most `MAX_SYMBOLS` | `apply_event` (fills), `mark_to_market`, `get`, `replay_from` | positions reconcile with the fills: shares exactly, money up to truncation |
| `OrderManager` | one slot per order id, at most `MAX_ORDERS`, never given back | `apply_event` (six event types), `get`, `open_exposure`, `for_each_open`, `replay_from` | every slot agrees with the exchange; states only move forward; exposure is what can still trade |
| `RiskChecker` | limits | two `check` algorithms, `set_limits` | no accepted order can take the position past its limit |
| `MessageTranslator` | none | `from_execution_report`, `to_new_order_single`, `to_cancel_request`, `to_fixed`/`from_fixed` | every report with a booking consequence becomes its event |
| `FIXGateway` | `connected_`, `session_id_`, `order_counter_` | `send_order` (strategy thread), `onMessage` (I/O thread), session callbacks, `emergency_cancel_all` | log, tracker and manager stay projections of one stream |
| `Killswitch` | `armed_` | `arm`, `execute`, `cancel_all`, `flatten` | after it ran, nothing is left open at the exchange |
| `main` | `g_shutdown` | start-up and replay, signal handler, strategy loop | a restart reconstructs the state; a shutdown leaves nothing behind and ends |

Interaction: `send_order` checks the risk (reading tracker and manager), takes an
id, appends a `NewOrder`, applies it to the manager and sends it. A report from
the exchange arrives on QuickFIX's I/O thread, is translated, appended, applied to
the tracker and then to the manager. There are no locks; the class comments ask
for a single writer thread. The signal handler runs `cancel_all` at any moment, on either
thread. `Killswitch.h` also has `arm`, for a handler that leaves the work to the strategy loop, but no code reads
its flag. On start both projections are rebuilt by replaying the log.

What is hard: two threads that both append; readers concurrent with a writer;
death at any store or system call; tables that fill up; truncating arithmetic
accumulating over fills; reports that arrive in any legal order, late or twice; a signal
that cancels everything while an order is half sent; cancels that cross fills.
`PROJECT.json` lists these hazards with their lines.

## Modules

| Module | Models |
|---|---|
| `OrderEvent` | the event record, its constructors, the C++ integer division |
| `PositionTracker` | `PositionTracker.h`: `positions` is `slots_[0..count_-1]`; each private function is an operator, `ApplyEvent` and `MarkToMarket` are the mutators |
| `PositionLedger` | the tracker fed with every stream of fills, other events and ticks, next to a broker's statement of the same fills (history variable `ledger`) |
| `AppendLog` | abstract: a bounded log that grows at its end |
| `EventLog` | `EventLog.h`, one action per system call and per store; file and process state are separate variables, and `Die` keeps only the file |
| `MessageTranslator` | `from_execution_report`, `to_new_order_single`, `to_cancel_request` and `to_fixed` |
| `OrderManager` | `OrderManager.h`: one operator per handler, `BookOrder` is `apply_event` |
| `OrderLifecycle` | the manager fed by an exchange (variable `book`, external) through the translator |
| `RiskChecker` | `RiskChecker.h`: the `check` that `send_order` calls, as a function of what it has read, and the overloads for a position alone |
| `Gateway` | `FIXGateway.cpp` and the start-up of `main.cpp`: `send_order` step by step on the strategy thread, `onMessage` and the session callbacks on the I/O thread, death and replay; composes tracker, manager, checker and translator with a session and an exchange (both external) |
| `Killswitch` | `Killswitch.h` on top of `Gateway`: `cancel_all` and `flatten` as loops of one slot per step (`CancelSlot`, `FlattenSlot`), on the thread `kthread` |
| `Shutdown` | one life of the process: the strategy loop, the signal and `emergency_cancel_all` on the thread that takes it, `flatten` called from outside, `stop`, and the ways the process can end; composes `Killswitch` and `Gateway` with the exchange's answers to cancel requests |
| `SlotLemmas` | lemmas on `CDiv` and averages, folds over slots, sums over sequences and finite sets |
| `PositionLemmas`, `OrderLemmas` | what `BookPosition`, `BookOrder` and the replays do to a table |
| `PositionLedgerProofs`, `OrderLifecycleProofs`, `EventLogProofs`, `GatewayProofs`, `ShutdownProofs` | the theorems of each specification |
| `MCPositionLedger`, `MCOrderLifecycle` | symmetry sets for TLC |
| `MCGateway`, `MCShutdown` | the order ids of small instances |

Definitions whose comment starts with "Mutant of" are deliberately wrong versions
of the definition they name. No specification uses them; replacing the original
by one must make TLC report the property `PROJECT.json` pairs it with.

### Modelling decisions

- Prices are integers (the code's fixed point). Symbols and event
  payloads are opaque values; order ids too, up to `Gateway`. Integers are unbounded.
- The event `append` stores is a copy: the caller's event keeps `sequence` 0, so the
  live projections are fed events of sequence 0, as in the code.
- `EventLog`: the 64-byte copy is two steps (`BeginStore` leaves the slot torn).
  Stores become visible in program order, which the release fence before
  `next_seq_.store` gives for the event and the publication. The plain header
  store follows the release store; the model takes them in source order, as x86
  hardware does. The file survives the death of the process whole, since
  the mapping is `MAP_SHARED`; power loss is not modelled (the code has no `msync`).
  `LogFull` throws before any store and is a stuttering step.
- `read(seq)` is a `replay` that stops early, so `ReadSlot` stands for both.
- `ToFixed` is nondeterministic. The double nearest to a decimal price can be a
  little below it, so the truncated product is the tick or the one below.
- `OrderLifecycle` books a report in the step in which the exchange issues it: the
  session delivers reports in order. The book decides what is legal (no fill above
  the quantity, no replace at or below the executed quantity). Order ids are fresh.
- `Amend` events are applied directly: no execution report becomes one. A replace moves
  the limit by a tick or keeps it.
- `Gateway` takes `append` in one step, since `EventLog` implements `AppendLog` with one
  writer. Its results therefore hold for executions in which the two threads' appends do
  not overlap; `event_log_two_writers` shows what happens when they do.
  `CheckRisk` evaluates `open_exposure` in one step; the step before it is the read of
  `net_qty`, so a booking can fall between the two reads.
  A finer interleaving of the sum over the slots could only change whether an order passes
  the check, which the properties checked with two threads do not depend on. Updates of one
  slot are one step: the fields of a slot are written by one thread at a time, since
  the first report of an order follows its projection.
- `SameThread` restricts `Gateway` to calls of `send_order` on the I/O thread, which
  `FIXGateway.h` calls the first implementation; `FALSE` is the thread model it documents and that `main.cpp`
  sets up, with the strategy loop on the main thread.
- The session keeps a report until `onMessage` has returned for it and delivers it again
  after a death, as QuickFIX does when its sequence number was not stored. What it cannot
  send it stores. `ResetOnLogon` is `N` in `uat.cfg`, the value the runs use.
- The exchange refuses a `ClOrdID` it knows, and may refuse any other. It trades, cancels on its own, and lets
  expire: `to_new_order_single` sends every order with TimeInForce DAY. Both `OrderLifecycle` and `Gateway`, and with it
  `Shutdown`, have this (`ExpireOrder`); the report of it becomes no event.
- The risk limits are constants: `set_limits` is called by tests only.
- In `Gateway` an id is a prefix and a number. `OrdId` keeps what the 8-byte field of an event
  makes of a counter of six digits.
- A log that is full makes `append` throw. In `onMessage`, which is `noexcept`, that ends the
  process (`TerminateLogFull`). In `send_order` the exception reaches the strategy, which
  `Gateway` lets catch it; in `Shutdown` it reaches `main`, which returns 1 (`Fatal`).
- `Killswitch` sends what a slot needs in the step that reads the slot; the other thread
  runs between slots. Nothing is logged and the manager is not told, as in the code. The
  time budget of `execute` is printed only.
- `Shutdown` follows `main.cpp`: the handler sets `g_shutdown` and runs
  `emergency_cancel_all` on the thread the signal interrupts, which does nothing else until
  it is done; the loop tests `g_shutdown` and nothing else, and a turn of it may send several orders.
  Printing and allocating in a handler is undefined if the thread was
  doing so; the model lets the handler hang there (`kpc = "hung"`).
- `arm` and `is_armed` are not modelled: they set and read a flag that no code in the repository looks at. The deferred
  shutdown that `Killswitch.h` and the repository's README describe does not exist in `main.cpp`.
- `flatten` has no caller in the repository. `CallFlatten` stands for a caller outside it, on the main thread and at any
  time after `cancel_all` while the loop still runs, since the comment of `execute` allows "a fixed timeout".
- `SessionNotFound`, which `cancel_all` and `flatten` catch slot by slot, is not modelled. `main` registers the handler before
  the initiator creates the session, so a signal can come that early; in the life modelled here the tables are empty then, and nothing is sent.
  On a restart whose replay found open orders, such a signal would lose their cancels.
- There is one signal. A second one would number its requests from `KS1` again.
- The exchange answers a cancel request under the request's own id: with a cancel, or with an
  `OrderCancelReject` when the order is done. `FIXGateway` has no handler for the latter, and
  the exception of `crack` leaves the `noexcept` `fromApp` (`Terminate`).
- `Shutdown` has no restart: `gateway_crash` and the runs beside it are about that.

## Runs

| Run | Result | Bounds |
|---|---|---|
| `position_ledger` | pass | 4 fills of 0, 1 or 2 shares at 3 prices, 2 symbols for 1 slot; ticks unbounded |
| `event_log` | pass | 1 writer, 2 readers, 2 payloads, 3 slots, 3 faults |
| `event_log_two_writers` | violation of `ReturnedSurvives` | 2 writers, no fault |
| `order_lifecycle` | pass | 3 orders of up to 2 shares in 2 symbols for 2 slots |
| `order_expiry` | violation of `ExposureOfLiveOrders` | 2 orders for 2 slots |
| `gateway_threads` | pass | 2 orders of up to 2 shares in 2 symbols, both sides, no death |
| `gateway_crash` | pass | 2 orders, 2 deaths, 5 log slots |
| `gateway_risk_race` | violation of `WithinLimit` | 2 orders, buys only, two threads |
| `gateway_resend` | violation of `NoFillTwice` | 1 order, 1 death |
| `gateway_id_reuse` | violation of `LiveOrdersKnown` | orders of 1 share, 1 death |
| `shutdown` | pass, with a liveness property | 2 orders of up to 2 shares, buys only, 1 signal, 3 log slots |
| `shutdown_race` | violation of `NothingLeftOpen` | 2 orders of 1 share, 1 signal |

Why the bounds are enough: four fills of at most two shares open, extend, reduce,
close, cross and reopen a position in both directions, and prices 1, 2, 4 make the
averages inexact. Three slots let a log be empty, partly written and full, with a
death in each append and a restart on the full log; three faults allow a death
during creation, during an append and during the restart that follows. Two slots suffice for
everything within an order and for the sum of two; three orders for two slots reach the full
table with orders in every state. A fill at 5 is booked at 4 or 5 (`ToFixed`), which makes the
average of two inexact. Order ids and symbols are interchangeable, which
the symmetry sets use. In `Gateway` two orders let a fill of the first fall between any two
steps of the second, and two shares give a partial fill; five log slots are fewer than two
orders and their reports need after a death, so the log fills up in `send_order` and in `onMessage`.
One price is enough there: no property of `Gateway` is about money. In `Shutdown` one order can
be live, part filled or on its way while the other is at any step of `send_order` when the signal
comes; three log slots hold an order with its fill and the closing fill, two orders and a
fill, or an order with a partial fill and the confirmation of its cancel, and a fourth event meets a full log.

`CHECK_DEADLOCK FALSE` is set for `OrderLifecycle` and `Gateway`, since nothing is left to happen
when every order id has been used and is done, and for `Shutdown`, whose process ends.

### Fairness

Only `ShutdownSpec` assumes fairness. A thread that is inside `send_order`, `onMessage` or the
killswitch goes on, and `main` goes on through `stop` (weak fairness): they are plain code without locks or waits. The test
of the loop (`LeaveLoop`) has strong fairness: the strategy's calls disable
it again and again, but the loop comes back to its test after every turn. The exchange, the
session (logon, logout, delivery), the caller of `flatten` and the signal are free to do nothing for ever. The run passes
without any of them, which is the point of `ShutdownEnds`: no step of a shutdown
waits for the other side. A handler that hangs is allowed to hang for ever, and the property says so.

### What the violations show

- `event_log_two_writers`: `send_order` and `onMessage` append on two threads; both load
  the same `next_seq_` and an event is overwritten after its `append` returned.
- `order_expiry`: the exchange lets an order expire. Its report falls into the `default` of
  `from_execution_report`, no event is made, and `open_exposure`, "across all live orders", counts the order for ever.
- `gateway_risk_race`: a fill booked between the reads of `net_qty` and of the open
  exposure is counted in neither, and an order passes that breaches the limit. With
  everything on one thread and a strategy that only buys the limit holds: that is proved (`GatewayWithinLimit`).
- `gateway_resend`: a death between `append` and the end of `onMessage` makes the replay
  book the fill and `onMessage` book it again when the session delivers the report a second time: the tracker then
  holds more than the exchange traded.
- `gateway_id_reuse`: `order_counter_` starts at 0 again after a restart, so two orders can have
  one id and one slot. Whichever is refused closes it while the other is live: the late rejection of the first closes the
  second, or the rejection of the second closes the first.
- `shutdown_race`: the signal comes while `send_order` is past its risk check. The handler
  cancels what is open, returns, `send_order` books and sends its order, the loop ends, and
  the process exits with that order open.

### Limits the passing properties state

The passing properties are worded so that they show where the code stops short of more:

- `RoundingBounded` is a bound and not an equality: a round trip need not realise exactly
  the cash that changed hands, since the stored average is truncated.
- `FillsAccounted` and `MirrorsExchange` exempt symbols and orders that find a full table;
  these are dropped silently. Slots of finished orders are not given back, so `MAX_ORDERS`
  (512) counts all orders of the life of the log.
- `RefusedHoldsNothing` does not say that a start succeeds. A death between
  creation and header leaves a file every later start refuses; no event of any life is in it.
- `FlatIsClean` is about the entry price and the unrealised PnL. `last_price` survives a flat position, and ticks are
  dropped while it is flat: a position that is opened again is valued at the old mark until the next tick.
- `ReplayRebuilds` leaves out `opened_seq`, `last_seq` and `last_updated_seq`: `append`
  numbers its own copy, so they are 0 in live projections and not in replayed ones.
- `WithinLimit` is proved for a strategy that only buys. `open_exposure` nets pending
  buys against sells, so with both sides open, orders beyond the limit pass.
- `MirrorsExchange` does not compare the state of an order that expired; `ExposureIsLeaves` and `OverloadsAgree` leave out
  symbols with an expired order, and `OnlyCancelledLinger` the expired orders themselves: the manager keeps them open, as
  `order_expiry` shows.
- `OpenHasRemainder` is about the manager's own numbers, and about replaces above what is filled. `handle_amend` would leave an
  order open with a remainder of 0 or less after a replace at or below it.
- `OnlyCancelledLinger` allows the orders the killswitch cancelled to stay open in the manager:
  `from_execution_report` books by `ClOrdID`, which in a confirmation is that of the request
  (`KS1`), so the cancel event finds no order.
- `CancelsCover` is about orders sent before `cancel_all` began and a process that is up. One that dies on an
  `OrderCancelReject`, a full log in `onMessage`, or an
  exception of `send_order` leaves what it has not cancelled yet.
- `ShutdownEnds` counts these deaths as ends, and a handler that hangs as an excuse.
- `FlattenNeverReverses` is checked with a strategy that only buys. A sell of the strategy that
  is still live when `flatten` runs can fill next to the closing order.
- `execute` does not flatten, although a comment in the repository's README (line 294) says so.

## Properties

`PositionLedger`: `FillsAccounted` (shares, one slot per symbol, only a full table
loses a symbol), `RoundingBounded` (money), `FlatIsClean`, `UnrealizedInSync`,
`AvgWithinTraded`.

`EventLog`: `ReturnedSurvives`, `ReadersSeeLog`, `DurablePrefix`,
`RefusedHoldsNothing` (a file that `open_or_create` gives up on was never stored into), and `ImplementsAppendLog`: with `log` mapped to the payloads
below the header's `next_sequence`, `EventLog` implements `AppendLog`; only the header
store is a `Commit`.

`OrderLifecycle`: `MirrorsExchange`, `AvgFillFaithful`, `OpenHasRemainder`,
`ExposureIsLeaves`, the action property `ForwardOnly`, and `ExposureOfLiveOrders`, which expiry violates.

`Gateway`: `LogBeforeExchange` (an order that left is in the log), `NoFillLost` (a traded
share is in the log or in a report still to be delivered), both across deaths;
`FillsBookedOnce` (the position is what the exchange traded, up to reports under way),
`LiveOrdersKnown` (a live order is open in the manager), `ReplayRebuilds` (between bookings
a replay of the log gives the live projections, although the threads append and apply in
different orders), as long as the process lives; `WithinLimit` (whatever of the live
orders trades, the position stays within `max_net_position`), which two threads violate;
`NoFillTwice` (the tracker holds no more than the exchange traded), which a restart violates;
`OverloadsAgree` (once all is booked and closed, the check of the position alone and the full
check agree for a symbol that has traded and has no expired order: no order that was filled, cancelled or refused lingers in the exposure).

`Shutdown`: `CancelsCover` (when `cancel_all` has ended, every order sent before it began is
done or has a cancel behind it), `FlattenNeverReverses` (what the exchange holds covers everything that is still to be
sold, by live orders and by orders on their way, even if no open buy trades),
`OnlyCancelledLinger` (when nothing is under way, the orders that were filled, refused or cancelled and are still open in the
manager are no more than the confirmed cancels of the killswitch), and the liveness property
`ShutdownEnds` (a signal leads to the end of the process, unless its handler hangs).

## Proofs

TLAPS checks every proof below for all values of the constants that satisfy the
named `ASSUME`s of the modules: prices are integers in the tracker and naturals
(positive for `OrderLifecycle`) where orders carry them, quantities and capacities are naturals.

| Specification | Proved | Hypotheses |
|---|---|---|
| `PositionLedger` | `TypeOK` and the five invariants | none |
| `EventLog` | `TypeOK`, the four other invariants and the refinement of `AppendLog` | `SingleWriter` |
| `OrderLifecycle` | `TypeOK`, `MirrorsExchange`, `AvgFillFaithful`, `OpenHasRemainder`, `ExposureIsLeaves`, `ForwardOnly` | none |
| `Gateway` | `TypeOK`, `LogBeforeExchange` | none |
| | `NoFillLost` | `~ResetOnLogon` |
| | `ReplayRebuilds` | `[]OneLife` |
| | `FillsBookedOnce` | `[]up`, `~ResetOnLogon`, finitely many ids and symbols, a slot for every symbol |
| | `LiveOrdersKnown` | `[]SlotForAll` |
| | `OverloadsAgree` | `[]SlotForAll`, `~ResetOnLogon` |
| | `WithinLimit` | `SameThread`, `StrategySides = {"Buy"}`, `[]SlotForAll`, `~ResetOnLogon`, finitely many ids and symbols, a slot for every symbol |
| `Shutdown` | `CancelsCover`, `OnlyCancelledLinger` | `[]CounterFits`, `~ResetOnLogon` |
| | `FlattenNeverReverses` | `[]CounterFits`, `~ResetOnLogon`, `StrategySides = {"Buy"}`, finitely many ids and symbols, a slot for every symbol |

A theorem `Spec /\ []H => []P` speaks of the time up to the first state without `H`: `Gateway`
has no fairness, so every finite prefix in which `H` holds is one of a behaviour that
stops there. `up` is false after the first death. `OneLife` adds that at most 100000 ids were given
out, since from then on the 8-byte field makes ids equal; `SlotForAll` adds that
`MaxOrders` slots cover them. `CounterFits` is the same for the one life of `Shutdown`, whose theorems also assume
`KillIds`: the set of ids has those that the killswitch makes. The fairness of `ShutdownSpec` asks for no new order, so it takes no
prefix away. The hypotheses are the limits of the code, and runs show that they are
needed: `gateway_resend` for `up` in `FillsBookedOnce` (a fill that is booked twice breaks it), `gateway_id_reuse` for one life in `LiveOrdersKnown`,
`gateway_risk_race` for `SameThread` in `WithinLimit`, `event_log_two_writers` for `SingleWriter`. With `ResetOnLogon` a logon empties the session in both directions, and a
report that was under way is gone.

### `PositionLedger`

The invariants are not inductive one by one: the rounding
bound needs the entry price of a flat slot to be 0 and the slot's shares to agree
with the statement, and the price range needs that only an open slot has one. `IndInv`
therefore puts all of them into `SlotOK`, per slot and statement, adds that a symbol
has one slot and that an untracked symbol's statement is clean while the table has
room. `BuyKeepsSlot` and `SellKeepsSlot` show `SlotOK` is kept, by an averaging and by a
reducing fill; `FillIndInv` lifts that to the table; `AveragedBound`, `AveragedRange` and
`CDivBound` are the arithmetic.

### `EventLog`

`IndInv` adds where the
append in progress stands relative to the header (`WriterInv`: the slot being written
is the one the header names, `next_seq_` is ahead by one exactly after the release
store), what a file's creation has reached (`CreationInv`) and that readers are
inside the published part (`ReaderInv`). `StepRefines` maps each step to a `Commit` or
a stutter. The gateway does not meet `SingleWriter`.

### `OrderLifecycle`

`IndInv` relates each slot to the exchange's entry of its order (`SlotFollows`: identity, filled
shares, state, average with its rounding allowance), with one slot per order, no order
without a slot while the table has room, and nothing traded of an order that was not
sent. An average between traded prices needs the filled shares to agree, and a
remainder needs that the book never trades above the quantity, so the parts hold only together.
`ForwardOnly` follows from the same case split, step by step (`SlotsAdvance`).
`ExposureIsLeaves` needs no further invariant but the algebra of two sums: `open_exposure` folds over
the slots, the exchange's figure is a sum over ids, and the map from open slots to ids is injective.

### `Gateway`

`IndInv` holds through every death. It says what each thread holds between its steps
(`RequestOK`, `ReportAtHand`) and that all sequences are well typed, with the messages of the killswitch among them, so that
`ShutdownProofs` can use it. `LogBeforeExchange` is carried next to it, since the orders of `flatten` are not logged. The other
theorems each need a relation between the log, the tables, the session and the exchange
that holds in the middle of a handler too:

- `FillsKept` counts the reports that the log has not got (`Unlogged`), since `NoFillLost` alone is lost when a
  process dies between `append` and the end of `onMessage` and the report is taken again.
- `OrdersRebuilt` and `PositionsRebuilt` compare a replay with the tables as they will be when both handlers
  have finished (`WithReport`, `WithRequest`, `Tracked`). The threads append and apply in different
  orders, so bookings must commute: they are for different ids, which `IdsIssued` gives
  (every id seen outside is one the counter has passed), and the event that takes a new slot is a `NewOrder` only.
- `Reconciles` is the equation of `FillsBookedOnce` over `Untracked` reports, with one slot per symbol and
  every report on the symbol and the side of the exchange's entry.
- `OrdersKnown` follows an order from `apply_event` through the session (`Awaited`: open, and
  nobody has heard of it) to the exchange (`Covered`, of an order that is live or has expired: open, filled shares
  and reports under way do not exceed what traded, and no closing report is under way).
- `NothingLingers` is the converse: an open slot has something due (`Due`: the order is in `send_order`, on its way,
  live, expired, or a closing report is under way), a closing report is the last one of its order, and
  the filled shares and the reports under way add up exactly. In a quiet state with an empty session only
  live and expired orders are due, so every slot of a symbol without one is closed and its `open_exposure` is a sum of zeros. The steps are
  proved for `LingersBut(z)`, which excepts the orders of a set `z`: here none, in `Shutdown` the cancelled ones.
- `LimitKept` is what `check` keeps up: the position without a report that only the tracker has
  booked (`HalfBooked`), plus the open exposure, plus the order that has passed and has no slot yet (`Asked`), is
  within `max_net_position`. A fill keeps it because its slot gives back at least what the tracker books
  (`SlotReleases`), which needs the exact count of `NothingLingers`. `OnlyBuys` keeps every contribution to the exposure
  from below 0, so that no order can hide another one. `WithinLimit` follows by comparing sums: what is held is what was
  delivered plus the reports under way (`NetDelivered`, `HeldAndExposed`), and those reports and what is live fit in
  the open slots, each in its own (`SlotCovers`, `ExposureCovers`).

### `Shutdown`

A step of `Shutdown` is a step of `Gateway`, a step that leaves `Gateway`'s variables alone, a message of the killswitch
(`CancelSlotSends`, `FlattenSlotSends`), or the exchange's answer to a cancel request. `ShutInv` is `IndInv`, `IdsIssued` and `OrdersKnown` of
`GatewayProofs`, kept by those steps too, with

- `Control`: where `main`, the signal and the killswitch can be at the same time;
- `KillIdsFresh`: nobody has seen an id the killswitch has still to give out, so the answer to a request is never
  taken for a report of an order, and the orders of `send_order` are all there are until `flatten` begins (`NoFlattenOrder`);
- `TargetsKnown`: while the loop of `cancel_all` runs, an order that was sent before it began is dealt with or has its slot ahead of
  the loop. It has a slot because `send_order` books before it sends, and the slot is open because of `OrdersKnown`, whatever the
  other thread books between two turns of the loop.

`FlattenInv` carries the worst case of the account (`WorstOf`): every sell that is live or on its way trades in full and no buy
trades any more. That is not below 0, since only `flatten` sells, each symbol once (`Ahead`), and no more than the tracker has
booked, which by `Reconciles` is at most what the exchange has traded (`WorstAhead`). `WorstLeaves` shows that
it is what is held less what is still to be sold, which is what `FlattenNeverReverses` speaks of.

`LingerInv` is for `OnlyCancelledLinger`: there is a set of orders, each cancelled at the exchange with an open slot that no report
under way will close (`StaysOpen`), everything else is as `NothingLingers` says (an expired order is due for ever), and the set has as many members as there are
confirmations in the log or under way (`Answered`). A confirmation adds one order to the set (`LingeringGrows`) and moves
from the session into the log without a change of the sum (`AnsweredBooked`). No other step touches the set, since the ids of
requests are those of no order (`KsApart`) and the exchange has nothing more to say of an order it cancelled (`CancelledStays`).

### Induction over data

The provers cannot instantiate an induction theorem with a predicate of ours. `SlotLemmas` avoids it: a set of
the `k` in `0..n` for which a fact holds is shown to be all of `0..n` (a least `k` outside it would follow
one inside), and folds are characterised through this once (`FoldExists`, `FoldPrefixes`, `FoldIsSum`). Replays and
sums are then reasoned about through lemmas such as `ReplayOrdersFold`, `SumAppend`, `SumExcept`, `SetSumRemove`, `SetSumBySlots`. No proved module
declares a `RECURSIVE` operator.

### Only model-checked

- `ShutdownEnds`: liveness under fairness is out of the prover's reach.
- The six runs that end in a violation. `WithinLimit`, which `gateway_risk_race` violates on two threads, is proved for one
  and has no passing run.

## Plan

All modules, their runs and the proofs listed above are done; every invariant and action property that a passing run
checks is a theorem, under the hypotheses of the table.

## Not modelled

- `set_limits`: the limits are constants, and nothing but tests changes them.
- `arm` and `is_armed`: nothing reads the flag.
- A second signal and the duplicate request ids it sends: what an exchange does with
  them is not in the repository.
- Power loss, the wrap of the 32-bit totals, and the truncation of symbols longer than their field.
- Benchmarks, tests, build files, session settings other than `ResetOnLogon`, QuickFIX itself, logging.
