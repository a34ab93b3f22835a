# Wickra in TLA+

wickra is a streaming technical-analysis library: market data comes in as ticks or
candles, is aggregated into candles of a timeframe, rolled up into coarser ones and fed,
one value at a time, to indicators that keep O(1) state. This directory holds TLA+
modules of the parts of it that keep state, TLC configurations that check them on small
instances, and TLAPS proofs of what matters most for every instance.

Contents: 1 inventory of the system, 2 modules and the code they stand for, 3 runs and
what they show, 4 bounds, 5 fairness, 6 proofs, 7 where code and documentation disagree,
8 what is only model-checked and what is not modelled, 9 plan.

## 1. The system

    exchange --WebSocket--> BinanceKlineStream --klines--+
    CSV file / REST --------------candles----------------+--> Resampler --> indicators
    ticks -----------> TickAggregator --candles----------+                  (chains of them)

Concurrent are the live feed, which is one `async` state machine, and the wrappers of the
bindings, which a garbage collector frees while their callers run. Everything else is
synchronous and single-threaded. The hard part of the library is therefore less locking
than long sequences of calls: state that is left behind by a refusal, a reset, a batch, a
flush or a dropped future, windows kept as something cheaper than the window, and
arithmetic at the edges of `i64` and `f64`.

| component | state | operations | interacts with | correct when |
|---|---|---|---|---|
| live feed, `wickra-data/src/live/binance.rs` | socket, `closed`; inside the pending future: read timer, back-off sleep, attempt count, delay | `connect`, `next_event`, `reconnect`, `close` | exchange; the caller, who may drop the future at any await | klines are handed over once and in order, none is lost by dropping a future, a dead connection is replaced or reported, closed is final |
| its C ABI, `bindings/c/src/lib.rs` | boxed stream and runtime | one poll = `block_on(timeout(ms, next_event()))` | Go, C#, Java, R | the same, with a future dropped at every timeout |
| tick aggregator, `wickra-data/src/aggregator.rs` | the open bar | `push`, `flush`, gap filling | its caller, often a resampler | the candles are those of a batch over the accepted ticks, evenly spaced if gaps are filled, and a refusal costs nothing |
| resampler, `wickra-data/src/resample.rs` | the bar being rolled | `push`, `flush`, `resample_all` | aggregator, CSV reader | the same for candles; going through a finer timeframe changes nothing |
| handles of both in the C ABI | a buffer of candles not yet fetched | `push`, `drain`, `flush` | bindings | every candle can be fetched once and in order |
| candle and tick types, `wickra-core/src/ohlcv.rs` | none | validating constructors | everything | only ordered, finite candles exist |
| indicator contract, `wickra-core/src/traits.rs` | per indicator | `update`, `reset`, `batch_nan_into`, `batch_fast_into`, `warmup_period`, `is_ready`, `Chain` | composed by `Chain` | batch equals streaming, reset equals new, warm-up is exact, a rejected input leaves no trace |
| indicators, `wickra-core/src/indicators` (over 500) | rings, running sums, deques, sorted windows, the bars of alternative charts | as above | - | each its definition over its window |
| bar builders, `renko_bars.rs` and nine others | the open bar or the last line | `update` (zero or more bars), `reset`, `batch` | - | the bars cover the candles without gap or overlap, and a jump is the bars of a walk |
| calendar, `wickra-core/src/calendar.rs` | none | civil date, hour, weekday | session indicators | the proleptic Gregorian one, with an offset, before 1970 too |
| fast kernels, `fast.rs`, `wickra-simd` | none | SIMD batches | indicators | within tolerance of the exact batch |
| CSV reader, `wickra-data/src/csv.rs` | byte-order-mark prefix, reader position | `open`, iteration | resampler | rows in order, mark stripped however the reads fall |
| REST fetcher, `live/binance_rest.rs` | none | one request | - | - |
| wrappers of the Go, Java and C# bindings | the handle, closed, the finalizer or Cleaner action | methods, `Close`/`close`/`Dispose`, finalization | the collector's thread, C ABI | a handle is freed once, in the end, and never while a call uses it |
| the rest of the language bindings | handles | generated wrappers | C ABI | - |

Where it is hard:

- *dropped futures*: a poll that times out drops `next_event` at whatever await it is in;
  the timers and the loop counters go with it, the socket does not;
- *network*: connections end, fall silent, deliver frames that do not parse; handshakes
  fail and are retried with back-off;
- *garbage collection*: a wrapper may be found unreachable from the last use of its own
  object on, which is before the native call returns that was given its pointer;
- *late knowledge*: a pivot is confirmed candles after it happened, a stop is predicted from
  yesterday's, a day ends only with the first candle of another;
- *short reads*: a byte-order mark may arrive a byte at a time, or break off;
- *order*: ticks and candles may come out of order, before, inside or after the open bar;
- *partial failure*: a call that closes one bar, fills a gap and opens another may fail in
  the middle; `close` may fail on the socket;
- *numbers*: timestamps at both ends of `i64`, volumes and sums that overflow `f64`, sums
  that drift;
- *two implementations of one thing*: streaming and batch, which must agree to the bit.

`PROJECT.json` lists every hazard at its line with the properties that watch it.

## 2. Modules

| module | models | extends / instantiates |
|---|---|---|
| `FeedContract` | abstract: what a live feed promises, no sockets, no time | |
| `BinanceFeed` | `next_event`, `reconnect`, `close`, the poll of the bindings, the network, discrete time | refines `FeedContract` |
| `Candles` | bars, `Timeframe::floor`, `OpenBar`, gap filling: the operators the two aggregating components share | |
| `CandleBatch` | reference: the candles a list of inputs amounts to, defined at once | `Candles` |
| `TickAggregator` | `TickAggregator::push` and `flush` | `CandleBatch` |
| `Resampler` | `Resampler::push` and `flush` | `CandleBatch` |
| `ResamplerHandle` | the resampler behind the C ABI's push / drain / flush | `Resampler` |
| `DataPipeline` | ticks -> fine candles -> `resample_all`, next to the direct aggregation | `TickAggregator`, `Resampler`, `CandleBatch` |
| `CandleSource` | abstract: what a reader of rows promises | |
| `BomStripReader` | the byte-order-mark adapter, over short and failing reads | |
| `CandleReader` | header validation, the rows one by one, `read_all` | `BomStripReader`, refines `CandleSource` |
| `Floats` | `f64` arithmetic on a coarse grid: rounding, overflow, NaN | |
| `SmaState` | the fields of `Sma` and the operators on them | `Floats` |
| `SlidingWindow` | abstract: what an indicator over a fixed window promises | |
| `Sma` | `update`, `reset`, exact batch lap by lap, fast batch, next to a replay of `update` | `SmaState`, refines `SlidingWindow` |
| `Drawdowns` | `MaxDrawdown` in two halves, `RunningDrawdown`, `DrawdownDuration` | |
| `RollingWindows` | `Wma`, `StdDev` over `rolling_moments.rs`, `MedianMa` and `MedianAbsoluteDeviation` over `sorted_window.rs` | |
| `MonotonicDeques` | `UlcerIndex` and `Stochastic`, which know the extreme of a window from a deque | `Drawdowns` |
| `Chain` | the contract of an indicator and of a chain of them: `update`, `reset`, `warmup_period`, `is_ready`, `value` | `SmaState`, `RollingWindows`, `MonotonicDeques` |
| `PriceBars` | renko, range, kagi, point-and-figure and line-break bars | |
| `ActivityBars` | tick, volume, dollar, imbalance and run bars | `PriceBars` |
| `BarBuilder` | the contract of a bar builder: `update`, `reset` | `ActivityBars` |
| `Sessions` | the calendar; indicators that start afresh with the day, the month or the stream | `Drawdowns` |
| `Swings` | zig-zag and the swing tracker, fractals, pivots, waves, Ichimoku | `Drawdowns` |
| `TrailingStops` | percentage, step and renko stops, Nrtr, Psar | `Drawdowns` |
| `Demark` | `TdSetup`, `TdLines`, `TdRiskLevel`, `TdSequential`, `TdCombo`: counts, and counts armed by counts | `Swings` |
| `CandleIndicator` | the contract of an indicator fed with candles: `update`, `reset` | `Sessions`, `Swings`, `TrailingStops`, `Demark`, `MonotonicDeques` |
| `NativeHandle` | the wrappers of Go, Java and C# next to a collector | |
| `*_proofs` | theorems about the module of that name | |
| `Handles_proofs` | theorems about `Resampler`, `ResamplerHandle` and `NativeHandle` | |
| `Indicators_proofs` | theorems about `Sma`, `CandleIndicator` (trailing stops) and `BarBuilder` | |
| `MC*` | values a `.cfg` cannot write: negative numbers, records, sequences | |

How state and actions correspond:

**BinanceFeed.** `conn`, `inbound` are the socket; `closed` the flag; `call` says where the
pending future stands (`idle`: there is none, `reading`, `backoff`, `opening`), and
`attempt`, `delay`, `waitLeft` are the locals of `reconnect` and of the read timeout, lost
when the future goes. `Poll` makes a future, `PollExpires` drops it from whatever await it
is in, the `Read*` actions are the arms of `next_event`'s match, `BackoffOver`, `OpenOk`,
`OpenFailed` and `OpenExhausted` are the reconnect loop. `Tick` passes time, only while
the future is blocked, since tokio polls the wrapped future before its deadline. The
exchange, the network and the clock are environment and marked external.
The order of an arrived frame, an expired read timer and an expired poll is the code's:
the frame wins.

**Candles, TickAggregator, Resampler.** Prices and volumes are small numbers, `Infinity` the
volume a sum overflows to, `TsMin .. TsMax` the range of `i64`, so saturation and checked
addition are the code's. The arms of `push` are actions of their own. Each machine
records, as history, the inputs it accepted and the candles it returned since the last
flush; `CandleBatch` says what they should be.

**ResamplerHandle.** The caller is free: it may push onto a buffer it has not emptied, which
replaces the buffer; `overrun` remembers that it has.

**Floats, SmaState, Sma, Chain.** A float is an integer of a few significant bits, rounded to
nearest-even, with infinities and NaN; so `a + b - a` need not be `b` and a running sum
drifts. `BatchInput` is one turn of the inner loop of `batch_nan_into`, `LapOver` what
follows a whole lap, `BatchEnd` the partial lap and the cursor. The values of the SIMD
kernel are not modelled but the state it leaves is. A batch the code delegates to `update`
is a run of `Update` steps. A chain is a sequence of stages, left-nested as `then` nests it,
and an indicator on its own is a chain of one.

**CandleReader.** A line of the file is one member of a sequence, the three bytes of a mark
are members of their own. `Check`, `Probe*` and `Read*` of `BomStripReader` are the paths through its `read`;
every size of a short read is taken. `csv::Reader` is external: it reads when its buffer is
empty and carries on behind a row that does not decode. `read_all` is a mode in which rows
are taken until the first error.

**Drawdowns, RollingWindows, MonotonicDeques, PriceBars, ActivityBars, Sessions, Swings,
TrailingStops, Demark.** A struct is a record, its `new` and `update` operators to the record afterwards and to the
answer. Prices are integers. A quotient by a constant is left undivided where the division
decides nothing, and is counted in parts of a `Scale` where it is compared. `Chain`,
`BarBuilder` and `CandleIndicator` put the operators behind the trait the code puts them
behind and keep, as history, what was fed since the last reset; the properties read off
that history, at once and without state, what the answer should be.

**NativeHandle.** `Enter` passes the pointer to the library, `Return` is its return. What the
collector may do between them is decided by `Reachable`: a `KeepAlive` or fence behind the
call keeps the object, a call that is the last use does not. `Counted` are the methods that
go through the count of a SafeHandle; `Update` goes past it (`Live`).

## 3. Runs

| run | asks | answer |
|---|---|---|
| `feed_native` | a Rust caller without a timeout: are types, closing, back-off schedule and attempt bound right; is a drop or stall always replaced or reported? | yes |
| `feed_polled` | a binding that polls: does dropping futures lose, repeat or reorder klines, is the contract implemented, does the feed recover when the endpoint does, is every kline that arrived handed over? | yes |
| `feed_short_poll` | the same with a poll shorter than the first delay | no: never reconnects, never reports |
| `aggregator_fill` | gap filling over ticks in any order: batch definition, even spacing, valid candles, no timestamp overflow, refusals without trace | yes |
| `handle_drained` | the resampler behind its handle, candles in any order at both ends of `i64`: batch definition when ordered, valid and strictly ordered always; can the C caller fetch every candle once and in order, with small arrays and refused pushes in between? | yes |
| `resampler_stale` | is an older candle of the open bucket refused, as documented? | no: it overwrites the close |
| `pipeline` | does aggregating through a finer timeframe give the coarse candles? | yes: exactly unless the fine stage fills gaps, and then still in times, closes and volumes; nothing is refused as older |
| `sma_exact` | is the exact batch a replay of `update` to the bit, is the drift bounded, is the window right, after any mix of streaming, reset and batches? | yes |
| `catalogue` | is the warm-up of an indicator and of a chain exact, does `is_ready` mean emitted, is every later input answered; is every value what the definition says of the window (that of the documentation, but for the cases section 7 names); do the bars cover the stream, is a jump a walk; are sessions, swings, counts and stops what the candles say? | yes, up to overflow of a stage |
| `candle_reader` | marks, half marks, short and failing reads: every row once and in order, only files without a header refused, `read_all` complete? | yes |
| `native_handle` | two wrappers of any kind: freed once, in the end, never under a call - if callers of a Java feed keep it? | yes |
| `java_feed` | the same of a Java feed without that proviso | no: the Cleaner may free it under the poll |

`PROJECT.json` names, for each property of a passing run, a mutant of the code (a dropped
guard, a missing reset, a swapped order) under which TLC finds it violated; the mutants are
the operators marked "Mutant:" in the modules.

The `catalogue` run has three subjects that share nothing, a chain, a bar builder or a
candle indicator, and checks each of them alone (`MCCatalogue`): a state space is the sum
of the three, not their product.

`CHECK_DEADLOCK FALSE` stands where the system may stop: in `Pipeline.cfg`, since a pipeline
that has flushed its last bar, or failed, is over; in `CandleReader.cfg`, since a constructor
that failed leaves no reader; in the two configurations of `NativeHandle`, since wrappers
that nobody holds and that are freed are gone.

## 4. Bounds

- *Feed*: three klines and three unread frames suffice for a kline before, on and after a
  replaced connection with a frame that does not parse in between; timers of 1 to 3 units
  suffice for every order of the three timers, since only their order matters; two or
  three attempts for first, middle and last one. `MaxKlines`, `MaxInbound` are the bounds.
- *Aggregator*: `MaxTicks` = 3 gives a bar, a second tick in it or a gap, and a tick after
  it; ticks at the edges of five buckets of three, of both signs and up to `TsMax`; `MaxGap`
  = 2 is passed, met and exceeded; volumes 1 and 2 with `Infinity` = 4 overflow.
- *Resampler and its handle*: `MaxInputs` = 4 (3 behind the handle) of three shapes of candle at both ends of the range, including
  the bucket the lowest timestamp cuts short; a jump of three buckets buffers three candles
  for arrays of one and two; `MaxOwed` bounds the candles emitted.
- *Pipeline*: buckets 2 and 4, so a coarse bucket has two fine ones; ticks leave holes of
  one and more buckets; neither stage fills gaps (the default of both), one does or both do.
- *Sma*: two significant bits, `Largest` = 24; inputs -3, 2, 12 make sums that round, lose a small
  input and overflow; a window of 3 with a reseed every 2 windows, so that reseeds fall into
  streaming, into a batch and into a mix of both. The state space is finite without a bound.
- *Catalogue*: windows of up to four inputs, which is one more than an eviction and a
  reinsertion need, with a reseed every two laps; inputs with ties, zeros and a negative.
  `Largest` = 384 makes the sums of the moving averages overflow, whose inputs are of its order, and is
  above every answer of the others: those that are kept undivided would otherwise overflow where
  the code's quotients do not.
  Windows forget, so windowed indicators have no bound on the stream; those that remember
  the whole stream see `MaxInputs` = 7 since the last reset, builders `MaxCandles` = 6,
  candle indicators `MostShown` (5 for those of a day, with gaps of days between candles; 7
  or 11 for pivots of several candles to either side; 9 for `TdSequential`, whose goal of six
  puts the qualifying candle at the first of a countdown and leaves room to put off the last). Days are those around the epoch and
  around 29 February 2000, the end of an era of the calendar, with offsets to both sides.
- *Reader*: files of no to six rows behind no mark, one byte of it, two, or all three; a buffer of two,
  which is shorter than the probe. *Handles*: two wrappers, since only the collector
  relates them; the proofs are of any number.

## 5. Fairness

Safety runs need none. The liveness runs of the feed use

- `WF(Runtime)`: the runtime polls a future that is ready and fires timers (tokio's promise);
- `WF(Poll)`: the caller polls again, as the feed loops of the examples do;
- `WF(OpenResolved)`: a handshake that is given the time ends, well or badly. The code puts
  no timeout on it, so this is an assumption about the network: with a server that accepts
  and never answers, `next_event` would wait for ever (listed as a hazard);
- `WF(PongSent)`: the write of a pong ends too, well or badly. It is an await of its own
  outside the read timeout, and what bounds it is the socket, not the code;
- `SF(OpenOk)`, only in `ReachableSpec`: the endpoint comes back, so that a handshake tried
  again and again succeeds once. It is strong because each try may be cut off by a poll.

Nothing is assumed of drops, stalls, frames or `close`.

`CandleReader`: `WF` of `Fill`, `Header`, `Row` and `EndOfRows`, that is, the caller asks for
rows until there are none, as the iterator's users do, and a read of the source returns.
Nothing is assumed of failures. `NativeHandle`: `WF(Proceed(o))`, calls return and the second
half of a close follows the first; `WF(Collect(o))`, a collector that goes on running finds
what is unreachable and runs its finalizer or Cleaner action. The runtimes promise that only for a
program that goes on allocating, which is what `FreedInTheEnd` is about.

## 6. Proofs

Each theorem holds for every value of the constants that meets the modules' `ASSUME`s.

| theorem | statement | along |
|---|---|---|
| `FeedTypes` | types; no sleep above the greater of first delay and cap | inductive itself |
| `FeedInOrder` | klines handed over once and in order | `OrderInv`: types, order, and nothing read, unread or on the socket that the exchange has not produced. Order alone is not inductive: a new kline must be newer than what is there |
| `FeedNoLoss` | a kline that reached the socket is handed over or readable | inductive with the types; one lemma per way a frame leaves the queue |
| `FeedClosed` | closed is final, also after a failed close | inductive itself |
| `FeedKeepsContract` | `BinanceFeed` refines `FeedContract` | step simulation under `OrderInv` and `ClosedIsTerminal` |
| `FeedRetriesBounded` | at most `MaxAttempts` failures before the caller is told; assumes `PollTimeout = NoTimeout` | `Undropped`: the history counter is the loop's counter while nobody drops the future |
| `FeedBackoffFollowsSchedule` | each sleep is the one the doubling schedule gives for its number; assumes `PollTimeout = NoTimeout` | the recursive schedule is shown to exist; the delay carried by the loop is its next value |
| `RolledBarNeverOverflows` | of two timestamps in different buckets, the bucket after the older one starts within range | case split at the cut bucket, linear arithmetic |
| `AggregatorTypes`, `ResamplerTypes` | types | need that `RollOut` returns candles within the range of timestamps |
| `AggregatorNoFillOverflow` | the overflow error of gap filling is unreachable | `StartsAtTick`: an open bar starts at the floor of some timestamp |
| `AggregatorEmitsValidCandles`, `ResamplerEmitsValidCandles` | only ordered candles of finite volume leave | the open bar is ordered too; of the resampler, because it is fed valid candles |
| `AggregatorEvenlySpaced` | filled series have no hole and no repetition | `SpacingInv`; assumes `SpacingAssumption` |
| `AggregatorRefusalKeepsBar` | a refused tick leaves the open bar as it was | one case per refusal |
| `ResamplerNeverBackwards` | emitted times strictly increase, in whatever order candles come | `OrderInv`: with the types, that there is nothing emitted unless a bar is open, so that the open bar ends the series |
| `AggregatorStreamingEqualsBatch`, `ResamplerStreamingEqualsBatch` | the candles emitted, with the open one, are those of a batch over the inputs; that of the resampler assumes `FillGaps => CapBelowRange` | `SoFar`: the candles emitted, with the open bar closed, are a batch (`IsBatch`) of the inputs so far, which an input of a later bucket leaves alone. `BatchIs`: there is only one such list |
| `PipelineTypes` | types of both stages and of what is between them | `PipeInv`: each open bar is also the bucket of what it absorbed last |
| `PipelineNeverRefusedAsOlder` | whatever ticks come, the resampler never refuses a candle as older | `OrderInv`: what is on its way to the resampler rises in time, begins no earlier than the coarse bar and ends before the fine one (`Line`) |
| `PipelineCommutes` | rolling up through a fine timeframe ends in what the ticks amount to; assumes `CapBelowRange` and `NoTickIsCut` | `ShowInv`: what the coarse stage *would* show if the candle under way were handed to it is what the ticks so far amount to (`Feeding`), and once the ticks end, what it shows is (`Ending`). "Amounts to" is `SoFar` of a coarse stage that fills or does not, as long as the fine one does not fill; `Outline` (times, closes and volumes) if that does, and a coarse stage that fills as well then finds nothing to fill |
| `HandleUsesResampler` | the handle refines the resampler it wraps | each step of the handle is one of the resampler or leaves it alone |
| `HandleCandlesInOrder` | hence the resampler's candles are in order and valid behind the handle | corollary |
| `HandleDrainIsLossless` | a caller that empties the buffer before each push gets every candle once, in order | inductive with the types; what a drain takes from the front of the buffer it adds behind what was fetched (`SplitBuffer`) |
| `ReaderInvariant` | what is handed on, held back and still to come is the file, less its mark | `ReaderInv`, by the state of the probe: before it, during it, behind it; one lemma per path through `read` |
| `ReaderRefusesForItsHeader` | a constructor whose source did not fail refuses only for the header | `ParserInv`: the rows answered are those handed on, behind the header |
| `ReadAllIsWhole` | `read_all` returns every row, or the error of the first that does not decode or of the source; only behind such a failure does it find none | `AllGood`: what `read_all` has collected so far decoded. `NothingBehindFailure`: once the source has failed nothing is left to parse |
| `ReaderKeepsSource` | the reader refines `CandleSource` | step simulation: reads that move bytes are stutters |
| `SmaTypes` | types; neither the sum nor an answer is ever a NaN | `Ranged`: the sum is a float or an infinity. An input is finite, so nothing cancels an infinity; rounding keeps what is below the last float below it (`NearestFits`), because the last float is a multiple of every spacing |
| `SmaBatchIsReplay` | the exact batch is a replay of `update`, values and final state | `IInv`: between calls the indicator *is* its replay; in a lap (`InLap`) the replay is the indicator with the cursor at `pos` and `pos` more updates counted, and at a lap's end it may have reseeded already. A reseed can fall only there because `RecomputeEvery * Period` is a multiple of `Period` |
| `SmaKeepsWindow` | `Sma` refines `SlidingWindow` | the window of the indicator is that of the replay, and `update` slides it |
| `SmaDriftBounded` | the sum is off that of the window by half a spacing of the largest floats for each rounding since it was taken from the window, at most | `Drifting`: each input is two roundings, the reseed one for each member of the window. That a finite result is no further off is `NearestError` (a float further off would lie beyond the last one) with `NearAdd`: an overflow is never undone. `Filling`: no reseed is due while the window fills, when `reset` has left old values in the buffer |
| `ChainInvariant` | whatever the stages, nothing reaches one before the stage upstream is ready | `StagesSound` (every stage's memory is of its kind), `InOrder`, `EmittedWhenFull`, `NoneTooSoon`, `NoneTooLate`: each stage has taken the inputs that the warm-ups upstream leave it |
| `ChainWarmupExact`, `ChainReadyMeansEmitted`, `ChainAnswersOnceReady` | warm-up is the number of inputs to the first value; ready means emitted; a ready chain answers | from the invariant; readiness is not inductive alone, since it is the last stage's and depends on what reached it |
| `ChainValueIsDefinition` | what a stage answers is the function of its window that defines its kind (`Definition`), for every kind but the moving average | `Histories`: each stage has the inputs behind it that it is to remember (`StageKeeps`), and hands on an integer or nothing. Below |
| `StopsHold` | a stop turns only for a close through it and otherwise never loosens, and the SAR's stays out of the two candles before; assumes `NrtrPricesAssumption` | `StopInv`: the memory is of its kind and the last answer is what it says; for the SAR, that it remembers the last two candles and which side the stop is on |
| `BarsGapEqualsWalk` | a jump makes the bars and the state a walk with a stop on the way makes | `Stands`: the state is settled at the last close, so that close again draws nothing. A move lays `Whole(way, box)` bricks, and the whole boxes of a way are those of its parts with the rest carried on |
| `BarsCoverStream` | the bars cover the candles without gap or overlap | `Linked`: price-driven bars join on to each other, and the state remembers where the last one ended. `Collects`: the open bar is `Gathered` (its prices, volume and count are those of its candles) and `Weighed` (its measure is the sum, imbalance or longest run of its candles), and no beginning of it reaches the threshold |
| `WrapperInvariant` | the flags and counts of a wrapper say how often its handle was freed | `WrapperInv`: types and, for each wrapper on its own, `GoInv`, `JavaInv`, `CSharpInv`; one lemma per action and language |
| `WrapperFreedOnce` | no handle is freed twice | at most one of armed, closed and counted users is left to free; not inductive without the exact value of `frees` |
| `WrapperNotFreedInUse` | no handle is freed under a call; assumes that callers of a Java feed, if there are any, keep it | a call that the collector waits for keeps the action armed |

*Values by definition.* `StageKeeps` is proved kind by kind: it holds of a new state, and an
update takes it from the window `xs` to the window with one input more (`Slid`).

- `Wma`: the ring, oldest first, is the window (`OldestFirstIs`), and the sliding weighted sum is
  that of the window (`WeightedSlides`), so a reseed changes nothing.
- `StdDev`: the moments are the sums of the window's deviations from *some* offset
  (`MomentsKeep`), and the variance does not depend on which (`Shift`).
- `MedianMa`, `MedianAbsoluteDeviation`: the sorted list has below each number as many values as
  the window (`Ranks`), which determines it (`SortedIs`); so has the merge of the two
  runs of distances (`DistancesRank`).
- `UlcerIndex`: the deque falls in value, and behind each input of the window, or at it, there is an entry
  no lower (`DequeKeeps`), so its first is the peak; the sum is that of the last squares.
- `RunningDrawdown`, `DrawdownDuration`: the peak, and what is below it, of the whole stream.
- `MaxDrawdown`: the front has, for each of its values, the peak and the worst decline from there on
  (`FrontIs`, which the walk of `RefillFront` builds: `WalkKeeps`); the records cut the newer half into segments, each
  below its first value; the cursor stands where the front's peak stops covering them (`Split`).
  A decline of the window lies in the front, in a segment, or goes from the front's peak to a covered
  one (`PeakAcross`, `AnswerIsDeepest`).
- The moving average only has to hand on numbers (`SmaHolds`); its value is `Sma`'s.

*Hypotheses.* `PollTimeout = NoTimeout` is a Rust caller that awaits `next_event`: a dropped
future forgets its attempts, which is what `feed_short_poll` shows. `SpacingAssumption` is:
the gap cap times the bucket is below the range of timestamps (`CapBelowRange`; for the
code's constants, a million candles, timeframes up to about 9.2 * 10^12), and no tick lies
in the bucket the lowest timestamp cuts short, whose placeholders would be off the grid.
`CapBelowRange` alone is what the batch of a gap-filling series needs, since a wider span saturates and is
then not above the cap; `PipelineCommutes` needs it of the coarse timeframe. `NoTickIsCut`
says that no tick lies in the coarse bucket the lowest timestamp cuts short, if the fine
stage fills gaps: the candles it fills in are aligned with the bucket's grid and the direct batch
counts from the cut start, so with such a tick the two differ. With the code's constants
those are the ticks within one bucket of `i64::MIN`. The configuration of `pipeline` satisfies both. `NrtrPricesAssumption` says that an NRTR is not fed negative prices;
with them its line is on the wrong side (section 7).

*Assumptions on constants.* `BottomIsBelow` says that `Bottom`, the `NEG_INFINITY` a peak starts
from, is below every finite float. `InputAssumption` and `FilesAssumption` are what the constructors
of `Candle` and the type of a file give; `ChainAssumption`, `BarBuilderAssumption` and
`CandleIndicatorAssumption` are the ranges that the constructors (`new`) of the indicators
enforce, over integers for prices and volumes.

*Arithmetic.* `SmaBatchIsReplay` and `SmaKeepsWindow` use nothing of the arithmetic but that
it is a function of its operands: they hold of `f64` as of `Floats`, which is where bit-for-bit
equality comes from. `SmaDriftBounded` and `SmaTypes` are about rounding: they hold for every
number of significant bits (`Exact` need not even be a power of two) and every range that
`FloatAssumption` admits, whatever the inputs. The theorems on warm-up and readiness of chains hold of any arithmetic too, infinities included. Those on
values, stops and bars are of integers; an overflow between two stages is part of them.

*Induction.* A proof cannot cite the library's induction with a predicate, so it is done with
a set: `SmallestOf` is the well-foundedness of `<` on the naturals, `SetInduction` follows
from it, and a property of every `n` is membership of `n` in a set. What a recursive
function or a fold computes is got from it in two steps: a function that satisfies the
equation is shown to exist, so that the `CHOOSE` of the definition picks one, and any two
agree. Sums (`AddedGrows`, and `TotalIsNear` for rounded ones), schedules, gap candles and the batch reference are treated so.

*Instances.* `DataPipeline_proofs` takes the lemmas of `Candles_proofs` three times, for the fine
timeframe (`Fin`) and for the coarse one with gap filling and without (`Crs`, `Non`); that their
assumptions hold of each is its lemma `Constants`.

## 7. Where the code and its documentation disagree

Shown by a run (and listed as findings):

1. `feed_short_poll`: `wickra_binance_next`'s comment says a dropped connection is
   reconnected within a call; with `timeout_ms` below `initial_reconnect_delay` each poll
   starts the first sleep afresh, and the binding sees "no event yet" for ever. The
   examples (`examples/python/live_binance.py:110`, Go, Node) poll with 1000 ms, which is the
   default first delay and leaves the handshake behind it no time of its own.
2. `resampler_stale`: the resampler does not match `TickAggregator::push` for an older
   candle of the open bucket.
3. `java_feed`: `BinanceFeed.next` (`BinanceFeed.java:56-84`) has no `reachabilityFence`
   behind its native call, unlike `close` of the same class and every method of the generated
   indicators. A program that does not use the feed again may have it freed under the poll,
   where the C ABI asks for a pointer that is not freed.

Met while modelling, not shown by a run of their own:

- What `feed_short_poll` shows of drops is true of stalls: `read_timeout` (`binance.rs:44`) is documented
  as the time to the next frame, and a poll shorter than it restarts it each time, so a stall
  goes unnoticed. `StallRecoveredOrSurfaced` holds of a caller without a timeout only.
- Node (`bindings/node/src/lib.rs:23177-23260`) and Python (`bindings/python/src/lib.rs:26857-26930`)
  poll the feed in the same way as the C ABI, and report an error of the stream and its end alike as
  "binance feed closed".
- `aggregator.rs:348-350` says a saturated span is above the cap. For a timeframe above
  `i64::MAX / MAX_GAP_FILL_CANDLES` it is not (hence `CapBelowRange` in the proof).
- `aggregator.rs:363`: in the bucket cut by `i64::MIN` the placeholders start off the grid.
- `wickra_resampler_flush` returns `false`, "nothing was pending", also for a bar dropped
  because its volume overflowed.
- The comment at `binance.rs:333-336` says of a pong that cannot be written that the next read surfaces it.
  That is so once the write has failed; while it merely blocks, `read_timeout` does not watch it (`ReadPing`).
- `parse_frame`'s comment passes over everything but klines; a text frame that is not JSON
  is an error all the same.
- `csv.rs:61` promises that files without a mark pass through untouched: an error in the middle of the probe
  loses the bytes probed if the reader is used on. Through `CandleReader` nobody can, since
  the constructor fails.
- `read_all` called after an error of the source returns `Ok` of an empty list (the one exception
  that `Whole` makes).
- The comments of Ichimoku (`ichimoku.rs:19-21`, `206`, `218-220`, `236`) say that the
  displaced lines are those of `displacement` candles ago; they are one candle younger
  (`ReadingIsDefinition`).
- `drawdown_duration.rs:13` counts the bars since the peak "was first set". Where a value equals the
  peak the code starts the count afresh (line 69, `>=`), and the indicator's own test
  `equal_value_is_treated_as_peak` (line 142) asks for that. `BarsUnderWater` counts from the last value at the
  peak, so `ValueIsDefinition` holds of the code and its test, not of that line of the comment.
- `AverageDailyRange::warmup_period` is a number of days where the trait promises a number of
  inputs; it is left out of `WarmupExact`.
- `td_sequential.rs:212-216`: a setup in the direction of a running countdown does not start it
  afresh as the comment says. `direction` (`td_sequential.rs:27-29`) is said to be valid until
  the countdown finishes; it stays until the other side's setup completes.
- `td_lines.rs:10-18` and `td_risk_level.rs:21-23`: a level is said to come from the nine candles of
  a setup and to stay until the next one. While the run goes on behind its ninth candle the count
  stays at nine, and every further candle may move the level (`ReadingIsDefinition` says "of
  the unbroken run").
- `Indicator::update` names two cases of `None`; a chain has a third: a stage overflowed to an
  infinity that the next one rejects (`AnswersOnceReady` excludes exactly that).
- A fine stage that fills gaps changes the open, high and low of the coarse candles.
- `nrtr.rs:10-11` puts the line of the NRTR below the price in an uptrend. The line is a multiple of the
  extreme, so for negative prices, which a `Candle` may have, it is on the other side
  (hence `NrtrPricesAssumption`).
- The push of the Go, C# and R bindings returns an empty list for a refused candle too; the
  C tick aggregator has no flush.

## 8. Model-checked only, and not modelled

Only model-checked:

- all liveness (`DropRecovered`, `DropRecoveredOrSurfaced`, `StallRecoveredOrSurfaced`,
  `KlineHandedOver`, `FreedInTheEnd`, `ReadToTheEnd`): fairness and ENABLED are beyond the
  proof system;
- `ReadingIsDefinition`: two dozen candle indicators, each with a definition and so a
  proof of its own. Of their windows, those kept as deques are of the kind proved for `UlcerIndex`.

The map covers a small share of the repository's lines. Most of them are generated: every
indicator appears once more in each of eight bindings, as a wrapper of the same few lines
without a state of its own, and `fast.rs`, `wickra-simd` and the golden-file generators repeat
the arithmetic. `NativeHandle` models those wrappers by one of each language, and its map
names that one. `OvernightGap` and `InitialBalance` repeat code of
`OvernightIntradayReturn` and `OpeningRange`, `TdCountdown` that of `TdSequential`, and are not
mapped a second time.

Not modelled:

- the rest of the indicator catalogue: formulas over windows of the kinds that are modelled
  (sums, extrema, sorted windows, true ranges), recursive averages whose properties are about the
  size of rounding errors, and candlestick patterns, which are predicates on a few candles;
- the numeric results of SIMD kernels (no state, and a matter of tolerances);
- value types without state: order-book and trade types, footprints, the validation of
  candles beyond which candles exist;
- the REST fetcher (one request, no retry) and the facade crate (re-exports);
- the generated bindings beyond the stateful handles, their lifetime and the poll, NULL
  arguments included; the marshalling of arrays and structs;
- JSON decoding of a kline's fields and CSV decoding of a row beyond "decodes or does not";
- allocation of large gap fills; boxes too small for the price they are added to, which the
  integers of the models cannot show (listed as a hazard);
- benchmarks, fuzz targets and examples.

## 9. Plan

In order of importance; 1 to 10 are done.

1. Live feed with its contract and proofs.
2. Candles, aggregator, resampler, their reference, their composition.
3. C handle of the resampler.
4. Indicator core: moving average with its batches, sliding-window contract, chains.
5. Stateful shapes of the catalogue, each against a definition over its window: split and sorted
   windows, deques, reseeded sums, sessions, swings, counts, trailing stops.
6. Alternative chart bars, all ten builders.
7. CSV reader; native handles next to a collector, with their proofs.
8. Proofs: resampler, its handle and the batch reference; reader; back-off schedule; chains;
   trailing stops; bar builders.
9. Proofs: the pipeline (`NeverRefusedAsOlder`, then `Commutes`).
10. Proofs: the windows of the catalogue (`ValueIsDefinition`).
11. Proofs: the candle indicators (`ReadingIsDefinition`), by kinds.
12. More of the catalogue under the same properties: Wilder and exponential
   averages with their seeding.
