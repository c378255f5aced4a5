# TLA+ models of the exchange matching engine

This directory holds TLA+ specifications of the Go server in `src/src/`, together with the
TLC configurations that check them. The server is a stock exchange matching engine. Clients
connect over TCP and send length-prefixed XML requests. Each request is a batch of commands:
create an account, add a position, place a buy or sell limit order, cancel an order, or query
an order. All state lives in Redis.

## 1. The system

| Part | Source | State | Operations |
|---|---|---|---|
| Storage adapter (C1) | `redis/util.go`, `redis/pool.go` | Redis hashes, sorted sets, lists, counters | HINCRBYFLOAT, DEL, ZADD, ZREM, ZRANGE/ZREVRANGE, RPUSH, INCR, FLUSHALL |
| Ledger (C2) | `businessLogic/business_logic.go`, `business_logic_utils.go` | account balances, positions per (account, symbol) | `CreateAccount`, `SetOrAddSymbolPositionToAccount`, debits and credits in orders, matching and cancel |
| Order repository (C3) | `business_logic_utils.go` | order hash (account, symbol, limit, amount, type), cancel history, executed history list | `createBuyOrder`/`createSellOrder`, `removeOrder`, `InsertExcutedOrderToExcutedHistory` |
| Order books (C4) | `business_logic_utils.go` | one sorted set per symbol and side, member = order id string, score = limit | insert, remove, peek best (min sell / max buy) |
| Matching engine (C5) | `business_logic.go` | all of the above | `SetBuyOrder`, `SetSellOrder`, `MatchOrder` loop, `executeMatch`, `CancelOpenOrder`, `QueryOrderStatusAndHistory` |
| Command dispatcher (C6) | `command/command_pattern_and_executor.go`, `main.go` | the process-wide `readWriteLock` | one `execute` per command, `CommandListExecutor.Execute` runs a batch |
| ID generator (C7) | `uniqueKeyGenerator/key_generator.go` | `orderIdCounter` | `GetNewOrderId` (INCR) |
| TCP server | `TCPserver/server.go` | sockets, one `bufio.Reader` per connection | one goroutine per connection; reads the length line and the body |
| XML parser | `xmlParser/xml_parser.go` | none | XML text to command list (`Parse`) |

**How the parts interact.**
0. A connection goroutine reads the length line with `bufio.Reader.ReadString('\n')`, converts
   it with `strconv.Atoi`, allocates `make([]byte, len_msg)` and fills it with one `Read`.
   A wrong byte count is answered with an error line and the connection is closed.
1. The goroutine then parses a request into a command list. `CommandListExecutor.Execute`
   runs the commands one after another.
2. Each command's `execute` method takes `readWriteLock` for itself: `Lock` for a mutating
   command, `RLock` for a query. It releases the lock by `defer`.
3. Order commands take a fresh id from the counter before they validate anything. A rejected
   order therefore still uses up its id.
4. `SetBuyOrder` and `SetSellOrder` escrow the price or the shares. They write the order hash,
   add the order to its book, and call `MatchOrder`.
5. `MatchOrder` loops: it peeks at the best counter order and stops if the books do not cross.
   Otherwise it calls `executeMatch`, which moves money and shares, refunds the buyer's excess
   escrow, lowers or removes both orders, and appends to both executed histories.
6. `CancelOpenOrder` returns the unfilled escrow, removes the order, and records the cancel.

**Hard behaviours.**
- Concurrent connections interleave at command granularity.
- The matching loop runs inside one command's critical section.
- Redis breaks ties among equal scores by the member's byte string. This decides time priority.
- Partial fills are kept as a decreasing amount on the order hash.
- Failed order submissions use up ids.
- Storage errors can occur part-way through admission, `executeMatch` and cancellation, and nothing is rolled back.

## 2. Modules

| Module | Models | Role |
|---|---|---|
| `Exchange.tla` | spec.md §3 and §4.5 | the abstract exchange: accounts, holdings, open orders with escrow, and each trade as one atomic step |
| `MatchingEngine.tla` | C1 to C5 and C7, plus the `execute` of each mutating command | the engine: one action per operation, one per iteration of the matching loop, optional storage faults, and the refinement mapping to `Exchange` |
| `XmlParser.tla` | `xmlParser/xml_parser.go` | `Parse` as a pure operator, and a state machine that builds request documents one child at a time |
| `Framing.tla` | `Connection.listen` in `TCPserver/server.go` | per connection: TCP delivery in segments, the `bufio` buffer, the length line, the single body `Read`, and the panic of `make` on a negative length |
| `Dispatcher.tla` | C6, the TCP connection goroutines, and the parser | EXTENDS MatchingEngine and Framing, INSTANCEs XmlParser; each connection reads its request, parses it and runs the resulting batch under the per-command lock |
| `MC_MatchingEngine.tla`, `MC_XmlParser.tla`, `MC_Dispatcher.tla` | | model values, small domains, symmetry and views for the runs |

### MatchingEngine

**State.** Each Redis key family becomes a variable.
- `balance` and `position` are partial functions over the accounts and positions that exist.
- `orders[id]` is a record `[account, symbol, limit, amount, origAmount, orderType]`.
- `buyBook[s]` and `sellBook[s]` are sets of `<<id, score>>`.
- `cancelHistory` records cancels.
- `executedHistory[id]` is the Redis list as the code writes it: a flat sequence of amount,
  price and timestamp elements (`Now`). `ParseHistory` reads it back in strides of three, as
  `parseExcutedHistoryNodeList` does.
- `orderIdCounter` is the id counter.
- `faults` counts the storage faults injected so far. It is bounded by `MaxFaults`.
- `match` is the order whose `MatchOrder` loop is running, or `NoMatch`.
- `result` is the kind of response of the last command.
- Three ghost variables (`cashIn`, `sharesIn`, `placed`) record what entered the system. Only
  the properties read them.

**Abstractions.** The model keeps the control flow and abstracts the data.
- Amounts and prices are small naturals. The float64 arithmetic is exact on them.
- Account ids and symbols are model values.
- Response wording is left out. A response is its kind: `created`, `opened`, `canceled`, an
  error kind, or a query's status.
- Order ids stay numbers. Their decimal strings (`Digits`) are compared byte-wise (`LexLess`),
  because Redis orders equal scores that way, and that decides which equal-price order matches
  first.

**Actions.** Each action follows its Go function from top to bottom. Every early return is a
guard or an error disjunct that changes only `result`. The `map` in `PROJECT.json` gives the
lines of each definition.
- `CreateAccount` and `SetOrAddSymbolPositionToAccount`.
- `SetBuyOrderCommand` and `SetSellOrderCommand`. These take the id INCR, then run `SetBuyOrder`
  or `SetSellOrder`:
  1. escrow the funds or shares;
  2. HMSET the order and ZADD it to the book;
  3. start the loop by setting `match`.
- `MatchOrder`: one iteration of `matchForBuyOrder` or `matchForSellOrder`. It takes one of
  three forms:
  - `MatchEmptyBook`: the counter book is empty.
  - `MatchNoCross`: the best counter order does not cross.
  - `MatchExecute`: calls `ExecuteMatch`, the whole of `executeMatch` followed by the loop's
    `checkOrderExists`.
- `CancelOpenOrder` and `QueryOrderStatusAndHistory`.

The storage helpers of `business_logic_utils.go` are operators under their Go names
(`checkAccountExists`, `GetOrderAmount`, `increaseAccountBalance`, `ZAdd` for the two `Add...Book`
functions, `isOrderBookEmpty`, `insertCancelledOrderToCancelHistory`, ...). The actions call them
where the Go functions do, so an action reads like its function.

Each command holds the lock while its loop runs to the end. So the loop's separate steps add
no concurrency: every other action requires `Idle` (`match = NoMatch`). `Spec` puts weak
fairness on `MatchOrder`, because the goroutine that holds the lock keeps running.

**Storage faults.** With `MaxFaults > 0`, one Redis command of admission, execution or
cancellation may fail.
- **Id allocation.** `NewOrderIdFails`: the INCR of `GetNewOrderId` fails, and the command
  answers with an error. An error reply leaves the counter unchanged. A reply lost with the
  connection may come after Redis applied the INCR.
- **Admission and cancellation.** `FirstFailing(n)` picks the first of the function's n writes
  that fails. The function returns there, and the writes before it stay applied.
- **`executeMatch`.** `MatchWrites` lists the writes in the order the code issues them:
  1. position;
  2. payment;
  3. the refund, when it is positive;
  4. for the buy order, ZREM and DEL, or the decrement;
  5. the same for the sell order;
  6. the six RPUSHes.

  A fault is a record `[at, kind]`:
  - `at` is the failing command. 0 is a read before the first write. `Len(W)+1` is the
    `checkOrderExists` after the last write.
  - `kind` is `"reply"`, an error reply of that command only, or `"conn"`, a broken
    connection that fails every later command too.

  A failed write returns from `executeMatch`, and `MatchOrder`'s error is discarded, which ends
  the loop. There is one exception. `InsertExcutedOrderToExcutedHistory` ignores RPUSH errors,
  so after an error reply the following writes still run (`Applied`, `LoopContinues`).

**NaN balances.** `strconv.ParseFloat` accepts `"NaN"`, so a balance may be the model value
`NaN`. Go's `<` is false whenever an operand is NaN (`FloatLess`), which is how NaN gets past
the `balance < 0` check of `CreateAccount` and the funds check of `SetBuyOrder`. Redis refuses
`HINCRBYFLOAT` on a field that holds `"NaN"` (`IsNaN`). The model therefore forces that write to
fail, whatever `MaxFaults` allows:
- the escrow of `SetBuyOrder` (`Refused`);
- the refund of a buy order in `CancelOpenOrder`;
- the payment to a NaN seller, or the refund to a NaN buyer, in `executeMatch`
  (`Refusals`, `MatchFaults`).

These refusals do not count in `faults`. The conservation properties count a NaN balance as
no money (`Cash`). The passing runs use integer balances only.

**Refinement.** `Abstract == INSTANCE Exchange WITH ...` maps the engine state to `Exchange`:
- `balance` maps to `accounts` and `position` maps to `holdings`;
- `orders` maps to `open`, and `cancelHistory` maps to `canceled`;
- the executed histories, parsed and stripped of their timestamps, map to `fills`;
- the counter maps to `lastId`.

The following hold under this mapping:
- An `executeMatch` step is a `Trade` of the newest order against the best-priced counter order,
  at the resting order's limit.
- The other loop steps are stuttering steps.
- Admission and refused submissions are `Admit` and `Refuse`.

`Exchange` requires a settled market (no buy at or above a sell) before any command other than
a trade. It also requires, by weak fairness, that a crossed market is eventually settled.
`ImplementsExchange == Abstract!Spec` is checked as a temporal property. Time priority among
equal prices is left open in `Exchange`, because the engine breaks those ties by Redis member
order (see the violations below).

### XmlParser

A request document is abstracted to its root element. The element has a `wellFormed` flag
(etree's tokenizer), a tag, an `id` attribute and a sequence of child records. Attribute values
and texts are strings, and `""` stands for a missing attribute, because
`SelectAttrValue(key, "")` cannot tell an empty value from a missing one.

`strconv.ParseFloat` is the table `Decimal` over the texts that the model uses, `"NaN"`
(the model value `NaN`) among them. Texts outside the table, such as `"two"` and `""`, fail to
parse. The sign tests compare as Go does (`FloatLess`), so a NaN amount passes neither.

`Parse` follows `xml_parser.go`:
- **`<create>`.** Accounts need an id and a numeric balance. A symbol needs a name, and every
  child must be an `<account>` with an id and a numeric text. Any other child is skipped.
- **`<transactions>`.** The request needs at least one child and an `id`. An `<order>` with a
  negative amount becomes a sell of the magnitude, a positive amount becomes a buy, and 0 or
  NaN becomes nothing. `<query>` and `<cancel>` need an `id`. Any other child rejects the request.
- **Anything else** is rejected.

`Init` picks a root, and `AddChild` appends any child up to `MaxChildren`. The runs set
`CHECK_DEADLOCK FALSE` because a document stops growing at that bound.

### Framing

`Framing.tla` models `Connection.listen` up to the callback. Bytes are counted, not spelled out.
A client's stream is its length line (one byte, whatever its text), the newline, and its body of
`BodyLen[c]` bytes. `Headers[c]` is the text of the length line.

**State.** `arrived[c]` counts the bytes TCP has delivered. `taken[c]` counts the bytes the
`bufio.Reader` has read from the socket, and `buffered[c]` the bytes it holds but has not returned.
`fstate[c]` is `"line"`, `"body"`, `"accepted"` or `"rejected"`. `up` is false once the process
has died.

**Actions.**
- `Deliver(c)`: TCP delivers the next segment, of any size.
- `ReadLine(c)`: one `fill` of `ReadString('\n')`. It is one socket read of what has arrived, up
  to the free buffer space. Once the newline is in, `Atoi` runs. Text that is not a number is
  rejected ("xml wrong format in first line"). A negative number makes `make` panic. No goroutine
  recovers, so the process ends (`up' = FALSE`).
- `ReadBody(c)`: the one `reader.Read(request)` call, with `bufio`'s rules:
  - if bytes are buffered, it returns at most those;
  - otherwise, for a request at least as large as the buffer, one socket read goes straight into
    the request;
  - otherwise one socket read fills the buffer, and the request gets what fits.

  The request is accepted only if that one call returned the announced count.

`BufSize` is 2 in the runs, scaled down from 4096 with the one-byte length line. It keeps both
the buffered and the direct path of `Read` reachable.

### Dispatcher

**State.** `next[c]` is the position in connection c's batch, and is 0 until its request is
read. `writer` is the connection whose command holds the write lock. `responses[c]` is what c
has answered so far.

**Actions.**
- The `Framing` actions read each request off its socket.
- `Receive(c)`: once framing has accepted c's request, the callback in `main.go` parses it,
  giving `Batch(c)` (the parse results are computed once, as `Parsed`). A rejected request is
  answered with its error and runs nothing.
- `BeginCommand(c)`: `Lock()` and the command body up to the loop.
- `EndCommand(c)`: the deferred `Unlock` once the loop has ended, plus the executor appending the
  response.
- `QueryCommand(c)`: under `RLock`. It excludes only a writer and is one atomic step.
- `MatchStep`: the lock holder's loop iterations.

Every action except the framing ones requires `up`. After a panic nothing runs.

The ids in `<cancel>` and `<query>` are texts. `OrderOfText` finds the order whose key
`"order:" + strconv.Itoa(id)` they name.

**Fairness.**
- Lock acquisition is strongly fair. A Go `sync.Mutex` switches to starvation mode and hands the
  lock directly to a waiter that has waited more than 1 ms.
- `Receive`, release and the matching loop are weakly fair. They are code that the running
  goroutine simply executes.
- `Deliver`, `ReadLine` and `ReadBody` are weakly fair. Each client sends its whole stream and
  waits for the answer. A listen goroutine whose socket has bytes keeps reading.

## 3. Runs

| Run | Config | Expect | Checks |
|---|---|---|---|
| `engine_safety` | `MC_MatchingEngine.cfg` | pass | `TypeOK`, `CashConserved`, `SharesConserved`, `NoNegativeHoldings`, `BookMatchesOrders`, `NoCrossedBook`, `OrderAccounting`, `PricePriority`, `TradePrice` |
| `engine_refinement` | `MC_MatchingEngine_refines.cfg` | pass | `ImplementsExchange` |
| `engine_storage_faults` | `MC_MatchingEngine_faults.cfg` | pass | `NoValueLost` |
| `engine_time_priority` | `MC_MatchingEngine_time.cfg` | violation | `TimePriority` (buy side) |
| `engine_time_priority_sell` | `MC_MatchingEngine_timesell.cfg` | violation | `TimePrioritySell` |
| `engine_nan_balance` | `MC_MatchingEngine_nan.cfg` | violation | `CashConserved` with a NaN balance and no fault |
| `parser_elements` | `MC_XmlParser_elements.cfg` | violation | `OneCommandPerElement` |
| `dispatcher_liveness` | `MC_Dispatcher.cfg` | pass | `AllAnswered`, `MatchingTerminates` |
| `dispatcher_batch_atomicity` | `MC_Dispatcher_atomic.cfg` | violation | `BatchAtomicity` |
| `framing_short_read` | `MC_Dispatcher_framing.cfg` | violation | `WellFramedAccepted` |
| `framing_negative_length` | `MC_Dispatcher_badheader.cfg` | violation | `AllAnswered` |

**What the passing runs show.**
- **Conservation.** Over every sequence of accounts, deposits, orders, partial and multiple
  fills, self-trades and cancels, the following hold:
  - Cash held plus cash escrowed in open buy orders equals the cash deposited. The same holds
    for shares.
  - No balance or position goes negative.
  - The books hold exactly the open orders, each at its limit.
  - Between commands, no buy in a book is at or above a sell.
  - For every order, the filled amount plus the remaining amount equals the original amount.
- **Priority.** Every execution takes the best-priced counter order. It trades at the resting
  order's limit, which lies within both limits.
- **Refinement.** The engine implements `Exchange`. This means the stepwise loop, the book
  peeks, the refund and the stride-3 histories together behave as atomic trades, and every
  crossed market is eventually settled.
- **Under one storage fault, nothing is lost.** Money and shares held plus escrowed never fall
  below what was deposited. They may rise: one failed write in `executeMatch` after the
  payment leaves the paid buy order in the book with its escrow, and nothing rolls back.
- **Liveness.** Four concurrent connections each receive the answer to their whole request, or a
  framing error, so no command path keeps the lock. One of the four requests is rejected by the
  parser. Every matching loop these batches start ends.

**What the violations show.** These are the findings in `PROJECT.json`.
- **Buy-side time priority.** Two buy orders rest at the same price, and an incoming sell fills
  the newer one first. `ZREVRANGE` returns equal scores in reverse member order
  (`business_logic_utils.go:420`). Spec §4.4 requires FIFO.
- **Sell-side time priority.** Once order ids reach two digits, member `"10"` sorts before
  `"9"`. An incoming buy then fills sell order 10 before the older order 9
  (`business_logic_utils.go:444`).
- **A NaN balance books a buy order with no escrow.** `<account id=".." balance="NaN"/>` parses
  (`xml_parser.go:36`), and `balance < 0` is false for NaN, so the account is created
  (`business_logic.go:42`). `accountBalance < payment` is false too (line 146), so a buy order
  is created and added to the book. Only then does the escrow fail: Redis refuses
  `HINCRBYFLOAT` on a field that is not a float. The client gets an error, but the order rests
  in the book, and a crossing sell is later paid from money nobody deposited. No storage fault
  is needed. Spec §3 (invariant 1) says every open buy order was debited at admission.
- **A single `Read` rejects a correct client.** The client announces 2 bytes and sends 2, but the
  second arrives in a later TCP segment. `reader.Read` returns 1 byte, and the client is
  answered "xml byte indicator and xml size mismatch" (`server.go:49`). Spec §6 says the message
  is exactly the announced bytes.
- **A negative length line ends the server.** `strconv.Atoi("-1")` succeeds, and
  `make([]byte, -1)` panics in the connection goroutine. Nothing recovers, so the process exits
  and another connection is never answered (`server.go:47`). Spec §5 says a malformed header
  closes that one connection.
- **Unknown children of `<create>` are ignored.** The request is accepted with fewer commands
  than elements (`xml_parser.go:44`). Spec §6 says such a request is rejected.
- **Batch atomicity.** Each command locks on its own (`command_pattern_and_executor.go:27`), so
  another connection's commands run between two commands of a batch. Spec §2 and §5 say that a
  batch holds the writer lock throughout.

## 4. Bounds, and why they are enough

- **Engine runs.** Two users, one symbol, prices {0,1,2}, amounts {0,1,2}, and initial balances
  and deposits {-1,2}. The negative and zero values reach the bad-input paths.
  - `MaxOrderId = 3`: three orders. This is enough for a refund (a buy at 2 against a sell at
    1), a partial fill, one order filled by two others, two equal-price orders, a self-trade,
    and a cancel after a partial fill.
  - `MaxPosition = 2` caps the total shares deposited into one position.
  - Users are symmetric, because no property names a user.
- **Refinement and fault runs.** These use the valid values only: prices and amounts {1,2},
  balance and deposit 2. Every trade shape above is still reachable.
  - `MaxFaults = 1`: one failing command, at any position and of either kind. A second fault
    only compounds the first.
  - `VIEW MCView` drops `result`, which no engine action reads.
  - The refinement run has no symmetry, which is not sound for temporal properties.
- **NaN run.** Balances {NaN, 2}, the valid prices and amounts, and no storage fault
  (`MaxFaults = 0`). One account with a NaN balance and one buy order are enough.
- **Sell-side time priority run.** It starts the counter at 8 (`InitOrderIdCounter`). Eight
  rejected submissions reach that state in the real program, because every submission uses up
  an id. From there it allows ids 9 to 11.
- **Parser run.** `MaxChildren = 2`, with every child shape over texts
  {"-1","0","2","2e0","NaN","two",""}. This covers bad numbers, missing attributes, each sign,
  NaN, and two elements in order.
- **Dispatcher runs.** Each body is 1 byte, except c2's, which is 2 bytes. So a short read, the
  buffered path and the direct path of `Read` are all reachable. The framing violation keeps only
  c2. The negative-length run keeps c1 and c4, with c4's length line set to "-1". Four
  connections:
  - a `<create>` request that opens both accounts and gives u2 shares;
  - two `<transactions>` requests, a buy plus a query, and a sell plus a cancel;
  - a malformed request.

  Orders that run before their account exists fail, so both the error paths and the trades are
  reached.

## 5. Not modelled

- **Float residue in amounts.** Amounts are kept as small integers. A residue left by
  `HINCRBYFLOAT` on a fractional amount does no harm: the order holding it is filled by its
  next match, which takes the residue as the whole amount and removes the order.
- **Timestamps and response text.** A timestamp is the constant `Now`, and a response is its
  kind.
- **Socket bytes.** The framing model counts bytes. A length line is one byte whatever its text,
  and a missing newline is a client that never sends one (its connection then stays open).
  Writes of responses to the socket are not modelled.
- **The Redis connection pool.** Every business function takes one connection and returns it by
  `defer`. Writers hold the engine lock alone, so only concurrent queries hold connections side by
  side, and `MaxActive` 12000 needs 12000 of them at once. A `Get` whose dial or `PING` fails gives
  a connection on which every command fails. That is the `"conn"` fault kind of the engine model.
- **Broken history triples.** A failed RPUSH reply is ignored, so an executed-history list can
  lose one element. `parseExcutedHistoryNodeList` then misreads it (`business_logic_utils.go:567`).
  The fault path is in the model, and `NoValueLost` is checked under it. The broken list itself
  is not a run, because spec §7 and §9 already leave storage errors unrolled-back.
- **Restarts.** `main` runs FLUSHALL at start. Spec §1 lists persistence and replay as
  non-goals.
- **NaN and Inf elsewhere.** Only balances can be NaN in the model. A NaN or `+Inf` in a deposit,
  a price or an amount, or a `+Inf` balance, goes through other Redis refusals (`ZADD` of a NaN
  score, `HINCRBYFLOAT` producing NaN or Inf). These are the same hazard at other lines, and
  adding them would multiply the input sets without a new kind of step.
- **The lost escrow after a fault.** One failed write in `executeMatch` after the payment leaves
  the paid buy order with its escrow, so money held plus escrowed rises. `NoValueLost` checks the
  direction that matters under faults. Spec §7 leaves partial writes unrolled-back, so equality
  under faults is not a run.
- **The sign test on its own.** That an accepted order becomes a sell of `-amount` or a buy of
  `amount` is the two tests of `xml_parser.go:105-121` restated, so it is not checked as a
  property. What falls through both tests, an amount of 0 or NaN, is dropped with no response
  record; `OneCommandPerElement` counts such an order as an element without a command.
- **A framing property for accepted requests.** `listen` reads one request per connection and
  hands it over only when the one `Read` returned the announced length, so "an accepted request
  is the announced bytes" restates the check at `server.go:51`. What can go wrong in framing is
  the opposite, a correct client rejected, and `WellFramedAccepted` checks that.
