--------------------------- MODULE MatchingEngine ---------------------------
(***************************************************************************)
(* The matching engine and ledger of the exchange: accounts and symbol     *)
(* positions (C2), order records and their cancel / executed histories     *)
(* (C3), the per-symbol buy and sell books (C4), admission, the matching   *)
(* loop, execution and cancellation (C5), and the order-id counter (C7).   *)
(*                                                                         *)
(* The Redis keyspace of businessLogic/*.go is the state: one variable per *)
(* key family.  Each command action is the whole Command.execute method of *)
(* command/command_pattern_and_executor.go, which runs under the engine    *)
(* write lock; the MatchOrder loop it starts is modelled one iteration per *)
(* step, and while it runs (match # NoMatch) the lock is still held, so no *)
(* other command is enabled.  Amounts and prices are small integers: the   *)
(* float64 / HINCRBYFLOAT arithmetic of the code is exact on them.        *)
(* Timestamps of the histories are left out: no property reads them.       *)
(***************************************************************************)
EXTENDS Integers, Sequences, FiniteSets, TLC, Functions, FiniteSetsExt,
        SequencesExt

CONSTANTS
    Users,              \* account ids (base-10 digit strings in the code)
    Symbols,            \* symbol names
    Prices,             \* limit prices a request may carry (some invalid)
    Amounts,            \* order amounts a request may carry (some invalid)
    Balances,           \* balances a <create><account/> may carry
    Deposits,           \* amounts a <create><symbol><account/> may carry
    InitOrderIdCounter, \* value of the Redis key orderIdCounter at start
    MaxOrderId,         \* bound: ids above it are never allocated
    MaxPosition,        \* bound: seeding never raises a position above it
    MaxFaults,          \* bound: Redis commands that fail in a behaviour
    NoMatch,            \* model value: no MatchOrder loop is running
    NaN                 \* model value: the float64 strconv.ParseFloat returns
                        \* for the text "NaN" (redigo stores it as "NaN",
                        \* GetAccountBalance parses it back)

ASSUME /\ InitOrderIdCounter \in Nat
       /\ MaxOrderId \in Nat /\ InitOrderIdCounter <= MaxOrderId
       /\ Prices \subseteq Int /\ Amounts \subseteq Int
       /\ Balances \subseteq Int \cup {NaN} /\ Deposits \subseteq Int
       /\ MaxFaults \in Nat

OrderIds == 1..MaxOrderId
Sides == {"buy", "sell"}

\* Go's float64 a < b: every comparison with a NaN operand is false.
FloatLess(a, b) == a # NaN /\ b # NaN /\ a < b

\* The money a balance holds; a NaN balance holds none that can move.
Cash(v) == IF v = NaN THEN 0 ELSE v

VARIABLES
    balance,         \* account:UID balance, DOMAIN = existing accounts
    position,        \* account:UID:SYM amount, keyed by <<uid, sym>>
    orders,          \* order:OID hashes of the open orders
    buyBook,         \* openBuyOrderBook:SYM  sorted sets of <<oid, score>>
    sellBook,        \* openSellOrderBook:SYM sorted sets of <<oid, score>>
    cancelHistory,   \* order-cancel:OID amount at cancellation
    executedHistory, \* order-executed:OID list: amount, price, time, amount, ...
    orderIdCounter,  \* orderIdCounter
    faults,          \* Redis commands that have failed so far
    match,           \* the running MatchOrder loop, or NoMatch
    result,          \* kind of the Response of the last command
    \* history variables, read by properties only
    cashIn,          \* total balance ever credited by CreateAccount
    sharesIn,        \* per symbol, total ever credited by seeding
    placed           \* every admitted order as it was created

ledger == <<balance, position>>
store == <<orders, buyBook, sellBook, cancelHistory, executedHistory>>
ghost == <<cashIn, sharesIn, placed>>
vars == <<ledger, store, orderIdCounter, faults, match, result, ghost>>

-----------------------------------------------------------------------------
(* Storage primitives of redis/util.go and businessLogic/*_utils.go.        *)

\* Mutant: HMSET where HINCRBYFLOAT is meant (overwrites the field).
IncrOverwrite(f, k, d) == IF k \in DOMAIN f THEN [f EXCEPT ![k] = d]
                                            ELSE f @@ (k :> d)

\* HINCRBYFLOAT: adds d to a hash field, creating it (from 0) when missing.
Incr(f, k, d) == IF k \in DOMAIN f THEN [f EXCEPT ![k] = @ + d]
                                   ELSE f @@ (k :> d)

\* DEL order:OID.
Without(f, k) == Restrict(f, DOMAIN f \ {k})

\* ZREM openXOrderBook:SYM OID.
ZRem(set, id) == {e \in set : e[1] # id}

\* RPUSH of one element onto the list order-executed:OID.
RPush(h, id, e) == IF id \in DOMAIN h THEN [h EXCEPT ![id] = Append(@, e)]
                                      ELSE h @@ (id :> <<e>>)

\* parseExcutedHistoryNodeList: the list read back as len / 3 triples.
ParseHistory(l) == [i \in 1..(Len(l) \div 3) |-> <<l[3*i-2], l[3*i-1], l[3*i]>>]

\* strconv.Itoa: the decimal digits that name an order in Redis.
RECURSIVE Digits(_)
Digits(n) == IF n < 10 THEN <<n>> ELSE Append(Digits(n \div 10), n % 10)

\* Redis orders equal-score members of a sorted set byte-wise.
RECURSIVE LexLess(_, _)
LexLess(a, b) ==
    \/ a = <<>> /\ b # <<>>
    \/ /\ a # <<>> /\ b # <<>>
       /\ \/ Head(a) < Head(b)
          \/ Head(a) = Head(b) /\ LexLess(Tail(a), Tail(b))

\* Sorted-set order: by score, ties by member string.
ZBefore(e, f) == \/ e[2] < f[2]
                 \/ e[2] = f[2] /\ LexLess(Digits(e[1]), Digits(f[1]))

\* Mutant: the sell book peeked with ZREVRANGE (the dearest sell).
PeekSellMax(book) == CHOOSE e \in book : \A f \in book \ {e} : ZBefore(f, e)

\* ZRANGE 0 0 WITHSCORES: the sell order with the minimum price.
PeekSell(book) == CHOOSE e \in book : \A f \in book \ {e} : ZBefore(e, f)

\* Mutant: the buy book peeked with ZRANGE (the cheapest buy).
PeekBuyMin(book) == CHOOSE e \in book : \A f \in book \ {e} : ZBefore(e, f)

\* ZREVRANGE 0 0 WITHSCORES: the buy order with the maximum price.
PeekBuy(book) == CHOOSE e \in book : \A f \in book \ {e} : ZBefore(f, e)

\* INCR orderIdCounter.
NewOrderId == orderIdCounter + 1

\* EXISTS account:UID and EXISTS account:UID:SYM.
checkAccountExists(u) == u \in DOMAIN balance
checkSymbolPositionExists(u, s) == <<u, s>> \in DOMAIN position

\* HGET of the balance and of the position amount.
GetAccountBalance(u) == balance[u]
GetSymbolPosition(u, s) == position[<<u, s>>]

\* createAccount: HMSET account:UID with its balance.
createAccount(bal, u, b) == bal @@ (u :> b)

\* HINCRBYFLOAT on an existing balance, by d and by -d.
increaseAccountBalance(bal, u, d) == [bal EXCEPT ![u] = @ + d]
decreaseAccountBalance(bal, u, d) == [bal EXCEPT ![u] = @ - d]

\* HINCRBYFLOAT on an existing position by -d.
decreaseSymbolPosition(pos, u, s, d) == [pos EXCEPT ![<<u, s>>] = @ - d]

\* AddBuyOrderToBuyOrderBook / AddSellOrderToSellOrderBook: ZADD with the
\* limit price as score.
ZAdd(book, id, p) == book \cup {<<id, p>>}

\* HGET and HMGET of the fields of order:OID.
GetOrderAmount(id) == orders[id].amount
GetSymbolNameAndOrderType(id) == <<orders[id].symbol, orders[id].orderType>>
GetOrderUid(id) == orders[id].account
GetOrderLimitPrice(id) == orders[id].limit

\* decreaseOrderAmount: HINCRBYFLOAT on the order's current amount by -q.
decreaseOrderAmount(ords, id, q) == [ords EXCEPT ![id].amount = @ - q]

\* EXISTS order:OID.
checkOrderExists(ords, id) == id \in DOMAIN ords

\* isBuyOrderBookEmpty / isSellOrderBookEmpty: ZCARD is 0.
isOrderBookEmpty(book) == book = {}

\* insertCancelledOrderToCancelHistory: HMSET cancel:OID with the amount.
insertCancelledOrderToCancelHistory(h, id, left) == h @@ (id :> left)

\* EXISTS cancel:OID and EXISTS order-executed:OID.
cancelledOrderExists(id) == id \in DOMAIN cancelHistory
executedOrderExists(id) == id \in DOMAIN executedHistory

-----------------------------------------------------------------------------
(* Helpers of business_logic.go.                                            *)

\* Mutant: the balance checked against the amount, not its cost.
CanPayAmountOnly(bal, p, a) == bal >= a

\* SetBuyOrder: the order is refused only if accountBalance < payment.
CanPay(bal, p, a) == ~FloatLess(bal, p * a)

\* SetSellOrder: the position must cover the amount.
CanDeliver(pos, a) == pos >= a

\* Mutant: equal prices do not cross.
CrossesStrict(side, limit, best) == IF side = "buy" THEN best < limit
                                                    ELSE limit < best

\* matchForBuyOrder / matchForSellOrder: does the best counter price cross?
Crosses(side, limit, best) == IF side = "buy" THEN best <= limit
                                              ELSE limit <= best

\* executeMatch: the amount traded.
FillAmount(buyAmount, sellAmount) == Min({buyAmount, sellAmount})

\* Mutant: the initiating order's own limit sets the price.
TransactionPriceOfInitiator(init, buyLimit, sellLimit) ==
    IF init = "buy" THEN buyLimit ELSE sellLimit

\* executeMatch: the order that initiated the execution takes the price of
\* the resting one.
TransactionPrice(init, buyLimit, sellLimit) ==
    IF init = "buy" THEN sellLimit ELSE buyLimit

\* Mutant: the buyer's over-escrow is never refunded.
RefundNone(buyLimit, price, q) == 0

\* executeMatch: what the buyer escrowed above the transaction price.
Refund(buyLimit, price, q) == (buyLimit - price) * q

\* Mutant: the sell side's tuple is not negated.
SignedAmountUnsigned(side, q) == q

\* executeMatch: the executed tuple of a sell order carries a negative amount.
SignedAmount(side, q) == IF side = "sell" THEN -q ELSE q

\* Mutant: a filled order is decremented to zero instead of deleted.
FillOrderKeepEmpty(ords, id, q) == decreaseOrderAmount(ords, id, q)

\* executeMatch: remove a filled order, or decrease what is left of it.
FillOrder(ords, id, q) ==
    IF q = ords[id].amount THEN Without(ords, id)
                           ELSE decreaseOrderAmount(ords, id, q)

\* Mutant: the ZREM of a filled order is missing.
RemoveFilledNever(book, id, q, amount) == book

\* executeMatch: a filled order leaves its book.
RemoveFilled(book, id, q, amount) == IF q = amount THEN ZRem(book, id) ELSE book

\* createBuyOrder / createSellOrder: the order:OID hash.
NewOrder(u, s, p, a, side) ==
    [account |-> u, symbol |-> s, limit |-> p, amount |-> a,
     origAmount |-> a, orderType |-> side]

-----------------------------------------------------------------------------
Init ==
    /\ balance = <<>>
    /\ position = <<>>
    /\ orders = <<>>
    /\ buyBook = [s \in Symbols |-> {}]
    /\ sellBook = [s \in Symbols |-> {}]
    /\ cancelHistory = <<>>
    /\ executedHistory = <<>>
    /\ orderIdCounter = InitOrderIdCounter
    /\ faults = 0
    /\ match = NoMatch
    /\ result = "none"
    /\ cashIn = 0
    /\ sharesIn = [s \in Symbols |-> 0]
    /\ placed = <<>>

\* The engine lock is free of a running MatchOrder loop.
Idle == match = NoMatch

\* CreateAccoutCommand.execute / CreateAccount.
CreateAccount(u, b) ==
    /\ Idle
    /\ \/ /\ FloatLess(b, 0)
          /\ result' = "BadInput"
          /\ UNCHANGED <<balance, cashIn>>
       \/ /\ ~FloatLess(b, 0) /\ checkAccountExists(u)
          /\ result' = "DuplicateAccount"
          /\ UNCHANGED <<balance, cashIn>>
       \/ /\ ~FloatLess(b, 0) /\ ~checkAccountExists(u)
          /\ balance' = createAccount(balance, u, b)
          /\ cashIn' = cashIn + Cash(b)
          /\ result' = "created"
    /\ UNCHANGED <<position, store, orderIdCounter, faults, match, sharesIn, placed>>

\* SetOrAddSymbolPositionToAccountCommand.execute /
\* SetOrAddSymbolPositionToAccount.
SetOrAddSymbolPositionToAccount(u, s, a) ==
    /\ Idle
    /\ \/ /\ ~checkAccountExists(u)
          /\ result' = "UnknownAccount"
          /\ UNCHANGED <<position, sharesIn>>
       \/ /\ checkAccountExists(u) /\ a < 0
          /\ result' = "BadInput"
          /\ UNCHANGED <<position, sharesIn>>
       \/ /\ checkAccountExists(u) /\ a >= 0
          /\ Incr(position, <<u, s>>, a)[<<u, s>>] <= MaxPosition
          /\ position' = Incr(position, <<u, s>>, a)
          /\ sharesIn' = [sharesIn EXCEPT ![s] = @ + a]
          /\ result' = "created"
    /\ UNCHANGED <<balance, store, orderIdCounter, faults, match, cashIn, placed>>
\* The first of n consecutive Redis writes that fails, n + 1 when none does;
\* the function returns its error there and skips the writes after it.
FirstFailing(n) == {n + 1} \cup (IF faults < MaxFaults THEN 1..n ELSE {})

\* HINCRBYFLOAT on a balance field holding "NaN" gets the error reply "hash
\* value is not a float": is u's balance such a field?
IsNaN(u) == balance[u] = NaN

\* The write that fails when write k0 is the first injected fault and the
\* write at position at is refused by Redis whenever refused holds.
Refused(k0, at, refused) == IF refused THEN Min({k0, at}) ELSE k0

\* SetBuyOrder for the freshly allocated id: validate, create the order,
\* add it to the buy book, escrow limitPrice * amount, start MatchOrder.
\* Redis refuses the escrow of a NaN balance after the order is booked.
SetBuyOrder(id, u, s, p, a) ==
    \/ /\ ~checkAccountExists(u)
       /\ result' = "UnknownAccount"
       /\ UNCHANGED <<ledger, store, faults, match, placed>>
    \/ /\ checkAccountExists(u) /\ (a <= 0 \/ p <= 0)
       /\ result' = "BadInput"
       /\ UNCHANGED <<ledger, store, faults, match, placed>>
    \/ /\ checkAccountExists(u) /\ a > 0 /\ p > 0
       /\ ~CanPay(GetAccountBalance(u), p, a)
       /\ result' = "InsufficientFunds"
       /\ UNCHANGED <<ledger, store, faults, match, placed>>
    \/ /\ checkAccountExists(u) /\ a > 0 /\ p > 0
       /\ CanPay(GetAccountBalance(u), p, a)
       /\ \E k0 \in FirstFailing(3) : LET k == Refused(k0, 3, IsNaN(u)) IN
            /\ orders' = IF k > 1 THEN orders @@ (id :> NewOrder(u, s, p, a, "buy"))
                                  ELSE orders
            /\ buyBook' = IF k > 2 THEN [buyBook EXCEPT ![s] = ZAdd(@, id, p)]
                                   ELSE buyBook
            /\ balance' = IF k > 3 THEN decreaseAccountBalance(balance, u, p * a)
                                   ELSE balance
            /\ match' = IF k > 3 THEN [orderId |-> id, orderType |-> "buy",
                                       symbol |-> s, limit |-> p]
                                 ELSE NoMatch
            /\ placed' = IF k > 1 THEN placed @@ (id :> NewOrder(u, s, p, a, "buy"))
                                  ELSE placed
            /\ result' = IF k > 3 THEN "opened" ELSE "StorageError"
            /\ faults' = IF k0 > 3 THEN faults ELSE faults + 1
       /\ UNCHANGED <<position, sellBook, cancelHistory, executedHistory>>

\* SetSellOrder for the freshly allocated id: validate, create the order,
\* add it to the sell book, escrow the amount, start MatchOrder.
SetSellOrder(id, u, s, p, a) ==
    \/ /\ ~checkAccountExists(u)
       /\ result' = "UnknownAccount"
       /\ UNCHANGED <<ledger, store, faults, match, placed>>
    \/ /\ checkAccountExists(u) /\ ~checkSymbolPositionExists(u, s)
       /\ result' = "UnknownPosition"
       /\ UNCHANGED <<ledger, store, faults, match, placed>>
    \/ /\ checkAccountExists(u) /\ checkSymbolPositionExists(u, s)
       /\ (a <= 0 \/ p <= 0)
       /\ result' = "BadInput"
       /\ UNCHANGED <<ledger, store, faults, match, placed>>
    \/ /\ checkAccountExists(u) /\ checkSymbolPositionExists(u, s)
       /\ a > 0 /\ p > 0
       /\ ~CanDeliver(GetSymbolPosition(u, s), a)
       /\ result' = "InsufficientShares"
       /\ UNCHANGED <<ledger, store, faults, match, placed>>
    \/ /\ checkAccountExists(u) /\ checkSymbolPositionExists(u, s)
       /\ a > 0 /\ p > 0
       /\ CanDeliver(GetSymbolPosition(u, s), a)
       /\ \E k \in FirstFailing(3) :
            /\ orders' = IF k > 1 THEN orders @@ (id :> NewOrder(u, s, p, a, "sell"))
                                  ELSE orders
            /\ sellBook' = IF k > 2 THEN [sellBook EXCEPT ![s] = ZAdd(@, id, p)]
                                    ELSE sellBook
            /\ position' = IF k > 3 THEN decreaseSymbolPosition(position, u, s, a)
                                    ELSE position
            /\ match' = IF k > 3 THEN [orderId |-> id, orderType |-> "sell",
                                       symbol |-> s, limit |-> p]
                                 ELSE NoMatch
            /\ placed' = IF k > 1 THEN placed @@ (id :> NewOrder(u, s, p, a, "sell"))
                                  ELSE placed
            /\ result' = IF k > 3 THEN "opened" ELSE "StorageError"
            /\ faults' = IF k > 3 THEN faults ELSE faults + 1
       /\ UNCHANGED <<balance, buyBook, cancelHistory, executedHistory>>

\* GetNewOrderId fails: the command answers "error when generating orderId"
\* and submits nothing.  An error reply leaves the counter alone; a reply
\* lost with the connection may follow an INCR that Redis applied.
NewOrderIdFails ==
    /\ faults < MaxFaults
    /\ orderIdCounter' \in {orderIdCounter, NewOrderId}
    /\ faults' = faults + 1
    /\ result' = "StorageError"
    /\ UNCHANGED <<ledger, store, match, ghost>>

\* SetBuyOrderCommand.execute: the id is taken from the counter before the
\* order is validated, so a rejected order burns it.
SetBuyOrderCommand(u, s, p, a) ==
    /\ Idle
    /\ orderIdCounter < MaxOrderId
    /\ \/ NewOrderIdFails
       \/ /\ orderIdCounter' = NewOrderId
          /\ SetBuyOrder(NewOrderId, u, s, p, a)
          /\ UNCHANGED <<cashIn, sharesIn>>

\* SetSellOrderCommand.execute.
SetSellOrderCommand(u, s, p, a) ==
    /\ Idle
    /\ orderIdCounter < MaxOrderId
    /\ \/ NewOrderIdFails
       \/ /\ orderIdCounter' = NewOrderId
          /\ SetSellOrder(NewOrderId, u, s, p, a)
          /\ UNCHANGED <<cashIn, sharesIn>>

-----------------------------------------------------------------------------
(* The MatchOrder loop.                                                     *)

\* The counter book the running loop peeks at.
CounterBook == IF match.orderType = "buy" THEN sellBook[match.symbol]
                                         ELSE buyBook[match.symbol]

\* The best entry of the counter book.
BestCounter == IF match.orderType = "buy" THEN PeekSell(CounterBook)
                                         ELSE PeekBuy(CounterBook)

\* Mutant: the orders and books are updated before the parties are paid.
MatchWritesEscrowFirst(bAmount, sAmount, q, refund) ==
    (IF q = bAmount THEN <<"zremBuy", "delBuy">> ELSE <<"decBuy">>)
    \o (IF q = sAmount THEN <<"zremSell", "delSell">> ELSE <<"decSell">>)
    \o <<"position", "payment">>
    \o (IF refund > 0 THEN <<"refund">> ELSE <<>>)
    \o <<"buyAmount", "buyPrice", "buyTime", "sellAmount", "sellPrice", "sellTime">>

\* The Redis writes executeMatch issues, in the order it issues them: the
\* buyer's shares, the seller's payment, the buyer's refund (only when
\* positive), the buy order's ZREM and DEL or its decrement, the same for
\* the sell order, then the three RPUSHes of each executed tuple.
MatchWrites(bAmount, sAmount, q, refund) ==
    <<"position", "payment">>
    \o (IF refund > 0 THEN <<"refund">> ELSE <<>>)
    \o (IF q = bAmount THEN <<"zremBuy", "delBuy">> ELSE <<"decBuy">>)
    \o (IF q = sAmount THEN <<"zremSell", "delSell">> ELSE <<"decSell">>)
    \o <<"buyAmount", "buyPrice", "buyTime", "sellAmount", "sellPrice", "sellTime">>

\* InsertExcutedOrderToExcutedHistory ignores the errors of its RPUSHes.
HistoryWrites == {"buyAmount", "buyPrice", "buyTime",
                  "sellAmount", "sellPrice", "sellTime"}

\* A storage fault of one execution: none, or a failing command at position
\* at (0: one of the reads before the first write; Len(W) + 1: the
\* checkOrderExists after it) that is an error reply of that command alone
\* or a broken connection failing every later command too.
NoFault == [at |-> -1, kind |-> "none"]
Faults(W) == IF faults < MaxFaults
             THEN {NoFault} \cup [at : 0..Len(W) + 1, kind : {"reply", "conn"}]
             ELSE {NoFault}

\* The writes of W Redis refuses whatever else happens: the payment to a
\* seller, or the refund to a buyer, whose balance is NaN.
Refusals(W, seller, buyer) ==
    {[at |-> i, kind |-> "reply"] :
        i \in {i \in 1..Len(W) :
                  \/ W[i] = "payment" /\ IsNaN(seller)
                  \/ W[i] = "refund" /\ IsNaN(buyer)}}

\* The faults an execution may meet: an injected one, or, when Redis
\* refuses a write, that refusal or an injected fault before it.
MatchFaults(W, seller, buyer) ==
    LET R == Refusals(W, seller, buyer)
    IN IF R = {} THEN Faults(W)
       ELSE LET first == CHOOSE r \in R : \A o \in R : r.at <= o.at
            IN {first} \cup {f \in Faults(W) \ {NoFault} : f.at < first.at}

\* Does write i of W reach Redis under fault f?  A failed write returns
\* from executeMatch, except a failed RPUSH: then only a broken connection
\* stops the writes after it.
Applied(W, f, i) ==
    \/ f = NoFault
    \/ i < f.at
    \/ /\ f.kind = "reply" /\ f.at \in 1..Len(W) /\ W[f.at] \in HistoryWrites
       /\ i > f.at

\* Was the write labelled l (if executeMatch issues it at all) applied?
Done(W, f, l) == \A i \in 1..Len(W) : W[i] = l => Applied(W, f, i)

\* The loop goes on after executeMatch only when it returned nil and
\* checkOrderExists could read: no fault, or one failed RPUSH reply.
LoopContinues(W, f) ==
    \/ f = NoFault
    \/ f.kind = "reply" /\ f.at \in 1..Len(W) /\ W[f.at] \in HistoryWrites

\* The value of the timestamp element (getCurrentTimeInString).
Now == "now"

\* The elements of an executed tuple that reached the list.
PushedOf(W, f, elems, labels) ==
    LET kept == SelectSeq(<<1, 2, 3>>, LAMBDA j : Done(W, f, labels[j]))
    IN [j \in 1..Len(kept) |-> elems[kept[j]]]

\* executeMatch(buyOrderId, sellOrderId, symbolName, transInitOrderType),
\* each of its Redis commands possibly the one that fails, and the
\* checkOrderExists of the loop after it.
ExecuteMatch(buyId, sellId, s, init) ==
    LET sAmount == GetOrderAmount(sellId)
        bAmount == GetOrderAmount(buyId)
        buyer   == GetOrderUid(buyId)
        seller  == GetOrderUid(sellId)
        bLimit  == GetOrderLimitPrice(buyId)
        q  == FillAmount(bAmount, sAmount)
        x  == TransactionPrice(init, bLimit, GetOrderLimitPrice(sellId))
        refund == Refund(bLimit, x, q)
        W == MatchWrites(bAmount, sAmount, q, refund)
    IN \E f \in MatchFaults(W, seller, buyer) :
         LET paid == IF Done(W, f, "payment")
                     THEN increaseAccountBalance(balance, seller, x * q) ELSE balance
             buyFilled == IF Done(W, f, "delBuy") /\ Done(W, f, "decBuy")
                          THEN FillOrder(orders, buyId, q) ELSE orders
             buyHist == PushedOf(W, f, <<SignedAmount("buy", q), x, Now>>,
                                 <<"buyAmount", "buyPrice", "buyTime">>)
             sellHist == PushedOf(W, f, <<SignedAmount("sell", q), x, Now>>,
                                  <<"sellAmount", "sellPrice", "sellTime">>)
         IN /\ position' = IF Done(W, f, "position")
                           THEN Incr(position, <<buyer, s>>, q) ELSE position
            /\ balance' = IF refund > 0 /\ Done(W, f, "refund")
                          THEN increaseAccountBalance(paid, buyer, refund) ELSE paid
            /\ buyBook' = IF Done(W, f, "zremBuy")
                          THEN [buyBook EXCEPT ![s] = RemoveFilled(@, buyId, q, bAmount)]
                          ELSE buyBook
            /\ sellBook' = IF Done(W, f, "zremSell")
                           THEN [sellBook EXCEPT ![s] = RemoveFilled(@, sellId, q, sAmount)]
                           ELSE sellBook
            /\ orders' = IF Done(W, f, "delSell") /\ Done(W, f, "decSell")
                         THEN FillOrder(buyFilled, sellId, q) ELSE buyFilled
            /\ executedHistory' =
                 FoldLeft(LAMBDA h, e : RPush(h, sellId, e),
                          FoldLeft(LAMBDA h, e : RPush(h, buyId, e),
                                   executedHistory, buyHist),
                          sellHist)
            /\ faults' = IF f = NoFault \/ f \in Refusals(W, seller, buyer)
                          THEN faults ELSE faults + 1
            /\ match' = IF LoopContinues(W, f) /\ checkOrderExists(orders', match.orderId)
                        THEN match ELSE NoMatch

\* Mutant: an empty counter book does not end the loop; it is polled again.
MatchEmptyBookKeepPolling ==
    /\ match # NoMatch
    /\ isOrderBookEmpty(CounterBook)
    /\ UNCHANGED vars

\* One iteration that leaves the loop: the counter book is empty.
MatchEmptyBook ==
    /\ match # NoMatch
    /\ isOrderBookEmpty(CounterBook)
    /\ match' = NoMatch
    /\ UNCHANGED <<ledger, store, orderIdCounter, faults, result, ghost>>

\* One iteration that leaves the loop: the best counter price does not cross.
MatchNoCross ==
    /\ match # NoMatch
    /\ ~isOrderBookEmpty(CounterBook)
    /\ ~Crosses(match.orderType, match.limit, BestCounter[2])
    /\ match' = NoMatch
    /\ UNCHANGED <<ledger, store, orderIdCounter, faults, result, ghost>>

\* One iteration that executes against the best counter order, then goes on
\* only while the initiating order is still open (checkOrderExists).
MatchExecute ==
    /\ match # NoMatch
    /\ ~isOrderBookEmpty(CounterBook)
    /\ Crosses(match.orderType, match.limit, BestCounter[2])
    /\ IF match.orderType = "buy"
          THEN ExecuteMatch(match.orderId, BestCounter[1], match.symbol, "buy")
          ELSE ExecuteMatch(BestCounter[1], match.orderId, match.symbol, "sell")
    /\ UNCHANGED <<cancelHistory, orderIdCounter, result, ghost>>

MatchOrder == MatchEmptyBook \/ MatchNoCross \/ MatchExecute

-----------------------------------------------------------------------------
(* Cancellation and query.                                                  *)

\* CancelOpenOrderCommand.execute / CancelOpenOrder: return the remaining
\* escrow, leave the book, delete the order, record the cancellation; a
\* failing Redis write returns its error and skips the writes after it.
CancelOpenOrder(id) ==
    /\ Idle
    /\ \/ /\ ~checkOrderExists(orders, id)
          /\ result' = "NotOpen"
          /\ UNCHANGED <<ledger, store, faults>>
       \/ /\ checkOrderExists(orders, id)
          /\ LET sym  == GetSymbolNameAndOrderType(id)[1]
                 buy  == GetSymbolNameAndOrderType(id)[2] = "buy"
                 left == GetOrderAmount(id)
                 uid  == GetOrderUid(id)
             IN \E k0 \in FirstFailing(4) : LET k == Refused(k0, 1, buy /\ IsNaN(uid)) IN
                /\ balance' = IF buy /\ k > 1
                              THEN increaseAccountBalance(balance, uid, GetOrderLimitPrice(id) * left)
                              ELSE balance
                /\ position' = IF ~buy /\ k > 1
                               THEN Incr(position, <<uid, sym>>, left)
                               ELSE position
                /\ buyBook' = IF buy /\ k > 2
                              THEN [buyBook EXCEPT ![sym] = ZRem(@, id)] ELSE buyBook
                /\ sellBook' = IF ~buy /\ k > 2
                               THEN [sellBook EXCEPT ![sym] = ZRem(@, id)] ELSE sellBook
                /\ orders' = IF k > 3 THEN Without(orders, id) ELSE orders
                /\ cancelHistory' = IF k > 4 THEN insertCancelledOrderToCancelHistory(cancelHistory, id, left)
                                               ELSE cancelHistory
                /\ result' = IF k > 4 THEN "canceled" ELSE "StorageError"
                /\ faults' = IF k0 > 4 THEN faults ELSE faults + 1
                /\ UNCHANGED executedHistory
    /\ UNCHANGED <<orderIdCounter, match, ghost>>

\* QueryOrderStatusAndHistoryCommand.execute: read-only; Unknown when the id
\* is in none of the open orders, executed or cancel histories.
QueryOrderStatusAndHistory(id) ==
    /\ Idle
    /\ result' = IF \/ executedOrderExists(id) \/ cancelledOrderExists(id)
                    \/ checkOrderExists(orders, id)
                 THEN "status" ELSE "Unknown"
    /\ UNCHANGED <<ledger, store, orderIdCounter, faults, match, ghost>>

-----------------------------------------------------------------------------
Next ==
    \/ \E u \in Users, b \in Balances : CreateAccount(u, b)
    \/ \E u \in Users, s \in Symbols, a \in Deposits :
          SetOrAddSymbolPositionToAccount(u, s, a)
    \/ \E u \in Users, s \in Symbols, p \in Prices, a \in Amounts :
          SetBuyOrderCommand(u, s, p, a) \/ SetSellOrderCommand(u, s, p, a)
    \/ \E id \in OrderIds : CancelOpenOrder(id) \/ QueryOrderStatusAndHistory(id)
    \/ MatchOrder

\* The goroutine that holds the lock runs the loop to its end: nothing in it
\* waits on anything but Redis round trips.
Spec == Init /\ [][Next]_vars /\ WF_vars(MatchOrder)

-----------------------------------------------------------------------------
(* Properties.                                                              *)

TypeOK ==
    /\ balance \in [DOMAIN balance -> Int \cup {NaN}] /\ DOMAIN balance \subseteq Users
    /\ DOMAIN position \subseteq Users \X Symbols
    /\ \A k \in DOMAIN position : position[k] \in Int
    /\ DOMAIN orders \subseteq OrderIds
    /\ \A id \in DOMAIN orders :
          /\ orders[id].orderType \in Sides
          /\ orders[id].amount \in 1..orders[id].origAmount
    /\ buyBook \in [Symbols -> SUBSET (OrderIds \X Prices)]
    /\ sellBook \in [Symbols -> SUBSET (OrderIds \X Prices)]
    /\ DOMAIN cancelHistory \subseteq OrderIds
    /\ DOMAIN executedHistory \subseteq OrderIds
    /\ orderIdCounter \in InitOrderIdCounter..MaxOrderId
    /\ match = NoMatch \/ match.orderId \in DOMAIN placed

\* Money held in the book: limit * remaining amount of every open buy order.
EscrowedCash ==
    MapThenSumSet(LAMBDA id : orders[id].limit * orders[id].amount,
                  {id \in DOMAIN orders : orders[id].orderType = "buy"})

\* Shares of symbol s held in the book by open sell orders.
EscrowedShares(s) ==
    MapThenSumSet(LAMBDA id : orders[id].amount,
                  {id \in DOMAIN orders : /\ orders[id].orderType = "sell"
                                          /\ orders[id].symbol = s})

\* Money is conserved by admission (escrow), executeMatch (payment to the
\* seller plus refund of the buyer's over-escrow) and cancellation (return
\* of the remaining escrow): balances plus escrow always equal what the
\* accounts were created with.
CashConserved ==
    MapThenSumSet(LAMBDA u : Cash(balance[u]), DOMAIN balance) + EscrowedCash = cashIn

\* Shares are conserved by SetSellOrder's escrow, executeMatch's delivery to
\* the buyer and the cancellation of sell orders.
SharesConserved ==
    \A s \in Symbols :
        MapThenSumSet(LAMBDA k : position[k], {k \in DOMAIN position : k[2] = s})
          + EscrowedShares(s) = sharesIn[s]

\* Trading never drives a balance or a position below zero (spec 8.2): the
\* admission checks of SetBuyOrder / SetSellOrder cover every later debit.
NoNegativeHoldings ==
    /\ \A u \in DOMAIN balance : balance[u] >= 0
    /\ \A k \in DOMAIN position : position[k] >= 0

\* The books and the order records agree (spec 3, invariants 3 and 4): each
\* book holds exactly the open orders of its side and symbol, scored by their
\* limit price, after every mix of admissions, fills and cancellations.
BookMatchesOrders ==
    \A s \in Symbols :
        /\ buyBook[s] = {<<id, orders[id].limit>> :
                           id \in {i \in DOMAIN orders : /\ orders[i].orderType = "buy"
                                                         /\ orders[i].symbol = s}}
        /\ sellBook[s] = {<<id, orders[id].limit>> :
                           id \in {i \in DOMAIN orders : /\ orders[i].orderType = "sell"
                                                         /\ orders[i].symbol = s}}

\* Once the MatchOrder loop of a command has ended, no buy order of a
\* symbol is priced at or above a sell order of it: every crossing pair was
\* executed.
NoCrossedBook ==
    Idle => \A s \in Symbols : \A b \in buyBook[s], a \in sellBook[s] : b[2] < a[2]

\* Total filled amount in the executed history of an order.
FilledAmount(id) ==
    IF id \in DOMAIN executedHistory
    THEN FoldLeft(LAMBDA acc, e : acc + (IF e[1] < 0 THEN -e[1] ELSE e[1]),
                  0, ParseHistory(executedHistory[id]))
    ELSE 0

\* Every admitted order accounts for its original amount: what is still open,
\* plus what its executed history records, plus what its cancellation
\* recorded; a cancelled order is never open again; and the signs of its
\* executed tuples tell its side, as QueryOrderStatusAndHistory assumes.
OrderAccounting ==
    \A id \in DOMAIN placed :
        /\ placed[id].origAmount =
              (IF id \in DOMAIN orders THEN orders[id].amount ELSE 0)
              + FilledAmount(id)
              + (IF id \in DOMAIN cancelHistory THEN cancelHistory[id] ELSE 0)
        /\ ~(id \in DOMAIN orders /\ id \in DOMAIN cancelHistory)
        /\ id \in DOMAIN executedHistory =>
              \A t \in Range(ParseHistory(executedHistory[id])) :
                  (t[1] > 0) <=> (placed[id].orderType = "buy")

\* A Redis error inside executeMatch is not rolled back (spec 7), and the
\* error is dropped by MatchOrder; but since executeMatch credits the
\* buyer's shares, the seller's payment and the refund before it reduces or
\* deletes either order, an interrupted execution can only leave value
\* counted twice, never take a client's money or shares away.
NoValueLost ==
    /\ MapThenSumSet(LAMBDA u : Cash(balance[u]), DOMAIN balance) + EscrowedCash >= cashIn
    /\ \A s \in Symbols :
          MapThenSumSet(LAMBDA k : position[k], {k \in DOMAIN position : k[2] = s})
            + EscrowedShares(s) >= sharesIn[s]

\* The resting order an execution step fills (the other party of the
\* initiating order), and the price it trades at.
FilledNow == {id \in DOMAIN executedHistory' :
                 \/ id \notin DOMAIN executedHistory
                 \/ Len(executedHistory'[id]) > Len(executedHistory[id])}
Resting == CHOOSE id \in FilledNow : id # match.orderId
TradedAt == Last(ParseHistory(executedHistory'[Resting]))[2]

\* Price priority (spec 8.4): an execution fills a resting order whose limit
\* is the best of its book: no cheaper sell for a buy, no dearer buy for a sell.
PricePriority ==
    [][ FilledNow # {} =>
          \A e \in CounterBook :
              IF match.orderType = "buy" THEN placed[Resting].limit <= e[2]
                                         ELSE placed[Resting].limit >= e[2] ]_vars

\* Time priority (spec 8.4 and scenario S5): among resting orders at the
\* best price, the earliest admitted one (lowest id) is filled first.
TimePriority ==
    [][ FilledNow # {} =>
          \A e \in CounterBook :
              e[2] = placed[Resting].limit => Resting <= e[1] ]_vars

\* Time priority on the sell book alone: buy orders fill the oldest sell.
TimePrioritySell ==
    [][ FilledNow # {} /\ match.orderType = "buy" =>
          \A e \in CounterBook :
              e[2] = placed[Resting].limit => Resting <= e[1] ]_vars

\* Resting-price rule (spec 4.5.3, 8.5): every trade is priced at the limit
\* of the older of its two orders, and that price is within the limit of
\* the newer (initiating) one.
TradePrice ==
    [][ FilledNow # {} =>
          /\ Resting < match.orderId
          /\ TradedAt = placed[Resting].limit
          /\ Crosses(match.orderType, match.limit, TradedAt) ]_vars

\* The engine implements the exchange of spec.md (module Exchange): the
\* Redis keyspace read as accounts, positions, open orders and histories,
\* every command and every executeMatch one step of the exchange (or none),
\* the books and the loop's bookkeeping hidden.  It fails if a command can
\* start on an unsettled market, if an execution pays, prices or reduces
\* differently from one atomic trade with the best-priced resting order, or
\* if a crossed market is ever left crossed.
Abstract == INSTANCE Exchange WITH
    accounts <- balance, holdings <- position, open <- orders,
    fills <- [id \in DOMAIN executedHistory |->
                 [i \in DOMAIN ParseHistory(executedHistory[id]) |->
                     SubSeq(ParseHistory(executedHistory[id])[i], 1, 2)]],
    canceled <- cancelHistory,
    lastId <- orderIdCounter
ImplementsExchange == Abstract!Spec

\* Every admitted order's MatchOrder loop ends: matching runs to exhaustion
\* and releases the engine lock.
MatchingTerminates == match # NoMatch ~> match = NoMatch

=============================================================================
