------------------------------ MODULE Exchange ------------------------------
(***************************************************************************)
(* What the exchange promises its clients (spec.md 3 and 4.5), with no     *)
(* storage, books or matching loop: accounts and positions, the open      *)
(* orders with their escrow, and each trade as one atomic step between the *)
(* newest order and the best-priced resting order of the other side.      *)
(* Every command other than a trade starts from a settled market: the     *)
(* newest order has been matched to exhaustion, so no buy is priced at or  *)
(* above a sell.  Time priority among equal prices is deliberately left   *)
(* open here (the engine breaks such ties by Redis member order).         *)
(***************************************************************************)
EXTENDS Integers, Sequences, TLC, Functions, FiniteSetsExt

CONSTANTS Users, Symbols, Prices, Amounts, Balances, Deposits,
          InitOrderIdCounter

VARIABLES
    accounts,   \* uid -> balance not held in escrow
    holdings,   \* <<uid, sym>> -> shares not held in escrow
    open,       \* order id -> the open order, its remaining amount
    fills,      \* order id -> sequence of <<signed amount, price>>
    canceled,   \* order id -> amount remaining when it was canceled
    lastId      \* the last order id handed out

avars == <<accounts, holdings, open, fills, canceled, lastId>>

Credit(f, k, d) == IF k \in DOMAIN f THEN [f EXCEPT ![k] = @ + d]
                                     ELSE f @@ (k :> d)

Append1(h, id, e) == IF id \in DOMAIN h THEN [h EXCEPT ![id] = Append(@, e)]
                                        ELSE h @@ (id :> <<e>>)

Drop(f, k) == Restrict(f, DOMAIN f \ {k})

OfSide(s, side) == {id \in DOMAIN open : open[id].symbol = s /\ open[id].orderType = side}

\* No open buy of a symbol is priced at or above an open sell of it.
Settled == \A s \in Symbols : \A b \in OfSide(s, "buy"), a \in OfSide(s, "sell") :
               open[b].limit < open[a].limit

Init ==
    /\ accounts = <<>> /\ holdings = <<>> /\ open = <<>>
    /\ fills = <<>> /\ canceled = <<>>
    /\ lastId = InitOrderIdCounter

OpenAccount(u, b) ==
    /\ Settled /\ b >= 0 /\ u \notin DOMAIN accounts
    /\ accounts' = accounts @@ (u :> b)
    /\ UNCHANGED <<holdings, open, fills, canceled, lastId>>

Deposit(u, s, a) ==
    /\ Settled /\ u \in DOMAIN accounts /\ a >= 0
    /\ holdings' = Credit(holdings, <<u, s>>, a)
    /\ UNCHANGED <<accounts, open, fills, canceled, lastId>>

\* A submission that is refused still consumes an order id (spec 4.6).
Refuse ==
    /\ Settled
    /\ lastId' = lastId + 1
    /\ UNCHANGED <<accounts, holdings, open, fills, canceled>>

\* Admission escrows the cost of a buy or the shares of a sell.
Admit(u, s, side, p, a) ==
    LET o == [account |-> u, symbol |-> s, limit |-> p, amount |-> a,
              origAmount |-> a, orderType |-> side]
    IN /\ Settled /\ u \in DOMAIN accounts /\ p > 0 /\ a > 0
       /\ lastId' = lastId + 1
       /\ open' = open @@ (lastId' :> o)
       /\ \/ /\ side = "buy" /\ accounts[u] >= p * a
             /\ accounts' = [accounts EXCEPT ![u] = @ - p * a]
             /\ UNCHANGED holdings
          \/ /\ side = "sell" /\ <<u, s>> \in DOMAIN holdings
             /\ holdings[<<u, s>>] >= a
             /\ holdings' = [holdings EXCEPT ![<<u, s>>] = @ - a]
             /\ UNCHANGED accounts
       /\ UNCHANGED <<fills, canceled>>

\* The newest order trades with a best-priced order of the other side, at
\* that resting order's limit, for as much as both still have.
Trade(r) ==
    LET n == open[lastId]
        o == open[r]
        buy  == IF n.orderType = "buy" THEN lastId ELSE r
        sell == IF n.orderType = "buy" THEN r ELSE lastId
        q == Min({n.amount, o.amount})
        x == o.limit
        Reduce(f, id) == IF f[id].amount = q THEN Drop(f, id)
                         ELSE [f EXCEPT ![id].amount = @ - q]
    IN /\ lastId \in DOMAIN open /\ r # lastId
       /\ o.symbol = n.symbol /\ o.orderType # n.orderType
       /\ open[buy].limit >= open[sell].limit
       /\ \A id \in OfSide(o.symbol, o.orderType) :
             IF o.orderType = "sell" THEN x <= open[id].limit ELSE x >= open[id].limit
       /\ holdings' = Credit(holdings, <<open[buy].account, n.symbol>>, q)
       /\ accounts' = Credit(Credit(accounts, open[sell].account, x * q),
                             open[buy].account, (open[buy].limit - x) * q)
       /\ open' = Reduce(Reduce(open, buy), sell)
       /\ fills' = Append1(Append1(fills, buy, <<q, x>>), sell, <<-q, x>>)
       /\ UNCHANGED <<canceled, lastId>>

\* Cancellation returns what the order still holds in escrow.
Cancel(id) ==
    LET o == open[id]
    IN /\ Settled /\ id \in DOMAIN open
       /\ IF o.orderType = "buy"
             THEN /\ accounts' = [accounts EXCEPT ![o.account] = @ + o.limit * o.amount]
                  /\ UNCHANGED holdings
             ELSE /\ holdings' = Credit(holdings, <<o.account, o.symbol>>, o.amount)
                  /\ UNCHANGED accounts
       /\ open' = Drop(open, id)
       /\ canceled' = canceled @@ (id :> o.amount)
       /\ UNCHANGED <<fills, lastId>>

Next ==
    \/ \E u \in Users, b \in Balances : OpenAccount(u, b)
    \/ \E u \in Users, s \in Symbols, a \in Deposits : Deposit(u, s, a)
    \/ Refuse
    \/ \E u \in Users, s \in Symbols, side \in {"buy", "sell"}, p \in Prices,
          a \in Amounts : Admit(u, s, side, p, a)
    \/ \E r \in DOMAIN open : Trade(r)
    \/ \E id \in DOMAIN open : Cancel(id)

\* A crossed market is eventually settled by trades: matching runs to
\* exhaustion.
Spec == Init /\ [][Next]_avars /\ WF_avars(\E r \in DOMAIN open : Trade(r))
=============================================================================
