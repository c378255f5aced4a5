--------------------------- MODULE MC_Dispatcher ---------------------------
(***************************************************************************)
(* Four connections, each sending one request over one symbol.  c1 sends  *)
(* a <create> that opens u1 with 2 and u2 with 0 and gives u2 two shares;  *)
(* c2, for u1, buys 1 at 2 and queries order "2"; c3, for u2, sells 2 at 1 *)
(* (amount "-2") and cancels order "1"; c4's request is not well-formed.  *)
(* Which order gets id 1, whether the cancel finds it open and whether the *)
(* sell trades all depend on how the requests interleave; orders that run *)
(* before c1's accounts exist fail, so error responses are exercised too. *)
(* Each request is framed by a length line; c2's body is two bytes, the   *)
(* others' one.  MCHeadersNegative gives c4 the length line "-1".          *)
(***************************************************************************)
EXTENDS Dispatcher

CONSTANTS u1, u2, s1, c1, c2, c3, c4

MCRequests ==
    (c1 :> [wellFormed |-> TRUE, tag |-> "create", id |-> "",
            children |-> << [tag |-> "account", id |-> u1, balance |-> "2"],
                            [tag |-> "account", id |-> u2, balance |-> "0"],
                            [tag |-> "symbol", sym |-> s1,
                             accounts |-> <<[tag |-> "account", id |-> u2,
                                             text |-> "2"]>>] >>])
 @@ (c2 :> [wellFormed |-> TRUE, tag |-> "transactions", id |-> u1,
            children |-> << [tag |-> "order", sym |-> s1, amount |-> "1",
                             limit |-> "2"],
                            [tag |-> "query", id |-> "2"] >>])
 @@ (c3 :> [wellFormed |-> TRUE, tag |-> "transactions", id |-> u2,
            children |-> << [tag |-> "order", sym |-> s1, amount |-> "-2",
                             limit |-> "1"],
                            [tag |-> "cancel", id |-> "1"] >>])
 @@ (c4 :> [wellFormed |-> FALSE, tag |-> "transactions", id |-> u1,
            children |-> <<>>])

MCBodyLen == (c1 :> 1) @@ (c2 :> 2) @@ (c3 :> 1) @@ (c4 :> 1)
MCHeaders == (c1 :> "1") @@ (c2 :> "2") @@ (c3 :> "1") @@ (c4 :> "1")
MCHeadersNegative == [MCHeaders EXCEPT ![c4] = "-1"]
=============================================================================
