----------------------------- MODULE Dispatcher -----------------------------
(***************************************************************************)
(* The command dispatcher (C6) over the matching engine: every accepted    *)
(* connection runs in its own goroutine (TCPserver.Listen: go listen()),   *)
(* parses its one request with XmlParser's Parse (main.go's callback),    *)
(* answers a rejected request with the parse error, and otherwise has      *)
(* CommandListExecutor run the commands in order.  Each command takes the  *)
(* process-wide RWMutex for itself: Lock for the mutating commands, RLock  *)
(* for a query, released by defer when its execute method returns.  The   *)
(* requests are constants: the interleaving of the connections' commands  *)
(* is what is explored.  Before the callback, Connection.listen reads the *)
(* request off the socket (module Framing); a request it rejects never    *)
(* reaches the parser, and a length line that makes it panic ends the     *)
(* server.                                                                *)
(***************************************************************************)
EXTENDS MatchingEngine, Framing

CONSTANTS
    Requests, \* Requests[c]: the XML document connection c sends
    None      \* model value: the write lock is free

VARIABLES
    next,       \* next[c]: index in Batch(c) of the command to run next,
                \* 0 while the request is not yet parsed
    writer,     \* the connection whose command holds the write lock, or None
    responses   \* responses[c]: the <results> children written so far

dvars == <<next, writer, responses>>
allvars == <<vars, dvars, fvars>>

\* The parser; only its pure operators are used.
Xml == INSTANCE XmlParser WITH Uids <- Users, Syms <- Symbols, NumTexts <- {},
                               IdTexts <- {}, MaxChildren <- 0,
                               doc <- [wellFormed |-> FALSE]

\* xmlParser.Parse of each connection's request, evaluated once.
Parsed == [c \in Conns |-> Xml!Parse(Requests[c])]

\* The command list of c's request, empty for a rejected request.
Batch(c) == IF Parsed[c][1] = "ok" THEN Parsed[c][2] ELSE <<>>

\* strconv.Itoa over the order ids the runs reach.
Itoa == <<"1", "2", "3", "4", "5", "6", "7", "8", "9">>
ASSUME MaxOrderId <= Len(Itoa)

\* The order the key "order:" \o t names; 0, which is never an order id,
\* when no order has that key.
OrderOfText(t) == IF \E n \in DOMAIN Itoa : Itoa[n] = t
                  THEN CHOOSE n \in DOMAIN Itoa : Itoa[n] = t ELSE 0

\* The command connection c runs next, if any.
Pending(c) == 1 <= next[c] /\ next[c] <= Len(Batch(c))
Cmd(c) == Batch(c)[next[c]]

\* Command.execute: the engine action a (non-query) command runs.
Run(cmd) ==
    CASE cmd.op = "create" -> CreateAccount(cmd.uid, cmd.balance)
      [] cmd.op = "seed"   -> SetOrAddSymbolPositionToAccount(cmd.uid, cmd.sym, cmd.amount)
      [] cmd.op = "buy"    -> SetBuyOrderCommand(cmd.uid, cmd.sym, cmd.price, cmd.amount)
      [] cmd.op = "sell"   -> SetSellOrderCommand(cmd.uid, cmd.sym, cmd.price, cmd.amount)
      [] cmd.op = "cancel" -> CancelOpenOrder(OrderOfText(cmd.id))

DInit == Init /\ FInit /\ next = [c \in Conns |-> 0] /\ writer = None
              /\ responses = [c \in Conns |-> <<>>]

\* Once Connection.listen has read the whole request, the callback parses
\* it; a parse error is written back at once and no command runs.
Receive(c) ==
    /\ fstate[c] = "accepted" /\ next[c] = 0
    /\ next' = [next EXCEPT ![c] = 1]
    /\ responses' = [responses EXCEPT ![c] =
                        IF Parsed[c][1] = "ok" THEN <<>> ELSE <<"XmlError">>]
    /\ UNCHANGED <<vars, writer>>

\* readWriteLock.Lock() then the body of execute, up to the MatchOrder loop
\* it may start.
BeginCommand(c) ==
    /\ Pending(c) /\ Cmd(c).op # "query"
    /\ writer = None
    /\ writer' = c
    /\ Run(Cmd(c))
    /\ UNCHANGED <<next, responses>>

\* Mutant: Unlock is not deferred and the error return skips it.
EndCommandOnSuccess(c) ==
    /\ writer = c /\ Idle
    /\ result \in {"created", "opened", "canceled"}
    /\ writer' = None
    /\ responses' = [responses EXCEPT ![c] = Append(@, result)]
    /\ next' = [next EXCEPT ![c] = @ + 1]
    /\ UNCHANGED vars

\* The deferred Unlock once execute returns; the executor appends the
\* command's response.
EndCommand(c) ==
    /\ writer = c /\ Idle
    /\ writer' = None
    /\ responses' = [responses EXCEPT ![c] = Append(@, result)]
    /\ next' = [next EXCEPT ![c] = @ + 1]
    /\ UNCHANGED vars

\* QueryOrderStatusAndHistoryCommand.execute under RLock: readers exclude
\* only the writer, and a query changes no engine state.
QueryCommand(c) ==
    /\ Pending(c) /\ Cmd(c).op = "query"
    /\ writer = None
    /\ QueryOrderStatusAndHistory(OrderOfText(Cmd(c).id))
    /\ responses' = [responses EXCEPT ![c] = Append(@, result')]
    /\ next' = [next EXCEPT ![c] = @ + 1]
    /\ UNCHANGED writer

\* An iteration of the MatchOrder loop of the command holding the lock.
MatchStep == MatchOrder /\ UNCHANGED dvars

\* Reading requests, and, while the process runs, serving them.
DNext ==
    \/ FNext /\ UNCHANGED <<vars, dvars>>
    \/ /\ up
       /\ \/ \E c \in Conns : \/ Receive(c) \/ BeginCommand(c) \/ EndCommand(c)
                             \/ QueryCommand(c)
          \/ MatchStep
       /\ UNCHANGED fvars

\* A goroutine that waits on the lock gets it eventually (sync.Mutex hands
\* the lock over to waiters that starve), so lock acquisition is strongly
\* fair; the lock holder and its matching loop run on (weak fairness).
\* Each client sends its whole stream and each listen goroutine keeps
\* reading while bytes are there (weak fairness).
DSpec == DInit /\ [][DNext]_allvars
         /\ \A c \in Conns : /\ WF_allvars(Deliver(c) /\ UNCHANGED <<vars, dvars>>)
                             /\ WF_allvars(ReadLine(c) /\ UNCHANGED <<vars, dvars>>)
                             /\ WF_allvars(ReadBody(c) /\ UNCHANGED <<vars, dvars>>)
                             /\ WF_allvars(up /\ Receive(c) /\ UNCHANGED fvars)
                             /\ SF_allvars(up /\ (BeginCommand(c) \/ QueryCommand(c))
                                            /\ UNCHANGED fvars)
                             /\ WF_allvars(up /\ EndCommand(c) /\ UNCHANGED fvars)
         /\ WF_allvars(up /\ MatchStep /\ UNCHANGED fvars)

-----------------------------------------------------------------------------
(* Properties.                                                              *)

\* c has been answered: a framing error, or a parse error or one record
\* per command of its request.
Answered(c) == fstate[c] = "rejected" \/ next[c] > Len(Batch(c))

\* Spec 5 and 6: every connection eventually gets the response to its whole
\* request, or the framing error and the close: no command keeps the lock,
\* no waiter starves, and no request's length line stops the server.
AllAnswered == <>(\A c \in Conns : Answered(c))

\* A connection's batch is in progress when some, not all, of its commands
\* have run, or one of them holds the lock.
InProgress(c) == \/ 1 < next[c] /\ Pending(c)
                 \/ writer = c

\* Batch atomicity (spec 2 and 5): the dispatcher holds the engine lock for
\* a whole batch, so at most one batch is ever in progress.
BatchAtomicity ==
    \A c, d \in Conns : InProgress(c) /\ InProgress(d) => c = d
=============================================================================
