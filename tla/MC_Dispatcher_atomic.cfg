CONSTANTS
    u1 = u1
    u2 = u2
    s1 = s1
    c1 = c1
    c2 = c2
    c3 = c3
    c4 = c4
    NoMatch = NoMatch
    NaN = NaN
    None = None
    Users = {u1, u2}
    Symbols = {s1}
    Prices = {1, 2}
    Amounts = {1, 2}
    Balances = {0, 2}
    Deposits = {2}
    InitOrderIdCounter = 0
    MaxOrderId = 3
    MaxPosition = 2
    MaxFaults = 0
    Conns = {c1, c2, c3, c4}
    Requests <- MCRequests
    BufSize = 2
    Headers <- MCHeaders
    BodyLen <- MCBodyLen

SPECIFICATION DSpec

\* Every batch ends: the server has nothing left to do once all three
\* connections are answered.
CHECK_DEADLOCK FALSE

INVARIANT BatchAtomicity
