CONSTANTS
    u1 = u1
    u2 = u2
    s1 = s1
    NoMatch = NoMatch
    NaN = NaN
    Users <- MCUsers
    Symbols <- MCSymbols
    Prices <- MCPrices
    Amounts <- MCAmounts
    Balances <- MCBalances
    Deposits <- MCDeposits
    InitOrderIdCounter = 0
    MaxOrderId = 3
    MaxPosition = 2
    MaxFaults = 0

SPECIFICATION Spec
SYMMETRY Symm

PROPERTY TimePriority
