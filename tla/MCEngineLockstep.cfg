SPECIFICATION LockstepSpec
CONSTANTS
    MaxId = 4
    Prices = {1, 2}
    Quantities = {1, 3}
    MaxOrdersC = 4
    MaxTradesC = 1
    MaxTrades = 2
    MaxCalls = 4
INVARIANTS ListsMatchTable InStep
PROPERTY ImplementsPriceTime
