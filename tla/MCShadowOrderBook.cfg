SPECIFICATION Spec
CONSTANTS
    Ids = {o1, o2, o3, o4}
    Prices = {1, 2}
    Quantities = {1, 2, 3}
    MaxTrades = 2
    NoId = none
    MaxOrders = 4
SYMMETRY IdSymmetry
INVARIANTS BookConsistent QuantityConserved
PROPERTIES CallsProgress ImplementsPriceTime
