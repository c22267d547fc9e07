SPECIFICATION Spec
CONSTANTS
    Units = {u1, u2, u3}
    NewUnit = new
    Amounts <- SomeAmounts
    Balances <- SomeBalances
    IntMax = 3
    MaxServed = 3
INVARIANTS EveryTokenSums
CHECK_DEADLOCK FALSE
