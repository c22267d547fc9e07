SPECIFICATION FairSpec
CONSTANTS
    Calls = {c1}
    Operations <- ClientOperations
    Wallets = {w1, w2}
    NoWallet = NoWallet
    Handles = {h1}
    NoHandle = NoHandle
    RetryConfigs <- CappedBackoff
    MaxReconfig = 3
    MaxPolls = 0
INVARIANTS
    BootstrapOpen
    SealedAnswerOpened
    RetryBudget
PROPERTIES
    FailClosedSends
    CallsEnd
CHECK_DEADLOCK FALSE
