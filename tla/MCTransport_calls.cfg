SPECIFICATION Spec
CONSTANTS
    Calls = {c1, c2}
    Operations <- LoginAndTransfer
    Wallets = {w1, w2}
    NoWallet = NoWallet
    Handles = {h1, h2, h3}
    NoHandle = NoHandle
    RetryConfigs <- OneRetry
    MaxReconfig = 1
    MaxPolls = 2
SYMMETRY Interchangeable
INVARIANTS
    TypeOK
    HandlesAccounted
    HandlesBounded
    FailuresCounted
CHECK_DEADLOCK FALSE
