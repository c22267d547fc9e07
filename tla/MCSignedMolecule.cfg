SPECIFICATION Spec
CONSTANTS
    HashLength = 3
    Reach = 2
    Symbols <- SomeSymbols
    Chains <- TwoAndThree
    TextLength <- Lengths
    MaxAtoms = 3
    MaxSigns = 2
    None = None
INVARIANTS NormalizedBalanced SignatureAccepted GenuineVerifies ChangedRefused
CHECK_DEADLOCK FALSE
