SPECIFICATION Spec
CONSTANTS
    Threads = {t1}
    Secrets = {s1, s2}
    Passphrases = {p, q}
    NoPass = NoPass
    EmptyPass = EmptyPass
    DefaultPassphrase = p
    Nothing = Nothing
    MaxCrashes = 1
SYMMETRY Interchangeable
INVARIANTS DeletionAtomic
