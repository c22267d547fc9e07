SPECIFICATION Spec
CONSTANTS
    Threads = {t1, t2}
    Secrets = {s1, s2}
    Passphrases = {p, q}
    NoPass = NoPass
    EmptyPass = EmptyPass
    DefaultPassphrase = p
    Nothing = Nothing
    MaxCrashes = 2
SYMMETRY Interchangeable
INVARIANTS TypeOK RecoverySurvives SecretReadable DeletedStaysDeleted
