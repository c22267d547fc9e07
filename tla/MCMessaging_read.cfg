SPECIFICATION Spec
CONSTANTS
    a1 = a1
    a2 = a2
    ka = ka
    kb = kb
    Wallets = {a1, a2}
    Keys = {ka, kb}
    KeyOf <- OneKey
    Texts = {hello}
    MaxSeals = 1
    MaxPairs = 1
    NoKey = NoKey
    Validator = Validator
    Throws = Throws
    NoText = NoText
INVARIANTS TypeOK OwnIdentitiesRead OnlyAddresseeReads AdvertisesConfigured
