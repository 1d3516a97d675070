SPECIFICATION Spec
CONSTANTS
    k1 = k1
    ks = ks
    kShort = kShort
    kRandom = kRandom
    Nobody <- MCNobody
    AccSize = 65536
    KeyBytes = 4
    DefaultPort = 8989
    Chosen <- MCChosen
    SixthIsS = {ks}
    Short = {kShort}
    Digest <- MCDigest
    PublicKey <- MCPublicKey
    RandomKey = kRandom
    RandomSeed <- MCRandomSeed
    DefaultHost <- MCDefaultHost
    Character <- MCCharacter
    Control <- MCControl
    Decimal <- MCDecimal
    ServerLines <- MCServerLines
    ClientExtras <- MCClientExtras
INVARIANTS
    UrlLeadsToServer
    EndpointAgreed
    OnlyTheKeyOpens
CHECK_DEADLOCK FALSE
