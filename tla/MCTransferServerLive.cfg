SPECIFICATION FairSpec
CONSTANTS
    Worker = {w1, w2}
    Peer = {p1}
    AuthorizedPeer = p1
    TransferId = {t1}
    Nonce = {n1}
    Chunk = {c1}
    NoTransfer = NoTransfer
    MaxActiveTransfers = 1
    MaxBeginNonces = 1
    OfferExpiry = 1
    TransferTtl = 1
    MaxClock = 1
    MaxCommands = 2
    CommandBudget = 2
PROPERTIES
    EveryRequestIsAnswered
    ExpiredIsForgotten
