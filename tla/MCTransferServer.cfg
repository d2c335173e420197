SPECIFICATION Spec
CONSTANTS
    Worker = {w1, w2}
    Peer = {p1, p2}
    AuthorizedPeer = p1
    TransferId = {t1, t2}
    Nonce = {n1, n2}
    Chunk = {c1}
    NoTransfer = NoTransfer
    MaxActiveTransfers = 1
    MaxBeginNonces = 2
    OfferExpiry = 2
    TransferTtl = 1
    MaxClock = 2
    MaxCommands = 2
    CommandBudget = 2
SYMMETRY Symmetry
CONSTRAINT WithinBudget
INVARIANTS
    OneLiveSessionPerNonce
    CapacityRespected
    CancelledCountedOnce
    AcceptedInIssueOrder
    CancelHasACause
PROPERTIES
    TerminalIsFinal
    DeliveryIsAuthorised
    ImplementsLifecycle
