SPECIFICATION Spec
CONSTANTS
    MaxLiveSourceOffers = 1
    MaxInputs = 4
    MaxPastes = 1
    MaxOffers = 2
PROPERTIES CancelledStaysUnread
CHECK_DEADLOCK FALSE
