SPECIFICATION Spec
CONSTANTS
    MaxLiveSourceOffers = 1
    MaxInputs = 4
    MaxPastes = 1
    MaxOffers = 2
INVARIANTS OfferedObjectIsLeased EachCopyIsPublishedOnce NoCopyIsSilentlyLost AnnouncedOfferIsLive
PROPERTIES PendingIsNotLost ImplementsView AcknowledgedOfferIsTaken StopIsObeyed
CHECK_DEADLOCK FALSE
