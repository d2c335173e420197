SPECIFICATION DesktopSpec
CONSTANTS
    Command = {c1, c2}
    Tray = tray
    Discovery = disc
    Peer = {r1, r2}
    Address = {a1, a2}
    Limit = 1
    NoIdentity = none
    MaxCalls = 5
    Machine = {A, B}
    MaxSessions = 2
    Subject = {1}
    MaxGenerations = 2
    MaxReloads = 1
INVARIANTS TrustLimitHolds OneIdentity TrayFollowsTheStore TrustNeedsBothApprovals
PROPERTIES WindowObeysTheUser
CHECK_DEADLOCK FALSE
