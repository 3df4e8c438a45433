SPECIFICATION Spec
CONSTANTS
    MaxConnections = 2
    MaxBacklog = 1
    MaxInbox = 1
INVARIANTS TypeOK OneSession SocketsOwned
PROPERTIES MovingMisplaces GoesOn
CHECK_DEADLOCK FALSE
