SPECIFICATION Spec
CONSTANTS
    Controllers = {c}
    Hosts = {h}
    Apps = {a}
    Peers = {c, h, a}
    Tracks = {video0}
    Channels = {input}
    Ports = {50000}
    HostPort = 50000
    MaxConnections = 4
    MaxFailures = 1
INVARIANTS
    SocketsOwned
    SessionsAttached
    StartupsBalanced
PROPERTIES
    UsedOnlyWhenReopened
CHECK_DEADLOCK FALSE
