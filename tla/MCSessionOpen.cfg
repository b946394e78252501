SPECIFICATION Spec
CONSTANTS
    Controllers = {c}
    Hosts = {}
    Apps = {}
    Peers = {c}
    Tracks = {video0}
    Channels = {input}
    Ports = {50000}
    HostPort = 50000
    MaxConnections = 2
    MaxFailures = 0
INVARIANTS
    ErrMeansClosed
CHECK_DEADLOCK FALSE
