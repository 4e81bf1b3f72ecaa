SPECIFICATION Spec
CHECK_DEADLOCK FALSE
CONSTANTS
    a = a
    b = b
    c = c
    x = x
    y = y
    z = z
    pd = pd
    other = other
    Default = default
    None = None
    Nodes = {a, b, c}
    Addresses = {x, y, z}
    Services = {pd}
    Namespaces = {default, other}
    Addr <- Addrs
    EndpointID <- Ids
    Uses <- SingleAndDual
    MaxEndpoints = 2
    MaxFaults = 2
INVARIANTS
    TypeOK
    NothingLeft
    PeersFound
PROPERTY OnlyItsOwn
