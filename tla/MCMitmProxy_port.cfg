CONSTANTS
    w1 = w1  w2 = w2  h1 = h1  h2 = h2  i1 = i1  i2 = i2
    NoSni = NoSni
    Workers <- MCWorkers
    Hosts <- MCHosts
    Ips <- MCIps
    IpOf <- MCIpOf
    ChainOf <- MCChainOf
    Ports = {80, 443}
    MaxConns = 3
    OperatorPinned = {}
SYMMETRY Symm
SPECIFICATION Spec
INVARIANT PortDispatch
