CONSTANTS
    c1 = c1  c2 = c2  p1 = p1  p2 = p2
    Classes = {wifi, lte}
    Conns = {c1}
    Fds = {f1}
    Pids = {p1}
    PidOf <- OwnPidOf
    Requests = {"Register", "Unregister", "QueryCurrent", "unknownType", "short"}
    Handles = {0, 1, 2}
    Faults = {"epollAdd", "epollWait"}
    MaxRequests = 2
    MaxEvents = 1
    SendBuffer = 2
    None = None
SPECIFICATION Spec
INVARIANTS TypeOK RegistryKeyed NoLostUpdate UnregisteredIsGone
PROPERTY ImplementsService
