CONSTANTS
    c1 = c1  c2 = c2  p1 = p1  p2 = p2
    Classes = {wifi}
    Conns = {c1, c2}
    Fds = {f1, f2}
    Pids = {p1, p2}
    PidOf <- OwnPidOf
    Requests = {"Register", "Unregister"}
    Handles = {1}
    Faults = {}
    MaxRequests = 1
    MaxEvents = 2
    SendBuffer = 1
    None = None
SPECIFICATION Spec
SYMMETRY FdSymmetry
INVARIANTS NoLostUpdate EventsInOrder RegisteredIsolated UnregisteredIsGone
PROPERTY ImplementsService
