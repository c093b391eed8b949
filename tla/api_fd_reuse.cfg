CONSTANTS
    c1 = c1  c2 = c2  p1 = p1  p2 = p2
    Classes = {wifi}
    Conns = {c1, c2}
    Fds = {f1}
    Pids = {p1, p2}
    PidOf <- OwnPidOf
    Requests = {"Register"}
    Handles = {}
    Faults = {}
    MaxRequests = 1
    MaxEvents = 1
    SendBuffer = 1
    None = None
SPECIFICATION FairSpec
PROPERTY ClosedForCause
