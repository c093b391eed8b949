----------------------------- MODULE ConsumerApi -----------------------------
(***************************************************************************)
(* The consumer registration service (api/consumer_api_server.cpp): the    *)
(* epoll thread that serves consumers, the monitor threads that broadcast  *)
(* path events, one per class, and the main thread that stops the server.  *)
(*                                                                         *)
(* What the threads share is modelled at the grain at which they can       *)
(* interleave: registryMutex_ guards the registry; file descriptors, the   *)
(* cached class states and the cgroup files are used outside it.  A file   *)
(* descriptor is a number the kernel gives to a connection and, once       *)
(* closed, to another one; a connection is one connect() of a consumer.    *)
(*                                                                         *)
(* The n-th state the machine of a class announces is written as the       *)
(* number n: what the properties need to know of a state is how old it is. *)
(***************************************************************************)
EXTENDS Integers, Sequences

CONSTANTS
    Classes,        \* the configured path classes
    Conns,          \* connections consumers open, each used once
    Fds,            \* descriptors the kernel has for connections
    Pids,           \* consumer processes
    PidOf,          \* the process a connection registers
    Requests,       \* kinds of requests consumers send
    Handles,        \* the handles they name in an Unregister, whoever they belong to
    Faults,         \* calls that may fail: see FaultKinds
    MaxRequests,    \* bound: requests per connection
    MaxEvents,      \* bound: path events per class
    SendBuffer,     \* messages a connection's socket buffer holds
    None            \* no connection, no class, the root cgroup, an unknown class id

RequestKinds == {"Register", "Unregister", "QueryCurrent", "unknownType", "short"}

\* "epollAdd": EPOLL_CTL_ADD; "epollWait": epoll_wait(), other than by a signal;
\* "cgroup": opening a tasks file.
FaultKinds == {"epollAdd", "epollWait", "cgroup"}

ASSUME ApiAssumption ==
    /\ None \notin Conns \cup Classes \cup Fds \cup Pids
    /\ {"listen", "wakeup"} \cap Fds = {}
    /\ PidOf \in [Conns -> Pids]
    /\ Requests \subseteq RequestKinds /\ Handles \subseteq Nat
    /\ Faults \subseteq FaultKinds
    /\ MaxRequests \in Nat /\ MaxEvents \in Nat /\ SendBuffer \in Nat \ {0}

VARIABLES
    \* The kernel and the consumers.
    conn,           \* Conns: "fresh", "backlog", "open" or "closed" by the server
    peer,           \* Conns: the consumer's end is open
    fdTable,        \* Fds: the connection behind a descriptor, or None
    inbox,          \* Conns: requests sent by the consumer, not yet received
    asked,          \* Conns: how many requests it sent
    sent,           \* Conns: every message the server sent, oldest first
    unread,         \* Conns: how many of them the consumer has not read
    cgroup,         \* Pids: the class whose cgroup holds the process
    \* The server.
    registry,       \* registry_: its entries; conn stands for the pid, PidOf[conn]
    nextHandle,     \* nextHandle_
    mutex,          \* the class whose monitor thread holds registryMutex_
    cacheState,     \* Classes: ClassState::state
    cacheRssi,      \* Classes: ClassState::activeIface and rssi
    running,        \* running_
    \* The threads.
    epc,            \* the epoll thread
    batch,          \* events of the last epoll_wait() still to be handled
    cur,            \* the request being handled
    bpc,            \* Classes: the monitor thread, in broadcastPathEvent()
    toRemove,       \* Classes: toRemove
    mpc,            \* the main thread, in stop()
    failed          \* connections a broadcast could not send to

consumerVars == <<peer, inbox, asked>>
kernelVars == <<conn, fdTable, sent, unread, cgroup>>
serverVars == <<registry, nextHandle, mutex, cacheState, cacheRssi, running>>
threadVars == <<epc, batch, cur, bpc, toRemove, mpc, failed>>
vars == <<consumerVars, kernelVars, serverVars, threadVars>>

ClassIds == Classes \cup {None}
Entry == [fd : Fds, conn : Conns, handle : Nat, class : Classes]
Request == [type : RequestKinds, class : ClassIds, handle : Nat]
NoRequest == [fd |-> None, conn |-> None, handle |-> 0, state |-> 0,
              req |-> [type |-> "short", class |-> None, handle |-> 0]]
Message == [type : {"RegisterAck", "UnregisterAck", "QueryAck", "PathEvent"},
            ok : BOOLEAN, handle : Nat, class : ClassIds, state : Nat, rssi : Nat]

\* fd of listenFd_ and wakeupFd_ in an epoll event.
EventFds == Fds \cup {"listen", "wakeup"}
Event == [fd : EventFds, hup : BOOLEAN]

-----------------------------------------------------------------------------
(* Messages and descriptors.                                               *)

Reply(type, ok, handle, class, st, rs) ==
    [type |-> type, ok |-> ok, handle |-> handle, class |-> class,
     state |-> st, rssi |-> rs]

\* send() on fd succeeds: the descriptor is open, the consumer has not closed
\* its end and there is room in the buffer.
CanSend(fd) ==
    LET c == fdTable[fd] IN
    /\ c # None
    /\ peer[c]
    /\ unread[c] < SendBuffer

\* sendMsg(): a reply that cannot be sent is dropped.
sendMsg(fd, msg) ==
    LET c == fdTable[fd] IN
    IF CanSend(fd)
    THEN /\ sent' = [sent EXCEPT ![c] = Append(@, msg)]
         /\ unread' = [unread EXCEPT ![c] = @ + 1]
    ELSE UNCHANGED <<sent, unread>>

\* close() of descriptors, whatever is behind them by now; EPOLL_CTL_DEL too.
Close(fds) ==
    /\ conn' = [c \in Conns |-> IF \E f \in fds : fdTable[f] = c THEN "closed" ELSE conn[c]]
    /\ fdTable' = [f \in Fds |-> IF f \in fds THEN None ELSE fdTable[f]]

\* The first entry of the vector with this descriptor: push_back() keeps the
\* entries in the order of their handles.
EntriesByHandle(fd) == {e \in registry : e.handle = fd}    \* with a bug: the wrong field
EntriesOf(fd) == {e \in registry : e.fd = fd}
First(entries) ==
    {e \in entries : \A other \in entries : e.handle <= other.handle}

-----------------------------------------------------------------------------
(* cgroups: one process is in one cgroup of the hierarchy.                 *)

\* The cgroups after writing each of pids to the tasks file of group.
Moved(pids, group) == [p \in Pids |-> IF p \in pids THEN group ELSE cgroup[p]]
Write(pids, group) ==
    cgroup' \in {Moved(pids, group)} \cup (IF "cgroup" \in Faults THEN {cgroup} ELSE {})

assignCgroupPid(class, pid) == Write({pid}, class)
\* With a bug: the cgroup of the class is emptied.
removeCgroupClass(entries) ==
    Write({p \in Pids : \E e \in entries : cgroup[p] = e.class}, None)
removeCgroupPid(entries) == Write({PidOf[e.conn] : e \in entries}, None)

-----------------------------------------------------------------------------
(* Consumers.                                                              *)

Connect(c) ==
    /\ conn[c] = "fresh"
    /\ mpc # "stopped"
    /\ conn' = [conn EXCEPT ![c] = "backlog"]
    /\ peer' = [peer EXCEPT ![c] = TRUE]
    /\ UNCHANGED <<fdTable, inbox, asked, sent, unread, cgroup, serverVars, threadVars>>

Ask(c, req) ==
    /\ peer[c]
    /\ conn[c] \in {"backlog", "open"}
    /\ asked[c] < MaxRequests
    /\ req.type \in Requests
    /\ inbox' = [inbox EXCEPT ![c] = Append(@, req)]
    /\ asked' = [asked EXCEPT ![c] = @ + 1]
    /\ UNCHANGED <<peer, kernelVars, serverVars, threadVars>>

\* What a consumer reads after the server closed the connection is not modelled.
Read(c) ==
    /\ peer[c] /\ conn[c] = "open"
    /\ unread[c] > 0
    /\ unread' = [unread EXCEPT ![c] = @ - 1]
    /\ UNCHANGED <<consumerVars, conn, fdTable, sent, cgroup, serverVars, threadVars>>

\* The consumer closes its end, or its process ends.
Hangup(c) ==
    /\ peer[c] /\ conn[c] # "closed"
    /\ peer' = [peer EXCEPT ![c] = FALSE]
    /\ UNCHANGED <<inbox, asked, kernelVars, serverVars, threadVars>>

\* Requests differ in what their kind looks at.  An Unregister may name any handle:
\* that of another consumer, or one that is not given out yet.
ConsumerRequests ==
    [type : {"Register", "QueryCurrent"}, class : ClassIds, handle : {0}]
    \cup [type : {"unknownType", "short"}, class : {None}, handle : {0}]
    \cup [type : {"Unregister"}, class : {None}, handle : Handles]

Consumer ==
    \E c \in Conns :
        \/ Connect(c) \/ Read(c) \/ Hangup(c)
        \/ \E req \in ConsumerRequests : Ask(c, req)

-----------------------------------------------------------------------------
(* The epoll thread: runLoop() and the handlers.                           *)

\* Descriptors with something to report.  Level-triggered: an event stays
\* until its cause is gone, but a batch that was fetched is not updated.
Ready ==
    {[fd |-> f, hup |-> ~peer[fdTable[f]]] :
        f \in {g \in Fds : /\ fdTable[g] # None
                           /\ inbox[fdTable[g]] # <<>> \/ ~peer[fdTable[g]]}}
    \cup {[fd |-> "listen", hup |-> FALSE] : c \in {d \in Conns : conn[d] = "backlog"}}
    \cup (IF running THEN {} ELSE {[fd |-> "wakeup", hup |-> FALSE]})

\* Back in runLoop(), with the batch as it is.
Return ==
    /\ epc' = IF batch = {} THEN "loop" ELSE "batch"
    /\ cur' = NoRequest

\* Taking ev from the batch to handle it next.
Take(ev, to) ==
    /\ epc = "batch"
    /\ ev \in batch
    /\ batch' = batch \ {ev}
    /\ epc' = to

\* The condition of the loop.
LoopTest ==
    /\ epc = "loop"
    /\ epc' = IF running THEN "wait" ELSE "exited"
    /\ UNCHANGED <<consumerVars, kernelVars, serverVars, batch, cur, bpc, toRemove, mpc, failed>>

EpollWait ==
    /\ epc = "wait"
    /\ Ready # {}
    /\ batch' = Ready
    /\ epc' = "batch"
    /\ UNCHANGED <<consumerVars, kernelVars, serverVars, cur, bpc, toRemove, mpc, failed>>

\* An error that is not EINTR ends the loop; nobody is told.
EpollFail ==
    /\ "epollWait" \in Faults
    /\ epc = "wait"
    /\ epc' = "exited"
    /\ UNCHANGED <<consumerVars, kernelVars, serverVars, batch, cur, bpc, toRemove, mpc, failed>>

\* The wakeup event ends the loop, and with it the rest of the batch.
Wakeup ==
    /\ Take([fd |-> "wakeup", hup |-> FALSE], "exited")
    /\ UNCHANGED <<consumerVars, kernelVars, serverVars, cur, bpc, toRemove, mpc, failed>>

HandleListen ==
    /\ Take([fd |-> "listen", hup |-> FALSE], "accept")
    /\ UNCHANGED <<consumerVars, kernelVars, serverVars, cur, bpc, toRemove, mpc, failed>>

\* handleAccept(): accept4() until nothing is left or no descriptor is free.
Accept(c, f) ==
    /\ epc = "accept"
    /\ conn[c] = "backlog"
    /\ fdTable[f] = None
    /\ \/ /\ conn' = [conn EXCEPT ![c] = "open"]
          /\ fdTable' = [fdTable EXCEPT ![f] = c]
       \/ /\ "epollAdd" \in Faults
          /\ conn' = [conn EXCEPT ![c] = "closed"]
          /\ UNCHANGED fdTable
    /\ UNCHANGED <<consumerVars, sent, unread, cgroup, serverVars, threadVars>>

\* With a bug: accept4() is called again after EMFILE.
AcceptDoneRetries ==
    /\ epc = "accept"
    /\ \/ /\ \A c \in Conns : conn[c] # "backlog"
          /\ Return
          /\ UNCHANGED <<consumerVars, kernelVars, serverVars,
                         batch, bpc, toRemove, mpc, failed>>
       \/ /\ \A f \in Fds : fdTable[f] # None
          /\ UNCHANGED vars

AcceptDone ==
    /\ epc = "accept"
    /\ \/ \A c \in Conns : conn[c] # "backlog"
       \/ \A f \in Fds : fdTable[f] # None
    /\ Return
    /\ UNCHANGED <<consumerVars, kernelVars, serverVars,
                   batch, bpc, toRemove, mpc, failed>>

\* With a bug: a short read counts as a message.
CanReceiveShort(f) == fdTable[f] # None /\ inbox[fdTable[f]] # <<>>

\* recvMsg() gets a whole message from the descriptor.
CanReceive(f) ==
    /\ fdTable[f] # None
    /\ inbox[fdTable[f]] # <<>>
    /\ Head(inbox[fdTable[f]]).type # "short"

Receive(f) ==
    LET c == fdTable[f] IN
    /\ CanReceive(f)
    /\ Take([fd |-> f, hup |-> FALSE], Head(inbox[c]).type)
    /\ cur' = [fd |-> f, conn |-> c, req |-> Head(inbox[c]), handle |-> 0, state |-> 0]
    /\ inbox' = [inbox EXCEPT ![c] = Tail(@)]
    /\ UNCHANGED <<peer, asked, kernelVars, serverVars, bpc, toRemove, mpc, failed>>

\* removeClient(), outside the lock: the descriptor is closed unconditionally.
\* It is called for a hangup and for a descriptor recvMsg() gets nothing from.
CloseClient(ev) ==
    /\ ev.fd \in Fds
    /\ ev.hup \/ ~CanReceive(ev.fd)
    /\ Take(ev, "remove")
    /\ Close({ev.fd})
    /\ cur' = [NoRequest EXCEPT !.fd = ev.fd]
    /\ UNCHANGED <<consumerVars, sent, unread, cgroup, serverVars, bpc, toRemove, mpc, failed>>

\* removeClient(), under the lock.
EraseClient ==
    LET gone == First(EntriesOf(cur.fd)) IN
    /\ epc = "remove"
    /\ mutex = None
    /\ registry' = registry \ gone
    /\ removeCgroupPid(gone)
    /\ Return
    /\ UNCHANGED <<consumerVars, conn, fdTable, sent, unread, nextHandle, mutex,
                   cacheState, cacheRssi, running, batch, bpc, toRemove, mpc, failed>>

\* Replies that need nothing but the request: errors, and the unregistration,
\* which looks the handle up and replies under the lock.
Refuse(at, type) ==
    /\ epc = at
    /\ sendMsg(cur.fd, Reply(type, FALSE, 0, None, 0, 0))
    /\ Return
    /\ UNCHANGED <<consumerVars, conn, fdTable, cgroup, serverVars,
                   batch, bpc, toRemove, mpc, failed>>

RefuseRegister == cur.req.class \notin Classes /\ Refuse("Register", "RegisterAck")
RefuseQuery == cur.req.class \notin Classes /\ Refuse("QueryCurrent", "QueryAck")
UnknownType == Refuse("unknownType", "RegisterAck")

\* With a bug: the entry is not erased.
handleUnregisterKeeps ==
    LET gone == First({e \in registry : e.handle = cur.req.handle}) IN
    /\ epc = "Unregister"
    /\ mutex = None
    /\ removeCgroupPid(gone)
    /\ sendMsg(cur.fd, Reply("UnregisterAck", gone # {}, cur.req.handle, None, 0, 0))
    /\ Return
    /\ UNCHANGED <<consumerVars, conn, fdTable, serverVars, batch, bpc, toRemove, mpc, failed>>

handleUnregister ==
    LET gone == First({e \in registry : e.handle = cur.req.handle}) IN
    /\ epc = "Unregister"
    /\ mutex = None
    /\ registry' = registry \ gone
    /\ removeCgroupPid(gone)
    /\ sendMsg(cur.fd, Reply("UnregisterAck", gone # {}, cur.req.handle, None, 0, 0))
    /\ Return
    /\ UNCHANGED <<consumerVars, conn, fdTable, nextHandle, mutex, cacheState, cacheRssi,
                   running, batch, bpc, toRemove, mpc, failed>>

\* handleRegister(): the entry, then the cgroup, then the state for the reply.
RegisterEntry ==
    LET entry == [fd |-> cur.fd, conn |-> cur.conn,
                  handle |-> nextHandle, class |-> cur.req.class] IN
    /\ epc = "Register"
    /\ cur.req.class \in Classes
    /\ mutex = None
    /\ registry' = (registry \ EntriesOf(cur.fd)) \cup {entry}
    /\ nextHandle' = nextHandle + 1
    /\ cur' = [cur EXCEPT !.handle = nextHandle]
    /\ epc' = "assign"
    /\ UNCHANGED <<consumerVars, kernelVars, mutex, cacheState, cacheRssi, running,
                   batch, bpc, toRemove, mpc, failed>>

Assign ==
    /\ epc = "assign"
    /\ assignCgroupPid(cur.req.class, PidOf[cur.conn])
    /\ epc' = "readState"
    /\ UNCHANGED <<consumerVars, conn, fdTable, sent, unread, serverVars,
                   batch, cur, bpc, toRemove, mpc, failed>>

\* Neither read takes a lock.
ReadState ==
    /\ \/ epc = "readState"
       \/ epc = "QueryCurrent" /\ cur.req.class \in Classes
    /\ cur' = [cur EXCEPT !.state = cacheState[cur.req.class]]
    /\ epc' = "acknowledge"
    /\ UNCHANGED <<consumerVars, kernelVars, serverVars,
                   batch, bpc, toRemove, mpc, failed>>

Answer ==
    Reply(IF cur.req.type = "Register" THEN "RegisterAck" ELSE "QueryAck", TRUE,
          cur.handle, cur.req.class, cur.state, cacheRssi[cur.req.class])

Acknowledge ==
    /\ epc = "acknowledge"
    /\ sendMsg(cur.fd, Answer)
    /\ Return
    /\ UNCHANGED <<consumerVars, conn, fdTable, cgroup, serverVars,
                   batch, bpc, toRemove, mpc, failed>>

EpollThread ==
    \/ LoopTest \/ EpollWait \/ EpollFail \/ Wakeup \/ HandleListen \/ AcceptDone
    \/ \E c \in Conns, f \in Fds : Accept(c, f)
    \/ \E f \in Fds : Receive(f)
    \/ \E ev \in batch : CloseClient(ev)
    \/ EraseClient \/ RefuseRegister \/ RefuseQuery \/ UnknownType
    \/ handleUnregister \/ RegisterEntry \/ Assign \/ ReadState \/ Acknowledge

-----------------------------------------------------------------------------
(* A monitor thread: broadcastPathEvent(), called by its state machine.    *)

\* With a bug: a transition to the same state is announced again.
AnnounceUnchanged(k) ==
    /\ bpc[k] = "idle"
    /\ mpc = "run"
    /\ cacheState[k] < MaxEvents
    /\ \E n \in {0, 1} : cacheState' = [cacheState EXCEPT ![k] = @ + n]
    /\ bpc' = [bpc EXCEPT ![k] = "fields"]
    /\ UNCHANGED <<consumerVars, kernelVars, registry, nextHandle, mutex, cacheRssi, running,
                   epc, batch, cur, toRemove, mpc, failed>>

\* updateCurrentState(): the new state, without a lock.
Announce(k) ==
    /\ bpc[k] = "idle"
    /\ mpc = "run"
    /\ cacheState[k] < MaxEvents
    /\ cacheState' = [cacheState EXCEPT ![k] = @ + 1]
    /\ bpc' = [bpc EXCEPT ![k] = "fields"]
    /\ UNCHANGED <<consumerVars, kernelVars, registry, nextHandle, mutex, cacheRssi, running,
                   epc, batch, cur, toRemove, mpc, failed>>

\* The interface and the signal level that go with it.
AnnounceFields(k) ==
    /\ bpc[k] = "fields"
    /\ cacheRssi' = [cacheRssi EXCEPT ![k] = cacheState[k]]
    /\ bpc' = [bpc EXCEPT ![k] = "lock"]
    /\ UNCHANGED <<consumerVars, kernelVars, registry, nextHandle, mutex, cacheState, running,
                   epc, batch, cur, toRemove, mpc, failed>>

Audience(k) == {e \in registry : e.class = k}
Listeners(k) == {fdTable[e.fd] : e \in {a \in Audience(k) : CanSend(a.fd)}}

\* With a bug: a full buffer is not an error.
DeafIfGone(k) == {e \in Audience(k) : fdTable[e.fd] = None \/ ~peer[fdTable[e.fd]]}

\* Entries trySendMsg() fails for: the buffer is full or the connection is gone.
Deaf(k) == {e \in Audience(k) : ~CanSend(e.fd)}

PathEvent(k) == Reply("PathEvent", TRUE, 0, k, cacheState[k], cacheState[k])

\* The loop over the registry, under the lock.
BroadcastSend(k) ==
    /\ bpc[k] = "lock"
    /\ mutex = None
    /\ mutex' = k
    /\ sent' = [c \in Conns |-> IF c \in Listeners(k) THEN Append(sent[c], PathEvent(k))
                                ELSE sent[c]]
    /\ unread' = [c \in Conns |-> IF c \in Listeners(k) THEN unread[c] + 1 ELSE unread[c]]
    /\ toRemove' = [toRemove EXCEPT ![k] = {e.fd : e \in Deaf(k)}]
    /\ failed' = failed \cup ({fdTable[e.fd] : e \in Deaf(k)} \ {None})
    /\ bpc' = [bpc EXCEPT ![k] = "cleanup"]
    /\ UNCHANGED <<consumerVars, conn, fdTable, cgroup, registry, nextHandle,
                   cacheState, cacheRssi, running, epc, batch, cur, mpc>>

\* The cleanup after it; the unlock; and the second updateCurrentState(), from
\* main.cpp, which finds the state it writes.
BroadcastCleanup(k) ==
    LET gone == UNION {First(EntriesOf(f)) : f \in toRemove[k]} IN
    /\ bpc[k] = "cleanup"
    /\ registry' = registry \ gone
    /\ removeCgroupPid(gone)
    /\ Close(toRemove[k])
    /\ mutex' = None
    /\ toRemove' = [toRemove EXCEPT ![k] = {}]
    /\ bpc' = [bpc EXCEPT ![k] = "idle"]
    /\ UNCHANGED <<consumerVars, sent, unread, nextHandle, cacheState, cacheRssi, running,
                   epc, batch, cur, mpc, failed>>

MonitorThread(k) ==
    Announce(k) \/ AnnounceFields(k) \/ BroadcastSend(k) \/ BroadcastCleanup(k)

-----------------------------------------------------------------------------
(* The main thread.                                                        *)

\* main.cpp joins the monitor threads before it stops the server.
Stop ==
    /\ mpc = "run"
    /\ \A k \in Classes : bpc[k] = "idle"
    /\ mpc' = "join"
    /\ running' = FALSE
    /\ UNCHANGED <<consumerVars, kernelVars, registry, nextHandle, mutex, cacheState, cacheRssi,
                   epc, batch, cur, bpc, toRemove, failed>>

\* The descriptors in the registry and the listening socket are closed.
StopClose ==
    LET fds == {e.fd : e \in registry} IN
    /\ mpc = "join"
    /\ epc = "exited"
    /\ mutex = None
    /\ mpc' = "stopped"
    /\ registry' = {}
    /\ fdTable' = [f \in Fds |-> IF f \in fds THEN None ELSE fdTable[f]]
    /\ conn' = [c \in Conns |-> IF conn[c] = "backlog" \/ \E f \in fds : fdTable[f] = c
                                THEN "closed" ELSE conn[c]]
    /\ UNCHANGED <<consumerVars, sent, unread, cgroup, nextHandle, mutex, cacheState, cacheRssi,
                   running, epc, batch, cur, bpc, toRemove, failed>>

Done == mpc = "stopped" /\ UNCHANGED vars

-----------------------------------------------------------------------------
Init ==
    /\ conn = [c \in Conns |-> "fresh"]
    /\ peer = [c \in Conns |-> FALSE]
    /\ fdTable = [f \in Fds |-> None]
    /\ inbox = [c \in Conns |-> <<>>]
    /\ asked = [c \in Conns |-> 0]
    /\ sent = [c \in Conns |-> <<>>]
    /\ unread = [c \in Conns |-> 0]
    /\ cgroup = [p \in Pids |-> None]
    /\ registry = {}
    /\ nextHandle = 1
    /\ mutex = None
    /\ cacheState = [k \in Classes |-> 0]
    /\ cacheRssi = [k \in Classes |-> 0]
    /\ running = TRUE
    /\ epc = "loop"
    /\ batch = {}
    /\ cur = NoRequest
    /\ bpc = [k \in Classes |-> "idle"]
    /\ toRemove = [k \in Classes |-> {}]
    /\ mpc = "run"
    /\ failed = {}

Next ==
    \/ Consumer
    \/ EpollThread
    \/ \E k \in Classes : MonitorThread(k)
    \/ Stop \/ StopClose \/ Done

Spec == Init /\ [][Next]_vars

(***************************************************************************)
(* Fairness: the server's threads are scheduled, and the mutex is released *)
(* by whoever holds it.  Consumers need not read, ask or hang up; states   *)
(* need not change; stop() need not be called.                             *)
(***************************************************************************)
Fairness ==
    /\ WF_vars(EpollThread)
    /\ \A k \in Classes :
          WF_vars(AnnounceFields(k) \/ BroadcastSend(k) \/ BroadcastCleanup(k))
    /\ WF_vars(StopClose)

FairSpec == Spec /\ Fairness

-----------------------------------------------------------------------------
TypeOK ==
    /\ conn \in [Conns -> {"fresh", "backlog", "open", "closed"}]
    /\ peer \in [Conns -> BOOLEAN]
    /\ fdTable \in [Fds -> Conns \cup {None}]
    /\ inbox \in [Conns -> Seq(Request)]
    /\ asked \in [Conns -> Nat]
    /\ sent \in [Conns -> Seq(Message)]
    /\ unread \in [Conns -> Nat]
    /\ cgroup \in [Pids -> ClassIds]
    /\ registry \subseteq Entry
    /\ nextHandle \in Nat \ {0}
    /\ mutex \in ClassIds
    /\ cacheState \in [Classes -> Nat]
    /\ cacheRssi \in [Classes -> Nat]
    /\ running \in BOOLEAN
    /\ epc \in {"loop", "wait", "batch", "accept", "remove", "assign", "readState",
                "acknowledge", "exited"} \cup (RequestKinds \ {"short"})
    /\ batch \subseteq Event
    /\ cur \in [fd : Fds \cup {None}, conn : Conns \cup {None}, handle : Nat, state : Nat,
                req : Request]
    /\ bpc \in [Classes -> {"idle", "fields", "lock", "cleanup"}]
    /\ toRemove \in [Classes -> SUBSET Fds]
    /\ mpc \in {"run", "join", "stopped"}
    /\ failed \subseteq Conns

\* The server told c that the n-th state of class k is its state.
Told(c, k, n) ==
    \E i \in DOMAIN sent[c] :
        /\ sent[c][i].type \in {"RegisterAck", "PathEvent"}
        /\ sent[c][i].ok /\ sent[c][i].class = k /\ sent[c][i].state = n

\* c was sent the acknowledgement of the registration with handle h.
Acked(c, h) ==
    \E i \in DOMAIN sent[c] :
        sent[c][i].type = "RegisterAck" /\ sent[c][i].ok /\ sent[c][i].handle = h

(***************************************************************************)
(* A descriptor has at most one registration, and a handle names at most   *)
(* one: the lookups of removeClient(), of handleUnregister() and of the    *)
(* cleanup after a broadcast stop at the first match.                      *)
(***************************************************************************)
RegistryKeyed ==
    \A d, e \in registry : (d.fd = e.fd \/ d.handle = e.handle) => d = e

(***************************************************************************)
(* No update is lost between a registration and a broadcast: a consumer    *)
(* that is registered and has its RegisterAck was told the current state   *)
(* of its class, by the acknowledgement or by an event, unless a broadcast *)
(* of that state is under way.  It holds because the entry is pushed       *)
(* before the state is read, and the state is written before the registry  *)
(* is walked.                                                              *)
(***************************************************************************)
NoLostUpdate ==
    \A e \in registry :
        (/\ fdTable[e.fd] = e.conn
         /\ Acked(e.conn, e.handle)
         /\ bpc[e.class] = "idle")
        => Told(e.conn, e.class, cacheState[e.class])

(***************************************************************************)
(* The events of a class reach a consumer in the order of the transitions, *)
(* each at most once.                                                      *)
(***************************************************************************)
EventsInOrder ==
    \A c \in Conns : \A i, j \in DOMAIN sent[c] :
        (/\ i < j
         /\ sent[c][i].type = "PathEvent" /\ sent[c][j].type = "PathEvent"
         /\ sent[c][i].class = sent[c][j].class)
        => sent[c][i].state < sent[c][j].state

(***************************************************************************)
(* An unregistration is final: once an acknowledgement says that it        *)
(* succeeded the handle is gone for good, whoever asked for it, so no      *)
(* event can follow on the strength of that handle.                        *)
(***************************************************************************)
UnregisteredIsGone ==
    \A c \in Conns : \A i \in DOMAIN sent[c] :
        (sent[c][i].type = "UnregisterAck" /\ sent[c][i].ok)
        => \A e \in registry : e.handle # sent[c][i].handle

\* Every process has one connection: two registrations of a process share its one
\* place in the hierarchy, and the end of either takes it from the other.
OneProcessEach == \A c, d \in Conns : PidOf[c] = PidOf[d] => c = d

(***************************************************************************)
(* consumer_api_server.hpp:5: "On register, the consumer PID is placed     *)
(* into the correct cgroup net_cls directory so traffic isolation applies  *)
(* automatically": a registered process is in the cgroup of its class, and *)
(* stays there until it is unregistered.  It holds of processes with one   *)
(* connection: two registrations share one place in the hierarchy.         *)
(***************************************************************************)
RegisteredIsolated ==
    \A e \in registry :
        (epc = "assign" /\ cur.handle = e.handle) \/ cgroup[PidOf[e.conn]] = e.class

(***************************************************************************)
(* stop() comes to an end: the epoll thread meets the wakeup, whatever it  *)
(* is doing and whatever consumers do.                                     *)
(***************************************************************************)
StopEnds == (mpc = "join") ~> (mpc = "stopped")

(***************************************************************************)
(* A request on an accepted connection is received, or the connection or   *)
(* the server is closed, or the epoll thread has ended.                    *)
(***************************************************************************)
RequestsServed ==
    \A c \in Conns :
        (conn[c] = "open" /\ inbox[c] # <<>>)
            ~> (inbox[c] = <<>> \/ conn[c] # "open" \/ ~running \/ epc = "exited")

-----------------------------------------------------------------------------
(* What the service promises: see NotificationService.                     *)

\* A registration counts while its descriptor is that of its connection and no
\* broadcast has given it up.
Subscriptions ==
    {[conn |-> e.conn, class |-> e.class, handle |-> e.handle] :
        e \in {r \in registry : /\ fdTable[r.fd] = r.conn
                                /\ \A k \in Classes : r.fd \notin toRemove[k]}}

\* A state that was announced is delivered when the registry has been walked.
Delivered ==
    [k \in Classes |-> IF bpc[k] \in {"fields", "lock"} THEN cacheState[k] - 1
                       ELSE cacheState[k]]

Heard ==
    UNION {{<<c, sent[c][i].class, sent[c][i].state>> :
              i \in {j \in DOMAIN sent[c] : sent[c][j].type = "PathEvent"}} : c \in Conns}

Service == INSTANCE NotificationService
           WITH now <- cacheState, delivered <- Delivered, subs <- Subscriptions,
                issued <- nextHandle - 1, heard <- Heard

(***************************************************************************)
(* The server implements the service: with all its threads, descriptors    *)
(* that are reused and consumers that come and go, a broadcast reaches     *)
(* every registered consumer of the class or ends its registration,        *)
(* handles are never used again, and a connection has one registration.    *)
(***************************************************************************)
ImplementsService == Service!Spec

-----------------------------------------------------------------------------
(* What comments, documents and tests say and the code does not do.        *)

\* consumer_api_server.cpp:389: after the cleanup of a broadcast "removeClient is
\* idempotent (checks fd in registry)": no connection is closed but one whose
\* consumer is gone, sent less than a message, or could not be sent an event.
ClosedForCause ==
    [][\A c \in Conns :
          (conn[c] = "open" /\ conn'[c] = "closed")
          => \/ ~peer[c]
             \/ c \in failed
             \/ inbox[c] # <<>> /\ Head(inbox[c]).type = "short"
             \/ mpc = "join"]_vars

=============================================================================
