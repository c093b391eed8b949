-------------------------- MODULE ConsumerApiProofs --------------------------
(***************************************************************************)
(* Proofs about the consumer service, for every number of consumers,       *)
(* descriptors, classes, requests and events, and every interleaving of    *)
(* the epoll thread, the monitor threads and main.                         *)
(***************************************************************************)
EXTENDS ConsumerApi, TLAPS

-----------------------------------------------------------------------------
(* Type correctness.                                                       *)

\* The server after start().
LEMMA InitTypeOK == Init => TypeOK
BY ApiAssumption
   DEF Init, TypeOK, NoRequest, Request, RequestKinds, ClassIds

\* A reply sent on a descriptor, or dropped, leaves the buffers well-formed.
LEMMA SendType ==
    ASSUME TypeOK, NEW fd \in Fds, NEW msg \in Message, sendMsg(fd, msg)
    PROVE  sent' \in [Conns -> Seq(Message)] /\ unread' \in [Conns -> Nat]
<1>1. CASE CanSend(fd)
    <2> DEFINE c == fdTable[fd]
    <2>1. c \in Conns
        BY <1>1 DEF CanSend, TypeOK
    <2>2. /\ sent' = [sent EXCEPT ![c] = Append(@, msg)]
          /\ unread' = [unread EXCEPT ![c] = @ + 1]
        BY <1>1 DEF sendMsg
    <2>3. sent \in [Conns -> Seq(Message)] /\ unread \in [Conns -> Nat]
        BY DEF TypeOK
    <2>4. Append(sent[c], msg) \in Seq(Message) /\ unread[c] + 1 \in Nat
        BY <2>1, <2>3
    <2> QED
        BY ONLY <2>1, <2>2, <2>3, <2>4
<1>2. CASE ~CanSend(fd)
    BY <1>2 DEF sendMsg, TypeOK
<1> QED
    BY <1>1, <1>2

\* Writing a tasks file leaves every process in one cgroup.
LEMMA WriteType ==
    ASSUME TypeOK, NEW pids, NEW group \in ClassIds, Write(pids, group)
    PROVE  cgroup' \in [Pids -> ClassIds]
BY DEF Write, Moved, TypeOK

\* What consumers do: connect, read, hang up, send requests.
LEMMA ConsumerTypeOK ==
    ASSUME TypeOK, Consumer
    PROVE  TypeOK'
<1> USE DEF kernelVars, serverVars, threadVars, consumerVars
<1>1. ASSUME NEW c \in Conns, Connect(c) PROVE TypeOK'
    BY <1>1 DEF Connect, TypeOK
<1>2. ASSUME NEW c \in Conns, Read(c) PROVE TypeOK'
    BY <1>2, SMTT(30) DEF Read, TypeOK
<1>3. ASSUME NEW c \in Conns, Hangup(c) PROVE TypeOK'
    BY <1>3 DEF Hangup, TypeOK
<1>4. ASSUME NEW c \in Conns, NEW req \in ConsumerRequests, Ask(c, req) PROVE TypeOK'
    <2>0. Handles \subseteq Nat /\ 0 \in Nat
        BY ApiAssumption
    <2>1. req \in Request
        <3>1. CASE req \in [type : {"Register", "QueryCurrent"}, class : ClassIds, handle : {0}]
            BY <3>1 DEF Request, RequestKinds
        <3>2. CASE req \in [type : {"unknownType", "short"}, class : {None}, handle : {0}]
            BY <3>2 DEF Request, RequestKinds, ClassIds
        <3>3. CASE req \in [type : {"Unregister"}, class : {None}, handle : Handles]
            BY <2>0, <3>3 DEF Request, RequestKinds, ClassIds
        <3> QED
            BY <3>1, <3>2, <3>3 DEF ConsumerRequests
    <2>2. inbox' \in [Conns -> Seq(Request)] /\ asked' \in [Conns -> Nat]
        BY <1>4, <2>1, SMTT(30) DEF Ask, TypeOK
    <2> QED
        BY <1>4, <2>2 DEF Ask, TypeOK
<1> QED
    BY <1>1, <1>2, <1>3, <1>4 DEF Consumer

\* close() of any set of descriptors.
LEMMA CloseType ==
    ASSUME TypeOK, NEW fds, Close(fds)
    PROVE  /\ conn' \in [Conns -> {"fresh", "backlog", "open", "closed"}]
           /\ fdTable' \in [Fds -> Conns \cup {None}]
BY DEF Close, TypeOK

\* What the thread knows of the request it is handling.
Answering == {"assign", "readState", "acknowledge"}
Handling ==
    /\ epc = "remove" => cur.fd \in Fds
    /\ epc \in (RequestKinds \ {"short"}) \cup Answering =>
          cur.fd \in Fds /\ cur.conn \in Conns
    /\ epc \in RequestKinds => cur.req.type = epc
    /\ epc \in Answering => cur.req.class \in Classes
    /\ epc \in {"assign", "readState"} => cur.req.type = "Register"

\* A handler ends in runLoop(), with nothing in hand.
LEMMA ReturnType ==
    ASSUME Return
    PROVE  epc' \in {"loop", "batch"} /\ cur' = NoRequest
BY DEF Return

\* Nothing in hand is a value of cur.
LEMMA NoRequestType ==
    NoRequest \in [fd : Fds \cup {None}, conn : Conns \cup {None}, handle : Nat, state : Nat,
                  req : Request]
BY DEF NoRequest, Request, RequestKinds, ClassIds

\* What epoll_wait() fetches.
LEMMA BatchType == TypeOK => Ready \subseteq Event
<1> SUFFICES ASSUME TypeOK PROVE Ready \subseteq Event
    OBVIOUS
<1>1. ASSUME NEW f \in Fds, fdTable[f] # None
      PROVE  [fd |-> f, hup |-> ~peer[fdTable[f]]] \in Event
    BY <1>1 DEF TypeOK, Event, EventFds
<1>2. [fd |-> "listen", hup |-> FALSE] \in Event /\ [fd |-> "wakeup", hup |-> FALSE] \in Event
    BY DEF Event, EventFds
<1> QED
    BY <1>1, <1>2 DEF Ready

TypeInv == TypeOK /\ Handling

\* The steps of runLoop() and the end of handleAccept().
LEMMA LoopTypeOK ==
    ASSUME TypeInv, LoopTest \/ EpollWait \/ EpollFail \/ Wakeup \/ HandleListen \/ AcceptDone
    PROVE  TypeInv'
<1> USE DEF kernelVars, serverVars, consumerVars, TypeInv, TypeOK, Handling,
           Answering, RequestKinds
<1>1. CASE LoopTest
    BY <1>1 DEF LoopTest
<1>2. CASE EpollWait
    BY <1>2, BatchType DEF EpollWait
<1>6. CASE EpollFail
    BY <1>6 DEF EpollFail
<1>3. CASE Wakeup
    BY <1>3 DEF Wakeup, Take
<1>4. CASE HandleListen
    BY <1>4 DEF HandleListen, Take
<1>5. CASE AcceptDone
    BY <1>5, ReturnType, NoRequestType DEF AcceptDone
<1> QED
    BY <1>1, <1>2, <1>3, <1>4, <1>5, <1>6

\* handleAccept(), recvMsg() and removeClient().
LEMMA ClientTypeOK ==
    ASSUME TypeInv,
           \/ \E c \in Conns, f \in Fds : Accept(c, f)
           \/ \E f \in Fds : Receive(f)
           \/ \E ev \in batch : CloseClient(ev)
           \/ EraseClient
    PROVE  TypeInv'
<1> USE DEF kernelVars, serverVars, consumerVars, threadVars, TypeInv, TypeOK, Handling,
           Answering, RequestKinds
<1>1. ASSUME NEW c \in Conns, NEW f \in Fds, Accept(c, f) PROVE TypeInv'
    <2>1. PICK v \in {"open", "closed"} : conn' = [conn EXCEPT ![c] = v]
        BY <1>1 DEF Accept
    <2>2. fdTable' \in [Fds -> Conns \cup {None}]
        <3>1. fdTable' = [fdTable EXCEPT ![f] = c] \/ fdTable' = fdTable
            BY <1>1, Zenon DEF Accept
        <3>2. fdTable \in [Fds -> Conns \cup {None}]
            OBVIOUS
        <3> QED BY ONLY <3>1, <3>2
    <2> QED
        BY <1>1, <2>1, <2>2 DEF Accept
<1>2. ASSUME NEW f \in Fds, Receive(f) PROVE TypeInv'
    <2> DEFINE c == fdTable[f]
               req == Head(inbox[c])
    <2>1. c \in Conns /\ inbox[c] \in Seq(Request) /\ inbox[c] # <<>>
        BY <1>2 DEF Receive, CanReceive
    <2>2. req \in Request /\ Tail(inbox[c]) \in Seq(Request)
        BY <2>1
    <2>3. req.type \in RequestKinds \ {"short"}
        BY <1>2, <2>2 DEF Receive, CanReceive, Request
    <2>4. inbox' \in [Conns -> Seq(Request)]
        BY <1>2, <2>2 DEF Receive
    <2>5. cur' = [fd |-> f, conn |-> c, req |-> req, handle |-> 0, state |-> 0]
        BY <1>2 DEF Receive
    <2>6. /\ cur' \in [fd : Fds \cup {None}, conn : Conns \cup {None}, handle : Nat, state : Nat,
                      req : Request]
          /\ cur'.fd \in Fds /\ cur'.conn \in Conns
        BY <2>1, <2>2, <2>5
    <2>7. epc' = req.type /\ cur'.req.type = req.type
        BY <1>2, <2>5 DEF Receive, Take
    <2>8. Handling'
        BY <2>3, <2>6, <2>7
    <2>9. TypeOK'
        BY <1>2, <2>3, <2>4, <2>6, <2>7 DEF Receive, Take
    <2> QED
        BY <2>8, <2>9
<1>3. ASSUME NEW ev \in batch, CloseClient(ev) PROVE TypeInv'
    <2>1. ev.fd \in Fds /\ cur' = [NoRequest EXCEPT !.fd = ev.fd]
        BY <1>3 DEF CloseClient
    <2>2. /\ cur' \in [fd : Fds \cup {None}, conn : Conns \cup {None}, handle : Nat, state : Nat,
                      req : Request]
          /\ cur'.fd \in Fds
        BY <2>1 DEF NoRequest, Request, RequestKinds, ClassIds
    <2>3. /\ conn' \in [Conns -> {"fresh", "backlog", "open", "closed"}]
          /\ fdTable' \in [Fds -> Conns \cup {None}]
        BY <1>3, CloseType DEF CloseClient
    <2> QED
        BY <1>3, <2>2, <2>3 DEF CloseClient, Take
<1>4. CASE EraseClient
    <2>1. cgroup' \in [Pids -> ClassIds]
        BY <1>4, WriteType DEF EraseClient, removeCgroupPid, ClassIds
    <2> QED
        BY <1>4, <2>1, ReturnType, NoRequestType DEF EraseClient
<1> QED
    BY <1>1, <1>2, <1>3, <1>4

\* What the server says is a message.
LEMMA ReplyType ==
    ASSUME NEW type \in {"RegisterAck", "UnregisterAck", "QueryAck", "PathEvent"},
           NEW ok \in BOOLEAN, NEW handle \in Nat, NEW class \in ClassIds,
           NEW st \in Nat, NEW rs \in Nat
    PROVE  Reply(type, ok, handle, class, st, rs) \in Message
BY DEF Reply, Message

\* An error reply.
LEMMA RefuseTypeOK ==
    ASSUME TypeInv, NEW at \in {"Register", "QueryCurrent", "unknownType"},
           NEW type \in {"RegisterAck", "QueryAck"}, Refuse(at, type)
    PROVE  TypeInv'
<1>1. cur.fd \in Fds
    BY DEF Refuse, TypeInv, Handling, RequestKinds
<1>2. Reply(type, FALSE, 0, None, 0, 0) \in Message
    BY ReplyType DEF ClassIds
<1>3. sent' \in [Conns -> Seq(Message)] /\ unread' \in [Conns -> Nat]
    BY <1>1, <1>2, SendType DEF Refuse, TypeInv
<1> QED
    BY <1>3, ReturnType, NoRequestType
       DEF Refuse, TypeInv, TypeOK, Handling, Answering, RequestKinds,
           serverVars, consumerVars

\* The handlers of handleClient().
LEMMA RequestTypeOK ==
    ASSUME TypeInv,
           \/ RefuseRegister \/ RefuseQuery \/ UnknownType
           \/ handleUnregister \/ RegisterEntry \/ Assign \/ ReadState \/ Acknowledge
    PROVE  TypeInv'
<1>1. CASE RefuseRegister \/ RefuseQuery \/ UnknownType
    BY <1>1, RefuseTypeOK DEF RefuseRegister, RefuseQuery, UnknownType
<1> USE DEF kernelVars, serverVars, consumerVars, TypeInv, TypeOK, Handling,
           Answering, RequestKinds
<1>2. CASE handleUnregister
    <2> DEFINE gone == First({e \in registry : e.handle = cur.req.handle})
    <2>1. cur.fd \in Fds /\ cur.req.handle \in Nat /\ (gone # {}) \in BOOLEAN
        BY <1>2 DEF handleUnregister, Request
    <2>2. Reply("UnregisterAck", gone # {}, cur.req.handle, None, 0, 0) \in Message
        BY <2>1, ReplyType DEF ClassIds
    <2>3. sent' \in [Conns -> Seq(Message)] /\ unread' \in [Conns -> Nat]
        BY <1>2, <2>1, <2>2, SendType DEF handleUnregister
    <2>4. cgroup' \in [Pids -> ClassIds]
        BY <1>2, WriteType DEF handleUnregister, removeCgroupPid, ClassIds
    <2> QED
        BY <1>2, <2>3, <2>4, ReturnType, NoRequestType DEF handleUnregister
<1>3. CASE RegisterEntry
    <2>1. cur.fd \in Fds /\ cur.conn \in Conns
        BY <1>3 DEF RegisterEntry
    <2>3. /\ cur' = [cur EXCEPT !.handle = nextHandle]
          /\ epc' = "assign" /\ cur.req.class \in Classes /\ cur.req.type = "Register"
        BY <1>3 DEF RegisterEntry
    <2>2. registry' \subseteq Entry /\ nextHandle' \in Nat \ {0}
        <3> DEFINE entry == [fd |-> cur.fd, conn |-> cur.conn,
                             handle |-> nextHandle, class |-> cur.req.class]
        <3>1. registry' = (registry \ EntriesOf(cur.fd)) \cup {entry} /\ nextHandle' = nextHandle + 1
            BY <1>3 DEF RegisterEntry
        <3>2. registry \subseteq Entry /\ nextHandle \in Nat \ {0}
            OBVIOUS
        <3>3. entry \in Entry
            BY <2>1, <2>3, <3>2 DEF Entry
        <3> HIDE DEF entry
        <3> QED BY <3>1, <3>2, <3>3
    <2>4. Handling'
        BY <2>1, <2>3
    <2> QED
        BY <1>3, <2>2, <2>3, <2>4 DEF RegisterEntry
<1>4. CASE Assign
    <2>1. cgroup' \in [Pids -> ClassIds]
        BY <1>4, WriteType DEF Assign, assignCgroupPid, Request
    <2> QED
        BY <1>4, <2>1 DEF Assign
<1>5. CASE ReadState
    BY <1>5 DEF ReadState
<1>6. CASE Acknowledge
    <2>1. Answer \in Message /\ cur.fd \in Fds
        BY <1>6, ReplyType DEF Acknowledge, Answer, Request
    <2>2. sent' \in [Conns -> Seq(Message)] /\ unread' \in [Conns -> Nat]
        BY <1>6, <2>1, SendType DEF Acknowledge
    <2> QED
        BY <1>6, <2>2, ReturnType, NoRequestType DEF Acknowledge
<1> QED
    BY <1>1, <1>2, <1>3, <1>4, <1>5, <1>6

\* broadcastPathEvent().
LEMMA MonitorTypeOK ==
    ASSUME TypeInv, NEW k \in Classes, MonitorThread(k)
    PROVE  TypeInv'
<1> USE DEF kernelVars, serverVars, consumerVars, TypeInv, TypeOK, Handling,
           Answering, RequestKinds
<1>1. CASE Announce(k)
    BY <1>1, SMTT(30) DEF Announce
<1>2. CASE AnnounceFields(k)
    BY <1>2 DEF AnnounceFields
<1>3. CASE BroadcastSend(k)
    <2>1. PathEvent(k) \in Message
        BY ReplyType DEF ClassIds, PathEvent
    <2>2. /\ sent' = [c \in Conns |-> IF c \in Listeners(k) THEN Append(sent[c], PathEvent(k))
                                      ELSE sent[c]]
          /\ unread' = [c \in Conns |-> IF c \in Listeners(k) THEN unread[c] + 1 ELSE unread[c]]
        BY <1>3 DEF BroadcastSend
    <2>3. sent' \in [Conns -> Seq(Message)] /\ unread' \in [Conns -> Nat]
        <3>1. ASSUME NEW c \in Conns
              PROVE  Append(sent[c], PathEvent(k)) \in Seq(Message) /\ sent[c] \in Seq(Message)
            BY <2>1
        <3>2. sent' \in [Conns -> Seq(Message)]
            BY <2>2, <3>1
        <3> QED
            BY <2>2, <3>2
    <2>4. \A e \in Deaf(k) : e.fd \in Fds
        BY DEF Deaf, Audience, Entry
    <2>5. toRemove' \in [Classes -> SUBSET Fds]
        BY <1>3, <2>4 DEF BroadcastSend
    <2>6. failed' \subseteq Conns
        BY <1>3, <2>4 DEF BroadcastSend
    <2>7. bpc' \in [Classes -> {"idle", "fields", "lock", "cleanup"}] /\ mutex' \in ClassIds
        BY <1>3 DEF BroadcastSend, ClassIds
    <2>8. UNCHANGED <<consumerVars, conn, fdTable, cgroup, registry, nextHandle,
                      cacheState, cacheRssi, running, epc, batch, cur, mpc>>
        BY <1>3 DEF BroadcastSend
    <2> QED
        BY <2>3, <2>5, <2>6, <2>7, <2>8
<1>4. CASE BroadcastCleanup(k)
    <2>1. cgroup' \in [Pids -> ClassIds]
        BY <1>4, WriteType DEF BroadcastCleanup, removeCgroupPid, ClassIds
    <2>2. /\ conn' \in [Conns -> {"fresh", "backlog", "open", "closed"}]
          /\ fdTable' \in [Fds -> Conns \cup {None}]
        BY <1>4, CloseType DEF BroadcastCleanup
    <2> QED
        BY <1>4, <2>1, <2>2, SMTT(30) DEF BroadcastCleanup, ClassIds
<1> QED
    BY <1>1, <1>2, <1>3, <1>4 DEF MonitorThread

\* stop().
LEMMA MainTypeOK ==
    ASSUME TypeInv, Stop \/ StopClose \/ Done
    PROVE  TypeInv'
<1> USE DEF TypeInv, TypeOK, Handling,
           Answering, RequestKinds
<1>1. CASE Stop
    <2>1. running' \in BOOLEAN
        BY <1>1, Zenon DEF Stop
    <2> QED
        BY <1>1, <2>1 DEF Stop, kernelVars, consumerVars
<1>2. CASE StopClose
    BY <1>2 DEF StopClose, consumerVars
<1>3. CASE Done
    BY <1>3 DEF Done, vars, kernelVars, consumerVars, serverVars, threadVars
<1> QED
    BY <1>1, <1>2, <1>3

\* Every step of every thread.
LEMMA StepTypeOK ==
    ASSUME TypeInv, [Next]_vars
    PROVE  TypeInv'
<1>1. CASE Consumer
    <2>1. UNCHANGED <<epc, cur>>
        BY <1>1 DEF Consumer, Connect, Read, Hangup, Ask, threadVars
    <2> QED
        BY <1>1, <2>1, ConsumerTypeOK DEF TypeInv, Handling, Answering, RequestKinds
<1>2. CASE EpollThread
    BY <1>2, LoopTypeOK, ClientTypeOK, RequestTypeOK DEF EpollThread
<1>3. CASE \E k \in Classes : MonitorThread(k)
    BY <1>3, MonitorTypeOK
<1>4. CASE Stop \/ StopClose \/ Done
    BY <1>4, MainTypeOK
<1>5. CASE UNCHANGED vars
    BY <1>5 DEF vars, kernelVars, consumerVars, serverVars, threadVars, TypeInv, TypeOK,
                Handling, Answering, RequestKinds
<1> QED
    BY <1>1, <1>2, <1>3, <1>4, <1>5 DEF Next

\* Every step keeps the types, and the epoll thread's request is what its step needs.
LEMMA TypeInvariant == Spec => []TypeInv
<1>1. Init => TypeInv
    BY InitTypeOK DEF Init, TypeInv, Handling, Answering, RequestKinds
<1>2. TypeInv /\ [Next]_vars => TypeInv'
    BY StepTypeOK
<1> QED
    BY <1>1, <1>2, PTL DEF Spec

(***************************************************************************)
(* Type correctness: among it that handleClient() never dispatches on a    *)
(* message that was not received whole, and that handle 0, which means "no *)
(* handle", is never given out.                                            *)
(***************************************************************************)
THEOREM TypeCorrect == Spec => []TypeOK
<1>1. TypeInv => TypeOK
    BY DEF TypeInv
<1> QED
    BY <1>1, TypeInvariant, PTL

-----------------------------------------------------------------------------
(* The registry.                                                           *)

RegistryInv == RegistryKeyed /\ \A e \in registry : e.handle < nextHandle

\* Only handleRegister() adds an entry or uses a handle.
LEMMA RegistryStep ==
    ASSUME [Next]_vars
    PROVE  RegisterEntry \/ (registry' \subseteq registry /\ nextHandle' = nextHandle)
<1> USE DEF serverVars, threadVars
<1>1. CASE Consumer
    BY <1>1 DEF Consumer, Connect, Read, Hangup, Ask
<1>2. CASE EpollThread
    BY <1>2 DEF EpollThread, LoopTest, EpollWait, EpollFail, Wakeup, HandleListen, AcceptDone, Accept,
       Receive, CloseClient, EraseClient, RefuseRegister, RefuseQuery, UnknownType, Refuse,
       handleUnregister, Assign, ReadState, Acknowledge
<1>3. CASE \E k \in Classes : MonitorThread(k)
    BY <1>3 DEF MonitorThread, Announce, AnnounceFields, BroadcastSend, BroadcastCleanup
<1>4. CASE Stop \/ StopClose \/ Done \/ UNCHANGED vars
    BY <1>4 DEF Stop, StopClose, Done, vars
<1> QED
    BY <1>1, <1>2, <1>3, <1>4 DEF Next

\* handleRegister() erases the old entry of its descriptor before it adds one.
LEMMA StepPreservesRegistryInv ==
    ASSUME TypeInv, RegistryInv, [Next]_vars
    PROVE  RegistryInv'
<1>1. CASE registry' \subseteq registry /\ nextHandle' = nextHandle
    BY <1>1 DEF RegistryInv, RegistryKeyed
<1>2. CASE RegisterEntry
    <2> DEFINE entry == [fd |-> cur.fd, conn |-> cur.conn,
                         handle |-> nextHandle, class |-> cur.req.class]
    <2>1. /\ registry' = (registry \ EntriesOf(cur.fd)) \cup {entry}
          /\ nextHandle' = nextHandle + 1 /\ nextHandle \in Nat
        BY <1>2 DEF RegisterEntry, TypeInv, TypeOK
    <2>2. \A e \in registry' : e = entry \/ (e \in registry /\ e.fd # cur.fd)
        BY <2>1 DEF EntriesOf
    <2>3. \A e \in registry : e.handle < nextHandle /\ e.handle \in Nat
        BY DEF RegistryInv, TypeInv, TypeOK, Entry
    <2>4. entry.fd = cur.fd /\ entry.handle = nextHandle
        OBVIOUS
    <2> HIDE DEF entry
    <2> QED
        BY <2>1, <2>2, <2>3, <2>4 DEF RegistryInv, RegistryKeyed
<1> QED
    BY <1>1, <1>2, RegistryStep

\* handleRegister() gives every entry a handle of its own.
LEMMA RegistryInvariant == Spec => []RegistryInv
<1>1. Init => RegistryInv
    BY DEF Init, RegistryInv, RegistryKeyed
<1>2. TypeInv /\ RegistryInv /\ [Next]_vars => RegistryInv'
    BY StepPreservesRegistryInv
<1> QED
    BY <1>1, <1>2, TypeInvariant, PTL DEF Spec

(***************************************************************************)
(* A descriptor and a handle each name at most one registration, so the    *)
(* first match removeClient(), handleUnregister() and the broadcast find   *)
(* is the only one.                                                        *)
(***************************************************************************)
THEOREM RegistryIsKeyed == Spec => []RegistryKeyed
<1>1. RegistryInv => RegistryKeyed
    BY DEF RegistryInv
<1> QED
    BY <1>1, RegistryInvariant, PTL

-----------------------------------------------------------------------------
(* What a step may add to what a consumer was sent.                        *)

NewMessage(c, m) ==
    \/ \E k \in Classes : BroadcastSend(k) /\ c \in Listeners(k) /\ m = PathEvent(k)
    \/ /\ RefuseRegister \/ RefuseQuery \/ UnknownType
       /\ ~m.ok /\ m.type \in {"RegisterAck", "QueryAck"}
    \/ /\ handleUnregister /\ m.type = "UnregisterAck" /\ m.handle = cur.req.handle
       /\ m.ok => \E e \in registry : e.handle = cur.req.handle
    \/ Acknowledge /\ c = fdTable[cur.fd] /\ m = Answer

Grown(c) ==
    /\ \A i \in DOMAIN sent[c] : i \in DOMAIN sent'[c] /\ sent'[c][i] = sent[c][i]
    /\ \A i \in DOMAIN sent'[c] :
          i \in DOMAIN sent[c] \/ (i = Len(sent[c]) + 1 /\ NewMessage(c, sent'[c][i]))

\* A message that is appended is the only new one.
LEMMA AppendGrows ==
    ASSUME NEW c \in Conns, sent[c] \in Seq(Message), NEW m \in Message,
           sent'[c] = Append(sent[c], m), NewMessage(c, m)
    PROVE  Grown(c)
<1>1. /\ DOMAIN sent[c] = 1 .. Len(sent[c]) /\ Len(sent[c]) \in Nat
      /\ DOMAIN sent'[c] = 1 .. (Len(sent[c]) + 1)
      /\ sent'[c][Len(sent[c]) + 1] = m
      /\ \A i \in 1 .. Len(sent[c]) : sent'[c][i] = sent[c][i]
    OBVIOUS
<1>2. \A i \in DOMAIN sent'[c] : i \in DOMAIN sent[c] \/ i = Len(sent[c]) + 1
    BY <1>1
<1> QED
    BY <1>1, <1>2 DEF Grown

\* Nothing is new when nothing was sent.
LEMMA SameGrows ==
    ASSUME NEW c, sent'[c] = sent[c]
    PROVE  Grown(c)
BY DEF Grown

\* One reply to the connection behind a descriptor.
LEMMA SendGrows ==
    ASSUME TypeInv, NEW fd \in Fds, NEW msg \in Message, sendMsg(fd, msg), NEW c \in Conns,
           c = fdTable[fd] => NewMessage(c, msg)
    PROVE  Grown(c)
<1>1. sent[c] \in Seq(Message) /\ sent \in [Conns -> Seq(Message)]
    BY DEF TypeInv, TypeOK
<1>2. CASE CanSend(fd) /\ c = fdTable[fd]
    <2>1. sent'[c] = Append(sent[c], msg)
        BY <1>1, <1>2 DEF sendMsg
    <2> QED
        BY <1>1, <1>2, <2>1, AppendGrows
<1>3. CASE ~(CanSend(fd) /\ c = fdTable[fd])
    <2>1. sent'[c] = sent[c]
        BY <1>1, <1>3 DEF sendMsg
    <2> QED
        BY <2>1, SameGrows
<1> QED
    BY <1>2, <1>3

\* Every step sends a connection at most one message, and names it.
LEMMA SentStep ==
    ASSUME TypeInv, [Next]_vars, NEW c \in Conns
    PROVE  Grown(c)
<1>1. CASE sent' = sent
    BY <1>1, SameGrows
<1>2. ASSUME NEW k \in Classes, BroadcastSend(k)
      PROVE  Grown(c)
    <2>1. sent[c] \in Seq(Message) /\ PathEvent(k) \in Message
        BY ReplyType DEF TypeInv, TypeOK, PathEvent, ClassIds
    <2>2. CASE c \in Listeners(k)
        <3>1. sent'[c] = Append(sent[c], PathEvent(k))
            BY <1>2, <2>2 DEF BroadcastSend
        <3> QED
            BY <1>2, <2>1, <2>2, <3>1, AppendGrows DEF NewMessage
    <2>3. CASE c \notin Listeners(k)
        <3>1. sent'[c] = sent[c]
            BY <1>2, <2>3 DEF BroadcastSend
        <3> QED
            BY <3>1, SameGrows
    <2> QED
        BY <2>2, <2>3
<1>3. ASSUME NEW at \in {"Register", "QueryCurrent", "unknownType"},
             NEW type \in {"RegisterAck", "QueryAck"}, Refuse(at, type),
             RefuseRegister \/ RefuseQuery \/ UnknownType
      PROVE  Grown(c)
    <2> DEFINE msg == Reply(type, FALSE, 0, None, 0, 0)
    <2>1. msg \in Message /\ ~msg.ok /\ msg.type = type
        BY ReplyType DEF ClassIds, Reply
    <2>2. cur.fd \in Fds /\ sendMsg(cur.fd, msg)
        BY <1>3 DEF Refuse, TypeInv, Handling, RequestKinds
    <2> HIDE DEF msg
    <2>3. NewMessage(c, msg)
        BY <1>3, <2>1 DEF NewMessage
    <2> QED
        BY <2>1, <2>2, <2>3, SendGrows
<1>4. CASE handleUnregister
    <2> DEFINE gone == First({e \in registry : e.handle = cur.req.handle})
               msg == Reply("UnregisterAck", gone # {}, cur.req.handle, None, 0, 0)
    <2>1. cur.fd \in Fds /\ cur.req.handle \in Nat /\ (gone # {}) \in BOOLEAN
        BY <1>4 DEF handleUnregister, Request, TypeInv, TypeOK, Handling, RequestKinds
    <2>2. msg \in Message
        BY <2>1, ReplyType DEF ClassIds
    <2>3. /\ msg.type = "UnregisterAck" /\ msg.handle = cur.req.handle
          /\ msg.ok => \E e \in registry : e.handle = cur.req.handle
        BY DEF Reply, First
    <2>4. sendMsg(cur.fd, msg)
        BY <1>4 DEF handleUnregister
    <2> HIDE DEF msg
    <2>5. NewMessage(c, msg)
        BY <1>4, <2>3 DEF NewMessage
    <2> QED
        BY <2>1, <2>2, <2>4, <2>5, SendGrows
<1>5. CASE Acknowledge
    <2>1. Answer \in Message /\ cur.fd \in Fds /\ sendMsg(cur.fd, Answer)
        BY <1>5, ReplyType
           DEF Acknowledge, Answer, Request, TypeInv, TypeOK, Handling, Answering
    <2>2. c = fdTable[cur.fd] => NewMessage(c, Answer)
        BY <1>5 DEF NewMessage
    <2> QED
        BY <2>1, <2>2, SendGrows
<1>6. CASE RefuseRegister \/ RefuseQuery \/ UnknownType
    BY <1>3, <1>6 DEF RefuseRegister, RefuseQuery, UnknownType
<1>7. \/ sent' = sent
      \/ \E k \in Classes : BroadcastSend(k)
      \/ RefuseRegister \/ RefuseQuery \/ UnknownType \/ handleUnregister \/ Acknowledge
    <2> USE DEF kernelVars, consumerVars
    <2>1. CASE Consumer
        BY <2>1 DEF Consumer, Connect, Read, Hangup, Ask
    <2>2. CASE EpollThread
        BY <2>2 DEF EpollThread, LoopTest, EpollWait, EpollFail, Wakeup, HandleListen, AcceptDone, Accept,
           Receive, CloseClient, EraseClient, RegisterEntry, Assign, ReadState
    <2>3. CASE \E k \in Classes : MonitorThread(k)
        BY <2>3 DEF MonitorThread, Announce, AnnounceFields, BroadcastCleanup
    <2>4. CASE Stop \/ StopClose \/ Done \/ UNCHANGED vars
        BY <2>4 DEF Stop, StopClose, Done, vars
    <2> QED
        BY <2>1, <2>2, <2>3, <2>4 DEF Next
<1> QED
    BY <1>1, <1>2, <1>4, <1>5, <1>6, <1>7

-----------------------------------------------------------------------------
(* The order of events.  What a consumer was sent of a class is not newer  *)
(* than its cached state, and older while a broadcast of that is pending.  *)

EventBound ==
    \A c \in Conns : \A i \in DOMAIN sent[c] :
        sent[c][i].type = "PathEvent" =>
            /\ sent[c][i].class \in Classes
            /\ sent[c][i].state <= cacheState[sent[c][i].class]
            /\ bpc[sent[c][i].class] \in {"fields", "lock"} =>
                  sent[c][i].state < cacheState[sent[c][i].class]

EventInv == EventBound /\ EventsInOrder

\* Only the monitor threads touch the cached states and what they remove.
LEMMA QuietStep ==
    ASSUME [Next]_vars, \A k \in Classes : ~MonitorThread(k)
    PROVE  UNCHANGED <<bpc, cacheState, toRemove>>
<1> USE DEF serverVars, threadVars
<1>1. CASE Consumer
    BY <1>1 DEF Consumer, Connect, Read, Hangup, Ask
<1>2. CASE EpollThread
    BY <1>2 DEF EpollThread, LoopTest, EpollWait, EpollFail, Wakeup, HandleListen, AcceptDone, Accept,
       Receive, CloseClient, EraseClient, RefuseRegister, RefuseQuery, UnknownType, Refuse,
       handleUnregister, RegisterEntry, Assign, ReadState, Acknowledge
<1>3. CASE Stop \/ StopClose \/ Done \/ UNCHANGED vars
    BY <1>3 DEF Stop, StopClose, Done, vars
<1> QED
    BY <1>1, <1>2, <1>3 DEF Next

\* The loop of a broadcast sends its event and nothing else.
LEMMA NewInBroadcast ==
    ASSUME TypeInv, NEW k \in Classes, BroadcastSend(k), NEW c, NEW m, NewMessage(c, m)
    PROVE  m = PathEvent(k) /\ c \in Listeners(k)
<1>1. bpc[k] = "lock" /\ bpc' = [bpc EXCEPT ![k] = "cleanup"] /\ bpc' # bpc
    BY DEF BroadcastSend, TypeInv, TypeOK
<1>2. ASSUME NEW j \in Classes, BroadcastSend(j)
      PROVE  j = k
    <2>1. bpc[j] = "lock" /\ bpc'[j] = "cleanup"
        BY <1>2 DEF BroadcastSend, TypeInv, TypeOK
    <2> QED
        BY <1>1, <2>1 DEF TypeInv, TypeOK
<1>3. ~(RefuseRegister \/ RefuseQuery \/ UnknownType \/ handleUnregister \/ Acknowledge)
    BY <1>1 DEF RefuseRegister, RefuseQuery, UnknownType, Refuse, handleUnregister, Acknowledge
<1> QED
    BY <1>2, <1>3 DEF NewMessage

\* No other step sends an event.
LEMMA NewInQuiet ==
    ASSUME TypeInv, UNCHANGED bpc, NEW c, NEW m, NewMessage(c, m)
    PROVE  m.type # "PathEvent"
<1>1. \A k \in Classes : ~BroadcastSend(k)
    BY DEF BroadcastSend, TypeInv, TypeOK
<1>2. Answer.type # "PathEvent"
    BY DEF Answer, Reply
<1> QED
    BY <1>1, <1>2 DEF NewMessage

\* The cached state moves before the broadcast, and once per broadcast.
LEMMA StepPreservesEventInv ==
    ASSUME TypeInv, EventInv, [Next]_vars
    PROVE  EventInv'
<1>1. CASE \A k \in Classes : ~MonitorThread(k)
    <2>1. UNCHANGED <<bpc, cacheState>>
        BY <1>1, QuietStep
    <2>2. ASSUME NEW c \in Conns, NEW i \in DOMAIN sent'[c], sent'[c][i].type = "PathEvent"
          PROVE  i \in DOMAIN sent[c] /\ sent'[c][i] = sent[c][i]
        BY <2>1, <2>2, SentStep, NewInQuiet DEF Grown
    <2>3. EventBound'
        BY <2>1, <2>2 DEF EventInv, EventBound
    <2>4. EventsInOrder'
        BY <2>2 DEF EventInv, EventsInOrder
    <2> QED
        BY <2>3, <2>4 DEF EventInv
<1>2. ASSUME NEW k \in Classes, Announce(k) PROVE EventInv'
    <2>1. /\ sent' = sent
          /\ cacheState' = [cacheState EXCEPT ![k] = @ + 1]
          /\ bpc' = [bpc EXCEPT ![k] = "fields"]
        BY <1>2 DEF Announce, kernelVars
    <2>2. \A c \in Conns : \A i \in DOMAIN sent[c] : sent[c][i] \in Message
        BY DEF TypeInv, TypeOK
    <2>3. \A c \in Conns : \A i \in DOMAIN sent[c] : sent[c][i].state \in Nat
        BY <2>2 DEF Message
    <2> QED
        BY <2>1, <2>3, SMTT(30) DEF EventInv, EventBound, EventsInOrder, TypeInv, TypeOK
<1>3. ASSUME NEW k \in Classes, AnnounceFields(k) \/ BroadcastCleanup(k) PROVE EventInv'
    <2>1. sent' = sent /\ cacheState' = cacheState
        BY <1>3 DEF AnnounceFields, BroadcastCleanup, kernelVars
    <2>2. \A j \in Classes : bpc'[j] \in {"fields", "lock"} => bpc[j] \in {"fields", "lock"}
        BY <1>3 DEF AnnounceFields, BroadcastCleanup, TypeInv, TypeOK
    <2> QED
        BY <2>1, <2>2 DEF EventInv, EventBound, EventsInOrder
<1>4. ASSUME NEW k \in Classes, BroadcastSend(k) PROVE EventInv'
    <2>1. /\ cacheState' = cacheState /\ cacheState[k] \in Nat /\ bpc[k] = "lock"
          /\ bpc' = [bpc EXCEPT ![k] = "cleanup"]
        BY <1>4 DEF BroadcastSend, TypeInv, TypeOK
    <2>2. PathEvent(k).class = k /\ PathEvent(k).state = cacheState[k]
        BY DEF PathEvent, Reply
    <2>3. ASSUME NEW c \in Conns, NEW i \in DOMAIN sent'[c]
          PROVE  \/ i \in DOMAIN sent[c] /\ sent'[c][i] = sent[c][i]
                 \/ i = Len(sent[c]) + 1 /\ sent'[c][i] = PathEvent(k)
        BY <1>4, SentStep, NewInBroadcast DEF Grown
    <2>4. \A c \in Conns : /\ DOMAIN sent[c] = 1 .. Len(sent[c]) /\ Len(sent[c]) \in Nat
                           /\ \A i \in DOMAIN sent[c] : sent[c][i] \in Message
        BY DEF TypeInv, TypeOK
    <2>5. EventBound'
        <3>1. \A j \in Classes : bpc'[j] \in {"fields", "lock"} => j # k /\ bpc[j] \in {"fields", "lock"}
            BY <2>1 DEF TypeInv, TypeOK
        <3>2. ASSUME NEW c \in Conns, NEW i \in DOMAIN sent'[c], sent'[c][i].type = "PathEvent",
                     sent'[c][i] = PathEvent(k)
              PROVE  /\ sent'[c][i].class \in Classes
                     /\ sent'[c][i].state <= cacheState[sent'[c][i].class]
                     /\ bpc'[sent'[c][i].class] \notin {"fields", "lock"}
            BY <2>1, <2>2, <3>1, <3>2
        <3>3. ASSUME NEW c \in Conns, NEW i \in DOMAIN sent[c], sent[c][i].type = "PathEvent"
              PROVE  /\ sent[c][i].class \in Classes
                     /\ sent[c][i].state <= cacheState[sent[c][i].class]
                     /\ bpc'[sent[c][i].class] \in {"fields", "lock"} =>
                           sent[c][i].state < cacheState[sent[c][i].class]
            BY <3>1, <3>3 DEF EventInv, EventBound
        <3> QED
            BY <2>1, <2>3, <3>2, <3>3 DEF EventBound
    <2>6. ASSUME NEW c \in Conns, NEW i \in DOMAIN sent'[c], NEW j \in DOMAIN sent'[c], i < j,
                 sent'[c][i].type = "PathEvent", sent'[c][j].type = "PathEvent",
                 sent'[c][i].class = sent'[c][j].class
          PROVE  sent'[c][i].state < sent'[c][j].state
        <3>1. i \in DOMAIN sent[c] /\ sent'[c][i] = sent[c][i]
            BY <2>3, <2>4, <2>6
        <3>2. CASE j \in DOMAIN sent[c]
            BY <2>6, <3>1, <3>2, <2>3, <2>4 DEF EventInv, EventsInOrder
        <3>3. CASE j \notin DOMAIN sent[c]
            <4>1. sent'[c][j] = PathEvent(k)
                BY <2>3, <3>3
            <4> QED
                BY <2>1, <2>2, <2>6, <3>1, <4>1 DEF EventInv, EventBound
        <3> QED
            BY <3>2, <3>3
    <2>7. EventsInOrder'
        BY <2>6 DEF EventsInOrder
    <2> QED
        BY <2>5, <2>7 DEF EventInv
<1> QED
    BY <1>1, <1>2, <1>3, <1>4 DEF MonitorThread

(***************************************************************************)
(* broadcastPathEvent() keeps the order of a class's transitions for every *)
(* consumer, and sends no transition twice, whatever the number of classes *)
(* that broadcast at once.                                                 *)
(***************************************************************************)
THEOREM EventsAreOrdered == Spec => []EventsInOrder
<1>1. Init => EventInv
    BY DEF Init, EventInv, EventBound, EventsInOrder
<1>2. TypeInv /\ EventInv /\ [Next]_vars => EventInv'
    BY StepPreservesEventInv
<1>3. EventInv => EventsInOrder
    BY DEF EventInv
<1> QED
    BY <1>1, <1>2, <1>3, TypeInvariant, PTL DEF Spec

-----------------------------------------------------------------------------
(* Connections: a descriptor or a registration that was made for one is    *)
(* never made for it again, because a connection is accepted once.         *)

Used(c) == conn[c] \in {"open", "closed"}

ConnInv ==
    /\ \A f \in Fds : fdTable[f] # None => Used(fdTable[f])
    /\ \A e \in registry : Used(e.conn)
    /\ epc \in (RequestKinds \ {"short"}) \cup Answering => Used(cur.conn)

\* A connection is accepted once; a descriptor gets only a fresh connection.
LEMMA ConnStep ==
    ASSUME TypeInv, [Next]_vars
    PROVE  /\ \A c \in Conns : Used(c) => Used(c)'
           /\ \A f \in Fds : \/ fdTable'[f] = fdTable[f]
                             \/ fdTable'[f] = None
                             \/ /\ fdTable'[f] \in Conns
                                /\ ~Used(fdTable'[f]) /\ conn'[fdTable'[f]] \in {"open", "closed"}
<1>1. CASE UNCHANGED <<conn, fdTable>>
    BY <1>1 DEF Used
<1>2. ASSUME NEW c \in Conns, Connect(c) PROVE fdTable' = fdTable /\ \A d \in Conns : Used(d) => Used(d)'
    BY <1>2 DEF Connect, Used, TypeInv, TypeOK
<1>3. ASSUME NEW c \in Conns, NEW f \in Fds, Accept(c, f)
      PROVE  /\ \A d \in Conns : Used(d) => Used(d)'
             /\ ~Used(c) /\ Used(c)'
             /\ \A g \in Fds : fdTable'[g] = fdTable[g] \/ fdTable'[g] = c
    <2>1. conn[c] = "backlog" /\ \E v \in {"open", "closed"} : conn' = [conn EXCEPT ![c] = v]
        BY <1>3 DEF Accept
    <2>2. \A g \in Fds : fdTable'[g] = fdTable[g] \/ fdTable'[g] = c
        BY <1>3 DEF Accept, TypeInv, TypeOK
    <2> QED
        BY <2>1, <2>2 DEF Used, TypeInv, TypeOK
<1>4. ASSUME NEW fds, Close(fds)
      PROVE  /\ \A d \in Conns : Used(d) => Used(d)'
             /\ \A g \in Fds : fdTable'[g] = fdTable[g] \/ fdTable'[g] = None
    BY <1>4 DEF Close, Used
<1>5. CASE StopClose
    BY <1>5 DEF StopClose, Used
<1>6. \/ UNCHANGED <<conn, fdTable>>
      \/ \E c \in Conns : Connect(c)
      \/ \E c \in Conns, f \in Fds : Accept(c, f)
      \/ \E ev \in batch : CloseClient(ev)
      \/ \E k \in Classes : BroadcastCleanup(k)
      \/ StopClose
    <2> USE DEF kernelVars, consumerVars
    <2>1. CASE Consumer
        BY <2>1 DEF Consumer, Read, Hangup, Ask
    <2>2. CASE EpollThread
        BY <2>2 DEF EpollThread, LoopTest, EpollWait, EpollFail, Wakeup, HandleListen, AcceptDone,
           Receive, EraseClient, RefuseRegister, RefuseQuery, UnknownType, Refuse,
           handleUnregister, RegisterEntry, Assign, ReadState, Acknowledge
    <2>3. CASE \E k \in Classes : MonitorThread(k)
        BY <2>3 DEF MonitorThread, Announce, AnnounceFields, BroadcastSend
    <2>4. CASE Stop \/ StopClose \/ Done \/ UNCHANGED vars
        BY <2>4 DEF Stop, Done, vars
    <2> QED
        BY <2>1, <2>2, <2>3, <2>4 DEF Next
<1>7. CASE \E ev \in batch : CloseClient(ev)
    BY <1>4, <1>7 DEF CloseClient
<1>8. CASE \E k \in Classes : BroadcastCleanup(k)
    BY <1>4, <1>8 DEF BroadcastCleanup
<1> QED
    BY <1>1, <1>2, <1>3, <1>5, <1>6, <1>7, <1>8 DEF Used

\* The request being handled: received, carried on, or registered.
LEMMA RequestStep ==
    ASSUME TypeInv, [Next]_vars
    PROVE  \/ UNCHANGED <<epc, cur>>
           \/ epc' \notin (RequestKinds \ {"short"}) \cup Answering /\ cur'.handle \in {0, cur.handle}
           \/ \E f \in Fds : Receive(f)
           \/ RegisterEntry
           \/ Assign
           \/ ReadState
<1>1. CASE Consumer
    BY <1>1 DEF Consumer, Connect, Read, Hangup, Ask, threadVars
<1>2. CASE EpollThread
    <2>1. ASSUME Return PROVE epc' \notin (RequestKinds \ {"short"}) \cup Answering /\ cur'.handle = 0
        BY <2>1 DEF Return, RequestKinds, Answering, NoRequest
    <2>2. CASE AcceptDone \/ EraseClient \/ RefuseRegister \/ RefuseQuery \/ UnknownType
               \/ handleUnregister \/ Acknowledge
        BY <2>1, <2>2 DEF AcceptDone, EraseClient, RefuseRegister, RefuseQuery, UnknownType,
                          Refuse, handleUnregister, Acknowledge
    <2>3. CASE LoopTest \/ EpollWait \/ EpollFail \/ Wakeup \/ HandleListen
        BY <2>3 DEF LoopTest, EpollWait, EpollFail, Wakeup, HandleListen, Take, RequestKinds, Answering
    <2>4. ASSUME NEW ev \in batch, CloseClient(ev)
          PROVE  epc' \notin (RequestKinds \ {"short"}) \cup Answering /\ cur'.handle = 0
        BY <2>4 DEF CloseClient, Take, NoRequest, RequestKinds, Answering
    <2>5. CASE \E c \in Conns, f \in Fds : Accept(c, f)
        BY <2>5 DEF Accept, threadVars
    <2> QED
        BY <1>2, <2>2, <2>3, <2>4, <2>5 DEF EpollThread
<1>3. CASE \E k \in Classes : MonitorThread(k)
    BY <1>3 DEF MonitorThread, Announce, AnnounceFields, BroadcastSend, BroadcastCleanup
<1>4. CASE Stop \/ StopClose \/ Done \/ UNCHANGED vars
    BY <1>4 DEF Stop, StopClose, Done, vars, threadVars
<1> QED
    BY <1>1, <1>2, <1>3, <1>4 DEF Next

\* Every step keeps descriptors and entries on accepted connections.
LEMMA StepPreservesConnInv ==
    ASSUME TypeInv, ConnInv, [Next]_vars
    PROVE  ConnInv'
<1>1. \A f \in Fds : fdTable'[f] # None => conn'[fdTable'[f]] \in {"open", "closed"}
    BY ConnStep DEF ConnInv, TypeInv, TypeOK, Used
<1>2. \A e \in registry' : Used(e.conn)'
    <2>0. \A e \in registry : e.conn \in Conns /\ Used(e.conn)'
        <3>1. \A e \in registry : e.conn \in Conns /\ Used(e.conn)
            BY DEF ConnInv, TypeInv, TypeOK, Entry
        <3> QED
            BY <3>1, ConnStep
    <2>1. CASE registry' \subseteq registry
        BY <2>0, <2>1
    <2>2. CASE RegisterEntry
        <3>1. cur.conn \in Conns /\ Used(cur.conn)
            BY <2>2 DEF RegisterEntry, ConnInv, TypeInv, Handling, RequestKinds
        <3>2. \A e \in registry' : e \in registry \/ e.conn = cur.conn
            BY <2>2 DEF RegisterEntry
        <3> QED
            BY <2>0, <3>1, <3>2, ConnStep
    <2> QED
        BY <2>1, <2>2, RegistryStep
<1>3. epc' \in (RequestKinds \ {"short"}) \cup Answering =>
         conn'[cur'.conn] \in {"open", "closed"}
    <2>1. CASE UNCHANGED <<epc, cur>>
        BY <2>1, ConnStep DEF ConnInv, TypeInv, Handling, Used
    <2>2. CASE \E f \in Fds : Receive(f)
        <3>1. PICK f \in Fds : Receive(f)
            BY <2>2
        <3>2. cur'.conn = fdTable[f] /\ fdTable[f] # None /\ fdTable[f] \in Conns
            BY <3>1 DEF Receive, CanReceive, TypeInv, TypeOK
        <3> QED
            BY <3>2, ConnStep DEF ConnInv, Used
    <2>3. CASE RegisterEntry \/ Assign \/ ReadState
        <3>1. cur.conn \in Conns /\ Used(cur.conn)
            BY <2>3 DEF RegisterEntry, Assign, ReadState, ConnInv, TypeInv, Handling, RequestKinds,
                        Answering
        <3>2. cur'.conn = cur.conn
            BY <2>3 DEF RegisterEntry, Assign, ReadState, TypeInv, TypeOK
        <3> QED
            BY <3>1, <3>2, ConnStep DEF Used
    <2> QED
        BY <2>1, <2>2, <2>3, RequestStep
<1> QED
    BY <1>1, <1>2, <1>3 DEF ConnInv, Used

\* accept4() is the only source of a descriptor, and gives each connection one.
LEMMA ConnInvariant == Spec => []ConnInv
<1>1. Init => ConnInv
    BY DEF Init, ConnInv, RequestKinds, Answering
<1>2. TypeInv /\ ConnInv /\ [Next]_vars => ConnInv'
    BY StepPreservesConnInv
<1> QED
    BY <1>1, <1>2, TypeInvariant, PTL DEF Spec

-----------------------------------------------------------------------------
(* Handles: what was acknowledged, and what is being acknowledged.         *)

HandleInv ==
    /\ \A c \in Conns : \A i \in DOMAIN sent[c] :
          sent[c][i].type = "RegisterAck" /\ sent[c][i].ok => sent[c][i].handle < nextHandle
    /\ cur.handle < nextHandle
    /\ epc \in Answering /\ cur.req.type = "Register" =>
          \A e \in registry : e.handle = cur.handle => e.class = cur.req.class

\* A new RegisterAck that reports success is the one being acknowledged.
LEMMA NewRegisterAck ==
    ASSUME NEW c, NEW m, NewMessage(c, m), m.type = "RegisterAck", m.ok
    PROVE  /\ Acknowledge /\ c = fdTable[cur.fd] /\ m = Answer
           /\ cur.req.type = "Register"
           /\ m.handle = cur.handle /\ m.class = cur.req.class /\ m.state = cur.state
<1>1. \A k \in Classes : PathEvent(k).type # "RegisterAck"
    BY DEF PathEvent, Reply
<1>2. Acknowledge /\ c = fdTable[cur.fd] /\ m = Answer
    BY <1>1 DEF NewMessage
<1> QED
    BY <1>2 DEF Answer, Reply

\* recvMsg() hands over a request of a known length.
LEMMA ReceiveKind ==
    ASSUME TypeInv, NEW f \in Fds, Receive(f)
    PROVE  epc' \in RequestKinds
<1> DEFINE c == fdTable[f]
<1>1. c \in Conns /\ inbox[c] \in Seq(Request) /\ inbox[c] # <<>>
    BY DEF Receive, CanReceive, TypeInv, TypeOK
<1>2. Head(inbox[c]) \in Request
    BY <1>1
<1> QED
    BY <1>2 DEF Receive, Take, Request

\* nextHandle_ only grows, and an entry keeps the class it was registered for.
LEMMA StepPreservesHandleInv ==
    ASSUME TypeInv, RegistryInv, HandleInv, [Next]_vars
    PROVE  HandleInv'
<1>1. nextHandle \in Nat /\ nextHandle' \in Nat /\ nextHandle <= nextHandle'
    BY RegistryStep DEF RegisterEntry, TypeInv, TypeOK
<1>2. ASSUME NEW c \in Conns, NEW i \in DOMAIN sent'[c], sent'[c][i].type = "RegisterAck",
             sent'[c][i].ok
      PROVE  sent'[c][i].handle < nextHandle'
    <2>1. CASE i \in DOMAIN sent[c]
        <3>1. sent'[c][i] = sent[c][i] /\ sent[c][i] \in Message
            BY <2>1, SentStep, SMTT(30) DEF Grown, TypeInv, TypeOK
        <3>2. sent[c][i].handle \in Nat /\ sent[c][i].handle < nextHandle
            BY <1>2, <2>1, <3>1 DEF Message, HandleInv
        <3> QED
            BY <1>1, <3>1, <3>2
    <2>2. CASE i \notin DOMAIN sent[c]
        <3>1. sent'[c][i].handle = cur.handle
            BY <1>2, <2>2, SentStep, NewRegisterAck DEF Grown
        <3>2. cur.handle \in Nat
            BY DEF TypeInv, TypeOK
        <3> QED
            BY <1>1, <3>1, <3>2 DEF HandleInv
    <2> QED
        BY <2>1, <2>2
<1>3. /\ cur'.handle < nextHandle'
      /\ epc' \in Answering /\ cur'.req.type = "Register" =>
            \A e \in registry' : e.handle = cur'.handle => e.class = cur'.req.class
    <2>1. cur.handle \in Nat /\ cur.handle < nextHandle
        BY DEF TypeInv, TypeOK, HandleInv
    <2>2. CASE RegisterEntry
        <3>1. /\ cur'.handle = nextHandle /\ cur'.req = cur.req /\ nextHandle' = nextHandle + 1
              /\ \A e \in registry' : e \in registry \/ e.class = cur.req.class
            BY <2>2 DEF RegisterEntry, TypeInv, TypeOK
        <3>2. \A e \in registry : e.handle # nextHandle
            BY <1>1 DEF RegistryInv, TypeInv, TypeOK, Entry
        <3> QED
            BY <1>1, <3>1, <3>2
    <2>3. CASE ~RegisterEntry /\ UNCHANGED <<epc, cur>>
        BY <1>1, <2>1, <2>3, RegistryStep DEF HandleInv
    <2>4. CASE Assign \/ ReadState
        <3>1. cur'.handle = cur.handle /\ cur'.req = cur.req /\ registry' = registry
            BY <2>4 DEF Assign, ReadState, TypeInv, TypeOK, serverVars
        <3>2. CASE epc \in Answering
            BY <1>1, <2>1, <3>1, <3>2 DEF HandleInv
        <3>3. CASE epc \notin Answering
            <4>1. cur.req.type = "QueryCurrent"
                BY <2>4, <3>3 DEF Assign, ReadState, Answering, TypeInv, Handling, RequestKinds
            <4> QED
                BY <1>1, <2>1, <3>1, <4>1
        <3> QED
            BY <3>2, <3>3
    <2>5. CASE \E f \in Fds : Receive(f)
        <3>1. PICK f \in Fds : Receive(f)
            BY <2>5
        <3>2. cur'.handle = 0 /\ epc' \in RequestKinds /\ nextHandle' = nextHandle /\ nextHandle # 0
            BY <3>1, ReceiveKind DEF Receive, TypeInv, TypeOK, serverVars
        <3> QED
            BY <1>1, <3>2 DEF Answering, RequestKinds
    <2>6. CASE epc' \notin (RequestKinds \ {"short"}) \cup Answering /\ cur'.handle \in {0, cur.handle}
        BY <1>1, <2>1, <2>6
    <2> QED
        BY <2>2, <2>3, <2>4, <2>5, <2>6, RequestStep
<1> QED
    BY <1>2, <1>3 DEF HandleInv

\* No handle is acknowledged before nextHandle_ has passed it.
LEMMA HandleInvariant == Spec => []HandleInv
<1>1. Init => HandleInv
    BY DEF Init, HandleInv, Answering, NoRequest
<1>2. TypeInv /\ RegistryInv /\ HandleInv /\ [Next]_vars => HandleInv'
    BY StepPreservesHandleInv
<1> QED
    BY <1>1, <1>2, TypeInvariant, RegistryInvariant, PTL DEF Spec

-----------------------------------------------------------------------------
(***************************************************************************)
(* No lost update.  An entry is informed when its consumer was told the    *)
(* current state, or the broadcast of it is still to come, or that         *)
(* broadcast could not reach it and is about to remove it.  NoLostUpdate   *)
(* speaks of entries that were acknowledged; the strengthening is what is  *)
(* known of one whose acknowledgement is still to be sent: the state it    *)
(* will carry is the current one, or a broadcast makes up for it.          *)
(***************************************************************************)
Coming(e) ==
    \/ bpc[e.class] \in {"fields", "lock"}
    \/ bpc[e.class] = "cleanup" /\ e.fd \in toRemove[e.class]

Informed(e) == Told(e.conn, e.class, cacheState[e.class]) \/ Coming(e)

UpdateInv ==
    /\ \A e \in registry :
          fdTable[e.fd] = e.conn /\ Acked(e.conn, e.handle) => Informed(e)
    /\ epc = "acknowledge" /\ cur.req.type = "Register" =>
          \A e \in registry :
              e.handle = cur.handle /\ fdTable[e.fd] = e.conn =>
                  cur.state = cacheState[e.class] \/ Informed(e)

\* A broadcast reaches an entry or marks it for removal.
LEMMA BroadcastInforms ==
    ASSUME TypeInv, [Next]_vars, NEW k \in Classes, BroadcastSend(k), NEW e \in registry,
           e.class = k, fdTable[e.fd] = e.conn
    PROVE  Informed(e)'
<1>1. /\ e.fd \in Fds /\ e.conn \in Conns /\ e \in Audience(k)
      /\ cacheState' = cacheState
    BY DEF TypeInv, TypeOK, Entry, Audience, BroadcastSend
<1>2. CASE CanSend(e.fd)
    <2>1. e.conn \in Listeners(k)
        BY <1>1, <1>2 DEF Listeners
    <2>2. sent[e.conn] \in Seq(Message) /\ sent'[e.conn] = Append(sent[e.conn], PathEvent(k))
        BY <1>1, <2>1 DEF BroadcastSend, TypeInv, TypeOK
    <2>3. /\ Len(sent[e.conn]) + 1 \in DOMAIN sent'[e.conn]
          /\ sent'[e.conn][Len(sent[e.conn]) + 1] = PathEvent(k)
        BY <2>2
    <2>4. /\ PathEvent(k).type = "PathEvent" /\ PathEvent(k).ok
          /\ PathEvent(k).class = k /\ PathEvent(k).state = cacheState[k]
        BY DEF PathEvent, Reply
    <2>5. Told(e.conn, k, cacheState[k])'
        BY <1>1, <2>3, <2>4 DEF Told
    <2> QED
        BY <1>1, <2>5 DEF Informed
<1>3. CASE ~CanSend(e.fd)
    <2>1. bpc'[k] = "cleanup" /\ e.fd \in toRemove'[k]
        BY <1>1, <1>3 DEF BroadcastSend, Deaf, TypeInv, TypeOK
    <2> QED
        BY <2>1 DEF Informed, Coming
<1> QED
    BY <1>2, <1>3

\* Every step leaves an informed entry informed, while its connection is open.
LEMMA InformedKept ==
    ASSUME TypeInv, [Next]_vars, NEW e \in registry, Informed(e),
           fdTable[e.fd] = e.conn, fdTable'[e.fd] = e.conn
    PROVE  Informed(e)'
<1>1. e.fd \in Fds /\ e.conn \in Conns /\ e.class \in Classes
    BY DEF TypeInv, TypeOK, Entry
<1>2. CASE /\ cacheState'[e.class] = cacheState[e.class]
           /\ bpc'[e.class] = bpc[e.class] /\ toRemove'[e.class] = toRemove[e.class]
    <2>1. CASE Told(e.conn, e.class, cacheState[e.class])
        <3>1. Told(e.conn, e.class, cacheState[e.class])'
            BY <1>1, <1>2, <2>1, SentStep DEF Told, Grown
        <3> QED
            BY <3>1 DEF Informed
    <2>2. CASE Coming(e)
        BY <1>2, <2>2 DEF Informed, Coming
    <2> QED
        BY <2>1, <2>2 DEF Informed
<1>3. CASE \A k \in Classes : ~MonitorThread(k)
    BY <1>2, <1>3, QuietStep
<1>4. ASSUME NEW k \in Classes, MonitorThread(k), k # e.class
      PROVE  Informed(e)'
    <2>1. /\ cacheState'[e.class] = cacheState[e.class]
          /\ bpc'[e.class] = bpc[e.class] /\ toRemove'[e.class] = toRemove[e.class]
        BY <1>1, <1>4, SMTT(30) DEF MonitorThread, Announce, AnnounceFields, BroadcastSend,
                                    BroadcastCleanup, TypeInv, TypeOK
    <2> QED
        BY <1>2, <2>1
<1>5. CASE Announce(e.class) \/ AnnounceFields(e.class)
    <2>1. bpc'[e.class] \in {"fields", "lock"}
        BY <1>1, <1>5 DEF Announce, AnnounceFields, TypeInv, TypeOK
    <2> QED
        BY <2>1 DEF Informed, Coming
<1>6. CASE BroadcastSend(e.class)
    BY <1>1, <1>6, BroadcastInforms
<1>7. CASE BroadcastCleanup(e.class)
    <2>1. e.fd \notin toRemove[e.class]
        <3>1. SUFFICES ASSUME e.fd \in toRemove[e.class] PROVE FALSE
            OBVIOUS
        <3>2. fdTable'[e.fd] = None
            BY <1>1, <1>7, <3>1 DEF BroadcastCleanup, Close
        <3> QED
            BY <1>1, <3>2, ApiAssumption
    <2>2. Told(e.conn, e.class, cacheState[e.class]) /\ cacheState' = cacheState
        BY <1>7, <2>1 DEF BroadcastCleanup, Informed, Coming
    <2>3. Told(e.conn, e.class, cacheState[e.class])'
        BY <1>1, <2>2, SentStep DEF Told, Grown
    <2> QED
        BY <2>3 DEF Informed
<1> QED
    BY <1>1, <1>3, <1>4, <1>5, <1>6, <1>7 DEF MonitorThread

\* A descriptor that has an entry's connection behind it had it before.
LEMMA FdKept ==
    ASSUME TypeInv, ConnInv, [Next]_vars, NEW e \in registry, fdTable'[e.fd] = e.conn
    PROVE  fdTable[e.fd] = e.conn
<1>1. e.fd \in Fds /\ e.conn \in Conns /\ Used(e.conn)
    BY DEF TypeInv, TypeOK, Entry, ConnInv
<1> QED
    BY <1>1, ConnStep, ApiAssumption

\* The acknowledgement and the broadcast cover each other.
LEMMA StepPreservesUpdateInv ==
    ASSUME TypeInv, ConnInv, HandleInv, UpdateInv, [Next]_vars
    PROVE  UpdateInv'
<1>1. ASSUME NEW e \in registry', fdTable'[e.fd] = e.conn, Acked(e.conn, e.handle)'
      PROVE  Informed(e)'
    <2>1. CASE e \in registry
        <3>1. e.conn \in Conns /\ e.fd \in Fds /\ fdTable[e.fd] = e.conn
            BY <1>1, <2>1, FdKept DEF TypeInv, TypeOK, Entry
        <3>2. CASE Acked(e.conn, e.handle)
            BY <1>1, <2>1, <3>1, <3>2, InformedKept DEF UpdateInv
        <3>3. CASE ~Acked(e.conn, e.handle)
            <4>1. PICK i \in DOMAIN sent'[e.conn] :
                     /\ sent'[e.conn][i].type = "RegisterAck" /\ sent'[e.conn][i].ok
                     /\ sent'[e.conn][i].handle = e.handle
                BY <1>1 DEF Acked
            <4>2. NewMessage(e.conn, sent'[e.conn][i])
                <5>1. Grown(e.conn)
                    BY <3>1, SentStep
                <5>2. i \notin DOMAIN sent[e.conn]
                    BY <3>3, <4>1, <5>1 DEF Acked, Grown
                <5> QED
                    BY <4>1, <5>1, <5>2 DEF Grown
            <4>3. /\ Acknowledge /\ cur.req.type = "Register" /\ cur.handle = e.handle
                  /\ sent'[e.conn][i].class = cur.req.class
                  /\ sent'[e.conn][i].state = cur.state
                BY <4>1, <4>2, NewRegisterAck
            <4>4. epc = "acknowledge" /\ cacheState' = cacheState
                BY <4>3 DEF Acknowledge, serverVars
            <4>5. e.class = cur.req.class
                BY <2>1, <4>3, <4>4 DEF HandleInv, Answering
            <4>6. cur.state = cacheState[e.class] \/ Informed(e)
                BY <2>1, <3>1, <4>3, <4>4 DEF UpdateInv
            <4>7. CASE cur.state = cacheState[e.class]
                <5>1. Told(e.conn, e.class, cacheState[e.class])'
                    BY <4>1, <4>3, <4>4, <4>5, <4>7 DEF Told
                <5> QED
                    BY <5>1 DEF Informed
            <4>8. CASE Informed(e)
                BY <1>1, <2>1, <3>1, <4>8, InformedKept
            <4> QED
                BY <4>6, <4>7, <4>8
        <3> QED
            BY <3>2, <3>3
    <2>2. CASE e \notin registry
        <3>1. RegisterEntry
            BY <1>1, <2>2, RegistryStep
        <3>2. sent' = sent /\ e.handle = nextHandle /\ e.conn \in Conns
            BY <1>1, <2>2, <3>1
               DEF RegisterEntry, kernelVars, TypeInv, Handling, RequestKinds
        <3>3. nextHandle \in Nat
            BY DEF TypeInv, TypeOK
        <3> QED
            BY <1>1, <3>2, <3>3 DEF Acked, HandleInv
    <2> QED
        BY <2>1, <2>2
<1>2. ASSUME epc' = "acknowledge", cur'.req.type = "Register",
             NEW e \in registry', e.handle = cur'.handle, fdTable'[e.fd] = e.conn
      PROVE  cur'.state = cacheState'[e.class] \/ Informed(e)'
    <2>1. CASE ReadState
        <3>1. /\ cur' = [cur EXCEPT !.state = cacheState[cur.req.class]]
              /\ UNCHANGED <<registry, cacheState>>
            BY <2>1 DEF ReadState, serverVars
        <3>2. cur'.req = cur.req /\ cur'.handle = cur.handle
              /\ cur'.state = cacheState[cur.req.class]
            BY <3>1 DEF TypeInv, TypeOK
        <3>3. epc = "readState"
            BY <1>2, <2>1, <3>2 DEF ReadState, TypeInv, Handling, RequestKinds
        <3>4. e.class = cur.req.class
            BY <1>2, <3>1, <3>2, <3>3 DEF HandleInv, Answering
        <3> QED
            BY <3>1, <3>2, <3>4
    <2>2. CASE ~ReadState
        <3>1. epc = "acknowledge" /\ cur' = cur
            <4>1. ~Assign /\ ~RegisterEntry
                BY <1>2 DEF Assign, RegisterEntry
            <4>2. ~\E f \in Fds : Receive(f)
                BY <1>2, ReceiveKind DEF RequestKinds
            <4> QED
                BY <1>2, <2>2, <4>1, <4>2, RequestStep DEF Answering
        <3>2. e \in registry
            BY <1>2, <3>1, RegistryStep DEF RegisterEntry
        <3>3. fdTable[e.fd] = e.conn
            BY <1>2, <3>2, FdKept
        <3>4. cur.state = cacheState[e.class] \/ Informed(e)
            BY <1>2, <3>1, <3>2, <3>3 DEF UpdateInv
        <3>5. CASE Informed(e)
            BY <1>2, <3>2, <3>3, <3>5, InformedKept
        <3>6. CASE cur.state = cacheState[e.class] /\ cacheState'[e.class] = cacheState[e.class]
            BY <3>1, <3>6
        <3>7. CASE cacheState'[e.class] # cacheState[e.class]
            <4>1. e.class \in Classes
                BY <3>2 DEF TypeInv, TypeOK, Entry
            <4>2. PICK k \in Classes : MonitorThread(k)
                BY <3>7, QuietStep
            <4>3. Announce(k) /\ k = e.class
                BY <3>7, <4>1, <4>2 DEF MonitorThread, Announce, AnnounceFields, BroadcastSend,
                   BroadcastCleanup, TypeInv, TypeOK
            <4>4. bpc'[e.class] = "fields"
                BY <4>1, <4>3 DEF Announce, TypeInv, TypeOK
            <4> QED
                BY <4>4 DEF Informed, Coming
        <3> QED
            BY <3>4, <3>5, <3>6, <3>7
    <2> QED
        BY <2>1, <2>2
<1> QED
    BY <1>1, <1>2 DEF UpdateInv

(***************************************************************************)
(* handleRegister() and broadcastPathEvent() lose no update between them,  *)
(* though only the registry is under the mutex and the cached state is     *)
(* read and written without it: a registered consumer that was             *)
(* acknowledged was told the current state of its class, or the broadcast  *)
(* of it is under way.                                                     *)
(***************************************************************************)
THEOREM NoUpdateIsLost == Spec => []NoLostUpdate
<1>1. Init => UpdateInv
    BY DEF Init, UpdateInv
<1>2. TypeInv /\ ConnInv /\ HandleInv /\ UpdateInv /\ [Next]_vars => UpdateInv'
    BY StepPreservesUpdateInv
<1>3. UpdateInv => NoLostUpdate
    BY DEF UpdateInv, NoLostUpdate, Informed, Coming
<1> QED
    BY <1>1, <1>2, <1>3, TypeInvariant, ConnInvariant, HandleInvariant, PTL DEF Spec

-----------------------------------------------------------------------------
(* Unregistration.  A handle that was given back is never given out again: *)
(* one that was found in the registry is below the next.  One that was not *)
(* found may still be given out, so a refusal promises nothing.            *)

GoneInv ==
    \A c \in Conns : \A i \in DOMAIN sent[c] :
        sent[c][i].type = "UnregisterAck" /\ sent[c][i].ok =>
            /\ sent[c][i].handle < nextHandle
            /\ \A e \in registry : e.handle # sent[c][i].handle

\* The erase and the acknowledgement are one step under the lock.
LEMMA StepPreservesGoneInv ==
    ASSUME TypeInv, RegistryInv, GoneInv, [Next]_vars
    PROVE  GoneInv'
<1>2. ASSUME NEW c \in Conns, NEW i \in DOMAIN sent'[c],
             sent'[c][i].type = "UnregisterAck", sent'[c][i].ok
      PROVE  /\ sent'[c][i].handle < nextHandle
             /\ \A e \in registry' : e \in registry => e.handle # sent'[c][i].handle
    <2>1. CASE i \in DOMAIN sent[c]
        BY <1>2, <2>1, SentStep DEF Grown, GoneInv
    <2>2. CASE i \notin DOMAIN sent[c]
        <3>1. NewMessage(c, sent'[c][i])
            BY <2>2, SentStep DEF Grown
        <3>2. /\ \A k \in Classes : PathEvent(k).type # "UnregisterAck"
              /\ Answer.type # "UnregisterAck"
            BY DEF PathEvent, Answer, Reply
        <3>3. /\ handleUnregister /\ sent'[c][i].handle = cur.req.handle
              /\ \E e \in registry : e.handle = cur.req.handle
            BY <1>2, <3>1, <3>2 DEF NewMessage
        <3>4. registry' = registry \ First({e \in registry : e.handle = cur.req.handle})
            BY <3>3 DEF handleUnregister
        <3>5. ASSUME NEW e \in registry, e.handle = cur.req.handle
              PROVE  e \in First({d \in registry : d.handle = cur.req.handle})
            <4>1. e.handle \in Nat
                BY DEF TypeInv, TypeOK, Entry
            <4> QED
                BY <3>5, <4>1 DEF First
        <3> QED
            BY <3>3, <3>4, <3>5 DEF RegistryInv
    <2> QED
        BY <2>1, <2>2
<1>3. nextHandle \in Nat /\ nextHandle' \in Nat /\ nextHandle <= nextHandle'
    BY RegistryStep DEF RegisterEntry, TypeInv, TypeOK
<1>4. \A e \in registry' : e \in registry \/ e.handle = nextHandle
    BY RegistryStep DEF RegisterEntry
<1>5. ASSUME NEW c \in Conns, NEW i \in DOMAIN sent'[c] PROVE sent'[c][i].handle \in Nat
    <2>1. sent'[c] \in Seq(Message)
        BY StepTypeOK DEF TypeInv, TypeOK
    <2>2. sent'[c][i] \in Message
        BY <2>1
    <2> QED
        BY <2>2 DEF Message
<1> QED
    BY <1>2, <1>3, <1>4, <1>5 DEF GoneInv

(***************************************************************************)
(* handleUnregister() is final: a handle whose unregistration was          *)
(* acknowledged as a success names no entry again, whatever handles        *)
(* consumers name and whatever is registered later.                        *)
(***************************************************************************)
THEOREM UnregistrationIsFinal == Spec => []UnregisteredIsGone
<1>1. Init => GoneInv
    BY DEF Init, GoneInv
<1>2. TypeInv /\ RegistryInv /\ GoneInv /\ [Next]_vars => GoneInv'
    BY StepPreservesGoneInv
<1>3. GoneInv => UnregisteredIsGone
    BY DEF GoneInv, UnregisteredIsGone
<1> QED
    BY <1>1, <1>2, <1>3, TypeInvariant, RegistryInvariant, PTL DEF Spec

=============================================================================
