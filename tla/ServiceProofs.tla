---------------------------- MODULE ServiceProofs ----------------------------
(***************************************************************************)
(* The consumer API server implements NotificationService, for every       *)
(* number of consumers, descriptors, classes, requests and events: every   *)
(* step of every thread is a step of the service or leaves it unchanged.   *)
(* And a registered process is in the cgroup of its class.                 *)
(***************************************************************************)
EXTENDS ConsumerApiProofs

\* registryMutex_ is held by the one thread that has descriptors to close.
LockInv ==
    /\ \A k \in Classes : bpc[k] = "cleanup" <=> mutex = k
    /\ \A k \in Classes : bpc[k] # "cleanup" => toRemove[k] = {}

\* A connection has one descriptor.
FdInv ==
    \A f, g \in Fds : fdTable[f] # None /\ fdTable[f] = fdTable[g] => f = g

\* While a request is handled its descriptor may be closed by a broadcast, but it
\* is not given to another connection: the thread that accepts is the one that
\* handles the request.
InHand == (RequestKinds \ {"short"}) \cup Answering
CurInv ==
    epc \in InHand =>
        /\ fdTable[cur.fd] \in {cur.conn, None}
        /\ \A f \in Fds : fdTable[f] = cur.conn => f = cur.fd

-----------------------------------------------------------------------------
(* The lock.                                                               *)

\* Only the two halves of a broadcast take and release the lock.
LEMMA LockStep ==
    ASSUME [Next]_vars
    PROVE  \/ UNCHANGED <<mutex, bpc, toRemove>>
           \/ \E k \in Classes : MonitorThread(k)
<1> USE DEF serverVars, threadVars
<1>1. CASE Consumer
    BY <1>1 DEF Consumer, Connect, Read, Hangup, Ask
<1>2. CASE EpollThread
    BY <1>2 DEF EpollThread, LoopTest, EpollWait, EpollFail, Wakeup, HandleListen, AcceptDone, Accept,
       Receive, CloseClient, EraseClient, RefuseRegister, RefuseQuery, UnknownType, Refuse,
       handleUnregister, RegisterEntry, Assign, ReadState, Acknowledge
<1>3. CASE Stop \/ StopClose \/ Done \/ UNCHANGED vars
    BY <1>3 DEF Stop, StopClose, Done, vars
<1> QED
    BY <1>1, <1>2, <1>3 DEF Next

\* A broadcast locks before it walks the registry and unlocks after the cleanup.
LEMMA StepPreservesLockInv ==
    ASSUME TypeInv, LockInv, [Next]_vars
    PROVE  LockInv'
<1> USE DEF LockInv, TypeInv, TypeOK
<1>0. None \notin Classes
    BY ApiAssumption
<1>1. CASE UNCHANGED <<mutex, bpc, toRemove>>
    BY <1>1
<1>2. ASSUME NEW k \in Classes, Announce(k) PROVE LockInv'
    BY <1>2 DEF Announce
<1>3. ASSUME NEW k \in Classes, AnnounceFields(k) PROVE LockInv'
    BY <1>3 DEF AnnounceFields
<1>4. ASSUME NEW k \in Classes, BroadcastSend(k) PROVE LockInv'
    <2>1. /\ mutex = None /\ mutex' = k /\ bpc' = [bpc EXCEPT ![k] = "cleanup"]
          /\ \A j \in Classes : j # k => toRemove'[j] = toRemove[j]
        BY <1>4 DEF BroadcastSend
    <2> QED
        BY <1>0, <2>1
<1>5. ASSUME NEW k \in Classes, BroadcastCleanup(k) PROVE LockInv'
    <2>1. /\ mutex = k /\ mutex' = None /\ bpc' = [bpc EXCEPT ![k] = "idle"]
          /\ toRemove' = [toRemove EXCEPT ![k] = {}]
        BY <1>5 DEF BroadcastCleanup
    <2> QED
        BY <1>0, <2>1
<1> QED
    BY <1>1, <1>2, <1>3, <1>4, <1>5, LockStep DEF MonitorThread

-----------------------------------------------------------------------------
(* Descriptors.                                                            *)

\* How a step changes the table of descriptors.
LEMMA TableStep ==
    ASSUME TypeInv, [Next]_vars
    PROVE  \/ \A f \in Fds : fdTable'[f] \in {fdTable[f], None}
           \/ \E c \in Conns, f \in Fds : Accept(c, f)
<1> USE DEF kernelVars, consumerVars
<1>1. CASE Consumer
    BY <1>1 DEF Consumer, Connect, Read, Hangup, Ask
<1>2. CASE EpollThread
    BY <1>2 DEF EpollThread, LoopTest, EpollWait, EpollFail, Wakeup, HandleListen, AcceptDone,
       Receive, CloseClient, Close, EraseClient, RefuseRegister, RefuseQuery, UnknownType, Refuse,
       handleUnregister, RegisterEntry, Assign, ReadState, Acknowledge
<1>3. CASE \E k \in Classes : MonitorThread(k)
    BY <1>3 DEF MonitorThread, Announce, AnnounceFields, BroadcastSend, BroadcastCleanup, Close
<1>4. CASE Stop \/ StopClose \/ Done \/ UNCHANGED vars
    BY <1>4 DEF Stop, StopClose, Done, vars
<1> QED
    BY <1>1, <1>2, <1>3, <1>4 DEF Next

\* Only a connection that was never accepted is given a descriptor.
LEMMA StepPreservesFdInv ==
    ASSUME TypeInv, ConnInv, FdInv, [Next]_vars
    PROVE  FdInv'
<1>1. CASE \A f \in Fds : fdTable'[f] \in {fdTable[f], None}
    BY <1>1 DEF FdInv
<1>2. ASSUME NEW c \in Conns, NEW f \in Fds, Accept(c, f) PROVE FdInv'
    <2>0. conn[c] = "backlog" /\ c # None
        BY <1>2, ApiAssumption DEF Accept
    <2>1. \A g \in Fds : fdTable[g] # c
        BY <2>0 DEF ConnInv, Used
    <2>2. \A g \in Fds : fdTable'[g] = fdTable[g] \/ (g = f /\ fdTable'[g] = c)
        <3>1. fdTable' = fdTable \/ fdTable' = [fdTable EXCEPT ![f] = c]
            BY <1>2 DEF Accept
        <3> QED
            BY <3>1 DEF TypeInv, TypeOK
    <2> QED
        BY <2>1, <2>2 DEF FdInv
<1> QED
    BY <1>1, <1>2, TableStep

\* Handling a request and accepting a connection exclude each other.
LEMMA StepPreservesCurInv ==
    ASSUME TypeInv, FdInv, CurInv, [Next]_vars
    PROVE  CurInv'
<1>1. CASE \E c \in Conns, f \in Fds : Accept(c, f)
    BY <1>1 DEF Accept, threadVars, CurInv, InHand, RequestKinds, Answering
<1>2. CASE \A f \in Fds : fdTable'[f] \in {fdTable[f], None}
    <2>0. None \notin Conns
        BY ApiAssumption
    <2>1. ASSUME epc \in InHand, cur'.fd = cur.fd, cur'.conn = cur.conn PROVE CurInv'
        <3>1. cur.fd \in Fds /\ cur.conn \in Conns
            BY <2>1 DEF TypeInv, Handling, InHand
        <3> QED
            BY <1>2, <2>0, <2>1, <3>1 DEF CurInv
    <2>2. CASE UNCHANGED <<epc, cur>>
        BY <2>1, <2>2 DEF CurInv
    <2>3. CASE epc' \notin InHand
        BY <2>3 DEF CurInv
    <2>4. ASSUME NEW f \in Fds, Receive(f) PROVE CurInv'
        <3>1. cur'.fd = f /\ cur'.conn = fdTable[f] /\ fdTable[f] # None /\ fdTable' = fdTable
            BY <2>4 DEF Receive, CanReceive, kernelVars
        <3> QED
            BY <3>1 DEF FdInv, CurInv
    <2>5. CASE RegisterEntry \/ Assign \/ ReadState
        <3>1. epc \in InHand /\ cur'.fd = cur.fd /\ cur'.conn = cur.conn
            BY <2>5 DEF RegisterEntry, Assign, ReadState, TypeInv, TypeOK, InHand, RequestKinds, Answering
        <3> QED
            BY <2>1, <3>1
    <2> QED
        BY <2>2, <2>3, <2>4, <2>5, RequestStep DEF InHand
<1> QED
    BY <1>1, <1>2, TableStep

\* Everything the refinement needs.
ServiceInv == TypeInv /\ RegistryInv /\ ConnInv /\ LockInv /\ FdInv /\ CurInv

\* The invariant of every behaviour.
LEMMA ServiceInvariant == Spec => []ServiceInv
<1>1. Init => LockInv /\ FdInv /\ CurInv
    <2>1. None \notin Classes
        BY ApiAssumption
    <2> QED
        BY <2>1 DEF Init, LockInv, FdInv, CurInv, InHand, RequestKinds, Answering
<1>2. TypeInv /\ ConnInv /\ LockInv /\ FdInv /\ CurInv /\ [Next]_vars
        => (LockInv /\ FdInv /\ CurInv)'
    BY StepPreservesLockInv, StepPreservesFdInv, StepPreservesCurInv
<1> QED
    BY <1>1, <1>2, TypeInvariant, RegistryInvariant, ConnInvariant, PTL DEF Spec, ServiceInv

-----------------------------------------------------------------------------
(* What the service hears of a step.                                       *)

Live(e) == fdTable[e.fd] = e.conn /\ \A k \in Classes : e.fd \notin toRemove[k]
Subscription(e) == [conn |-> e.conn, class |-> e.class, handle |-> e.handle]

\* The subscriptions are the live entries, before and after a step.
LEMMA SubscriptionsAre ==
    ASSUME NEW s
    PROVE  /\ s \in Subscriptions  <=> \E e \in registry : Live(e) /\ s = Subscription(e)
           /\ s \in Subscriptions' <=> \E e \in registry' : Live(e)' /\ s = Subscription(e)
BY DEF Subscriptions, Live, Subscription

\* Subscriptions end with their entries, or when these are given up.
LEMMA SubscriptionsEnd ==
    ASSUME \A e \in registry' : Live(e)' => e \in registry /\ Live(e)
    PROVE  Subscriptions' \subseteq Subscriptions
BY SubscriptionsAre

\* The same live entries, the same subscriptions.
LEMMA SubscriptionsStay ==
    ASSUME \A e : e \in registry' /\ Live(e)' <=> e \in registry /\ Live(e)
    PROVE  Subscriptions' = Subscriptions
<1>1. \A s : s \in Subscriptions' <=> s \in Subscriptions
    BY SubscriptionsAre
<1> QED
    BY <1>1

\* What was heard is what events were sent.
LEMMA HeardIs ==
    ASSUME NEW x
    PROVE  /\ x \in Heard <=> \E c \in Conns : \E i \in DOMAIN sent[c] :
                /\ sent[c][i].type = "PathEvent"
                /\ x = <<c, sent[c][i].class, sent[c][i].state>>
           /\ x \in Heard' <=> \E c \in Conns : \E i \in DOMAIN sent'[c] :
                /\ sent'[c][i].type = "PathEvent"
                /\ x = <<c, sent'[c][i].class, sent'[c][i].state>>
BY DEF Heard

\* Nothing that was heard is forgotten.
LEMMA HeardGrows ==
    ASSUME TypeInv, [Next]_vars
    PROVE  Heard \subseteq Heard'
<1> SUFFICES ASSUME NEW x \in Heard PROVE x \in Heard'
    OBVIOUS
<1>0. PICK c \in Conns : \E i \in DOMAIN sent[c] :
        sent[c][i].type = "PathEvent" /\ x = <<c, sent[c][i].class, sent[c][i].state>>
    BY HeardIs
<1>1. PICK i \in DOMAIN sent[c] :
        sent[c][i].type = "PathEvent" /\ x = <<c, sent[c][i].class, sent[c][i].state>>
    BY <1>0
<1>2. i \in DOMAIN sent'[c] /\ sent'[c][i] = sent[c][i]
    BY SentStep DEF Grown
<1> QED
    BY <1>1, <1>2, HeardIs

\* Whoever hears something new was sent an event in this step.
LEMMA NewlyHeard ==
    ASSUME TypeInv, [Next]_vars, NEW x \in Heard', x \notin Heard
    PROVE  \E c \in Conns : \E m : /\ NewMessage(c, m) /\ m.type = "PathEvent"
                                   /\ x = <<c, m.class, m.state>>
<1>0. PICK c \in Conns : \E i \in DOMAIN sent'[c] :
        sent'[c][i].type = "PathEvent" /\ x = <<c, sent'[c][i].class, sent'[c][i].state>>
    BY HeardIs
<1>1. PICK i \in DOMAIN sent'[c] :
        sent'[c][i].type = "PathEvent" /\ x = <<c, sent'[c][i].class, sent'[c][i].state>>
    BY <1>0
<1>2. ~(i \in DOMAIN sent[c])
    <2>1. ASSUME i \in DOMAIN sent[c] PROVE x \in Heard
        <3>1. sent'[c][i] = sent[c][i]
            BY <2>1, SentStep DEF Grown
        <3> QED
            BY <1>1, <2>1, <3>1, HeardIs
    <2> QED
        BY <2>1
<1>3. NewMessage(c, sent'[c][i])
    BY <1>2, SentStep DEF Grown
<1> QED
    BY <1>1, <1>3

\* Only a broadcast is heard.
LEMMA HeardQuiet ==
    ASSUME TypeInv, [Next]_vars, sent' = sent \/ bpc' = bpc
    PROVE  Heard' = Heard
<1>1. CASE sent' = sent
    BY <1>1 DEF Heard
<1>2. CASE bpc' = bpc
    <2>1. \A c, m : NewMessage(c, m) => m.type # "PathEvent"
        BY <1>2, NewInQuiet
    <2> QED
        BY <2>1, NewlyHeard, HeardGrows
<1> QED
    BY <1>1, <1>2

-----------------------------------------------------------------------------
(* Every step of the server is a step of the service or a stutter.         *)

\* A step that leaves the caches, the handles and the broadcasts alone at most ends
\* subscriptions.
LEMMA EndsAtMost ==
    ASSUME TypeInv, [Next]_vars, UNCHANGED <<cacheState, bpc, nextHandle>>,
           \A e \in registry' : Live(e)' => e \in registry /\ Live(e)
    PROVE  Service!End
<1>1. UNCHANGED <<cacheState, Delivered, Heard, nextHandle - 1>>
    BY HeardQuiet DEF Delivered
<1>2. Subscriptions' \subseteq Subscriptions
    BY SubscriptionsEnd
<1> QED
    BY <1>1, <1>2 DEF Service!End

\* Consumers, and the epoll thread outside registrations and closings.
LEMMA QuietImplements ==
    ASSUME TypeInv, [Next]_vars,
           UNCHANGED <<cacheState, bpc, nextHandle, registry, fdTable, toRemove>>
    PROVE  UNCHANGED Service!vars
<1>1. UNCHANGED <<cacheState, Delivered, Heard, nextHandle - 1>>
    BY HeardQuiet DEF Delivered
<1>2. Subscriptions' = Subscriptions
    BY DEF Subscriptions
<1> QED
    BY <1>1, <1>2 DEF Service!vars

\* handleAccept() gives a free descriptor to a connection no entry names.
LEMMA AcceptImplements ==
    ASSUME ServiceInv, [Next]_vars, NEW c \in Conns, NEW f \in Fds, Accept(c, f)
    PROVE  UNCHANGED Service!vars
<1>1. UNCHANGED <<cacheState, bpc, nextHandle, registry, toRemove>>
    BY DEF Accept, serverVars, threadVars
<1>2. UNCHANGED <<cacheState, Delivered, Heard, nextHandle - 1>>
    BY <1>1, HeardQuiet DEF Delivered, ServiceInv
<1>3. conn[c] = "backlog" /\ fdTable[f] = None
    BY DEF Accept
<1>4. fdTable' = fdTable \/ fdTable' = [fdTable EXCEPT ![f] = c]
    BY DEF Accept
<1>5. ASSUME NEW e \in registry PROVE Live(e)' <=> Live(e)
    <2>1. e.conn # c /\ e.conn # None /\ e.fd \in Fds
        BY <1>3, ApiAssumption DEF ServiceInv, ConnInv, Used, TypeInv, TypeOK, Entry
    <2>2. fdTable'[e.fd] = e.conn <=> fdTable[e.fd] = e.conn
        BY <1>3, <1>4, <2>1 DEF ServiceInv, TypeInv, TypeOK
    <2> QED
        BY <1>1, <2>2 DEF Live
<1>6. Subscriptions' = Subscriptions
    BY <1>1, <1>5, SubscriptionsStay
<1> QED
    BY <1>2, <1>6 DEF Service!vars

\* removeClient(), an unregistration and stop() end subscriptions.
LEMMA ClosingImplements ==
    ASSUME ServiceInv, [Next]_vars,
           \/ \E ev \in batch : CloseClient(ev)
           \/ EraseClient \/ handleUnregister \/ StopClose
    PROVE  Service!End
<1>1. UNCHANGED <<cacheState, bpc, nextHandle, toRemove>> /\ registry' \subseteq registry
    BY DEF CloseClient, EraseClient, handleUnregister, StopClose, serverVars
<1>2. \A f \in Fds : fdTable'[f] \in {fdTable[f], None}
    BY DEF CloseClient, Close, EraseClient, handleUnregister, StopClose
<1>3. ASSUME NEW e \in registry', Live(e)' PROVE e \in registry /\ Live(e)
    <2>1. e \in registry /\ e.conn # None /\ e.fd \in Fds
        BY <1>1, ApiAssumption DEF ServiceInv, TypeInv, TypeOK, Entry
    <2> QED
        BY <1>1, <1>2, <1>3, <2>1 DEF Live
<1> QED
    BY <1>1, <1>3, EndsAtMost DEF ServiceInv

\* handleRegister() replaces the registration of its connection.  When a broadcast
\* has closed the connection since the request was received, the new entry is dead.
LEMMA RegisterImplements ==
    ASSUME ServiceInv, [Next]_vars, RegisterEntry
    PROVE  \E c \in Conns, k \in Classes : Service!Subscribe(c, k)
<1> DEFINE entry == [fd |-> cur.fd, conn |-> cur.conn,
                     handle |-> nextHandle, class |-> cur.req.class]
           others == {s \in Subscriptions : s.conn # cur.conn}
<1>1. /\ UNCHANGED <<cacheState, bpc, fdTable, toRemove>>
      /\ nextHandle' = nextHandle + 1 /\ nextHandle \in Nat
      /\ registry' = (registry \ EntriesOf(cur.fd)) \cup {entry}
      /\ mutex = None /\ cur.req.class \in Classes
      /\ cur.conn \in Conns /\ cur.fd \in Fds
    BY DEF RegisterEntry, kernelVars, ServiceInv, TypeInv, TypeOK, Handling, RequestKinds
<1>2. UNCHANGED <<cacheState, Delivered, Heard>>
    BY <1>1, HeardQuiet DEF Delivered, ServiceInv
<1>3. /\ fdTable[cur.fd] \in {cur.conn, None}
      /\ \A f \in Fds : fdTable[f] = cur.conn => f = cur.fd
    BY DEF RegisterEntry, ServiceInv, CurInv, InHand, RequestKinds
<1>4. \A e : Live(e)' <=> Live(e)
    BY <1>1 DEF Live
<1>5. ASSUME NEW e \in registry, Live(e) PROVE e.fd = cur.fd <=> e.conn = cur.conn
    <2>1. e.conn \in Conns /\ e.conn # None /\ e.fd \in Fds /\ fdTable[e.fd] = e.conn
        BY <1>5, ApiAssumption DEF ServiceInv, TypeInv, TypeOK, Entry, Live
    <2> QED
        BY <1>3, <2>1
<1>6. ASSUME NEW s
      PROVE  s \in Subscriptions' <=> s \in others \/ (Live(entry) /\ s = Subscription(entry))
    <2>1. s \in others <=> \E e \in registry : Live(e) /\ s = Subscription(e) /\ e.fd # cur.fd
        BY <1>5, SubscriptionsAre DEF Subscription
    <2>2. s \in Subscriptions' <=> \E e \in registry' : Live(e) /\ s = Subscription(e)
        BY <1>4, SubscriptionsAre
    <2> HIDE DEF entry
    <2>3. \A e : e \in registry' <=> e = entry \/ (e \in registry /\ e.fd # cur.fd)
        BY <1>1 DEF EntriesOf
    <2> QED
        BY <2>1, <2>2, <2>3
<1>7. Subscription(entry) =
        [conn |-> cur.conn, class |-> cur.req.class, handle |-> nextHandle - 1 + 1]
    BY <1>1 DEF Subscription
<1>8. Subscriptions' = others \/ Subscriptions' = others \cup {Subscription(entry)}
    BY <1>6
<1>9. Service!Subscribe(cur.conn, cur.req.class)
    BY <1>1, <1>2, <1>7, <1>8 DEF Service!Subscribe
<1> QED
    BY <1>1, <1>9

\* updateCurrentState() publishes a state.
LEMMA AnnounceImplements ==
    ASSUME ServiceInv, [Next]_vars, NEW k \in Classes, Announce(k)
    PROVE  Service!Publish(k)
<1>1. /\ UNCHANGED <<nextHandle, registry, fdTable, toRemove, sent>>
      /\ bpc[k] = "idle" /\ bpc' = [bpc EXCEPT ![k] = "fields"]
      /\ cacheState' = [cacheState EXCEPT ![k] = @ + 1]
    BY DEF Announce, kernelVars
<1>2. cacheState \in [Classes -> Nat] /\ DOMAIN bpc = Classes
    BY DEF ServiceInv, TypeInv, TypeOK
<1>3. UNCHANGED <<Subscriptions, Heard, nextHandle - 1>>
    BY <1>1 DEF Subscriptions, Heard
<1>4. Delivered[k] = cacheState[k]
    BY <1>1 DEF Delivered
<1>5. ASSUME NEW j \in Classes PROVE Delivered'[j] = Delivered[j]
    <2>1. CASE j = k
        BY <1>1, <1>2, <2>1 DEF Delivered
    <2>2. CASE j # k
        BY <1>1, <1>2, <2>2 DEF Delivered
    <2> QED
        BY <2>1, <2>2
<1>6. Delivered' = Delivered
    BY <1>5 DEF Delivered
<1> QED
    BY <1>1, <1>3, <1>4, <1>6 DEF Service!Publish

\* The fields that go with a state are nothing the service knows of.
LEMMA FieldsImplement ==
    ASSUME ServiceInv, [Next]_vars, NEW k \in Classes, AnnounceFields(k)
    PROVE  UNCHANGED Service!vars
<1>1. /\ UNCHANGED <<nextHandle, registry, fdTable, toRemove, sent, cacheState>>
      /\ bpc[k] = "fields" /\ bpc' = [bpc EXCEPT ![k] = "lock"]
      /\ DOMAIN bpc = Classes
    BY DEF AnnounceFields, kernelVars, ServiceInv, TypeInv, TypeOK
<1>2. UNCHANGED <<Subscriptions, Heard, nextHandle - 1>>
    BY <1>1 DEF Subscriptions, Heard
<1>3. \A j \in Classes : bpc'[j] \in {"fields", "lock"} <=> bpc[j] \in {"fields", "lock"}
    BY <1>1
<1>4. Delivered' = Delivered
    BY <1>1, <1>3 DEF Delivered
<1> QED
    BY <1>1, <1>2, <1>4 DEF Service!vars

\* While no thread holds the lock no descriptor waits to be closed.
LEMMA Unlocked ==
    ASSUME TypeInv, LockInv, mutex = None
    PROVE  \A k \in Classes : toRemove[k] = {}
<1>1. \A k \in Classes : mutex # k
    BY ApiAssumption
<1> QED
    BY <1>1 DEF LockInv

\* The walk over the registry delivers the state to the entries it can send to and
\* gives the others up.
LEMMA BroadcastImplements ==
    ASSUME ServiceInv, [Next]_vars, NEW k \in Classes, BroadcastSend(k)
    PROVE  \E reached \in SUBSET Conns : Service!Deliver(k, reached)
<1>1. /\ UNCHANGED <<nextHandle, registry, fdTable, cacheState>>
      /\ bpc[k] = "lock" /\ bpc' = [bpc EXCEPT ![k] = "cleanup"]
      /\ toRemove' = [toRemove EXCEPT ![k] = {e.fd : e \in Deaf(k)}]
      /\ mutex = None
      /\ sent' = [c \in Conns |-> IF c \in Listeners(k) THEN Append(sent[c], PathEvent(k))
                                  ELSE sent[c]]
    BY DEF BroadcastSend
<1>2. /\ cacheState \in [Classes -> Nat] /\ bpc \in [Classes -> {"idle", "fields", "lock", "cleanup"}]
      /\ toRemove \in [Classes -> SUBSET Fds] /\ sent \in [Conns -> Seq(Message)]
      /\ TypeInv /\ FdInv /\ RegistryKeyed
      /\ \A e \in registry : e.fd \in Fds /\ e.conn \in Conns /\ e.conn # None
    BY ApiAssumption DEF ServiceInv, TypeInv, TypeOK, Entry, RegistryInv
<1>3. Listeners(k) \subseteq Conns
    BY <1>2 DEF Listeners, Audience, CanSend, TypeInv, TypeOK
<1>4. /\ Delivered[k] < cacheState[k]
      /\ Delivered' = [Delivered EXCEPT ![k] = cacheState[k]]
    <2>1. Delivered[k] = cacheState[k] - 1
        BY <1>1 DEF Delivered
    <2>2. ASSUME NEW j \in Classes
          PROVE  Delivered'[j] = IF j = k THEN cacheState[k] ELSE Delivered[j]
        BY <1>1, <1>2 DEF Delivered
    <2>3. Delivered' = [j \in Classes |-> Delivered'[j]] /\ Delivered = [j \in Classes |-> Delivered[j]]
        BY DEF Delivered
    <2>4. Delivered' = [Delivered EXCEPT ![k] = cacheState[k]]
        BY <2>2, <2>3
    <2>5. cacheState[k] - 1 < cacheState[k]
        BY <1>2
    <2> QED
        BY <2>1, <2>4, <2>5
<1>5. Heard' = Heard \cup {<<c, k, cacheState[k]>> : c \in Listeners(k)}
    <2>0. /\ PathEvent(k).type = "PathEvent"
          /\ PathEvent(k).class = k /\ PathEvent(k).state = cacheState[k]
        BY DEF PathEvent, Reply
    <2>1. ASSUME NEW x \in Heard', x \notin Heard
          PROVE  \E c \in Listeners(k) : x = <<c, k, cacheState[k]>>
        BY <1>2, <2>0, <2>1, NewlyHeard, NewInBroadcast
    <2>2. ASSUME NEW c \in Listeners(k) PROVE <<c, k, cacheState[k]>> \in Heard'
        <3>1. /\ Len(sent[c]) + 1 \in DOMAIN sent'[c]
              /\ sent'[c][Len(sent[c]) + 1] = PathEvent(k)
            BY <1>1, <1>2, <1>3
        <3> QED
            BY <1>3, <2>0, <3>1, HeardIs
    <2> QED
        BY <1>2, <2>1, <2>2, HeardGrows
<1>6. \A j \in Classes : toRemove[j] = {}
    BY <1>1, Unlocked DEF ServiceInv
<1>7. ASSUME NEW e \in registry
      PROVE  Live(e)' <=> Live(e) /\ (e.class # k \/ e.conn \in Listeners(k))
    <2>1. Live(e)' <=> fdTable[e.fd] = e.conn /\ e.fd \notin {a.fd : a \in Deaf(k)}
        BY <1>1, <1>2, <1>6 DEF Live
    <2>2. Live(e) <=> fdTable[e.fd] = e.conn
        BY <1>6 DEF Live
    <2>3. e.fd \in {a.fd : a \in Deaf(k)} <=> e.class = k /\ ~CanSend(e.fd)
        BY <1>2 DEF Deaf, Audience, RegistryKeyed
    <2>4. ASSUME fdTable[e.fd] = e.conn, e.class = k
          PROVE  e.conn \in Listeners(k) <=> CanSend(e.fd)
        <3>1. ASSUME CanSend(e.fd) PROVE e.conn \in Listeners(k)
            BY <2>4, <3>1 DEF Listeners, Audience
        <3>2. ASSUME e.conn \in Listeners(k) PROVE CanSend(e.fd)
            <4>1. PICK a \in registry : CanSend(a.fd) /\ fdTable[a.fd] = e.conn
                BY <3>2 DEF Listeners, Audience
            <4>2. a.fd = e.fd
                BY <1>2, <2>4, <4>1 DEF FdInv
            <4> QED
                BY <4>1, <4>2
        <3> QED
            BY <3>1, <3>2
    <2> QED
        BY <2>1, <2>2, <2>3, <2>4
<1>8. Subscriptions' = {s \in Subscriptions : s.class # k \/ s.conn \in Listeners(k)}
    <2>1. ASSUME NEW s
          PROVE  s \in Subscriptions' <=>
                    s \in Subscriptions /\ (s.class # k \/ s.conn \in Listeners(k))
        BY <1>1, <1>7, SubscriptionsAre DEF Subscription
    <2> QED
        BY <2>1
<1>9. Service!Deliver(k, Listeners(k))
    BY <1>1, <1>4, <1>5, <1>8 DEF Service!Deliver
<1> QED
    BY <1>3, <1>9

\* The cleanup closes and erases what the walk gave up.
LEMMA CleanupImplements ==
    ASSUME ServiceInv, [Next]_vars, NEW k \in Classes, BroadcastCleanup(k)
    PROVE  UNCHANGED Service!vars
<1>1. /\ UNCHANGED <<nextHandle, sent, cacheState>>
      /\ bpc[k] = "cleanup" /\ bpc' = [bpc EXCEPT ![k] = "idle"]
      /\ toRemove' = [toRemove EXCEPT ![k] = {}]
      /\ registry' = registry \ UNION {First(EntriesOf(f)) : f \in toRemove[k]}
      /\ fdTable' = [f \in Fds |-> IF f \in toRemove[k] THEN None ELSE fdTable[f]]
    BY DEF BroadcastCleanup, Close
<1>2. /\ bpc \in [Classes -> {"idle", "fields", "lock", "cleanup"}]
      /\ toRemove \in [Classes -> SUBSET Fds] /\ TypeInv
      /\ \A e \in registry : e.fd \in Fds /\ e.conn # None
    BY ApiAssumption DEF ServiceInv, TypeInv, TypeOK, Entry
<1>3. \A j \in Classes : bpc'[j] \in {"fields", "lock"} <=> bpc[j] \in {"fields", "lock"}
    BY <1>1, <1>2
<1>4. UNCHANGED <<cacheState, Delivered, Heard, nextHandle - 1>>
    BY <1>1, <1>3 DEF Delivered, Heard
<1>5. \A j \in Classes : j # k => toRemove[j] = {}
    BY <1>1 DEF ServiceInv, LockInv
<1>6. \A j \in Classes : toRemove'[j] = {}
    BY <1>1, <1>2, <1>5
<1>7. \A e \in registry : Live(e) <=> fdTable[e.fd] = e.conn /\ e.fd \notin toRemove[k]
    BY <1>5 DEF Live
<1>8. \A e \in registry : Live(e)' <=> fdTable[e.fd] = e.conn /\ e.fd \notin toRemove[k]
    BY <1>1, <1>2, <1>6 DEF Live
<1>9. \A e \in registry : e.fd \notin toRemove[k] => e \in registry'
    BY <1>1 DEF First, EntriesOf
<1>10. Subscriptions' = Subscriptions
    <2>1. registry' \subseteq registry
        BY <1>1
    <2> QED
        BY <1>7, <1>8, <1>9, <2>1, SubscriptionsStay
<1> QED
    BY <1>4, <1>10 DEF Service!vars

\* Every step of every thread, one by one.
LEMMA StepImplements ==
    ASSUME ServiceInv, [Next]_vars
    PROVE  [Service!Next]_(Service!vars)
<1>0. TypeInv
    BY DEF ServiceInv
<1>1. CASE Consumer
    <2>1. UNCHANGED <<cacheState, bpc, nextHandle, registry, fdTable, toRemove>>
        BY <1>1 DEF Consumer, Connect, Read, Hangup, Ask, kernelVars, serverVars, threadVars
    <2> QED
        BY <1>0, <2>1, QuietImplements
<1>2. CASE \/ LoopTest \/ EpollWait \/ EpollFail \/ Wakeup \/ HandleListen \/ AcceptDone
           \/ \E f \in Fds : Receive(f)
           \/ RefuseRegister \/ RefuseQuery \/ UnknownType \/ Assign \/ ReadState \/ Acknowledge
    <2>1. UNCHANGED <<cacheState, bpc, nextHandle, registry, fdTable, toRemove>>
        BY <1>2 DEF LoopTest, EpollWait, EpollFail, Wakeup, HandleListen, AcceptDone, Receive,
           RefuseRegister, RefuseQuery, UnknownType, Refuse, Assign, ReadState, Acknowledge,
           kernelVars, serverVars
    <2> QED
        BY <1>0, <2>1, QuietImplements
<1>3. CASE \E c \in Conns, f \in Fds : Accept(c, f)
    BY <1>3, AcceptImplements
<1>4. CASE (\E ev \in batch : CloseClient(ev)) \/ EraseClient \/ handleUnregister \/ StopClose
    BY <1>4, ClosingImplements DEF Service!Next
<1>5. CASE RegisterEntry
    BY <1>5, RegisterImplements DEF Service!Next
<1>6. CASE \E k \in Classes : MonitorThread(k)
    BY <1>6, AnnounceImplements, FieldsImplement, BroadcastImplements, CleanupImplements
       DEF MonitorThread, Service!Next
<1>7. CASE Stop \/ Done \/ UNCHANGED vars
    <2>1. UNCHANGED <<cacheState, bpc, nextHandle, registry, fdTable, toRemove>>
        BY <1>7 DEF Stop, Done, vars, kernelVars, serverVars, threadVars
    <2> QED
        BY <1>0, <2>1, QuietImplements
<1> QED
    BY <1>1, <1>2, <1>3, <1>4, <1>5, <1>6, <1>7 DEF Next, EpollThread

(***************************************************************************)
(* The consumer API server (consumer_api_server.cpp), with its epoll       *)
(* thread, any number of monitor threads that broadcast, descriptors that  *)
(* are closed and reused and consumers that come and go, implements the    *)
(* notification service: a state reaches every subscriber of its class or  *)
(* ends the subscription, and a handle is never given out twice.           *)
(***************************************************************************)
THEOREM ServerImplementsService == Spec => ImplementsService
<1>1. Init => Service!Init
    <2> SUFFICES ASSUME Init PROVE Service!Init
        OBVIOUS
    <2>1. /\ cacheState = [k \in Classes |-> 0] /\ bpc = [k \in Classes |-> "idle"]
          /\ registry = {} /\ nextHandle = 1 /\ sent = [c \in Conns |-> <<>>]
        BY DEF Init
    <2>2. Delivered = [k \in Classes |-> 0]
        BY <2>1 DEF Delivered
    <2>3. Subscriptions = {} /\ Heard = {}
        BY <2>1 DEF Subscriptions, Heard
    <2> QED
        BY <2>1, <2>2, <2>3 DEF Service!Init
<1>2. ServiceInv /\ [Next]_vars => [Service!Next]_(Service!vars)
    BY StepImplements
<1> QED
    BY <1>1, <1>2, ServiceInvariant, PTL DEF Spec, ImplementsService, Service!Spec

-----------------------------------------------------------------------------
(* Isolation: registered processes are in the cgroup of their class.       *)

\* All the entries of a connection are under the descriptor it was accepted with,
\* also the entry of a request that outlived its connection.
PlaceInv ==
    /\ \A e \in registry, f \in Fds : fdTable[f] = e.conn => e.fd = f
    /\ \A d, e \in registry : d.conn = e.conn => d.fd = e.fd
    /\ epc \in InHand => \A e \in registry : e.conn = cur.conn => e.fd = cur.fd

\* Between the lock and the write to the tasks file the entry is the only one of its
\* descriptor, if a broadcast has not erased it.
AssignInv ==
    epc = "assign" =>
        \A e \in registry :
            (e.fd = cur.fd \/ e.handle = cur.handle) =>
                e.conn = cur.conn /\ e.handle = cur.handle /\ e.class = cur.req.class

\* A descriptor is new to the connection that is accepted, and an entry is made for
\* the descriptor the request came from.
LEMMA StepPreservesPlaceInv ==
    ASSUME ServiceInv, PlaceInv, [Next]_vars
    PROVE  PlaceInv'
<1>0. /\ TypeInv /\ ConnInv /\ FdInv /\ CurInv
      /\ \A e \in registry : e.conn \in Conns /\ e.conn # None
    BY ApiAssumption DEF ServiceInv, TypeInv, TypeOK, Entry
<1>1. CASE RegisterEntry
    <2>1. /\ UNCHANGED fdTable
          /\ cur'.fd = cur.fd /\ cur'.conn = cur.conn
          /\ \A e \in registry' : e \in registry \/ (e.fd = cur.fd /\ e.conn = cur.conn)
          /\ epc \in InHand
        BY <1>0, <1>1 DEF RegisterEntry, kernelVars, TypeInv, TypeOK, InHand, RequestKinds
    <2>2. \A f \in Fds : fdTable[f] = cur.conn => f = cur.fd
        BY <1>0, <2>1 DEF CurInv
    <2> QED
        BY <2>1, <2>2 DEF PlaceInv
<1>2. CASE ~RegisterEntry
    <2>1. registry' \subseteq registry
        BY <1>2, RegistryStep
    <2>2. \A e \in registry', f \in Fds : fdTable'[f] = e.conn => e.fd = f
        <3>1. ASSUME NEW e \in registry', NEW f \in Fds, fdTable'[f] = e.conn
              PROVE  fdTable[f] = e.conn
            BY <1>0, <2>1, <3>1, ConnStep DEF ConnInv
        <3> QED
            BY <2>1, <3>1 DEF PlaceInv
    <2>3. \A d, e \in registry' : d.conn = e.conn => d.fd = e.fd
        BY <2>1 DEF PlaceInv
    <2>4. ASSUME epc' \in InHand, NEW e \in registry', e.conn = cur'.conn PROVE e.fd = cur'.fd
        <3>1. CASE epc \in InHand /\ cur'.fd = cur.fd /\ cur'.conn = cur.conn
            BY <2>1, <2>4, <3>1 DEF PlaceInv
        <3>2. CASE UNCHANGED <<epc, cur>>
            BY <2>4, <3>1, <3>2
        <3>3. ASSUME NEW f \in Fds, Receive(f) PROVE e.fd = cur'.fd
            <4>1. cur'.fd = f /\ cur'.conn = fdTable[f] /\ fdTable' = fdTable
                BY <3>3 DEF Receive, kernelVars
            <4> QED
                BY <2>2, <2>4, <4>1
        <3>4. CASE Assign \/ ReadState
            <4>1. epc \in InHand /\ cur'.fd = cur.fd /\ cur'.conn = cur.conn
                BY <1>0, <3>4 DEF Assign, ReadState, TypeInv, TypeOK, InHand, RequestKinds, Answering
            <4> QED
                BY <3>1, <4>1
        <3> QED
            BY <1>0, <1>2, <2>4, <3>2, <3>3, <3>4, RequestStep DEF InHand
    <2> QED
        BY <2>2, <2>3, <2>4 DEF PlaceInv
<1> QED
    BY <1>1, <1>2

\* No handler runs while the process is being moved.
LEMMA AssignStep ==
    ASSUME TypeInv, [Next]_vars, epc = "assign"
    PROVE  Assign \/ UNCHANGED <<epc, cur>>
<1> USE DEF Return, Take, RequestKinds
<1>1. CASE Consumer
    BY <1>1 DEF Consumer, Connect, Read, Hangup, Ask, threadVars
<1>2. CASE EpollThread
    BY <1>2 DEF EpollThread, LoopTest, EpollWait, EpollFail, Wakeup, HandleListen, AcceptDone, Accept,
       Receive, CloseClient, EraseClient, RefuseRegister, RefuseQuery, UnknownType, Refuse,
       handleUnregister, RegisterEntry, ReadState, Acknowledge
<1>3. CASE \E k \in Classes : MonitorThread(k)
    BY <1>3 DEF MonitorThread, Announce, AnnounceFields, BroadcastSend, BroadcastCleanup
<1>4. CASE Stop \/ StopClose \/ Done \/ UNCHANGED vars
    BY <1>4 DEF Stop, StopClose, Done, vars, threadVars
<1> QED
    BY <1>1, <1>2, <1>3, <1>4 DEF Next

\* handleRegister() erases the entries of its descriptor before it adds its own.
LEMMA StepPreservesAssignInv ==
    ASSUME ServiceInv, AssignInv, [Next]_vars
    PROVE  AssignInv'
<1>0. TypeInv /\ RegistryInv
    BY DEF ServiceInv
<1>1. CASE RegisterEntry
    <2> DEFINE entry == [fd |-> cur.fd, conn |-> cur.conn,
                         handle |-> nextHandle, class |-> cur.req.class]
    <2>1. /\ registry' = (registry \ EntriesOf(cur.fd)) \cup {entry}
          /\ cur'.fd = cur.fd /\ cur'.conn = cur.conn
          /\ cur'.handle = nextHandle /\ cur'.req = cur.req
        BY <1>0, <1>1 DEF RegisterEntry, TypeInv, TypeOK
    <2>2. \A e \in registry : e.handle # nextHandle
        BY <1>0 DEF RegistryInv, TypeInv, TypeOK, Entry
    <2>3. ASSUME NEW e \in registry', e.fd = cur.fd \/ e.handle = nextHandle
          PROVE  e = entry
        BY <2>1, <2>2, <2>3 DEF EntriesOf
    <2> QED
        BY <2>1, <2>3 DEF AssignInv
<1>2. CASE ~RegisterEntry
    <2>1. registry' \subseteq registry
        BY <1>2, RegistryStep
    <2>2. CASE epc' # "assign"
        BY <2>2 DEF AssignInv
    <2>3. CASE UNCHANGED <<epc, cur>>
        BY <2>1, <2>3 DEF AssignInv
    <2>4. CASE Assign \/ ReadState \/ \E f \in Fds : Receive(f)
        <3>1. epc' # "assign"
            BY <2>4, <1>0, ReceiveKind DEF Assign, ReadState, RequestKinds
        <3> QED
            BY <3>1 DEF AssignInv
    <2> QED
        BY <1>0, <1>2, <2>2, <2>3, <2>4, RequestStep DEF Answering
<1> QED
    BY <1>1, <1>2

\* What a step does to the cgroups when the writes succeed: the process of the request
\* moves to its class, the processes of erased entries to the root.
LEMMA CgroupStep ==
    ASSUME TypeInv, [Next]_vars, "cgroup" \notin Faults
    PROVE  \/ UNCHANGED cgroup
           \/ Assign /\ cgroup' = Moved({PidOf[cur.conn]}, cur.req.class)
           \/ \E gone \in SUBSET registry :
                /\ registry' = registry \ gone
                /\ cgroup' = Moved({PidOf[e.conn] : e \in gone}, None)
<1>1. CASE Consumer
    BY <1>1 DEF Consumer, Connect, Read, Hangup, Ask, kernelVars
<1>2. CASE \/ LoopTest \/ EpollWait \/ EpollFail \/ Wakeup \/ HandleListen \/ AcceptDone
           \/ (\E c \in Conns, f \in Fds : Accept(c, f))
           \/ (\E f \in Fds : Receive(f)) \/ (\E ev \in batch : CloseClient(ev))
           \/ RefuseRegister \/ RefuseQuery \/ UnknownType \/ RegisterEntry
           \/ ReadState \/ Acknowledge
    BY <1>2 DEF LoopTest, EpollWait, EpollFail, Wakeup, HandleListen, AcceptDone, Accept, Receive, CloseClient,
       RefuseRegister, RefuseQuery, UnknownType, Refuse, RegisterEntry, ReadState, Acknowledge,
       kernelVars
<1>3. CASE Assign
    BY <1>3 DEF Assign, assignCgroupPid, Write
<1>4. CASE EraseClient
    <2> DEFINE gone == First(EntriesOf(cur.fd))
    <2>1. gone \subseteq registry
        BY DEF First, EntriesOf
    <2>2. registry' = registry \ gone /\ cgroup' = Moved({PidOf[e.conn] : e \in gone}, None)
        BY <1>4 DEF EraseClient, removeCgroupPid, Write
    <2> HIDE DEF gone
    <2> QED
        BY <2>1, <2>2
<1>5. CASE handleUnregister
    <2> DEFINE gone == First({e \in registry : e.handle = cur.req.handle})
    <2>1. gone \subseteq registry
        BY DEF First
    <2>2. registry' = registry \ gone /\ cgroup' = Moved({PidOf[e.conn] : e \in gone}, None)
        BY <1>5 DEF handleUnregister, removeCgroupPid, Write
    <2> HIDE DEF gone
    <2> QED
        BY <2>1, <2>2
<1>6. ASSUME NEW k \in Classes, BroadcastCleanup(k)
      PROVE  \E gone \in SUBSET registry :
                /\ registry' = registry \ gone
                /\ cgroup' = Moved({PidOf[e.conn] : e \in gone}, None)
    <2> DEFINE gone == UNION {First(EntriesOf(f)) : f \in toRemove[k]}
    <2>1. gone \subseteq registry
        BY DEF First, EntriesOf
    <2>2. registry' = registry \ gone /\ cgroup' = Moved({PidOf[e.conn] : e \in gone}, None)
        BY <1>6 DEF BroadcastCleanup, removeCgroupPid, Write
    <2> HIDE DEF gone
    <2> QED
        BY <2>1, <2>2
<1>7. ASSUME NEW k \in Classes, Announce(k) \/ AnnounceFields(k) \/ BroadcastSend(k)
      PROVE  UNCHANGED cgroup
    BY <1>7 DEF Announce, AnnounceFields, BroadcastSend, kernelVars
<1>8. CASE Stop \/ StopClose \/ Done \/ UNCHANGED vars
    BY <1>8 DEF Stop, StopClose, Done, vars, kernelVars
<1> QED
    BY <1>1, <1>2, <1>3, <1>4, <1>5, <1>6, <1>7, <1>8 DEF Next, EpollThread, MonitorThread

\* Moving the process of one entry moves that of no other: entries of one process are
\* of one connection, so of one descriptor, so one entry.
LEMMA StepPreservesIsolation ==
    ASSUME OneProcessEach, "cgroup" \notin Faults,
           ServiceInv, PlaceInv, AssignInv, RegisteredIsolated, [Next]_vars
    PROVE  RegisteredIsolated'
<1>0. /\ TypeInv /\ RegistryKeyed
      /\ \A e \in registry : e.conn \in Conns /\ PidOf[e.conn] \in Pids /\ e.handle \in Nat
    BY ApiAssumption DEF ServiceInv, RegistryInv, TypeInv, TypeOK, Entry
<1> SUFFICES ASSUME NEW e \in registry',
                    ~(epc' = "assign" /\ cur'.handle = e.handle)
             PROVE  cgroup'[PidOf[e.conn]] = e.class
    BY DEF RegisteredIsolated
<1>1. CASE Assign
    <2>1. registry' = registry /\ cur.conn \in Conns /\ epc = "assign"
        BY <1>0, <1>1 DEF Assign, serverVars, TypeInv, Handling, Answering
    <2>2. cgroup' = Moved({PidOf[cur.conn]}, cur.req.class)
        BY <1>1 DEF Assign, assignCgroupPid, Write
    <2>3. CASE e.conn = cur.conn
        <3>1. e.fd = cur.fd
            BY <2>1, <2>3 DEF PlaceInv, InHand, Answering
        <3>2. e.class = cur.req.class
            BY <2>1, <3>1 DEF AssignInv
        <3> QED
            BY <1>0, <2>1, <2>2, <2>3, <3>2 DEF Moved
    <2>4. CASE e.conn # cur.conn
        <3>1. e.handle # cur.handle
            BY <2>1, <2>4 DEF AssignInv
        <3>2. cgroup[PidOf[e.conn]] = e.class
            BY <2>1, <3>1 DEF RegisteredIsolated
        <3>3. PidOf[e.conn] # PidOf[cur.conn]
            BY <1>0, <2>1, <2>4 DEF OneProcessEach
        <3> QED
            BY <1>0, <2>1, <2>2, <3>2, <3>3 DEF Moved
    <2> QED
        BY <2>3, <2>4
<1>2. CASE ~Assign
    <2>1. e \in registry /\ ~(epc = "assign" /\ cur.handle = e.handle)
        <3>1. CASE RegisterEntry
            <4>1. /\ epc = "Register" /\ epc' = "assign" /\ cur'.handle = nextHandle
                  /\ registry' = (registry \ EntriesOf(cur.fd)) \cup
                        {[fd |-> cur.fd, conn |-> cur.conn,
                          handle |-> nextHandle, class |-> cur.req.class]}
                BY <1>0, <3>1 DEF RegisterEntry, TypeInv, TypeOK
            <4> QED
                BY <4>1
        <3>2. CASE ~RegisterEntry
            BY <1>0, <1>2, <3>2, AssignStep, RegistryStep
        <3> QED
            BY <3>1, <3>2
    <2>2. cgroup[PidOf[e.conn]] = e.class
        BY <2>1 DEF RegisteredIsolated
    <2>3. ASSUME NEW gone \in SUBSET registry, registry' = registry \ gone,
                 cgroup' = Moved({PidOf[d.conn] : d \in gone}, None)
          PROVE  cgroup'[PidOf[e.conn]] = e.class
        <3>1. ASSUME NEW d \in gone PROVE PidOf[d.conn] # PidOf[e.conn]
            <4>1. d # e /\ d \in registry
                BY <2>1, <2>3
            <4>2. d.fd # e.fd
                BY <1>0, <2>1, <4>1 DEF RegistryKeyed
            <4>3. d.conn # e.conn
                BY <2>1, <4>1, <4>2 DEF PlaceInv
            <4> QED
                BY <1>0, <2>1, <4>1, <4>3 DEF OneProcessEach
        <3>2. PidOf[e.conn] \in Pids /\ PidOf[e.conn] \notin {PidOf[d.conn] : d \in gone}
            BY <1>0, <2>1, <3>1
        <3> QED
            BY <2>2, <2>3, <3>2 DEF Moved
    <2> QED
        BY <1>0, <1>2, <2>2, <2>3, CgroupStep
<1> QED
    BY <1>1, <1>2

(***************************************************************************)
(* consumer_api_server.hpp:5: a registered process is in the cgroup of its *)
(* class from the end of its registration to the end of the entry,         *)
(* whatever the other consumers and the broadcasts do in between, when no  *)
(* two connections are of one process and tasks files can be written.      *)
(***************************************************************************)
THEOREM RegisteredStayIsolated ==
    ASSUME OneProcessEach, "cgroup" \notin Faults
    PROVE  Spec => []RegisteredIsolated
<1>1. Init => PlaceInv /\ AssignInv /\ RegisteredIsolated
    BY DEF Init, PlaceInv, AssignInv, RegisteredIsolated, InHand, RequestKinds, Answering
<1>2. ServiceInv /\ PlaceInv /\ AssignInv /\ RegisteredIsolated /\ [Next]_vars
        => (PlaceInv /\ AssignInv /\ RegisteredIsolated)'
    BY StepPreservesPlaceInv, StepPreservesAssignInv, StepPreservesIsolation
<1> QED
    BY <1>1, <1>2, ServiceInvariant, PTL DEF Spec

=============================================================================
