# wifi-offload-manager: a TLA+ verification project

`wifi-offload-manager` is a daemon for a Raspberry Pi gateway. It watches the WiFi
link through wpa_supplicant, installs and removes the default route of each *path
class*, keeps the traffic of each class apart (cgroups, marks, ip rules, DROP rules),
and tells *consumers*, local processes that register over a Unix socket, how their
path is doing. The sources are under `src/wifi-offload-manager/src/`; paths below
are relative to that directory unless they begin with `src/`.

`PROJECT.json` names, for every definition, the lines it models, and lists the runs,
the mutants, the findings, the hazards and the theorems. This file explains them.

## 1. Inventory

| Part | State | Operations | Hard behaviour |
|---|---|---|---|
| `PathStateFsm` (`fsm/`) | `state_`, `activeIface_` | `onWpaEvent` → `nextState` → `transition` → callbacks | the route in the kernel and `activeIface_` must stay paired through any sequence of events and failing requests |
| `WpaMonitor` (`wpa/wpa_monitor.*`) | `stopRequested_`, the backoff, the control connection | `start` (reconnect loop), `runEventLoop`, `handleEvent`, `parseEvent`, `stop` | `stop()` from another thread at any point; lost messages; a supplicant that terminates, crashes, comes back |
| callbacks and threads of `main.cpp` | the FSMs, monitors and threads | `onPathUp`, `onPathDown`, `onStateChanged`, stop and join | order against DHCP; monitor threads are joined before the server is stopped |
| `ConsumerApiServer` (`api/`) | `registry_`, `nextHandle_`, `classStates_`, `running_`, descriptors | epoll loop, accept, register, unregister, query, remove, broadcast, `stop` | one epoll thread, one broadcasting thread per class, one mutex that covers only part of what they share; descriptor numbers are reused |
| `RoutingPolicyManager` (`routing/`) | kernel: cgroups, iptables, ip rules, routes | set-up in four stages, `cleanup`, default routes | partial failure, crash and restart, idempotence |
| `MptcpManager` (`mptcp/`) | kernel: MPTCP endpoints | `addEndpoints`, `removeEndpoints` | partial failure, shared by all classes |
| `ConfigLoader` (`config/`) | none | parse and validate | numeric fields, uniqueness |
| `main()` | `gShutdown`, `gReloadConfig` | start-up, signals, watchdog, shutdown | signal against `pause()`, failure half-way |

How they meet. wpa_supplicant sends messages on a control socket. The thread of a
class's `WpaMonitor` parses one and calls `onWpaEvent` of the class's FSM. A transition
calls `onPathUp`/`onPathDown` (netlink, in the same thread) and then `onStateChanged`,
which is `ConsumerApiServer::broadcastPathEvent`, still in the monitor's thread. The
epoll thread serves consumers concurrently. The two share `registry_` under
`registryMutex_`, and `classStates_`, descriptors and cgroup files under nothing.

What makes each part correct:

* FSM: a route in the class's table can always be taken back, and is when the path
  goes down; a live path has a link.
* Monitor: it can always be stopped; while it is not, it gets back to a running
  supplicant; a socket the supplicant sends to is read, or closed.
* API: a registered consumer knows the state of its class, events come in order,
  an unregistration that succeeded is final, a registered process is in its cgroup, requests are served,
  `stop()` ends.
* Configuration: what is accepted is usable by the rest of the daemon; what is well formed
  is accepted unchanged.
* Routing, MPTCP, `main()`: after set-up, also after crashes, failures and changes of the
  configuration, the kernel does what the configuration asks for; a restart opens no gap in
  the isolation; what is left behind has a cause; a daemon told to stop ends.

The hazards, each at its line, are in `PROJECT.json`.

## 2. Modules

| Module | Models | Composition |
|---|---|---|
| `PathStateFsm` | the transition function, `transition` with its callbacks, the kernel's view of one class (route, endpoint, DHCP lease) | |
| `WpaMonitor` | the monitor thread, `stop()`/`join()`, wpa_supplicant | |
| `PathMonitor` | one path class as `main.cpp` wires it | EXTENDS `PathStateFsm`, INSTANCE `WpaMonitor`; `Dispatch` is the joint action |
| `ConsumerApi` | the server: epoll thread, monitor threads in the broadcast, main thread in `stop()`, consumers | |
| `NotificationService` | what the server promises to consumers, without threads and descriptors | implemented by `ConsumerApi` (INSTANCE ... WITH, `ImplementsService`) |
| `ConfigLoader` | `loadFromFile` and its checks, as operators | |
| `ConfigLoad` | one load of one file, against a reference | EXTENDS `ConfigLoader` |
| `RoutingPolicy` | cgroups, MARK rules, ip rules, DROP rules, default routes: the kernel's state and the operations on it | EXTENDS `ConfigLoader` |
| `Daemon` | the lives of the process: start-up, loop, shutdown, failures, crashes, restarts | EXTENDS `RoutingPolicy` |
| `Gateway` | the octets of a gateway from `/proc/net/route` to `RTA_GATEWAY` | |
| `MCPathMonitor`, `MCWpaMonitor`, `MCConsumerApi`, `MCConfigLoad`, `MCDaemon`, `MCGateway` | values for the constants | |
| `WpaMonitorProofs` | theorems about the monitor | EXTENDS `WpaMonitor` |
| `PathMonitorProofs` | theorems about a path class | EXTENDS `PathMonitor`, INSTANCE `WpaMonitorProofs`, whose theorems it carries over |
| `ConsumerApiProofs`, `ServiceProofs` | theorems about the server; that it implements `NotificationService` | EXTENDS `ConsumerApi`; the second EXTENDS the first |
| `ConfigLoaderProofs` | lemmas about `loadFromFile` | EXTENDS `ConfigLoader` |
| `ConfigLoadProofs`, `DaemonProofs` | theorems about a load, and about the lives of the daemon | EXTENDS `ConfigLoad`, `Daemon`, both with `ConfigLoaderProofs` |

Definitions keep the source's names (`nextState`, `transition`, `onPathUp`,
`handleEvent`, `sendMsg`, `assignCgroupPid`, ...). Operators introduced by a comment
"With a bug" are the mutants: plausible mistakes that the properties must notice. No
definition uses them.

### PathStateFsm
`state` and `activeIface` are the object's fields. `route`, `endpoint` and `lease` are
the kernel's: whether the class's table has the default route, whether the interface's
address is an MPTCP endpoint, and how far DHCP is (nothing, an address, a default route
in the main table). `leaked` records that the route that is there is one the kernel refused
to delete (`removeDefaultRoute` sets it only when its request was not carried out), or one that
an earlier life of the daemon left (nothing in the code removes those: `cleanup()` does not
touch default routes), so that properties can excuse it. `onWpaEvent` is one step: nothing else touches the object
while it runs, and the kernel's steps in between could not be told from steps before it.
A request named in `Faults` may fail; the code logs and goes on, and so does the model.
The kernel removes the route by itself only in `IfaceDown`, when the interface loses its
last address. Losing the carrier, or the supplicant, does not do that.
Not distinguished: the class's other interfaces, addresses, the table number.
Classes are independent in this module. `addEndpoints` is in the code a loop over the
endpoints of all classes, which only adds.

### WpaMonitor
`pc` is the thread's place in `start()`: `loop` (54), `attach` (59), `events` (172),
`poll` (173), `detach` (70), `close` (71), `recheck` (79), and the three moments of `wait_for()`:
`predicate`, `blocking`, `asleep` (84). They are kept apart because `stop()` does not take
`cvMutex_`, so its store and its notification (two steps) can fall between any two of
them. Spurious wake-ups are left out; `EndSleep` may end a sleep at any moment, which
covers them. wpa_supplicant runs or not, has a link or not, and sends its messages only
to an attached monitor whose socket has room (`MaxQueue`); `missed` records that the last
change of the link did not reach the monitor. A supplicant may end with an announcement
(`Terminate`) or without (`Crash`); the control socket is a datagram socket, on which the
end of the peer makes nothing readable. `orphaned` records that the monitor is connected
to a supplicant that crashed, which it never notices; `Reattaches` excuses it. `connected` says that the other end of the open
socket is the supplicant that runs: the socket stays bound to the one it was opened for, so a
request after that one has ended fails even if another has been started. An ATTACH may be
refused, or answered too late, and then leaves a registration whose socket is closed (`stale`).
A DETACH may be refused or not answered; `start()` does not look at its result, and what it may
have read past on the way to an answer is lost (`LoseQueue`). Closing the socket ends what
DETACH did not; the supplicant is not told.
`parseEvent` is modelled by what it does with the
parts of a message that matter: a missing or malformed level reads as 0 dBm, the
best signal there is, and only SIGNAL-CHANGE carries one, so CONNECTED always has 0.

### PathMonitor
`Dispatch` is `handleEvent` of the monitor together with `onWpaEvent` of the FSM.

### ConsumerApi
A *connection* is one `connect()` of a consumer; a *descriptor* is a number that
`fdTable` maps to the connection behind it, and that is given to another connection after
`close()`. The registry's entries have descriptors, as in the code; `conn` in an entry
stands for the process id the registration gave. The states of a class are numbered in the
order in which its FSM announces them: a property needs to know how old a state is, not
which it is. `epc` is the epoll thread's place, `batch` what `epoll_wait()` returned and is
not handled yet, `cur` the local variables of the handler, `bpc[k]` the place in
`broadcastPathEvent()` of class k's monitor thread, `mpc` main's in `stop()`.

The steps are cut where another thread can come in. `handleRegister` is four (entry under
the lock; cgroup; read of the state; read of the level and send), `removeClient` two
(close; erase under the lock), a broadcast four (state; interface and level; loop of sends
under the lock; cleanup under the lock). `handleUnregister` holds the lock throughout and
is one. Two cuts are not made. The sends of a broadcast are one step: between two
of them only the consumers' reads and hangups and unlocked steps of the epoll thread
could come, and these also come before or after it. Its cleanup is one step too.
`recvMsg` and `sendMsg` move one 96-byte message at once; a "short" request is what
`recvMsg` takes for the end of the connection. A descriptor that other parts of the
process open in between (a netlink socket, a cgroup file) is not modelled; reuse is among
consumers. The model begins when `start()` has succeeded (`Daemon` has its failures). An
Unregister may name any handle of `Handles`, whoever it was given to, and also one that is not
given out yet: the server matches any. `epoll_wait()` may fail (`EpollFail`), which ends the
epoll thread and nothing else.

### NotificationService
Classes publish numbered states, connections hold subscriptions. A state that is published
is delivered before the next one of the class is; delivery reaches every subscriber or ends
its subscription; handles are never used twice; a connection has one subscription.
`ConsumerApi` maps its registry to the subscriptions that are really in force: an entry whose
descriptor belongs to its own connection and is not on a broadcast's list for removal. An
entry made for a descriptor that a broadcast has just closed is no subscription. A state
counts as delivered when the registry has been walked.

### ConfigLoader and ConfigLoad
A JSON value is its kind and what the loader can get out of it: the text of a string, whether
`std::stoul` finds a number in it and which, an integer, a boolean. The widths are constants,
because the conversions matter: `get<int>()` keeps the low bits of a 64-bit integer,
`std::stoul` negates modulo the width of `long` (32 bits on a 32-bit ARM
system, 64 on others). The reference of `ConfigLoad` is written in numbers without widths.
It asks for thresholds that an `int` can hold, besides what the loader
tests, since the loader does not test it. The difference between the two is stated: a file the loader accepts and the reference does
not has a number that does not fit its field. So `"mark": "-0xffffffff"` (with a 32-bit
`long`) is a legal way to write 1, and `"routing_table": 4294967396` one to write 100.

### RoutingPolicy
A directory has a classid, and holds a process or not (`busy`). A chain exists or not, has
the jump from OUTPUT or not, and has a set of rules; libiptc commits a table as a whole, so
changing a chain is one step. An ip rule is a pair of mark and table. `existing` reads the
decimal digits the kernel shows as hexadecimal ones, as `ifs >> std::hex` does: 16 is read as
0x16 = 22, so a directory with classid 16 is taken for one with classid 22 and is not
written. `MarksOf` and `Dropped` say what the kernel does with a packet under these rules.
A default route is a pair of interface and table; a table has one, since `addDefaultRoute()`
replaces what it finds.

### Daemon
`pc` follows `main()`: one value per phase of the start-up (`mkdir`, `classid`, `marks`,
`rules`, `drops`, `endpoints`, `threads`, `api`), of the loop (`test`, `toPause`, `paused`,
`woken`), of the shutdown and of `cleanup()`; `i` is the class a loop is at. A signal
comes on top of any of them. Each call named in `Faults` may fail, `MaxFailures` times in
all; the code's reaction differs by phase, and so does the model's: no `cleanup()` after a
failing `createCgroupHierarchy()`, `cleanup()` but no flush of the endpoints after a
later failure, and `std::terminate()` when the API server does not start, because the monitor
threads are joinable. `Crash` may happen at any point of a life. Between two lives the
configuration file may change. `excused` is a ghost: the objects that are left by a life that
ended without `cleanup()`, by a failed call or because a process was in the directory; a new
life takes over those that its own configuration names. Default routes are a case of their own:
the callbacks add and remove them, the kernel removes those of an interface that goes down
(`IfaceDown`), and no shutdown does, so `Return` excuses all that are there (`NotCleaned`) and
they stay in their tables. The monitor threads are reduced to
whether they have entered `start()` (`spawned`, `running`, one value for all of them; see
`WpaMonitor` for what follows) and the callbacks `PathUp` and `PathDown` of each class; the API server to its socket and the processes
it puts into cgroups; the watchdog thread to whether it pings.
Assumed by the properties about traffic: the classes of a configuration have directories of
their own (`OneDirectoryEach`; the loader does not test it). A
failing write of the classid is noticed; in the code it may not be, as the stream is tested
before it is flushed.

### Gateway
An address is four octets. The kernel prints the field, which is in network order in memory,
as a number of the host; `Base` is the number of values of an octet.

## 3. Runs

| Run | Instance | Result |
|---|---|---|
| `path_monitor` | levels on both sides of both thresholds and a malformed one; 2 messages on the socket; 1 restart; every fault | `TypeOK`, `RouteOwned`, `LiveHasLink`, `DownTakesRoute` hold (1,240,000 states) |
| `wpa_monitor` | 2 messages, 2 restarts, refused or unanswered ATTACH and DETACH, failing poll and recv, crashes | `TypeOK`, `StopEndsStarted`, `Reattaches`, `SocketDrained` hold (23,000 states) |
| `api_safety` | 2 consumers, 2 descriptors, 1 class, 2 events, a buffer of 1 message; either consumer may register, or unregister the handle 1 before or after it is given out, to itself or to the other | `NoLostUpdate`, `EventsInOrder`, `RegisteredIsolated`, `UnregisteredIsGone`, `ImplementsService` hold (1,670,000 states) |
| `api_session` | 1 consumer, 2 classes, every kind of request, 2 requests, the handles 0, 1 and 2 at any time, failing `epoll_ctl` and `epoll_wait` | `TypeOK`, `RegistryKeyed`, `NoLostUpdate`, `UnregisteredIsGone`, `ImplementsService` hold (944,000 states) |
| `api_liveness` | 2 consumers, 1 descriptor, failing `epoll_ctl`, `epoll_wait` and cgroup writes | `StopEnds`, `RequestsServed` hold (365,000 states) |
| `config_load` | 10,400 files: none, garbage, wrong shapes, one or two entries each with at most one field changed | `AcceptedIsUsable`, `WellFormedIsLoaded`, `AcceptedIsWellFormed` hold (20,800 states) |
| `daemon` | 2 lives, 3 files, 2 failing calls of 8 kinds, paths that come and go, crashes and signals anywhere | `TypeOK`, `RunningIsConfigured`, `NothingForgotten`, `IsolationNeverGaps` hold (1,290,000 states) |

`RunningIsConfigured` is the strongest statement about set-up that holds, and names what does
not: an aliased classid (above); a rule of an earlier life that gives the same mark another
table; DROP rules of an earlier life that stay when the new configuration has no strict class.
`IsolationNeverGaps` is why directories are kept, classids are not rewritten and chains are
replaced in one commit.

`UnregisteredIsGone` is about acknowledgements of success. A refused one promises nothing: the
handle it names may be one that is given out later. `DownTakesRoute` excuses a route the kernel
refused to delete. `RequestsServed` ends where the epoll thread does: a failing `epoll_wait()`
leaves connections open and unserved, and only `stop()` is still sure to come through.

Five runs check what a comment or a document says and the code does not do. TLC
finds each violated; the counterexamples in words:

| Run | Property | What happens |
|---|---|---|
| `wpa_early_stop` | `StopEnds` | `stop()` comes before the new thread reaches line 50 of `start()`, which resets the flag; `join()` never returns |
| `path_up_route` | `UpGetsRoute` | CONNECTED before DHCP: PathUp without a gateway; DHCP finishes, no one adds the route |
| `api_fd_reuse` | `ClosedForCause` | a broadcast closes a full consumer's descriptor; `accept4()` gives the number to a new one; the old event in the batch closes it |
| `gateway_order` | `GatewayKept` | on a little-endian host the octets of the gateway arrive reversed (with `LittleEndian = FALSE` the property holds) |
| `lost_signal` | `SignalEndsLoop` | SIGTERM between the test of `gShutdown` and `pause()`: without a watchdog the daemon sleeps on |

Other behaviours of the code that the models have and no property denies: Terminating takes a
live path to Idle and leaves its route; no callback removes an MPTCP endpoint when a path goes
down; `cleanup()` leaves the default routes of paths that are up (`hpp:63` says "Remove all
kernel state created by this manager"), and finds the directories of consumers that are still
registered in use (`cpp:687` says that "by shutdown time they should be empty");
a supplicant that is killed is never noticed; a broadcast between `handleRegister`'s
read of the state and its answer makes the older state arrive last; a
broadcast that removes an entry between its creation and the write to the tasks file leaves the
process in the cgroup with no registration; two registrations of one
process share one cgroup membership.

Bounds. Each is a constant. Two messages on the control socket are enough to have one
behind another and to lose a third; one restart is enough to attach to a second
supplicant. Two connections and one descriptor are the smallest instance with reuse; two
descriptors let both be registered at once. One message of buffer makes a slow consumer
after one unread message. Two events are enough for order and for a second event
after a removal. In `config_load`, `uint32_t` has 4 bits and `long` 5, so that every value on
either side of every wrap-around is among the inputs; two entries are what `validateClasses`
compares. In `daemon`, two lives (`MaxStarts`) are what a crash and a restart take, and two
failures (`MaxFailures`) let a call of `cleanup()` fail after the one that led to it; the two
acceptable files have the same directories and differ in a classid that the old one aliases,
a table, a mark and the strictness, and the third is refused. In `gateway_order`, an octet
has 4 values. The theorems do not depend on any bound.
Descriptors are interchangeable in `api_safety` (symmetry), a run without liveness.
Deadlock is checked in every run; a stopped program stutters in `Done`, in
`path_monitor` the kernel never stops.

Fairness. `WpaMonitor` assumes that its thread is scheduled (`poll()` has a timeout of
500 ms, `wait_for()` one of at most 30 s) and main once it is in `stop()`, and that a
supplicant that keeps running does not refuse ATTACH for ever (strong fairness, because
the thread comes back to the attempt again and again). `PathMonitor` assumes the first.
`ConsumerApi` assumes that the epoll thread, a broadcast under way and main in `stop()`
are scheduled; the mutex is free again and again because its holder is. `Daemon` assumes that
`main()` and the monitor threads are scheduled and that systemd kills a daemon that has said
READY=1 and no longer pings (`WatchdogSec=30s` in the unit). Nothing is
assumed of the supplicant, DHCP, the kernel, the consumers, or the caller of `stop()`.

## 4. Theorems

`tlapm` proves every invariant, action property and refinement that the passing runs check,
for every value of the constants that satisfies the assumptions (`WiringAssumption`,
`MonitorAssumption`/`WpaAssumption`, `ApiAssumption`, `WidthAssumption`, `FilesAssumption`,
`DaemonAssumption`). These say that the constants have their types and, of the
widths, that `long` is no narrower than `int` and an `int` can hold the largest table number
(65534 in the code). Three theorems have a hypothesis of their own, named below, which the
instances of the runs satisfy and TLC evaluates.

The monitor and the path class:

* `WpaMonitorProofs!TypeCorrect`, with `WpaInv`: the types, the backoff in 1..30, and that the
  open socket is attached, or has messages on it, only from the attach to the close.
* `PathMonitorProofs!ComposesMonitor`: `Spec => Wpa!Spec`. The composition with the FSM is
  one of the monitor's behaviours, so that the theorems about the monitor hold of it.
* `PathMonitorProofs!RouteIsOwned`: `Spec => []RouteOwned`. `RouteOwned` is not inductive:
  from PathUp with an empty `activeIface_` a teardown would be skipped. The initial states
  include a route and an endpoint that an earlier life left.
  `FsmInv` adds the types and `UpHasIface` (a path that is up knows its interface).
* `PathMonitorProofs!DownTakesRouteAlways`: `Spec => DownTakesRoute`, from the same
  invariant: a degraded path need not have an interface, but then it has no route to
  lose.
* `PathMonitorProofs!TypeCorrect`, from `FsmInv` and `WpaInv`.
* `PathMonitorProofs!PathFollowsLink`: `Spec => []LiveHasLink`. The invariant `LinkInv`
  says what the *last* link message on the socket announces: when none was missed it is
  the present link, and with none on the socket the FSM's state already agrees. It has to
  be carried through `Append`, `Tail`, the loss of the queue at a detach and the
  termination of the supplicant.

The server:

* `ConsumerApiProofs!TypeCorrect`.
* `ConsumerApiProofs!RegistryIsKeyed`: with every handle in the registry below
  `nextHandle`; the `remove_if` of `handleRegister` is what makes it true for descriptors.
* `ConsumerApiProofs!EventsAreOrdered`: with `EventBound`, no event is ahead of the cached
  state, and those of a class whose broadcast has not been sent yet are behind it. The
  lemma `SentStep` says which steps append to a connection and what.
* `ConsumerApiProofs!NoUpdateIsLost`: `ConnInv` pairs descriptors with
  connections and the request in hand; `HandleInv` bounds handles, so an acknowledgement
  belongs to one registration; `UpdateInv` says of every entry on a live descriptor that
  its consumer is `Informed`, or something is `Coming`: a broadcast under way, or the
  handler that has not read the state or not answered yet.
* `ConsumerApiProofs!UnregistrationIsFinal`: with `GoneInv`, the handle of a successful
  acknowledgement is below `nextHandle`, because it was found in the registry. It holds
  whichever handles consumers name, their own, another's or one still to be given out.
* `ServiceProofs!ServerImplementsService`: `Spec => ImplementsService`, one lemma per step
  of a thread. `ServiceInv` adds three facts to those above. `LockInv`: a
  list of descriptors to close exists only in the thread that holds `registryMutex_`.
  `FdInv`: a connection has one descriptor. `CurInv`: while a request is in hand its
  descriptor may be closed, and is not given to another connection, because the thread that
  accepts is the one that handles the request. Without the last, an entry made for
  a descriptor that a broadcast has closed could pass for the subscription of somebody else.
* `ServiceProofs!RegisteredStayIsolated`: `Spec => []RegisteredIsolated`, if every process has
  one connection (`OneProcessEach`; the property is false of processes that share, see
  section 3) and tasks files can be written (`"cgroup" \notin Faults`; the code goes on
  with the registration when one cannot). `PlaceInv` keeps all entries of a connection under
  one descriptor, so whoever takes the process out of the cgroup removes the entry with it;
  `AssignInv` is about the gap between the lock and the write to the tasks file: the entry is
  the only one of its descriptor, or a broadcast has removed it.

The configuration, for every file whose arrays are sequences and whose numbers are integers,
and for every width; the result is that of the file (`LoadInv`):

* `ConfigLoadProofs!AcceptedAlwaysUsable`: an accepted file has no entry with
  an error (`NoFirstError`, from the first position at which there would be one); each check
  then bounds its field *after* the conversion (`HexFits`, `TableFits`, `ThresholdsOrdered`).
* `ConfigLoadProofs!WellFormedAlwaysLoaded` (`WellFormedIsLoaded`): a number that fits its field
  is its own remainder (`SmallModulo`, `IntKept`, `HexKept`), so no check sees another number
  than the one in the file (`EntryLoads`).
* `ConfigLoadProofs!AcceptedAlwaysWellFormed` (`AcceptedIsWellFormed`): the converse, field by
  field (`HexMeant`, `LoadedEntry`), for files without a number that overflows.

The daemon, for every set of files, any number of lives and failures, crashes anywhere:

* `DaemonProofs!TypeCorrect`. `LifeOK` adds what a life knows of its configuration (`Loaded`:
  `loadFromFile` accepted it, by the lemmas of `ConfigLoaderProofs`), that nothing of a life is
  left in `main()`'s variables when it is over, and where the monitor threads can run.
* `DaemonProofs!ForgetsNothing`: `Spec => []NothingForgotten`. The property says that an object
  belongs to the life that runs; it is not inductive, as `cleanup()` goes through the classes
  and what it has passed must be gone. `Known` says, for each phase, which positions are still
  ahead (`RulesAhead`, `DirectoriesAhead`), and that every object is one of those or excused.
  Default routes of a life that is over are among the excused ones, also after an orderly
  shutdown: the theorem says of them only that a running life knows those it has added.
* `DaemonProofs!RunsAsConfigured`: `Spec => []RunningIsConfigured`, under `OneDirectoryEach`.
  `SetInv` is what each phase of start-up has put in place so far: the classids of the classes
  before position `i`, the whole mark chain, the rules before `i`, the DROP rules.
  `OneMark` and `DropsAreForbidden` turn rules into what happens to a packet; they rest on the
  keys that `validateClasses()` compares. Without `OneDirectoryEach` the classid written for
  one class would be overwritten for the next.
* `DaemonProofs!RestartKeepsIsolation`: `Spec => IsolationNeverGaps`, under `OneDirectoryEach`,
  from the same invariants (`NoGap`).

Only model-checked: the liveness properties (`StopEndsStarted`, `Reattaches`, `SocketDrained`,
`StopEnds`, `RequestsServed`), since the prover does not do fairness and ENABLED.

## 5. Not modelled, and what is left

Not modelled for good: logging; the command line; the inside of the vendored `wpa_ctrl.c`
beyond what its open, request, attach, detach and close do to the connection, and the
constants of `wpa_ctrl.h`; how netlink and iptables messages are laid out in memory; the
clients and test programs (the environment of `ConsumerApi`, which may do all they do);
packaging, except for what the unit's watchdog does. A data race on the string
`activeIface` is represented only by the tear between the state and the fields that go with
it. An error of the buffered write of a classid, and two classes in one directory, are stated
as assumptions above.

No safety property of a run is without a theorem. What could be added: the conversion of
`Gateway` on a big-endian host; that `WpaMonitor` and `ConsumerApi`, run together with
`Daemon`, do what `Daemon` takes of them (threads that end or lose their `stop()`, a server that
leaves its socket file).
