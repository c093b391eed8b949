------------------------------- MODULE Daemon -------------------------------
(***************************************************************************)
(* The life of the daemon (main.cpp): start-up, the main loop, shutdown,   *)
(* every failure on the way, and what systemd and the kernel keep between  *)
(* two lives.  main() is followed call by call; the monitor threads and    *)
(* the API server, which have modules of their own, are reduced here to    *)
(* what main() and the kernel see of them.                                 *)
(***************************************************************************)
EXTENDS RoutingPolicy, FiniteSets

CONSTANTS
    Files,          \* contents the configuration file may have at a start
    Faults,         \* calls that may fail: see FaultKinds
    Notify,         \* built with libsystemd and run under the unit's watchdog
    MaxStarts,      \* bound: lives of the daemon
    MaxFailures     \* bound: calls that fail, in all of them

FaultKinds == {"cgroup", "mark", "rule", "drop", "endpoint", "api", "flush", "cleanup"}

ASSUME DaemonAssumption ==
    /\ \A f \in Files : IsFile(f)
    /\ Faults \subseteq FaultKinds /\ Notify \in BOOLEAN
    /\ MaxStarts \in Nat /\ MaxFailures \in Nat

\* What validateClasses() does not ask for: every class has a directory of its own.
DistinctDirectories(cfg) ==
    \A n, m \in DOMAIN cfg : n # m => cfg[n].cgroupPath # cfg[m].cgroupPath
OneDirectoryEach ==
    \A f \in Files : loadFromFile(f).error = NoError
                        => DistinctDirectories(loadFromFile(f).classes)

VARIABLES
    pc,             \* main(), or "off"
    i,              \* the class a loop of it is at
    classes,        \* pathClasses
    gShutdown, gReloadConfig,
    monitors,       \* the monitor threads: "none", "spawned", "running"
    socket,         \* the API socket: "none", "file" nobody listens on, "live"
    endpoints,      \* interfaces with an MPTCP endpoint
    status,         \* how this life will end: "success", "failure", "terminate"
    starts,         \* how many lives there were
    failures,       \* how many calls failed
    excused         \* objects that a crash or a failed call left behind

mainVars == <<pc, i, classes, gShutdown, gReloadConfig, monitors, status, starts>>
vars == <<policyVars, mainVars, socket, endpoints, failures, excused>>

StartupPcs == {"mkdir", "classid", "marks", "rules", "drops", "endpoints", "threads", "api"}
LoopPcs == {"test", "toPause", "paused", "woken"}
StopPcs == {"joinWatchdog", "stopMonitors", "joining", "stopApi", "flush"}
CleanupPcs == {"delRules", "delDrops", "delMarks", "delDirs", "return"}

cls == classes[i]
alive == pc # "off"

-----------------------------------------------------------------------------
(* Objects the daemon puts into the kernel and the file system.            *)

ChainObjects(m, s) ==
    (IF m.chain THEN {<<"chain", "NETSERVICE-MARK">>} ELSE {})
    \cup (IF s.chain THEN {<<"chain", "NETSERVICE-ISO">>} ELSE {})
SocketObject == <<"socket">>

Present ==
    {<<"cgroup", d>> : d \in DOMAIN cgroups} \cup {<<"rule", r>> : r \in ipRules}
    \cup {<<"route", r>> : r \in routes}
    \cup ChainObjects(markChain, isoChain)
    \cup {<<"endpoint", iface>> : iface \in endpoints}
    \cup (IF socket = "none" THEN {} ELSE {SocketObject})

\* What a life with these classes answers for.  removeEndpoints() flushes all
\* endpoints and removeDropRules() asks for no class, so both are always its own.
Objects(cfg) ==
    {<<"cgroup", c.cgroupPath>> : c \in ClassesOf(cfg)}
    \cup {<<"rule", <<c.mark, c.routingTable>>>> : c \in ClassesOf(cfg)}
    \cup {<<"route", defaultRoute(c)>> : c \in ClassesOf(cfg)}
    \cup ChainObjects(Chain({}), Chain({}))
    \cup {<<"endpoint", iface>> : iface \in allIfaces(cfg) \cup endpoints}
    \cup {SocketObject}

Excuse(objects) == excused' = (excused \cup objects) \cap Present'

-----------------------------------------------------------------------------
(* Control.                                                                *)

Go(to, n) ==
    /\ pc' = to /\ i' = n
    /\ UNCHANGED <<classes, gShutdown, gReloadConfig, monitors, status, starts>>

\* A call fails, or does not.
Fails(call) == call \in Faults /\ failures < MaxFailures /\ failures' = failures + 1
Succeeds == UNCHANGED failures

\* With a bug: one round too many.
LoopPast(again, then) == IF i <= Len(classes) THEN Go(again, i + 1) ELSE Go(then, 1)

\* The next class of a loop that goes up, or what follows the loop.
Loop(again, then) == IF i < Len(classes) THEN Go(again, i + 1) ELSE Go(then, 1)

\* The process ends and its descriptors are closed.
Gone ==
    /\ pc' = "off" /\ i' = 1 /\ classes' = <<>>
    /\ gShutdown' = FALSE /\ gReloadConfig' = FALSE
    /\ monitors' = "none"
    /\ status' = "success"
    /\ UNCHANGED starts
    /\ socket' = IF socket = "live" THEN "file" ELSE socket

\* It ends without cleanup(): whatever there is is left behind.
Abandon ==
    /\ Gone
    /\ UNCHANGED <<policyVars, endpoints>>
    /\ excused' = Present'

\* An error of a later phase: main() calls cleanup() and returns.
Fail(how) ==
    /\ pc' = "delRules" /\ i' = 1
    /\ status' = how
    /\ UNCHANGED <<classes, gShutdown, gReloadConfig, monitors, starts>>

-----------------------------------------------------------------------------
(* Start-up.                                                               *)

\* systemd starts the daemon, after an edit of the file perhaps.
Exec(file) ==
    LET result == loadFromFile(file) IN
    /\ pc = "off"
    /\ starts < MaxStarts
    /\ starts' = starts + 1
    /\ IF result.error = NoError
       THEN /\ pc' = "mkdir" /\ classes' = result.classes
            /\ excused' = excused \ Objects(result.classes)
       ELSE UNCHANGED <<pc, classes, excused>>
    /\ UNCHANGED <<policyVars, i, gShutdown, gReloadConfig, monitors, status,
                   socket, endpoints, failures>>

\* createCgroupHierarchy(); its failure is not followed by cleanup().
SetupDirectory ==
    /\ pc = "mkdir"
    /\ \/ /\ Succeeds
          /\ createDirectory(cls)
          /\ Go("classid", i)
          /\ UNCHANGED <<busy, markChain, isoChain, ipRules, routes, socket, endpoints, excused>>
       \/ Fails("cgroup") /\ Abandon

SetupClassid ==
    /\ pc = "classid"
    /\ \/ /\ Succeeds
          /\ writeClassid(cls)
          /\ Loop("mkdir", "marks")
          /\ UNCHANGED <<busy, markChain, isoChain, ipRules, routes, socket, endpoints, excused>>
       \/ Fails("cgroup") /\ Abandon

SetupMarks ==
    /\ pc = "marks"
    /\ \/ Succeeds /\ addIptablesMarkRules(classes) /\ Go("rules", 1)
       \/ Fails("mark") /\ Fail("failure") /\ UNCHANGED markChain
    /\ UNCHANGED <<cgroups, busy, isoChain, ipRules, routes, socket, endpoints, excused>>

SetupRules ==
    /\ pc = "rules"
    /\ \/ Succeeds /\ addIpRule(cls) /\ Loop("rules", "drops")
       \/ Fails("rule") /\ Fail("failure") /\ UNCHANGED ipRules
    /\ UNCHANGED <<cgroups, busy, markChain, isoChain, routes, socket, endpoints, excused>>

SetupDrops ==
    /\ pc = "drops"
    /\ \/ Succeeds /\ addDropRules(classes) /\ Go("endpoints", 1)
       \/ anyIsolation(classes) /\ Fails("drop") /\ Fail("failure") /\ UNCHANGED isoChain
    /\ UNCHANGED <<cgroups, busy, markChain, ipRules, routes, socket, endpoints, excused>>

\* addEndpoints(): interfaces without an address are passed over, the first
\* error ends it.
mptcpIfaces == UNION {InterfacesOf(c) : c \in {d \in ClassesOf(classes) : d.mptcpEnabled}}
addEndpoints == \E added \in SUBSET mptcpIfaces : endpoints' = endpoints \cup added

SetupEndpoints ==
    /\ pc = "endpoints"
    /\ addEndpoints
    /\ (Succeeds /\ Go("threads", 1)) \/ (Fails("endpoint") /\ Fail("failure"))
    /\ UNCHANGED <<policyVars, socket, excused>>

StartMonitors ==
    /\ pc = "threads"
    /\ pc' = "api"
    /\ monitors' = "spawned"
    /\ UNCHANGED <<policyVars, i, classes, gShutdown, gReloadConfig, status, starts,
                   socket, endpoints, excused, failures>>

\* ConsumerApiServer::start(): a stale socket file is unlinked first, and an error
\* after bind() leaves a new one.  The monitor threads are not joined before main()
\* returns, which ends the process with std::terminate().
StartApi ==
    /\ pc = "api"
    /\ \/ Succeeds /\ socket' = "live" /\ Go("test", 1)
       \/ Fails("api") /\ socket' \in {"none", "file"} /\ Fail("terminate")
    /\ UNCHANGED <<policyVars, endpoints, excused>>

-----------------------------------------------------------------------------
(* The main loop and the signals.                                          *)

LoopTest ==
    /\ pc = "test"
    /\ Go(IF gShutdown THEN "joinWatchdog" ELSE "toPause", 1)
    /\ UNCHANGED <<policyVars, socket, endpoints, excused, failures>>

EnterPause ==
    /\ pc = "toPause"
    /\ Go("paused", 1)
    /\ UNCHANGED <<policyVars, socket, endpoints, excused, failures>>

\* The reload reads the file and logs; nothing is applied.
Woken ==
    /\ pc = "woken"
    /\ pc' = "test"
    /\ gReloadConfig' = FALSE
    /\ UNCHANGED <<policyVars, i, classes, gShutdown, monitors, status, starts,
                   socket, endpoints, excused, failures>>

\* handleSignal(), on top of whatever main() is doing; pause() returns after it.
Signal(sig) ==
    /\ alive
    /\ gReloadConfig' = (gReloadConfig \/ sig = "HUP")
    /\ gShutdown' = (gShutdown \/ sig = "TERM")
    /\ pc' = IF pc = "paused" THEN "woken" ELSE pc
    /\ UNCHANGED <<policyVars, i, classes, monitors, status, starts,
                   socket, endpoints, excused, failures>>

-----------------------------------------------------------------------------
(* Shutdown.                                                               *)

\* The watchdog thread sees gShutdown within 100 ms.
JoinWatchdog ==
    /\ pc = "joinWatchdog"
    /\ gShutdown
    /\ Go("stopMonitors", 1)
    /\ UNCHANGED <<policyVars, socket, endpoints, excused, failures>>

\* stop() and join(): a thread that has not entered start() yet loses the stop
\* (see WpaMonitor), and join() does not return.
StopMonitors ==
    /\ pc = "stopMonitors"
    /\ pc' = IF monitors = "running" THEN "stopApi" ELSE "joining"
    /\ monitors' = IF monitors = "running" THEN "none" ELSE monitors
    /\ UNCHANGED <<policyVars, i, classes, gShutdown, gReloadConfig, status, starts,
                   socket, endpoints, excused, failures>>

\* ConsumerApiServer::stop() does not take registered processes out of their cgroups.
StopApi ==
    /\ pc = "stopApi"
    /\ socket' = "none"
    /\ Go("flush", 1)
    /\ UNCHANGED <<policyVars, endpoints, failures>>
    /\ Excuse({})

\* removeEndpoints().
RemoveEndpoints ==
    /\ pc = "flush"
    /\ (Succeeds /\ endpoints' = {}) \/ (Fails("flush") /\ UNCHANGED endpoints)
    /\ Go("delRules", 1)
    /\ UNCHANGED <<policyVars, socket>>
    /\ Excuse({<<"endpoint", iface>> : iface \in endpoints'})

\* cleanup(), which goes on whatever fails.
CleanRules ==
    /\ pc = "delRules"
    /\ UNCHANGED <<cgroups, busy, markChain, isoChain, routes, socket, endpoints>>
    /\ Loop("delRules", "delDrops")
    /\ \/ Succeeds /\ removeIpRule(cls) /\ Excuse({})
       \/ /\ Fails("cleanup")
          /\ UNCHANGED ipRules
          /\ Excuse({<<"rule", <<cls.mark, cls.routingTable>>>>})

CleanDrops ==
    /\ pc = "delDrops"
    /\ \/ Succeeds /\ isoChain' = NoChain
       \/ Fails("cleanup") /\ isoChain.chain /\ isoChain' \in PartlyRemoved(isoChain)
    /\ Go("delMarks", 1)
    /\ UNCHANGED <<cgroups, busy, markChain, ipRules, routes, socket, endpoints>>
    /\ Excuse(ChainObjects(NoChain, isoChain'))

CleanMarks ==
    /\ pc = "delMarks"
    /\ \/ Succeeds /\ markChain' = NoChain
       \/ Fails("cleanup") /\ markChain.chain /\ markChain' \in PartlyRemoved(markChain)
    /\ Go("delDirs", Len(classes))
    /\ UNCHANGED <<cgroups, busy, isoChain, ipRules, routes, socket, endpoints>>
    /\ Excuse(ChainObjects(markChain', NoChain))

\* With a bug: the first failure ends the loop.
CleanDirectoriesUntilBusy ==
    /\ pc = "delDirs"
    /\ removeDirectory(cls)
    /\ IF i > 1 /\ CanRemove(cls) THEN Go("delDirs", i - 1) ELSE Go("return", 1)
    /\ UNCHANGED <<busy, markChain, isoChain, ipRules, routes, socket, endpoints, failures>>
    /\ Excuse(IF CanRemove(cls) THEN {} ELSE {<<"cgroup", cls.cgroupPath>>})

CleanDirectories ==
    /\ pc = "delDirs"
    /\ IF i > 1 THEN Go("delDirs", i - 1) ELSE Go("return", 1)
    /\ UNCHANGED <<busy, markChain, isoChain, ipRules, routes, socket, endpoints>>
    /\ \/ /\ Succeeds
          /\ removeDirectory(cls)
          /\ Excuse(IF CanRemove(cls) THEN {} ELSE {<<"cgroup", cls.cgroupPath>>})
       \/ /\ Fails("cleanup")
          /\ UNCHANGED cgroups
          /\ Excuse({<<"cgroup", cls.cgroupPath>>})

\* Only a shutdown has flushed the endpoints and unlinked the socket.  Nobody has
\* asked for the default routes.
NotCleaned ==
    {<<"route", r>> : r \in routes}
    \cup (IF status = "success" THEN {}
          ELSE {<<"endpoint", iface>> : iface \in endpoints} \cup {SocketObject})

Return ==
    /\ pc = "return"
    /\ Gone
    /\ UNCHANGED <<policyVars, endpoints, failures>>
    /\ Excuse(NotCleaned)

Startup ==
    \/ SetupDirectory \/ SetupClassid \/ SetupMarks \/ SetupRules \/ SetupDrops
    \/ SetupEndpoints \/ StartMonitors \/ StartApi
Shutdown ==
    \/ JoinWatchdog \/ StopMonitors \/ StopApi \/ RemoveEndpoints
    \/ CleanRules \/ CleanDrops \/ CleanMarks \/ CleanDirectories \/ Return
Main == Startup \/ LoopTest \/ EnterPause \/ Woken \/ Shutdown

-----------------------------------------------------------------------------
(* The other threads, the consumers and systemd.                           *)

MonitorEnters ==
    /\ monitors = "spawned"
    /\ monitors' = "running"
    /\ UNCHANGED <<policyVars, pc, i, classes, gShutdown, gReloadConfig, status, starts,
                   socket, endpoints, excused, failures>>

\* onPathUp of a class, on a monitor thread: no route is added when there is no
\* gateway, or the kernel refuses.
PathUp(c) ==
    /\ monitors = "running"
    /\ addDefaultRoute(c) \/ UNCHANGED routes
    /\ IF c.mptcpEnabled THEN addEndpoints ELSE UNCHANGED endpoints
    /\ UNCHANGED <<cgroups, busy, markChain, isoChain, ipRules, mainVars, socket, failures>>
    /\ Excuse({})

\* onPathDown of a class; a kernel that refuses leaves everything as it is.
PathDown(c) ==
    /\ monitors = "running"
    /\ removeDefaultRoute(c)
    /\ UNCHANGED <<cgroups, busy, markChain, isoChain, ipRules, mainVars, socket, endpoints, failures>>
    /\ Excuse({})

\* An interface that goes down takes its routes with it.
IfaceDown(iface) ==
    /\ routes' = {r \in routes : r[1] # iface}
    /\ UNCHANGED <<cgroups, busy, markChain, isoChain, ipRules, mainVars, socket, endpoints, failures>>
    /\ Excuse({})

\* A consumer registers and is put into the cgroup of its class.
Register(c) ==
    /\ socket = "live"
    /\ c.cgroupPath \in DOMAIN cgroups
    /\ busy' = busy \cup {c.cgroupPath}
    /\ UNCHANGED <<cgroups, markChain, isoChain, ipRules, routes, mainVars, socket, endpoints, excused, failures>>

\* The last process of a directory is unregistered or ends.
Leave(d) ==
    /\ busy' = busy \ {d}
    /\ UNCHANGED <<cgroups, markChain, isoChain, ipRules, routes, mainVars, socket, endpoints, excused, failures>>

Crash == alive /\ Abandon /\ Succeeds

\* With a bug: the thread pings for as long as the process lives.
pingsAlways == TRUE

\* The watchdog thread pings until it sees gShutdown.
pings == ~gShutdown

\* systemd kills a daemon that has said READY=1 and does not ping.
Ready == pc \notin StartupPcs \cup {"off"} /\ status = "success"
WatchdogKill == alive /\ Notify /\ Ready /\ ~pings /\ Abandon /\ Succeeds

Done == pc = "off" /\ starts = MaxStarts /\ UNCHANGED vars

-----------------------------------------------------------------------------
Init ==
    /\ PolicyInit
    /\ pc = "off" /\ i = 1 /\ classes = <<>>
    /\ gShutdown = FALSE /\ gReloadConfig = FALSE
    /\ monitors = "none" /\ socket = "none" /\ endpoints = {}
    /\ status = "success" /\ starts = 0 /\ failures = 0
    /\ excused = {}

Next ==
    \/ \E file \in Files : Exec(file)
    \/ Main
    \/ \E sig \in {"TERM", "HUP"} : Signal(sig)
    \/ MonitorEnters
    \/ \E c \in ClassesOf(classes) : PathUp(c) \/ PathDown(c) \/ Register(c)
    \/ \E iface \in {r[1] : r \in routes} : IfaceDown(iface)
    \/ \E d \in busy : Leave(d)
    \/ Crash \/ WatchdogKill \/ Done

Spec == Init /\ [][Next]_vars

(***************************************************************************)
(* Fairness: main() and the monitor threads are scheduled, and systemd's   *)
(* watchdog does its work.  Signals, path events, consumers and starts     *)
(* need not happen.                                                        *)
(***************************************************************************)
FairSpec == Spec /\ WF_vars(Main) /\ WF_vars(MonitorEnters) /\ WF_vars(WatchdogKill)

-----------------------------------------------------------------------------
ChainOK(ch) ==
    /\ ch.chain \in BOOLEAN /\ ch.jump \in BOOLEAN
    /\ ch.chain \/ (~ch.jump /\ ch.rules = {})

TypeOK ==
    /\ \A d \in DOMAIN cgroups : cgroups[d] \in 0 .. UintMax
    /\ busy \subseteq DOMAIN cgroups
    /\ ChainOK(markChain) /\ ChainOK(isoChain)
    /\ pc \in StartupPcs \cup LoopPcs \cup StopPcs \cup CleanupPcs \cup {"off"}
    /\ alive => i \in DOMAIN classes
    /\ gShutdown \in BOOLEAN /\ gReloadConfig \in BOOLEAN
    /\ monitors \in {"none", "spawned", "running"}
    /\ socket \in {"none", "file", "live"}
    /\ status \in {"success", "failure", "terminate"}
    /\ starts \in 0 .. MaxStarts /\ failures \in 0 .. MaxFailures
    /\ excused \subseteq Present

\* Strict isolation: where the traffic of class c must not go.
Forbidden(c, iface) ==
    \/ c.strictIsolation /\ iface \notin InterfacesOf(c)
    \/ \E d \in ClassesOf(classes) : d # c /\ d.strictIsolation /\ iface \in InterfacesOf(d)

\* The classid of the directory of c is another one whose decimal digits, read as
\* hexadecimal ones, give the classid of c.
Aliased(c) ==
    cgroups[c.cgroupPath] # c.classid /\ existing(c.cgroupPath) = c.classid

(***************************************************************************)
(* When start-up is over, and until cleanup() begins, the kernel does what *)
(* the configuration says, whatever crashes, failures and changes of the   *)
(* file came before: traffic of a class gets its mark, the mark leads to   *)
(* its table - unless a rule that an earlier life left says otherwise -,   *)
(* what strict isolation forbids is dropped, and, when there is a strict   *)
(* class, nothing else.  setupOneClass() misses a directory whose classid  *)
(* is Aliased, and addDropRules() leaves the rules of an earlier life when *)
(* no class is strict.                                                     *)
(***************************************************************************)
RunningIsConfigured ==
    pc \in {"threads", "api"} \cup LoopPcs \cup StopPcs =>
        \A c \in ClassesOf(classes) :
            /\ <<c.mark, c.routingTable>> \in ipRules
            /\ \A r \in ipRules :
                  r = <<c.mark, c.routingTable>> \/ r[1] # c.mark \/ <<"rule", r>> \in excused
            /\ \/ Aliased(c)
               \/ /\ MarksOf(c.cgroupPath) = {c.mark}
                  /\ \A iface \in allIfaces(classes) :
                        /\ Forbidden(c, iface) => Dropped(c.cgroupPath, iface)
                        /\ anyIsolation(classes) /\ Dropped(c.cgroupPath, iface)
                            => Forbidden(c, iface)

(***************************************************************************)
(* Every object in the kernel or the file system belongs to the daemon     *)
(* that runs, or was left behind by a life that ended without cleanup(),   *)
(* by a call that failed, or because a process was in the directory; or it *)
(* is a default route of a life that is over: cleanup() does not touch it, *)
(* whatever routing_policy_manager.hpp:63 says ("all kernel state").       *)
(* Of all else cleanup() and the shutdown forget nothing, after a start-up *)
(* that failed at any point too, and a restart takes over what it finds.   *)
(***************************************************************************)
NothingForgotten ==
    Present \subseteq excused \cup (IF alive THEN Objects(classes) ELSE {})

(***************************************************************************)
(* routing_policy_manager.hpp:43: chains "allow atomic flush+recreate on   *)
(* daemon restart".  A restart never lifts an isolation that is in force:  *)
(* traffic of a directory with the right classid and mark that is dropped  *)
(* as the configuration asks stays dropped until cleanup().                *)
(***************************************************************************)
IsolationNeverGaps ==
    [][\A c \in ClassesOf(classes) : \A iface \in allIfaces(classes) :
          (/\ pc \notin CleanupPcs
           /\ Forbidden(c, iface)
           /\ c.cgroupPath \in DOMAIN cgroups /\ cgroups[c.cgroupPath] = c.classid
           /\ MarksOf(c.cgroupPath) = {c.mark}
           /\ Dropped(c.cgroupPath, iface))
          => Dropped(c.cgroupPath, iface)']_vars

-----------------------------------------------------------------------------
(* What a comment says and the code does not do.                           *)

\* main.cpp:251: "pause() blocks until any signal is delivered.
\* SIGTERM/SIGINT/SIGHUP all interrupt it": a daemon that has got SIGTERM leaves
\* its main loop.
SignalEndsLoop == (pc \in LoopPcs /\ gShutdown) ~> pc \notin LoopPcs

=============================================================================
