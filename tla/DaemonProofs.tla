---------------------------- MODULE DaemonProofs ----------------------------
(***************************************************************************)
(* For every set of configuration files, every number of lives and every   *)
(* set of calls that fail: the daemon forgets nothing it has put into the  *)
(* kernel, a restart never opens a gap in the isolation, and once start-up *)
(* is over the kernel does what the configuration says.                    *)
(***************************************************************************)
EXTENDS Daemon, ConfigLoaderProofs

\* What the configuration of a life is: loadFromFile() accepted it.
Loaded(cfg) ==
    /\ IsSequence(cfg) /\ cfg # <<>>
    /\ validClasses(cfg)
    /\ \A n \in DOMAIN cfg : cfg[n].classid \in 1 .. UintMax

\* Nothing of a life is left in the variables of main() when it is over.
LifeInv ==
    /\ alive => Loaded(classes)
    /\ ~alive => classes = <<>> /\ i = 1 /\ monitors = "none" /\ status = "success"

\* The monitor threads run only between their start and their join(), unless
\* start() of the API server has failed.
EndInv ==
    /\ pc \in StartupPcs \ {"api"} => monitors = "none"
    /\ pc \notin CleanupPcs => status = "success"
    /\ pc \in {"stopApi", "flush"} \cup CleanupPcs /\ status # "terminate" => monitors = "none"

\* TypeOK, without what relates two variables.
VarsOK ==
    /\ \A d \in DOMAIN cgroups : cgroups[d] \in 0 .. UintMax
    /\ busy \subseteq DOMAIN cgroups
    /\ ChainOK(markChain) /\ ChainOK(isoChain)
    /\ pc \in StartupPcs \cup LoopPcs \cup StopPcs \cup CleanupPcs \cup {"off"}
    /\ alive => i \in DOMAIN classes
    /\ gShutdown \in BOOLEAN /\ gReloadConfig \in BOOLEAN
    /\ monitors \in {"none", "spawned", "running"}
    /\ socket \in {"none", "file", "live"}
    /\ status \in {"success", "failure", "terminate"}
    /\ starts \in 0 .. MaxStarts /\ failures \in 0 .. MaxFailures

LifeOK == VarsOK /\ LifeInv /\ EndInv

-----------------------------------------------------------------------------
(* Configurations.                                                         *)

\* The positions of a configuration.
LEMMA Positions ==
    ASSUME NEW cfg, Loaded(cfg)
    PROVE  /\ Len(cfg) \in Nat \ {0} /\ DOMAIN cfg = 1 .. Len(cfg)
           /\ 1 \in DOMAIN cfg /\ Len(cfg) \in DOMAIN cfg
<1>1. Len(cfg) \in Nat /\ DOMAIN cfg = 1 .. Len(cfg)
  BY DEF Loaded, IsSequence
<1>2. Len(cfg) # 0
  BY DEF Loaded, IsSequence
<1> QED BY <1>1, <1>2

\* A conversion of its elements makes a sequence of a sequence.
LEMMA MapSequence ==
    ASSUME NEW s, IsSequence(s), NEW t, DOMAIN t = DOMAIN s, t = [n \in DOMAIN t |-> t[n]]
    PROVE  IsSequence(t)
<1>1. Len(s) \in Nat /\ DOMAIN t = 1 .. Len(s)
  BY DEF IsSequence
<1>2. PICK S : S = {t[n] : n \in DOMAIN t}
  OBVIOUS
<1>3. t \in [1 .. Len(s) -> S]
  BY <1>1, <1>2
<1>4. t \in Seq(S)
  BY <1>1, <1>3
<1> QED BY <1>2, <1>4 DEF IsSequence

\* What an accepted file gives a life of the daemon.
LEMMA AcceptedIsLoaded ==
    ASSUME NEW f \in Files, loadFromFile(f).error = NoError
    PROVE  Loaded(loadFromFile(f).classes)
<1> DEFINE entries == f.classes.items
           cfg == loadFromFile(f).classes
<1>1. IsFile(f)
  BY DaemonAssumption
<1>2. cfg # <<>> /\ validClasses(cfg) /\ \A n \in DOMAIN cfg : Usable(cfg[n])
  BY <1>1, LoadedIsUsable
<1>3. f.classes.kind = "array" /\ cfg = [n \in DOMAIN entries |-> parsePathClass(entries[n])]
  BY <1>1, AcceptedFile
<1>4. IsSequence(entries) /\ DOMAIN cfg = DOMAIN entries /\ cfg = [n \in DOMAIN cfg |-> cfg[n]]
  BY <1>1, <1>3 DEF IsFile
<1>5. IsSequence(cfg)
  <2> HIDE DEF entries, cfg
  <2> QED BY <1>4, MapSequence
<1> QED BY <1>2, <1>5 DEF Loaded, Usable

-----------------------------------------------------------------------------
(* The types of the variables.                                             *)

\* What the operations make of a chain is one.
LEMMA ChainsOK ==
    /\ ChainOK(NoChain)
    /\ \A rules : ChainOK(Chain(rules))
    /\ \A ch : ChainOK(ch) /\ ch.chain => \A left \in PartlyRemoved(ch) : ChainOK(left)
<1>1. ChainOK(NoChain)
  BY Zenon DEF ChainOK, NoChain
<1>2. ASSUME NEW rules PROVE ChainOK(Chain(rules))
  BY Zenon DEF ChainOK, Chain
<1>3. ASSUME NEW ch, ChainOK(ch), NEW left \in PartlyRemoved(ch) PROVE ChainOK(left)
  <2>1. CASE left = ch
    BY <1>3, <2>1
  <2>2. CASE left # ch
    <3>1. PICK j \in {FALSE, ch.jump}, r \in {{}, ch.rules} :
              left = [chain |-> TRUE, jump |-> j, rules |-> r]
      BY <1>3, <2>2, SMT DEF PartlyRemoved
    <3>2. j \in BOOLEAN
      BY <1>3, <3>1, Zenon DEF ChainOK
    <3> QED BY <3>1, <3>2, Zenon DEF ChainOK
  <2> QED BY <2>1, <2>2
<1> QED BY <1>1, <1>2, <1>3

\* Before the first life nothing is there and nothing runs.
LEMMA LifeInit == Init => LifeOK
<1> SUFFICES ASSUME Init PROVE LifeOK
  OBVIOUS
<1>1. ChainOK(markChain) /\ ChainOK(isoChain)
  BY ChainsOK DEF Init, PolicyInit
<1>2. gShutdown \in BOOLEAN /\ gReloadConfig \in BOOLEAN
  BY Zenon DEF Init
<1>3. starts \in 0 .. MaxStarts /\ failures \in 0 .. MaxFailures
  BY DaemonAssumption DEF Init
<1> QED
  BY <1>1, <1>2, <1>3
  DEF Init, PolicyInit, LifeOK, VarsOK, LifeInv, EndInv, alive,
      StartupPcs, CleanupPcs, LoopPcs, StopPcs

\* Every step of main(), of systemd and of the outside world keeps the types, and a
\* loop of main() ends at the last class.
LEMMA LifeStep == LifeOK /\ [Next]_vars => LifeOK'
<1> SUFFICES ASSUME LifeOK, [Next]_vars PROVE LifeOK'
  OBVIOUS
<1> DEFINE Pcs == StartupPcs \cup LoopPcs \cup StopPcs \cup CleanupPcs
<1> USE DaemonAssumption, WidthAssumption
    DEF LifeOK, VarsOK, LifeInv, EndInv, alive, mainVars, policyVars,
        StartupPcs, CleanupPcs, LoopPcs, StopPcs
<1>1. alive => /\ Len(classes) \in Nat \ {0} /\ DOMAIN classes = 1 .. Len(classes)
               /\ 1 \in DOMAIN classes /\ Len(classes) \in DOMAIN classes
  BY Positions
<1>2. ASSUME NEW file \in Files, Exec(file) PROVE LifeOK'
  <2>1. CASE loadFromFile(file).error = NoError
    <3>1. Loaded(loadFromFile(file).classes)
      BY <2>1, AcceptedIsLoaded
    <3>2. 1 \in DOMAIN (classes')
      BY <1>2, <2>1, <3>1, Positions DEF Exec
    <3> QED BY <1>2, <2>1, <3>1, <3>2 DEF Exec
  <2>2. CASE loadFromFile(file).error # NoError
    BY <1>2, <2>2 DEF Exec
  <2> QED BY <2>1, <2>2
<1>3. ASSUME alive, Abandon, failures' \in 0 .. MaxFailures PROVE LifeOK'
  BY <1>3 DEF Abandon, Gone
<1>4. ASSUME NEW call, Fails(call) PROVE failures' \in 0 .. MaxFailures
  BY <1>4 DEF Fails
<1>5. CASE SetupDirectory
  <2>1. CASE Abandon
    BY <1>3, <1>4, <1>5, <2>1 DEF SetupDirectory, Succeeds
  <2>2. CASE ~Abandon
    BY <1>5, <2>2, <1>1 DEF SetupDirectory, createDirectory, Go, Succeeds, UintMax
  <2> QED BY <2>1, <2>2
<1>6. CASE SetupClassid
  <2>1. CASE Abandon
    BY <1>3, <1>4, <1>6, <2>1 DEF SetupClassid, Succeeds
  <2>2. CASE ~Abandon
    <3>1. cls.classid \in 0 .. UintMax
      BY <1>6, <1>1 DEF SetupClassid, Loaded, cls, UintMax
    <3>2. writeClassid(cls) /\ Loop("mkdir", "marks") /\ Succeeds
          /\ UNCHANGED <<busy, markChain, isoChain, ipRules, routes, socket, endpoints, excused>>
      BY <1>6, <2>2 DEF SetupClassid
    <3>3. DOMAIN (cgroups') = DOMAIN cgroups /\ \A d \in DOMAIN cgroups : cgroups'[d] \in 0 .. UintMax
      BY <3>1, <3>2 DEF writeClassid
    <3> QED BY <1>6, <1>1, <3>2, <3>3 DEF SetupClassid, Loop, Go, Succeeds
  <2> QED BY <2>1, <2>2
<1>7. CASE SetupMarks
  BY <1>7, <1>1, <1>4, ChainsOK DEF SetupMarks, addIptablesMarkRules, Go, Fail, Succeeds
<1>8. CASE SetupRules
  BY <1>8, <1>1, <1>4 DEF SetupRules, addIpRule, Loop, Go, Fail, Succeeds
<1>9. CASE SetupDrops
  BY <1>9, <1>1, <1>4, ChainsOK DEF SetupDrops, addDropRules, Go, Fail, Succeeds
<1>10. CASE SetupEndpoints
  BY <1>10, <1>1, <1>4 DEF SetupEndpoints, Go, Fail, Succeeds
<1>11. CASE StartMonitors \/ StartApi
  BY <1>11, <1>1, <1>4 DEF StartMonitors, StartApi, Go, Fail, Succeeds
<1>12. CASE LoopTest \/ EnterPause \/ Woken
  BY <1>12, <1>1 DEF LoopTest, EnterPause, Woken, Go
<1>13. ASSUME NEW sig \in {"TERM", "HUP"}, Signal(sig) PROVE LifeOK'
  BY <1>13, <1>1 DEF Signal
<1>14. CASE JoinWatchdog \/ StopMonitors \/ StopApi
  BY <1>14, <1>1 DEF JoinWatchdog, StopMonitors, StopApi, Go
<1>15. CASE RemoveEndpoints
  BY <1>15, <1>1, <1>4 DEF RemoveEndpoints, Go, Succeeds
<1>16. CASE CleanRules
  BY <1>16, <1>1, <1>4 DEF CleanRules, Loop, Go, Succeeds
<1>18. CASE CleanDrops
  BY <1>18, <1>1, <1>4, ChainsOK DEF CleanDrops, Go, Succeeds
<1>19. CASE CleanMarks
  BY <1>19, <1>1, <1>4, ChainsOK DEF CleanMarks, Go, Succeeds
<1>20. CASE CleanDirectories
  <2>1. i' \in DOMAIN classes /\ pc' \in {"delDirs", "return"}
    BY <1>20, <1>1 DEF CleanDirectories, Go
  <2>2. /\ DOMAIN (cgroups') \subseteq DOMAIN cgroups /\ busy \subseteq DOMAIN (cgroups')
        /\ \A d \in DOMAIN (cgroups') : cgroups'[d] \in 0 .. UintMax
    BY <1>20 DEF CleanDirectories, removeDirectory, CanRemove
  <2>3. UNCHANGED <<classes, gShutdown, gReloadConfig, monitors, status, starts>>
    BY <1>20 DEF CleanDirectories, Go
  <2>4. failures' \in 0 .. MaxFailures
    BY <1>20, <1>4 DEF CleanDirectories, Succeeds
  <2> QED BY <1>20, <2>1, <2>2, <2>3, <2>4 DEF CleanDirectories
<1>21. CASE Return
  BY <1>21 DEF Return, Gone
<1>22. CASE MonitorEnters
  BY <1>22, <1>1 DEF MonitorEnters
<1>23. ASSUME NEW c \in ClassesOf(classes), PathUp(c) \/ PathDown(c) \/ Register(c) PROVE LifeOK'
  BY <1>23 DEF PathUp, PathDown, Register
<1>27. ASSUME NEW iface, IfaceDown(iface) PROVE LifeOK'
  BY <1>27 DEF IfaceDown
<1>24. ASSUME NEW d \in busy, Leave(d) PROVE LifeOK'
  BY <1>24 DEF Leave
<1>25. CASE Crash \/ WatchdogKill
  BY <1>25, <1>3 DEF Crash, WatchdogKill, Succeeds
<1>26. CASE Done \/ UNCHANGED vars
  BY <1>26 DEF Done, vars
<1> QED
  BY <1>2, <1>5, <1>6, <1>7, <1>8, <1>9, <1>10, <1>11, <1>12, <1>13, <1>14, <1>15, <1>16,
     <1>18, <1>19, <1>20, <1>21, <1>22, <1>23, <1>24, <1>25, <1>26, <1>27
  DEF Next, Main, Startup, Shutdown

-----------------------------------------------------------------------------
(* The objects that are there, and those that are excused.                 *)

MarkObject == <<"chain", "NETSERVICE-MARK">>
IsoObject == <<"chain", "NETSERVICE-ISO">>

\* The kinds of objects.
Shape(x) ==
    \/ \E d : x = <<"cgroup", d>>
    \/ \E r : x = <<"rule", r>>
    \/ \E r : x = <<"route", r>>
    \/ x \in {MarkObject, IsoObject, SocketObject}
    \/ \E iface : x = <<"endpoint", iface>>

\* What is there, kind by kind.
PresentFacts ==
    /\ \A d : <<"cgroup", d>> \in Present <=> d \in DOMAIN cgroups
    /\ \A r : <<"rule", r>> \in Present <=> r \in ipRules
    /\ \A r : <<"route", r>> \in Present <=> r \in routes
    /\ MarkObject \in Present <=> markChain.chain
    /\ IsoObject \in Present <=> isoChain.chain
    /\ \A iface : <<"endpoint", iface>> \in Present <=> iface \in endpoints
    /\ SocketObject \in Present <=> socket # "none"
    /\ \A x \in Present : Shape(x)

\* Present holds those objects and no others.
LEMMA PresentIs == PresentFacts /\ PresentFacts'
  BY DEF PresentFacts, Present, ChainObjects, MarkObject, IsoObject, SocketObject, Shape

\* A start answers for the excused objects of its own configuration.
SocketInv == pc \in StartupPcs => SocketObject \notin excused

ExcusedOK == excused \subseteq Present /\ SocketInv

\* A step that only adds to the kernel takes nothing but the socket away.
LEMMA PresentGrows ==
    ASSUME DOMAIN cgroups \subseteq DOMAIN (cgroups'), ipRules \subseteq ipRules',
           UNCHANGED routes, markChain.chain => markChain'.chain, isoChain.chain => isoChain'.chain,
           endpoints \subseteq endpoints'
    PROVE  \A x \in Present : x = SocketObject \/ x \in Present'
  BY PresentIs DEF PresentFacts, Shape

\* A call that removes an object also takes it off the list of excused ones.
LEMMA ExcusedStep == LifeOK /\ ExcusedOK /\ [Next]_vars => ExcusedOK'
<1> SUFFICES ASSUME LifeOK, ExcusedOK, [Next]_vars PROVE ExcusedOK'
  OBVIOUS
<1> USE DEF ExcusedOK, SocketInv, mainVars, policyVars, alive
<1>1. ASSUME NEW X, Excuse(X), pc' \notin StartupPcs PROVE ExcusedOK'
  BY <1>1 DEF Excuse
<1>28. ASSUME Excuse({}), UNCHANGED pc PROVE ExcusedOK'
  BY <1>28 DEF Excuse
<1>2. ASSUME Abandon PROVE ExcusedOK'
  BY <1>2 DEF Abandon, Gone, StartupPcs
<1>3. ASSUME UNCHANGED excused, pc' \in StartupPcs => pc \in StartupPcs,
             UNCHANGED socket \/ SocketObject \notin excused,
             DOMAIN cgroups \subseteq DOMAIN (cgroups'), ipRules \subseteq ipRules',
             UNCHANGED routes, markChain.chain => markChain'.chain, isoChain.chain => isoChain'.chain,
             endpoints \subseteq endpoints'
      PROVE  ExcusedOK'
  <2>1. \A x \in Present : x = SocketObject \/ x \in Present'
    BY <1>3, PresentGrows
  <2>2. SocketObject \in excused => SocketObject \in Present'
    BY <1>3, PresentIs DEF PresentFacts
  <2> QED BY <1>3, <2>1, <2>2
<1>4. ASSUME NEW file \in Files, Exec(file) PROVE ExcusedOK'
  <2>1. Present' = Present
    BY <1>4 DEF Exec, Present
  <2>2. SocketObject \in Objects(loadFromFile(file).classes)
    BY DEF Objects
  <2> QED BY <1>4, <2>1, <2>2 DEF Exec, StartupPcs
<1>5. CASE SetupDirectory \/ SetupClassid
  <2>1. CASE Abandon
    BY <2>1, <1>2
  <2>2. CASE ~Abandon
    <3>1. DOMAIN cgroups \subseteq DOMAIN (cgroups')
      BY <1>5, <2>2
      DEF SetupDirectory, SetupClassid, createDirectory, writeClassid
    <3>2. UNCHANGED <<markChain, isoChain, ipRules, routes, socket, endpoints, excused>>
      BY <1>5, <2>2 DEF SetupDirectory, SetupClassid
    <3> QED BY <1>5, <2>2, <3>1, <3>2, <1>3 DEF SetupDirectory, SetupClassid, StartupPcs
  <2> QED BY <2>1, <2>2
<1>6. CASE SetupMarks
  <2>1. markChain'.chain \/ UNCHANGED markChain
    BY <1>6 DEF SetupMarks, addIptablesMarkRules, Chain
  <2> QED BY <1>6, <2>1, <1>3 DEF SetupMarks, StartupPcs
<1>7. CASE SetupRules
  BY <1>7, <1>3 DEF SetupRules, addIpRule, StartupPcs
<1>8. CASE SetupDrops
  <2>1. isoChain'.chain \/ UNCHANGED isoChain
    BY <1>8 DEF SetupDrops, addDropRules, Chain
  <2> QED BY <1>8, <2>1, <1>3 DEF SetupDrops, StartupPcs
<1>9. CASE SetupEndpoints
  BY <1>9, <1>3 DEF SetupEndpoints, addEndpoints, StartupPcs
<1>10. CASE StartMonitors
  BY <1>10, <1>3 DEF StartMonitors, StartupPcs
<1>11. CASE StartApi
  BY <1>11, <1>3 DEF StartApi, StartupPcs
<1>12. CASE LoopTest \/ EnterPause \/ Woken
  BY <1>12, <1>3 DEF LoopTest, EnterPause, Woken, Go, StartupPcs
<1>13. ASSUME NEW sig, Signal(sig) PROVE ExcusedOK'
  BY <1>13, <1>3 DEF Signal, StartupPcs
<1>14. CASE JoinWatchdog \/ StopMonitors
  BY <1>14, <1>3 DEF JoinWatchdog, StopMonitors, Go, StartupPcs
<1>15. CASE StopApi
  BY <1>15, <1>1 DEF StopApi, Go, StartupPcs
<1>16. CASE RemoveEndpoints
  BY <1>16, <1>1 DEF RemoveEndpoints, Go, StartupPcs
<1>17. CASE CleanRules
  <2>1. pc' \notin StartupPcs
    BY <1>17 DEF CleanRules, Loop, Go, StartupPcs
  <2> QED BY <1>17, <2>1, <1>1 DEF CleanRules
<1>18. CASE CleanDrops
  BY <1>18, <1>1 DEF CleanDrops, Go, StartupPcs
<1>19. CASE CleanMarks
  BY <1>19, <1>1 DEF CleanMarks, Go, StartupPcs
<1>20. CASE CleanDirectories
  <2>1. pc' \notin StartupPcs
    BY <1>20 DEF CleanDirectories, Go, StartupPcs
  <2> QED BY <1>20, <2>1, <1>1 DEF CleanDirectories
<1>21. CASE Return
  <2>1. pc' \notin StartupPcs
    BY <1>21 DEF Return, Gone, StartupPcs
  <2> QED BY <1>21, <2>1, <1>1 DEF Return
<1>22. CASE MonitorEnters
  BY <1>22, <1>3 DEF MonitorEnters
<1>23. ASSUME NEW c, PathUp(c) \/ PathDown(c) PROVE ExcusedOK'
  BY <1>23, <1>28 DEF PathUp, PathDown
<1>29. ASSUME NEW iface, IfaceDown(iface) PROVE ExcusedOK'
  BY <1>29, <1>28 DEF IfaceDown
<1>24. ASSUME NEW c, Register(c) PROVE ExcusedOK'
  BY <1>24, <1>3 DEF Register
<1>25. ASSUME NEW d, Leave(d) PROVE ExcusedOK'
  BY <1>25, <1>3 DEF Leave
<1>26. CASE Crash \/ WatchdogKill
  BY <1>26, <1>2 DEF Crash, WatchdogKill
<1>27. CASE Done \/ UNCHANGED vars
  BY <1>27, <1>3 DEF Done, vars
<1> QED
  BY <1>4, <1>5, <1>6, <1>7, <1>8, <1>9, <1>10, <1>11, <1>12, <1>13, <1>14, <1>15, <1>16,
     <1>17, <1>18, <1>19, <1>20, <1>21, <1>22, <1>23, <1>24, <1>25, <1>26, <1>27, <1>29
  DEF Next, Main, Startup, Shutdown

\* Whatever the files, the calls that fail, the crashes and their number: the
\* variables keep their types, main() never looks beyond its classes, and what is
\* excused is there.
THEOREM TypeCorrect == Spec => []TypeOK
<1>1. Init => LifeOK /\ ExcusedOK
  <2>1. ASSUME Init PROVE ExcusedOK
    BY <2>1 DEF Init, ExcusedOK, SocketInv
  <2> QED BY <2>1, LifeInit
<1>2. LifeOK /\ ExcusedOK /\ [Next]_vars => (LifeOK /\ ExcusedOK)'
  BY LifeStep, ExcusedStep
<1>3. LifeOK /\ ExcusedOK => TypeOK
  BY DEF LifeOK, VarsOK, ExcusedOK, TypeOK
<1> QED BY <1>1, <1>2, <1>3, PTL DEF Spec

-----------------------------------------------------------------------------
(* What is left to remove, at every point of cleanup().                    *)

rule(c) == <<c.mark, c.routingTable>>

\* The classes whose ip rule, and whose directory, may still be there.
RulesAhead ==
    IF pc = "delRules" THEN i .. Len(classes)
    ELSE IF pc \in CleanupPcs THEN {} ELSE DOMAIN classes
DirectoriesAhead ==
    IF pc = "delDirs" THEN 1 .. i
    ELSE IF pc = "return" THEN {} ELSE DOMAIN classes

RulesKnown ==
    \A r \in ipRules :
        <<"rule", r>> \in excused \/ \E n \in RulesAhead : r = rule(classes[n])
DirectoriesKnown ==
    \A d \in DOMAIN cgroups :
        <<"cgroup", d>> \in excused \/ \E n \in DirectoriesAhead : d = classes[n].cgroupPath
ChainsKnown ==
    /\ isoChain.chain /\ pc \in {"delMarks", "delDirs", "return", "off"} => IsoObject \in excused
    /\ markChain.chain /\ pc \in {"delDirs", "return", "off"} => MarkObject \in excused
\* A shutdown has removed them before cleanup(); a start-up that failed has not.
ServiceKnown ==
    /\ pc \in {"flush"} \cup CleanupPcs /\ status = "success" => socket = "none"
    /\ pc = "off" /\ socket # "none" => SocketObject \in excused
    /\ pc = "off" \/ (pc \in CleanupPcs /\ status = "success") =>
          \A iface \in endpoints : <<"endpoint", iface>> \in excused

\* The default routes are nobody's to remove: they are of the life that runs.
RoutesKnown ==
    \A r \in routes :
        <<"route", r>> \in excused \/ \E n \in DOMAIN classes : r = defaultRoute(classes[n])

Known == RulesKnown /\ RoutesKnown /\ DirectoriesKnown /\ ChainsKnown /\ ServiceKnown

\* What a life answers for, kind by kind.
LEMMA ObjectsAre ==
    ASSUME NEW cfg
    PROVE  /\ \A d : <<"cgroup", d>> \in Objects(cfg)
                       <=> \E n \in DOMAIN cfg : d = cfg[n].cgroupPath
           /\ \A r : <<"rule", r>> \in Objects(cfg)
                       <=> \E n \in DOMAIN cfg : r = rule(cfg[n])
           /\ \A r : <<"route", r>> \in Objects(cfg)
                       <=> \E n \in DOMAIN cfg : r = defaultRoute(cfg[n])
           /\ {MarkObject, IsoObject, SocketObject} \subseteq Objects(cfg)
           /\ \A iface \in endpoints : <<"endpoint", iface>> \in Objects(cfg)
<1>1. {MarkObject, IsoObject} = ChainObjects(Chain({}), Chain({}))
  BY DEF ChainObjects, Chain, MarkObject, IsoObject
<1> HIDE DEF ChainObjects
<1>2. \A c : c \in ClassesOf(cfg) <=> \E n \in DOMAIN cfg : c = cfg[n]
  BY DEF ClassesOf
<1>3. \A x : x \in Objects(cfg) <=>
          \/ \E c \in ClassesOf(cfg) : x = <<"cgroup", c.cgroupPath>>
          \/ \E c \in ClassesOf(cfg) : x = <<"rule", rule(c)>>
          \/ \E c \in ClassesOf(cfg) : x = <<"route", defaultRoute(c)>>
          \/ x \in {MarkObject, IsoObject, SocketObject}
          \/ \E iface \in allIfaces(cfg) \cup endpoints : x = <<"endpoint", iface>>
  BY <1>1 DEF Objects, rule
<1>4. ASSUME NEW d
      PROVE  <<"cgroup", d>> \in Objects(cfg) <=> \E n \in DOMAIN cfg : d = cfg[n].cgroupPath
  BY <1>2, <1>3 DEF MarkObject, IsoObject, SocketObject
<1>5. ASSUME NEW r
      PROVE  <<"rule", r>> \in Objects(cfg) <=> \E n \in DOMAIN cfg : r = rule(cfg[n])
  <2> HIDE DEF rule
  <2> QED BY <1>2, <1>3 DEF MarkObject, IsoObject, SocketObject
<1>6. ASSUME NEW r
      PROVE  <<"route", r>> \in Objects(cfg) <=> \E n \in DOMAIN cfg : r = defaultRoute(cfg[n])
  BY <1>2, <1>3 DEF MarkObject, IsoObject, SocketObject
<1> QED BY <1>3, <1>4, <1>5, <1>6

\* Nothing is ahead of a life that is over.
LEMMA Ahead ==
    ASSUME LifeOK
    PROVE  /\ RulesAhead \subseteq DOMAIN classes /\ DirectoriesAhead \subseteq DOMAIN classes
           /\ ~alive => DOMAIN classes = {}
<1>1. alive => Len(classes) \in Nat /\ DOMAIN classes = 1 .. Len(classes) /\ i \in DOMAIN classes
  BY Positions DEF LifeOK, VarsOK, LifeInv
<1> QED BY <1>1 DEF RulesAhead, DirectoriesAhead, LifeOK, LifeInv, alive, CleanupPcs

\* The invariant says what it is for.
LEMMA KnownIsEnough == LifeOK /\ Known => NothingForgotten
<1> SUFFICES ASSUME LifeOK, Known, NEW x \in Present
             PROVE  x \in excused \/ (alive /\ x \in Objects(classes))
  BY DEF NothingForgotten
<1>1. CASE \E d : x = <<"cgroup", d>>
  <2>1. PICK d \in DOMAIN cgroups : x = <<"cgroup", d>>
    BY <1>1, PresentIs DEF PresentFacts
  <2> QED BY <2>1, Ahead, ObjectsAre DEF Known, DirectoriesKnown
<1>2. CASE \E r : x = <<"rule", r>>
  <2>1. PICK r \in ipRules : x = <<"rule", r>>
    BY <1>2, PresentIs DEF PresentFacts
  <2> QED BY <2>1, Ahead, ObjectsAre DEF Known, RulesKnown
<1>3. CASE x \in {MarkObject, IsoObject, SocketObject}
  BY <1>3, PresentIs, ObjectsAre DEF PresentFacts, Known, ChainsKnown, ServiceKnown, alive
<1>4. CASE \E iface : x = <<"endpoint", iface>>
  <2>1. PICK iface \in endpoints : x = <<"endpoint", iface>>
    BY <1>4, PresentIs DEF PresentFacts
  <2> QED BY <2>1, ObjectsAre DEF Known, ServiceKnown, alive
<1>5. CASE \E r : x = <<"route", r>>
  <2>1. PICK r \in routes : x = <<"route", r>>
    BY <1>5, PresentIs DEF PresentFacts
  <2> QED BY <2>1, Ahead, ObjectsAre DEF Known, RoutesKnown
<1> QED BY <1>1, <1>2, <1>3, <1>4, <1>5, PresentIs DEF PresentFacts, Shape

\* Whatever a step adds is of the configuration that runs, and whatever a step ends
\* without removing is excused.
LEMMA KnownStep == LifeOK /\ ExcusedOK /\ Known /\ [Next]_vars => Known'
<1> SUFFICES ASSUME LifeOK, ExcusedOK, Known, [Next]_vars PROVE Known'
  OBVIOUS
<1> USE DEF mainVars, policyVars, alive
<1>1. alive => /\ Len(classes) \in Nat \ {0} /\ DOMAIN classes = 1 .. Len(classes)
               /\ i \in DOMAIN classes
  BY Positions DEF LifeOK, VarsOK, LifeInv
\* Start-up, the main loop and what fails in them, until the API server is stopped.
<1>2. ASSUME pc \in StartupPcs \cup LoopPcs \cup StopPcs, UNCHANGED <<classes, excused, routes>>,
             \/ pc' \in (StartupPcs \cup LoopPcs \cup StopPcs) \ {"flush"}
             \/ pc' = "delRules" /\ i' = 1 /\ status' # "success",
             \A r \in ipRules' : r \in ipRules \/ \E n \in DOMAIN classes : r = rule(classes[n]),
             \A d \in DOMAIN (cgroups') :
                d \in DOMAIN cgroups \/ \E n \in DOMAIN classes : d = classes[n].cgroupPath
      PROVE  Known'
  <2>1. RulesAhead = DOMAIN classes /\ RulesAhead' = DOMAIN classes
    BY <1>1, <1>2 DEF RulesAhead, StartupPcs, LoopPcs, StopPcs, CleanupPcs
  <2>2. DirectoriesAhead = DOMAIN classes /\ DirectoriesAhead' = DOMAIN classes
    BY <1>1, <1>2 DEF DirectoriesAhead, StartupPcs, LoopPcs, StopPcs
  <2>3. RulesKnown' /\ DirectoriesKnown'
    BY <1>2, <2>1, <2>2 DEF Known, RulesKnown, DirectoriesKnown
  <2>4. ChainsKnown' /\ ServiceKnown'
    BY <1>2 DEF ChainsKnown, ServiceKnown, StartupPcs, LoopPcs, StopPcs, CleanupPcs
  <2>5. RoutesKnown'
    BY <1>2 DEF Known, RoutesKnown
  <2> QED BY <2>3, <2>4, <2>5 DEF Known
\* A life that ends without cleanup().
<1>3. ASSUME Abandon PROVE Known'
  <2>1. pc' = "off" /\ excused' = Present' /\ status' = "success"
    BY <1>3 DEF Abandon, Gone
  <2> QED BY <2>1, PresentIs
          DEF PresentFacts, Known, RulesKnown, RoutesKnown, DirectoriesKnown, ChainsKnown, ServiceKnown,
              CleanupPcs
\* Steps of others.
<1>4. ASSUME UNCHANGED <<cgroups, ipRules, routes, markChain, isoChain, classes, i, excused, status,
                         socket, endpoints>>,
             pc' = pc \/ (pc \in LoopPcs /\ pc' \in LoopPcs)
      PROVE  Known'
  <2>1. CASE pc' = pc
    BY <1>4, <2>1
    DEF Known, RulesKnown, RoutesKnown, DirectoriesKnown, ChainsKnown, ServiceKnown,
        RulesAhead, DirectoriesAhead
  <2>2. CASE pc \in LoopPcs /\ pc' \in LoopPcs
    BY <1>4, <2>2, <1>2 DEF LoopPcs
  <2> QED BY <1>4, <2>1, <2>2
<1>5. ASSUME NEW file \in Files, Exec(file) PROVE Known'
  <2>1. CASE loadFromFile(file).error # NoError
    BY <1>4, <1>5, <2>1 DEF Exec
  <2>2. CASE loadFromFile(file).error = NoError
    <3> DEFINE cfg == loadFromFile(file).classes
    <3>1. /\ pc = "off" /\ pc' = "mkdir" /\ classes' = cfg /\ excused' = excused \ Objects(cfg)
          /\ UNCHANGED <<cgroups, ipRules, routes>>
      BY <1>5, <2>2 DEF Exec
    <3>2. RulesAhead' = DOMAIN cfg /\ DirectoriesAhead' = DOMAIN cfg
      BY <3>1 DEF RulesAhead, DirectoriesAhead, CleanupPcs
    <3>3. RulesAhead = {} /\ DirectoriesAhead = {}
      BY <3>1, Ahead
    <3>4. ASSUME NEW r \in ipRules PROVE <<"rule", r>> \in excused' \/ \E n \in DOMAIN cfg : r = rule(cfg[n])
      BY <3>1, <3>3, ObjectsAre DEF Known, RulesKnown
    <3>5. ASSUME NEW d \in DOMAIN cgroups
          PROVE <<"cgroup", d>> \in excused' \/ \E n \in DOMAIN cfg : d = cfg[n].cgroupPath
      BY <3>1, <3>3, ObjectsAre DEF Known, DirectoriesKnown
    <3>6. RulesKnown' /\ DirectoriesKnown'
      BY <3>1, <3>2, <3>4, <3>5 DEF RulesKnown, DirectoriesKnown
    <3>7. ASSUME NEW r \in routes
          PROVE <<"route", r>> \in excused' \/ \E n \in DOMAIN cfg : r = defaultRoute(cfg[n])
      <4>1. <<"route", r>> \in excused
        BY <3>1, Ahead DEF Known, RoutesKnown
      <4> QED BY <3>1, <4>1, ObjectsAre
    <3>8. RoutesKnown'
      BY <3>1, <3>7 DEF RoutesKnown
    <3> QED BY <3>1, <3>6, <3>8 DEF Known, ChainsKnown, ServiceKnown, CleanupPcs
  <2> QED BY <2>1, <2>2
<1>6. CASE SetupDirectory \/ SetupClassid
  <2>1. CASE Abandon
    BY <2>1, <1>3
  <2>2. CASE ~Abandon
    <3>1. \A d \in DOMAIN (cgroups') :
            d \in DOMAIN cgroups \/ \E n \in DOMAIN classes : d = classes[n].cgroupPath
      BY <1>6, <1>1, <2>2 DEF SetupDirectory, SetupClassid, createDirectory, writeClassid, cls
    <3>2. /\ pc \in StartupPcs /\ pc' \in StartupPcs
          /\ UNCHANGED <<classes, excused, ipRules, routes>>
      BY <1>6, <2>2 DEF SetupDirectory, SetupClassid, Loop, Go, StartupPcs
    <3> QED BY <3>1, <3>2, <1>2 DEF StartupPcs
  <2> QED BY <2>1, <2>2
<1>7. CASE SetupMarks \/ SetupDrops \/ SetupEndpoints \/ StartMonitors \/ StartApi
  BY <1>7, <1>2
  DEF SetupMarks, SetupDrops, SetupEndpoints, StartMonitors, StartApi, Go, Fail, StartupPcs, LoopPcs
<1>8. CASE SetupRules
  <2>1. \A r \in ipRules' : r \in ipRules \/ \E n \in DOMAIN classes : r = rule(classes[n])
    BY <1>8, <1>1 DEF SetupRules, addIpRule, cls, rule
  <2> QED BY <1>8, <2>1, <1>2 DEF SetupRules, Loop, Go, Fail, StartupPcs
<1>9. CASE LoopTest \/ EnterPause \/ Woken
  BY <1>9, <1>2 DEF LoopTest, EnterPause, Woken, Go, LoopPcs, StopPcs
<1>10. CASE JoinWatchdog \/ StopMonitors
  BY <1>10, <1>2 DEF JoinWatchdog, StopMonitors, Go, StopPcs
\* What is excused stays so while it is there.
<1>11. ASSUME NEW X, Excuse(X), NEW x \in excused \cup X, x \in Present' PROVE x \in excused'
  BY <1>11 DEF Excuse
<1>26. ASSUME NEW X, Excuse(X), UNCHANGED <<classes, routes>> PROVE RoutesKnown'
  BY <1>26, <1>11, PresentIs DEF PresentFacts, Known, RoutesKnown
<1>12. CASE StopApi
  <2>1. /\ pc = "stopApi" /\ pc' = "flush" /\ socket' = "none" /\ status' = status
        /\ UNCHANGED <<classes, ipRules, cgroups, markChain, isoChain, endpoints>> /\ Excuse({})
    BY <1>12 DEF StopApi, Go
  <2>2. /\ RulesAhead' = DOMAIN classes /\ RulesAhead = DOMAIN classes
        /\ DirectoriesAhead' = DOMAIN classes /\ DirectoriesAhead = DOMAIN classes
    BY <2>1 DEF RulesAhead, DirectoriesAhead, CleanupPcs
  <2>3. RulesKnown' /\ DirectoriesKnown'
    BY <2>1, <2>2, <1>11, PresentIs DEF PresentFacts, Known, RulesKnown, DirectoriesKnown
  <2>4. RoutesKnown'
    BY <1>12, <2>1, <1>26 DEF StopApi
  <2> QED BY <2>1, <2>3, <2>4 DEF Known, ChainsKnown, ServiceKnown, CleanupPcs
<1>13. CASE RemoveEndpoints
  <2> DEFINE X == {<<"endpoint", iface>> : iface \in endpoints'}
  <2>1. /\ pc = "flush" /\ pc' = "delRules" /\ i' = 1 /\ status' = status
        /\ UNCHANGED <<classes, ipRules, cgroups, markChain, isoChain, socket>> /\ Excuse(X)
    BY <1>13 DEF RemoveEndpoints, Go
  <2>2. /\ RulesAhead' = DOMAIN classes /\ RulesAhead = DOMAIN classes
        /\ DirectoriesAhead' = DOMAIN classes /\ DirectoriesAhead = DOMAIN classes
    BY <2>1, <1>1 DEF RulesAhead, DirectoriesAhead, CleanupPcs
  <2>3. RulesKnown' /\ DirectoriesKnown'
    BY <2>1, <2>2, <1>11, PresentIs DEF PresentFacts, Known, RulesKnown, DirectoriesKnown
  <2>4. ServiceKnown'
    BY <2>1, <1>11, PresentIs DEF PresentFacts, Known, ServiceKnown, CleanupPcs
  <2>5. RoutesKnown'
    BY <1>13, <2>1, <1>26 DEF RemoveEndpoints
  <2> QED BY <2>1, <2>3, <2>4, <2>5 DEF Known, ChainsKnown
<1>14. CASE CleanRules
  <2>1. /\ pc = "delRules" /\ UNCHANGED <<classes, status, cgroups, markChain, isoChain, socket, endpoints>>
        /\ \/ i < Len(classes) /\ pc' = "delRules" /\ i' = i + 1
           \/ i = Len(classes) /\ pc' = "delDrops"
    BY <1>14, <1>1 DEF CleanRules, Loop, Go
  <2>2. PICK X : Excuse(X)
    BY <1>14 DEF CleanRules
  <2>3. ASSUME NEW r \in ipRules', <<"rule", r>> \notin excused'
        PROVE  \E n \in RulesAhead' : r = rule(classes[n])
    <3>1. r \in ipRules /\ <<"rule", r>> \in Present'
      BY <1>14, PresentIs DEF CleanRules, removeIpRule, PresentFacts
    <3>2. PICK n \in i .. Len(classes) : r = rule(classes[n])
      BY <2>1, <2>2, <2>3, <3>1, <1>11 DEF Known, RulesKnown, RulesAhead
    <3>3. n # i
      BY <1>14, <2>3, <3>1, <3>2, <1>11 DEF CleanRules, removeIpRule, cls, rule
    <3>4. i < Len(classes) /\ n \in i' .. Len(classes)
      BY <1>1, <2>1, <3>2, <3>3
    <3> QED BY <2>1, <3>2, <3>4 DEF RulesAhead
  <2>4. RulesKnown'
    BY <2>1, <2>3 DEF RulesKnown
  <2>5. DirectoriesAhead' = DirectoriesAhead
    BY <2>1 DEF DirectoriesAhead
  <2>6. DirectoriesKnown'
    BY <2>1, <2>2, <2>5, <1>11, PresentIs DEF PresentFacts, Known, DirectoriesKnown
  <2>7. ServiceKnown'
    BY <2>1, <2>2, <1>11, PresentIs DEF PresentFacts, Known, ServiceKnown, CleanupPcs
  <2>8. RoutesKnown'
    BY <1>14, <2>1, <2>2, <1>26 DEF CleanRules
  <2> QED BY <2>1, <2>4, <2>6, <2>7, <2>8 DEF Known, ChainsKnown
<1>15. CASE CleanDrops
  <2> DEFINE X == ChainObjects(NoChain, isoChain')
  <2>1. /\ pc = "delDrops" /\ pc' = "delMarks" /\ Excuse(X)
        /\ UNCHANGED <<classes, status, cgroups, ipRules, markChain, socket, endpoints>>
    BY <1>15 DEF CleanDrops, Go
  <2>2. RulesAhead' = RulesAhead /\ DirectoriesAhead' = DirectoriesAhead
    BY <2>1 DEF RulesAhead, DirectoriesAhead, CleanupPcs
  <2>3. RulesKnown' /\ DirectoriesKnown'
    BY <2>1, <2>2, <1>11, PresentIs DEF PresentFacts, Known, RulesKnown, DirectoriesKnown
  <2>4. ServiceKnown'
    BY <2>1, <1>11, PresentIs DEF PresentFacts, Known, ServiceKnown, CleanupPcs
  <2>5. isoChain'.chain => IsoObject \in X
    BY DEF ChainObjects, IsoObject
  <2>6. isoChain'.chain => IsoObject \in excused'
    BY <2>1, <2>5, <1>11, PresentIs DEF PresentFacts
  <2>7. RoutesKnown'
    BY <1>15, <2>1, <1>26 DEF CleanDrops
  <2> QED BY <2>1, <2>3, <2>4, <2>6, <2>7 DEF Known, ChainsKnown
<1>16. CASE CleanMarks
  <2> DEFINE X == ChainObjects(markChain', NoChain)
  <2>1. /\ pc = "delMarks" /\ pc' = "delDirs" /\ i' = Len(classes) /\ Excuse(X)
        /\ UNCHANGED <<classes, status, cgroups, ipRules, isoChain, socket, endpoints>>
    BY <1>16 DEF CleanMarks, Go
  <2>2. RulesAhead' = RulesAhead /\ DirectoriesAhead' = DirectoriesAhead
    BY <1>1, <2>1 DEF RulesAhead, DirectoriesAhead, CleanupPcs
  <2>3. RulesKnown' /\ DirectoriesKnown'
    BY <2>1, <2>2, <1>11, PresentIs DEF PresentFacts, Known, RulesKnown, DirectoriesKnown
  <2>4. ServiceKnown'
    BY <2>1, <1>11, PresentIs DEF PresentFacts, Known, ServiceKnown, CleanupPcs
  <2>5. markChain'.chain => MarkObject \in X
    BY DEF ChainObjects, MarkObject
  <2>6. markChain'.chain => MarkObject \in excused'
    BY <2>1, <2>5, <1>11, PresentIs DEF PresentFacts
  <2>7. isoChain'.chain => IsoObject \in excused'
    BY <2>1, <1>11, PresentIs DEF PresentFacts, Known, ChainsKnown
  <2>8. RoutesKnown'
    BY <1>16, <2>1, <1>26 DEF CleanMarks
  <2> QED BY <2>1, <2>3, <2>4, <2>6, <2>7, <2>8 DEF Known, ChainsKnown
<1>17. CASE CleanDirectories
  <2>1. /\ pc = "delDirs" /\ UNCHANGED <<classes, status, ipRules, markChain, isoChain, socket, endpoints>>
        /\ \/ i > 1 /\ pc' = "delDirs" /\ i' = i - 1
           \/ i = 1 /\ pc' = "return"
    BY <1>17, <1>1 DEF CleanDirectories, Go
  <2>2. PICK X : Excuse(X)
    BY <1>17 DEF CleanDirectories
  <2>3. ASSUME NEW d \in DOMAIN (cgroups'), <<"cgroup", d>> \notin excused'
        PROVE  \E n \in DirectoriesAhead' : d = classes[n].cgroupPath
    <3>1. d \in DOMAIN cgroups /\ <<"cgroup", d>> \in Present'
      BY <1>17, PresentIs DEF CleanDirectories, removeDirectory, PresentFacts
    <3>2. PICK n \in 1 .. i : d = classes[n].cgroupPath
      BY <2>1, <2>2, <2>3, <3>1, <1>11 DEF Known, DirectoriesKnown, DirectoriesAhead
    <3>3. n # i
      <4>1. CASE removeDirectory(cls) /\ Excuse(IF CanRemove(cls) THEN {} ELSE {<<"cgroup", cls.cgroupPath>>})
        <5>1. CASE CanRemove(cls)
          BY <4>1, <5>1, <3>2 DEF removeDirectory, cls
        <5>2. CASE ~CanRemove(cls)
          BY <4>1, <5>2, <2>3, <3>1, <3>2, <1>11 DEF cls
        <5> QED BY <5>1, <5>2
      <4>2. CASE Excuse({<<"cgroup", cls.cgroupPath>>})
        BY <4>2, <2>3, <3>1, <3>2, <1>11 DEF cls
      <4> QED BY <1>17, <4>1, <4>2 DEF CleanDirectories
    <3>4. i > 1 /\ n \in 1 .. i'
      BY <1>1, <2>1, <3>2, <3>3
    <3> QED BY <2>1, <3>2, <3>4 DEF DirectoriesAhead
  <2>4. DirectoriesKnown'
    BY <2>1, <2>3 DEF DirectoriesKnown
  <2>5. RulesAhead' = RulesAhead
    BY <2>1 DEF RulesAhead, CleanupPcs
  <2>6. RulesKnown'
    BY <2>1, <2>2, <2>5, <1>11, PresentIs DEF PresentFacts, Known, RulesKnown
  <2>7. ServiceKnown'
    BY <2>1, <2>2, <1>11, PresentIs DEF PresentFacts, Known, ServiceKnown, CleanupPcs
  <2>8. ChainsKnown'
    BY <2>1, <2>2, <1>11, PresentIs DEF PresentFacts, Known, ChainsKnown
  <2>9. RoutesKnown'
    BY <1>17, <2>1, <2>2, <1>26 DEF CleanDirectories
  <2> QED BY <2>4, <2>6, <2>7, <2>8, <2>9 DEF Known
<1>18. CASE Return
  <2>1. /\ pc = "return" /\ pc' = "off" /\ Excuse(NotCleaned) /\ UNCHANGED <<policyVars, endpoints>>
        /\ socket' # "none" => socket # "none"
    BY <1>18 DEF Return, Gone
  <2>2. RulesAhead = {} /\ DirectoriesAhead = {}
    BY <2>1 DEF RulesAhead, DirectoriesAhead, CleanupPcs
  <2>3. RulesKnown' /\ DirectoriesKnown'
    BY <2>1, <2>2, <1>11, PresentIs DEF PresentFacts, Known, RulesKnown, DirectoriesKnown
  <2>4. ChainsKnown'
    BY <2>1, <1>11, PresentIs DEF PresentFacts, Known, ChainsKnown
  <2>5. socket' # "none" => SocketObject \in excused'
    <3>1. socket # "none" => SocketObject \in NotCleaned
      BY <2>1 DEF NotCleaned, Known, ServiceKnown, CleanupPcs
    <3> QED BY <2>1, <3>1, <1>11, PresentIs DEF PresentFacts
  <2>6. ASSUME NEW iface \in endpoints' PROVE <<"endpoint", iface>> \in excused'
    <3>1. <<"endpoint", iface>> \in excused \cup NotCleaned
      BY <2>1, <2>6 DEF NotCleaned, Known, ServiceKnown, CleanupPcs
    <3> QED BY <2>1, <2>6, <3>1, <1>11, PresentIs DEF PresentFacts
  <2>7. RoutesKnown'
    <3>1. \A r \in routes : <<"route", r>> \in NotCleaned
      BY DEF NotCleaned
    <3> QED BY <2>1, <3>1, <1>11, PresentIs DEF PresentFacts, RoutesKnown
  <2> QED BY <2>1, <2>3, <2>4, <2>5, <2>6, <2>7 DEF Known, ServiceKnown, CleanupPcs
<1>19. ASSUME NEW sig, Signal(sig) PROVE Known'
  BY <1>19, <1>4 DEF Signal, LoopPcs
<1>20. CASE MonitorEnters
  BY <1>20, <1>4 DEF MonitorEnters
\* Path events bring and take routes, and bring endpoints of a life that answers for them.
<1>27. ASSUME Excuse({}),
              UNCHANGED <<pc, classes, i, status, cgroups, ipRules, markChain, isoChain, socket>>,
              \/ UNCHANGED endpoints
              \/ pc # "off" /\ ~(pc \in CleanupPcs /\ status = "success"),
              \A r \in routes' : r \in routes \/ \E n \in DOMAIN classes : r = defaultRoute(classes[n])
       PROVE  Known'
  <2>1. RulesAhead' = RulesAhead /\ DirectoriesAhead' = DirectoriesAhead
    BY <1>27 DEF RulesAhead, DirectoriesAhead
  <2>2. RulesKnown' /\ DirectoriesKnown'
    BY <1>27, <2>1, <1>11, PresentIs DEF PresentFacts, Known, RulesKnown, DirectoriesKnown
  <2>3. RoutesKnown'
    BY <1>27, <1>11, PresentIs DEF PresentFacts, Known, RoutesKnown
  <2>4. ChainsKnown' /\ ServiceKnown'
    BY <1>27, <1>11, PresentIs DEF PresentFacts, Known, ChainsKnown, ServiceKnown
  <2> QED BY <2>2, <2>3, <2>4 DEF Known
<1>21. ASSUME NEW c \in ClassesOf(classes), PathUp(c) \/ PathDown(c) PROVE Known'
  <2>1. pc # "off" /\ ~(pc \in CleanupPcs /\ status = "success")
    BY <1>21 DEF PathUp, PathDown, LifeOK, LifeInv, EndInv
  <2>2. \A r \in routes' : r \in routes \/ \E n \in DOMAIN classes : r = defaultRoute(classes[n])
    BY <1>21 DEF PathUp, PathDown, addDefaultRoute, removeDefaultRoute, ClassesOf
  <2> QED BY <1>21, <2>1, <2>2, <1>27 DEF PathUp, PathDown
<1>28. ASSUME NEW iface, IfaceDown(iface) PROVE Known'
  BY <1>28, <1>27 DEF IfaceDown
<1>22. ASSUME NEW c, Register(c) PROVE Known'
  BY <1>22, <1>4 DEF Register
<1>23. ASSUME NEW d, Leave(d) PROVE Known'
  BY <1>23, <1>4 DEF Leave
<1>24. CASE Crash \/ WatchdogKill
  BY <1>24, <1>3 DEF Crash, WatchdogKill
<1>25. CASE Done \/ UNCHANGED vars
  BY <1>25, <1>4 DEF Done, vars
<1> QED
  BY <1>5, <1>6, <1>7, <1>8, <1>9, <1>10, <1>12, <1>13, <1>14, <1>15, <1>16, <1>17, <1>18,
     <1>19, <1>20, <1>21, <1>22, <1>23, <1>24, <1>25, <1>28
  DEF Next, Main, Startup, Shutdown

\* The invariants together.
LEMMA KnownInvariant == Spec => [](LifeOK /\ ExcusedOK /\ Known)
<1>1. Init => LifeOK /\ ExcusedOK /\ Known
  <2>1. ASSUME Init PROVE ExcusedOK
    BY <2>1 DEF Init, ExcusedOK, SocketInv
  <2>2. ASSUME Init PROVE Known
    BY <2>2 DEF Init, PolicyInit, NoChain, Known, RulesKnown, RoutesKnown, DirectoriesKnown, ChainsKnown,
                ServiceKnown, CleanupPcs
  <2> QED BY <2>1, <2>2, LifeInit
<1>2. LifeOK /\ ExcusedOK /\ Known /\ [Next]_vars => (LifeOK /\ ExcusedOK /\ Known)'
  BY LifeStep, ExcusedStep, KnownStep
<1> QED BY <1>1, <1>2, PTL DEF Spec

\* Whatever fails, at whatever point a life is cut off, and however the file is
\* edited in between: every object in the kernel or the file system is one of the
\* daemon that runs, or one that a crash, a failed call or a process in a directory
\* left behind, or a default route of an earlier life, which no cleanup() removes.
THEOREM ForgetsNothing == Spec => []NothingForgotten
  BY KnownInvariant, KnownIsEnough, PTL

-----------------------------------------------------------------------------
(* Traffic.  From here on every class has a directory of its own, which    *)
(* validateClasses() does not check.                                       *)

\* Two classes that agree in a key, or in their directory, are one.
LEMMA KeysTell ==
    ASSUME NEW cfg, Loaded(cfg), NEW c \in ClassesOf(cfg), NEW d \in ClassesOf(cfg),
           \/ c.id = d.id \/ c.classid = d.classid \/ c.mark = d.mark
           \/ DistinctDirectories(cfg) /\ c.cgroupPath = d.cgroupPath
    PROVE  c = d
  BY DEF Loaded, validClasses, DistinctDirectories, ClassesOf

MarkRules(cfg) == {<<c.classid, c.mark>> : c \in ClassesOf(cfg)}

\* The rules of a configuration give a classid of it one mark.
LEMMA OneMark ==
    ASSUME NEW cfg, Loaded(cfg), NEW c \in ClassesOf(cfg)
    PROVE  {r[2] : r \in {s \in MarkRules(cfg) : s[1] = c.classid}} = {c.mark}
<1>1. \A s \in MarkRules(cfg) : s[1] = c.classid => s[2] = c.mark
  BY KeysTell DEF MarkRules
<1>2. <<c.classid, c.mark>> \in MarkRules(cfg)
  BY DEF MarkRules
<1> QED BY <1>1, <1>2

\* The DROP rules of a configuration are what strict isolation forbids.
LEMMA DropsAreForbidden ==
    ASSUME Loaded(classes), NEW c \in ClassesOf(classes), NEW iface \in allIfaces(classes)
    PROVE  <<iface, c.mark>> \in DropRules(classes) <=> Forbidden(c, iface)
<1> DEFINE strict == {C \in ClassesOf(classes) : C.strictIsolation}
           Off(S) == {<<f, S.mark>> : f \in allIfaces(classes) \ InterfacesOf(S)}
           On(S) == {<<f, B.mark>> : f \in InterfacesOf(S),
                                     B \in {C \in ClassesOf(classes) : C.id # S.id}}
<1>1. ASSUME NEW S \in ClassesOf(classes) PROVE <<iface, c.mark>> \in Off(S) <=> c = S /\ iface \notin InterfacesOf(c)
  BY KeysTell
<1>2. ASSUME NEW S \in ClassesOf(classes) PROVE <<iface, c.mark>> \in On(S) <=> c # S /\ iface \in InterfacesOf(S)
  BY KeysTell
<1>3. DropRules(classes) = UNION {Off(S) \cup On(S) : S \in strict}
  BY DEF DropRules
<1> HIDE DEF Off, On
<1>4. <<iface, c.mark>> \in DropRules(classes) <=>
        \E S \in strict : <<iface, c.mark>> \in Off(S) \/ <<iface, c.mark>> \in On(S)
  BY <1>3
<1> QED BY <1>1, <1>2, <1>4 DEF Forbidden

-----------------------------------------------------------------------------
(* What start-up has put in place, step by step.                           *)

\* From the end of start-up to cleanup().
ActivePcs == {"threads", "api"} \cup LoopPcs \cup StopPcs

\* setupOneClass() is through with the class, or takes its classid to be there.
HasClassid(c) ==
    /\ c.cgroupPath \in DOMAIN cgroups
    /\ cgroups[c.cgroupPath] = c.classid \/ existing(c.cgroupPath) = c.classid

ClassidsSet ==
    /\ pc \in {"mkdir", "classid"} => \A n \in 1 .. i - 1 : HasClassid(classes[n])
    /\ pc = "classid" => classes[i].cgroupPath \in DOMAIN cgroups
    /\ pc \in {"marks", "rules", "drops", "endpoints"} \cup ActivePcs =>
          \A n \in DOMAIN classes : HasClassid(classes[n])
MarksSet ==
    pc \in {"rules", "drops", "endpoints"} \cup ActivePcs => markChain = Chain(MarkRules(classes))
RulesSet ==
    /\ pc = "rules" => \A n \in 1 .. i - 1 : rule(classes[n]) \in ipRules
    /\ pc \in {"drops", "endpoints"} \cup ActivePcs =>
          \A n \in DOMAIN classes : rule(classes[n]) \in ipRules
DropsSet ==
    pc \in {"endpoints"} \cup ActivePcs /\ anyIsolation(classes)
        => isoChain = Chain(DropRules(classes))

SetInv == ClassidsSet /\ MarksSet /\ RulesSet /\ DropsSet /\ DistinctDirectories(classes)

\* existing() reads one directory.
LEMMA ExistingFrame ==
    ASSUME NEW d, cgroups'[d] = cgroups[d]
    PROVE  existing(d)' = existing(d)
  BY DEF existing

\* Each phase of start-up sets its part for the class it is at, and no later phase
\* undoes what an earlier one has set.
LEMMA SetStep ==
    ASSUME OneDirectoryEach, LifeOK, SetInv, [Next]_vars
    PROVE  SetInv'
<1> USE DEF mainVars, policyVars, alive
<1>1. alive => /\ Len(classes) \in Nat \ {0} /\ DOMAIN classes = 1 .. Len(classes)
               /\ i \in DOMAIN classes
  BY Positions DEF LifeOK, VarsOK, LifeInv
\* Steps that leave the kernel and the position in start-up as they are.
<1>2. ASSUME UNCHANGED <<classes, cgroups, markChain, ipRules, isoChain>>,
             (pc' = pc /\ i' = i) \/ (pc \in {"endpoints"} \cup ActivePcs /\ pc' \in ActivePcs)
               \/ pc' \in CleanupPcs
      PROVE  SetInv'
  <2>1. \A c : HasClassid(c)' <=> HasClassid(c)
    BY <1>2 DEF HasClassid, existing
  <2>2. ClassidsSet'
    BY <1>2, <2>1 DEF SetInv, ClassidsSet, ActivePcs, LoopPcs, StopPcs, CleanupPcs
  <2>3. MarksSet' /\ RulesSet' /\ DropsSet'
    BY <1>2 DEF SetInv, MarksSet, RulesSet, DropsSet, ActivePcs, LoopPcs, StopPcs, CleanupPcs
  <2> QED BY <1>2, <2>2, <2>3 DEF SetInv
\* Steps after which nothing of it is claimed.
<1>3. ASSUME pc' = "off" \/ pc' \in CleanupPcs, DistinctDirectories(classes)' PROVE SetInv'
  BY <1>3 DEF SetInv, ClassidsSet, MarksSet, RulesSet, DropsSet, ActivePcs, LoopPcs, StopPcs, CleanupPcs
<1>4. ASSUME Gone PROVE SetInv'
  BY <1>4, <1>3 DEF Gone, DistinctDirectories
<1>5. ASSUME NEW how, Fail(how) PROVE SetInv'
  BY <1>5, <1>3 DEF Fail, CleanupPcs, SetInv, DistinctDirectories
<1>6. ASSUME NEW file \in Files, Exec(file) PROVE SetInv'
  <2>1. CASE loadFromFile(file).error # NoError
    BY <1>2, <1>6, <2>1 DEF Exec
  <2>2. CASE loadFromFile(file).error = NoError
    <3>1. pc' = "mkdir" /\ i' = 1 /\ DistinctDirectories(classes)'
      BY <1>6, <2>2 DEF Exec, LifeOK, LifeInv, OneDirectoryEach, DistinctDirectories
    <3> QED BY <3>1 DEF SetInv, ClassidsSet, MarksSet, RulesSet, DropsSet, ActivePcs, LoopPcs, StopPcs
  <2> QED BY <2>1, <2>2
<1>7. CASE SetupDirectory
  <2>1. CASE Abandon
    BY <2>1, <1>4 DEF Abandon
  <2>2. CASE ~Abandon
    <3>1. /\ pc = "mkdir" /\ pc' = "classid" /\ i' = i /\ UNCHANGED classes
          /\ createDirectory(classes[i])
      BY <1>7, <2>2 DEF SetupDirectory, Go, cls
    <3>2. /\ DOMAIN (cgroups') = DOMAIN cgroups \cup {classes[i].cgroupPath}
          /\ \A d \in DOMAIN cgroups : cgroups'[d] = cgroups[d]
      BY <3>1 DEF createDirectory
    <3>3. ASSUME NEW c, HasClassid(c) PROVE HasClassid(c)'
      BY <3>2, <3>3, ExistingFrame DEF HasClassid
    <3>4. ClassidsSet'
      BY <3>1, <3>2, <3>3 DEF SetInv, ClassidsSet, ActivePcs, LoopPcs, StopPcs
    <3> QED BY <3>1, <3>4 DEF SetInv, MarksSet, RulesSet, DropsSet, ActivePcs, LoopPcs, StopPcs, DistinctDirectories
  <2> QED BY <2>1, <2>2
<1>8. CASE SetupClassid
  <2>1. CASE Abandon
    BY <2>1, <1>4 DEF Abandon
  <2>2. CASE ~Abandon
    <3>1. /\ pc = "classid" /\ UNCHANGED classes /\ writeClassid(classes[i])
          /\ \/ i < Len(classes) /\ pc' = "mkdir" /\ i' = i + 1
             \/ i = Len(classes) /\ pc' = "marks" /\ i' = 1
      BY <1>8, <1>1, <2>2 DEF SetupClassid, Loop, Go, cls
    <3>2. /\ DOMAIN (cgroups') = DOMAIN cgroups
          /\ \A d \in DOMAIN cgroups : d # classes[i].cgroupPath => cgroups'[d] = cgroups[d]
      BY <3>1 DEF writeClassid
    <3>3. ASSUME NEW n \in 1 .. i - 1, NEW c, c = classes[n] PROVE HasClassid(c)'
      <4>1. HasClassid(c) /\ c.cgroupPath # classes[i].cgroupPath
        BY <3>1, <3>3, <1>1 DEF SetInv, ClassidsSet, DistinctDirectories
      <4>2. cgroups'[c.cgroupPath] = cgroups[c.cgroupPath]
        BY <3>2, <4>1 DEF HasClassid
      <4> QED BY <3>2, <4>1, <4>2, ExistingFrame DEF HasClassid
    <3>4. ASSUME NEW c, c = classes[i] PROVE HasClassid(c)'
      <4>1. c.cgroupPath \in DOMAIN cgroups
        BY <3>1, <3>4 DEF SetInv, ClassidsSet
      <4>2. CASE existing(c.cgroupPath) = c.classid
        <5>1. UNCHANGED cgroups
          BY <3>1, <3>4, <4>2 DEF writeClassid
        <5> QED BY <4>1, <4>2, <5>1, ExistingFrame DEF HasClassid
      <4>3. CASE existing(c.cgroupPath) # c.classid
        BY <3>1, <3>4, <4>1, <4>3 DEF writeClassid, HasClassid
      <4> QED BY <4>2, <4>3
    <3>5. \A n \in 1 .. i : HasClassid(classes[n])'
      <4>1. \A n \in 1 .. i : \A c : c = classes[n] => HasClassid(c)'
        BY <3>3, <3>4, <1>1, <3>1
      <4> QED BY <4>1, <3>1 DEF HasClassid, existing
    <3>6. ClassidsSet'
      BY <3>1, <3>5, <1>1 DEF ClassidsSet, ActivePcs, LoopPcs, StopPcs
    <3> QED BY <3>1, <3>6 DEF SetInv, MarksSet, RulesSet, DropsSet, ActivePcs, LoopPcs, StopPcs, DistinctDirectories
  <2> QED BY <2>1, <2>2
<1>9. ASSUME UNCHANGED cgroups, NEW c PROVE HasClassid(c)' <=> HasClassid(c)
  BY <1>9 DEF HasClassid, existing
<1>10. CASE SetupMarks
  <2>1. CASE Fail("failure")
    BY <2>1, <1>5
  <2>2. CASE ~Fail("failure")
    <3>1. /\ pc = "marks" /\ pc' = "rules" /\ i' = 1 /\ UNCHANGED <<classes, cgroups>>
          /\ markChain' = Chain(MarkRules(classes))
      BY <1>10, <2>2 DEF SetupMarks, addIptablesMarkRules, Go, MarkRules
    <3>2. ClassidsSet'
      BY <3>1, <1>9 DEF SetInv, ClassidsSet, ActivePcs, LoopPcs, StopPcs
    <3>3. MarksSet'
      BY <3>1 DEF MarksSet, MarkRules, ClassesOf
    <3> QED BY <3>1, <3>2, <3>3 DEF SetInv, RulesSet, DropsSet, ActivePcs, LoopPcs, StopPcs, DistinctDirectories
  <2> QED BY <2>1, <2>2
<1>11. CASE SetupRules
  <2>1. CASE Fail("failure")
    BY <2>1, <1>5
  <2>2. CASE ~Fail("failure")
    <3>1. /\ pc = "rules" /\ UNCHANGED <<classes, cgroups, markChain, isoChain>>
          /\ ipRules' = ipRules \cup {rule(classes[i])}
          /\ \/ i < Len(classes) /\ pc' = "rules" /\ i' = i + 1
             \/ i = Len(classes) /\ pc' = "drops" /\ i' = 1
      BY <1>11, <1>1, <2>2 DEF SetupRules, addIpRule, Loop, Go, cls, rule
    <3>2. ClassidsSet'
      BY <3>1, <1>9 DEF SetInv, ClassidsSet, ActivePcs, LoopPcs, StopPcs
    <3>3. \A n \in 1 .. i : rule(classes[n]) \in ipRules'
      BY <3>1, <1>1 DEF SetInv, RulesSet
    <3>4. RulesSet'
      BY <3>1, <3>3, <1>1 DEF RulesSet, ActivePcs, LoopPcs, StopPcs
    <3> QED BY <3>1, <3>2, <3>4 DEF SetInv, MarksSet, DropsSet, ActivePcs, LoopPcs, StopPcs, DistinctDirectories
  <2> QED BY <2>1, <2>2
<1>12. CASE SetupDrops
  <2>1. CASE Fail("failure")
    BY <2>1, <1>5
  <2>2. CASE ~Fail("failure")
    <3>1. /\ pc = "drops" /\ pc' = "endpoints" /\ UNCHANGED <<classes, cgroups, markChain, ipRules>>
          /\ anyIsolation(classes) => isoChain' = Chain(DropRules(classes))
      BY <1>12, <2>2 DEF SetupDrops, addDropRules, Go
    <3>2. ClassidsSet'
      BY <3>1, <1>9 DEF SetInv, ClassidsSet, ActivePcs, LoopPcs, StopPcs
    <3> QED BY <3>1, <3>2 DEF SetInv, MarksSet, RulesSet, DropsSet, ActivePcs, LoopPcs, StopPcs, DistinctDirectories
  <2> QED BY <2>1, <2>2
<1>13. CASE SetupEndpoints
  BY <1>13, <1>2, <1>5 DEF SetupEndpoints, Go, ActivePcs
<1>14. CASE StartMonitors
  BY <1>14, <1>2 DEF StartMonitors, ActivePcs
<1>15. CASE StartApi
  BY <1>15, <1>2, <1>5 DEF StartApi, Go, ActivePcs, LoopPcs
<1>16. CASE LoopTest \/ EnterPause \/ Woken
  BY <1>16, <1>2 DEF LoopTest, EnterPause, Woken, Go, ActivePcs, LoopPcs, StopPcs
<1>17. CASE JoinWatchdog \/ StopMonitors \/ StopApi \/ RemoveEndpoints
  BY <1>17, <1>2 DEF JoinWatchdog, StopMonitors, StopApi, RemoveEndpoints, Go, ActivePcs, StopPcs, CleanupPcs
<1>18. ASSUME NEW sig, Signal(sig) PROVE SetInv'
  BY <1>18, <1>2 DEF Signal, ActivePcs, LoopPcs
<1>19. CASE CleanRules \/ CleanDrops \/ CleanMarks \/ CleanDirectories
  <2>1. pc' \in CleanupPcs /\ UNCHANGED classes
    BY <1>19 DEF CleanRules, CleanDrops, CleanMarks, CleanDirectories, Loop, Go, CleanupPcs
  <2> QED BY <2>1, <1>3 DEF SetInv, DistinctDirectories
<1>20. CASE Return \/ Crash \/ WatchdogKill
  BY <1>20, <1>4 DEF Return, Crash, WatchdogKill, Abandon
<1>21. CASE MonitorEnters
  BY <1>21, <1>2 DEF MonitorEnters
<1>22. ASSUME NEW c, PathUp(c) \/ PathDown(c) \/ Register(c) PROVE SetInv'
  BY <1>22, <1>2 DEF PathUp, PathDown, Register
<1>25. ASSUME NEW iface, IfaceDown(iface) PROVE SetInv'
  BY <1>25, <1>2 DEF IfaceDown
<1>23. ASSUME NEW d, Leave(d) PROVE SetInv'
  BY <1>23, <1>2 DEF Leave
<1>24. CASE Done \/ UNCHANGED vars
  BY <1>24, <1>2 DEF Done, vars
<1> QED
  BY <1>6, <1>7, <1>8, <1>10, <1>11, <1>12, <1>13, <1>14, <1>15, <1>16, <1>17, <1>18, <1>19,
     <1>20, <1>21, <1>22, <1>23, <1>24, <1>25
  DEF Next, Main, Startup, Shutdown

\* The three invariants together, as the theorems below use them.
LEMMA SetInvariant ==
    ASSUME OneDirectoryEach
    PROVE  Spec => [](LifeOK /\ Known /\ SetInv)
<1>1. Init => SetInv
  BY DEF Init, SetInv, ClassidsSet, MarksSet, RulesSet, DropsSet, DistinctDirectories,
         ActivePcs, LoopPcs, StopPcs
<1>2. LifeOK /\ SetInv /\ [Next]_vars => SetInv'
  BY SetStep
<1> QED BY <1>1, <1>2, KnownInvariant, PTL DEF Spec

\* When start-up is over and cleanup() has not begun, the kernel does what the
\* configuration says, whatever earlier lives have left, if classes have
\* directories of their own.
THEOREM RunsAsConfigured ==
    ASSUME OneDirectoryEach
    PROVE  Spec => []RunningIsConfigured
<1>1. LifeOK /\ Known /\ SetInv => RunningIsConfigured
  <2> SUFFICES ASSUME LifeOK, Known, SetInv, pc \in ActivePcs, NEW n \in DOMAIN classes
               PROVE  LET c == classes[n] IN
                      /\ rule(c) \in ipRules
                      /\ \A r \in ipRules :
                            r = rule(c) \/ r[1] # c.mark \/ <<"rule", r>> \in excused
                      /\ \/ Aliased(c)
                         \/ /\ MarksOf(c.cgroupPath) = {c.mark}
                            /\ \A iface \in allIfaces(classes) :
                                  /\ Forbidden(c, iface) => Dropped(c.cgroupPath, iface)
                                  /\ anyIsolation(classes) /\ Dropped(c.cgroupPath, iface)
                                      => Forbidden(c, iface)
    BY DEF RunningIsConfigured, ActivePcs, ClassesOf, rule
  <2> DEFINE c == classes[n]
  <2>1. Loaded(classes) /\ c \in ClassesOf(classes)
    BY DEF LifeOK, LifeInv, alive, ActivePcs, LoopPcs, StopPcs, ClassesOf
  <2>2. rule(c) \in ipRules
    BY DEF SetInv, RulesSet
  <2>3. ASSUME NEW r \in ipRules, r[1] = c.mark, <<"rule", r>> \notin excused PROVE r = rule(c)
    <3>1. PICK m \in DOMAIN classes : r = rule(classes[m])
      BY <2>3, Ahead DEF Known, RulesKnown
    <3>2. classes[m] = c
      BY <2>1, <2>3, <3>1, KeysTell DEF rule, ClassesOf
    <3> QED BY <3>1, <3>2
  <2>4. CASE cgroups[c.cgroupPath] # c.classid
    <3>1. Aliased(c)
      BY <2>4 DEF SetInv, ClassidsSet, HasClassid, Aliased
    <3> QED BY <2>2, <2>3, <3>1
  <2>5. CASE cgroups[c.cgroupPath] = c.classid
    <3>1. markChain = Chain(MarkRules(classes)) /\ c.cgroupPath \in DOMAIN cgroups
      BY DEF SetInv, ClassidsSet, HasClassid, MarksSet
    <3>2. MarksOf(c.cgroupPath) = {c.mark}
      <4>1. markChain.jump /\ markChain.rules = MarkRules(classes)
        BY <3>1 DEF Chain
      <4>2. MarksOf(c.cgroupPath) = {r[2] : r \in {s \in MarkRules(classes) : s[1] = c.classid}}
        BY <2>5, <3>1, <4>1 DEF MarksOf
      <4> QED BY <2>1, <4>2, OneMark
    <3>3. ASSUME NEW iface \in allIfaces(classes), anyIsolation(classes)
          PROVE  Dropped(c.cgroupPath, iface) <=> Forbidden(c, iface)
      <4>1. isoChain.jump /\ isoChain.rules = DropRules(classes)
        BY <3>3 DEF SetInv, DropsSet, Chain
      <4> QED BY <2>1, <3>2, <4>1, DropsAreForbidden DEF Dropped
    <3>4. ASSUME NEW iface, Forbidden(c, iface) PROVE anyIsolation(classes)
      BY <2>1, <3>4 DEF Forbidden, anyIsolation
    <3> QED BY <2>2, <2>3, <3>2, <3>3, <3>4
  <2> QED BY <2>4, <2>5
<1> QED BY <1>1, SetInvariant, PTL

-----------------------------------------------------------------------------
(* A restart and the isolation that is in force.                           *)

\* Traffic of class c is dropped on iface as the configuration asks.
InForce(c, iface) ==
    /\ Forbidden(c, iface)
    /\ c.cgroupPath \in DOMAIN cgroups /\ cgroups[c.cgroupPath] = c.classid
    /\ MarksOf(c.cgroupPath) = {c.mark}
    /\ Dropped(c.cgroupPath, iface)

\* The mark and the DROP rule are what it takes.
LEMMA StillDropped ==
    ASSUME NEW d, NEW iface, NEW m, m \in MarksOf(d)', isoChain'.jump, <<iface, m>> \in isoChain'.rules
    PROVE  Dropped(d, iface)'
  BY DEF Dropped

\* What a step of a life may do to the kernel before cleanup().
LEMMA KernelStep ==
    ASSUME [Next]_vars, alive, pc \notin CleanupPcs
    PROVE  /\ UNCHANGED cgroups \/ createDirectory(cls) \/ writeClassid(cls)
           /\ UNCHANGED markChain \/ addIptablesMarkRules(classes)
           /\ UNCHANGED isoChain \/ addDropRules(classes)
<1> USE DEF mainVars, policyVars, alive
<1>1. CASE Startup
  BY <1>1
  DEF Startup, SetupDirectory, SetupClassid, SetupMarks, SetupRules, SetupDrops, SetupEndpoints,
      StartMonitors, StartApi, Abandon
<1>2. CASE Shutdown
  BY <1>2
  DEF Shutdown, JoinWatchdog, StopMonitors, StopApi, RemoveEndpoints,
      CleanRules, CleanDrops, CleanMarks, CleanDirectories, Return, CleanupPcs
<1>3. CASE UNCHANGED policyVars
  BY <1>3
<1>4. CASE LoopTest \/ EnterPause \/ Woken \/ MonitorEnters \/ Crash \/ WatchdogKill
           \/ Done \/ UNCHANGED vars
  BY <1>3, <1>4
  DEF LoopTest, EnterPause, Woken, MonitorEnters, Crash, WatchdogKill, Abandon, Done, vars
<1>5. ASSUME NEW sig, Signal(sig) PROVE UNCHANGED policyVars
  BY <1>5 DEF Signal
<1>6. ASSUME NEW file, Exec(file) PROVE FALSE
  BY <1>6 DEF Exec
<1>7. ASSUME NEW c, PathUp(c) \/ PathDown(c) \/ Register(c) PROVE UNCHANGED <<cgroups, markChain, isoChain>>
  BY <1>7 DEF PathUp, PathDown, Register
<1>9. ASSUME NEW iface, IfaceDown(iface) PROVE UNCHANGED <<cgroups, markChain, isoChain>>
  BY <1>9 DEF IfaceDown
<1>8. ASSUME NEW d, Leave(d) PROVE UNCHANGED <<cgroups, markChain, isoChain>>
  BY <1>8 DEF Leave
<1> QED BY <1>1, <1>2, <1>3, <1>4, <1>5, <1>6, <1>7, <1>8, <1>9 DEF Next, Main

\* Outside cleanup() no step lifts a drop that is in force: the directory keeps its
\* classid, the mark chain its mark and the isolation chain its rule.
LEMMA NoGap ==
    ASSUME LifeOK, DistinctDirectories(classes), [Next]_vars, pc \notin CleanupPcs,
           NEW c \in ClassesOf(classes), NEW iface \in allIfaces(classes), InForce(c, iface)
    PROVE  Dropped(c.cgroupPath, iface)'
<1> DEFINE d == c.cgroupPath
<1> USE DEF mainVars, policyVars, alive
<1>1. alive /\ Loaded(classes) /\ i \in DOMAIN classes
  <2>1. DOMAIN classes # {}
    BY DEF ClassesOf
  <2> QED BY <2>1 DEF LifeOK, LifeInv, VarsOK
<1>2. d \in DOMAIN cgroups /\ cgroups[d] = c.classid /\ isoChain.jump /\ c.mark \in MarksOf(d)
      /\ <<iface, c.mark>> \in isoChain.rules
  BY DEF InForce, Dropped
\* The directory keeps its classid.
<1>3. d \in DOMAIN (cgroups') /\ cgroups'[d] = c.classid
  <2>1. CASE UNCHANGED cgroups
    BY <1>2, <2>1
  <2>2. CASE createDirectory(cls)
    BY <1>2, <2>2 DEF createDirectory
  <2>3. CASE writeClassid(cls)
    <3>1. cls \in ClassesOf(classes)
      BY <1>1 DEF cls, ClassesOf
    <3>2. CASE cls.cgroupPath = d
      <4>1. cls = c
        BY <1>1, <3>1, <3>2, KeysTell
      <4> QED BY <1>2, <2>3, <4>1 DEF writeClassid
    <3>3. CASE cls.cgroupPath # d
      BY <1>2, <2>3, <3>3 DEF writeClassid
    <3> QED BY <3>2, <3>3
  <2> QED BY <1>1, <2>1, <2>2, <2>3, KernelStep
\* The packet keeps its mark.
<1>4. c.mark \in MarksOf(d)'
  <2>1. CASE UNCHANGED markChain
    BY <1>2, <1>3, <2>1 DEF MarksOf
  <2>2. CASE addIptablesMarkRules(classes)
    <3>1. markChain'.jump /\ <<c.classid, c.mark>> \in markChain'.rules
      BY <2>2 DEF addIptablesMarkRules, Chain
    <3> QED BY <1>3, <3>1 DEF MarksOf
  <2> QED BY <1>1, <2>1, <2>2, KernelStep
\* The rule is there.
<1>5. isoChain'.jump /\ <<iface, c.mark>> \in isoChain'.rules
  <2>1. CASE UNCHANGED isoChain
    BY <1>2, <2>1
  <2>2. CASE addDropRules(classes)
    <3>1. anyIsolation(classes)
      BY DEF InForce, Forbidden, anyIsolation
    <3>2. <<iface, c.mark>> \in DropRules(classes)
      BY <1>1, DropsAreForbidden DEF InForce
    <3> QED BY <2>2, <3>1, <3>2 DEF addDropRules, Chain
  <2> QED BY <1>1, <2>1, <2>2, KernelStep
<1> QED BY <1>4, <1>5, StillDropped

\* A restart, and a start-up that fails, never lift an isolation that is in force, if
\* classes have directories of their own.
THEOREM RestartKeepsIsolation ==
    ASSUME OneDirectoryEach
    PROVE  Spec => IsolationNeverGaps
<1>1. LifeOK /\ SetInv /\ [Next]_vars =>
        [\A c \in ClassesOf(classes) : \A iface \in allIfaces(classes) :
            (/\ pc \notin CleanupPcs
             /\ Forbidden(c, iface)
             /\ c.cgroupPath \in DOMAIN cgroups /\ cgroups[c.cgroupPath] = c.classid
             /\ MarksOf(c.cgroupPath) = {c.mark}
             /\ Dropped(c.cgroupPath, iface))
            => Dropped(c.cgroupPath, iface)']_vars
  BY NoGap DEF SetInv, InForce
<1> QED BY <1>1, SetInvariant, PTL DEF Spec, IsolationNeverGaps
=============================================================================
