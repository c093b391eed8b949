--------------------------- MODULE RoutingPolicy ---------------------------
(***************************************************************************)
(* RoutingPolicyManager (routing/routing_policy_manager.cpp): the state of *)
(* the kernel that ties a cgroup to a routing table - net_cls directories, *)
(* MARK rules, ip rules, the DROP rules of strict isolation and the        *)
(* default routes of the tables - and the operations that install and      *)
(* remove it.  When a path event asks for a route is in PathStateFsm.      *)
(*                                                                         *)
(* Each operation is a step on this state; who calls it, in which order,   *)
(* and what follows when it fails is in Daemon.  libiptc works on a copy   *)
(* of a table and commits it as a whole, so a change of a chain is one     *)
(* step; the order of the rules in a chain does not matter, because a      *)
(* classid has one MARK rule and DROP rules have one verdict.              *)
(***************************************************************************)
EXTENDS ConfigLoader

VARIABLES
    cgroups,    \* the directories that exist: their net_cls.classid
    busy,       \* directories that hold a process
    markChain,  \* NETSERVICE-MARK of mangle: rules <<classid, mark>>
    isoChain,   \* NETSERVICE-ISO of filter: rules <<interface, mark>>
    ipRules,    \* ip rules <<mark, table>> of the daemon's priority
    routes      \* default routes <<interface, table>> in the tables of classes

policyVars == <<cgroups, busy, markChain, isoChain, ipRules, routes>>

NoChain == [chain |-> FALSE, jump |-> FALSE, rules |-> {}]
Chain(rules) == [chain |-> TRUE, jump |-> TRUE, rules |-> rules]

PolicyInit ==
    /\ cgroups = [d \in {} |-> 0]
    /\ busy = {}
    /\ markChain = NoChain /\ isoChain = NoChain
    /\ ipRules = {} /\ routes = {}

ClassesOf(cfg) == {cfg[i] : i \in DOMAIN cfg}
InterfacesOf(c) == {c.interfaces[i] : i \in DOMAIN c.interfaces}
allIfaces(cfg) == UNION {InterfacesOf(c) : c \in ClassesOf(cfg)}

-----------------------------------------------------------------------------
(* setupOneClass().                                                        *)

\* With a bug: the directory is made anew.
createDirectoryAnew(c) ==
    cgroups' = [d \in DOMAIN cgroups \cup {c.cgroupPath} |->
                    IF d = c.cgroupPath THEN 0 ELSE cgroups[d]]

\* A directory that exists is kept; a new one has classid 0.
createDirectory(c) ==
    cgroups' = [d \in DOMAIN cgroups \cup {c.cgroupPath} |->
                    IF d \in DOMAIN cgroups THEN cgroups[d] ELSE 0]

\* The kernel writes net_cls.classid in decimal and ">> std::hex" reads the
\* digits as hexadecimal ones; a number that is too large is read as the maximum.
AsHex[n \in Nat] == IF n < 10 THEN n ELSE (16 * AsHex[n \div 10]) + (n % 10)
existing(d) == IF AsHex[cgroups[d]] > UintMax THEN UintMax ELSE AsHex[cgroups[d]]

\* With a bug: a classid that is there is taken for the right one.
writeClassidOnce(c) ==
    cgroups' = IF cgroups[c.cgroupPath] # 0 THEN cgroups
               ELSE [cgroups EXCEPT ![c.cgroupPath] = c.classid]

writeClassid(c) ==
    cgroups' = IF existing(c.cgroupPath) = c.classid THEN cgroups
               ELSE [cgroups EXCEPT ![c.cgroupPath] = c.classid]

-----------------------------------------------------------------------------
(* Rules.                                                                  *)

\* addIptablesMarkRules(): the chain is created or flushed, the jump added if it
\* is not there.
addIptablesMarkRules(cfg) ==
    markChain' = Chain({<<c.classid, c.mark>> : c \in ClassesOf(cfg)})

\* addIpRules() and removeIpRules(), for one class; EEXIST and ENOENT are success.
addIpRule(c) == ipRules' = ipRules \cup {<<c.mark, c.routingTable>>}
removeIpRule(c) == ipRules' = ipRules \ {<<c.mark, c.routingTable>>}

anyIsolation(cfg) == \E c \in ClassesOf(cfg) : c.strictIsolation

\* The DROP rules: (a) a strict class stays on its own interfaces, and (b) every
\* other class stays off them.
DropRules(cfg) ==
    UNION {{<<iface, S.mark>> : iface \in allIfaces(cfg) \ InterfacesOf(S)}
           \cup {<<iface, B.mark>> : iface \in InterfacesOf(S),
                                     B \in {C \in ClassesOf(cfg) : C.id # S.id}}
           : S \in {C \in ClassesOf(cfg) : C.strictIsolation}}

\* addDropRules(): without a strict class the chain is left as it is.
addDropRules(cfg) ==
    isoChain' = IF anyIsolation(cfg) THEN Chain(DropRules(cfg)) ELSE isoChain

\* What removeDropRules() and removeIptablesMarkRules() make of a chain when a
\* call fails: nothing is committed, or the jump or the rules stay, and with
\* either of them the chain.
PartlyRemoved(ch) ==
    {ch} \cup {[chain |-> TRUE, jump |-> j, rules |-> r] :
                    j \in {FALSE, ch.jump}, r \in {{}, ch.rules}}

\* cleanup() removes the directory of a class, if no process is in it.
CanRemove(c) == c.cgroupPath \notin busy
removeDirectory(c) ==
    cgroups' = [d \in IF CanRemove(c) THEN DOMAIN cgroups \ {c.cgroupPath}
                      ELSE DOMAIN cgroups |-> cgroups[d]]

-----------------------------------------------------------------------------
(* Default routes, through the first interface of the class.               *)

defaultRoute(c) == <<c.interfaces[1], c.routingTable>>

\* NLM_F_REPLACE: a table has one default route.
addDefaultRoute(c) ==
    routes' = {r \in routes : r[2] # c.routingTable} \cup {defaultRoute(c)}
removeDefaultRoute(c) == routes' = routes \ {defaultRoute(c)}

-----------------------------------------------------------------------------
(* What the kernel does with a packet of a process in a directory.         *)

\* The marks it may get.
MarksOf(d) ==
    IF d \in DOMAIN cgroups /\ markChain.jump
    THEN {r[2] : r \in {s \in markChain.rules : s[1] = cgroups[d]}} ELSE {}

\* It is dropped on its way out on iface.
Dropped(d, iface) ==
    isoChain.jump /\ \E m \in MarksOf(d) : <<iface, m>> \in isoChain.rules

=============================================================================
