---------------------------- MODULE PathStateFsm ----------------------------
(***************************************************************************)
(* The path state machine of one path class (fsm/path_state_fsm.cpp) with  *)
(* the callbacks main.cpp gives it: what a transition does to the default  *)
(* route in the class's routing table and to the MPTCP endpoint of the     *)
(* class's WiFi interface.                                                 *)
(*                                                                         *)
(* The machine runs on the thread of the class's WpaMonitor and nothing    *)
(* else touches it, so a call of onWpaEvent is one step.  The kernel is    *)
(* the environment: DHCP brings an address and a gateway, an interface     *)
(* that goes down takes its routes with it, netlink requests may fail.     *)
(***************************************************************************)
EXTENDS Integers

CONSTANTS
    Warn,           \* RssiThresholds::warn
    Drop,           \* RssiThresholds::drop
    Rssi,           \* the signal levels (dBm) an event may carry
    Iface,          \* the interface of the class, cls.interfaces.front()
    NoIface,        \* the empty activeIface_
    MptcpEnabled,   \* PathClassConfig::mptcpEnabled
    Faults          \* netlink requests that may fail

FaultKinds == {"addRoute", "delRoute", "addEndpoint"}

\* parsePathClass refuses a class whose warn is not above its drop.
ASSUME ThresholdsAssumption ==
    /\ Warn \in Int /\ Drop \in Int /\ Drop < Warn
    /\ Rssi \subseteq Int

ASSUME WiringAssumption ==
    /\ Iface # NoIface
    /\ MptcpEnabled \in BOOLEAN
    /\ Faults \subseteq FaultKinds

VARIABLES
    state,          \* state_
    activeIface,    \* activeIface_
    route,          \* the class's table has a default route through Iface
    lease,          \* what DHCP gave Iface: nothing, an address, a gateway too
    endpoint,       \* Iface's address is an MPTCP endpoint
    leaked          \* the route that is there was left by a RTM_DELROUTE that failed
                    \* or by an earlier daemon, which does not take it away at its end

fsmVars == <<state, activeIface, route, lease, endpoint, leaked>>

PathState == {"Idle", "Scanning", "Connecting", "PathUp", "PathDegraded", "PathDown"}
WpaEventType == {"Connected", "Disconnected", "SignalChange", "Terminating", "Other"}
WpaEvent == [type : WpaEventType, rssi : Rssi]
Lease == {"none", "address", "gateway"}

\* The states in which the path is in use.
Live == {"PathUp", "PathDegraded"}

isDownState(s) == s \in {"Idle", "PathDown", "Scanning", "Connecting"}

-----------------------------------------------------------------------------
(* The transition function.                                                *)

\* The state a signal level deserves.
Grade(rssi) ==
    IF rssi >= Warn THEN "PathUp"
    ELSE IF rssi >= Drop THEN "PathDegraded" ELSE "PathDown"

\* PathUp is left for PathDegraded however weak the signal is; only a further
\* event takes the path down.
Weaken(rssi) == IF rssi < Warn THEN "PathDegraded" ELSE "PathUp"

\* With a bug: a degraded path does not notice that its link is gone.
nextStateDeaf(current, ev) ==
    CASE ev.type = "Terminating"                                   -> "Idle"
      [] ev.type = "Disconnected" /\ current # "PathDegraded"      -> "PathDown"
      [] ev.type = "Connected" /\ isDownState(current)             -> Grade(ev.rssi)
      [] ev.type = "SignalChange" /\ current = "PathUp"            -> Weaken(ev.rssi)
      [] ev.type = "SignalChange" /\ current = "PathDegraded"      -> Grade(ev.rssi)
      [] OTHER                                                     -> current

nextState(current, ev) ==
    CASE ev.type = "Terminating"                                   -> "Idle"
      [] ev.type = "Disconnected"                                  -> "PathDown"
      [] ev.type = "Connected" /\ isDownState(current)             -> Grade(ev.rssi)
      [] ev.type = "SignalChange" /\ current = "PathUp"            -> Weaken(ev.rssi)
      [] ev.type = "SignalChange" /\ current = "PathDegraded"      -> Grade(ev.rssi)
      [] OTHER                                                     -> current

-----------------------------------------------------------------------------
(* The callbacks of main.cpp.                                              *)

\* A netlink request of kind k: the values after it, given the one it asks for.
Request(k, asked, old) == IF k \in Faults THEN {asked, old} ELSE {asked}

\* EEXIST for a route to add, ENOENT for one to delete: success.  Gives whether the
\* kernel did what it was asked.
sendRouteMsg(k, asked, done) ==
    \/ done /\ route' = asked
    \/ ~done /\ k \in Faults /\ UNCHANGED route
\* Resolving the generic netlink family, or the command itself, may fail.
sendEndpointCmd == endpoint' \in Request("addEndpoint", TRUE, endpoint)

\* The main table has a default route through Iface; Iface has an address.
queryGatewayForIface == lease = "gateway"
ifaceAddr4 == lease # "none"

addDefaultRoute == \E done \in BOOLEAN : sendRouteMsg("addRoute", TRUE, done)

\* With a bug: another table is asked for.  The kernel finds nothing there: success.
removeDefaultRouteElsewhere == leaked' = FALSE /\ UNCHANGED route

removeDefaultRoute ==
    \E done \in BOOLEAN :
       /\ sendRouteMsg("delRoute", FALSE, done)
       /\ leaked' = (route /\ ~done)
addEndpoints == IF ifaceAddr4 THEN sendEndpointCmd ELSE UNCHANGED endpoint

\* The gateway is looked up now and never again; without one no route is added.
onPathUp ==
    /\ IF queryGatewayForIface THEN addDefaultRoute ELSE UNCHANGED route
    /\ IF MptcpEnabled THEN addEndpoints ELSE UNCHANGED endpoint
    /\ leaked' = FALSE

\* The route goes; the endpoint is left alone.
onPathDown ==
    /\ removeDefaultRoute
    /\ UNCHANGED endpoint

NoCallback == UNCHANGED <<activeIface, route, endpoint, leaked>>

\* Entry to PathUp.
SetUp == activeIface' = Iface /\ onPathUp

\* With a bug: activeIface_ is cleared before it is used.
TearDownClearsFirst == activeIface' = NoIface /\ UNCHANGED <<route, endpoint, leaked>>

\* Entry to PathDown from a live state.  onPathDown needs an activeIface_.
TearDown ==
    /\ activeIface' = NoIface
    /\ IF activeIface # NoIface THEN onPathDown
       ELSE UNCHANGED <<route, endpoint, leaked>>

transition(new) ==
    /\ state' = new
    /\ \/ new # state /\ new = "PathUp" /\ SetUp
       \/ new = "PathDown" /\ state \in Live /\ TearDown
       \/ /\ new = state \/ (new # "PathUp" /\ ~(new = "PathDown" /\ state \in Live))
          /\ NoCallback

onWpaEvent(ev) == transition(nextState(state, ev)) /\ UNCHANGED lease

-----------------------------------------------------------------------------
(* The kernel and the DHCP client.                                         *)

DhcpBound ==
    /\ lease' \in {"address", "gateway"}
    /\ UNCHANGED <<state, activeIface, route, endpoint, leaked>>

\* The interface loses its last address: its routes go, in every table.
IfaceDown ==
    /\ lease' = "none"
    /\ route' = FALSE
    /\ leaked' = FALSE
    /\ UNCHANGED <<state, activeIface, endpoint>>

KernelStep == DhcpBound \/ IfaceDown

\* main.cpp registers the endpoints of the addresses that exist at startup; an
\* earlier daemon may have left a route or an endpoint.
FsmInit ==
    /\ state = "Idle"
    /\ activeIface = NoIface
    /\ lease \in Lease
    /\ route \in IF lease = "none" THEN {FALSE} ELSE BOOLEAN
    /\ endpoint \in IF MptcpEnabled /\ lease # "none" THEN {TRUE} ELSE BOOLEAN
    /\ leaked = route

FsmNext == (\E ev \in WpaEvent : onWpaEvent(ev)) \/ KernelStep

FsmSpec == FsmInit /\ [][FsmNext]_fsmVars

-----------------------------------------------------------------------------
FsmTypeOK ==
    /\ state \in PathState
    /\ activeIface \in {Iface, NoIface}
    /\ route \in BOOLEAN
    /\ lease \in Lease
    /\ endpoint \in BOOLEAN
    /\ leaked \in BOOLEAN

(***************************************************************************)
(* transition() remembers the interface whose route it must take back: a   *)
(* route in the table belongs to an activeIface_, unless the kernel        *)
(* refused to delete it.  Were it forgotten while the route stands, no     *)
(* later event would remove the route.                                     *)
(***************************************************************************)
RouteOwned == route => (activeIface = Iface \/ leaked)

\* A path that is up knows its interface, so its teardown is not skipped.
UpHasIface == state = "PathUp" => activeIface = Iface

(***************************************************************************)
(* A live path that goes down takes its route with it: after the step into *)
(* PathDown the table has no route but one the kernel refused to delete.   *)
(***************************************************************************)
DownTakesRoute ==
    [][(state \in Live /\ state' = "PathDown") => (~route' \/ leaked')]_fsmVars

=============================================================================
