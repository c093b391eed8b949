------------------------------ MODULE Gateway ------------------------------
(***************************************************************************)
(* The gateway of a default route on its way from /proc/net/route through  *)
(* queryGatewayForIface() to the RTA_GATEWAY attribute that                *)
(* addDefaultRoute() sends (routing/routing_policy_manager.cpp).  An       *)
(* address is its four octets as they are in memory and on the wire.       *)
(***************************************************************************)
EXTENDS Integers, Sequences

CONSTANTS
    Base,           \* values of an octet, 256
    LittleEndian,   \* the byte order of the host
    Addresses,      \* gateways: sequences of four octets
    Interfaces

VARIABLES
    table,      \* the lines of /proc/net/route: [dev, default, gateway]
    gwAddr,     \* what queryGatewayForIface() returned
    attribute   \* the octets of RTA_GATEWAY, or none

vars == <<table, gwAddr, attribute>>

None == <<>>

\* The number a host sees in four octets of its memory, and back.
Power(n) == <<1, Base, Base * Base, Base * Base * Base>>[n]
HostRead(o) ==
    LET weight(n) == Power(IF LittleEndian THEN n ELSE 5 - n) IN
    o[1] * weight(1) + o[2] * weight(2) + o[3] * weight(3) + o[4] * weight(4)
HostWrite(v) == CHOOSE o \in [1 .. 4 -> 0 .. Base - 1] : HostRead(o) = v

\* htonl() puts the most significant octet first in memory.
htonl(v) ==
    LET octet(n) == (v \div Power(5 - n)) % Base IN
    HostRead(<<octet(1), octet(2), octet(3), octet(4)>>)

\* The kernel prints the field, which is in network order, as a host number.
ProcText(o) == HostRead(o)

\* The first line of a default route of the interface decides.
queryGatewayForIface(iface) ==
    LET found == {n \in DOMAIN table : table[n].dev = iface /\ table[n].default} IN
    IF found = {} THEN 0
    ELSE htonl(ProcText(table[CHOOSE n \in found : \A m \in found : n <= m].gateway))

Line == [dev : Interfaces, default : BOOLEAN, gateway : Addresses]

Init ==
    /\ table \in [1 .. 2 -> Line]
    /\ gwAddr = 0 /\ attribute = None

\* onPathUp: the query, and the message if it found something.
PathUp(iface) ==
    /\ attribute = None
    /\ gwAddr' = queryGatewayForIface(iface)
    /\ attribute' = IF gwAddr' # 0 THEN HostWrite(gwAddr') ELSE None
    /\ UNCHANGED table

Done == attribute # None /\ UNCHANGED vars

Next == (\E iface \in Interfaces : PathUp(iface)) \/ Done

Spec == Init /\ [][Next]_vars

\* routing_policy_manager.hpp:85: queryGatewayForIface() "Returns the gateway in
\* network byte order": the octets of the attribute are those of the gateway of a
\* default route.
GatewayKept ==
    attribute # None =>
        \E n \in DOMAIN table : table[n].default /\ table[n].gateway = attribute

=============================================================================
