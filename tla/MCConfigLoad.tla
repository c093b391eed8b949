---------------------------- MODULE MCConfigLoad ----------------------------
(* ConfigLoad for TLC: files of one or two entries, each a correct one with *)
(* at most one field changed.  uint32_t has 4 bits and unsigned long 5, so  *)
(* that every wrap-around is among the values.                              *)
EXTENDS ConfigLoad

MCConnectMin == -2
MCWarn == -3
MCDrop == -5

Good(id, n) ==
    [id |-> Text(id), classid |-> Numeral(n), cgroup_path |-> Text(id),
     interfaces |-> Array(<<Text("wlan0"), Text("eth0")>>), mptcp_enabled |-> Bool(TRUE),
     routing_table |-> Integer(n), mark |-> Numeral(n), strict_isolation |-> Absent,
     rssi |-> Absent]

Rssi(w, d) == Object([connect_min |-> Absent, warn |-> w, drop |-> d])
ConnectMin(n) == Object([connect_min |-> Integer(n), warn |-> Absent, drop |-> Absent])

Strings == {Absent, Bool(TRUE), Text("")}
Hexes == {Absent, Integer(2), Text(""), Text("zz")}
         \cup {Numeral(n) : n \in {-33, -32, -31, -16, -15, -1, 0, 1, 15, 16, 17, 31, 32}}

Values == [
    id |-> Strings \cup {Text("a")},
    classid |-> Hexes,
    cgroup_path |-> Strings \cup {Text("a")},
    interfaces |-> {Absent, Text("wlan0"), Array(<<>>), Array(<<Text("")>>),
                    Array(<<Text("wlan0"), Integer(3)>>), Array(<<Text("wlan0")>>)},
    mptcp_enabled |-> {Absent, Integer(1), Bool(FALSE)},
    routing_table |-> {Absent, Text("1")}
                      \cup {Integer(n) : n \in {-15, -8, -1, 0, 1, 5, 6, 7, 8, 16, 17, 21}},
    mark |-> Hexes,
    strict_isolation |-> {Bool(FALSE), Bool(TRUE), Integer(0)},
    rssi |-> {Bool(TRUE), ConnectMin(7), ConnectMin(8)}
             \cup {Rssi(w, d) : w \in {Absent, Bool(TRUE)} \cup
                                      {Integer(n) : n \in {-16, -6, -3, 7, 8, 20}},
                                d \in {Absent, Integer(-3), Integer(-2), Integer(11)}}]

Variants(e) ==
    {e} \cup UNION {{[e EXCEPT ![key] = v] : v \in Values[key]} : key \in DOMAIN Values}

Document(entries) == [status |-> "document", classes |-> entries]

MCFiles ==
    {[status |-> s, classes |-> Absent] : s \in {"absent", "garbage", "document"}}
    \cup {Document(Text("x")), Document(Array(<<>>))}
    \cup {Document(Array(<<e>>)) : e \in Variants(Good("a", 1))}
    \cup {Document(Array(<<d, e>>)) : d \in Variants(Good("a", 1)), e \in Variants(Good("b", 2))}
=============================================================================
