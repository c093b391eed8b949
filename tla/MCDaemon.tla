------------------------------ MODULE MCDaemon ------------------------------
(* Daemon for TLC.  Two configurations of two classes in the same          *)
(* directories: the second has no strict class, gives the class "mp" a     *)
(* classid that the old one aliases (16, read as 0x16) and another table,  *)
(* and gives the class "b2b" a new mark.  The third is not acceptable.     *)
EXTENDS Daemon

Class(id, classid, ifaces, mptcp, table, mark, strict) ==
    [id |-> Text(id), classid |-> Numeral(classid), cgroup_path |-> Text(id),
     interfaces |-> Array([n \in DOMAIN ifaces |-> Text(ifaces[n])]),
     mptcp_enabled |-> Bool(mptcp), routing_table |-> Integer(table),
     mark |-> Numeral(mark), strict_isolation |-> Bool(strict), rssi |-> Absent]

Document(entries) == [status |-> "document", classes |-> Array(entries)]

Strict == Document(<<Class("mp", 16, <<"wlan0">>, TRUE, 100, 1, FALSE),
                     Class("b2b", 17, <<"eth1">>, FALSE, 101, 2, TRUE)>>)
Changed == Document(<<Class("mp", 22, <<"wlan0">>, TRUE, 102, 1, FALSE),
                      Class("b2b", 17, <<"eth1">>, FALSE, 101, 3, FALSE)>>)
Bad == Document(<<Class("mp", 16, <<"wlan0">>, TRUE, 100, 0, FALSE)>>)

MCFiles == {Strict, Changed, Bad}
StrictFile == {Strict}
\* What the proofs about traffic assume of the files.
ASSUME MCDirectories == OneDirectoryEach

MCConnectMin == -70
MCWarn == -75
MCDrop == -85
=============================================================================
