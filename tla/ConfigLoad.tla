----------------------------- MODULE ConfigLoad -----------------------------
(***************************************************************************)
(* ConfigLoader against a reference: what a configuration file should say, *)
(* in numbers without widths, and what the rest of the daemon takes from   *)
(* it.  One behaviour per file: the file is there and is loaded.           *)
(***************************************************************************)
EXTENDS ConfigLoader

CONSTANT Files      \* the contents the file may have

ASSUME FilesAssumption == \A f \in Files : IsFile(f)

VARIABLES file, result

vars == <<file, result>>

Unread == Failure("unread")

Init == file \in Files /\ result = Unread

Load ==
    /\ result = Unread
    /\ result' = loadFromFile(file)
    /\ UNCHANGED file

Done == result # Unread /\ UNCHANGED vars

Next == Load \/ Done

Spec == Init /\ [][Next]_vars

-----------------------------------------------------------------------------
(* The reference.                                                          *)

Entries == file.classes.items

IsNumeral(j) == j.kind = "string" /\ j.numeric

\* A number the text of a 32-bit field may give, and one an int holds.
Fits(n) == 0 < n /\ n <= UintMax
FitsInt(n) == -(IntRange \div 2) <= n /\ n < IntRange - IntRange \div 2

\* The thresholds an entry means, before any conversion.
Meant(j, default) == IF j.kind = "int" THEN j.num ELSE default
Thresholds(f) == {f.connect_min, f.warn, f.drop}
ThresholdsFit(f) == \A j \in Thresholds(f) : j.kind = "int" => FitsInt(j.num)

WellFormedEntry(e) ==
    /\ NonEmptyString(e.id) /\ NonEmptyString(e.cgroup_path)
    /\ IsNumeral(e.classid) /\ Fits(e.classid.num)
    /\ IsNumeral(e.mark) /\ Fits(e.mark.num)
    /\ e.routing_table.kind = "int" /\ e.routing_table.num \in 1 .. MaxTable
    /\ e.interfaces.kind = "array" /\ Len(e.interfaces.items) > 0
    /\ \A i \in DOMAIN e.interfaces.items : NonEmptyString(e.interfaces.items[i])
    /\ e.mptcp_enabled.kind = "bool"
    /\ e.strict_isolation.kind \in {"absent", "bool"}
    /\ \/ e.rssi.kind = "absent"
       \/ /\ e.rssi.kind = "object"
          /\ ThresholdsFit(e.rssi.fields)
          /\ Meant(e.rssi.fields.warn, DefaultWarn) > Meant(e.rssi.fields.drop, DefaultDrop)

\* No two entries share a key that tells traffic apart.
Separable(entries) ==
    \A i, k \in DOMAIN entries :
        \/ i = k
        \/ /\ entries[i].id.text # entries[k].id.text
           /\ entries[i].classid.num # entries[k].classid.num
           /\ entries[i].mark.num # entries[k].mark.num
           /\ entries[i].routing_table.num # entries[k].routing_table.num

WellFormed ==
    /\ file.status = "document" /\ file.classes.kind = "array"
    /\ Len(Entries) > 0
    /\ \A i \in DOMAIN Entries : WellFormedEntry(Entries[i])
    /\ Separable(Entries)

\* Some number of the entry is outside what its field can hold.
Overflows(e) ==
    \/ IsNumeral(e.classid) /\ ~Fits(e.classid.num)
    \/ IsNumeral(e.mark) /\ ~Fits(e.mark.num)
    \/ e.routing_table.kind = "int" /\ ~FitsInt(e.routing_table.num)
    \/ e.rssi.kind = "object" /\ ~ThresholdsFit(e.rssi.fields)

Accepted == result.error = NoError

\* The numbers of a class are those of its entry.
Keeps(cls, e) ==
    /\ cls.classid = e.classid.num /\ cls.mark = e.mark.num
    /\ cls.routingTable = e.routing_table.num
    /\ e.rssi.kind = "object" =>
          /\ cls.rssi.connectMin = Meant(e.rssi.fields.connect_min, DefaultConnectMin)
          /\ cls.rssi.warn = Meant(e.rssi.fields.warn, DefaultWarn)
          /\ cls.rssi.drop = Meant(e.rssi.fields.drop, DefaultDrop)

(***************************************************************************)
(* What the daemon relies on in any configuration that loadFromFile()      *)
(* accepts, however odd its numbers: classes can be told apart by id,      *)
(* classid, mark and table; a mark is not the mark of unmarked traffic; a  *)
(* table is one the kernel has; the thresholds of the state machine are in *)
(* order; there is an interface to watch.                                  *)
(***************************************************************************)
AcceptedIsUsable ==
    Accepted =>
        /\ result.classes # <<>>
        /\ \A i, k \in DOMAIN result.classes :
              LET c == result.classes[i]  d == result.classes[k] IN
              (c.id = d.id \/ c.classid = d.classid \/ c.mark = d.mark
                  \/ c.routingTable = d.routingTable) => i = k
        /\ \A i \in DOMAIN result.classes :
              LET c == result.classes[i] IN
              /\ c.classid \in 1 .. UintMax /\ c.mark \in 1 .. UintMax
              /\ c.routingTable \in 1 .. MaxTable
              /\ c.rssi.warn > c.rssi.drop
              /\ c.interfaces # <<>>

(***************************************************************************)
(* A file that says what the reference asks for is loaded, and its numbers *)
(* arrive unchanged.                                                       *)
(***************************************************************************)
WellFormedIsLoaded ==
    (WellFormed /\ result # Unread) =>
        /\ Accepted
        /\ Len(result.classes) = Len(Entries)
        /\ \A i \in DOMAIN Entries : Keeps(result.classes[i], Entries[i])

(***************************************************************************)
(* Only a number that does not fit its field gets past the checks of       *)
(* parsePathClass() and validateClasses(): an accepted file that the       *)
(* reference rejects has an entry with such a number.                      *)
(***************************************************************************)
AcceptedIsWellFormed ==
    (Accepted /\ \A i \in DOMAIN Entries : ~Overflows(Entries[i])) => WellFormed

=============================================================================
