---------------------------- MODULE ConfigLoader ----------------------------
(***************************************************************************)
(* Loading and validating path-policies.json (config/config_loader.cpp): a *)
(* function from what is in the file to the path classes of the daemon or  *)
(* to the first error.                                                     *)
(*                                                                         *)
(* A JSON value is its kind and what the loader can read from it.  A       *)
(* string is numeric when std::stoul finds a number at its beginning       *)
(* (whatever the base and whatever follows).  Integers keep their widths.  *)
(***************************************************************************)
EXTENDS Integers, Sequences

CONSTANTS
    IntRange,       \* values of uint32_t, and of int: 2^32
    LongRange,      \* values of unsigned long: 2^32 or 2^64
    MaxTable,       \* the largest routing_table, 65534
    DefaultConnectMin, DefaultWarn, DefaultDrop     \* RssiThresholds{}

ASSUME WidthAssumption ==
    /\ IntRange \in Nat \ {0} /\ LongRange \in Nat /\ LongRange >= IntRange
    /\ MaxTable \in Nat /\ MaxTable < IntRange \div 2
    /\ DefaultConnectMin \in Int /\ DefaultWarn \in Int /\ DefaultDrop \in Int
    /\ DefaultWarn > DefaultDrop

UintMax == IntRange - 1

ConfigError == {"FileNotFound", "ParseError", "InvalidSchema", "MissingField", "InvalidValue"}
NoError == "none"

\* A JSON value.  A key that is not there is a value of kind "absent".
Absent == [kind |-> "absent"]
Text(s) == [kind |-> "string", text |-> s, numeric |-> FALSE, num |-> 0]
Numeral(n) == [kind |-> "string", text |-> "numeral", numeric |-> TRUE, num |-> n]
Integer(n) == [kind |-> "int", num |-> n]
Bool(b) == [kind |-> "bool", bool |-> b]
Array(s) == [kind |-> "array", items |-> s]
Object(f) == [kind |-> "object", fields |-> f]

NonEmptyString(j) == j.kind = "string" /\ j.text # ""

\* A sequence, and the numbers of a JSON value.
IsSequence(s) == s \in Seq({s[n] : n \in DOMAIN s})
NumbersOk(j) ==
    /\ j.kind = "int" => j.num \in Int
    /\ j.kind = "string" => j.numeric \in BOOLEAN /\ j.num \in Int

\* What nlohmann::json can give for a file: arrays are sequences, numbers integers.
IsFile(f) ==
    /\ f.status \in {"absent", "garbage", "document"}
    /\ f.classes.kind = "array" =>
        /\ IsSequence(f.classes.items)
        /\ \A n \in DOMAIN f.classes.items :
              LET e == f.classes.items[n] IN
              /\ NumbersOk(e.classid) /\ NumbersOk(e.mark) /\ NumbersOk(e.routing_table)
              /\ e.interfaces.kind = "array" => IsSequence(e.interfaces.items)
              /\ e.rssi.kind = "object" =>
                    /\ NumbersOk(e.rssi.fields.connect_min)
                    /\ NumbersOk(e.rssi.fields.warn) /\ NumbersOk(e.rssi.fields.drop)

-----------------------------------------------------------------------------
(* Numbers.                                                                *)

\* get<int>() of a 64-bit JSON integer keeps the low bits.
ToInt(n) == ((n + IntRange \div 2) % IntRange) - IntRange \div 2

\* std::stoul reads a sign and negates modulo LongRange; only the magnitude can
\* be out of its range.
InRange(n) == -LongRange < n /\ n < LongRange
stoul(n) == n % LongRange

\* With a bug: the limit is that of int.
hexErrorSigned(j) ==
    IF j.kind = "absent" THEN "MissingField"
    ELSE IF j.kind = "string" /\ j.numeric /\ InRange(j.num) /\ stoul(j.num) <= UintMax \div 2
    THEN NoError ELSE "InvalidValue"

\* parseHexField(): its error, and its value when there is none.
hexError(j) ==
    IF j.kind = "absent" THEN "MissingField"
    ELSE IF j.kind = "string" /\ j.numeric /\ InRange(j.num) /\ stoul(j.num) <= UintMax
    THEN NoError ELSE "InvalidValue"
hexValue(j) == stoul(j.num) % IntRange

-----------------------------------------------------------------------------
(* One path class.                                                         *)

\* The first of a sequence of errors that is one.
FirstError(errors) ==
    IF \A i \in DOMAIN errors : errors[i] = NoError THEN NoError
    ELSE errors[CHOOSE i \in DOMAIN errors :
                    /\ errors[i] # NoError
                    /\ \A k \in DOMAIN errors : k < i => errors[k] = NoError]

\* A required key of the right kind, with a value that is acceptable.
Require(ofKind, ok) ==
    IF ~ofKind THEN "MissingField" ELSE IF ok THEN NoError ELSE "InvalidValue"

\* A key that must be a hex string and not zero.
nonZeroHexError(j) ==
    IF hexError(j) # NoError THEN hexError(j)
    ELSE IF hexValue(j) = 0 THEN "InvalidValue" ELSE NoError

\* With a bug: an interface may have an empty name.
interfacesOkUnnamed(j) ==
    /\ j.items # <<>>
    /\ \A i \in DOMAIN j.items : j.items[i].kind = "string"

interfacesOk(j) ==
    /\ j.items # <<>>
    /\ \A i \in DOMAIN j.items : NonEmptyString(j.items[i])

\* parseRssiThresholds(): what is not an integer is ignored.
threshold(j, default) == IF j.kind = "int" THEN ToInt(j.num) ELSE default
parseRssiThresholds(f) ==
    [connectMin |-> threshold(f.connect_min, DefaultConnectMin),
     warn |-> threshold(f.warn, DefaultWarn),
     drop |-> threshold(f.drop, DefaultDrop)]

rssiOf(j) ==
    IF j.kind = "object" THEN parseRssiThresholds(j.fields)
    ELSE [connectMin |-> DefaultConnectMin, warn |-> DefaultWarn, drop |-> DefaultDrop]

rssiError(j) ==
    IF j.kind = "absent" \/ (j.kind = "object" /\ rssiOf(j).warn > rssiOf(j).drop)
    THEN NoError ELSE "InvalidValue"

tableError(j) == Require(j.kind = "int", ToInt(j.num) >= 1 /\ ToInt(j.num) <= MaxTable)

strictError(j) ==
    IF j.kind \in {"absent", "bool"} THEN NoError ELSE "InvalidValue"

\* parsePathClass(): the checks in the order of the code.
parseErrors(j) ==
    << Require(j.id.kind = "string", j.id.text # ""),
       nonZeroHexError(j.classid),
       Require(j.cgroup_path.kind = "string", j.cgroup_path.text # ""),
       Require(j.interfaces.kind = "array", interfacesOk(j.interfaces)),
       Require(j.mptcp_enabled.kind = "bool", TRUE),
       tableError(j.routing_table),
       nonZeroHexError(j.mark),
       strictError(j.strict_isolation),
       rssiError(j.rssi) >>

\* The class it makes of an entry that passed them.
parsePathClass(j) ==
    [id |-> j.id.text,
     classid |-> hexValue(j.classid),
     cgroupPath |-> j.cgroup_path.text,
     interfaces |-> [i \in DOMAIN j.interfaces.items |-> j.interfaces.items[i].text],
     mptcpEnabled |-> j.mptcp_enabled.bool,
     routingTable |-> ToInt(j.routing_table.num),
     mark |-> hexValue(j.mark),
     strictIsolation |-> (j.strict_isolation.kind = "bool" /\ j.strict_isolation.bool),
     rssi |-> rssiOf(j.rssi)]

-----------------------------------------------------------------------------
(* The file.                                                               *)

\* With a bug: routing tables are not compared.
validClassesButTables(classes) ==
    \A i, k \in DOMAIN classes : i # k =>
        /\ classes[i].id # classes[k].id
        /\ classes[i].classid # classes[k].classid
        /\ classes[i].mark # classes[k].mark

\* validateClasses() compares these four fields, and no other.
validClasses(classes) ==
    \A i, k \in DOMAIN classes : i # k =>
        /\ classes[i].id # classes[k].id
        /\ classes[i].classid # classes[k].classid
        /\ classes[i].mark # classes[k].mark
        /\ classes[i].routingTable # classes[k].routingTable

Failure(e) == [error |-> e, classes |-> <<>>]

\* A file is absent, not JSON, or a document; "classes" is its "path_classes".
loadFromFile(file) ==
    LET entries == file.classes.items
        error == FirstError([i \in DOMAIN entries |-> FirstError(parseErrors(entries[i]))])
        classes == [i \in DOMAIN entries |-> parsePathClass(entries[i])] IN
    IF file.status = "absent" THEN Failure("FileNotFound")
    ELSE IF file.status = "garbage" THEN Failure("ParseError")
    ELSE IF file.classes.kind # "array" THEN Failure("InvalidSchema")
    ELSE IF entries = <<>> THEN Failure("InvalidSchema")
    ELSE IF error # NoError THEN Failure(error)
    ELSE IF ~validClasses(classes) THEN Failure("InvalidValue")
    ELSE [error |-> NoError, classes |-> classes]

=============================================================================
