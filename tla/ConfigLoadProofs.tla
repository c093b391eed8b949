-------------------------- MODULE ConfigLoadProofs --------------------------
(***************************************************************************)
(* For every set of files and every width of the integers, loadFromFile()  *)
(* agrees with the reference of ConfigLoad: what it accepts the daemon can *)
(* use, what is well-formed it accepts, and what it accepts is well-formed *)
(* unless a number does not fit its field.                                 *)
(***************************************************************************)
EXTENDS ConfigLoad, ConfigLoaderProofs

-----------------------------------------------------------------------------
(* Numbers that fit their fields.                                          *)

\* A number below a width is itself modulo the width.
LEMMA SmallModulo ==
    ASSUME NEW w \in Nat \ {0}, NEW n \in 0 .. w - 1
    PROVE  n % w = n
  OBVIOUS

\* get<int>() keeps a number an int holds.
LEMMA IntKept ==
    ASSUME NEW n \in Int, FitsInt(n)
    PROVE  ToInt(n) = n
<1>1. IntRange \in Nat \ {0}
  BY WidthAssumption
<1>2. PICK half \in Int : half = IntRange \div 2
  BY <1>1
<1>3. n + half \in 0 .. IntRange - 1
  BY <1>1, <1>2 DEF FitsInt
<1>4. PICK sum \in 0 .. IntRange - 1 : sum = n + half
  BY <1>3
<1>5. sum % IntRange = sum
  BY <1>1, SmallModulo
<1> QED BY <1>1, <1>2, <1>4, <1>5 DEF ToInt

\* parseHexField() keeps a number that fits 32 bits.
LEMMA HexKept ==
    ASSUME NEW j, j.num \in Int, Fits(j.num)
    PROVE  InRange(j.num) /\ stoul(j.num) = j.num /\ hexValue(j) = j.num
<1>1. IntRange \in Nat \ {0} /\ LongRange \in Nat \ {0} /\ LongRange >= IntRange
  BY WidthAssumption
<1>2. j.num \in 0 .. IntRange - 1 /\ j.num \in 0 .. LongRange - 1
  BY <1>1 DEF Fits, UintMax
<1>3. stoul(j.num) = j.num
  BY <1>1, <1>2, SmallModulo DEF stoul
<1>4. hexValue(j) = j.num
  BY <1>1, <1>2, <1>3, SmallModulo DEF hexValue
<1> QED BY <1>1, <1>2, <1>3, <1>4 DEF InRange

\* The thresholds arrive as they are meant.
LEMMA ThresholdsKept ==
    ASSUME NEW f, NumbersOk(f.connect_min), NumbersOk(f.warn), NumbersOk(f.drop),
           ThresholdsFit(f)
    PROVE  LET r == parseRssiThresholds(f) IN
           /\ r.connectMin = Meant(f.connect_min, DefaultConnectMin)
           /\ r.warn = Meant(f.warn, DefaultWarn) /\ r.drop = Meant(f.drop, DefaultDrop)
<1>1. ASSUME NEW j \in Thresholds(f), NEW default, NumbersOk(j)
      PROVE  threshold(j, default) = Meant(j, default)
  BY <1>1, IntKept DEF threshold, Meant, ThresholdsFit, NumbersOk
<1>2. f.connect_min \in Thresholds(f) /\ f.warn \in Thresholds(f) /\ f.drop \in Thresholds(f)
  BY DEF Thresholds
<1> QED BY <1>1, <1>2 DEF parseRssiThresholds

-----------------------------------------------------------------------------
(* An entry against the reference.                                         *)

\* What is known of the numbers of an entry.
EntryOk(e) ==
    /\ NumbersOk(e.classid) /\ NumbersOk(e.mark) /\ NumbersOk(e.routing_table)
    /\ e.interfaces.kind = "array" => IsSequence(e.interfaces.items)
    /\ e.rssi.kind = "object" =>
          /\ NumbersOk(e.rssi.fields.connect_min)
          /\ NumbersOk(e.rssi.fields.warn) /\ NumbersOk(e.rssi.fields.drop)

\* The checks of parsePathClass(), one by one.
NoEntryError(e) ==
    /\ Require(e.id.kind = "string", e.id.text # "") = NoError
    /\ nonZeroHexError(e.classid) = NoError
    /\ Require(e.cgroup_path.kind = "string", e.cgroup_path.text # "") = NoError
    /\ Require(e.interfaces.kind = "array", interfacesOk(e.interfaces)) = NoError
    /\ Require(e.mptcp_enabled.kind = "bool", TRUE) = NoError
    /\ tableError(e.routing_table) = NoError
    /\ nonZeroHexError(e.mark) = NoError
    /\ strictError(e.strict_isolation) = NoError
    /\ rssiError(e.rssi) = NoError

\* An entry has no error when it passes every check.
LEMMA EntryErrors ==
    ASSUME NEW e
    PROVE  FirstError(parseErrors(e)) = NoError <=> NoEntryError(e)
<1> DEFINE errors == parseErrors(e)
           a == Require(e.id.kind = "string", e.id.text # "")
           b == nonZeroHexError(e.classid)
           c == Require(e.cgroup_path.kind = "string", e.cgroup_path.text # "")
           d == Require(e.interfaces.kind = "array", interfacesOk(e.interfaces))
           g == Require(e.mptcp_enabled.kind = "bool", TRUE)
           h == tableError(e.routing_table)
           k == nonZeroHexError(e.mark)
           l == strictError(e.strict_isolation)
           m == rssiError(e.rssi)
<1>1. errors = <<a, b, c, d, g, h, k, l, m>>
  BY Zenon DEF parseErrors
<1>2. NoEntryError(e) <=>
        /\ a = NoError /\ b = NoError /\ c = NoError /\ d = NoError /\ g = NoError
        /\ h = NoError /\ k = NoError /\ l = NoError /\ m = NoError
  BY Zenon DEF NoEntryError
<1> HIDE DEF a, b, c, d, g, h, k, l, m, errors
<1>3. /\ DOMAIN errors = 1 .. 9
      /\ errors[1] = a /\ errors[2] = b /\ errors[3] = c /\ errors[4] = d /\ errors[5] = g
      /\ errors[6] = h /\ errors[7] = k /\ errors[8] = l /\ errors[9] = m
  BY <1>1
<1>4. NoEntryError(e) <=> \A n \in DOMAIN errors : errors[n] = NoError
  BY <1>2, <1>3
<1>5. FirstError(errors) = NoError => \A n \in DOMAIN errors : errors[n] = NoError
  BY <1>3, NoFirstError
<1>6. (\A n \in DOMAIN errors : errors[n] = NoError) => FirstError(errors) = NoError
  BY DEF FirstError
<1>7. FirstError(errors) = NoError <=> NoEntryError(e)
  BY <1>4, <1>5, <1>6
<1> QED BY <1>7 DEF errors

\* A numeral that fits passes the checks of a hex field.
LEMMA HexAccepted ==
    ASSUME NEW j, NumbersOk(j), IsNumeral(j), Fits(j.num)
    PROVE  nonZeroHexError(j) = NoError /\ hexValue(j) = j.num
<1>1. j.num \in Int /\ j.kind = "string"
  BY DEF NumbersOk, IsNumeral
<1>2. InRange(j.num) /\ stoul(j.num) = j.num /\ hexValue(j) = j.num
  BY <1>1, HexKept
<1>3. stoul(j.num) <= UintMax /\ hexValue(j) # 0
  BY <1>1, <1>2 DEF Fits
<1>4. hexError(j) = NoError
  BY <1>1, <1>2, <1>3 DEF hexError, IsNumeral
<1> QED BY <1>2, <1>3, <1>4 DEF nonZeroHexError

\* A well-formed entry has no error, and its numbers are kept.
LEMMA EntryLoads ==
    ASSUME NEW e, EntryOk(e), WellFormedEntry(e)
    PROVE  NoEntryError(e) /\ Keeps(parsePathClass(e), e)
<1>1. /\ nonZeroHexError(e.classid) = NoError /\ hexValue(e.classid) = e.classid.num
      /\ nonZeroHexError(e.mark) = NoError /\ hexValue(e.mark) = e.mark.num
  BY HexAccepted DEF EntryOk, WellFormedEntry
<1>2. /\ Require(e.id.kind = "string", e.id.text # "") = NoError
      /\ Require(e.cgroup_path.kind = "string", e.cgroup_path.text # "") = NoError
      /\ Require(e.mptcp_enabled.kind = "bool", TRUE) = NoError
      /\ strictError(e.strict_isolation) = NoError
  BY DEF WellFormedEntry, NonEmptyString, Require, strictError
<1>3. Require(e.interfaces.kind = "array", interfacesOk(e.interfaces)) = NoError
  <2>1. e.interfaces.kind = "array" /\ e.interfaces.items # <<>>
        /\ \A n \in DOMAIN e.interfaces.items : NonEmptyString(e.interfaces.items[n])
    BY DEF WellFormedEntry
  <2>2. interfacesOk(e.interfaces)
    BY <2>1 DEF interfacesOk
  <2> QED BY <2>1, <2>2 DEF Require
<1>4. tableError(e.routing_table) = NoError /\ ToInt(e.routing_table.num) = e.routing_table.num
  <2>1. PICK half \in Int : half = IntRange \div 2
    BY WidthAssumption
  <2>2. e.routing_table.kind = "int" /\ e.routing_table.num \in 1 .. MaxTable
    BY DEF WellFormedEntry
  <2>3. FitsInt(e.routing_table.num)
    <3>1. IntRange \in Nat \ {0} /\ MaxTable \in Nat /\ MaxTable < half /\ half >= 0
          /\ half <= IntRange - half
      BY <2>1, WidthAssumption
    <3> QED BY <2>1, <2>2, <3>1 DEF FitsInt
  <2>4. ToInt(e.routing_table.num) = e.routing_table.num
    BY <2>2, <2>3, IntKept
  <2> QED BY <2>2, <2>4, WidthAssumption DEF tableError, Require
<1>5. e.rssi.kind = "object" =>
        /\ ThresholdsFit(e.rssi.fields)
        /\ Meant(e.rssi.fields.warn, DefaultWarn) > Meant(e.rssi.fields.drop, DefaultDrop)
  BY DEF WellFormedEntry
<1>6. e.rssi.kind = "object" =>
        /\ rssiOf(e.rssi).connectMin = Meant(e.rssi.fields.connect_min, DefaultConnectMin)
        /\ rssiOf(e.rssi).warn = Meant(e.rssi.fields.warn, DefaultWarn)
        /\ rssiOf(e.rssi).drop = Meant(e.rssi.fields.drop, DefaultDrop)
  BY <1>5, ThresholdsKept DEF EntryOk, rssiOf
<1>7. rssiError(e.rssi) = NoError
  BY <1>5, <1>6 DEF rssiError, WellFormedEntry
<1>8. NoEntryError(e)
  BY <1>1, <1>2, <1>3, <1>4, <1>7 DEF NoEntryError
<1>9. Keeps(parsePathClass(e), e)
  BY <1>1, <1>4, <1>6 DEF Keeps, parsePathClass
<1> QED BY <1>8, <1>9

\* A field parseHexField() accepts is a numeral, whose number arrives when it fits.
LEMMA HexMeant ==
    ASSUME NEW j, NumbersOk(j), nonZeroHexError(j) = NoError
    PROVE  IsNumeral(j) /\ (Fits(j.num) => hexValue(j) = j.num)
<1>1. hexError(j) = NoError
  BY DEF nonZeroHexError, NoError
<1>2. j.kind = "string" /\ j.numeric
  BY <1>1 DEF hexError, NoError
<1>3. j.num \in Int
  BY <1>2 DEF NumbersOk
<1> QED BY <1>2, <1>3, HexKept DEF IsNumeral

\* An entry without an error is well-formed, if its numbers fit their fields.
LEMMA LoadedEntry ==
    ASSUME NEW e, EntryOk(e), NoEntryError(e), ~Overflows(e)
    PROVE  /\ WellFormedEntry(e)
           /\ hexValue(e.classid) = e.classid.num /\ hexValue(e.mark) = e.mark.num
           /\ ToInt(e.routing_table.num) = e.routing_table.num
<1>1. /\ IsNumeral(e.classid) /\ Fits(e.classid.num) /\ hexValue(e.classid) = e.classid.num
      /\ IsNumeral(e.mark) /\ Fits(e.mark.num) /\ hexValue(e.mark) = e.mark.num
  BY HexMeant DEF EntryOk, NoEntryError, Overflows
<1>2. NonEmptyString(e.id) /\ NonEmptyString(e.cgroup_path)
  BY DEF NoEntryError, Require, NoError, NonEmptyString
<1>3. e.mptcp_enabled.kind = "bool" /\ e.strict_isolation.kind \in {"absent", "bool"}
  BY DEF NoEntryError, Require, NoError, strictError
<1>4. /\ e.interfaces.kind = "array" /\ Len(e.interfaces.items) > 0
      /\ \A n \in DOMAIN e.interfaces.items : NonEmptyString(e.interfaces.items[n])
  <2>1. e.interfaces.kind = "array" /\ interfacesOk(e.interfaces)
    BY DEF NoEntryError, Require, NoError
  <2>2. e.interfaces.items # <<>>
        /\ \A n \in DOMAIN e.interfaces.items : NonEmptyString(e.interfaces.items[n])
    BY <2>1 DEF interfacesOk
  <2>3. Len(e.interfaces.items) > 0
    BY <2>1, <2>2 DEF EntryOk, IsSequence
  <2> QED BY <2>1, <2>2, <2>3
<1>5. /\ e.routing_table.kind = "int" /\ e.routing_table.num \in 1 .. MaxTable
      /\ ToInt(e.routing_table.num) = e.routing_table.num
  <2>1. e.routing_table.kind = "int" /\ ToInt(e.routing_table.num) \in 1 .. MaxTable
    BY TableFits DEF EntryOk, NoEntryError, tableError, Require, NoError
  <2>2. e.routing_table.num \in Int /\ FitsInt(e.routing_table.num)
    BY <2>1 DEF EntryOk, NumbersOk, Overflows
  <2> QED BY <2>1, <2>2, IntKept
<1>6. \/ e.rssi.kind = "absent"
      \/ /\ e.rssi.kind = "object" /\ ThresholdsFit(e.rssi.fields)
         /\ Meant(e.rssi.fields.warn, DefaultWarn) > Meant(e.rssi.fields.drop, DefaultDrop)
  <2>1. e.rssi.kind = "absent" \/ (e.rssi.kind = "object" /\ rssiOf(e.rssi).warn > rssiOf(e.rssi).drop)
    BY DEF NoEntryError, rssiError, NoError
  <2>2. e.rssi.kind = "object" => ThresholdsFit(e.rssi.fields)
    BY DEF Overflows
  <2> QED BY <2>1, <2>2, ThresholdsKept DEF EntryOk, rssiOf
<1> QED BY <1>1, <1>2, <1>3, <1>4, <1>5, <1>6 DEF WellFormedEntry

-----------------------------------------------------------------------------
(* A file against the reference.                                           *)

\* What IsFile says of each entry, and of their sequence.
LEMMA FileEntries ==
    ASSUME NEW f, IsFile(f), f.classes.kind = "array"
    PROVE  /\ IsSequence(f.classes.items)
           /\ \A n \in DOMAIN f.classes.items : EntryOk(f.classes.items[n])
  BY DEF IsFile, EntryOk

\* A file is accepted when every entry passes the checks and no two classes collide.
LEMMA FileLoads ==
    ASSUME NEW f, f.status = "document", f.classes.kind = "array", f.classes.items # <<>>,
           \A n \in DOMAIN f.classes.items : FirstError(parseErrors(f.classes.items[n])) = NoError,
           validClasses([n \in DOMAIN f.classes.items |-> parsePathClass(f.classes.items[n])])
    PROVE  loadFromFile(f) =
             [error |-> NoError,
              classes |-> [n \in DOMAIN f.classes.items |-> parsePathClass(f.classes.items[n])]]
<1> DEFINE entries == f.classes.items
           errors == [n \in DOMAIN entries |-> FirstError(parseErrors(entries[n]))]
<1>1. FirstError(errors) = NoError
  <2>1. \A n \in DOMAIN errors : errors[n] = NoError
    OBVIOUS
  <2> HIDE DEF errors
  <2> QED BY <2>1 DEF FirstError
<1> QED BY <1>1 DEF loadFromFile

-----------------------------------------------------------------------------
(* The specification.                                                      *)

\* The result is the one of the file that is there.
LoadInv == file \in Files /\ (result = Unread \/ result = loadFromFile(file))

\* The result, once there is one, is that of the file.
LEMMA LoadInvariant == Spec => []LoadInv
<1>1. Init => LoadInv
  BY DEF Init, LoadInv
<1>2. LoadInv /\ [Next]_vars => LoadInv'
  BY DEF LoadInv, Next, Load, Done, vars
<1> QED BY <1>1, <1>2, PTL DEF Spec

\* Whatever is in the file and however wide the integers are, a configuration that
\* loadFromFile() accepts has classes that can be told apart and values the rest
\* of the daemon can use.
THEOREM AcceptedAlwaysUsable == Spec => []AcceptedIsUsable
<1>1. LoadInv => AcceptedIsUsable
  <2> SUFFICES ASSUME LoadInv, Accepted PROVE AcceptedIsUsable
    BY DEF AcceptedIsUsable
  <2>1. result = loadFromFile(file) /\ file \in Files
    BY DEF LoadInv, Accepted, Unread, Failure, NoError
  <2>2. loadFromFile(file).error = NoError
    BY <2>1 DEF Accepted
  <2>3. /\ result.classes # <<>>
        /\ validClasses(result.classes)
        /\ \A n \in DOMAIN result.classes : Usable(result.classes[n])
    BY <2>1, <2>2, LoadedIsUsable, FilesAssumption
  <2> QED BY <2>3 DEF AcceptedIsUsable, validClasses, Usable
<1> QED BY <1>1, LoadInvariant, PTL

(***************************************************************************)
(* Whatever is in the file, when it says what the reference asks for then  *)
(* loadFromFile() accepts it, makes one class of each entry, and the       *)
(* classid, the mark, the table and the thresholds of the class are the    *)
(* numbers in the file: no conversion on the way changes one.              *)
(***************************************************************************)
THEOREM WellFormedAlwaysLoaded == Spec => []WellFormedIsLoaded
<1>1. LoadInv => WellFormedIsLoaded
  <2> SUFFICES ASSUME LoadInv, WellFormed, result # Unread
               PROVE  /\ Accepted
                      /\ Len(result.classes) = Len(Entries)
                      /\ \A n \in DOMAIN Entries : Keeps(result.classes[n], Entries[n])
    BY DEF WellFormedIsLoaded
  <2>1. /\ result = loadFromFile(file) /\ IsFile(file)
        /\ file.status = "document" /\ file.classes.kind = "array"
        /\ Len(Entries) > 0 /\ Separable(Entries)
    BY FilesAssumption DEF LoadInv, WellFormed
  <2>2. IsSequence(Entries) /\ \A n \in DOMAIN Entries : EntryOk(Entries[n])
    BY <2>1, FileEntries DEF Entries
  <2>3. \A n \in DOMAIN Entries :
           NoEntryError(Entries[n]) /\ Keeps(parsePathClass(Entries[n]), Entries[n])
    BY <2>2, EntryLoads DEF WellFormed
  <2> DEFINE classes == [n \in DOMAIN Entries |-> parsePathClass(Entries[n])]
  <2>4. validClasses(classes)
    <3>1. ASSUME NEW n \in DOMAIN Entries
          PROVE  /\ classes[n].id = Entries[n].id.text
                 /\ classes[n].classid = Entries[n].classid.num
                 /\ classes[n].mark = Entries[n].mark.num
                 /\ classes[n].routingTable = Entries[n].routing_table.num
      BY <2>3 DEF Keeps, parsePathClass
    <3>2. DOMAIN classes = DOMAIN Entries
      OBVIOUS
    <3> HIDE DEF classes
    <3> QED BY <2>1, <3>1, <3>2 DEF Separable, validClasses
  <2>5. Entries # <<>>
    BY <2>1
  <2>6. result = [error |-> NoError, classes |-> classes]
    BY <2>1, <2>3, <2>4, <2>5, EntryErrors, FileLoads DEF Entries
  <2>7. Len(classes) = Len(Entries)
    BY <2>2 DEF IsSequence
  <2> QED BY <2>3, <2>6, <2>7 DEF Accepted
<1> QED BY <1>1, LoadInvariant, PTL

(***************************************************************************)
(* Whatever is in the file, the only thing that gets past the checks of    *)
(* parsePathClass() and validateClasses() against the reference is a       *)
(* number that does not fit its field: get<int>() and std::stoul() wrap    *)
(* before the value is looked at.                                          *)
(***************************************************************************)
THEOREM AcceptedAlwaysWellFormed == Spec => []AcceptedIsWellFormed
<1>1. LoadInv => AcceptedIsWellFormed
  <2> SUFFICES ASSUME LoadInv, Accepted, \A n \in DOMAIN Entries : ~Overflows(Entries[n])
               PROVE  WellFormed
    BY DEF AcceptedIsWellFormed
  <2> DEFINE classes == result.classes
             errors == [n \in DOMAIN Entries |-> FirstError(parseErrors(Entries[n]))]
  <2>1. result = loadFromFile(file) /\ file \in Files
    BY DEF LoadInv, Accepted, Unread, Failure, NoError
  <2>2. IsFile(file) /\ loadFromFile(file).error = NoError
    BY <2>1, FilesAssumption DEF Accepted
  <2>3. /\ file.classes.kind = "array" /\ Entries # <<>>
        /\ classes = [n \in DOMAIN Entries |-> parsePathClass(Entries[n])]
        /\ validClasses(classes)
        /\ FirstError(errors) = NoError
    BY <2>1, <2>2, AcceptedFile DEF Entries
  <2>4. file.status = "document"
    BY <2>2 DEF IsFile, loadFromFile, Failure, NoError
  <2>5. IsSequence(Entries) /\ \A n \in DOMAIN Entries : EntryOk(Entries[n])
    BY <2>2, <2>3, FileEntries DEF Entries
  <2>6. \A n \in DOMAIN Entries : FirstError(parseErrors(Entries[n])) = NoError
    <3>1. DOMAIN errors \subseteq Nat
      BY <2>5 DEF IsSequence
    <3>2. \A n \in DOMAIN errors : errors[n] = NoError
      <4> HIDE DEF errors
      <4> QED BY <2>3, <3>1, NoFirstError
    <3> QED BY <3>2
  <2>7. \A n \in DOMAIN Entries :
          /\ WellFormedEntry(Entries[n])
          /\ classes[n].id = Entries[n].id.text
          /\ classes[n].classid = Entries[n].classid.num
          /\ classes[n].mark = Entries[n].mark.num
          /\ classes[n].routingTable = Entries[n].routing_table.num
    BY <2>3, <2>5, <2>6, EntryErrors, LoadedEntry DEF parsePathClass
  <2>8. Separable(Entries)
    <3>1. DOMAIN classes = DOMAIN Entries
      BY <2>3
    <3> HIDE DEF classes
    <3> QED BY <2>3, <2>7, <3>1 DEF Separable, validClasses
  <2>9. Len(Entries) > 0
    BY <2>3, <2>5 DEF IsSequence
  <2> QED BY <2>3, <2>4, <2>7, <2>8, <2>9 DEF WellFormed
<1> QED BY <1>1, LoadInvariant, PTL

=============================================================================
