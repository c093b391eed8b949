------------------------- MODULE ConfigLoaderProofs -------------------------
(***************************************************************************)
(* Lemmas about loadFromFile(), for every width of the integers: a         *)
(* configuration that it accepts is one the daemon can use.                *)
(***************************************************************************)
EXTENDS ConfigLoader, WellFoundedInduction, TLAPS

\* A class as the daemon needs it.
Usable(c) ==
    /\ c.classid \in 1 .. UintMax /\ c.mark \in 1 .. UintMax
    /\ c.routingTable \in 1 .. MaxTable
    /\ c.rssi.warn > c.rssi.drop
    /\ c.interfaces # <<>>

-----------------------------------------------------------------------------
(* Sequences of errors.                                                    *)

\* A set of positions that is not empty has a first one.
LEMMA FirstPosition ==
    ASSUME NEW T, T \subseteq Nat, T # {}
    PROVE  \E n \in T : \A k \in T : ~(k < n)
<1>1. \E n \in T : \A k \in T : ~(<<k, n>> \in OpToRel(<, Nat))
  BY NatLessThanWellFounded, WFMin, Zenon
<1>2. \A k, n \in T : k < n => <<k, n>> \in OpToRel(<, Nat)
  BY DEF OpToRel
<1> QED BY <1>1, <1>2

\* loadFromFile() goes on only when no entry had an error.
LEMMA NoFirstError ==
    ASSUME NEW errors, DOMAIN errors \subseteq Nat, FirstError(errors) = NoError
    PROVE  \A n \in DOMAIN errors : errors[n] = NoError
<1> DEFINE T == {n \in DOMAIN errors : errors[n] # NoError}
           IsFirst(n) == /\ errors[n] # NoError
                         /\ \A k \in DOMAIN errors : k < n => errors[k] = NoError
<1>1. SUFFICES ASSUME T # {} PROVE FALSE
  OBVIOUS
<1>2. T \subseteq Nat
  OBVIOUS
<1>3. PICK n \in T : \A k \in T : ~(k < n)
  BY <1>1, <1>2, FirstPosition
<1>4. n \in DOMAIN errors /\ IsFirst(n)
  BY <1>3
<1>5. IsFirst(CHOOSE m \in DOMAIN errors : IsFirst(m))
  BY <1>4
<1>6. ~(\A k \in DOMAIN errors : errors[k] = NoError)
  BY <1>1
<1>7. FirstError(errors) = errors[CHOOSE m \in DOMAIN errors : IsFirst(m)]
  BY <1>6 DEF FirstError
<1> QED BY <1>5, <1>7

-----------------------------------------------------------------------------
(* One entry.                                                              *)

\* A number modulo a width is below it.
LEMMA Modulo ==
    ASSUME NEW n \in Int, NEW w \in Nat \ {0}
    PROVE  n % w \in 0 .. w - 1
  OBVIOUS

\* parseHexField() and the test for zero leave a value of 1 .. UintMax.
LEMMA HexFits ==
    ASSUME NEW j, NumbersOk(j), nonZeroHexError(j) = NoError
    PROVE  hexValue(j) \in 1 .. UintMax
<1>1. hexError(j) = NoError /\ hexValue(j) # 0
  BY DEF nonZeroHexError, NoError
<1>2. j.num \in Int
  BY <1>1 DEF hexError, NumbersOk, NoError
<1>3. LongRange \in Nat \ {0} /\ IntRange \in Nat \ {0}
  BY WidthAssumption
<1>4. stoul(j.num) \in Int
  BY <1>2, <1>3, Modulo DEF stoul
<1>5. hexValue(j) \in 0 .. IntRange - 1
  BY <1>3, <1>4, Modulo DEF hexValue
<1> QED BY <1>1, <1>3, <1>5 DEF UintMax

\* The range of routing_table is tested after the conversion.
LEMMA TableFits ==
    ASSUME NEW j, NumbersOk(j), tableError(j) = NoError
    PROVE  ToInt(j.num) \in 1 .. MaxTable
<1>1. j.kind = "int" /\ ToInt(j.num) >= 1 /\ ToInt(j.num) <= MaxTable
  BY DEF tableError, Require, NoError
<1>2. IntRange \in Nat \ {0} /\ MaxTable \in Nat
  BY WidthAssumption
<1>3. j.num \in Int
  BY <1>1 DEF NumbersOk
<1>4. IntRange \div 2 \in Int
  BY <1>2
<1>5. (j.num + IntRange \div 2) % IntRange \in Int
  <2>1. PICK half \in Int : half = IntRange \div 2
    BY <1>4
  <2>2. PICK sum \in Int : sum = j.num + half
    BY <1>3
  <2>3. sum % IntRange \in Int
    BY <1>2, Modulo
  <2> QED BY <2>1, <2>2, <2>3
<1>6. ToInt(j.num) \in Int
  BY <1>4, <1>5 DEF ToInt
<1> QED BY <1>1, <1>2, <1>6

\* The thresholds are in order, the default ones too.
LEMMA ThresholdsOrdered ==
    ASSUME NEW j, rssiError(j) = NoError
    PROVE  rssiOf(j).warn > rssiOf(j).drop
<1>1. CASE j.kind = "absent"
  BY <1>1, WidthAssumption DEF rssiOf
<1>2. CASE j.kind # "absent"
  BY <1>2 DEF rssiError, NoError
<1> QED BY <1>1, <1>2

\* A sequence that is not empty is not made so by a conversion of its elements.
LEMMA NotEmptied ==
    ASSUME NEW s, IsSequence(s), s # <<>>, NEW t, DOMAIN t = DOMAIN s
    PROVE  t # <<>>
<1>1. DOMAIN s = 1 .. Len(s) /\ Len(s) \in Nat \ {0}
  BY DEF IsSequence
<1>2. 1 \in DOMAIN t
  BY <1>1
<1>3. DOMAIN <<>> = {}
  OBVIOUS
<1> QED BY <1>2, <1>3

\* What parsePathClass() makes of an entry without an error.
LEMMA EntryUsable ==
    ASSUME NEW e, NumbersOk(e.classid), NumbersOk(e.mark), NumbersOk(e.routing_table),
           e.interfaces.kind = "array" => IsSequence(e.interfaces.items),
           FirstError(parseErrors(e)) = NoError
    PROVE  Usable(parsePathClass(e))
<1> DEFINE errors == parseErrors(e)
<1>1. DOMAIN errors = 1 .. 9
  <2> DEFINE idE == Require(e.id.kind = "string", e.id.text # "")
             pathE == Require(e.cgroup_path.kind = "string", e.cgroup_path.text # "")
             ifacesE == Require(e.interfaces.kind = "array", interfacesOk(e.interfaces))
             mptcpE == Require(e.mptcp_enabled.kind = "bool", TRUE)
  <2>1. errors = <<idE, nonZeroHexError(e.classid), pathE, ifacesE, mptcpE,
                   tableError(e.routing_table), nonZeroHexError(e.mark),
                   strictError(e.strict_isolation), rssiError(e.rssi)>>
    BY Zenon DEF parseErrors
  <2> HIDE DEF idE, pathE, ifacesE, mptcpE, errors
  <2> QED BY <2>1
<1>2. \A n \in 1 .. 9 : errors[n] = NoError
  BY <1>1, NoFirstError
<1>3. /\ nonZeroHexError(e.classid) = NoError
      /\ Require(e.interfaces.kind = "array", interfacesOk(e.interfaces)) = NoError
      /\ tableError(e.routing_table) = NoError
      /\ nonZeroHexError(e.mark) = NoError
      /\ rssiError(e.rssi) = NoError
  <2>1. errors[2] = NoError /\ errors[4] = NoError /\ errors[6] = NoError
        /\ errors[7] = NoError /\ errors[9] = NoError
    BY <1>2
  <2> QED BY <2>1 DEF parseErrors
<1>4. e.interfaces.kind = "array" /\ e.interfaces.items # <<>>
  BY <1>3 DEF Require, interfacesOk, NoError
<1>5. parsePathClass(e).interfaces # <<>>
  BY <1>4, NotEmptied DEF parsePathClass
<1>6. hexValue(e.classid) \in 1 .. UintMax /\ hexValue(e.mark) \in 1 .. UintMax
  BY <1>3, HexFits
<1>7. ToInt(e.routing_table.num) \in 1 .. MaxTable
  BY <1>3, TableFits
<1>8. rssiOf(e.rssi).warn > rssiOf(e.rssi).drop
  BY <1>3, ThresholdsOrdered
<1> QED BY <1>5, <1>6, <1>7, <1>8 DEF Usable, parsePathClass

-----------------------------------------------------------------------------
(* The file.                                                               *)

\* A file that loadFromFile() accepts has a class per entry, each made of an
\* entry without an error, and no two of them collide.
LEMMA AcceptedFile ==
    ASSUME NEW f, IsFile(f), loadFromFile(f).error = NoError
    PROVE  LET entries == f.classes.items
               classes == loadFromFile(f).classes IN
           /\ f.classes.kind = "array" /\ entries # <<>>
           /\ classes = [n \in DOMAIN entries |-> parsePathClass(entries[n])]
           /\ validClasses(classes)
           /\ FirstError([n \in DOMAIN entries |-> FirstError(parseErrors(entries[n]))]) = NoError
  BY DEF loadFromFile, Failure, NoError

\* What an accepted file gives the daemon.
LEMMA LoadedIsUsable ==
    ASSUME NEW f, IsFile(f), loadFromFile(f).error = NoError
    PROVE  LET classes == loadFromFile(f).classes IN
           /\ classes # <<>>
           /\ validClasses(classes)
           /\ \A n \in DOMAIN classes : Usable(classes[n])
<1> DEFINE entries == f.classes.items
           classes == loadFromFile(f).classes
           errors == [n \in DOMAIN entries |-> FirstError(parseErrors(entries[n]))]
<1>1. /\ f.classes.kind = "array" /\ entries # <<>>
      /\ classes = [n \in DOMAIN entries |-> parsePathClass(entries[n])]
      /\ validClasses(classes)
      /\ FirstError(errors) = NoError
  BY AcceptedFile
<1>2. IsSequence(entries)
  BY <1>1 DEF IsFile
<1>3. DOMAIN classes = DOMAIN entries
  BY <1>1
<1>4. classes # <<>>
  <2> HIDE DEF classes, entries
  <2> QED BY <1>1, <1>2, <1>3, NotEmptied
<1>5. DOMAIN errors \subseteq Nat
  BY <1>2 DEF IsSequence
<1>6. \A n \in DOMAIN entries : errors[n] = NoError
  <2>1. \A n \in DOMAIN errors : errors[n] = NoError
    <3> HIDE DEF errors
    <3> QED BY <1>1, <1>5, NoFirstError
  <2> QED BY <2>1
<1>7. ASSUME NEW n \in DOMAIN entries PROVE Usable(classes[n])
  <2>1. FirstError(parseErrors(entries[n])) = NoError
    BY <1>6
  <2>2. /\ NumbersOk(entries[n].classid) /\ NumbersOk(entries[n].mark)
        /\ NumbersOk(entries[n].routing_table)
        /\ entries[n].interfaces.kind = "array" => IsSequence(entries[n].interfaces.items)
    BY <1>1 DEF IsFile
  <2>3. Usable(parsePathClass(entries[n]))
    BY <2>1, <2>2, EntryUsable
  <2>4. classes[n] = parsePathClass(entries[n])
    BY <1>1
  <2> QED BY <2>3, <2>4
<1> QED BY <1>1, <1>3, <1>4, <1>7

=============================================================================
