-------------------------- MODULE TmReportsProofs --------------------------
(***************************************************************************)
(* TM packet lengths for every header length, payload limit and width of   *)
(* an integer, and ST[03] collection for every table.                      *)
(***************************************************************************)
EXTENDS TmReports, SlotTableProofs, SequenceTheorems

\* A sum below the width does not wrap.
LEMMA Exact == ASSUME NEW n \in Nat, n < Wrap PROVE U16(n) = n
BY LengthsAssumption DEF U16

\* What a legal payload adds up to.
LEMMA SumIsExact ==
    ASSUME NEW payload \in Nat, payload <= MaxPayload
    PROVE  U16(HeaderLen + payload) = HeaderLen + payload
<1>1. HeaderLen + payload \in Nat /\ HeaderLen + payload < Wrap
  BY LengthsAssumption DEF IdLen
<1> QED BY <1>1, Exact

\* The same for a payload with an id.
LEMMA PayloadIsExact ==
    ASSUME NEW data \in Nat, data <= MaxPayload
    PROVE  U16(IdLen + data) = IdLen + data
<1>1. IdLen + data \in Nat /\ IdLen + data < Wrap
  BY LengthsAssumption DEF IdLen
<1> QED BY <1>1, Exact

\* A refused emission leaves no packet, which fits.
LEMMA NothingBuilt ==
    ASSUME packet' = NoPacket
    PROVE  PacketsFitTheirBuffers' /\ packet' \in Packets
<1>1. /\ packet'.subtype = "telemetry" /\ packet'.data = 0
      /\ packet'.len = HeaderLen /\ packet'.capacity = HeaderLen
  BY DEF NoPacket
<1>2. HeaderLen \in 0 .. Wrap - 1 /\ HeaderLen \in Nat /\ 0 \in 0 .. Wrap - 1
  BY LengthsAssumption DEF IdLen
<1>3. PacketsFitTheirBuffers'
  BY <1>1, <1>2 DEF PacketsFitTheirBuffers, IdLenOf, Kinds
<1>4. NoPacket \in Packets
  BY <1>2 DEF NoPacket, Packets, Subtypes, Sources
<1> QED BY <1>3, <1>4

----------------------------------------------------------------------------
\* A built packet fits, and a refused one did not, if the payload is the id and the
\* data.
LEMMA BuildResult ==
    ASSUME NEW subtype, NEW id, NEW data \in Nat, NEW from,
           NEW payload \in Nat, NEW capacity \in Nat,
           payload = IdLenOf(subtype) + data,
           Asks(subtype, data, capacity),
           Build(subtype, id, data, from, payload, capacity),
           PacketsFitTheirBuffers
    PROVE  PacketsFitTheirBuffers' /\ RefusedOnlyWhenTooLong'
<1>1. IdLenOf(subtype) \in Nat /\ HeaderLen \in Nat /\ MaxPayload \in Nat
  BY LengthsAssumption DEF IdLenOf, IdLen
<1>2. Needs(asked') = HeaderLen + payload /\ asked'.room = capacity
  BY <1>1, LengthsAssumption DEF Asks, Needs
<1>3. CASE Accepts(payload, capacity)
  <2>1. U16(HeaderLen + payload) = HeaderLen + payload /\ HeaderLen + payload <= capacity
    BY <1>3, SumIsExact DEF Accepts
  <2>2. /\ packet' = [subtype |-> subtype, id |-> id, data |-> data, from |-> from,
                      len |-> U16(HeaderLen + payload), capacity |-> capacity]
        /\ status' \in {"OK"} \cup Failures
    BY <1>3 DEF Build
  <2>3. /\ packet'.subtype = subtype /\ packet'.data = data
        /\ packet'.len = HeaderLen + payload /\ packet'.capacity = capacity
    BY <2>1, <2>2
  <2>4. PacketsFitTheirBuffers'
    BY <1>1, <2>1, <2>3 DEF PacketsFitTheirBuffers
  <2>5. status' \notin {"BUFFER_TOO_SMALL", "BAD_LENGTH"}
    BY <2>2, FailuresAssumption
  <2> QED BY <2>4, <2>5 DEF RefusedOnlyWhenTooLong
<1>4. CASE ~Accepts(payload, capacity)
  <2>1. status' = "BUFFER_TOO_SMALL" /\ packet' = NoPacket
    BY <1>4 DEF Build
  <2>2. PacketsFitTheirBuffers'
    BY <2>1, NothingBuilt
  <2>3. HeaderLen + payload > capacity \/ HeaderLen + payload > HeaderLen + MaxPayload
    BY <1>1, <1>4, SumIsExact DEF Accepts
  <2> QED BY <1>2, <2>2, <2>3 DEF RefusedOnlyWhenTooLong
<1> QED BY <1>3, <1>4

LengthInv ==
    /\ collecting \in Seq(Collections)
    /\ PacketsFitTheirBuffers
    /\ RefusedOnlyWhenTooLong

LEMMA FrontResult ==
    ASSUME collecting \in Seq(Collections), collecting # <<>>
    PROVE  /\ Front(collecting) \in Seq(Collections)
           /\ Len(Front(collecting)) = Len(collecting) - 1
           /\ Last(collecting) \in Collections
<1> DEFINE n == Len(collecting) - 1
<1>1. n \in Nat /\ \A i \in 1 .. n + 1 : collecting[i] \in Collections
  BY EmptySeq, LenProperties
<1>2. Front(collecting) = SubSeq(collecting, 1, n) /\ Last(collecting) = collecting[n + 1]
  BY <1>1 DEF Front, Last
<1> HIDE DEF n
<1>3. /\ SubSeq(collecting, 1, n) \in Seq(Collections)
      /\ Len(SubSeq(collecting, 1, n)) = IF 1 <= n THEN n - 1 + 1 ELSE 0
  BY <1>1, SubSeqProperties
<1>4. Len(Front(collecting)) = n /\ Last(collecting) \in Collections
  BY <1>1, <1>2, <1>3
<1> QED BY <1>2, <1>3, <1>4 DEF n

LEMMA AppendResult ==
    ASSUME collecting \in Seq(Collections), NEW c \in Collections
    PROVE  /\ Append(collecting, c) \in Seq(Collections)
           /\ Len(Append(collecting, c)) = Len(collecting) + 1
           /\ Last(Append(collecting, c)) = c
BY AppendProperties, LenProperties DEF Last

----------------------------------------------------------------------------
(* The table of structures: its lookup is the history of the registrations. *)

TableInv ==
    /\ structures \in Tables
    /\ NoDuplicates(structures)
    /\ Filled(structures)
    /\ registered \in [Keys -> Values \cup {NoValue}]
    /\ \A k \in Keys : Lookup(structures, k) = registered[k]

LEMMA EmptyTableInv ==
    ASSUME structures' = EmptyTable, registered' = Nobody
    PROVE  TableInv'
<1>1. Filled(EmptyTable)
  BY DEF Filled, UsedSlots, EmptyTable
<1>2. \A k \in Keys : Lookup(EmptyTable, k) = NoValue
  BY EmptyTableFacts DEF Lookup
<1> QED BY <1>1, <1>2, EmptyTableFacts DEF TableInv, Nobody

LEMMA InitTableInv == Init => TableInv
<1>1. Filled(EmptyTable)
  BY DEF Filled, UsedSlots, EmptyTable
<1>2. \A k \in Keys : Lookup(EmptyTable, k) = NoValue
  BY EmptyTableFacts DEF Lookup
<1> QED BY <1>1, <1>2, EmptyTableFacts DEF TableInv, Nobody, Init

LEMMA StepTableInv == TableInv /\ [Next]_vars => TableInv'
<1> SUFFICES ASSUME TableInv, [Next]_vars PROVE TableInv'
  OBVIOUS
<1>1. CASE InitService
  BY <1>1, EmptyTableInv DEF InitService
<1>2. ASSUME NEW k \in Keys, NEW v \in Values, RegisterStructure(k, v) PROVE TableInv'
  <2>1. structures' = Store(structures, k, v) /\ CanStore(structures, k)
    BY <1>2 DEF RegisterStructure
  <2>2. structures' \in Tables /\ NoDuplicates(structures') /\ Filled(structures')
    BY <2>1, StoreWrites, StoreKeepsNoDuplicates, StoreKeepsFilled DEF TableInv
  <2>3. \A m \in Keys : Lookup(structures', m) = IF m = k THEN v ELSE Lookup(structures, m)
    BY <2>1, LookupAfterStore DEF TableInv
  <2>4. registered' = [registered EXCEPT ![k] = v]
    BY <1>2 DEF RegisterStructure
  <2> QED BY <2>2, <2>3, <2>4 DEF TableInv
<1>3. ASSUME UNCHANGED <<structures, registered>> PROVE TableInv'
  BY <1>3 DEF TableInv
<1> QED BY <1>1, <1>2, <1>3 DEF Next, vars, TmBuild, EmitEvent, EmitTest, BeginReport,
                                FinishReport, AbandonReport

\* What a collection starts with.
LEMMA BeginResult ==
    ASSUME TableInv, collecting \in Seq(Collections), NEW key \in Keys, BeginReport(key)
    PROVE  /\ collecting' \in Seq(Collections)
           /\ Len(collecting') > Len(collecting) =>
                  Last(collecting').provider = registered[Last(collecting').key]
<1>1. CASE FindEntry(key) < 0
  BY <1>1, LenProperties DEF BeginReport
<1>2. CASE ~(FindEntry(key) < 0)
  <2> DEFINE p == structures[FindEntry(key)].val
             c == [key |-> key, provider |-> p]
  <2>1. collecting' = Append(collecting, c)
    BY <1>2 DEF BeginReport
  <2>2. Holding(structures, key) # {}
    BY <1>2, FindNegative DEF FindEntry
  <2>3. FindEntry(key) \in UsedSlots(structures)
    BY <2>2, FindResult DEF FindEntry, Holding
  <2>4. p \in Values /\ p = registered[key]
    BY <2>2, <2>3 DEF TableInv, Filled, Lookup, FindEntry
  <2>5. c \in Collections /\ c.provider = registered[c.key]
    BY <2>4 DEF Collections
  <2> HIDE DEF c
  <2> QED BY <2>1, <2>5, AppendResult
<1> QED BY <1>1, <1>2

----------------------------------------------------------------------------
LEMMA StepLengthInv == TableInv /\ LengthInv /\ [Next]_vars => LengthInv'
<1> SUFFICES ASSUME TableInv, LengthInv, [Next]_vars PROVE LengthInv'
  OBVIOUS
<1>l. Lengths \subseteq Nat /\ HeaderLen \in Nat /\ MaxPayload \in Nat /\ MaxOutLen \in Nat
  BY LengthsAssumption DEF MaxOutLen, IdLen
<1>k. MaxOutLen = HeaderLen + IdLen + MaxPayload
  BY DEF MaxOutLen
<1>1. ASSUME NEW payload \in Lengths, NEW capacity \in Lengths, TmBuild(payload, capacity)
      PROVE  LengthInv'
  <2>1. payload = IdLenOf("telemetry") + payload
    BY <1>l DEF IdLenOf, Kinds
  <2> QED BY <1>1, <1>l, <2>1, BuildResult DEF TmBuild, LengthInv
<1>2. ASSUME NEW sid \in Sids, NEW n \in Lengths, EmitEvent(sid, n) PROVE LengthInv'
  <2>1. CASE n > MaxPayload
    <3>1. asked' = [subtype |-> "event", data |-> n, room |-> MaxOutLen] /\ packet' = NoPacket
      BY <1>2, <2>1 DEF EmitEvent, Asks
    <3>2. Needs(asked') > HeaderLen + MaxPayload
      BY <1>l, <2>1, <3>1 DEF Needs, IdLenOf, IdLen
    <3> QED BY <1>2, <3>1, <3>2, NothingBuilt DEF LengthInv, RefusedOnlyWhenTooLong, EmitEvent
  <2>2. CASE n <= MaxPayload
    <3>1. U16(IdLen + n) = IdLenOf("event") + n /\ IdLenOf("event") + n \in Nat
      BY <1>l, <2>2, PayloadIsExact DEF IdLenOf, IdLen
    <3>2. Build("event", sid, n, "caller", U16(IdLen + n), MaxOutLen)
      BY <1>2, <1>l, <2>2 DEF EmitEvent
    <3> QED BY <1>2, <1>l, <3>1, <3>2, BuildResult DEF EmitEvent, LengthInv
  <2> QED BY <1>l, <2>1, <2>2
<1>3. ASSUME NEW subtype \in {"alive", "connection"}, EmitTest(subtype) PROVE LengthInv'
  <2> DEFINE payload == IF subtype = "connection" THEN IdLen ELSE 0
  <2>1. /\ payload \in Nat /\ HeaderLen + IdLen \in Nat
        /\ payload = IdLenOf(subtype) + payload
    BY <1>l DEF IdLenOf, IdLen, Kinds
  <2>2. /\ Asks(subtype, payload, HeaderLen + IdLen)
        /\ Build(subtype, NoId, payload, "caller", payload, HeaderLen + IdLen)
        /\ UNCHANGED collecting
    BY <1>3 DEF EmitTest
  <2> HIDE DEF payload
  <2> QED BY <2>1, <2>2, BuildResult DEF LengthInv
<1>4. ASSUME InitService \/ (\E key \in Keys, v \in Values : RegisterStructure(key, v))
      PROVE  LengthInv'
  BY <1>4 DEF InitService, RegisterStructure, LengthInv, PacketsFitTheirBuffers,
              RefusedOnlyWhenTooLong
<1>5. ASSUME NEW key \in Keys, BeginReport(key) PROVE LengthInv'
  <2>1. collecting' \in Seq(Collections)
    BY <1>5, BeginResult DEF LengthInv
  <2> QED BY <1>5, <2>1
          DEF BeginReport, LengthInv, PacketsFitTheirBuffers, RefusedOnlyWhenTooLong
<1>6. ASSUME NEW n \in Lengths, FinishReport(n) PROVE LengthInv'
  <2> DEFINE c == Last(collecting)
  <2>1. c \in Collections /\ collecting' \in Seq(Collections)
    BY <1>6, FrontResult DEF FinishReport, LengthInv
  <2>2. c.key \in Sids \X Kinds
    BY <2>1, KeysAssumption DEF Collections
  <2>3. IdLenOf(c.key[2]) = IdLen
    BY <2>2 DEF IdLenOf
  <2>4. Asks(c.key[2], n, MaxOutLen)
    BY <1>6 DEF FinishReport
  <2>5. CASE n > MaxPayload
    <3>1. asked' = [subtype |-> c.key[2], data |-> n, room |-> MaxOutLen] /\ packet' = NoPacket
      BY <1>6, <2>4, <2>5 DEF FinishReport, Asks
    <3> HIDE DEF c
    <3>2. Needs(asked') > HeaderLen + MaxPayload
      BY <1>l, <2>3, <2>5, <3>1 DEF Needs, IdLen
    <3> QED BY <2>1, <3>1, <3>2, NothingBuilt DEF LengthInv, RefusedOnlyWhenTooLong
  <2>6. CASE n <= MaxPayload
    <3>1. U16(IdLen + n) = IdLenOf(c.key[2]) + n /\ IdLenOf(c.key[2]) + n \in Nat
      BY <1>l, <2>3, <2>6, PayloadIsExact DEF IdLen
    <3>2. Build(c.key[2], c.key[1], n, c.provider, U16(IdLen + n), MaxOutLen)
      BY <1>6, <1>l, <2>6 DEF FinishReport
    <3> HIDE DEF c
    <3> QED BY <1>l, <2>1, <2>4, <3>1, <3>2, BuildResult DEF LengthInv
  <2> QED BY <1>l, <2>5, <2>6
<1>7. ASSUME NEW st \in Failures, AbandonReport(st) PROVE LengthInv'
  <2>1. collecting' \in Seq(Collections)
    BY <1>7, FrontResult DEF AbandonReport, LengthInv
  <2>2. status' \notin {"BUFFER_TOO_SMALL", "BAD_LENGTH"}
    BY <1>7, FailuresAssumption DEF AbandonReport
  <2> QED BY <1>7, <2>1, <2>2
          DEF AbandonReport, LengthInv, PacketsFitTheirBuffers, RefusedOnlyWhenTooLong
<1>8. CASE UNCHANGED vars
  BY <1>8 DEF vars, LengthInv, PacketsFitTheirBuffers, RefusedOnlyWhenTooLong
<1> QED BY <1>1, <1>2, <1>3, <1>4, <1>5, <1>6, <1>7, <1>8 DEF Next

LEMMA InitLengthInv == Init => LengthInv
<1> SUFFICES ASSUME Init PROVE LengthInv
  OBVIOUS
<1>1. collecting \in Seq(Collections)
  BY EmptySeq DEF Init
<1>2. PacketsFitTheirBuffers
  BY LengthsAssumption DEF Init, NoPacket, PacketsFitTheirBuffers, IdLenOf, Kinds
<1>3. RefusedOnlyWhenTooLong
  BY DEF Init, RefusedOnlyWhenTooLong
<1> QED BY <1>1, <1>2, <1>3 DEF LengthInv

----------------------------------------------------------------------------
(* Types *)

HistoryType ==
    /\ packet \in Packets
    /\ asked \in [subtype : Subtypes, data : Nat, room : Nat]
    /\ status \in Statuses

LEMMA LengthsFit ==
    /\ MaxOutLen \in 0 .. Wrap - 1
    /\ HeaderLen \in 0 .. Wrap - 1
    /\ HeaderLen + IdLen \in 0 .. Wrap - 1
    /\ Lengths \subseteq 0 .. Wrap - 1
    /\ \A n \in Nat : U16(n) \in 0 .. Wrap - 1
BY LengthsAssumption DEF MaxOutLen, IdLen, U16

\* Whatever is built, from whatever origin, or refused.
LEMMA BuildType ==
    ASSUME HistoryType, NEW subtype \in Subtypes, NEW id \in Sids \cup {NoId},
           NEW data \in 0 .. Wrap - 1, NEW from \in Sources, NEW payload \in Nat,
           NEW capacity \in 0 .. Wrap - 1,
           Asks(subtype, data, capacity),
           Build(subtype, id, data, from, payload, capacity)
    PROVE  HistoryType'
<1>1. asked' \in [subtype : Subtypes, data : Nat, room : Nat]
  BY DEF Asks
<1>2. HeaderLen + payload \in Nat
  BY LengthsAssumption
<1>3. CASE Accepts(payload, capacity)
  <2> DEFINE len == U16(HeaderLen + payload)
  <2>1. len \in 0 .. Wrap - 1
    BY <1>2, LengthsFit
  <2>2. packet' = [subtype |-> subtype, id |-> id, data |-> data, from |-> from,
                   len |-> len, capacity |-> capacity]
    BY <1>3 DEF Build
  <2> HIDE DEF len
  <2>3. packet' \in Packets
    BY <2>1, <2>2 DEF Packets
  <2>4. status' \in {"OK"} \cup Failures
    BY <1>3 DEF Build
  <2>5. status' \in Statuses
    BY <2>4, FailuresAssumption DEF Statuses
  <2> QED BY <1>1, <2>3, <2>5 DEF HistoryType
<1>4. CASE ~Accepts(payload, capacity)
  BY <1>1, <1>4, NothingBuilt DEF Build, HistoryType, Statuses
<1> QED BY <1>3, <1>4

LEMMA CollectionType ==
    ASSUME NEW c \in Collections
    PROVE  c.key[1] \in Sids /\ c.key[2] \in Subtypes /\ c.provider \in Sources
BY KeysAssumption DEF Collections, Subtypes, Sources

LEMMA StepHistoryType ==
    TableInv /\ LengthInv /\ HistoryType /\ [Next]_vars => HistoryType'
<1> SUFFICES ASSUME TableInv, LengthInv, HistoryType, [Next]_vars PROVE HistoryType'
  OBVIOUS
<1>1. ASSUME NEW payload \in Lengths, NEW capacity \in Lengths, TmBuild(payload, capacity)
      PROVE  HistoryType'
  <2>1. payload \in 0 .. Wrap - 1 /\ payload \in Nat /\ capacity \in 0 .. Wrap - 1
    BY LengthsFit
  <2> QED BY <1>1, <2>1, BuildType DEF TmBuild, Subtypes, Sources
<1>2. ASSUME NEW sid \in Sids, NEW n \in Lengths, EmitEvent(sid, n) PROVE HistoryType'
  <2>1. n \in 0 .. Wrap - 1 /\ n \in Nat /\ MaxOutLen \in 0 .. Wrap - 1
    BY LengthsFit
  <2>2. U16(IdLen + n) \in Nat
    BY <2>1, LengthsFit, LengthsAssumption DEF IdLen
  <2>3. CASE n > MaxPayload
    BY <1>2, <2>1, <2>3, NothingBuilt DEF EmitEvent, HistoryType, Asks, Subtypes, Statuses
  <2>4. CASE ~(n > MaxPayload)
    BY <1>2, <2>1, <2>2, <2>4, BuildType DEF EmitEvent, Subtypes, Sources
  <2> QED BY <2>3, <2>4
<1>3. ASSUME NEW subtype \in {"alive", "connection"}, EmitTest(subtype) PROVE HistoryType'
  <2> DEFINE payload == IF subtype = "connection" THEN IdLen ELSE 0
  <2>1. payload \in 0 .. Wrap - 1 /\ payload \in Nat
    BY LengthsAssumption DEF IdLen
  <2>2. /\ Asks(subtype, payload, HeaderLen + IdLen)
        /\ Build(subtype, NoId, payload, "caller", payload, HeaderLen + IdLen)
    BY <1>3 DEF EmitTest
  <2> HIDE DEF payload
  <2> QED BY <2>1, <2>2, LengthsFit, BuildType DEF Subtypes, Sources
<1>4. CASE InitService
  BY <1>4 DEF InitService, HistoryType
<1>5. ASSUME NEW key \in Keys, NEW v \in Values, RegisterStructure(key, v) PROVE HistoryType'
  BY <1>5 DEF RegisterStructure, HistoryType
<1>6. ASSUME NEW key \in Keys, BeginReport(key) PROVE HistoryType'
  BY <1>6 DEF BeginReport, HistoryType, Statuses
<1>7. ASSUME NEW n \in Lengths, FinishReport(n) PROVE HistoryType'
  <2> DEFINE c == Last(collecting)
  <2>1. c \in Collections
    BY <1>7, FrontResult DEF FinishReport, LengthInv
  <2>2. n \in 0 .. Wrap - 1 /\ n \in Nat /\ MaxOutLen \in 0 .. Wrap - 1
    BY LengthsFit
  <2>3. U16(IdLen + n) \in Nat
    BY <2>2, LengthsFit, LengthsAssumption DEF IdLen
  <2>4. /\ Asks(c.key[2], n, MaxOutLen)
        /\ IF n > MaxPayload
           THEN status' = "BAD_LENGTH" /\ packet' = NoPacket
           ELSE Build(c.key[2], c.key[1], n, c.provider, U16(IdLen + n), MaxOutLen)
    BY <1>7 DEF FinishReport
  <2> HIDE DEF c
  <2>5. c.key[1] \in Sids /\ c.key[2] \in Subtypes /\ c.provider \in Sources
    BY <2>1, CollectionType
  <2>6. CASE n > MaxPayload
    BY <2>2, <2>4, <2>5, <2>6, NothingBuilt DEF HistoryType, Asks, Statuses
  <2>7. CASE ~(n > MaxPayload)
    BY <2>2, <2>3, <2>4, <2>5, <2>7, BuildType
  <2> QED BY <2>6, <2>7
<1>8. ASSUME NEW st \in Failures, AbandonReport(st) PROVE HistoryType'
  BY <1>8, FailuresAssumption DEF AbandonReport, HistoryType
<1>9. CASE UNCHANGED vars
  BY <1>9 DEF vars, HistoryType
<1> QED BY <1>1, <1>2, <1>3, <1>4, <1>5, <1>6, <1>7, <1>8, <1>9 DEF Next

LEMMA InitHistoryType == Init => HistoryType
<1> SUFFICES ASSUME Init PROVE HistoryType
  OBVIOUS
<1>1. packet \in Packets
  BY LengthsFit, LengthsAssumption DEF Init, NoPacket, Packets, Subtypes, Sources
<1> QED BY <1>1, LengthsAssumption DEF Init, HistoryType, Subtypes, Statuses

\* Lengths stay within their width, and every packet has an origin.
THEOREM TypeCorrect == Spec => []TypeOK
<1>1. Init => TableInv /\ LengthInv /\ HistoryType
  BY InitTableInv, InitLengthInv, InitHistoryType
<1>2. TableInv /\ LengthInv /\ HistoryType /\ [Next]_vars
          => (TableInv /\ LengthInv /\ HistoryType)'
  BY StepTableInv, StepLengthInv, StepHistoryType
<1>3. TableInv /\ LengthInv /\ HistoryType => TypeOK
  BY DEF TableInv, LengthInv, HistoryType, TypeOK
<1> QED BY <1>1, <1>2, <1>3, PTL DEF Spec

----------------------------------------------------------------------------
(* Theorems *)

\* No sequence of emissions, with whatever lengths callers and providers ask for,
\* builds a packet outside its buffer or with a wrapped length.
THEOREM PacketsFit == Spec => []PacketsFitTheirBuffers
<1>1. Init => TableInv /\ LengthInv
  BY InitTableInv, InitLengthInv
<1>2. TableInv /\ LengthInv /\ [Next]_vars => (TableInv /\ LengthInv)'
  BY StepTableInv, StepLengthInv
<1>3. LengthInv => PacketsFitTheirBuffers
  BY DEF LengthInv
<1> QED BY <1>1, <1>2, <1>3, PTL DEF Spec

\* The checks of the lengths refuse nothing that fits.
THEOREM RefusalsAreJustified == Spec => []RefusedOnlyWhenTooLong
<1>1. Init => TableInv /\ LengthInv
  BY InitTableInv, InitLengthInv
<1>2. TableInv /\ LengthInv /\ [Next]_vars => (TableInv /\ LengthInv)'
  BY StepTableInv, StepLengthInv
<1>3. LengthInv => RefusedOnlyWhenTooLong
  BY DEF LengthInv
<1> QED BY <1>1, <1>2, <1>3, PTL DEF Spec

\* Whatever is registered while a provider runs, each structure is collected by the
\* provider registered last for it.
THEOREM ReportsAreCollectedRight == Spec => CollectedByItsProvider
<1>1. Init => TableInv /\ LengthInv
  BY InitTableInv, InitLengthInv
<1>2. TableInv /\ LengthInv /\ [Next]_vars => (TableInv /\ LengthInv)'
  BY StepTableInv, StepLengthInv
<1>3. TableInv /\ LengthInv /\ [Next]_vars =>
        [Len(collecting') > Len(collecting) =>
             Last(collecting').provider = registered[Last(collecting').key]]_vars
  <2> SUFFICES ASSUME TableInv, LengthInv, [Next]_vars, Len(collecting') > Len(collecting)
               PROVE  Last(collecting').provider = registered[Last(collecting').key]
    OBVIOUS
  <2>0. collecting \in Seq(Collections) /\ Len(collecting) \in Nat
    BY LenProperties DEF LengthInv
  <2>1. ASSUME NEW key \in Keys, BeginReport(key)
        PROVE  Last(collecting').provider = registered[Last(collecting').key]
    BY <2>0, <2>1, BeginResult
  <2>2. ASSUME collecting # <<>>, collecting' = Front(collecting) PROVE FALSE
    BY <2>0, <2>2, FrontResult
  <2>3. ASSUME UNCHANGED collecting PROVE FALSE
    BY <2>0, <2>3
  <2> QED BY <2>1, <2>2, <2>3 DEF Next, vars, TmBuild, EmitEvent, EmitTest, InitService,
                                  RegisterStructure, FinishReport, AbandonReport
<1> QED BY <1>1, <1>2, <1>3, PTL DEF Spec, CollectedByItsProvider
=============================================================================
