----------------------------- MODULE TmReports -----------------------------
(***************************************************************************)
(* How long a TM packet may be, and whose data it carries: pus_tm_build    *)
(* with the emitters that prepare a payload for it - ST[03] housekeeping   *)
(* and diagnostics, ST[05] events, ST[17] tests - in src/src/pus.c,        *)
(* pus_service_3.c, pus_service_5.c and pus_service_17.c.                  *)
(*                                                                         *)
(* Payload bytes are abstracted to their number and their origin; lengths  *)
(* are uint16_t.  An ST[03] emitter calls the provider of its structure    *)
(* before it builds: the provider may register structures and emit         *)
(* reports itself, so the collections under way form a stack.              *)
(***************************************************************************)
EXTENDS SlotTable, SequencesExt

CONSTANTS
    Sids,           \* structure ids
    Wrap,           \* values of a uint16_t (65536 in the code)
    HeaderLen,      \* PUS_TM_SEC_HEADER_LEN
    MaxPayload,     \* PUS_MAX_TM_PAYLOAD_LEN
    Lengths,        \* lengths callers and providers ask for
    Failures,       \* what providers and sinks return besides OK
    MaxDepth        \* bound: collections under way

IdLen == 2     \* SID_LEN, EVID_LEN, APID_LEN
Kinds == {"hk", "diag"}

Statuses == {"OK", "NULL", "BAD_LENGTH", "NO_HANDLER", "HANDLER_FAILED",
             "BUFFER_TOO_SMALL", "TABLE_FULL"}

\* The structures of ST[03] are found by id and kind; Values are the providers.
ASSUME KeysAssumption == Keys \subseteq Sids \X Kinds
ASSUME LengthsAssumption ==
    /\ HeaderLen \in Nat
    /\ MaxPayload \in Nat
    /\ Wrap \in Nat
    /\ HeaderLen + IdLen + MaxPayload < Wrap
    /\ Lengths \subseteq 0 .. Wrap - 1
\* Told apart from the refusals of the library itself.
ASSUME FailuresAssumption == Failures \subseteq Statuses \ {"OK", "BUFFER_TOO_SMALL", "BAD_LENGTH"}
ASSUME DepthAssumption == MaxDepth \in Nat

U16(n) == n % Wrap

VARIABLES
    structures,   \* s3->structures
    collecting,   \* the ST[03] emissions whose provider runs, innermost last
    asked,        \* history: what the last emission that was built or refused asked for
    packet,       \* history: the packet that came of it
    registered,   \* history: the provider registered last for each structure
    status        \* what the last emission returned

vars == <<structures, collecting, packet, asked, registered, status>>

Collections == [key : Keys, provider : Values]

\* What a payload is made of: the id its service puts in front, if any, and data
\* from the provider or the caller.
Sources == Values \cup {"caller", "none"}
Subtypes == Kinds \cup {"event", "alive", "connection", "telemetry"}
NoId == "none"
IdLenOf(subtype) == IF subtype \in Kinds \cup {"event"} THEN IdLen ELSE 0

Packets == [subtype : Subtypes, id : Sids \cup {NoId}, data : 0 .. Wrap - 1, from : Sources,
            len : 0 .. Wrap - 1, capacity : 0 .. Wrap - 1]

\* No packet came of it: as long as a header and as its buffer.
NoPacket == [subtype |-> "telemetry", id |-> NoId, data |-> 0, from |-> "none",
             len |-> HeaderLen, capacity |-> HeaderLen]

TypeOK ==
    /\ structures \in Tables
    /\ collecting \in Seq(Collections)
    /\ packet \in Packets
    /\ asked \in [subtype : Subtypes, data : Nat, room : Nat]
    /\ registered \in [Keys -> Values \cup {NoValue}]
    /\ status \in Statuses

----------------------------------------------------------------------------
(* pus_tm_build *)

\* (slip: the sum is checked alone, after it may have wrapped)
AcceptsTheSum(payload, capacity) == capacity >= U16(HeaderLen + payload)

\* (slip: a buffer that is exactly large enough is refused)
AcceptsSmaller(payload, capacity) ==
    /\ payload <= MaxPayload
    /\ capacity > U16(HeaderLen + payload)

\* The payload is checked alone before the sum is.
Accepts(payload, capacity) ==
    /\ payload <= MaxPayload
    /\ capacity >= U16(HeaderLen + payload)

\* The packet is complete when it is handed to the sink, whose status the call
\* returns; nothing of the state of this module changes after that.
Build(subtype, id, data, from, payload, capacity) ==
    IF Accepts(payload, capacity)
    THEN /\ packet' = [subtype |-> subtype, id |-> id, data |-> data, from |-> from,
                       len |-> U16(HeaderLen + payload), capacity |-> capacity]
         /\ status' \in {"OK"} \cup Failures
    ELSE /\ status' = "BUFFER_TOO_SMALL"
         /\ packet' = NoPacket

Asks(subtype, data, room) == asked' = [subtype |-> subtype, data |-> data, room |-> room]

\* The application builds a packet into a buffer of its own.
TmBuild(payload, capacity) ==
    /\ Asks("telemetry", payload, capacity)
    /\ Build("telemetry", NoId, payload, "caller", payload, capacity)
    /\ UNCHANGED <<structures, collecting, registered>>

\* ST[05], pus_service_5_emit, into a buffer of MAX_OUT_LEN bytes. ST[03] has the same.
MaxOutLen == HeaderLen + IdLen + MaxPayload
EmitEvent(sid, aux) ==
    /\ Asks("event", aux, MaxOutLen)
    /\ IF aux > MaxPayload
       THEN status' = "BUFFER_TOO_SMALL" /\ packet' = NoPacket
       ELSE Build("event", sid, aux, "caller", U16(IdLen + aux), MaxOutLen)
    /\ UNCHANGED <<structures, collecting, registered>>

\* ST[17]: the payload of TM[17,2] is empty, that of TM[17,4] an APID.
EmitTest(subtype) ==
    LET payload == IF subtype = "connection" THEN IdLen ELSE 0 IN
    /\ Asks(subtype, payload, HeaderLen + IdLen)
    /\ Build(subtype, NoId, payload, "caller", payload, HeaderLen + IdLen)
    /\ UNCHANGED <<structures, collecting, registered>>

----------------------------------------------------------------------------
(* ST[03] *)

Nobody == [k \in Keys |-> NoValue]

Init ==
    /\ structures = EmptyTable
    /\ collecting = <<>>
    /\ packet = NoPacket
    /\ asked = [subtype |-> "telemetry", data |-> 0, room |-> HeaderLen]
    /\ registered = Nobody
    /\ status = "OK"

InitService ==
    /\ structures' = EmptyTable
    /\ registered' = Nobody
    /\ UNCHANGED <<collecting, packet, asked, status>>

\* pus_service_3_register_hk and pus_service_3_register_diag; TABLE_FULL changes
\* nothing.
RegisterStructure(key, provider) ==
    /\ CanStore(structures, key)
    /\ structures' = Store(structures, key, provider)
    /\ registered' = [registered EXCEPT ![key] = provider]
    /\ UNCHANGED <<collecting, packet, asked, status>>

\* (slip: the first entry of the structure id, of either kind)
EntryOfSid(key) ==
    LET found == {i \in UsedSlots(structures) : structures[i].key[1] = key[1]} IN
    IF found = {} THEN -1 ELSE First(found)

\* find_entry
FindEntry(key) == Find(structures, key)

\* pus_service_3_emit_hk and pus_service_3_emit_diag, up to the call of the provider.
BeginReport(key) ==
    /\ Len(collecting) < MaxDepth
    /\ IF FindEntry(key) < 0
       THEN status' = "NO_HANDLER" /\ UNCHANGED collecting
       ELSE /\ collecting' = Append(collecting,
                                    [key |-> key, provider |-> structures[FindEntry(key)].val])
            /\ UNCHANGED status
    /\ UNCHANGED <<structures, packet, asked, registered>>

\* The provider returned OK and says that it wrote n bytes.
FinishReport(n) ==
    /\ collecting # <<>>
    /\ collecting' = Front(collecting)
    /\ LET c == Last(collecting) IN
       /\ Asks(c.key[2], n, MaxOutLen)
       /\ IF n > MaxPayload
          THEN status' = "BAD_LENGTH" /\ packet' = NoPacket
          ELSE Build(c.key[2], c.key[1], n, c.provider, U16(IdLen + n), MaxOutLen)
    /\ UNCHANGED <<structures, registered>>

\* The provider failed.
AbandonReport(st) ==
    /\ collecting # <<>>
    /\ collecting' = Front(collecting)
    /\ status' = st
    /\ UNCHANGED <<structures, packet, asked, registered>>

----------------------------------------------------------------------------
Next ==
    \/ \E payload, capacity \in Lengths : TmBuild(payload, capacity)
    \/ \E sid \in Sids, n \in Lengths : EmitEvent(sid, n)
    \/ \E subtype \in {"alive", "connection"} : EmitTest(subtype)
    \/ InitService
    \/ \E key \in Keys, v \in Values : RegisterStructure(key, v)
    \/ \E key \in Keys : BeginReport(key)
    \/ \E n \in Lengths : FinishReport(n)
    \/ \E st \in Failures : AbandonReport(st)

Spec == Init /\ [][Next]_vars

----------------------------------------------------------------------------
(* Properties *)

\* Every packet that reaches the sink is exactly its header, its id and its data
\* long, without a wrap, and lies within the buffer it was built in: the guards of
\* pus_tm_build, of ST[03] and of ST[05] together keep every sum in a uint16_t and
\* every copy in its array (pus.c:123-141).
PacketsFitTheirBuffers ==
    /\ packet.len = HeaderLen + IdLenOf(packet.subtype) + packet.data
    /\ packet.len <= packet.capacity

\* A request is refused as too long only when it is: a payload of exactly the
\* maximum and a buffer of exactly the length of the packet are served
\* (pus.c:124-131, pus_service_3.c:110, pus_service_5.c:31).
Needs(a) == HeaderLen + IdLenOf(a.subtype) + a.data
RefusedOnlyWhenTooLong ==
    status \in {"BUFFER_TOO_SMALL", "BAD_LENGTH"} =>
        \/ Needs(asked) > asked.room
        \/ Needs(asked) > HeaderLen + MaxPayload

\* A report is collected by the provider registered last for its id and its kind,
\* also after the table was full, overwritten, initialised or registered into by a
\* provider that runs; a structure nobody registered is not collected at all.
CollectedByItsProvider ==
    [][Len(collecting') > Len(collecting) =>
         Last(collecting').provider = registered[Last(collecting').key]]_vars

\* What the comments say of the payloads of ST[03] and ST[05] ("up to
\* PUS_MAX_TM_PAYLOAD_LEN", pus_service_3.c:10 and pus_service_5.c:8): that much data
\* behind the id is not refused. The id counts in pus_tm_build, so it is.
DocumentedPayloadIsSent ==
    asked.subtype \in Kinds \cup {"event"} /\ asked.data <= MaxPayload =>
        status # "BUFFER_TOO_SMALL"
=============================================================================
