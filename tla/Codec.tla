------------------------------- MODULE Codec -------------------------------
(***************************************************************************)
(* The wire format of the secondary headers (src/src/pus_codec.c): the     *)
(* four conversions between a header structure and its bytes, over a       *)
(* buffer that is reused - refilled by the encoders and by the link - and  *)
(* read by whoever expects a TC or a TM in it.                             *)
(*                                                                         *)
(* A uint32_t is a pair of its uint16_t halves, high half first: TLC has   *)
(* no integers of 32 bits.  Byte n of the C arrays is element n + 1 here.  *)
(***************************************************************************)
EXTENDS Integers, Sequences

CONSTANTS
    Version,     \* PUS_VERSION
    SentTc,      \* TC headers that are encoded
    SentTm,      \* TM headers that are encoded
    Noise,       \* what the link may put in the buffer
    Lengths      \* lengths and capacities callers pass

Byte == {n \in Nat : n < 256}
U16 == {n \in Nat : n < 65536}
U32 == U16 \X U16

TcLen == 10    \* PUS_TC_SEC_HEADER_LEN
TmLen == 12    \* PUS_TM_SEC_HEADER_LEN
Buffers == [1 .. TmLen -> Byte]

\* pus_tc_sec_header_t and pus_tm_sec_header_t: a four-bit field is a whole byte in
\* the structure.
TcHeaders == [version : Byte, ack_flags : Byte, service_type_id : Byte, subtype_id : Byte,
              source_id : U16, time : U32, spare : Byte]
TmHeaders == [version : Byte, time_ref_status : Byte, service_type_id : Byte,
              subtype_id : Byte, msg_type_counter : U16, destination_id : U16,
              time : U32, spare : Byte]

ASSUME VersionAssumption == Version \in 0 .. 15
ASSUME SentAssumption == SentTc \subseteq TcHeaders /\ SentTm \subseteq TmHeaders
ASSUME NoiseAssumption == Noise \subseteq Buffers
ASSUME LengthsAssumption == Lengths \subseteq Nat

----------------------------------------------------------------------------
(* The conversions *)

\* write_u16_be and read_u16_be; a 32-bit value is written as its two halves.
Hi(v) == v \div 256
Lo(v) == v % 256

\* (slip: the bytes are read in the other order)
ReadU16Swapped(hi, lo) == 256 * lo + hi

ReadU16(hi, lo) == 256 * hi + lo

\* (slip: the fields are not masked, and the low one spills into the high one)
NibblesUnmasked(high, low) == (16 * high + low) % 256

\* Two four-bit fields in a byte; the high bits of either are masked away.
Nibbles(high, low) == 16 * (high % 16) + (low % 16)

TcEncode(h) ==
    <<Nibbles(h.version, h.ack_flags), h.service_type_id, h.subtype_id,
      Hi(h.source_id), Lo(h.source_id),
      Hi(h.time[1]), Lo(h.time[1]), Hi(h.time[2]), Lo(h.time[2]),
      h.spare>>

TcDecode(p) ==
    [version |-> p[1] \div 16, ack_flags |-> p[1] % 16,
     service_type_id |-> p[2], subtype_id |-> p[3],
     source_id |-> ReadU16(p[4], p[5]),
     time |-> <<ReadU16(p[6], p[7]), ReadU16(p[8], p[9])>>,
     spare |-> p[10]]

\* (slip: the counter is written where the destination belongs, and back)
TmEncodeFieldsSwapped(h) ==
    <<Nibbles(h.version, h.time_ref_status), h.service_type_id, h.subtype_id,
      Hi(h.destination_id), Lo(h.destination_id),
      Hi(h.msg_type_counter), Lo(h.msg_type_counter),
      Hi(h.time[1]), Lo(h.time[1]), Hi(h.time[2]), Lo(h.time[2]),
      h.spare>>

TmEncode(h) ==
    <<Nibbles(h.version, h.time_ref_status), h.service_type_id, h.subtype_id,
      Hi(h.msg_type_counter), Lo(h.msg_type_counter),
      Hi(h.destination_id), Lo(h.destination_id),
      Hi(h.time[1]), Lo(h.time[1]), Hi(h.time[2]), Lo(h.time[2]),
      h.spare>>

TmDecode(p) ==
    [version |-> p[1] \div 16, time_ref_status |-> p[1] % 16,
     service_type_id |-> p[2], subtype_id |-> p[3],
     msg_type_counter |-> ReadU16(p[4], p[5]),
     destination_id |-> ReadU16(p[6], p[7]),
     time |-> <<ReadU16(p[8], p[9]), ReadU16(p[10], p[11])>>,
     spare |-> p[12]]

----------------------------------------------------------------------------
VARIABLES
    buffer,    \* the bytes, TmLen of them
    tc, tm,    \* the structures the decoders fill
    holds,     \* history: "tc" or "tm" while the buffer is as an encoder left it
    sent,      \* history: the header it encoded, in either structure
    status     \* what the last call returned

vars == <<buffer, tc, tm, holds, sent, status>>

Zeros == [i \in 1 .. TmLen |-> 0]

TypeOK ==
    /\ buffer \in Buffers
    /\ tc \in TcHeaders
    /\ tm \in TmHeaders
    /\ holds \in {"nothing", "tc", "tm"}
    /\ holds = "tc" => sent \in TcHeaders
    /\ holds = "tm" => sent \in TmHeaders
    /\ status \in {"OK", "BAD_LENGTH", "BAD_VERSION", "BUFFER_TOO_SMALL"}

Init ==
    /\ buffer = Zeros
    /\ tc = TcDecode(Zeros)
    /\ tm = TmDecode(Zeros)
    /\ holds = "nothing"
    /\ sent = TcDecode(Zeros)
    /\ status = "OK"

TooSmall == status' = "BUFFER_TOO_SMALL" /\ UNCHANGED <<buffer, tc, tm, holds, sent>>
TooShort == status' = "BAD_LENGTH" /\ UNCHANGED <<buffer, tc, tm, holds, sent>>

\* (slip: the buffer is taken to be as long as the header)
EncodeTcCuttingTheBuffer(h, capacity) ==
    IF capacity < TcLen THEN TooSmall
    ELSE /\ buffer' = TcEncode(h)
         /\ holds' = "tc" /\ sent' = h /\ status' = "OK"
         /\ UNCHANGED <<tc, tm>>

\* pus_tc_sec_header_encode: the last two bytes of the buffer stay.
EncodeTc(h, capacity) ==
    IF capacity < TcLen THEN TooSmall
    ELSE /\ buffer' = [i \in 1 .. TmLen |-> IF i <= TcLen THEN TcEncode(h)[i] ELSE buffer[i]]
         /\ holds' = "tc" /\ sent' = h /\ status' = "OK"
         /\ UNCHANGED <<tc, tm>>

\* pus_tm_sec_header_encode
EncodeTm(h, capacity) ==
    IF capacity < TmLen THEN TooSmall
    ELSE /\ buffer' = TmEncode(h)
         /\ holds' = "tm" /\ sent' = h /\ status' = "OK"
         /\ UNCHANGED <<tc, tm>>

\* pus_tc_sec_header_decode: the structure is filled before the version is checked.
DecodeTc(len) ==
    IF len < TcLen THEN TooShort
    ELSE /\ tc' = TcDecode(buffer)
         /\ status' = IF tc'.version = Version THEN "OK" ELSE "BAD_VERSION"
         /\ UNCHANGED <<buffer, tm, holds, sent>>

\* pus_tm_sec_header_decode: the version is not checked.
DecodeTm(len) ==
    IF len < TmLen THEN TooShort
    ELSE /\ tm' = TmDecode(buffer)
         /\ status' = "OK"
         /\ UNCHANGED <<buffer, tc, holds, sent>>

\* The link delivers other bytes (outside the library).
Receive(bytes) ==
    /\ buffer' = bytes
    /\ holds' = "nothing"
    /\ UNCHANGED <<tc, tm, sent, status>>

\* What was decoded may be sent on.
Next ==
    \/ \E h \in SentTc \cup {tc}, n \in Lengths : EncodeTc(h, n)
    \/ \E h \in SentTm \cup {tm}, n \in Lengths : EncodeTm(h, n)
    \/ \E n \in Lengths : DecodeTc(n)
    \/ \E n \in Lengths : DecodeTm(n)
    \/ \E bytes \in Noise : Receive(bytes)

Spec == Init /\ [][Next]_vars

----------------------------------------------------------------------------
(* Properties *)

\* What is left of a header on the wire: two fields are cut to four bits.
TcOnWire(h) ==
    [version |-> h.version % 16, ack_flags |-> h.ack_flags % 16,
     service_type_id |-> h.service_type_id, subtype_id |-> h.subtype_id,
     source_id |-> h.source_id, time |-> h.time, spare |-> h.spare]
TmOnWire(h) ==
    [version |-> h.version % 16, time_ref_status |-> h.time_ref_status % 16,
     service_type_id |-> h.service_type_id, subtype_id |-> h.subtype_id,
     msg_type_counter |-> h.msg_type_counter, destination_id |-> h.destination_id,
     time |-> h.time, spare |-> h.spare]

\* A header that was encoded is read back with every field at its place and in its
\* byte order, except the high bits that do not fit a four-bit field; the high half
\* of either nibble never spills into the other (pus_codec.c:69-92 and 40-67).
TcRoundTrip == holds = "tc" => TcDecode(buffer) = TcOnWire(sent)

\* The same for TM headers, with the counter, the destination and the time that
\* pus_tm_hdr_fill put in (pus_codec.c:130-154 and 105-128).
TmRoundTrip == holds = "tm" => TmDecode(buffer) = TmOnWire(sent)

\* A decoder loses nothing, whatever the link delivered: encoding the structure it
\* filled gives the same bytes again, also when it refused the version, so that the
\* source id that pus_tc_process reports against is the one on the wire
\* (pus_codec.c:52-64).
DecodedStandsForItsBytes ==
    [][/\ tc' # tc => TcEncode(tc') = SubSeq(buffer, 1, TcLen)
       /\ tm' # tm => TmEncode(tm') = buffer]_vars
=============================================================================
