---------------------------- MODULE CodecProofs ----------------------------
(***************************************************************************)
(* The round trips of the codec for every header and every buffer.         *)
(***************************************************************************)
EXTENDS Codec, TLAPS, SequenceTheorems

\* Bytes and halves of integers.
LEMMA SplitU16 ==
    ASSUME NEW v \in U16
    PROVE  Hi(v) \in Byte /\ Lo(v) \in Byte /\ ReadU16(Hi(v), Lo(v)) = v
BY DEF U16, Byte, Hi, Lo, ReadU16

LEMMA JoinBytes ==
    ASSUME NEW a \in Byte, NEW b \in Byte
    PROVE  ReadU16(a, b) \in U16 /\ Hi(ReadU16(a, b)) = a /\ Lo(ReadU16(a, b)) = b
<1>1. a \in Int /\ b \in Int /\ 0 <= a /\ a <= 255 /\ 0 <= b /\ b <= 255
  BY DEF Byte
<1>2. 256 * a + b \in Int /\ 0 <= 256 * a + b /\ 256 * a + b <= 65535
  BY <1>1
<1>3. (256 * a + b) \div 256 = a
  BY <1>1
<1>4. (256 * a + b) % 256 = b
  BY <1>1
<1>5. ReadU16(a, b) = 256 * a + b
  BY DEF ReadU16
<1>6. 256 * a + b \in U16
  BY <1>2 DEF U16
<1>7. Hi(256 * a + b) = a /\ Lo(256 * a + b) = b
  BY <1>3, <1>4 DEF Hi, Lo
<1> QED BY <1>5, <1>6, <1>7, Zenon

LEMMA SplitNibbles ==
    ASSUME NEW h \in Byte, NEW l \in Byte
    PROVE  /\ Nibbles(h, l) \in Byte
           /\ Nibbles(h, l) \div 16 = h % 16
           /\ Nibbles(h, l) % 16 = l % 16
BY DEF Byte, Nibbles

LEMMA JoinNibbles ==
    ASSUME NEW a \in Byte
    PROVE  a \div 16 \in Byte /\ a % 16 \in Byte /\ Nibbles(a \div 16, a % 16) = a
BY DEF Byte, Nibbles

----------------------------------------------------------------------------
\* The fields of a decoded header, and the bytes of an encoded one, one by one.
LEMMA TcEncodeBytes ==
    ASSUME NEW h \in TcHeaders
    PROVE  /\ Len(TcEncode(h)) = TcLen
           /\ \A i \in 1 .. TcLen : TcEncode(h)[i] \in Byte
<1>1. /\ h.version \in Byte /\ h.ack_flags \in Byte /\ h.service_type_id \in Byte
      /\ h.subtype_id \in Byte /\ h.spare \in Byte
      /\ h.source_id \in U16 /\ h.time[1] \in U16 /\ h.time[2] \in U16
  BY DEF TcHeaders, U32
<1>2. /\ Nibbles(h.version, h.ack_flags) \in Byte
      /\ Hi(h.source_id) \in Byte /\ Lo(h.source_id) \in Byte
      /\ Hi(h.time[1]) \in Byte /\ Lo(h.time[1]) \in Byte
      /\ Hi(h.time[2]) \in Byte /\ Lo(h.time[2]) \in Byte
  BY <1>1, SplitU16, SplitNibbles
<1> QED BY <1>1, <1>2 DEF TcEncode, TcLen

LEMMA TcEncodeSeq ==
    ASSUME NEW h \in TcHeaders
    PROVE  TcEncode(h) \in Seq(Byte) /\ Len(TcEncode(h)) = TcLen
BY TcEncodeBytes DEF TcEncode, TcLen

LEMMA TmEncodeBytes ==
    ASSUME NEW h \in TmHeaders
    PROVE  TmEncode(h) \in Buffers
<1>1. /\ h.version \in Byte /\ h.time_ref_status \in Byte /\ h.service_type_id \in Byte
      /\ h.subtype_id \in Byte /\ h.spare \in Byte /\ h.msg_type_counter \in U16
      /\ h.destination_id \in U16 /\ h.time[1] \in U16 /\ h.time[2] \in U16
  BY DEF TmHeaders, U32
<1>2. /\ Nibbles(h.version, h.time_ref_status) \in Byte
      /\ Hi(h.msg_type_counter) \in Byte /\ Lo(h.msg_type_counter) \in Byte
      /\ Hi(h.destination_id) \in Byte /\ Lo(h.destination_id) \in Byte
      /\ Hi(h.time[1]) \in Byte /\ Lo(h.time[1]) \in Byte
      /\ Hi(h.time[2]) \in Byte /\ Lo(h.time[2]) \in Byte
  BY <1>1, SplitU16, SplitNibbles
<1> QED BY <1>1, <1>2 DEF TmEncode, TmLen, Buffers

LEMMA TcDecodeType == ASSUME NEW p \in Buffers PROVE TcDecode(p) \in TcHeaders
<1>1. \A i \in 1 .. 12 : p[i] \in Byte
  BY DEF Buffers, TmLen
<1>2. /\ p[1] \div 16 \in Byte /\ p[1] % 16 \in Byte
      /\ ReadU16(p[4], p[5]) \in U16 /\ ReadU16(p[6], p[7]) \in U16
      /\ ReadU16(p[8], p[9]) \in U16
  BY <1>1, JoinBytes, JoinNibbles
<1> QED BY <1>1, <1>2 DEF TcDecode, TcHeaders, U32

LEMMA TmDecodeType == ASSUME NEW p \in Buffers PROVE TmDecode(p) \in TmHeaders
<1>1. \A i \in 1 .. 12 : p[i] \in Byte
  BY DEF Buffers, TmLen
<1>2. /\ p[1] \div 16 \in Byte /\ p[1] % 16 \in Byte
      /\ ReadU16(p[4], p[5]) \in U16 /\ ReadU16(p[6], p[7]) \in U16
      /\ ReadU16(p[8], p[9]) \in U16 /\ ReadU16(p[10], p[11]) \in U16
  BY <1>1, JoinBytes, JoinNibbles
<1> QED BY <1>1, <1>2 DEF TmDecode, TmHeaders, U32

----------------------------------------------------------------------------
\* Decoding what was encoded, from a buffer that begins with it.
LEMMA TcThereAndBack ==
    ASSUME NEW h \in TcHeaders, NEW p, \A i \in 1 .. TcLen : p[i] = TcEncode(h)[i]
    PROVE  TcDecode(p) = TcOnWire(h)
<1>1. /\ h.version \in Byte /\ h.ack_flags \in Byte
      /\ h.source_id \in U16 /\ h.time \in U32 /\ h.time[1] \in U16 /\ h.time[2] \in U16
  BY DEF TcHeaders, U32
<1>2. /\ p[1] = Nibbles(h.version, h.ack_flags)
      /\ p[2] = h.service_type_id /\ p[3] = h.subtype_id
      /\ p[4] = Hi(h.source_id) /\ p[5] = Lo(h.source_id)
      /\ p[6] = Hi(h.time[1]) /\ p[7] = Lo(h.time[1])
      /\ p[8] = Hi(h.time[2]) /\ p[9] = Lo(h.time[2])
      /\ p[10] = h.spare
  BY DEF TcEncode, TcLen
<1>3. /\ p[1] \div 16 = h.version % 16 /\ p[1] % 16 = h.ack_flags % 16
      /\ ReadU16(p[4], p[5]) = h.source_id
      /\ ReadU16(p[6], p[7]) = h.time[1] /\ ReadU16(p[8], p[9]) = h.time[2]
  BY <1>1, <1>2, SplitU16, SplitNibbles
<1>4. <<h.time[1], h.time[2]>> = h.time
  BY <1>1 DEF U32
<1> QED BY <1>2, <1>3, <1>4, Zenon DEF TcDecode, TcOnWire

LEMMA TmThereAndBack ==
    ASSUME NEW h \in TmHeaders
    PROVE  TmDecode(TmEncode(h)) = TmOnWire(h)
<1> DEFINE p == TmEncode(h)
<1>1. /\ h.version \in Byte /\ h.time_ref_status \in Byte
      /\ h.msg_type_counter \in U16 /\ h.destination_id \in U16
      /\ h.time \in U32 /\ h.time[1] \in U16 /\ h.time[2] \in U16
  BY DEF TmHeaders, U32
<1>2. /\ p[1] = Nibbles(h.version, h.time_ref_status)
      /\ p[2] = h.service_type_id /\ p[3] = h.subtype_id
      /\ p[4] = Hi(h.msg_type_counter) /\ p[5] = Lo(h.msg_type_counter)
      /\ p[6] = Hi(h.destination_id) /\ p[7] = Lo(h.destination_id)
      /\ p[8] = Hi(h.time[1]) /\ p[9] = Lo(h.time[1])
      /\ p[10] = Hi(h.time[2]) /\ p[11] = Lo(h.time[2])
      /\ p[12] = h.spare
  BY DEF TmEncode
<1> HIDE DEF p
<1>3. /\ p[1] \div 16 = h.version % 16 /\ p[1] % 16 = h.time_ref_status % 16
      /\ ReadU16(p[4], p[5]) = h.msg_type_counter
      /\ ReadU16(p[6], p[7]) = h.destination_id
      /\ ReadU16(p[8], p[9]) = h.time[1] /\ ReadU16(p[10], p[11]) = h.time[2]
  BY <1>1, <1>2, SplitU16, SplitNibbles
<1>4. <<h.time[1], h.time[2]>> = h.time
  BY <1>1 DEF U32
<1>5. TmDecode(p) = TmOnWire(h)
  BY <1>2, <1>3, <1>4, Zenon DEF TmDecode, TmOnWire
<1> QED BY <1>5 DEF p

----------------------------------------------------------------------------
\* Encoding what was decoded.
LEMMA TcBackAndThere ==
    ASSUME NEW p \in Buffers
    PROVE  \A i \in 1 .. TcLen : TcEncode(TcDecode(p))[i] = p[i]
<1> DEFINE h == TcDecode(p)
<1>1. \A i \in 1 .. 12 : p[i] \in Byte
  BY DEF Buffers, TmLen
<1>2. /\ h.version = p[1] \div 16 /\ h.ack_flags = p[1] % 16
      /\ h.service_type_id = p[2] /\ h.subtype_id = p[3]
      /\ h.source_id = ReadU16(p[4], p[5])
      /\ h.time[1] = ReadU16(p[6], p[7]) /\ h.time[2] = ReadU16(p[8], p[9])
      /\ h.spare = p[10]
  BY DEF TcDecode
<1> HIDE DEF h
<1>3. /\ Nibbles(h.version, h.ack_flags) = p[1]
      /\ Hi(h.source_id) = p[4] /\ Lo(h.source_id) = p[5]
      /\ Hi(h.time[1]) = p[6] /\ Lo(h.time[1]) = p[7]
      /\ Hi(h.time[2]) = p[8] /\ Lo(h.time[2]) = p[9]
  BY <1>1, <1>2, JoinBytes, JoinNibbles
<1>4. \A i \in 1 .. TcLen : TcEncode(h)[i] = p[i]
  BY <1>2, <1>3 DEF TcEncode, TcLen
<1> QED BY <1>4 DEF h

\* A buffer is a sequence, and ten bytes of it are the encoded header.
LEMMA TcPrefix ==
    ASSUME NEW p \in Buffers
    PROVE  TcEncode(TcDecode(p)) = SubSeq(p, 1, TcLen)
<1> DEFINE e == TcEncode(TcDecode(p))
           s == SubSeq(p, 1, TcLen)
<1>1. \A i \in 1 .. 10 : p[i] \in Byte
  BY DEF Buffers, TmLen
<1>2. /\ s \in Seq(Byte)
      /\ Len(s) = IF 1 <= 10 THEN 10 - 1 + 1 ELSE 0
      /\ \A i \in 1 .. 10 - 1 + 1 : s[i] = p[1 + i - 1]
  BY <1>1, SubSeqProperties, SMTT(30) DEF TcLen
<1>a. Len(s) = TcLen /\ \A i \in 1 .. TcLen : s[i] = p[i]
  BY <1>2 DEF TcLen
<1>3. TcDecode(p) \in TcHeaders
  BY TcDecodeType
<1>4. e \in Seq(Byte) /\ Len(e) = TcLen /\ \A i \in 1 .. TcLen : e[i] = p[i]
  BY <1>3, TcBackAndThere, TcEncodeSeq
<1> HIDE DEF e, s
<1>5. e = s
  BY <1>2, <1>a, <1>4, SeqEqual
<1> QED BY <1>5 DEF e, s

LEMMA TmBackAndThere ==
    ASSUME NEW p \in Buffers
    PROVE  TmEncode(TmDecode(p)) = p
<1> DEFINE h == TmDecode(p)
<1>1. \A i \in 1 .. 12 : p[i] \in Byte
  BY DEF Buffers, TmLen
<1>2. /\ h.version = p[1] \div 16 /\ h.time_ref_status = p[1] % 16
      /\ h.service_type_id = p[2] /\ h.subtype_id = p[3]
      /\ h.msg_type_counter = ReadU16(p[4], p[5])
      /\ h.destination_id = ReadU16(p[6], p[7])
      /\ h.time[1] = ReadU16(p[8], p[9]) /\ h.time[2] = ReadU16(p[10], p[11])
      /\ h.spare = p[12]
  BY DEF TmDecode
<1>5. TmEncode(h) \in Buffers
  BY TmDecodeType, TmEncodeBytes
<1> HIDE DEF h
<1>3. /\ Nibbles(h.version, h.time_ref_status) = p[1]
      /\ Hi(h.msg_type_counter) = p[4] /\ Lo(h.msg_type_counter) = p[5]
      /\ Hi(h.destination_id) = p[6] /\ Lo(h.destination_id) = p[7]
      /\ Hi(h.time[1]) = p[8] /\ Lo(h.time[1]) = p[9]
      /\ Hi(h.time[2]) = p[10] /\ Lo(h.time[2]) = p[11]
  BY <1>1, <1>2, JoinBytes, JoinNibbles
<1>4. \A i \in 1 .. 12 : TmEncode(h)[i] = p[i]
  BY <1>2, <1>3 DEF TmEncode
<1>6. TmEncode(h) = p
  BY <1>4, <1>5 DEF Buffers, TmLen
<1> QED BY <1>6 DEF h

----------------------------------------------------------------------------
(* The specification *)

CodecInv ==
    /\ TypeOK
    /\ TcRoundTrip
    /\ TmRoundTrip

LEMMA InitCodecInv == Init => CodecInv
<1> SUFFICES ASSUME Init PROVE CodecInv
  OBVIOUS
<1>1. Zeros \in Buffers
  BY DEF Zeros, Buffers, Byte
<1>2. TcDecode(Zeros) \in TcHeaders /\ TmDecode(Zeros) \in TmHeaders
  BY <1>1, TcDecodeType, TmDecodeType
<1> QED BY <1>1, <1>2 DEF Init, CodecInv, TypeOK, TcRoundTrip, TmRoundTrip

\* A call that is refused, or that only fills a structure.
LEMMA BufferKept ==
    ASSUME CodecInv, UNCHANGED <<buffer, holds, sent>>, tc' \in TcHeaders, tm' \in TmHeaders,
           status' \in {"OK", "BAD_LENGTH", "BAD_VERSION", "BUFFER_TOO_SMALL"}
    PROVE  CodecInv'
BY DEF CodecInv, TypeOK, TcRoundTrip, TmRoundTrip

LEMMA StepCodecInv == CodecInv /\ [Next]_vars => CodecInv'
<1> SUFFICES ASSUME CodecInv, [Next]_vars PROVE CodecInv'
  OBVIOUS
<1>t. tc \in TcHeaders /\ tm \in TmHeaders /\ buffer \in Buffers
  BY DEF CodecInv, TypeOK
<1>k. ASSUME TooSmall \/ TooShort PROVE CodecInv'
  BY <1>k, <1>t, BufferKept DEF TooSmall, TooShort
<1>1. ASSUME NEW h \in SentTc \cup {tc}, NEW n \in Lengths, EncodeTc(h, n) PROVE CodecInv'
  <2>0. h \in TcHeaders
    BY <1>t, SentAssumption
  <2>1. CASE n < TcLen
    BY <1>1, <1>k, <2>1 DEF EncodeTc
  <2>2. CASE ~(n < TcLen)
    <3>1. /\ buffer' = [i \in 1 .. TmLen |-> IF i <= TcLen THEN TcEncode(h)[i] ELSE buffer[i]]
          /\ holds' = "tc" /\ sent' = h /\ status' = "OK" /\ UNCHANGED <<tc, tm>>
      BY <1>1, <2>2 DEF EncodeTc
    <3>2. \A i \in 1 .. TcLen : buffer'[i] = TcEncode(h)[i]
      BY <3>1 DEF TcLen, TmLen
    <3>3. buffer' \in Buffers
      BY <1>t, <2>0, <3>1, TcEncodeBytes DEF Buffers, TcLen, TmLen
    <3>4. TcDecode(buffer') = TcOnWire(h)
      BY <2>0, <3>2, TcThereAndBack
    <3> QED BY <1>t, <2>0, <3>1, <3>3, <3>4 DEF CodecInv, TypeOK, TcRoundTrip, TmRoundTrip
  <2> QED BY <2>1, <2>2
<1>2. ASSUME NEW h \in SentTm \cup {tm}, NEW n \in Lengths, EncodeTm(h, n) PROVE CodecInv'
  <2>0. h \in TmHeaders
    BY <1>t, SentAssumption
  <2>1. CASE n < TmLen
    BY <1>2, <1>k, <2>1 DEF EncodeTm
  <2>2. CASE ~(n < TmLen)
    <3>1. /\ buffer' = TmEncode(h)
          /\ holds' = "tm" /\ sent' = h /\ status' = "OK" /\ UNCHANGED <<tc, tm>>
      BY <1>2, <2>2 DEF EncodeTm
    <3>2. buffer' \in Buffers /\ TmDecode(buffer') = TmOnWire(h)
      BY <2>0, <3>1, TmEncodeBytes, TmThereAndBack
    <3> QED BY <1>t, <2>0, <3>1, <3>2 DEF CodecInv, TypeOK, TcRoundTrip, TmRoundTrip
  <2> QED BY <2>1, <2>2
<1>3. ASSUME NEW n \in Lengths, DecodeTc(n) PROVE CodecInv'
  <2>1. TcDecode(buffer) \in TcHeaders
    BY <1>t, TcDecodeType
  <2> QED BY <1>3, <1>k, <1>t, <2>1, BufferKept DEF DecodeTc
<1>4. ASSUME NEW n \in Lengths, DecodeTm(n) PROVE CodecInv'
  <2>1. TmDecode(buffer) \in TmHeaders
    BY <1>t, TmDecodeType
  <2> QED BY <1>4, <1>k, <1>t, <2>1, BufferKept DEF DecodeTm
<1>5. ASSUME NEW bytes \in Noise, Receive(bytes) PROVE CodecInv'
  BY <1>5, NoiseAssumption DEF Receive, CodecInv, TypeOK, TcRoundTrip, TmRoundTrip
<1>6. CASE UNCHANGED vars
  BY <1>6 DEF vars, CodecInv, TypeOK, TcRoundTrip, TmRoundTrip
<1> QED BY <1>1, <1>2, <1>3, <1>4, <1>5, <1>6 DEF Next

\* A TC header, whichever it is, is read back as it was encoded, up to its two
\* four-bit fields.
THEOREM TcIsReadBack == Spec => []TcRoundTrip
<1>1. CodecInv => TcRoundTrip
  BY DEF CodecInv
<1> QED BY <1>1, InitCodecInv, StepCodecInv, PTL DEF Spec

\* So is a TM header.
THEOREM TmIsReadBack == Spec => []TmRoundTrip
<1>1. CodecInv => TmRoundTrip
  BY DEF CodecInv
<1> QED BY <1>1, InitCodecInv, StepCodecInv, PTL DEF Spec

\* Decoding loses nothing of any buffer.
THEOREM DecodingLosesNothing == Spec => DecodedStandsForItsBytes
<1>1. CodecInv /\ [Next]_vars =>
        [/\ tc' # tc => TcEncode(tc') = SubSeq(buffer, 1, TcLen)
         /\ tm' # tm => TmEncode(tm') = buffer]_vars
  <2> SUFFICES ASSUME CodecInv, [Next]_vars
               PROVE  /\ tc' # tc => TcEncode(tc') = SubSeq(buffer, 1, TcLen)
                      /\ tm' # tm => TmEncode(tm') = buffer
    OBVIOUS
  <2>1. buffer \in Buffers
    BY DEF CodecInv, TypeOK
  <2>2. /\ tc' = tc \/ tc' = TcDecode(buffer)
        /\ tm' = tm \/ tm' = TmDecode(buffer)
    BY DEF Next, vars, EncodeTc, EncodeTm, DecodeTc, DecodeTm, Receive, TooSmall, TooShort
  <2>3. TmEncode(TmDecode(buffer)) = buffer
    BY <2>1, TmBackAndThere
  <2>4. TcEncode(TcDecode(buffer)) = SubSeq(buffer, 1, TcLen)
    BY <2>1, TcPrefix
  <2> QED BY <2>2, <2>3, <2>4
<1> QED BY <1>1, InitCodecInv, StepCodecInv, PTL DEF Spec, DecodedStandsForItsBytes

\* Structures and buffers keep their widths.
THEOREM TypeCorrect == Spec => []TypeOK
<1>1. CodecInv => TypeOK
  BY DEF CodecInv
<1> QED BY <1>1, InitCodecInv, StepCodecInv, PTL DEF Spec
=============================================================================
