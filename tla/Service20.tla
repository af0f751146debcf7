----------------------------- MODULE Service20 -----------------------------
(***************************************************************************)
(* ST[20] parameter management: src/src/pus_service_20.c.                  *)
(*                                                                         *)
(* A telecommand or a report is a string of bytes whose layout only the    *)
(* registered value lengths tell: N, then N times an id of two bytes and a *)
(* value.  The loop of handle_tc_20_3 takes one item per step, that of     *)
(* pus_service_20_emit_report one step up to the getter's call and one for *)
(* its return; between two steps the application runs (a getter, a setter, *)
(* or a command nested in one) and may register parameters or change       *)
(* values.  What a getter reads and a setter writes is the variable        *)
(* memory, which belongs to the application.                               *)
(***************************************************************************)
EXTENDS SlotTable, SequencesExt

CONSTANTS
    Base,           \* values of a byte (256 in the code)
    Wrap,           \* values of a uint16_t (65536 in the code)
    MaxTmPayload,   \* PUS_MAX_TM_PAYLOAD_LEN
    MaxTcPayload,   \* what a telecommand of 65535 bytes carries behind its header
    Commands,       \* the lists of (id, value) pairs ground asks to set
    Requests,       \* the lists of ids ground and the application ask to report
    Data,           \* the values the application gives its parameters
    AppStatuses     \* what getters, setters and the sink return

Bytes == 0 .. Base - 1

\* Keys are the parameter ids, Values the descriptors of entries: the value
\* length, and whether there is a setter.  A list of ids, which a byte counts, has
\* its length in a uint16_t.
ASSUME ByteAssumption ==
    Base \in Nat \ {0, 1} /\ Wrap \in Nat /\ 2 * Base <= Wrap
ASSUME PayloadAssumption ==
    /\ MaxTmPayload \in Nat \ {0}
    /\ MaxTmPayload < Wrap
    /\ MaxTcPayload \in Nat
    /\ MaxTcPayload + 2 < Wrap
ASSUME IdsAssumption == Keys \subseteq 0 .. Base * Base - 1
ASSUME DescriptorsAssumption == Values \subseteq [len : 0 .. Wrap - 1, settable : BOOLEAN]
ASSUME InputsAssumption ==
    /\ Commands \subseteq Seq(Keys \X Seq(Bytes))
    /\ Requests \subseteq Seq(Keys)
    /\ \A pairs \in Commands : Len(pairs) < Base
    /\ \A list \in Requests : Len(list) < Base
    /\ Data \subseteq Seq(Bytes)

Statuses == {"OK", "NULL", "BAD_LENGTH", "NO_HANDLER", "HANDLER_FAILED",
             "BUFFER_TOO_SMALL", "TABLE_FULL"}

ASSUME StatusAssumption == AppStatuses \subseteq Statuses

VARIABLES
    params,    \* s20->params
    memory,    \* external: the values of the parameters
    op,        \* the loop that runs; "overrun" once it left its buffer
    input,     \* handle_tc_20_3: tc->payload
    ids,       \* pus_service_20_emit_report: param_ids
    item,      \* i
    off,       \* off
    len,       \* pus_service_20_emit_report: value_len, while the getter runs
    buf,       \* pus_service_20_emit_report: payload
    status,    \* what the last of the two calls returned
    asked,     \* history: the pairs the command in input was encoded from
    agreed,    \* history: they had the value lengths registered on board
    done       \* history: the pairs set, or read, since the loop began

\* payload[] has a size, and no contents before it is written.
Unwritten == -1
Buffers == [1 .. MaxTmPayload -> Bytes \cup {Unwritten}]
EmptyBuffer == [p \in 1 .. MaxTmPayload |-> Unwritten]

inputs == <<input, ids, asked>>
loop == <<op, item, off, len, buf, done>>
vars == <<params, memory, loop, inputs, status, agreed>>

TypeOK ==
    /\ params \in Tables
    /\ memory \in [Keys -> Seq(Bytes)]
    /\ op \in {"none", "set", "report", "getting", "overrun"}
    /\ input \in Seq(Bytes)
    /\ ids \in Seq(Keys)
    /\ item \in Nat
    /\ off \in 0 .. Wrap - 1
    /\ len \in 0 .. Wrap - 1
    /\ buf \in Buffers
    /\ status \in Statuses
    /\ asked \in Seq(Keys \X Seq(Bytes))
    /\ agreed \in BOOLEAN
    /\ done \in Seq(Keys \X Seq(Bytes))

----------------------------------------------------------------------------
(* Layout *)

\* (slips: low byte first; the high byte is not cut out)
IdBytesSwapped(id) == <<id % Base, id \div Base>>
IdBytesUncut(id) == <<id, id % Base>>

\* An id in a report.
IdBytes(id) == <<id \div Base, id % Base>>

\* The id at offset o, in either direction.
IdAt(bytes, o) == bytes[o + 1] * Base + bytes[o + 2]

\* What ground puts on the wire, and reads from a report.
PairBytes(pair) == <<pair[1] \div Base, pair[1] % Base>> \o pair[2]
Encode(pairs) ==
    <<Len(pairs)>> \o FlattenSeq([j \in DOMAIN pairs |-> PairBytes(pairs[j])])
EncodeIds(list) ==
    <<Len(list)>> \o FlattenSeq([j \in DOMAIN list |-> <<list[j] \div Base, list[j] % Base>>])

\* Ground's lengths are those of the entries its pairs name.
Agrees(pairs, t) ==
    \A j \in DOMAIN pairs :
        Holding(t, pairs[j][1]) # {} => Len(pairs[j][2]) = Lookup(t, pairs[j][1]).len

----------------------------------------------------------------------------
(* Registration, and the application's own life *)

Init ==
    /\ params = EmptyTable
    /\ memory = [id \in Keys |-> <<>>]
    /\ op = "none" /\ item = 0 /\ off = 0 /\ len = 0 /\ buf = EmptyBuffer /\ done = <<>>
    /\ input = <<>> /\ ids = <<>> /\ asked = <<>>
    /\ status = "OK"
    /\ agreed = FALSE

ParamsBecome(t) ==
    /\ params' = t
    /\ agreed' = (agreed /\ Agrees(asked, t))

\* pus_service_20_init
InitService ==
    /\ op # "overrun"
    /\ ParamsBecome(EmptyTable)
    /\ UNCHANGED <<memory, loop, inputs, status>>

\* pus_service_20_register_param; TABLE_FULL changes nothing.  The application
\* provides a value of the length it registers.
RegisterParam(id, d) ==
    /\ op # "overrun"
    /\ CanStore(params, id)
    /\ ParamsBecome(Store(params, id, d))
    /\ \E v \in Data : Len(v) = d.len /\ memory' = [memory EXCEPT ![id] = v]
    /\ UNCHANGED <<loop, inputs, status>>

\* The application changes a value, or a nested command does.
Update(id) ==
    /\ op # "overrun"
    /\ \E v \in Data : Len(v) = Len(memory[id]) /\ memory' = [memory EXCEPT ![id] = v]
    /\ UNCHANGED <<params, loop, inputs, status, agreed>>

----------------------------------------------------------------------------
(* TC[20,3]: handle_tc_20_3 *)

Finish(st) ==
    /\ op' = "none"
    /\ status' = st
    /\ len' = 0
    /\ UNCHANGED <<params, item, off, buf, done, inputs, agreed>>

\* Ground sends the first m bytes of a command, or the command and a byte more.
ReceiveSet(pairs, m) ==
    /\ op = "none"
    /\ input' = SubSeq(Append(Encode(pairs), 0), 1, m)
    /\ Len(input') \in 0 .. MaxTcPayload
    /\ asked' = pairs
    /\ agreed' = Agrees(pairs, params)
    /\ ids' = <<>> /\ item' = 0 /\ len' = 0 /\ buf' = EmptyBuffer /\ done' = <<>>
    /\ IF input' = <<>>
       THEN op' = "none" /\ off' = 0 /\ status' = "BAD_LENGTH"
       ELSE op' = "set" /\ off' = 1 /\ UNCHANGED status
    /\ UNCHANGED <<params, memory>>

Setting == op = "set" /\ item < input[1]

\* The checks of one item, in the order of the code.
HasId == (off + 2) % Wrap <= Len(input)
SetId == IdAt(input, off)
SetEntry == Lookup(params, SetId)
ValueEnd == off + 2 + SetEntry.len

Known == HasId /\ Holding(params, SetId) # {}
HasValue == Known /\ ValueEnd % Wrap <= Len(input)
Settable == HasValue /\ SetEntry.settable

\* (slip: a read-only parameter is skipped)
SkipReadOnly ==
    /\ Setting
    /\ HasValue /\ ~Settable
    /\ item' = item + 1
    /\ off' = ValueEnd % Wrap
    /\ UNCHANGED <<params, memory, op, len, buf, done, inputs, status, agreed>>

\* What was set before stays set.
RefuseItem ==
    /\ Setting
    /\ \/ ~HasId /\ Finish("BAD_LENGTH")
       \/ HasId /\ ~Known /\ Finish("NO_HANDLER")
       \/ Known /\ ~HasValue /\ Finish("BAD_LENGTH")
       \/ HasValue /\ ~Settable /\ Finish("HANDLER_FAILED")
    /\ UNCHANGED memory

SetterFails(st) ==
    /\ Setting
    /\ Settable
    /\ st # "OK"
    /\ Finish(st)
    /\ UNCHANGED memory

\* (slip: off is not advanced over the value)
SetItemOnly ==
    /\ Setting
    /\ Settable
    /\ ValueEnd <= Len(input)
    /\ LET value == SubSeq(input, off + 3, ValueEnd) IN
       /\ memory' = [memory EXCEPT ![SetId] = value]
       /\ done' = Append(done, <<SetId, value>>)
    /\ item' = item + 1
    /\ off' = (off + 2) % Wrap
    /\ UNCHANGED <<params, op, len, buf, inputs, status, agreed>>

\* The setter is given len bytes from off + 2 on, and takes them.
SetItem ==
    /\ Setting
    /\ Settable
    /\ ValueEnd <= Len(input)
    /\ LET value == SubSeq(input, off + 3, ValueEnd) IN
       /\ memory' = [memory EXCEPT ![SetId] = value]
       /\ done' = Append(done, <<SetId, value>>)
    /\ item' = item + 1
    /\ off' = ValueEnd % Wrap
    /\ UNCHANGED <<params, op, len, buf, inputs, status, agreed>>

\* The check passed because the sum wrapped: the setter is given bytes behind
\* the telecommand.
SetOverrun ==
    /\ Setting
    /\ Settable
    /\ ValueEnd > Len(input)
    /\ op' = "overrun"
    /\ UNCHANGED <<params, memory, item, off, len, buf, done, inputs, status, agreed>>

SetDone ==
    /\ op = "set"
    /\ item = input[1]
    /\ Finish("OK")
    /\ UNCHANGED memory

----------------------------------------------------------------------------
(* TC[20,1] and TM[20,2]: handle_tc_20_1, pus_service_20_emit_report *)

\* The buffer with these bytes stored from offset o on.
Written(b, o, bytes) ==
    [p \in 1 .. MaxTmPayload |-> IF p \in o + 1 .. o + Len(bytes) THEN bytes[p - o] ELSE b[p]]

StartReport(list) ==
    /\ ids' = list
    /\ op' = "report" /\ item' = 0 /\ off' = 1 /\ len' = 0 /\ done' = <<>>
    /\ buf' = Written(EmptyBuffer, 0, <<Len(list)>>)
    /\ input' = <<>> /\ asked' = <<>> /\ agreed' = FALSE
    /\ UNCHANGED <<params, memory, status>>

\* The list is complete, and holds as many ids as the table has entries, at most.
Acceptable(bytes) ==
    /\ bytes # <<>>
    /\ bytes[1] <= MaxEntries
    /\ Len(bytes) >= (1 + 2 * bytes[1]) % Wrap

\* Ground sends the first m bytes of a request, or a byte more than it.
ReceiveReport(list, m) ==
    LET bytes == SubSeq(Append(EncodeIds(list), 0), 1, m) IN
    /\ op = "none"
    /\ IF Acceptable(bytes)
       THEN StartReport([j \in 1 .. bytes[1] |-> IdAt(bytes, 2 * j - 1)])
       ELSE /\ status' = "BAD_LENGTH"
            /\ ids' = <<>> /\ input' = <<>> /\ asked' = <<>> /\ done' = <<>>
            /\ agreed' = FALSE
            /\ UNCHANGED <<params, memory, op, item, off, len, buf>>

\* The application's own call.
EmitReport(list) ==
    /\ op = "none"
    /\ StartReport(list)

Reading == op = "report" /\ item < Len(ids)

ReadId == ids[item + 1]
ReadEntry == Lookup(params, ReadId)
ReadEnd == off + 2 + ReadEntry.len

\* (slip: the id in front of the value is forgotten)
FitsWithoutId(end) == (end - 2) % Wrap <= MaxTmPayload

\* uint16_t arithmetic decides whether the value fits.
Fits(end) == end % Wrap <= MaxTmPayload

RefuseRead ==
    /\ Reading
    /\ \/ Holding(params, ReadId) = {} /\ Finish("NO_HANDLER")
       \/ Holding(params, ReadId) # {} /\ ~Fits(ReadEnd) /\ Finish("BUFFER_TOO_SMALL")
    /\ UNCHANGED memory

\* The id is stored at off; the getter is called for the bytes behind it.
CallGetter ==
    /\ Reading
    /\ Holding(params, ReadId) # {} /\ Fits(ReadEnd)
    /\ ReadEnd <= MaxTmPayload
    /\ op' = "getting"
    /\ buf' = Written(buf, off, IdBytes(ReadId))
    /\ off' = (off + 2) % Wrap
    /\ len' = ReadEntry.len
    /\ UNCHANGED <<params, memory, item, done, inputs, status, agreed>>

GetterFails(st) ==
    /\ op = "getting"
    /\ st # "OK"
    /\ Finish(st)
    /\ UNCHANGED memory

\* The getter fills as many bytes as it was asked for, with the parameter's value -
\* of which it only knows some earlier one if its length has changed meanwhile.
ValuesRead == IF Len(memory[ReadId]) = len THEN {memory[ReadId]} ELSE {v \in Data : Len(v) = len}

\* (slip: the length is read from the entry again, after the getter)
GetterFillsReread ==
    /\ op = "getting"
    /\ \E v \in ValuesRead :
          /\ buf' = Written(buf, off, v)
          /\ done' = Append(done, <<ReadId, v>>)
    /\ off' = IF Holding(params, ReadId) = {} THEN off ELSE (off + ReadEntry.len) % Wrap
    /\ op' = "report"
    /\ item' = item + 1
    /\ len' = 0
    /\ UNCHANGED <<params, memory, inputs, status, agreed>>

\* The getter returns; off is advanced by the length read before its call.
GetterFills ==
    /\ op = "getting"
    /\ \E v \in ValuesRead :
          /\ buf' = Written(buf, off, v)
          /\ done' = Append(done, <<ReadId, v>>)
    /\ off' = (off + len) % Wrap
    /\ op' = "report"
    /\ item' = item + 1
    /\ len' = 0
    /\ UNCHANGED <<params, memory, inputs, status, agreed>>

\* The check passed because the sum wrapped: the getter is given a length that
\* the buffer does not have left.
ReadOverrun ==
    /\ Reading
    /\ Holding(params, ReadId) # {} /\ Fits(ReadEnd)
    /\ ReadEnd > MaxTmPayload
    /\ op' = "overrun"
    /\ UNCHANGED <<params, memory, item, off, len, buf, done, inputs, status, agreed>>

\* pus_tm_build, which finds room, and the sink's answer.
BuildReport(st) ==
    /\ op = "report"
    /\ item = Len(ids)
    /\ Finish(st)
    /\ UNCHANGED memory

----------------------------------------------------------------------------
Next ==
    \/ InitService
    \/ \E id \in Keys : Update(id) \/ \E d \in Values : RegisterParam(id, d)
    \/ \E pairs \in Commands : \E m \in 0 .. Len(Encode(pairs)) + 1 : ReceiveSet(pairs, m)
    \/ \E list \in Requests :
          \/ \E m \in 0 .. Len(EncodeIds(list)) + 1 : ReceiveReport(list, m)
          \/ EmitReport(list)
    \/ RefuseItem \/ SetItem \/ SetOverrun \/ SetDone
    \/ RefuseRead \/ CallGetter \/ GetterFills \/ ReadOverrun
    \/ \E st \in AppStatuses : SetterFails(st) \/ GetterFails(st) \/ BuildReport(st)

Spec == Init /\ [][Next]_vars

----------------------------------------------------------------------------
(* Properties *)

\* A set command is taken the way ground wrote it: whatever prefix of it arrived,
\* the pairs set so far are its first pairs, in order and with its values, as
\* long as ground and the table agree on the value lengths - also when
\* setters and nested commands register parameters meanwhile.
SetsFollowTheCommand == agreed => IsPrefix(done, asked)

\* OK means that every pair was set, and then only; a command cut short is never
\* answered OK, although the pairs in front of the cut stay set.
StatusTellsWhatWasSet ==
    op = "none" /\ agreed /\ asked # <<>> =>
        /\ status = "OK" <=> done = asked
        /\ Len(input) < Len(Encode(asked)) => done # asked

\* A finished report holds the ids asked for with the values read, in the layout
\* of a set command: sent back as TC[20,3], it would set exactly these values -
\* also when a getter, or a command nested in it, registers the
\* parameter with another length before it returns.
ReportIsReplayable ==
    op = "report" /\ item = Len(ids) =>
        /\ off <= MaxTmPayload /\ SubSeq(buf, 1, off) = Encode(done)
        /\ ids = [j \in DOMAIN done |-> done[j][1]]

\* No loop leaves its buffer - tc->payload, or payload[] of a report - unless a
\* parameter is registered with a value so long that adding it to an offset
\* wraps a uint16_t: the sums in the checks have no other flaw, at any
\* offset and for any mix of lengths.
Longest(a, b) == IF a < b THEN b ELSE a
OverrunNeedsHugeLength ==
    op = "overrun" =>
        \E i \in UsedSlots(params) :
            params[i].val.len + 2 + Longest(MaxTmPayload, Len(input)) >= Wrap

\* include/pus_service_20.h: the getter's buffer is guaranteed to hold the
\* registered value_len bytes.  The sum in pus_service_20_emit_report wraps for
\* a value_len near 65535.
GetterHasRoom == op = "overrun" => ids = <<>>
=============================================================================
