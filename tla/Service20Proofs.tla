-------------------------- MODULE Service20Proofs --------------------------
(***************************************************************************)
(* The loops of ST[20], for every buffer size, table and mix of value      *)
(* lengths: their offsets, and what they make of a telecommand and of a    *)
(* report.  The layout of these strings of bytes is recursive; what holds  *)
(* of it is proved by induction in the form of a least counterexample.     *)
(***************************************************************************)
EXTENDS Service20, SlotTableProofs, SequenceTheorems

\* Arithmetic of the width of a uint16_t.
LEMMA NoWrap == ASSUME NEW n \in Nat, n < Wrap PROVE n % Wrap = n
BY ByteAssumption

LEMMA Wrapped == ASSUME NEW n \in Nat PROVE n % Wrap \in 0 .. Wrap - 1
BY ByteAssumption

\* A sum that passes a check of its wrapped value but not of its true value did
\* wrap.
LEMMA PassedByWrap ==
    ASSUME NEW n \in Nat, NEW limit \in Nat, n % Wrap <= limit, n > limit
    PROVE  n >= Wrap
<1>1. SUFFICES ASSUME n < Wrap PROVE FALSE
  BY ByteAssumption
<1> QED BY <1>1, NoWrap

----------------------------------------------------------------------------
\* Inside a loop the offset never leaves the buffer.
OffsetInv ==
    /\ params \in Tables
    /\ Filled(params)
    /\ off \in 0 .. Wrap - 1
    /\ Len(input) \in Nat
    /\ len \in 0 .. Wrap - 1
    /\ op \in {"none", "set", "report", "getting", "overrun"}
    /\ op = "set" => off <= Len(input)
    /\ op = "report" => off <= MaxTmPayload
    /\ op = "getting" => off + len <= MaxTmPayload
    /\ OverrunNeedsHugeLength

\* The entry a loop uses is in the table, and its value length is a number.
LEMMA EntryUsed ==
    ASSUME OffsetInv, NEW id, Holding(params, id) # {}
    PROVE  \E i \in UsedSlots(params) :
               Lookup(params, id) = params[i].val /\ params[i].val.len \in Nat
<1> DEFINE i == Find(params, id)
<1>1. i \in UsedSlots(params) /\ Lookup(params, id) = params[i].val
  BY FindResult DEF Holding, Lookup
<1>2. params[i].val \in Values
  BY <1>1 DEF OffsetInv, Filled
<1>3. params[i].val.len \in Nat
  BY <1>2, DescriptorsAssumption, ByteAssumption
<1> QED BY <1>1, <1>3

\* What the checks leave of an item that is taken.
LEMMA SetTaken ==
    ASSUME OffsetInv, Settable
    PROVE  Holding(params, SetId) # {} /\ ValueEnd % Wrap <= Len(input)
BY DEF Settable, HasValue, Known

LEMMA Overrun ==
    ASSUME OffsetInv, NEW id, Holding(params, id) # {}, NEW limit \in Nat,
           off <= limit, limit <= Longest(MaxTmPayload, Len(input)),
           (off + 2 + Lookup(params, id).len) % Wrap <= limit,
           off + 2 + Lookup(params, id).len > limit
    PROVE  \E i \in UsedSlots(params) :
               params[i].val.len + 2 + Longest(MaxTmPayload, Len(input)) >= Wrap
<1>1. PICK i \in UsedSlots(params) :
          Lookup(params, id) = params[i].val /\ params[i].val.len \in Nat
  BY EntryUsed
<1> DEFINE n == off + 2 + params[i].val.len
           top == Longest(MaxTmPayload, Len(input))
<1>2. n \in Nat /\ n % Wrap <= limit /\ n > limit
  BY <1>1 DEF OffsetInv
<1>3. top \in Nat
  BY PayloadAssumption DEF Longest, OffsetInv
<1> HIDE DEF n, top
<1>4. n >= Wrap
  BY <1>2, PassedByWrap
<1>5. params[i].val.len + 2 + top >= Wrap
  BY SMTT(30), <1>1, <1>3, <1>4, ByteAssumption DEF OffsetInv, n, top
<1> QED BY <1>5 DEF top

\* Room for an id and its value.
LEMMA IdEnd ==
    ASSUME NEW o \in Nat, NEW k \in Nat, o + 2 + k <= MaxTmPayload
    PROVE  /\ (o + 2) % Wrap = o + 2
           /\ o + 2 \in 0 .. Wrap - 1
           /\ k \in 0 .. Wrap - 1
<1>1. MaxTmPayload \in Nat /\ MaxTmPayload < Wrap /\ Wrap \in Nat
  BY PayloadAssumption, ByteAssumption
<1>2. o + 2 \in Nat /\ o + 2 < Wrap /\ k < Wrap
  BY <1>1
<1> QED BY <1>1, <1>2, NoWrap

\* What the getter fills ends inside the buffer.
LEMMA FilledEnd ==
    ASSUME OffsetInv, op = "getting"
    PROVE  /\ off \in Nat /\ len \in Nat /\ off + len <= MaxTmPayload
           /\ (off + len) % Wrap = off + len
           /\ off + len \in 0 .. Wrap - 1
<1>1. off \in Nat /\ len \in Nat /\ off + len <= MaxTmPayload
  BY DEF OffsetInv
<1>2. off + len \in Nat /\ off + len < Wrap
  BY <1>1, PayloadAssumption, ByteAssumption
<1> QED BY <1>1, <1>2, NoWrap, ByteAssumption

LEMMA InitOffsetInv == Init => OffsetInv
BY EmptyTableFacts, ByteAssumption
   DEF Init, OffsetInv, Filled, UsedSlots, EmptyTable, OverrunNeedsHugeLength

LEMMA StepOffsetInv == OffsetInv /\ [Next]_vars => OffsetInv'
<1> SUFFICES ASSUME OffsetInv, [Next]_vars PROVE OffsetInv'
  OBVIOUS
<1>1. CASE InitService
  <2>1. Filled(EmptyTable)
    BY DEF Filled, UsedSlots, EmptyTable
  <2> QED BY <1>1, <2>1, EmptyTableFacts
          DEF InitService, ParamsBecome, OffsetInv, OverrunNeedsHugeLength, loop, inputs
<1>2. ASSUME NEW id \in Keys, NEW d \in Values, RegisterParam(id, d) PROVE OffsetInv'
  <2>1. params' \in Tables /\ Filled(params)'
    BY <1>2, StoreWrites, StoreKeepsFilled DEF RegisterParam, ParamsBecome, OffsetInv
  <2> QED BY <1>2, <2>1
          DEF RegisterParam, OffsetInv, OverrunNeedsHugeLength, loop, inputs
<1>3. ASSUME NEW id \in Keys, Update(id) PROVE OffsetInv'
  BY <1>3 DEF Update, OffsetInv, OverrunNeedsHugeLength, loop, inputs, UsedSlots, Filled
<1>4. ASSUME NEW pairs \in Commands, NEW m \in 0 .. Len(Encode(pairs)) + 1,
             ReceiveSet(pairs, m)
      PROVE  OffsetInv'
  <2>1. /\ UNCHANGED params /\ Len(input') \in Nat /\ off' \in Nat /\ len' = 0
        /\ op' \in {"none", "set"}
    BY <1>4, PayloadAssumption DEF ReceiveSet
  <2>2. op' = "set" => off' <= Len(input')
    <3>1. SUFFICES ASSUME op' = "set" PROVE off' <= Len(input')
      OBVIOUS
    <3>2. input' # <<>> /\ off' = 1
      BY <1>4, <3>1 DEF ReceiveSet
    <3>3. Len(input') # 0
      BY <1>4, <3>2 DEF ReceiveSet
    <3> QED BY <2>1, <3>2, <3>3
  <2>3. off' \in 0 .. Wrap - 1
    BY <1>4, ByteAssumption DEF ReceiveSet
  <2> QED BY <2>1, <2>2, <2>3, ByteAssumption
          DEF OffsetInv, OverrunNeedsHugeLength, UsedSlots, Filled
<1>5. ASSUME NEW list \in Requests,
             EmitReport(list)
             \/ \E m \in 0 .. Len(EncodeIds(list)) + 1 : ReceiveReport(list, m)
      PROVE  OffsetInv'
  <2>1. /\ UNCHANGED params /\ input' = <<>>
        /\ \/ op' = "report" /\ off' = 1 /\ len' = 0
           \/ op' = "none" /\ off' = off /\ len' = len
    BY <1>5 DEF EmitReport, ReceiveReport, StartReport
  <2> QED BY <2>1, ByteAssumption, PayloadAssumption
          DEF OffsetInv, OverrunNeedsHugeLength, UsedSlots, Filled
<1>6. CASE \/ RefuseItem \/ SetDone \/ RefuseRead
           \/ \E st \in AppStatuses : SetterFails(st) \/ GetterFails(st) \/ BuildReport(st)
  <2>1. op' = "none" /\ len' = 0 /\ UNCHANGED <<params, off, input>>
    BY <1>6 DEF RefuseItem, SetDone, RefuseRead, SetterFails, GetterFails, BuildReport, Finish,
                inputs
  <2> QED BY <2>1, ByteAssumption DEF OffsetInv, OverrunNeedsHugeLength, UsedSlots, Filled
<1>7. CASE SetItem
  <2>1. ValueEnd % Wrap <= Len(input) /\ Holding(params, SetId) # {}
    BY <1>7, SetTaken DEF SetItem
  <2>2. ValueEnd \in Nat
    BY <2>1, EntryUsed DEF ValueEnd, SetEntry, OffsetInv
  <2>3. op = "set" /\ off' = ValueEnd % Wrap /\ UNCHANGED <<params, op, len, input>>
    BY <1>7 DEF SetItem, Setting, inputs
  <2>4. off' \in 0 .. Wrap - 1 /\ off' <= Len(input)
    BY <2>1, <2>2, <2>3, Wrapped
  <2> QED BY <2>3, <2>4 DEF OffsetInv, OverrunNeedsHugeLength, UsedSlots, Filled
<1>8. CASE SetOverrun
  <2>1. /\ op = "set" /\ Settable /\ ValueEnd > Len(input)
        /\ op' = "overrun" /\ UNCHANGED <<params, off, len, input>>
    BY <1>8 DEF SetOverrun, Setting, inputs
  <2>2. Holding(params, SetId) # {} /\ ValueEnd % Wrap <= Len(input)
    BY <2>1, SetTaken
  <2>3. Len(input) <= Longest(MaxTmPayload, Len(input)) /\ off <= Len(input)
    BY <2>1, PayloadAssumption DEF Longest, OffsetInv
  <2>4. \E i \in UsedSlots(params) :
            params[i].val.len + 2 + Longest(MaxTmPayload, Len(input)) >= Wrap
    BY <2>1, <2>2, <2>3, Overrun DEF ValueEnd, SetEntry, OffsetInv
  <2> QED BY <2>1, <2>4 DEF OffsetInv, OverrunNeedsHugeLength, UsedSlots, Filled
<1>9. CASE CallGetter
  <2>1. /\ Holding(params, ReadId) # {} /\ ReadEnd <= MaxTmPayload
        /\ off' = (off + 2) % Wrap /\ len' = ReadEntry.len /\ op' = "getting"
        /\ UNCHANGED <<params, input>>
    BY <1>9 DEF CallGetter, inputs
  <2>2. off \in Nat /\ ReadEntry.len \in Nat /\ off + 2 + ReadEntry.len <= MaxTmPayload
    BY <2>1, EntryUsed DEF ReadEnd, ReadEntry, OffsetInv
  <2>3. off' \in 0 .. Wrap - 1 /\ off' = off + 2 /\ len' \in 0 .. Wrap - 1
    BY <2>1, <2>2, IdEnd
  <2>4. off' \in 0 .. Wrap - 1 /\ len' \in 0 .. Wrap - 1 /\ off' + len' <= MaxTmPayload
    BY <2>1, <2>2, <2>3
  <2> QED BY <2>1, <2>4 DEF OffsetInv, OverrunNeedsHugeLength, UsedSlots, Filled
<1>12. CASE GetterFills
  <2>1. /\ op = "getting" /\ op' = "report" /\ off' = (off + len) % Wrap /\ len' = 0
        /\ UNCHANGED <<params, input>>
    BY <1>12 DEF GetterFills, inputs
  <2>2. off' = off + len /\ off' \in 0 .. Wrap - 1 /\ off' <= MaxTmPayload
    BY <2>1, FilledEnd
  <2> QED BY <2>1, <2>2, ByteAssumption DEF OffsetInv, OverrunNeedsHugeLength, UsedSlots, Filled
<1>10. CASE ReadOverrun
  <2>1. /\ op = "report" /\ Holding(params, ReadId) # {}
        /\ ReadEnd % Wrap <= MaxTmPayload /\ ReadEnd > MaxTmPayload
        /\ op' = "overrun" /\ UNCHANGED <<params, off, len, input>>
    BY <1>10 DEF ReadOverrun, Reading, Fits, inputs
  <2>2. MaxTmPayload <= Longest(MaxTmPayload, Len(input)) /\ off <= MaxTmPayload
    BY <2>1, PayloadAssumption DEF Longest, OffsetInv
  <2>3. \E i \in UsedSlots(params) :
            params[i].val.len + 2 + Longest(MaxTmPayload, Len(input)) >= Wrap
    BY <2>1, <2>2, Overrun, PayloadAssumption DEF ReadEnd, ReadEntry
  <2> QED BY <2>1, <2>3 DEF OffsetInv, OverrunNeedsHugeLength, UsedSlots, Filled
<1>11. CASE UNCHANGED vars
  BY <1>11 DEF vars, loop, inputs, OffsetInv, OverrunNeedsHugeLength, UsedSlots, Filled
<1> QED BY <1>1, <1>2, <1>3, <1>4, <1>5, <1>6, <1>7, <1>8, <1>9, <1>10, <1>11, <1>12 DEF Next

----------------------------------------------------------------------------
(* Strings of bytes, put together from parts *)

\* Induction, by the least natural that is not in S.
LEMMA SetInduction ==
    ASSUME NEW S, 0 \in S, \A n \in Nat : n \in S => n + 1 \in S
    PROVE  \A n \in Nat : n \in S
<1>1. SUFFICES ASSUME Nat \ S # {} PROVE FALSE
  OBVIOUS
<1>2. PICK x \in Nat \ S : \A y \in Nat \ S : x <= y
  BY <1>1, NatLeast
<1>3. x # 0 /\ x - 1 \in Nat
  BY <1>2
<1>4. x - 1 \in S
  BY <1>2, <1>3
<1> QED BY <1>2, <1>3, <1>4

\* The two bytes of an id.
LEMMA DivMod ==
    ASSUME NEW id \in 0 .. Base * Base - 1
    PROVE  /\ id \div Base \in Bytes
           /\ id % Base \in Bytes
           /\ (id \div Base) * Base + (id % Base) = id
<1> DEFINE q == id \div Base
           r == id % Base
<1>0. Base \in Nat /\ Base > 1 /\ id \in Nat
  BY ByteAssumption
<1>1. q \in Int /\ r \in 0 .. Base - 1 /\ id = Base * q + r
  BY <1>0
<1>2. Base * q + r = q * Base + r
  BY <1>0, <1>1
<1> HIDE DEF q, r
<1>3. q >= 0
  <2>1. SUFFICES ASSUME q <= -1 PROVE FALSE
    BY <1>1
  <2>2. Base * q <= -Base
    BY <2>1, <1>0, <1>1
  <2> QED BY <2>2, <1>0, <1>1
<1>4. q < Base
  <2>1. SUFFICES ASSUME q >= Base PROVE FALSE
    BY <1>1, <1>0
  <2>2. Base * q >= Base * Base
    BY <2>1, <1>0, <1>1
  <2> QED BY <2>2, <1>0, <1>1
<1> QED BY <1>0, <1>1, <1>2, <1>3, <1>4 DEF Bytes, q, r


\* Lists of parts, each a string of bytes; Cat keeps \o folded.
Cat(a, b) == a \o b

IsParts(seqs) ==
    /\ Len(seqs) \in Nat
    /\ \A i \in 1 .. Len(seqs) : seqs[i] \in Seq(Bytes)
    /\ Len(seqs) = 0 => seqs = <<>>

LEMMA CatProperties ==
    ASSUME NEW a \in Seq(Bytes), NEW b \in Seq(Bytes)
    PROVE  /\ Cat(a, b) \in Seq(Bytes)
           /\ Len(a) \in Nat /\ Len(b) \in Nat
           /\ Len(Cat(a, b)) = Len(a) + Len(b)
           /\ \A p \in 1 .. Len(a) : Cat(a, b)[p] = a[p]
           /\ \A p \in 1 .. Len(b) : Cat(a, b)[Len(a) + p] = b[p]
<1>1. /\ a \o b \in Seq(Bytes)
      /\ Len(a \o b) = Len(a) + Len(b)
      /\ \A p \in 1 .. Len(a) + Len(b) :
            (a \o b)[p] = IF p <= Len(a) THEN a[p] ELSE b[p - Len(a)]
  BY ConcatProperties
<1>2. Len(a) \in Nat /\ Len(b) \in Nat
  BY LenProperties
<1> DEFINE c == a \o b
<1>3. /\ c \in Seq(Bytes)
      /\ Len(c) = Len(a) + Len(b)
      /\ \A p \in 1 .. Len(a) + Len(b) : c[p] = IF p <= Len(a) THEN a[p] ELSE b[p - Len(a)]
  BY <1>1
<1>4. Cat(a, b) = c
  BY DEF Cat
<1> HIDE DEF c
<1>5. \A p \in 1 .. Len(a) : c[p] = a[p]
  BY <1>2, <1>3
<1>6. ASSUME NEW p \in 1 .. Len(b) PROVE c[Len(a) + p] = b[p]
  <2>1. Len(a) + p \in 1 .. Len(a) + Len(b) /\ ~(Len(a) + p <= Len(a)) /\ Len(a) + p - Len(a) = p
    BY <1>2
  <2> QED BY <1>3, <2>1
<1> QED BY <1>2, <1>3, <1>4, <1>5, <1>6

Recursion(f, seqs) ==
    f = [i \in 1 .. Len(seqs) |-> IF i = 1 THEN seqs[i] ELSE Cat(f[i - 1], seqs[i])]

\* FlattenSeq takes a solution of this equation, if there is one; there is.
LEMMA FlattenUnfolds ==
    ASSUME NEW seqs, Len(seqs) # 0
    PROVE  FlattenSeq(seqs) = (CHOOSE f : Recursion(f, seqs))[Len(seqs)]
BY DEF FlattenSeq, Recursion, Cat

LEMMA RecursionHasSolution ==
    ASSUME NEW seqs, IsParts(seqs)
    PROVE  \E f : Recursion(f, seqs)
<1> DEFINE n == Len(seqs)
           Upto(f, m) == /\ f = [i \in 1 .. m |-> f[i]]
                         /\ \A i \in 1 .. m : f[i] = IF i = 1 THEN seqs[i] ELSE Cat(f[i - 1], seqs[i])
           Solved == {m \in Nat : \E f : Upto(f, m)}
<1>0. n \in Nat
  BY DEF IsParts
<1>1. 0 \in Solved
  <2>1. Upto([i \in 1 .. 0 |-> 0], 0)
    OBVIOUS
  <2> QED BY <2>1
<1>2. ASSUME NEW m \in Nat, m \in Solved PROVE m + 1 \in Solved
  <2>1. PICK f : Upto(f, m)
    BY <1>2
  <2> DEFINE g == [i \in 1 .. m + 1 |-> IF i = 1 THEN seqs[i]
                                        ELSE IF i = m + 1 THEN Cat(f[m], seqs[i]) ELSE f[i]]
  <2>2. \A i \in 1 .. m : g[i] = f[i]
    BY <2>1
  <2>a. \A i \in 1 .. m + 1 : g[i] = IF i = 1 THEN seqs[i]
                                    ELSE IF i = m + 1 THEN Cat(f[m], seqs[i]) ELSE f[i]
    OBVIOUS
  <2>4. g = [i \in 1 .. m + 1 |-> g[i]]
    OBVIOUS
  <2> HIDE DEF g
  <2>3. ASSUME NEW i \in 1 .. m + 1
        PROVE  g[i] = IF i = 1 THEN seqs[i] ELSE Cat(g[i - 1], seqs[i])
    <3>0. CASE i = 1
      BY <2>a, <3>0
    <3> SUFFICES ASSUME i # 1 PROVE g[i] = Cat(g[i - 1], seqs[i])
      BY <3>0
    <3>1. i - 1 \in 1 .. m /\ g[i - 1] = f[i - 1]
      BY <2>2
    <3>2. CASE i = m + 1
      BY <2>a, <3>1, <3>2
    <3>3. CASE i # m + 1
      BY SMTT(30), <2>1, <2>a, <3>1, <3>3
    <3> QED BY <3>2, <3>3
  <2>5. \E h : Upto(h, m + 1)
    BY <2>3, <2>4
  <2> QED BY <2>5
<1> HIDE DEF Solved
<1>3. n \in Solved
  BY <1>0, <1>1, <1>2, SetInduction
<1>4. PICK f : Upto(f, n)
  BY <1>3 DEF Solved
<1>5. Recursion(f, seqs)
  BY <1>4 DEF Recursion
<1> QED BY <1>5

\* The bytes of the first i parts, for each i.
IsLayout(F, seqs) ==
    /\ F \in [0 .. Len(seqs) -> Seq(Bytes)]
    /\ F[0] = <<>>
    /\ \A i \in 1 .. Len(seqs) : F[i] = Cat(F[i - 1], seqs[i])

LEMMA FlattenHasLayout ==
    ASSUME NEW seqs, IsParts(seqs)
    PROVE  \E F : IsLayout(F, seqs) /\ F[Len(seqs)] = FlattenSeq(seqs)
<1> DEFINE n == Len(seqs)
<1>0. n \in Nat /\ \A i \in 1 .. n : seqs[i] \in Seq(Bytes)
  BY DEF IsParts
<1>e. <<>> \in Seq(Bytes)
  BY EmptySeq
<1>1. CASE n = 0
  <2>1. FlattenSeq(seqs) = seqs /\ seqs = <<>>
    BY <1>1 DEF FlattenSeq, IsParts
  <2>2. IsLayout([i \in 0 .. 0 |-> <<>>], seqs)
    BY <1>1, <1>e DEF IsLayout
  <2> QED BY <1>1, <2>1, <2>2
<1>2. CASE n # 0
  <2> DEFINE f == CHOOSE g : Recursion(g, seqs)
             F == [i \in 0 .. n |-> IF i = 0 THEN <<>> ELSE f[i]]
             Typed == {m \in Nat : m \in 1 .. n => f[m] \in Seq(Bytes)}
  <2>1. Recursion(f, seqs)
    BY RecursionHasSolution
  <2> HIDE DEF f
  <2>2. \A i \in 1 .. n : f[i] = IF i = 1 THEN seqs[i] ELSE Cat(f[i - 1], seqs[i])
    BY <2>1 DEF Recursion
  <2>3. ASSUME NEW m \in Nat, m \in Typed PROVE m + 1 \in Typed
    <3> SUFFICES ASSUME m + 1 \in 1 .. n PROVE f[m + 1] \in Seq(Bytes)
      OBVIOUS
    <3>1. CASE m = 0
      BY <1>0, <2>2, <3>1
    <3>2. CASE m # 0
      <4>1. f[m] \in Seq(Bytes) /\ seqs[m + 1] \in Seq(Bytes) /\ f[m + 1] = Cat(f[m], seqs[m + 1])
        BY <1>0, <2>2, <2>3, <3>2
      <4> QED BY <4>1, CatProperties
    <3> QED BY <3>1, <3>2
  <2>4. 0 \in Typed
    OBVIOUS
  <2> HIDE DEF Typed
  <2>5. \A m \in Nat : m \in Typed
    BY <2>3, <2>4, SetInduction
  <2>6. \A i \in 1 .. n : f[i] \in Seq(Bytes)
    BY <1>0, <2>5 DEF Typed
  <2>7. F \in [0 .. n -> Seq(Bytes)] /\ F[0] = <<>> /\ F[n] = f[n]
    BY <1>0, <1>e, <1>2, <2>6
  <2>8. ASSUME NEW i \in 1 .. n PROVE F[i] = Cat(F[i - 1], seqs[i])
    <3>1. CASE i = 1
      <4>1. F[i - 1] = <<>> /\ F[i] = seqs[i] /\ seqs[i] \in Seq(Bytes)
        BY <1>0, <2>2, <3>1
      <4> QED BY <4>1, ConcatEmptySeq DEF Cat
    <3>2. CASE i # 1
      <4>1. i - 1 \in 1 .. n
        BY <3>2, <1>0
      <4> QED BY <2>2, <3>2, <4>1
    <3> QED BY <3>1, <3>2
  <2>9. FlattenSeq(seqs) = f[n]
    BY <1>2, FlattenUnfolds DEF f
  <2> HIDE DEF F
  <2> QED BY <2>7, <2>8, <2>9 DEF IsLayout
<1> QED BY <1>1, <1>2

\* Where two lists agree, so do their layouts.
LEMMA LayoutsAgree ==
    ASSUME NEW s, IsParts(s), NEW t, IsParts(t), NEW F, NEW G,
           IsLayout(F, s), IsLayout(G, t),
           NEW n \in Nat, n <= Len(s), n <= Len(t), \A i \in 1 .. n : s[i] = t[i]
    PROVE  \A i \in 0 .. n : F[i] = G[i]
<1> DEFINE Same == {i \in Nat : i <= n => F[i] = G[i]}
<1>0. Len(s) \in Nat /\ Len(t) \in Nat
  BY DEF IsParts
<1>1. 0 \in Same
  BY DEF IsLayout
<1>2. ASSUME NEW i \in Nat, i \in Same PROVE i + 1 \in Same
  <2> SUFFICES ASSUME i + 1 <= n PROVE F[i + 1] = G[i + 1]
    OBVIOUS
  <2>1. F[i] = G[i] /\ s[i + 1] = t[i + 1]
    BY <1>2
  <2>2. F[i + 1] = Cat(F[i + 1 - 1], s[i + 1]) /\ G[i + 1] = Cat(G[i + 1 - 1], t[i + 1])
    BY <1>0 DEF IsLayout
  <2>3. i + 1 - 1 = i
    OBVIOUS
  <2> QED BY <2>1, <2>2, <2>3
<1> HIDE DEF Same
<1>3. \A i \in Nat : i \in Same
  BY <1>1, <1>2, SetInduction
<1> QED BY <1>3 DEF Same

\* The layout of a list keeps the layouts of its prefixes in front.
LEMMA LayoutGrows ==
    ASSUME NEW s, IsParts(s), NEW F, IsLayout(F, s), NEW i \in 0 .. Len(s)
    PROVE  \A k \in i .. Len(s) :
               /\ Len(F[i]) <= Len(F[k])
               /\ \A p \in 1 .. Len(F[i]) : F[k][p] = F[i][p]
<1> DEFINE n == Len(s)
           Grown == {d \in Nat : i + d <= n =>
                        /\ Len(F[i]) <= Len(F[i + d])
                        /\ \A p \in 1 .. Len(F[i]) : F[i + d][p] = F[i][p]}
<1>0. n \in Nat /\ (\A k \in 0 .. n : F[k] \in Seq(Bytes) /\ Len(F[k]) \in Nat)
  BY LenProperties DEF IsLayout, IsParts
<1>1. 0 \in Grown
  BY <1>0
<1>2. ASSUME NEW d \in Nat, d \in Grown PROVE d + 1 \in Grown
  <2> SUFFICES ASSUME i + (d + 1) <= n
               PROVE  /\ Len(F[i]) <= Len(F[i + (d + 1)])
                      /\ \A p \in 1 .. Len(F[i]) : F[i + (d + 1)][p] = F[i][p]
    OBVIOUS
  <2> DEFINE k == i + d
  <2>1. k \in 0 .. n - 1 /\ i + (d + 1) = k + 1 /\ k + 1 - 1 = k
    BY <1>0
  <2>2. F[k + 1] = Cat(F[k], s[k + 1]) /\ s[k + 1] \in Seq(Bytes) /\ F[k] \in Seq(Bytes)
    BY <1>0, <2>1 DEF IsLayout, IsParts
  <2>3. Len(F[i]) <= Len(F[k]) /\ \A p \in 1 .. Len(F[i]) : F[k][p] = F[i][p]
    BY <1>2, <2>1
  <2> HIDE DEF k
  <2>4. /\ Len(F[k + 1]) = Len(F[k]) + Len(s[k + 1]) /\ Len(s[k + 1]) \in Nat
        /\ \A p \in 1 .. Len(F[k]) : F[k + 1][p] = F[k][p]
    <3> DEFINE a == F[k]
               b == s[k + 1]
    <3>1. a \in Seq(Bytes) /\ b \in Seq(Bytes) /\ F[k + 1] = Cat(a, b)
      BY <2>2
    <3> HIDE DEF a, b
    <3>2. /\ Len(Cat(a, b)) = Len(a) + Len(b) /\ Len(b) \in Nat
          /\ \A p \in 1 .. Len(a) : Cat(a, b)[p] = a[p]
      BY <3>1, CatProperties
    <3> QED BY <3>1, <3>2 DEF a, b
  <2>5. Len(F[k]) \in Nat /\ Len(F[i]) \in Nat
    BY <1>0, <2>1
  <2>6. Len(F[i]) <= Len(F[k + 1])
    <3> DEFINE a == Len(F[i])
               b == Len(F[k])
               c == Len(s[k + 1])
    <3>1. a \in Nat /\ b \in Nat /\ c \in Nat /\ a <= b
      BY <2>3, <2>4, <2>5
    <3>2. Len(F[k + 1]) = b + c
      BY <2>4
    <3> HIDE DEF a, b, c
    <3>3. a <= b + c
      BY <3>1
    <3> QED BY <3>2, <3>3 DEF a
  <2>7. ASSUME NEW p \in 1 .. Len(F[i]) PROVE F[k + 1][p] = F[i][p]
    <3>1. p \in 1 .. Len(F[k])
      BY <2>3, <2>5
    <3> QED BY <2>3, <2>4, <3>1
  <2> QED BY <2>1, <2>6, <2>7
<1> HIDE DEF Grown
<1>3. \A d \in Nat : d \in Grown
  BY <1>1, <1>2, SetInduction
<1>4. ASSUME NEW k \in i .. n
      PROVE  Len(F[i]) <= Len(F[k]) /\ \A p \in 1 .. Len(F[i]) : F[k][p] = F[i][p]
  <2>1. k - i \in Nat /\ i + (k - i) = k /\ k <= n
    BY <1>0
  <2>2. k - i \in Grown
    BY <1>3, <2>1
  <2> QED BY <2>1, <2>2 DEF Grown
<1> QED BY <1>4

\* Part b stands in string a behind position n.
StandsAt(a, n, b) == \A p \in 1 .. Len(b) : a[n + p] = b[p]

\* Where one part begins and ends in the whole.
LEMMA PartAt ==
    ASSUME NEW s, IsParts(s), NEW F, IsLayout(F, s), NEW i \in 0 .. Len(s) - 1
    PROVE  /\ Len(F[i]) \in Nat /\ Len(s[i + 1]) \in Nat
           /\ Len(F[i + 1]) = Len(F[i]) + Len(s[i + 1])
           /\ Len(F[i + 1]) <= Len(F[Len(s)])
           /\ StandsAt(F[Len(s)], Len(F[i]), s[i + 1])
<1> DEFINE n == Len(s)
<1>0. n \in Nat /\ i + 1 \in 0 .. n /\ i \in 0 .. n /\ i + 1 - 1 = i
  BY DEF IsParts
<1>1. F[i + 1] = Cat(F[i], s[i + 1]) /\ s[i + 1] \in Seq(Bytes) /\ F[i] \in Seq(Bytes)
  BY <1>0 DEF IsLayout, IsParts
<1>2. /\ Len(F[i]) \in Nat /\ Len(s[i + 1]) \in Nat
      /\ Len(F[i + 1]) = Len(F[i]) + Len(s[i + 1])
      /\ \A p \in 1 .. Len(s[i + 1]) : F[i + 1][Len(F[i]) + p] = s[i + 1][p]
  <2> DEFINE a == F[i]
             b == s[i + 1]
  <2>1. a \in Seq(Bytes) /\ b \in Seq(Bytes) /\ F[i + 1] = Cat(a, b)
    BY <1>1
  <2> HIDE DEF a, b
  <2>2. /\ Len(a) \in Nat /\ Len(b) \in Nat
        /\ Len(Cat(a, b)) = Len(a) + Len(b)
        /\ \A p \in 1 .. Len(b) : Cat(a, b)[Len(a) + p] = b[p]
    BY <2>1, CatProperties
  <2> QED BY <2>1, <2>2 DEF a, b
<1>3. /\ Len(F[i + 1]) <= Len(F[n])
      /\ \A p \in 1 .. Len(F[i + 1]) : F[n][p] = F[i + 1][p]
  BY <1>0, LayoutGrows
<1>4. ASSUME NEW p \in 1 .. Len(s[i + 1]) PROVE F[n][Len(F[i]) + p] = s[i + 1][p]
  <2>1. Len(F[i]) + p \in 1 .. Len(F[i + 1])
    <3> DEFINE a == Len(F[i])
               b == Len(s[i + 1])
    <3>1. a \in Nat /\ b \in Nat /\ p \in 1 .. b
      BY <1>2
    <3>2. Len(F[i + 1]) = a + b
      BY <1>2
    <3> HIDE DEF a, b
    <3>3. a + p \in 1 .. a + b
      BY <3>1
    <3> QED BY <3>2, <3>3 DEF a
  <2> QED BY <1>2, <1>3, <2>1
<1>5. StandsAt(F[n], Len(F[i]), s[i + 1])
  BY <1>4 DEF StandsAt
<1> QED BY <1>2, <1>3, <1>5

----------------------------------------------------------------------------
(* The layout of commands, requests and reports *)

CommandType == Seq(Keys \X Seq(Bytes))

\* A layout of the parts that ends in all of them.
Layout(seqs) == CHOOSE F : IsLayout(F, seqs) /\ F[Len(seqs)] = FlattenSeq(seqs)

LEMMA LayoutExists ==
    ASSUME NEW seqs, IsParts(seqs)
    PROVE  IsLayout(Layout(seqs), seqs) /\ Layout(seqs)[Len(seqs)] = FlattenSeq(seqs)
BY FlattenHasLayout DEF Layout

PairParts(pairs) == [j \in DOMAIN pairs |-> PairBytes(pairs[j])]

LEMMA IdBytesType ==
    ASSUME NEW id \in Keys
    PROVE  /\ <<id \div Base, id % Base>> \in Seq(Bytes)
           /\ Len(<<id \div Base, id % Base>>) = 2
           /\ (id \div Base) * Base + (id % Base) = id
<1>1. id \div Base \in Bytes /\ id % Base \in Bytes
      /\ (id \div Base) * Base + (id % Base) = id
  BY DivMod, IdsAssumption
<1> DEFINE q == id \div Base
           r == id % Base
<1> HIDE DEF q, r
<1>2. q \in Bytes /\ r \in Bytes
  BY <1>1 DEF q, r
<1>3. <<q, r>> \in Seq(Bytes) /\ Len(<<q, r>>) = 2
  BY <1>2
<1> QED BY <1>1, <1>3 DEF q, r

LEMMA PairBytesResult ==
    ASSUME NEW pair \in Keys \X Seq(Bytes)
    PROVE  /\ PairBytes(pair) \in Seq(Bytes)
           /\ Len(pair[2]) \in Nat
           /\ Len(PairBytes(pair)) = 2 + Len(pair[2])
           /\ PairBytes(pair)[1] = pair[1] \div Base
           /\ PairBytes(pair)[2] = pair[1] % Base
           /\ \A p \in 1 .. Len(pair[2]) : PairBytes(pair)[2 + p] = pair[2][p]
<1> DEFINE a == <<pair[1] \div Base, pair[1] % Base>>
           b == pair[2]
<1>1. pair[1] \in Keys /\ b \in Seq(Bytes)
  OBVIOUS
<1>2. a \in Seq(Bytes) /\ Len(a) = 2
  BY <1>1, IdBytesType
<1>3. a[1] = pair[1] \div Base /\ a[2] = pair[1] % Base
  OBVIOUS
<1>4. PairBytes(pair) = Cat(a, b)
  BY DEF PairBytes, Cat
<1> HIDE DEF a, b
<1>5. /\ Cat(a, b) \in Seq(Bytes)
      /\ Len(b) \in Nat
      /\ Len(Cat(a, b)) = Len(a) + Len(b)
      /\ \A p \in 1 .. Len(a) : Cat(a, b)[p] = a[p]
      /\ \A p \in 1 .. Len(b) : Cat(a, b)[Len(a) + p] = b[p]
  BY <1>1, <1>2, CatProperties
<1>6. Cat(a, b)[1] = a[1] /\ Cat(a, b)[2] = a[2]
  BY <1>2, <1>5
<1> QED BY <1>2, <1>3, <1>4, <1>5, <1>6 DEF b

LEMMA PairPartsResult ==
    ASSUME NEW pairs \in CommandType
    PROVE  /\ IsParts(PairParts(pairs))
           /\ Len(pairs) \in Nat
           /\ Len(PairParts(pairs)) = Len(pairs)
           /\ \A j \in 1 .. Len(pairs) : /\ pairs[j] \in Keys \X Seq(Bytes)
                                         /\ PairParts(pairs)[j] = PairBytes(pairs[j])
<1> DEFINE n == Len(pairs)
           T == Keys \X Seq(Bytes)
<1>1. n \in Nat /\ DOMAIN pairs = 1 .. n /\ \A j \in 1 .. n : pairs[j] \in T
  <2> HIDE DEF T
  <2>1. pairs \in Seq(T)
    BY DEF CommandType, T
  <2> QED BY <2>1, LenProperties
<1>2. PairParts(pairs) = [j \in 1 .. n |-> PairBytes(pairs[j])]
  BY <1>1 DEF PairParts
<1>3. \A j \in 1 .. n : PairBytes(pairs[j]) \in Seq(Bytes)
  BY <1>1, PairBytesResult
<1> DEFINE parts == [j \in 1 .. n |-> PairBytes(pairs[j])]
           B == Seq(Bytes)
<1> HIDE DEF T
<1>4. parts \in Seq(B) /\ Len(parts) = n
  <2> HIDE DEF B
  <2>1. \A j \in 1 .. n : PairBytes(pairs[j]) \in B
    BY <1>3 DEF B
  <2>2. parts \in [1 .. n -> B]
    BY <2>1
  <2> HIDE DEF parts
  <2> QED BY <1>1, <2>2
<1>5. Len(parts) = 0 => parts = <<>>
  <2> HIDE DEF B, parts
  <2> QED BY <1>4, EmptySeq
<1>6. \A j \in 1 .. n : parts[j] = PairBytes(pairs[j])
  OBVIOUS
<1> HIDE DEF parts
<1>7. IsParts(parts)
  BY <1>1, <1>3, <1>4, <1>5, <1>6 DEF IsParts
<1>8. PairParts(pairs) = parts
  BY <1>2 DEF parts
<1> QED BY <1>1, <1>4, <1>6, <1>7, <1>8 DEF T

\* A count and what follows it.
LEMMA Counted ==
    ASSUME NEW n \in Bytes, NEW b \in Seq(Bytes)
    PROVE  /\ <<n>> \o b \in Seq(Bytes)
           /\ Len(b) \in Nat
           /\ Len(<<n>> \o b) = 1 + Len(b)
           /\ (<<n>> \o b)[1] = n
           /\ \A p \in 1 .. Len(b) : (<<n>> \o b)[1 + p] = b[p]
<1> DEFINE a == <<n>>
<1>1. a \in Seq(Bytes) /\ Len(a) = 1 /\ a[1] = n
  OBVIOUS
<1> HIDE DEF a
<1>2. /\ Cat(a, b) \in Seq(Bytes)
      /\ Len(b) \in Nat
      /\ Len(Cat(a, b)) = Len(a) + Len(b)
      /\ \A p \in 1 .. Len(a) : Cat(a, b)[p] = a[p]
      /\ \A p \in 1 .. Len(b) : Cat(a, b)[Len(a) + p] = b[p]
  BY <1>1, CatProperties
<1>3. Cat(a, b) = <<n>> \o b
  BY DEF Cat, a
<1> QED BY <1>1, <1>2, <1>3

\* Where item i ends in the encoded command.
End(pairs, i) == 1 + Len(Layout(PairParts(pairs))[i])

LEMMA EncodeResult ==
    ASSUME NEW pairs \in CommandType, Len(pairs) < Base
    PROVE  /\ Encode(pairs) \in Seq(Bytes)
           /\ Encode(pairs)[1] = Len(pairs)
           /\ End(pairs, 0) = 1
           /\ End(pairs, Len(pairs)) = Len(Encode(pairs))
           /\ LET all == Layout(PairParts(pairs))[Len(pairs)]
              IN \A p \in 1 .. Len(all) : Encode(pairs)[1 + p] = all[p]
<1> DEFINE F == Layout(PairParts(pairs))
           all == F[Len(pairs)]
<1>1. /\ IsParts(PairParts(pairs)) /\ Len(pairs) \in Nat
      /\ Len(PairParts(pairs)) = Len(pairs)
  BY PairPartsResult
<1>2. IsLayout(F, PairParts(pairs)) /\ all = FlattenSeq(PairParts(pairs))
  BY <1>1, LayoutExists
<1>3. all \in Seq(Bytes) /\ F[0] = <<>>
  BY <1>1, <1>2 DEF IsLayout
<1>4. Encode(pairs) = <<Len(pairs)>> \o all
  BY <1>2 DEF Encode, PairParts
<1>5. Len(pairs) \in Bytes
  BY <1>1, ByteAssumption DEF Bytes
<1>6. End(pairs, 0) = 1 /\ End(pairs, Len(pairs)) = 1 + Len(all)
  BY <1>3 DEF End
<1> HIDE DEF F, all
<1>7. /\ Encode(pairs) \in Seq(Bytes)
      /\ Len(Encode(pairs)) = 1 + Len(all)
      /\ Encode(pairs)[1] = Len(pairs)
      /\ \A p \in 1 .. Len(all) : Encode(pairs)[1 + p] = all[p]
  BY <1>3, <1>4, <1>5, Counted
<1> QED BY <1>6, <1>7 DEF F, all

LEMMA EncodedItem ==
    ASSUME NEW pairs \in CommandType, Len(pairs) < Base, NEW i \in 0 .. Len(pairs) - 1
    PROVE  /\ End(pairs, i) \in Nat /\ End(pairs, i) >= 1
           /\ pairs[i + 1][1] \in Keys /\ pairs[i + 1][2] \in Seq(Bytes)
           /\ Len(pairs[i + 1][2]) \in Nat
           /\ End(pairs, i + 1) = End(pairs, i) + 2 + Len(pairs[i + 1][2])
           /\ End(pairs, i + 1) <= Len(Encode(pairs))
           /\ Encode(pairs)[End(pairs, i) + 1] = pairs[i + 1][1] \div Base
           /\ Encode(pairs)[End(pairs, i) + 2] = pairs[i + 1][1] % Base
           /\ \A p \in 1 .. Len(pairs[i + 1][2]) :
                 Encode(pairs)[End(pairs, i) + 2 + p] = pairs[i + 1][2][p]
<1> DEFINE n == Len(pairs)
           parts == PairParts(pairs)
           F == Layout(parts)
           value == pairs[i + 1][2]
           part == parts[i + 1]
           at == Len(F[i])
<1>1. IsParts(parts) /\ n \in Nat /\ Len(parts) = n /\ i + 1 \in 1 .. n
  BY PairPartsResult
<1>2. IsLayout(F, parts)
  BY <1>1, LayoutExists
<1>3. pairs[i + 1] \in Keys \X Seq(Bytes) /\ part = PairBytes(pairs[i + 1])
  BY <1>1, PairPartsResult
<1>4. /\ pairs[i + 1][1] \in Keys /\ value \in Seq(Bytes) /\ Len(value) \in Nat
      /\ Len(part) = 2 + Len(value)
      /\ part[1] = pairs[i + 1][1] \div Base
      /\ part[2] = pairs[i + 1][1] % Base
      /\ \A p \in 1 .. Len(value) : part[2 + p] = value[p]
  BY <1>3, PairBytesResult
<1>5. /\ at \in Nat
      /\ Len(F[i + 1]) = at + Len(part)
      /\ Len(F[i + 1]) <= Len(F[n])
      /\ StandsAt(F[n], at, part)
  <2>1. i \in 0 .. Len(parts) - 1
    BY <1>1
  <2>3. IsParts(parts)
    BY <1>1
  <2> HIDE DEF F, parts, at, part
  <2>2. /\ Len(F[i]) \in Nat
        /\ Len(F[i + 1]) = Len(F[i]) + Len(parts[i + 1])
        /\ Len(F[i + 1]) <= Len(F[Len(parts)])
        /\ StandsAt(F[Len(parts)], Len(F[i]), parts[i + 1])
    BY <1>2, <2>1, <2>3, PartAt
  <2> QED BY <1>1, <2>2 DEF at, part
<1>6. /\ \A p \in 1 .. Len(F[n]) : Encode(pairs)[1 + p] = F[n][p]
      /\ 1 + Len(F[n]) = Len(Encode(pairs))
  BY EncodeResult DEF End
<1>7. End(pairs, i) = 1 + at /\ End(pairs, i + 1) = 1 + Len(F[i + 1])
  BY DEF End
<1>8. Len(F[n]) \in Nat
  BY <1>1, <1>2, LenProperties DEF IsLayout
<1> DEFINE all == F[n]
           v == Len(value)
           e == Encode(pairs)
           l == Len(all)
<1>9. /\ at \in Nat /\ v \in Nat /\ l \in Nat
      /\ Len(part) = 2 + v
      /\ Len(F[i + 1]) = at + 2 + v
      /\ at + 2 + v <= l
      /\ \A p \in 1 .. 2 + v : all[at + p] = part[p]
      /\ \A p \in 1 .. l : e[1 + p] = all[p]
      /\ \A p \in 1 .. v : part[2 + p] = value[p]
      /\ 1 + l = Len(e)
  <2> HIDE DEF n, parts, F, value, part, at, e
  <2>1. Len(F[i + 1]) = at + (2 + v) /\ v \in Nat /\ Len(part) = 2 + v
    BY <1>4, <1>5
  <2>2. l \in Nat /\ at \in Nat /\ at + (2 + v) = at + 2 + v
    BY <1>5, <1>8, <2>1
  <2>3. at + 2 + v <= l
    BY <1>5, <2>1, <2>2
  <2>4. \A p \in 1 .. 2 + v : all[at + p] = part[p]
    BY <1>5, <2>1 DEF StandsAt, all
  <2>5. \A p \in 1 .. l : e[1 + p] = all[p]
    BY <1>6 DEF e
  <2>6. (\A p \in 1 .. v : part[2 + p] = value[p]) /\ 1 + l = Len(e)
    BY <1>4, <1>6 DEF e
  <2> QED BY <2>1, <2>2, <2>3, <2>4, <2>5, <2>6
<1> HIDE DEF n, parts, F, value, part, at, all, v, e, l
<1>10. ASSUME NEW p \in 1 .. 2 + v PROVE e[1 + at + p] = part[p]
  <2>1. at + p \in 1 .. l /\ 1 + (at + p) = 1 + at + p
    BY <1>9
  <2>2. e[1 + (at + p)] = all[at + p]
    BY <1>9, <2>1
  <2> QED BY <1>9, <2>1, <2>2
<1>11. e[1 + at + 1] = part[1] /\ e[1 + at + 2] = part[2]
  BY <1>9, <1>10
<1>12. ASSUME NEW p \in 1 .. v PROVE e[1 + at + 2 + p] = value[p]
  <2>1. 2 + p \in 1 .. 2 + v /\ 1 + at + (2 + p) = 1 + at + 2 + p
    BY <1>9
  <2>2. e[1 + at + (2 + p)] = part[2 + p]
    BY <1>10, <2>1
  <2> QED BY <1>9, <2>1, <2>2
<1>13. 1 + at \in Nat /\ 1 + at >= 1 /\ 1 + (at + 2 + v) = 1 + at + 2 + v
       /\ 1 + (at + 2 + v) <= 1 + l
  BY <1>9
<1> QED BY <1>4, <1>7, <1>9, <1>11, <1>12, <1>13 DEF value, part, v, e

\* What ground sends: a prefix of the encoding, or the encoding and a byte more.
LEMMA Received ==
    ASSUME NEW e \in Seq(Bytes), NEW m \in 0 .. Len(e) + 1
    PROVE  LET r == SubSeq(Append(e, 0), 1, m)
           IN  /\ r \in Seq(Bytes) /\ Len(r) = m /\ Len(e) \in Nat
               /\ \A p \in 1 .. m : p <= Len(e) => r[p] = e[p]
<1> DEFINE a == Append(e, 0)
           r == SubSeq(a, 1, m)
<1>1. Len(e) \in Nat /\ m \in Nat /\ m <= Len(e) + 1
  BY LenProperties
<1>2. 0 \in Bytes
  BY ByteAssumption DEF Bytes
<1>3. /\ Len(a) = Len(e) + 1 /\ a \in Seq(Bytes)
      /\ \A p \in 1 .. Len(e) : a[p] = e[p]
  BY <1>2, AppendProperties
<1> HIDE DEF a
<1>4. \A p \in 1 .. m : a[p] \in Bytes
  <2>1. a \in [1 .. Len(e) + 1 -> Bytes]
    BY <1>3, LenProperties
  <2> QED BY <1>1, <2>1
<1>5. /\ r \in Seq(Bytes)
      /\ Len(r) = (IF 1 <= m THEN m - 1 + 1 ELSE 0)
      /\ \A p \in 1 .. m - 1 + 1 : r[p] = a[1 + p - 1]
  BY <1>1, <1>4, SubSeqProperties
<1> HIDE DEF r
<1>6. ASSUME NEW p \in 1 .. m, p <= Len(e) PROVE r[p] = e[p]
  <2>1. p \in 1 .. m - 1 + 1 /\ 1 + p - 1 = p /\ p \in 1 .. Len(e)
    BY <1>1, <1>6
  <2> QED BY <1>3, <1>5, <2>1
<1>7. Len(r) = m
  BY <1>1, <1>5
<1> QED BY <1>1, <1>5, <1>6, <1>7 DEF r, a

\* The id of an item that arrived.
LEMMA ReadsId ==
    ASSUME NEW pairs \in CommandType, Len(pairs) < Base, NEW i \in 0 .. Len(pairs) - 1,
           NEW m \in 0 .. Len(Encode(pairs)) + 1, End(pairs, i) + 2 <= m
    PROVE  IdAt(SubSeq(Append(Encode(pairs), 0), 1, m), End(pairs, i)) = pairs[i + 1][1]
<1> DEFINE e == Encode(pairs)
           r == SubSeq(Append(e, 0), 1, m)
           at == End(pairs, i)
           id == pairs[i + 1][1]
           v == Len(pairs[i + 1][2])
<1>1. e \in Seq(Bytes)
  BY EncodeResult
<1>2. /\ at \in Nat /\ at >= 1 /\ id \in Keys /\ v \in Nat
      /\ at + 2 + v <= Len(e)
      /\ e[at + 1] = id \div Base /\ e[at + 2] = id % Base
  BY EncodedItem
<1>3. Len(e) \in Nat /\ \A p \in 1 .. m : p <= Len(e) => r[p] = e[p]
  BY <1>1, Received
<1> HIDE DEF e, r, at, id, v
<1>4. /\ at + 1 \in 1 .. m /\ at + 2 \in 1 .. m
      /\ at + 1 <= Len(e) /\ at + 2 <= Len(e)
  BY SMTT(30), <1>2, <1>3 DEF at
<1>5. r[at + 1] = id \div Base /\ r[at + 2] = id % Base
  BY <1>2, <1>3, <1>4
<1>6. (id \div Base) * Base + (id % Base) = id
  BY <1>2, IdBytesType
<1>7. IdAt(r, at) = id
  BY <1>5, <1>6 DEF IdAt
<1> QED BY <1>7 DEF r, e, at, id

\* The value of an item that arrived.
LEMMA ReadsValue ==
    ASSUME NEW pairs \in CommandType, Len(pairs) < Base, NEW i \in 0 .. Len(pairs) - 1,
           NEW m \in 0 .. Len(Encode(pairs)) + 1, End(pairs, i + 1) <= m
    PROVE  SubSeq(SubSeq(Append(Encode(pairs), 0), 1, m), End(pairs, i) + 3, End(pairs, i + 1))
               = pairs[i + 1][2]
<1> DEFINE e == Encode(pairs)
           r == SubSeq(Append(e, 0), 1, m)
           at == End(pairs, i)
           value == pairs[i + 1][2]
           v == Len(value)
           next == End(pairs, i + 1)
           s == SubSeq(r, at + 3, next)
<1>1. e \in Seq(Bytes)
  BY EncodeResult
<1>2. /\ at \in Nat /\ at >= 1 /\ v \in Nat /\ value \in Seq(Bytes)
      /\ next = at + 2 + v
      /\ next <= Len(e)
      /\ \A p \in 1 .. v : e[at + 2 + p] = value[p]
  BY EncodedItem
<1>3. /\ Len(e) \in Nat /\ r \in Seq(Bytes) /\ Len(r) = m
      /\ \A p \in 1 .. m : p <= Len(e) => r[p] = e[p]
  BY <1>1, Received
<1>4. next <= m
  OBVIOUS
<1> HIDE DEF e, r, at, value, v, next
<1>5. \A p \in 1 .. m : r[p] \in Bytes
  BY <1>3, LenProperties
<1>6. \A p \in at + 3 .. next : r[p] \in Bytes
  BY <1>2, <1>4, <1>5
<1>7. /\ s \in Seq(Bytes)
      /\ Len(s) = (IF at + 3 <= next THEN next - (at + 3) + 1 ELSE 0)
      /\ \A p \in 1 .. next - (at + 3) + 1 : s[p] = r[at + 3 + p - 1]
  BY <1>2, <1>6, SubSeqProperties
<1> HIDE DEF s
<1>8. Len(s) = v
  BY <1>2, <1>7
<1>9. ASSUME NEW p \in 1 .. v PROVE s[p] = value[p]
  <2>1. /\ p \in 1 .. next - (at + 3) + 1 /\ at + 3 + p - 1 = at + 2 + p
        /\ at + 2 + p \in 1 .. m /\ at + 2 + p <= Len(e)
    BY <1>2, <1>3, <1>4
  <2> QED BY <1>2, <1>3, <1>7, <2>1
<1>10. s = value
  BY <1>2, <1>7, <1>8, <1>9, SeqEqual DEF v
<1> QED BY <1>10 DEF s, r, e, at, value, next

\* A request is laid out as a command whose values are empty.
AsPairs(list) == [j \in DOMAIN list |-> <<list[j], <<>>>>]

LEMMA AsPairsResult ==
    ASSUME NEW list \in Seq(Keys)
    PROVE  /\ AsPairs(list) \in CommandType
           /\ Len(list) \in Nat
           /\ Len(AsPairs(list)) = Len(list)
           /\ \A j \in 1 .. Len(list) : /\ list[j] \in Keys
                                        /\ AsPairs(list)[j] = <<list[j], <<>>>>
           /\ EncodeIds(list) = Encode(AsPairs(list))
<1> DEFINE n == Len(list)
           empty == <<>>
           B == Seq(Bytes)
           pairs == [j \in 1 .. n |-> <<list[j], empty>>]
<1>1. n \in Nat /\ DOMAIN list = 1 .. n /\ \A j \in 1 .. n : list[j] \in Keys
  BY LenProperties
<1>2. empty \in B
  BY EmptySeq
<1>3. AsPairs(list) = pairs
  BY <1>1 DEF AsPairs
<1>4. \A j \in 1 .. n : PairBytes(<<list[j], <<>>>>) = <<list[j] \div Base, list[j] % Base>>
  <2> SUFFICES ASSUME NEW j \in 1 .. n
               PROVE  PairBytes(<<list[j], <<>>>>) = <<list[j] \div Base, list[j] % Base>>
    OBVIOUS
  <2> DEFINE a == <<list[j] \div Base, list[j] % Base>>
  <2>1. a \in Seq(Bytes)
    BY <1>1, IdBytesType
  <2>2. PairBytes(<<list[j], <<>>>>) = a \o <<>>
    BY DEF PairBytes
  <2> HIDE DEF a
  <2>3. a \o <<>> = a
    BY <2>1, ConcatEmptySeq
  <2> QED BY <2>2, <2>3 DEF a
<1>5. [j \in DOMAIN pairs |-> PairBytes(pairs[j])]
          = [j \in DOMAIN list |-> <<list[j] \div Base, list[j] % Base>>]
  BY <1>1, <1>4
<1>6. pairs \in Seq(Keys \X B) /\ Len(pairs) = n
  <2> HIDE DEF B, empty
  <2> DEFINE T == Keys \X B
  <2>1. \A j \in 1 .. n : <<list[j], empty>> \in T
    BY <1>1, <1>2
  <2> HIDE DEF T
  <2>2. pairs \in [1 .. n -> T]
    BY <2>1
  <2>3. pairs \in Seq(T)
    BY <1>1, <2>2
  <2>4. Len(pairs) = n
    BY <1>1
  <2> QED BY <2>3, <2>4 DEF T
<1>7. EncodeIds(list) = Encode(pairs)
  <2>1. Len(pairs) = Len(list)
    BY <1>6
  <2> QED BY <1>5, <2>1 DEF EncodeIds, Encode
<1>8. \A j \in 1 .. n : pairs[j] = <<list[j], <<>>>>
  OBVIOUS
<1> QED BY <1>1, <1>3, <1>6, <1>7, <1>8 DEF CommandType

LEMMA EndOfIds ==
    ASSUME NEW list \in Seq(Keys), Len(list) < Base
    PROVE  \A i \in 0 .. Len(list) : End(AsPairs(list), i) = 1 + 2 * i
<1> DEFINE n == Len(list)
           Right == {i \in Nat : i <= n => End(AsPairs(list), i) = 1 + 2 * i}
<1>0. n \in Nat /\ AsPairs(list) \in CommandType /\ Len(AsPairs(list)) = n
  BY AsPairsResult
<1>1. 0 \in Right
  BY <1>0, EncodeResult
<1>2. ASSUME NEW i \in Nat, i \in Right PROVE i + 1 \in Right
  <2> SUFFICES ASSUME i + 1 <= n PROVE End(AsPairs(list), i + 1) = 1 + 2 * (i + 1)
    OBVIOUS
  <2>1. i \in 0 .. Len(AsPairs(list)) - 1 /\ i + 1 \in 1 .. n
    BY <1>0
  <2>2. AsPairs(list)[i + 1] = <<list[i + 1], <<>>>>
    BY <2>1, AsPairsResult
  <2>3. End(AsPairs(list), i + 1) = End(AsPairs(list), i) + 2 + Len(AsPairs(list)[i + 1][2])
    BY <1>0, <2>1, EncodedItem
  <2>4. Len(AsPairs(list)[i + 1][2]) = 0
    BY <2>2
  <2>5. End(AsPairs(list), i) = 1 + 2 * i
    BY <1>2
  <2> HIDE DEF n, Right
  <2> QED BY <2>3, <2>4, <2>5
<1> HIDE DEF Right
<1>3. \A i \in Nat : i \in Right
  BY <1>1, <1>2, SetInduction
<1> QED BY <1>0, <1>3 DEF Right

\* A request that passes the check names the parameters ground asked for.
LEMMA ReadsRequest ==
    ASSUME NEW list \in Seq(Keys), Len(list) < Base,
           NEW m \in 0 .. Len(EncodeIds(list)) + 1,
           NEW bytes, bytes = SubSeq(Append(EncodeIds(list), 0), 1, m),
           Acceptable(bytes)
    PROVE  /\ bytes[1] = Len(list)
           /\ [j \in 1 .. bytes[1] |-> IdAt(bytes, 2 * j - 1)] \in Seq(Keys)
<1> DEFINE n == Len(list)
           pairs == AsPairs(list)
<1>1. /\ n \in Nat /\ pairs \in CommandType /\ Len(pairs) = n
      /\ EncodeIds(list) = Encode(pairs)
      /\ \A j \in 1 .. n : list[j] \in Keys /\ pairs[j] = <<list[j], <<>>>>
  BY AsPairsResult
<1>2. /\ Encode(pairs) \in Seq(Bytes) /\ Encode(pairs)[1] = n
      /\ End(pairs, n) = Len(Encode(pairs))
  BY <1>1, EncodeResult
<1>3. \A i \in 0 .. n : End(pairs, i) = 1 + 2 * i
  BY EndOfIds
<1>4. Len(Encode(pairs)) = 1 + 2 * n
  BY <1>1, <1>2, <1>3
<1>5. /\ bytes = SubSeq(Append(Encode(pairs), 0), 1, m) /\ m \in 0 .. Len(Encode(pairs)) + 1
      /\ bytes \in Seq(Bytes) /\ Len(bytes) = m
      /\ \A p \in 1 .. m : p <= Len(Encode(pairs)) => bytes[p] = Encode(pairs)[p]
  BY <1>1, <1>2, Received
<1>6. m # 0
  <2>1. bytes # <<>>
    BY DEF Acceptable
  <2> QED BY <1>5, <2>1, EmptySeq
<1>7. bytes[1] = n
  <2>1. 1 \in 1 .. m /\ 1 <= Len(Encode(pairs))
    BY <1>1, <1>4, <1>5, <1>6
  <2> QED BY <1>2, <1>5, <2>1
<1>8. m >= 1 + 2 * n
  <2>1. (1 + 2 * n) \in Nat /\ 1 + 2 * n < Wrap
    BY <1>1, ByteAssumption
  <2>2. (1 + 2 * n) % Wrap = 1 + 2 * n
    <3> DEFINE k == 1 + 2 * n
    <3>1. k \in Nat /\ k < Wrap
      BY <2>1
    <3> HIDE DEF k
    <3>2. k % Wrap = k
      BY <3>1, ByteAssumption
    <3> QED BY <3>2 DEF k
  <2>3. Len(bytes) >= (1 + 2 * n) % Wrap
    BY <1>7 DEF Acceptable
  <2> QED BY <1>5, <2>2, <2>3
<1>9. ASSUME NEW j \in 1 .. n PROVE IdAt(bytes, 2 * j - 1) = list[j]
  <2>1. /\ j - 1 \in 0 .. Len(pairs) - 1 /\ j - 1 + 1 = j /\ j - 1 \in 0 .. n
        /\ 1 + 2 * (j - 1) = 2 * j - 1 /\ 1 + 2 * (j - 1) + 2 <= m
    BY <1>1, <1>5, <1>8
  <2>2. End(pairs, j - 1) = 2 * j - 1 /\ End(pairs, j - 1) + 2 <= m
    BY <1>3, <2>1
  <2>3. IdAt(bytes, End(pairs, j - 1)) = pairs[j - 1 + 1][1]
    BY <1>1, <1>5, <2>1, <2>2, ReadsId
  <2> QED BY <1>1, <2>1, <2>2, <2>3
<1>10. [j \in 1 .. n |-> IdAt(bytes, 2 * j - 1)] \in Seq(Keys)
  <2>1. \A j \in 1 .. n : IdAt(bytes, 2 * j - 1) \in Keys
    BY <1>1, <1>9
  <2> DEFINE f == [j \in 1 .. n |-> IdAt(bytes, 2 * j - 1)]
  <2>2. f \in [1 .. n -> Keys]
    BY <2>1
  <2> HIDE DEF f
  <2>3. f \in Seq(Keys)
    BY SMTT(30), <1>1, <2>2
  <2> QED BY <2>3 DEF f
<1> QED BY <1>7, <1>10

\* One pair more.
LEMMA FlattenAppend ==
    ASSUME NEW pairs \in CommandType, NEW pair \in Keys \X Seq(Bytes)
    PROVE  /\ Append(pairs, pair) \in CommandType
           /\ Len(Append(pairs, pair)) = Len(pairs) + 1
           /\ FlattenSeq(PairParts(pairs)) \in Seq(Bytes)
           /\ FlattenSeq(PairParts(Append(pairs, pair)))
                  = FlattenSeq(PairParts(pairs)) \o PairBytes(pair)
<1> DEFINE T == Keys \X Seq(Bytes)
           n == Len(pairs)
           more == Append(pairs, pair)
           s == PairParts(pairs)
           t == PairParts(more)
           F == Layout(s)
           G == Layout(t)
<1>1. /\ more \in Seq(T) /\ Len(more) = n + 1
      /\ (\A j \in 1 .. n : more[j] = pairs[j]) /\ more[n + 1] = pair
  <2>1. pairs \in Seq(T) /\ pair \in T
    BY DEF CommandType
  <2> HIDE DEF T
  <2> QED BY <2>1, AppendProperties
<1>2. more \in CommandType
  BY <1>1 DEF CommandType
<1> HIDE DEF T, more
<1>3. /\ IsParts(s) /\ n \in Nat /\ Len(s) = n
      /\ \A j \in 1 .. n : s[j] = PairBytes(pairs[j])
  BY PairPartsResult
<1>4. /\ IsParts(t) /\ Len(t) = n + 1
      /\ \A j \in 1 .. n + 1 : t[j] = PairBytes(more[j])
  BY <1>1, <1>2, PairPartsResult
<1>5. \A j \in 1 .. n : s[j] = t[j]
  BY <1>1, <1>3, <1>4
<1>6. /\ IsLayout(F, s) /\ F[n] = FlattenSeq(s)
      /\ IsLayout(G, t) /\ G[n + 1] = FlattenSeq(t)
  BY <1>3, <1>4, LayoutExists
<1> HIDE DEF s, t, F, G
<1>7. F[n] = G[n]
  <2>1. n <= Len(s) /\ n <= Len(t) /\ n \in 0 .. n
    BY <1>3, <1>4
  <2> QED BY SMTT(30), <1>3, <1>4, <1>5, <1>6, <2>1, LayoutsAgree
<1>8. G[n + 1] = Cat(G[n], t[n + 1])
  <2>1. n + 1 \in 1 .. Len(t) /\ n + 1 - 1 = n
    BY <1>3, <1>4
  <2> QED BY <1>6, <2>1 DEF IsLayout
<1>9. t[n + 1] = PairBytes(pair)
  BY <1>1, <1>3, <1>4
<1>10. F[n] \in Seq(Bytes)
  BY <1>3, <1>6 DEF IsLayout
<1> QED BY <1>1, <1>2, <1>6, <1>7, <1>8, <1>9, <1>10 DEF s, t, more, Cat

LEMMA FlattenNothing == <<>> \in CommandType /\ FlattenSeq(PairParts(<<>>)) = <<>>
<1> DEFINE T == Keys \X Seq(Bytes)
           none == <<>>
<1>1. none \in CommandType /\ Len(none) = 0
  <2> HIDE DEF T
  <2>1. none \in Seq(T)
    BY EmptySeq
  <2> QED BY <2>1 DEF CommandType, T
<1> HIDE DEF none
<1>2. IsParts(PairParts(none)) /\ Len(PairParts(none)) = 0
  BY <1>1, PairPartsResult
<1>3. PairParts(none) = <<>>
  BY <1>2 DEF IsParts
<1>4. FlattenSeq(PairParts(none)) = <<>>
  BY <1>2, <1>3 DEF FlattenSeq
<1> QED BY <1>1, <1>4 DEF none

\* A report grows by what TC[20,3] would call a pair.
LEMMA ReportGrows ==
    ASSUME NEW n \in Bytes, NEW pairs \in CommandType, NEW id \in Keys, NEW value \in Seq(Bytes)
    PROVE  /\ (<<n>> \o FlattenSeq(PairParts(pairs))) \o IdBytes(id) \o value
                  = <<n>> \o FlattenSeq(PairParts(Append(pairs, <<id, value>>)))
           /\ <<n>> \o FlattenSeq(PairParts(pairs)) \in Seq(Bytes)
<1> DEFINE a == <<n>>
           b == FlattenSeq(PairParts(pairs))
           c == IdBytes(id)
           pair == <<id, value>>
<1>1. a \in Seq(Bytes)
  OBVIOUS
<1>2. pair \in Keys \X Seq(Bytes)
  OBVIOUS
<1>3. b \in Seq(Bytes) /\ FlattenSeq(PairParts(Append(pairs, pair))) = b \o PairBytes(pair)
  BY <1>2, FlattenAppend
<1>4. c \in Seq(Bytes)
  BY IdBytesType DEF IdBytes
<1>5. PairBytes(pair) = c \o value
  BY DEF PairBytes, IdBytes
<1> HIDE DEF a, b, c, pair
<1>6. a \o b \in Seq(Bytes) /\ c \o value \in Seq(Bytes)
  BY <1>1, <1>3, <1>4, ConcatProperties
<1>7. ((a \o b) \o c) \o value = (a \o b) \o (c \o value)
  BY SMTT(30), <1>4, <1>6, ConcatAssociative
<1>8. (a \o b) \o (c \o value) = a \o (b \o (c \o value))
  <2> DEFINE d == c \o value
  <2>1. a \in Seq(Bytes) /\ b \in Seq(Bytes) /\ d \in Seq(Bytes)
    BY <1>1, <1>3, <1>6
  <2> HIDE DEF d
  <2>2. (a \o b) \o d = a \o (b \o d)
    BY <2>1, ConcatAssociative
  <2> QED BY <2>2 DEF d
<1> QED BY <1>3, <1>5, <1>6, <1>7, <1>8 DEF a, b, c, pair

\* Bytes stored behind the first o of a buffer stand behind them.
LEMMA WrittenBehind ==
    ASSUME NEW b \in Buffers, NEW o \in Nat, NEW bytes \in Seq(Bytes),
           o + Len(bytes) <= MaxTmPayload
    PROVE  /\ Written(b, o, bytes) \in Buffers
           /\ SubSeq(Written(b, o, bytes), 1, o + Len(bytes)) = SubSeq(b, 1, o) \o bytes
<1> DEFINE S == Bytes \cup {Unwritten}
           w == Written(b, o, bytes)
           n == Len(bytes)
           head == SubSeq(b, 1, o)
           front == SubSeq(w, 1, o + n)
           both == head \o bytes
<1>1. n \in Nat /\ o + n <= MaxTmPayload /\ MaxTmPayload \in Nat
      /\ \A p \in 1 .. n : bytes[p] \in S
  BY LenProperties, PayloadAssumption
<1>2. \A p \in 1 .. MaxTmPayload : b[p] \in S
  BY DEF Buffers
<1>3. \A p \in 1 .. MaxTmPayload :
          w[p] = IF p \in o + 1 .. o + n THEN bytes[p - o] ELSE b[p]
  BY DEF Written
<1>4. \A p \in 1 .. MaxTmPayload : w[p] \in S
  <2> SUFFICES ASSUME NEW p \in 1 .. MaxTmPayload PROVE w[p] \in S
    OBVIOUS
  <2>1. CASE p \in o + 1 .. o + n
    <3>1. p - o \in 1 .. n
      BY <1>1, <2>1
    <3> QED BY <1>1, <1>3, <2>1, <3>1
  <2>2. CASE p \notin o + 1 .. o + n
    BY <1>2, <1>3, <2>2
  <2> QED BY <2>1, <2>2
<1>5. w \in Buffers
  BY <1>4 DEF Buffers, Written
<1>6. bytes \in Seq(S)
  BY SeqMonotonic
<1> HIDE DEF S, w, n
<1>7. /\ head \in Seq(S) /\ Len(head) = o
      /\ \A p \in 1 .. o : head[p] = b[p]
  <2>1. \A p \in 1 .. o : b[p] \in S
    BY <1>1, <1>2
  <2>2. /\ SubSeq(b, 1, o) \in Seq(S)
        /\ Len(SubSeq(b, 1, o)) = IF 1 <= o THEN o - 1 + 1 ELSE 0
        /\ \A p \in 1 .. o - 1 + 1 : SubSeq(b, 1, o)[p] = b[1 + p - 1]
    BY <2>1, SubSeqProperties
  <2> HIDE DEF head
  <2>3. head = SubSeq(b, 1, o)
    BY DEF head
  <2> QED BY <2>2, <2>3
<1>8. /\ front \in Seq(S) /\ Len(front) = o + n
      /\ \A p \in 1 .. o + n : front[p] = w[p]
  <2> DEFINE k == o + n
  <2>0. k \in Nat /\ k <= MaxTmPayload
    BY <1>1
  <2> HIDE DEF k
  <2>1. \A p \in 1 .. k : w[p] \in S
    BY <1>1, <1>4, <2>0
  <2>2. /\ SubSeq(w, 1, k) \in Seq(S)
        /\ Len(SubSeq(w, 1, k)) = IF 1 <= k THEN k - 1 + 1 ELSE 0
        /\ \A p \in 1 .. k - 1 + 1 : SubSeq(w, 1, k)[p] = w[1 + p - 1]
    BY <2>0, <2>1, SubSeqProperties
  <2>4. /\ SubSeq(w, 1, k) \in Seq(S) /\ Len(SubSeq(w, 1, k)) = k
        /\ \A p \in 1 .. k : SubSeq(w, 1, k)[p] = w[p]
    BY <2>0, <2>2
  <2> QED BY <2>4 DEF k
<1> HIDE DEF head, front
<1>9. /\ both \in Seq(S) /\ Len(both) = o + n
      /\ \A p \in 1 .. o + n : both[p] = IF p <= o THEN head[p] ELSE bytes[p - o]
  <2>1. Len(bytes) = n
    BY DEF n
  <2> QED BY <1>6, <1>7, <2>1, ConcatProperties
<1> HIDE DEF both
<1>10. ASSUME NEW p \in 1 .. o + n PROVE front[p] = both[p]
  <2>1. p \in 1 .. MaxTmPayload /\ front[p] = w[p]
    BY <1>1, <1>8
  <2>2. CASE p <= o
    <3>1. p \notin o + 1 .. o + n /\ p \in 1 .. o
      BY <1>1, <2>2
    <3> QED BY <1>3, <1>7, <1>9, <2>1, <2>2, <3>1
  <2>3. CASE p > o
    <3>1. p \in o + 1 .. o + n /\ ~(p <= o)
      BY <1>1, <2>3
    <3> QED BY <1>3, <1>9, <2>1, <3>1
  <2> QED BY <1>1, <2>2, <2>3
<1>11. front = both
  BY <1>8, <1>9, <1>10, SeqEqual
<1> QED BY <1>5, <1>11 DEF w, n, head, front, both

----------------------------------------------------------------------------
(* Types *)

TypeInv ==
    /\ memory \in [Keys -> Seq(Bytes)]
    /\ input \in Seq(Bytes)
    /\ Len(input) <= MaxTcPayload
    /\ ids \in Seq(Keys)
    /\ Len(ids) < Base
    /\ item \in Nat
    /\ op = "getting" => item < Len(ids)
    /\ buf \in Buffers
    /\ status \in Statuses
    /\ asked \in CommandType
    /\ agreed \in BOOLEAN
    /\ done \in CommandType

LEMMA InputTypes ==
    /\ \A pairs \in Commands : pairs \in CommandType /\ Len(pairs) < Base
    /\ \A list \in Requests : list \in Seq(Keys) /\ Len(list) < Base
    /\ \A v \in Data : v \in Seq(Bytes)
    /\ <<>> \in CommandType /\ <<>> \in Seq(Bytes) /\ <<>> \in Seq(Keys)
    /\ Len(<<>>) = 0
BY InputsAssumption, FlattenNothing, EmptySeq DEF CommandType

LEMMA CountType ==
    ASSUME NEW list \in Seq(Keys), Len(list) < Base
    PROVE  Len(list) \in Bytes /\ <<Len(list)>> \in Seq(Bytes)
<1>1. Len(list) \in Bytes
  BY LenProperties, ByteAssumption DEF Bytes
<1> QED BY <1>1

LEMMA SliceType ==
    ASSUME NEW s \in Seq(Bytes), NEW m \in Nat, NEW n \in Nat, m >= 1, n <= Len(s)
    PROVE  SubSeq(s, m, n) \in Seq(Bytes)
<1>1. \A p \in 1 .. Len(s) : s[p] \in Bytes
  BY LenProperties
<1>2. Len(s) \in Nat
  BY LenProperties
<1>3. \A p \in m .. n : s[p] \in Bytes
  BY <1>1, <1>2
<1> QED BY <1>3, SubSeqProperties

LEMMA HeldIsKey ==
    ASSUME OffsetInv, NEW id, Holding(params, id) # {}
    PROVE  id \in Keys
BY DEF OffsetInv, Filled, Holding

\* The first byte of a report.
LEMMA CountWritten ==
    ASSUME NEW list \in Seq(Keys), Len(list) < Base
    PROVE  /\ Written(EmptyBuffer, 0, <<Len(list)>>) \in Buffers
           /\ SubSeq(Written(EmptyBuffer, 0, <<Len(list)>>), 1, 1) = <<Len(list)>>
<1> DEFINE count == <<Len(list)>>
           none == SubSeq(EmptyBuffer, 1, 0)
<1>1. count \in Seq(Bytes) /\ Len(count) = 1
  BY CountType
<1>2. EmptyBuffer \in Buffers
  BY DEF EmptyBuffer, Buffers
<1>3. none = <<>>
  BY SubSeqEmpty
<1> HIDE DEF count, none
<1>4. <<>> \o count = count
  BY <1>1, ConcatEmptySeq
<1>5. /\ Written(EmptyBuffer, 0, count) \in Buffers
      /\ SubSeq(Written(EmptyBuffer, 0, count), 1, 0 + Len(count)) = none \o count
  <2>1. 0 \in Nat /\ 0 + Len(count) <= MaxTmPayload
    BY <1>1, PayloadAssumption
  <2>2. /\ Written(EmptyBuffer, 0, count) \in Buffers
        /\ SubSeq(Written(EmptyBuffer, 0, count), 1, 0 + Len(count))
               = SubSeq(EmptyBuffer, 1, 0) \o count
    BY <1>1, <1>2, <2>1, WrittenBehind
  <2> QED BY <2>2 DEF none
<1> QED BY <1>1, <1>3, <1>4, <1>5 DEF count

\* The parameter a getter runs for, and what it gives.
LEMMA Gotten ==
    ASSUME OffsetInv, TypeInv, op = "getting"
    PROVE  /\ ReadId \in Keys
           /\ item \in Nat /\ item + 1 \in 1 .. Len(ids) /\ Len(ids) \in Nat
           /\ \A v \in ValuesRead : v \in Seq(Bytes) /\ Len(v) = len
<1>1. /\ Len(ids) \in Nat /\ ids \in [1 .. Len(ids) -> Keys]
  BY LenProperties DEF TypeInv
<1>2. item \in Nat /\ item + 1 \in 1 .. Len(ids)
  BY <1>1 DEF TypeInv
<1>3. ReadId \in Keys
  BY <1>1, <1>2 DEF ReadId
<1>4. memory[ReadId] \in Seq(Bytes)
  BY <1>3 DEF TypeInv
<1> QED BY <1>1, <1>2, <1>3, <1>4, InputTypes DEF ValuesRead

\* pus_service_20_emit_report is entered.
LEMMA ReportStarts ==
    ASSUME TypeInv, NEW list \in Seq(Keys), Len(list) < Base, StartReport(list)
    PROVE  TypeInv'
<1> DEFINE none == <<>>
           count == <<Len(list)>>
<1>1. /\ ids' = list /\ item' = 0 /\ op' = "report" /\ done' = none
      /\ buf' = Written(EmptyBuffer, 0, count)
      /\ input' = none /\ asked' = none /\ agreed' = FALSE
      /\ UNCHANGED <<memory, status>>
  BY DEF StartReport
<1>2. buf' \in Buffers
  BY <1>1, CountWritten
<1>3. none \in CommandType /\ none \in Seq(Bytes) /\ Len(none) = 0
  BY InputTypes
<1> HIDE DEF none, count
<1>4. memory' \in [Keys -> Seq(Bytes)] /\ status' \in Statuses
  BY <1>1 DEF TypeInv
<1>5. Len(input') <= MaxTcPayload
  BY <1>1, <1>3, PayloadAssumption
<1> QED BY <1>1, <1>2, <1>3, <1>4, <1>5 DEF TypeInv

\* What stands in the buffer when the getter is called.
LEMMA IdWritten ==
    ASSUME OffsetInv, TypeInv, Holding(params, ReadId) # {}, ReadEnd <= MaxTmPayload
    PROVE  /\ off \in Nat /\ (off + 2) % Wrap = off + 2
           /\ Written(buf, off, IdBytes(ReadId)) \in Buffers
           /\ SubSeq(Written(buf, off, IdBytes(ReadId)), 1, off + 2)
                  = SubSeq(buf, 1, off) \o IdBytes(ReadId)
<1>1. ReadId \in Keys
  BY HeldIsKey
<1>2. IdBytes(ReadId) \in Seq(Bytes) /\ Len(IdBytes(ReadId)) = 2
  BY <1>1, IdBytesType DEF IdBytes
<1>3. off \in Nat /\ ReadEntry.len \in Nat
  BY EntryUsed DEF ReadEntry, OffsetInv
<1>4. off + 2 \in Nat /\ off + 2 <= MaxTmPayload /\ off + 2 < Wrap
  BY <1>3, PayloadAssumption, ByteAssumption DEF ReadEnd
<1> DEFINE id == IdBytes(ReadId)
<1>5. buf \in Buffers /\ id \in Seq(Bytes) /\ Len(id) = 2 /\ off + Len(id) <= MaxTmPayload
  BY <1>2, <1>3, <1>4 DEF TypeInv
<1> HIDE DEF id
<1>6. /\ Written(buf, off, id) \in Buffers
      /\ SubSeq(Written(buf, off, id), 1, off + Len(id)) = SubSeq(buf, 1, off) \o id
  BY <1>3, <1>5, WrittenBehind
<1>7. (off + 2) % Wrap = off + 2
  BY <1>4, NoWrap
<1> QED BY <1>3, <1>5, <1>6, <1>7 DEF id

LEMMA StepTypeInv == OffsetInv /\ TypeInv /\ [Next]_vars => TypeInv'
<1> SUFFICES ASSUME OffsetInv, TypeInv, [Next]_vars PROVE TypeInv'
  OBVIOUS
<1> USE DEF loop, inputs
<1>1. CASE InitService
  BY <1>1 DEF InitService, ParamsBecome, TypeInv
<1>2. ASSUME NEW id \in Keys, NEW d \in Values, RegisterParam(id, d) PROVE TypeInv'
  <2>1. PICK v \in Data : memory' = [memory EXCEPT ![id] = v]
    BY <1>2 DEF RegisterParam
  <2>2. memory' \in [Keys -> Seq(Bytes)]
    BY <2>1, InputTypes DEF TypeInv
  <2> QED BY <1>2, <2>2 DEF RegisterParam, ParamsBecome, TypeInv
<1>3. ASSUME NEW id \in Keys, Update(id) PROVE TypeInv'
  <2>1. PICK v \in Data : memory' = [memory EXCEPT ![id] = v]
    BY <1>3 DEF Update
  <2>2. memory' \in [Keys -> Seq(Bytes)]
    BY <2>1, InputTypes DEF TypeInv
  <2> QED BY <1>3, <2>2 DEF Update, TypeInv
<1>4. ASSUME NEW pairs \in Commands, NEW m \in 0 .. Len(Encode(pairs)) + 1,
             ReceiveSet(pairs, m)
      PROVE  TypeInv'
  <2>1. pairs \in CommandType /\ Len(pairs) < Base
    BY InputTypes
  <2>2. Encode(pairs) \in Seq(Bytes)
    BY <2>1, EncodeResult
  <2>3. input' \in Seq(Bytes)
    BY <1>4, <2>2, Received DEF ReceiveSet
  <2>4. Len(input') <= MaxTcPayload /\ asked' = pairs /\ agreed' \in BOOLEAN
        /\ ids' = <<>> /\ item' = 0 /\ buf' = EmptyBuffer /\ done' = <<>>
        /\ op' # "getting" /\ status' \in {status, "BAD_LENGTH"} /\ UNCHANGED memory
    BY <1>4 DEF ReceiveSet, Agrees
  <2>5. status' \in Statuses
    BY <2>4 DEF TypeInv, Statuses
  <2>6. buf' \in Buffers
    BY <2>4 DEF EmptyBuffer, Buffers
  <2> QED BY <2>1, <2>3, <2>4, <2>5, <2>6, InputTypes, ByteAssumption DEF TypeInv
<1>5. ASSUME NEW list \in Requests, EmitReport(list) PROVE TypeInv'
  BY <1>5, InputTypes, ReportStarts DEF EmitReport
<1>6. ASSUME NEW list \in Requests, NEW m \in 0 .. Len(EncodeIds(list)) + 1,
             ReceiveReport(list, m)
      PROVE  TypeInv'
  <2> DEFINE bytes == SubSeq(Append(EncodeIds(list), 0), 1, m)
             named == [j \in 1 .. bytes[1] |-> IdAt(bytes, 2 * j - 1)]
  <2>1. list \in Seq(Keys) /\ Len(list) < Base
    BY InputTypes
  <2>2. CASE Acceptable(bytes)
    <3>1. StartReport(named)
      BY <1>6, <2>2 DEF ReceiveReport
    <3>2. bytes[1] = Len(list) /\ named \in Seq(Keys)
      BY <2>1, <2>2, ReadsRequest
    <3>3. Len(named) = Len(list)
      <4> DEFINE n == Len(list)
      <4>1. n \in Nat /\ bytes[1] = n
        BY <2>1, <3>2, LenProperties
      <4>2. DOMAIN named = 1 .. n
        BY <4>1
      <4> HIDE DEF n, named
      <4>3. DOMAIN named = 1 .. Len(named) /\ Len(named) \in Nat
        BY <3>2, LenProperties
      <4>4. Len(named) = n
        BY <4>1, <4>2, <4>3
      <4> QED BY <4>4 DEF n
    <3> HIDE DEF named
    <3> QED BY <2>1, <3>1, <3>2, <3>3, ReportStarts
  <2>3. CASE ~Acceptable(bytes)
    <3>1. /\ status' = "BAD_LENGTH"
          /\ ids' = <<>> /\ input' = <<>> /\ asked' = <<>> /\ done' = <<>>
          /\ agreed' = FALSE
          /\ op' # "getting" /\ UNCHANGED <<memory, item, buf>>
      BY <1>6, <2>3 DEF ReceiveReport
    <3> DEFINE none == <<>>
    <3>2. none \in CommandType /\ none \in Seq(Bytes) /\ none \in Seq(Keys) /\ Len(none) = 0
      BY InputTypes
    <3>3. ids' = none /\ input' = none /\ asked' = none /\ done' = none
      BY <3>1
    <3>4. /\ op' # "getting" /\ UNCHANGED <<memory, item, buf>>
          /\ agreed' = FALSE /\ status' \in Statuses
      BY <3>1 DEF Statuses
    <3> HIDE DEF none
    <3>5. Len(input') <= MaxTcPayload /\ Len(ids') < Base
      BY <3>2, <3>3, ByteAssumption, PayloadAssumption
    <3> QED BY <3>2, <3>3, <3>4, <3>5 DEF TypeInv
  <2> QED BY <2>2, <2>3
<1>7. CASE \/ RefuseItem \/ SetDone \/ RefuseRead
           \/ \E st \in AppStatuses : SetterFails(st) \/ GetterFails(st) \/ BuildReport(st)
  <2>1. /\ op' # "getting" /\ UNCHANGED <<memory, input, ids, item, buf, asked, agreed, done>>
        /\ status' \in {"OK", "BAD_LENGTH", "NO_HANDLER", "HANDLER_FAILED", "BUFFER_TOO_SMALL"}
                       \cup AppStatuses
    BY <1>7 DEF RefuseItem, SetDone, RefuseRead, SetterFails, GetterFails, BuildReport, Finish
  <2>2. status' \in Statuses
    BY <2>1, StatusAssumption DEF Statuses
  <2> QED BY <2>1, <2>2 DEF TypeInv
<1>8. CASE SetItem
  <2> DEFINE value == SubSeq(input, off + 3, ValueEnd)
  <2>1. Holding(params, SetId) # {}
    BY <1>8, SetTaken DEF SetItem
  <2>2. ValueEnd \in Nat /\ off \in Nat /\ SetId \in Keys
    BY <2>1, EntryUsed, HeldIsKey DEF ValueEnd, SetEntry, OffsetInv
  <2>3. /\ ValueEnd <= Len(input)
        /\ memory' = [memory EXCEPT ![SetId] = value]
        /\ done' = Append(done, <<SetId, value>>)
        /\ item' = item + 1
        /\ op' # "getting" /\ UNCHANGED <<input, ids, buf, status, asked, agreed>>
    BY <1>8 DEF SetItem, Setting
  <2>4. value \in Seq(Bytes)
    <3>1. off + 3 \in Nat /\ off + 3 >= 1 /\ input \in Seq(Bytes)
      BY <2>2 DEF TypeInv
    <3> QED BY <2>2, <2>3, <3>1, SliceType
  <2> HIDE DEF value
  <2>5. memory' \in [Keys -> Seq(Bytes)]
    BY <2>2, <2>3, <2>4 DEF TypeInv
  <2>6. done' \in CommandType
    BY <2>2, <2>3, <2>4, FlattenAppend DEF TypeInv
  <2> QED BY <2>3, <2>5, <2>6 DEF TypeInv
<1>9. CASE CallGetter
  <2>1. /\ Holding(params, ReadId) # {} /\ item < Len(ids) /\ ReadEnd <= MaxTmPayload
        /\ buf' = Written(buf, off, IdBytes(ReadId))
        /\ UNCHANGED <<memory, item, done, input, ids, status, asked, agreed>>
    BY <1>9 DEF CallGetter, Reading
  <2>2. buf' \in Buffers
    BY <2>1, IdWritten
  <2> QED BY <2>1, <2>2 DEF TypeInv
<1>12. CASE GetterFills
  <2>1. /\ op = "getting" /\ op' = "report" /\ item' = item + 1
        /\ UNCHANGED <<memory, input, ids, status, asked, agreed>>
    BY <1>12 DEF GetterFills
  <2>2. PICK v \in ValuesRead :
            buf' = Written(buf, off, v) /\ done' = Append(done, <<ReadId, v>>)
    BY <1>12 DEF GetterFills
  <2>3. ReadId \in Keys /\ v \in Seq(Bytes) /\ Len(v) = len
    BY <2>1, Gotten
  <2>4. done' \in CommandType
    BY <2>2, <2>3, FlattenAppend DEF TypeInv
  <2>5. off \in Nat /\ off + Len(v) <= MaxTmPayload
    BY <2>1, <2>3, FilledEnd
  <2>6. buf' \in Buffers
    BY <2>2, <2>3, <2>5, WrittenBehind DEF TypeInv
  <2> QED BY <2>1, <2>4, <2>6 DEF TypeInv
<1>10. CASE SetOverrun \/ ReadOverrun
  BY <1>10 DEF SetOverrun, ReadOverrun, TypeInv
<1>11. CASE UNCHANGED vars
  BY <1>11 DEF vars, TypeInv
<1> QED BY <1>1, <1>2, <1>3, <1>4, <1>5, <1>6, <1>7, <1>8, <1>9, <1>10, <1>11, <1>12 DEF Next

LEMMA InitTypeInv == Init => TypeInv
<1> SUFFICES ASSUME Init PROVE TypeInv
  OBVIOUS
<1>1. memory \in [Keys -> Seq(Bytes)]
  BY InputTypes DEF Init
<1> DEFINE none == <<>>
<1>2. /\ none \in CommandType /\ none \in Seq(Bytes) /\ none \in Seq(Keys) /\ Len(none) = 0
  BY InputTypes
<1>3. /\ ids = none /\ input = none /\ asked = none /\ done = none /\ op = "none"
      /\ item = 0 /\ agreed = FALSE /\ status \in Statuses
  BY DEF Init, Statuses
<1> HIDE DEF none
<1>4. Len(input) <= MaxTcPayload /\ Len(ids) < Base
  BY <1>2, <1>3, ByteAssumption, PayloadAssumption
<1>5. buf \in Buffers
  BY DEF Init, EmptyBuffer, Buffers
<1> QED BY <1>1, <1>2, <1>3, <1>4, <1>5 DEF TypeInv

----------------------------------------------------------------------------
(* The set loop stands between two items of the command ground wrote. *)

CommandInv ==
    agreed =>
        /\ Len(asked) < Base
        /\ Agrees(asked, params)
        /\ op \in {"none", "set", "overrun"}
        /\ item \in 0 .. Len(asked)
        /\ Len(done) = item
        /\ \A j \in 1 .. item : done[j] = asked[j]
        /\ \E m \in 0 .. Len(Encode(asked)) + 1 :
              input = SubSeq(Append(Encode(asked), 0), 1, m)
        /\ IF input = <<>>
           THEN op = "none" /\ item = 0 /\ status # "OK"
           ELSE off = End(asked, item) /\ off <= Len(input)
        /\ op = "none" /\ asked # <<>> => (status = "OK" <=> item = Len(asked))

\* The first byte of what arrived is the number of pairs.
LEMMA FirstByte ==
    ASSUME TypeInv, CommandInv, agreed
    PROVE  /\ Len(asked) \in Nat
           /\ input # <<>> => input[1] = Len(asked)
<1>1. PICK m \in 0 .. Len(Encode(asked)) + 1 : input = SubSeq(Append(Encode(asked), 0), 1, m)
  BY DEF CommandInv
<1>2. asked \in CommandType /\ Len(asked) < Base /\ Len(asked) \in Nat
  BY PairPartsResult DEF TypeInv, CommandInv
<1>3. /\ Encode(asked) \in Seq(Bytes) /\ Encode(asked)[1] = Len(asked)
      /\ Len(Encode(asked)) >= 1
  <2>1. /\ Encode(asked) \in Seq(Bytes) /\ Encode(asked)[1] = Len(asked)
        /\ End(asked, Len(asked)) = Len(Encode(asked))
    BY <1>2, EncodeResult
  <2>2. End(asked, Len(asked)) >= 1
    <3>1. CASE Len(asked) = 0
      BY <1>2, <3>1, EncodeResult
    <3>2. CASE Len(asked) # 0
      <4> DEFINE i == Len(asked) - 1
      <4>1. i \in 0 .. Len(asked) - 1 /\ i + 1 = Len(asked)
        BY <1>2, <3>2
      <4> HIDE DEF i
      <4>2. /\ End(asked, i) \in Nat /\ Len(asked[i + 1][2]) \in Nat
            /\ End(asked, i + 1) = End(asked, i) + 2 + Len(asked[i + 1][2])
        BY <1>2, <4>1, EncodedItem
      <4> DEFINE a == End(asked, i)
                 b == Len(asked[i + 1][2])
      <4>3. a \in Nat /\ b \in Nat /\ End(asked, Len(asked)) = a + 2 + b
        BY <4>1, <4>2
      <4> HIDE DEF a, b
      <4> QED BY <4>3
    <3> QED BY <3>1, <3>2
  <2> QED BY <2>1, <2>2
<1>4. /\ Len(input) = m
      /\ \A p \in 1 .. m : p <= Len(Encode(asked)) => input[p] = Encode(asked)[p]
  BY <1>1, <1>3, Received
<1>5. ASSUME input # <<>> PROVE input[1] = Len(asked)
  <2>1. m # 0
    BY <1>4, <1>5, EmptySeq DEF TypeInv
  <2>2. 1 \in 1 .. m
    BY <2>1
  <2> QED BY <1>3, <1>4, <2>2
<1> QED BY <1>2, <1>5

\* What one round of the loop reads is the item it stands at.
LEMMA RoundReads ==
    ASSUME OffsetInv, TypeInv, CommandInv, agreed, Setting, Settable, ValueEnd <= Len(input)
    PROVE  /\ item \in 0 .. Len(asked) - 1
           /\ SetId = asked[item + 1][1]
           /\ SubSeq(input, off + 3, ValueEnd) = asked[item + 1][2]
           /\ ValueEnd = End(asked, item + 1)
           /\ ValueEnd % Wrap = ValueEnd
<1>1. op = "set" /\ item < input[1]
  BY DEF Setting
<1>2. input # <<>> /\ off = End(asked, item) /\ off <= Len(input) /\ Len(asked) < Base
  BY <1>1 DEF CommandInv
<1>3. item \in 0 .. Len(asked) - 1
  <2>1. Len(asked) \in Nat /\ input[1] = Len(asked)
    BY <1>2, FirstByte
  <2> QED BY <1>1, <2>1 DEF TypeInv
<1>4. asked \in CommandType /\ Len(input) <= MaxTcPayload /\ Len(input) \in Nat /\ off \in Nat
  BY DEF TypeInv, OffsetInv
<1>5. PICK m \in 0 .. Len(Encode(asked)) + 1 : input = SubSeq(Append(Encode(asked), 0), 1, m)
  BY DEF CommandInv
<1>6. Len(input) = m
  BY <1>2, <1>4, <1>5, EncodeResult, Received
<1>7. Holding(params, SetId) # {} /\ (off + 2) % Wrap <= Len(input)
  BY DEF Settable, HasValue, Known, HasId
<1>8. off + 2 <= Len(input)
  <2> DEFINE n == off + 2
  <2>1. n \in Nat /\ n < Wrap
    BY <1>2, <1>4, PayloadAssumption, ByteAssumption
  <2> HIDE DEF n
  <2>2. n % Wrap = n
    BY <2>1, NoWrap
  <2> QED BY <1>7, <2>2 DEF n
<1>9. SetId = asked[item + 1][1]
  <2>1. End(asked, item) + 2 <= m
    BY <1>2, <1>6, <1>8
  <2>2. IdAt(SubSeq(Append(Encode(asked), 0), 1, m), End(asked, item)) = asked[item + 1][1]
    BY <1>2, <1>3, <1>4, <2>1, ReadsId
  <2> QED BY <1>2, <1>5, <2>2 DEF SetId
<1>10. /\ End(asked, item + 1) = End(asked, item) + 2 + Len(asked[item + 1][2])
       /\ item + 1 \in DOMAIN asked
  <2>1. End(asked, item + 1) = End(asked, item) + 2 + Len(asked[item + 1][2])
    BY <1>2, <1>3, <1>4, EncodedItem
  <2>2. DOMAIN asked = 1 .. Len(asked) /\ Len(asked) \in Nat
    <3> DEFINE T == Keys \X Seq(Bytes)
    <3>1. asked \in Seq(T)
      BY <1>4 DEF CommandType
    <3> HIDE DEF T
    <3> QED BY <3>1, LenProperties
  <2> QED BY <1>3, <2>1, <2>2
<1>11. Len(asked[item + 1][2]) = SetEntry.len
  <2>1. Agrees(asked, params)
    BY DEF CommandInv
  <2> QED BY <1>7, <1>9, <1>10, <2>1 DEF Agrees, SetEntry
<1>12. ValueEnd = End(asked, item + 1)
  BY <1>2, <1>10, <1>11 DEF ValueEnd
<1>13. SubSeq(input, off + 3, ValueEnd) = asked[item + 1][2]
  <2>1. End(asked, item + 1) <= m
    BY <1>6, <1>12
  <2>2. SubSeq(SubSeq(Append(Encode(asked), 0), 1, m), End(asked, item) + 3, End(asked, item + 1))
            = asked[item + 1][2]
    BY <1>2, <1>3, <1>4, <2>1, ReadsValue
  <2> QED BY <1>2, <1>5, <1>12, <2>2
<1>14. ValueEnd % Wrap = ValueEnd
  <2>1. ValueEnd \in Nat
    BY <1>7, EntryUsed DEF ValueEnd, SetEntry, OffsetInv
  <2>2. ValueEnd < Wrap
    BY <1>4, <2>1, PayloadAssumption, ByteAssumption
  <2> QED BY <2>1, <2>2, NoWrap
<1> QED BY <1>3, <1>9, <1>12, <1>13, <1>14

LEMMA StepCommandInv ==
    OffsetInv /\ TypeInv /\ CommandInv /\ [Next]_vars => CommandInv'
<1> SUFFICES ASSUME OffsetInv, TypeInv, CommandInv, [Next]_vars, agreed' PROVE CommandInv'
  BY DEF CommandInv
<1> USE DEF loop, inputs
<1>1. CASE InitService
  <2>1. agreed /\ Agrees(asked, params') /\ UNCHANGED <<op, item, off, done, input, asked, status>>
    BY <1>1 DEF InitService, ParamsBecome
  <2> QED BY <2>1 DEF CommandInv
<1>2. ASSUME NEW id \in Keys, NEW d \in Values, RegisterParam(id, d) PROVE CommandInv'
  <2>1. agreed /\ Agrees(asked, params') /\ UNCHANGED <<op, item, off, done, input, asked, status>>
    BY <1>2 DEF RegisterParam, ParamsBecome
  <2> QED BY <2>1 DEF CommandInv
<1>3. ASSUME NEW id \in Keys, Update(id) PROVE CommandInv'
  <2>1. UNCHANGED <<agreed, params, op, item, off, done, input, asked, status>>
    BY <1>3 DEF Update
  <2> QED BY <2>1 DEF CommandInv
<1>4. ASSUME NEW pairs \in Commands, NEW m \in 0 .. Len(Encode(pairs)) + 1,
             ReceiveSet(pairs, m)
      PROVE  CommandInv'
  <2>1. pairs \in CommandType /\ Len(pairs) < Base /\ Len(pairs) \in Nat
    BY InputTypes, PairPartsResult
  <2>2. /\ input' = SubSeq(Append(Encode(pairs), 0), 1, m)
        /\ asked' = pairs /\ item' = 0 /\ done' = <<>> /\ Agrees(pairs, params)
        /\ UNCHANGED params
        /\ IF input' = <<>>
           THEN op' = "none" /\ off' = 0 /\ status' = "BAD_LENGTH"
           ELSE op' = "set" /\ off' = 1
    BY <1>4 DEF ReceiveSet
  <2>3. Encode(pairs) \in Seq(Bytes) /\ End(pairs, 0) = 1
    BY <2>1, EncodeResult
  <2>4. input' \in Seq(Bytes) /\ Len(input') = m
    BY <2>2, <2>3, Received
  <2>5. input' # <<>> => 1 <= Len(input')
    BY <2>4, EmptySeq
  <2>6. Len(done') = item' /\ item' \in 0 .. Len(asked')
    BY <2>1, <2>2
  <2>7. asked' # <<>> => Len(asked') # 0
    <3> DEFINE T == Keys \X Seq(Bytes)
    <3>1. asked' \in Seq(T)
      BY <2>1, <2>2 DEF CommandType
    <3> HIDE DEF T
    <3> QED BY <3>1, EmptySeq
  <2>8. \E k \in 0 .. Len(Encode(asked')) + 1 : input' = SubSeq(Append(Encode(asked'), 0), 1, k)
    BY <2>2
  <2>9. IF input' = <<>>
        THEN op' = "none" /\ item' = 0 /\ status' # "OK"
        ELSE off' = End(asked', item') /\ off' <= Len(input')
    BY <2>2, <2>3, <2>5
  <2>10. op' = "none" => input' = <<>> /\ status' # "OK"
    BY <2>2
  <2>11. op' = "none" /\ asked' # <<>> => (status' = "OK" <=> item' = Len(asked'))
    BY <2>2, <2>7, <2>10
  <2>12. \A j \in 1 .. item' : done'[j] = asked'[j]
    BY <2>2
  <2>13. op' \in {"none", "set", "overrun"} /\ Len(asked') < Base /\ Agrees(asked', params')
    BY <2>1, <2>2
  <2> QED BY <2>6, <2>8, <2>9, <2>11, <2>12, <2>13 DEF CommandInv
<1>5. ASSUME NEW list \in Requests,
             EmitReport(list)
             \/ \E m \in 0 .. Len(EncodeIds(list)) + 1 : ReceiveReport(list, m)
      PROVE  CommandInv'
  <2>1. ~agreed'
    BY <1>5 DEF EmitReport, ReceiveReport, StartReport
  <2> QED BY <2>1
<1>6. CASE RefuseItem \/ SetDone \/ \E st \in AppStatuses : SetterFails(st)
  <2>1. /\ agreed /\ op = "set" /\ op' = "none"
        /\ UNCHANGED <<params, item, off, done, input, asked>>
        /\ \/ item < input[1] /\ status' # "OK"
           \/ item = input[1] /\ status' = "OK"
    BY <1>6 DEF RefuseItem, SetDone, SetterFails, Setting, Finish
  <2>2. input # <<>> /\ Len(asked) \in Nat /\ input[1] = Len(asked)
    BY <2>1, FirstByte DEF CommandInv
  <2>3. status' = "OK" <=> item = Len(asked)
    BY <2>1, <2>2 DEF TypeInv
  <2> QED BY <2>1, <2>2, <2>3 DEF CommandInv
<1>7. CASE \/ RefuseRead \/ CallGetter \/ GetterFills \/ ReadOverrun
           \/ \E st \in AppStatuses : GetterFails(st) \/ BuildReport(st)
  <2>1. op \in {"report", "getting"} /\ agreed
    BY <1>7 DEF RefuseRead, CallGetter, GetterFills, ReadOverrun, GetterFails, BuildReport,
                Reading, Finish
  <2> QED BY <2>1 DEF CommandInv
<1>8. CASE SetItem
  <2> DEFINE value == SubSeq(input, off + 3, ValueEnd)
  <2>1. /\ Setting /\ Settable /\ ValueEnd <= Len(input) /\ agreed
        /\ done' = Append(done, <<SetId, value>>)
        /\ item' = item + 1
        /\ off' = ValueEnd % Wrap
        /\ UNCHANGED <<params, op, input, asked, status>>
    BY <1>8 DEF SetItem
  <2>2. /\ item \in 0 .. Len(asked) - 1 /\ SetId = asked[item + 1][1]
        /\ value = asked[item + 1][2]
        /\ ValueEnd = End(asked, item + 1) /\ ValueEnd % Wrap = ValueEnd
    BY <2>1, RoundReads
  <2> HIDE DEF value
  <2>3. asked \in CommandType /\ Len(asked) \in Nat /\ asked[item + 1] \in Keys \X Seq(Bytes)
    BY <2>2, PairPartsResult DEF TypeInv
  <2>4. <<SetId, value>> = asked[item + 1] /\ <<SetId, value>> \in Keys \X Seq(Bytes)
    BY <2>2, <2>3
  <2>5. /\ Len(done') = Len(done) + 1
        /\ \A j \in 1 .. Len(done) : done'[j] = done[j]
        /\ done'[Len(done) + 1] = asked[item + 1]
    <3> DEFINE T == Keys \X Seq(Bytes)
               x == <<SetId, value>>
    <3>1. done \in Seq(T) /\ x \in T /\ x = asked[item + 1] /\ done' = Append(done, x)
      BY <2>1, <2>4 DEF TypeInv, CommandType
    <3> HIDE DEF T, x
    <3> QED BY <3>1, AppendProperties
  <2>6. Len(done) = item /\ \A j \in 1 .. item : done[j] = asked[j]
    BY <2>1 DEF CommandInv
  <2>7. Len(done') = item' /\ \A j \in 1 .. item' : done'[j] = asked'[j]
    BY <2>1, <2>2, <2>5, <2>6
  <2>8. item' \in 0 .. Len(asked') /\ off' = End(asked', item') /\ off' <= Len(input')
    BY <2>1, <2>2, <2>3
  <2>9. op' = "set" /\ op = "set"
    BY <2>1 DEF Setting
  <2>10. input' # <<>>
    BY <2>1, <2>9 DEF CommandInv
  <2> QED BY <2>1, <2>7, <2>8, <2>9, <2>10 DEF CommandInv
<1>9. CASE SetOverrun
  <2>1. /\ agreed /\ op = "set" /\ op' = "overrun"
        /\ UNCHANGED <<params, item, off, done, input, asked, status>>
    BY <1>9 DEF SetOverrun, Setting
  <2> QED BY <2>1 DEF CommandInv
<1>10. CASE UNCHANGED vars
  BY <1>10 DEF vars, CommandInv
<1> QED BY <1>1, <1>2, <1>3, <1>4, <1>5, <1>6, <1>7, <1>8, <1>9, <1>10 DEF Next

LEMMA CommandInvImplies ==
    ASSUME OffsetInv, TypeInv, CommandInv
    PROVE  SetsFollowTheCommand /\ StatusTellsWhatWasSet
<1> DEFINE T == Keys \X Seq(Bytes)
<1>1. done \in Seq(T) /\ asked \in Seq(T) /\ asked \in CommandType
  BY DEF TypeInv, CommandType
<1> HIDE DEF T
<1>2. Len(asked) \in Nat
  BY <1>1, LenProperties
<1>3. ASSUME agreed PROVE IsPrefix(done, asked)
  <2>1. item \in 0 .. Len(asked) /\ Len(done) = item /\ \A j \in 1 .. item : done[j] = asked[j]
    BY <1>3 DEF CommandInv
  <2>2. SubSeq(done, 1, Len(done)) = done
    BY <1>1, SubSeqFull
  <2>3. /\ SubSeq(asked, 1, item) \in Seq(T)
        /\ Len(SubSeq(asked, 1, item)) = item
        /\ \A j \in 1 .. item : SubSeq(asked, 1, item)[j] = asked[j]
    <3>1. \A j \in 1 .. item : asked[j] \in T
      BY <1>1, <1>2, <2>1, LenProperties
    <3>2. /\ SubSeq(asked, 1, item) \in Seq(T)
          /\ Len(SubSeq(asked, 1, item)) = (IF 1 <= item THEN item - 1 + 1 ELSE 0)
          /\ \A j \in 1 .. item - 1 + 1 : SubSeq(asked, 1, item)[j] = asked[1 + j - 1]
      BY <2>1, <3>1, SubSeqProperties
    <3> DEFINE s == SubSeq(asked, 1, item)
    <3> HIDE DEF s
    <3>3. Len(s) = item
      BY <2>1, <3>2 DEF s
    <3>4. ASSUME NEW j \in 1 .. item PROVE s[j] = asked[j]
      <4>1. j \in 1 .. item - 1 + 1 /\ 1 + j - 1 = j
        BY <2>1
      <4> QED BY <3>2, <4>1 DEF s
    <3> QED BY <3>2, <3>3, <3>4 DEF s
  <2>4. SubSeq(asked, 1, item) = done
    <3> DEFINE s == SubSeq(asked, 1, item)
    <3>1. s \in Seq(T) /\ Len(s) = Len(done) /\ \A j \in 1 .. Len(s) : s[j] = done[j]
      BY <2>1, <2>3
    <3> HIDE DEF s
    <3>2. s = done
      BY <1>1, <3>1, SeqEqual
    <3> QED BY <3>2 DEF s
  <2> QED BY <2>1, <2>2, <2>4 DEF IsPrefix
<1>4. ASSUME op = "none", agreed, asked # <<>>
      PROVE  /\ status = "OK" <=> done = asked
             /\ Len(input) < Len(Encode(asked)) => done # asked
  <2>1. /\ item \in 0 .. Len(asked) /\ Len(done) = item
        /\ \A j \in 1 .. item : done[j] = asked[j]
        /\ status = "OK" <=> item = Len(asked)
        /\ IF input = <<>> THEN item = 0 ELSE off = End(asked, item) /\ off <= Len(input)
        /\ Len(asked) < Base
    BY <1>4 DEF CommandInv
  <2>2. item = Len(asked) <=> done = asked
    <3>1. ASSUME item = Len(asked) PROVE done = asked
      BY <1>1, <2>1, <3>1, SeqEqual
    <3> QED BY <2>1, <3>1
  <2>3. ASSUME done = asked PROVE ~(Len(input) < Len(Encode(asked)))
    <3>1. item = Len(asked)
      BY <2>2, <2>3
    <3>2. Len(asked) # 0
      BY <1>1, <1>4, EmptySeq
    <3>3. off = End(asked, Len(asked)) /\ off <= Len(input)
      BY <2>1, <3>1, <3>2
    <3>4. End(asked, Len(asked)) = Len(Encode(asked))
      BY <1>1, <2>1, EncodeResult
    <3>5. off \in Nat /\ Len(input) \in Nat
      BY DEF OffsetInv
    <3> QED BY <3>3, <3>4, <3>5
  <2> QED BY <2>1, <2>2, <2>3
<1> QED BY <1>3, <1>4 DEF SetsFollowTheCommand, StatusTellsWhatWasSet

----------------------------------------------------------------------------
(* The report loop has written the items it has read, and while a getter runs *)
(* the id in front of its value. *)

Reported == <<Len(ids)>> \o FlattenSeq(PairParts(done))
ReportInv ==
    op \in {"report", "getting"} =>
        /\ item \in 0 .. Len(ids)
        /\ Len(done) = item
        /\ \A j \in 1 .. item : done[j][1] = ids[j]
        /\ SubSeq(buf, 1, off) = IF op = "report" THEN Reported ELSE Reported \o IdBytes(ReadId)

LEMMA ReportBegins ==
    ASSUME NEW list \in Seq(Keys), Len(list) < Base, StartReport(list)
    PROVE  ReportInv'
<1>1. Len(list) \in Bytes /\ <<Len(list)>> \in Seq(Bytes) /\ Len(list) \in Nat
  BY CountType, LenProperties
<1> DEFINE count == <<Len(list)>>
           none == <<>>
<1>2. /\ ids' = list /\ item' = 0 /\ off' = 1 /\ op' = "report" /\ done' = none
      /\ buf' = Written(EmptyBuffer, 0, count)
  BY DEF StartReport
<1>8. SubSeq(buf', 1, off') = count
  BY <1>2, CountWritten
<1>3. FlattenSeq(PairParts(none)) = <<>> /\ Len(none) = 0
  BY FlattenNothing
<1>4. count \o <<>> = count
  <2> HIDE DEF count
  <2>1. count \in Seq(Bytes)
    BY <1>1 DEF count
  <2> QED BY <2>1, ConcatEmptySeq
<1>5. SubSeq(buf', 1, off') = Reported'
  <2>1. PairParts(done') = PairParts(none) /\ <<Len(ids')>> = count
    BY <1>2
  <2> QED BY <1>3, <1>4, <1>8, <2>1 DEF Reported
<1> HIDE DEF none
<1>6. item' \in 0 .. Len(ids') /\ Len(done') = item'
  BY <1>1, <1>2, <1>3
<1>7. \A j \in 1 .. item' : done'[j][1] = ids'[j]
  BY <1>2
<1> QED BY <1>2, <1>5, <1>6, <1>7 DEF ReportInv

LEMMA StepReportInv ==
    OffsetInv /\ TypeInv /\ ReportInv /\ [Next]_vars => ReportInv'
<1> SUFFICES ASSUME OffsetInv, TypeInv, ReportInv, [Next]_vars PROVE ReportInv'
  OBVIOUS
<1> USE DEF loop, inputs
<1>1. ASSUME UNCHANGED <<op, item, off, done, ids, buf>> PROVE ReportInv'
  BY <1>1 DEF ReportInv, Reported, ReadId
<1>2. CASE \/ InitService
           \/ \E id \in Keys : Update(id) \/ \E d \in Values : RegisterParam(id, d)
           \/ UNCHANGED vars
  <2>1. UNCHANGED <<op, item, off, done, ids, buf>>
    BY <1>2 DEF InitService, Update, RegisterParam, vars
  <2> QED BY <1>1, <2>1
<1>3. ASSUME op' \notin {"report", "getting"} PROVE ReportInv'
  BY <1>3 DEF ReportInv
<1>4. ASSUME NEW pairs \in Commands, NEW m \in 0 .. Len(Encode(pairs)) + 1,
             ReceiveSet(pairs, m)
      PROVE  ReportInv'
  <2>1. op' \notin {"report", "getting"}
    BY <1>4 DEF ReceiveSet
  <2> QED BY <1>3, <2>1
<1>5. ASSUME NEW list \in Requests, EmitReport(list) PROVE ReportInv'
  BY <1>5, InputTypes, ReportBegins DEF EmitReport
<1>6. ASSUME NEW list \in Requests, NEW m \in 0 .. Len(EncodeIds(list)) + 1,
             ReceiveReport(list, m)
      PROVE  ReportInv'
  <2> DEFINE bytes == SubSeq(Append(EncodeIds(list), 0), 1, m)
             named == [j \in 1 .. bytes[1] |-> IdAt(bytes, 2 * j - 1)]
  <2>1. list \in Seq(Keys) /\ Len(list) < Base
    BY InputTypes
  <2>2. CASE Acceptable(bytes)
    <3>1. StartReport(named)
      BY <1>6, <2>2 DEF ReceiveReport
    <3>2. bytes[1] = Len(list) /\ named \in Seq(Keys)
      BY <2>1, <2>2, ReadsRequest
    <3>3. Len(named) = Len(list)
      <4> DEFINE n == Len(list)
      <4>1. n \in Nat /\ bytes[1] = n
        BY <2>1, <3>2, LenProperties
      <4>2. DOMAIN named = 1 .. n
        BY <4>1
      <4> HIDE DEF n, named
      <4>3. DOMAIN named = 1 .. Len(named) /\ Len(named) \in Nat
        BY <3>2, LenProperties
      <4>4. Len(named) = n
        BY <4>1, <4>2, <4>3
      <4> QED BY <4>4 DEF n
    <3> HIDE DEF named
    <3> QED BY <2>1, <3>1, <3>2, <3>3, ReportBegins
  <2>3. CASE ~Acceptable(bytes)
    <3>1. op' \notin {"report", "getting"}
      BY <1>6, <2>3 DEF ReceiveReport
    <3> QED BY <1>3, <3>1
  <2> QED BY <2>2, <2>3
<1>7. CASE \/ RefuseItem \/ SetDone \/ RefuseRead \/ SetOverrun \/ ReadOverrun \/ SetItem
           \/ \E st \in AppStatuses : SetterFails(st) \/ GetterFails(st) \/ BuildReport(st)
  <2>1. op' \notin {"report", "getting"}
    BY <1>7 DEF RefuseItem, SetDone, RefuseRead, SetterFails, GetterFails, BuildReport, Finish,
                SetOverrun, ReadOverrun, SetItem, Setting
  <2> QED BY <1>3, <2>1
<1>8. CASE CallGetter
  <2>1. /\ op = "report" /\ op' = "getting" /\ item < Len(ids)
        /\ Holding(params, ReadId) # {} /\ ReadEnd <= MaxTmPayload
        /\ buf' = Written(buf, off, IdBytes(ReadId)) /\ off' = (off + 2) % Wrap
        /\ UNCHANGED <<item, done, ids>>
    BY <1>8 DEF CallGetter, Reading
  <2>2. SubSeq(buf', 1, off') = SubSeq(buf, 1, off) \o IdBytes(ReadId)
    BY <2>1, IdWritten
  <2>3. /\ item \in 0 .. Len(ids) /\ Len(done) = item
        /\ \A j \in 1 .. item : done[j][1] = ids[j]
        /\ SubSeq(buf, 1, off) = Reported
    BY <2>1 DEF ReportInv
  <2>4. Reported' = Reported /\ ReadId' = ReadId /\ IdBytes(ReadId)' = IdBytes(ReadId)
    BY <2>1 DEF Reported, ReadId, IdBytes
  <2> QED BY <2>1, <2>2, <2>3, <2>4 DEF ReportInv
<1>9. CASE GetterFills
  <2> DEFINE n == Len(ids)
  <2>1. /\ op = "getting" /\ op' = "report" /\ off' = (off + len) % Wrap
        /\ item' = item + 1 /\ UNCHANGED ids
    BY <1>9 DEF GetterFills
  <2>2. PICK v \in ValuesRead :
            buf' = Written(buf, off, v) /\ done' = Append(done, <<ReadId, v>>)
    BY <1>9 DEF GetterFills
  <2>3. /\ ReadId \in Keys /\ v \in Seq(Bytes) /\ Len(v) = len
        /\ item \in Nat /\ item + 1 \in 1 .. n /\ n \in Nat
    BY <2>1, Gotten
  <2>4. off \in Nat /\ off + Len(v) <= MaxTmPayload /\ off' = off + Len(v)
    BY <2>1, <2>3, FilledEnd
  <2>5. SubSeq(buf', 1, off') = SubSeq(buf, 1, off) \o v
    BY <2>2, <2>3, <2>4, WrittenBehind DEF TypeInv
  <2>6. /\ Len(done) = item /\ \A j \in 1 .. item : done[j][1] = ids[j]
        /\ SubSeq(buf, 1, off) = Reported \o IdBytes(ReadId)
    BY <2>1 DEF ReportInv
  <2>7. n \in Bytes /\ done \in CommandType
    BY CountType DEF TypeInv
  <2> DEFINE x == <<ReadId, v>>
             more == Append(done, x)
  <2> HIDE DEF n
  <2>8. (<<n>> \o FlattenSeq(PairParts(done))) \o IdBytes(ReadId) \o v
            = <<n>> \o FlattenSeq(PairParts(more))
    BY <2>3, <2>7, ReportGrows
  <2>9. SubSeq(buf', 1, off') = Reported'
    <3>1. done' = more /\ Len(ids') = n
      BY <2>1, <2>2 DEF n
    <3> HIDE DEF more
    <3> QED BY <2>5, <2>6, <2>8, <3>1 DEF Reported, n
  <2>10. /\ Len(done') = Len(done) + 1
         /\ \A j \in 1 .. Len(done) : done'[j] = done[j]
         /\ done'[Len(done) + 1] = x
    <3> DEFINE T == Keys \X Seq(Bytes)
    <3>1. done \in Seq(T) /\ x \in T
      BY <2>3, <2>7 DEF CommandType
    <3> HIDE DEF T, x
    <3> QED BY <2>2, <3>1, AppendProperties DEF x
  <2>11. x[1] = ids[item + 1]
    BY DEF ReadId
  <2> HIDE DEF x, more
  <2>12. \A j \in 1 .. item' : done'[j][1] = ids'[j]
    BY <2>1, <2>3, <2>6, <2>10, <2>11
  <2>13. item' \in 0 .. Len(ids') /\ Len(done') = item'
    BY <2>1, <2>3, <2>6, <2>10 DEF n
  <2> QED BY <2>1, <2>9, <2>12, <2>13 DEF ReportInv
<1> QED BY <1>2, <1>4, <1>5, <1>6, <1>7, <1>8, <1>9 DEF Next

LEMMA ReportInvImplies ==
    ASSUME OffsetInv, TypeInv, ReportInv
    PROVE  ReportIsReplayable
<1> SUFFICES ASSUME op = "report", item = Len(ids)
             PROVE  /\ off <= MaxTmPayload /\ SubSeq(buf, 1, off) = Encode(done)
                    /\ ids = [j \in DOMAIN done |-> done[j][1]]
  BY DEF ReportIsReplayable
<1>1. /\ Len(done) = item /\ \A j \in 1 .. item : done[j][1] = ids[j]
      /\ SubSeq(buf, 1, off) = Reported
  BY DEF ReportInv
<1>2. SubSeq(buf, 1, off) = Encode(done)
  BY <1>1 DEF Encode, PairParts, Reported
<1>6. off <= MaxTmPayload
  BY DEF OffsetInv
<1>3. DOMAIN done = 1 .. Len(done)
  <2> DEFINE T == Keys \X Seq(Bytes)
  <2>1. done \in Seq(T)
    BY DEF TypeInv, CommandType
  <2> HIDE DEF T
  <2> QED BY <2>1, LenProperties
<1>4. ids \in [1 .. item -> Keys]
  BY LenProperties DEF TypeInv
<1>5. ids = [j \in 1 .. item |-> done[j][1]]
  <2>1. ids = [j \in 1 .. item |-> ids[j]]
    BY <1>4
  <2> QED BY <1>1, <2>1
<1> QED BY <1>1, <1>2, <1>3, <1>5, <1>6

----------------------------------------------------------------------------
(* Theorems *)

LEMMA InitLoopInv == Init => CommandInv /\ ReportInv
BY DEF Init, CommandInv, ReportInv

\* Whatever part of a set command arrives, and whatever is registered between two
\* of its items, the pairs set are its first pairs with its values.
THEOREM CommandsAreFollowed == Spec => []SetsFollowTheCommand
<1>1. Init => OffsetInv /\ TypeInv /\ CommandInv
  BY InitOffsetInv, InitTypeInv, InitLoopInv
<1>2. OffsetInv /\ TypeInv /\ CommandInv /\ [Next]_vars
          => OffsetInv' /\ TypeInv' /\ CommandInv'
  BY StepOffsetInv, StepTypeInv, StepCommandInv
<1>3. OffsetInv /\ TypeInv /\ CommandInv => SetsFollowTheCommand
  BY CommandInvImplies
<1> QED BY <1>1, <1>2, <1>3, PTL DEF Spec

\* A set command is answered OK if and only if all of it was set.
THEOREM StatusIsTrue == Spec => []StatusTellsWhatWasSet
<1>1. Init => OffsetInv /\ TypeInv /\ CommandInv
  BY InitOffsetInv, InitTypeInv, InitLoopInv
<1>2. OffsetInv /\ TypeInv /\ CommandInv /\ [Next]_vars
          => OffsetInv' /\ TypeInv' /\ CommandInv'
  BY StepOffsetInv, StepTypeInv, StepCommandInv
<1>3. OffsetInv /\ TypeInv /\ CommandInv => StatusTellsWhatWasSet
  BY CommandInvImplies
<1> QED BY <1>1, <1>2, <1>3, PTL DEF Spec

\* A finished report is the set command that would restore what was read.
THEOREM ReportsAreReplayable == Spec => []ReportIsReplayable
<1>1. Init => OffsetInv /\ TypeInv /\ ReportInv
  BY InitOffsetInv, InitTypeInv, InitLoopInv
<1>2. OffsetInv /\ TypeInv /\ ReportInv /\ [Next]_vars
          => OffsetInv' /\ TypeInv' /\ ReportInv'
  BY StepOffsetInv, StepTypeInv, StepReportInv
<1>3. OffsetInv /\ TypeInv /\ ReportInv => ReportIsReplayable
  BY ReportInvImplies
<1> QED BY <1>1, <1>2, <1>3, PTL DEF Spec

\* Bytes, ids, offsets and lists keep their types.
THEOREM TypeCorrect == Spec => []TypeOK
<1>1. OffsetInv /\ TypeInv => TypeOK
  <2>1. SUFFICES ASSUME OffsetInv, TypeInv PROVE TypeOK
    OBVIOUS
  <2> QED BY <2>1 DEF OffsetInv, TypeInv, TypeOK, CommandType
<1>2. Init => OffsetInv /\ TypeInv
  BY InitOffsetInv, InitTypeInv
<1>3. OffsetInv /\ TypeInv /\ [Next]_vars => OffsetInv' /\ TypeInv'
  BY StepOffsetInv, StepTypeInv
<1> QED BY <1>1, <1>2, <1>3, PTL DEF Spec

\* Unless an entry's value length comes within a buffer length of the wrap of a
\* uint16_t, no getter and no setter is ever handed bytes outside payload[] or
\* tc->payload, whatever lengths are registered, re-registered in callbacks,
\* or assumed by ground.
THEOREM LoopsStayInsideTheirBuffers == Spec => []OverrunNeedsHugeLength
<1>1. OffsetInv => OverrunNeedsHugeLength
  BY DEF OffsetInv
<1> QED BY <1>1, InitOffsetInv, StepOffsetInv, PTL DEF Spec
=============================================================================
