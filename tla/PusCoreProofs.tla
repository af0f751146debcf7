---------------------------- MODULE PusCoreProofs ----------------------------
(***************************************************************************)
(* Proofs about the processing core, for every table size, every number of *)
(* telecommands, every depth of re-entry and every counter width.          *)
(***************************************************************************)
EXTENDS PusCore, SlotTableProofs, SequenceTheorems

Pcs == ProcessPcs \cup PacketPcs \cup CallbackPcs

----------------------------------------------------------------------------
(* Frames *)

LEMMA FrameType ==
    ASSUME NEW pc \in Pcs, NEW r \in Requests \cup {NoReq}
    PROVE  /\ Frame(pc, r) \in Frames
           /\ Frame(pc, r).pc = pc
           /\ Frame(pc, r).req = r
BY MaxEntriesAssumption, BoundsAssumption
DEF Frame, Frames, Pcs, Statuses, Kinds

LEMMA CallbackFrame ==
    ASSUME NEW pc \in {"handler", "sink", "clock"}, NEW r \in Requests \cup {NoReq}
    PROVE  Frame(pc, r) \in Frames /\ Frame(pc, r).pc = pc /\ Frame(pc, r).req = r
<1>1. pc \in Pcs
  BY DEF Pcs, CallbackPcs, AppContexts
<1> QED BY <1>1, FrameType

\* Setting one field of a frame.
LEMMA SetPc ==
    ASSUME NEW f \in Frames, NEW pc \in Pcs
    PROVE  LET g == [f EXCEPT !.pc = pc] IN
           /\ g \in Frames /\ g.pc = pc
           /\ g.req = f.req /\ g.idx = f.idx /\ g.st = f.st
           /\ g.kind = f.kind /\ g.seq = f.seq
BY DEF Frames, Pcs

LEMMA SetIdx ==
    ASSUME NEW f \in Frames, NEW i \in -1 .. MaxEntries - 1
    PROVE  LET g == [f EXCEPT !.idx = i] IN
           g \in Frames /\ g.idx = i /\ g.pc = f.pc /\ g.req = f.req
BY DEF Frames

LEMMA SetSt ==
    ASSUME NEW f \in Frames, NEW st \in Statuses
    PROVE  LET g == [f EXCEPT !.st = st] IN
           g \in Frames /\ g.st = st /\ g.pc = f.pc /\ g.req = f.req
BY DEF Frames

LEMMA SetSeq ==
    ASSUME NEW f \in Frames, NEW n \in 0 .. MaxCounter
    PROVE  LET g == [f EXCEPT !.seq = n] IN
           g \in Frames /\ g.seq = n /\ g.pc = f.pc /\ g.req = f.req
BY DEF Frames

LEMMA SetKind ==
    ASSUME NEW f \in Frames, NEW kind \in Kinds
    PROVE  LET g == [f EXCEPT !.kind = kind] IN
           g \in Frames /\ g.kind = kind /\ g.pc = f.pc /\ g.req = f.req
BY DEF Frames

LEMMA SetSend ==
    ASSUME NEW f \in Frames, NEW b \in BOOLEAN
    PROVE  LET g == [f EXCEPT !.send = b] IN
           g \in Frames /\ g.pc = f.pc /\ g.req = f.req /\ g.kind = f.kind
BY DEF Frames

LEMMA PacketType ==
    ASSUME NEW kind \in Kinds, NEW r \in Requests \cup {NoReq}
    PROVE  /\ Packet(kind, r) \in Frames
           /\ Packet(kind, r).pc = "stamp"
           /\ Packet(kind, r).req = r
           /\ Packet(kind, r).kind = kind
<1> DEFINE f == Frame("stamp", r)
           g == [f EXCEPT !.kind = kind]
<1>1. f \in Frames /\ f.pc = "stamp" /\ f.req = r
  BY FrameType DEF Pcs, PacketPcs
<1> HIDE DEF f
<1>2. g \in Frames /\ g.pc = "stamp" /\ g.req = r /\ g.kind = kind
  BY <1>1, SetKind
<1> HIDE DEF g
<1>3. Packet(kind, r) = [g EXCEPT !.send = TRUE]
  BY DEF Packet, f, g
<1> QED BY <1>2, <1>3, SetSend

----------------------------------------------------------------------------
(* The stack *)

LEMMA ResumeResult ==
    ASSUME stack \in Seq(Frames), stack # <<>>, NEW f \in Frames
    PROVE  /\ Resume(f) \in Seq(Frames)
           /\ Len(Resume(f)) = Len(stack)
           /\ Resume(f)[Len(stack)] = f
           /\ \A i \in 1 .. Len(stack) - 1 : Resume(f)[i] = stack[i]
BY DEF Resume

LEMMA EnterResult ==
    ASSUME NEW s \in Seq(Frames), NEW g \in Frames
    PROVE  /\ Append(s, g) \in Seq(Frames)
           /\ Len(Append(s, g)) = Len(s) + 1
           /\ Append(s, g)[Len(s) + 1] = g
           /\ \A i \in 1 .. Len(s) : Append(s, g)[i] = s[i]
OBVIOUS

LEMMA ResumeAndEnterResult ==
    ASSUME stack \in Seq(Frames), stack # <<>>, NEW f \in Frames, NEW g \in Frames
    PROVE  /\ ResumeAndEnter(f, g) \in Seq(Frames)
           /\ Len(ResumeAndEnter(f, g)) = Len(stack) + 1
           /\ ResumeAndEnter(f, g)[Len(stack)] = f
           /\ ResumeAndEnter(f, g)[Len(stack) + 1] = g
           /\ \A i \in 1 .. Len(stack) - 1 : ResumeAndEnter(f, g)[i] = stack[i]
<1> DEFINE s == Resume(f)
<1>1. /\ s \in Seq(Frames)
      /\ Len(s) = Len(stack)
      /\ s[Len(stack)] = f
      /\ \A i \in 1 .. Len(stack) - 1 : s[i] = stack[i]
  BY ResumeResult
<1>2. Len(stack) \in 1 .. Len(stack)
  BY EmptySeq, LenProperties
<1> HIDE DEF s
<1>3. /\ Append(s, g) \in Seq(Frames)
      /\ Len(Append(s, g)) = Len(s) + 1
      /\ Append(s, g)[Len(s) + 1] = g
      /\ \A i \in 1 .. Len(s) : Append(s, g)[i] = s[i]
  BY <1>1, EnterResult
<1>4. ResumeAndEnter(f, g) = Append(s, g)
  BY DEF ResumeAndEnter, s
<1> QED BY <1>1, <1>2, <1>3, <1>4

LEMMA FrontResult ==
    ASSUME stack \in Seq(Frames), stack # <<>>
    PROVE  /\ Front(stack) \in Seq(Frames)
           /\ Len(Front(stack)) = Len(stack) - 1
           /\ \A i \in 1 .. Len(stack) - 1 : Front(stack)[i] = stack[i]
<1> DEFINE n == Len(stack) - 1
<1>1. n \in Nat /\ \A i \in 1 .. n : stack[i] \in Frames
  BY EmptySeq, LenProperties
<1>2. Front(stack) = SubSeq(stack, 1, n)
  BY DEF Front
<1> HIDE DEF n
<1>3. /\ SubSeq(stack, 1, n) \in Seq(Frames)
      /\ Len(SubSeq(stack, 1, n)) = IF 1 <= n THEN n - 1 + 1 ELSE 0
      /\ \A i \in 1 .. n - 1 + 1 : SubSeq(stack, 1, n)[i] = stack[1 + i - 1]
  BY <1>1, SubSeqProperties
<1>4. Len(Front(stack)) = n /\ \A i \in 1 .. n : Front(stack)[i] = stack[i]
  BY <1>1, <1>2, <1>3
<1> QED BY <1>2, <1>3, <1>4 DEF n

LEMMA TopResult ==
    ASSUME stack \in Seq(Frames), stack # <<>>
    PROVE  Top \in Frames /\ Top = stack[Len(stack)] /\ Len(stack) \in Nat \ {0}
BY EmptySeq, LenProperties DEF Top, Last

----------------------------------------------------------------------------
(* What a step does to the stack: a new frame is entered; or the innermost *)
(* frame is replaced by f, with possibly a frame at a point in G entered   *)
(* above it; or the innermost frame is left.                               *)

Entered(G) ==
    /\ stack' \in Seq(Frames)
    /\ Len(stack') = Len(stack) + 1
    /\ \A i \in 1 .. Len(stack) : stack'[i] = stack[i]
    /\ stack'[Len(stack')].pc \in G

Stepped(f, G) ==
    /\ stack' \in Seq(Frames)
    /\ Len(stack) \in Nat \ {0}
    /\ Len(stack') \in {Len(stack), Len(stack) + 1}
    /\ \A i \in 1 .. Len(stack) - 1 : stack'[i] = stack[i]
    /\ stack'[Len(stack)] = f
    /\ Len(stack') = Len(stack) + 1 => stack'[Len(stack')].pc \in G

Returned ==
    /\ stack' \in Seq(Frames)
    /\ Len(stack') = Len(stack) - 1
    /\ \A i \in 1 .. Len(stack) - 1 : stack'[i] = stack[i]

LEMMA EnterIsEntered ==
    ASSUME stack \in Seq(Frames), NEW g \in Frames, stack' = Append(stack, g)
    PROVE  Entered({g.pc})
<1>1. /\ Append(stack, g) \in Seq(Frames)
      /\ Len(Append(stack, g)) = Len(stack) + 1
      /\ Append(stack, g)[Len(stack) + 1] = g
      /\ \A i \in 1 .. Len(stack) : Append(stack, g)[i] = stack[i]
  BY EnterResult
<1> QED BY <1>1 DEF Entered

LEMMA ResumeIsStepped ==
    ASSUME stack \in Seq(Frames), stack # <<>>, NEW f \in Frames, stack' = Resume(f)
    PROVE  Stepped(f, {})
BY ResumeResult, TopResult DEF Stepped

LEMMA ResumeAndEnterIsStepped ==
    ASSUME stack \in Seq(Frames), stack # <<>>, NEW f \in Frames, NEW g \in Frames,
           stack' = ResumeAndEnter(f, g)
    PROVE  Stepped(f, {g.pc})
<1> DEFINE s == ResumeAndEnter(f, g)
<1>0. /\ s \in Seq(Frames)
      /\ Len(s) = Len(stack) + 1
      /\ s[Len(stack)] = f
      /\ s[Len(stack) + 1] = g
      /\ \A i \in 1 .. Len(stack) - 1 : s[i] = stack[i]
  BY ResumeAndEnterResult
<1>s. stack' = s
  OBVIOUS
<1> HIDE DEF s
<1>1. /\ stack' \in Seq(Frames)
      /\ Len(stack') = Len(stack) + 1
      /\ stack'[Len(stack)] = f
      /\ stack'[Len(stack) + 1] = g
      /\ \A i \in 1 .. Len(stack) - 1 : stack'[i] = stack[i]
  BY <1>0, <1>s
<1>2. Len(stack) \in Nat \ {0}
  BY TopResult
<1> QED BY <1>1, <1>2 DEF Stepped

LEMMA SteppedWeaken ==
    ASSUME NEW f, NEW G, NEW H, G \subseteq H, Stepped(f, G)
    PROVE  Stepped(f, H)
BY DEF Stepped

LEMMA FrontIsReturned ==
    ASSUME stack \in Seq(Frames), stack # <<>>, stack' = Front(stack)
    PROVE  Returned
BY FrontResult DEF Returned

LEMMA ReportIsStepped ==
    ASSUME stack \in Seq(Frames), stack # <<>>, NEW f \in Frames, NEW kind \in Kinds,
           NEW flag, ReportIfAsked(flag, kind, f)
    PROVE  Stepped(f, {"stamp"})
<1>1. Top \in Frames /\ Top.req \in Requests \cup {NoReq}
  BY TopResult DEF Frames
<1>2. Packet(kind, Top.req) \in Frames /\ Packet(kind, Top.req).pc = "stamp"
  BY <1>1, PacketType
<1>3. CASE flag \in tc[Top.req].ack
  BY <1>2, <1>3, ResumeAndEnterIsStepped DEF ReportIfAsked
<1>4. CASE ~(flag \in tc[Top.req].ack)
  BY <1>4, ResumeIsStepped, SteppedWeaken DEF ReportIfAsked
<1> QED BY <1>3, <1>4

LEMMA TopReq ==
    ASSUME stack \in Seq(Frames), stack # <<>>
    PROVE  Top.req \in Requests \cup {NoReq}
BY TopResult DEF Frames

----------------------------------------------------------------------------
(* The effect of each action on the stack *)

LEMMA FindHandlerStack ==
    ASSUME TypeOK, FindHandler
    PROVE  \E f \in Frames :
               /\ Stepped(f, {"stamp"})
               /\ f.req = Top.req
               /\ \/ f.pc = "refused"
                  \/ f.pc = "acceptance" /\ f.idx \in Holding(table, tc[Top.req].key)
<1>1. stack \in Seq(Frames) /\ stack # <<>> /\ Top \in Frames
  BY TopResult DEF FindHandler, At, TypeOK
<1> DEFINE k == tc[Top.req].key
<1>2. CASE Find(table, k) < 0
  <2> DEFINE f0 == [Top EXCEPT !.pc = "refused"]
             f == [f0 EXCEPT !.st = "NO_HANDLER"]
             g == Packet("routing_failure", Top.req)
  <2>1. f0 \in Frames /\ f0.pc = "refused" /\ f0.req = Top.req
    BY <1>1, SetPc DEF Pcs, ProcessPcs
  <2>2. stack' = ResumeAndEnter(f, g)
    BY <1>2 DEF FindHandler
  <2> HIDE DEF f0
  <2>3. f \in Frames /\ f.pc = "refused" /\ f.req = Top.req
    BY <2>1, SetSt DEF Statuses
  <2>4. g \in Frames /\ g.pc = "stamp"
    BY <1>1, PacketType DEF Frames, Kinds, Verification
  <2> HIDE DEF f, g
  <2> QED BY <1>1, <2>2, <2>3, <2>4, ResumeAndEnterIsStepped
<1>3. CASE ~(Find(table, k) < 0)
  <2> DEFINE f0 == [Top EXCEPT !.pc = "acceptance"]
             f == [f0 EXCEPT !.idx = Find(table, k)]
  <2>1. f0 \in Frames /\ f0.pc = "acceptance" /\ f0.req = Top.req
    BY <1>1, SetPc DEF Pcs, ProcessPcs
  <2>2. stack' = Resume(f)
    BY <1>3 DEF FindHandler
  <2>3. Find(table, k) \in Holding(table, k) /\ Find(table, k) \in -1 .. MaxEntries - 1
    BY <1>3, FindResult, FindNegative, MaxEntriesAssumption DEF Slots
  <2> HIDE DEF f0
  <2>4. f \in Frames /\ f.pc = "acceptance" /\ f.req = Top.req /\ f.idx = Find(table, k)
    BY <2>1, <2>3, SetIdx
  <2> HIDE DEF f
  <2>5. Stepped(f, {"stamp"})
    BY <1>1, <2>2, <2>4, ResumeIsStepped, SteppedWeaken
  <2> QED BY <2>3, <2>4, <2>5
<1> QED BY <1>2, <1>3

LEMMA EmitAcceptanceStack ==
    ASSUME TypeOK, EmitAcceptance
    PROVE  \E f \in Frames : /\ Stepped(f, {"stamp"})
                             /\ f.pc = "start" /\ f.req = Top.req /\ f.idx = Top.idx
<1>1. stack \in Seq(Frames) /\ stack # <<>> /\ Top \in Frames
  BY TopResult DEF EmitAcceptance, At, TypeOK
<1> DEFINE f == [Top EXCEPT !.pc = "start"]
<1>2. f \in Frames /\ f.pc = "start" /\ f.req = Top.req /\ f.idx = Top.idx
  BY <1>1, SetPc DEF Pcs, ProcessPcs
<1>3. ReportIfAsked("acceptance", "acceptance_success", f)
  BY DEF EmitAcceptance
<1> HIDE DEF f
<1>4. Stepped(f, {"stamp"})
  BY <1>1, <1>2, <1>3, ReportIsStepped DEF Kinds, Verification
<1> QED BY <1>2, <1>4

LEMMA EmitStartStack ==
    ASSUME TypeOK, EmitStart
    PROVE  \E f \in Frames : /\ Stepped(f, {"stamp"})
                             /\ f.pc = "invoke" /\ f.req = Top.req /\ f.idx = Top.idx
<1>1. stack \in Seq(Frames) /\ stack # <<>> /\ Top \in Frames
  BY TopResult DEF EmitStart, At, TypeOK
<1> DEFINE f == [Top EXCEPT !.pc = "invoke"]
<1>2. f \in Frames /\ f.pc = "invoke" /\ f.req = Top.req /\ f.idx = Top.idx
  BY <1>1, SetPc DEF Pcs, ProcessPcs
<1>3. ReportIfAsked("start", "start_success", f)
  BY DEF EmitStart
<1> HIDE DEF f
<1>4. Stepped(f, {"stamp"})
  BY <1>1, <1>2, <1>3, ReportIsStepped DEF Kinds, Verification
<1> QED BY <1>2, <1>4

LEMMA InvokeHandlerStack ==
    ASSUME TypeOK, InvokeHandler
    PROVE  \E f \in Frames : Stepped(f, {"handler"}) /\ f.pc = "completion" /\ f.req = Top.req
<1>1. stack \in Seq(Frames) /\ stack # <<>> /\ Top \in Frames
  BY TopResult DEF InvokeHandler, At, TypeOK
<1> DEFINE f == [Top EXCEPT !.pc = "completion"]
           g == Frame("handler", Top.req)
<1>2. f \in Frames /\ f.pc = "completion" /\ f.req = Top.req
  BY <1>1, SetPc DEF Pcs, ProcessPcs
<1>3. g \in Frames /\ g.pc = "handler"
  BY <1>1, CallbackFrame, TopReq
<1>4. stack' = ResumeAndEnter(f, g)
  BY DEF InvokeHandler
<1> HIDE DEF f, g
<1> QED BY <1>1, <1>2, <1>3, <1>4, ResumeAndEnterIsStepped

LEMMA EmitCompletionStack ==
    ASSUME TypeOK, EmitCompletion
    PROVE  \E f \in Frames :
               Stepped(f, {"stamp"}) /\ f.pc = "return" /\ f.req = Top.req /\ f.st = ret
<1>1. stack \in Seq(Frames) /\ stack # <<>> /\ Top \in Frames
  BY TopResult DEF EmitCompletion, At, TypeOK
<1> DEFINE f0 == [Top EXCEPT !.pc = "return"]
           f == [f0 EXCEPT !.st = ret]
<1>2. f0 \in Frames /\ f0.pc = "return" /\ f0.req = Top.req
  BY <1>1, SetPc DEF Pcs, ProcessPcs
<1> DEFINE kind == IF ret = "OK" THEN "completion_success" ELSE "completion_failure"
<1>3. ReportIfAsked("completion", kind, f)
  BY DEF EmitCompletion
<1> HIDE DEF f0
<1>4. f \in Frames /\ f.pc = "return" /\ f.req = Top.req /\ f.st = ret
  BY <1>2, SetSt DEF TypeOK
<1>5. kind \in Kinds
  BY DEF Kinds, Verification
<1> HIDE DEF f, kind
<1>6. Stepped(f, {"stamp"})
  BY <1>1, <1>3, <1>4, <1>5, ReportIsStepped
<1> QED BY <1>4, <1>6

LEMMA StampHeaderStack ==
    ASSUME TypeOK, StampHeader
    PROVE  \E f \in Frames :
               Stepped(f, {"clock"}) /\ f.pc = "count" /\ f.seq = counter /\ f.req = Top.req
<1>1. stack \in Seq(Frames) /\ stack # <<>> /\ Top \in Frames
  BY TopResult DEF StampHeader, At, TypeOK
<1> DEFINE f0 == [Top EXCEPT !.pc = "count"]
           f == [f0 EXCEPT !.seq = counter]
           g == Frame("clock", Top.req)
<1>2. f0 \in Frames /\ f0.pc = "count" /\ f0.req = Top.req
  BY <1>1, SetPc DEF Pcs, PacketPcs
<1>3. g \in Frames /\ g.pc = "clock"
  BY <1>1, CallbackFrame, TopReq
<1>4. stack' = IF clock THEN ResumeAndEnter(f, g) ELSE Resume(f)
  BY DEF StampHeader
<1> HIDE DEF f0, g
<1>5. f \in Frames /\ f.pc = "count" /\ f.seq = counter /\ f.req = Top.req
  BY <1>2, SetSeq DEF TypeOK
<1> HIDE DEF f
<1>6. Stepped(f, {"clock"})
  <2>1. CASE clock
    BY <1>1, <1>3, <1>4, <1>5, <2>1, ResumeAndEnterIsStepped
  <2>2. CASE ~clock
    BY <1>1, <1>4, <1>5, <2>2, ResumeIsStepped, SteppedWeaken
  <2> QED BY <2>1, <2>2
<1> QED BY <1>5, <1>6

LEMMA FinishPacketStack ==
    ASSUME TypeOK, FinishPacket
    PROVE  \E f \in Frames : Stepped(f, {"sink"}) /\ f.pc = "sent" /\ f.req = Top.req
<1>1. stack \in Seq(Frames) /\ stack # <<>> /\ Top \in Frames
  BY TopResult DEF FinishPacket, At, TypeOK
<1> DEFINE f == [Top EXCEPT !.pc = "sent"]
           g == Frame("sink", Top.req)
<1>2. f \in Frames /\ f.pc = "sent" /\ f.req = Top.req
  BY <1>1, SetPc DEF Pcs, PacketPcs
<1>3. g \in Frames /\ g.pc = "sink"
  BY <1>1, CallbackFrame, TopReq
<1>4. stack' = IF Top.send /\ sink THEN ResumeAndEnter(f, g) ELSE Resume(f)
  BY DEF FinishPacket
<1> HIDE DEF f, g
<1>5. Stepped(f, {"sink"})
  <2>1. CASE Top.send /\ sink
    BY <1>1, <1>2, <1>3, <1>4, <2>1, ResumeAndEnterIsStepped
  <2>2. CASE ~(Top.send /\ sink)
    BY <1>1, <1>2, <1>4, <2>2, ResumeIsStepped, SteppedWeaken
  <2> QED BY <2>1, <2>2
<1> QED BY <1>2, <1>5

LEMMA ProcessTcStack ==
    ASSUME TypeOK, NEW k \in Keys, NEW ack \in AckSets, ProcessTc(k, ack)
    PROVE  Entered({"find"})
<1> DEFINE r == Cardinality(Received) + 1
           g == Frame("find", r)
<1>1. r \in Requests /\ stack' = Append(stack, g)
  BY DEF ProcessTc
<1> HIDE DEF r
<1>2. "find" \in Pcs
  BY DEF Pcs, ProcessPcs
<1>3. g \in Frames /\ g.pc = "find"
  BY <1>1, <1>2, FrameType
<1> HIDE DEF g
<1> QED BY <1>1, <1>3, EnterIsEntered DEF TypeOK

LEMMA InvokeDirectlyStack ==
    ASSUME TypeOK, NEW k \in Keys, InvokeDirectly(k)
    PROVE  UNCHANGED stack \/ Entered({"handler"})
<1> DEFINE g == Frame("handler", NoReq)
<1>1. g \in Frames /\ g.pc = "handler"
  BY CallbackFrame
<1>2. UNCHANGED stack \/ stack' = Append(stack, g)
  BY DEF InvokeDirectly
<1> HIDE DEF g
<1> QED BY <1>1, <1>2, EnterIsEntered DEF TypeOK

LEMMA BuildTmStack ==
    ASSUME TypeOK, BuildTm \/ ReportOther
    PROVE  Entered({"stamp"})
<1> DEFINE g == Packet("telemetry", NoReq)
           h == [g EXCEPT !.send = FALSE]
<1>1. g \in Frames /\ g.pc = "stamp"
  BY PacketType DEF Kinds
<1>2. stack' = Append(stack, g) \/ stack' = Append(stack, h)
  BY DEF BuildTm, ReportOther
<1> HIDE DEF g
<1>3. h \in Frames /\ h.pc = "stamp"
  BY <1>1, SetSend
<1> HIDE DEF h
<1> QED BY <1>1, <1>2, <1>3, EnterIsEntered DEF TypeOK

ProgressKinds == {"progress_success", "progress_failure"}

LEMMA ProgressStack ==
    ASSUME TypeOK, NEW kind \in ProgressKinds, EmitProgress(kind) \/ BuildProgress(kind)
    PROVE  Entered({"stamp"})
<1> DEFINE g == Packet(kind, Top.req)
           h == [g EXCEPT !.send = FALSE]
<1>1. stack \in Seq(Frames) /\ stack # <<>>
  BY DEF EmitProgress, BuildProgress, At, TypeOK
<1>2. kind \in Kinds
  BY DEF ProgressKinds, Kinds, Verification
<1>3. g \in Frames /\ g.pc = "stamp"
  BY <1>1, <1>2, TopReq, PacketType
<1>4. stack' = Append(stack, g) \/ stack' = Append(stack, h)
  BY DEF EmitProgress, BuildProgress
<1> HIDE DEF g
<1>5. h \in Frames /\ h.pc = "stamp"
  BY <1>3, SetSend
<1> HIDE DEF h
<1> QED BY <1>1, <1>3, <1>4, <1>5, EnterIsEntered

LEMMA ReturnStack ==
    ASSUME TypeOK, ReturnFromProcess \/ ReturnFromPacket \/ \E d \in 1 .. Len(stack) : ReturnFromCallback(d)
    PROVE  Returned /\ stack # <<>>
<1>1. stack \in Seq(Frames)
  BY DEF TypeOK
<1>2. stack # <<>> /\ stack' = Front(stack)
  <2>1. CASE ReturnFromProcess
    BY <2>1 DEF ReturnFromProcess, At, Return
  <2>2. CASE ReturnFromPacket
    BY <2>2 DEF ReturnFromPacket, At, Return
  <2>3. CASE \E d \in 1 .. Len(stack) : ReturnFromCallback(d)
    BY <2>3 DEF ReturnFromCallback, AppContext, CallbackPcs, Return
  <2> QED BY <2>1, <2>2, <2>3
<1> QED BY <1>1, <1>2, FrontIsReturned

\* The actions that leave the stack alone.
Configures ==
    \/ InitContext
    \/ \E k \in Keys : DeregisterHandler(k) \/ \E v \in Values : RegisterHandler(k, v)
    \/ SetTmSink
    \/ RejectTc
    \/ RejectTm

LEMMA ConfiguresStack == Configures => UNCHANGED stack
BY DEF Configures, InitContext, DeregisterHandler, RegisterHandler, SetTmSink, RejectTc,
       RejectTm

\* Every step, by what it does to the stack.
LEMMA StepCases ==
    ASSUME [Next]_vars
    PROVE  \/ Configures
           \/ \E k \in Keys : InvokeDirectly(k) \/ \E ack \in AckSets : ProcessTc(k, ack)
           \/ BuildTm \/ ReportOther
           \/ \E kind \in ProgressKinds : EmitProgress(kind) \/ BuildProgress(kind)
           \/ FindHandler \/ EmitAcceptance \/ EmitStart \/ InvokeHandler \/ EmitCompletion
           \/ StampHeader \/ FinishPacket
           \/ ReturnFromProcess \/ ReturnFromPacket
           \/ \E d \in 1 .. Len(stack) : ReturnFromCallback(d)
           \/ UNCHANGED vars
BY DEF Next, LibraryStep, ApplicationStep, Configures, ProgressKinds

----------------------------------------------------------------------------
(* Types *)

LEMMA StackType == ASSUME TypeOK, [Next]_vars PROVE stack' \in Seq(Frames)
<1>1. CASE Configures \/ UNCHANGED vars
  BY <1>1, ConfiguresStack DEF TypeOK, vars
<1>2. CASE \E k \in Keys : InvokeDirectly(k) \/ \E ack \in AckSets : ProcessTc(k, ack)
  BY <1>2, InvokeDirectlyStack, ProcessTcStack DEF Entered, TypeOK
<1>3. CASE BuildTm \/ ReportOther
  BY <1>3, BuildTmStack DEF Entered
<1>4. CASE \E kind \in ProgressKinds : EmitProgress(kind) \/ BuildProgress(kind)
  BY <1>4, ProgressStack DEF Entered
<1>5. CASE FindHandler
  BY <1>5, FindHandlerStack DEF Stepped
<1>6. CASE EmitAcceptance
  BY <1>6, EmitAcceptanceStack DEF Stepped
<1>7. CASE EmitStart
  BY <1>7, EmitStartStack DEF Stepped
<1>8. CASE InvokeHandler
  BY <1>8, InvokeHandlerStack DEF Stepped
<1>9. CASE EmitCompletion
  BY <1>9, EmitCompletionStack DEF Stepped
<1>10. CASE StampHeader
  BY <1>10, StampHeaderStack DEF Stepped
<1>11. CASE FinishPacket
  BY <1>11, FinishPacketStack DEF Stepped
<1>12. CASE ReturnFromProcess \/ ReturnFromPacket
            \/ \E d \in 1 .. Len(stack) : ReturnFromCallback(d)
  BY <1>12, ReturnStack DEF Returned
<1> QED BY StepCases, <1>1, <1>2, <1>3, <1>4, <1>5, <1>6, <1>7, <1>8, <1>9, <1>10, <1>11, <1>12

LEMMA InitTypeOK == Init => TypeOK
<1> SUFFICES ASSUME Init PROVE TypeOK
  OBVIOUS
<1>1. stack \in Seq(Frames) /\ table \in Tables
  BY EmptyTableFacts DEF Init
<1>2. counter \in 0 .. MaxCounter
  BY BoundsAssumption DEF Init
<1>3. sink \in BOOLEAN /\ clock \in BOOLEAN
  BY DEF Init
<1>4. /\ tc \in [Requests -> [key : Keys, ack : SUBSET Flags] \cup {NoTc}]
      /\ reports \in [Requests -> Seq(Kinds)]
  BY DEF Init
<1>5. ret \in Statuses /\ lastSeq \in 0 .. MaxCounter \cup {NoSeq}
  BY DEF Init, Statuses
<1> QED BY <1>1, <1>2, <1>3, <1>4, <1>5 DEF TypeOK

LEMMA StepTypeOK == TypeOK /\ [Next]_vars => TypeOK'
<1> SUFFICES ASSUME TypeOK, [Next]_vars PROVE TypeOK'
  OBVIOUS
<1>0. stack' \in Seq(Frames)
  BY StackType
<1>1. CASE Configures
  <2>1. CASE InitContext
    <3>1. table' \in Tables /\ counter' \in 0 .. MaxCounter
      BY <2>1, EmptyTableFacts, BoundsAssumption DEF InitContext
    <3>2. sink' \in BOOLEAN /\ clock' \in BOOLEAN
      BY <2>1 DEF InitContext
    <3>3. ret' \in Statuses /\ lastSeq' \in 0 .. MaxCounter \cup {NoSeq}
      BY <2>1 DEF InitContext, Statuses
    <3>4. UNCHANGED <<tc, reports>>
      BY <2>1 DEF InitContext
    <3> QED BY <1>0, <3>1, <3>2, <3>3, <3>4 DEF TypeOK
  <2>2. ASSUME NEW k \in Keys, NEW v \in Values, RegisterHandler(k, v) PROVE TypeOK'
    <3>1. table' \in Tables
      <4>1. CanStore(table, k) => Store(table, k, v) \in Tables
        BY StoreWrites DEF TypeOK
      <4> QED BY <2>2, <4>1 DEF RegisterHandler, TypeOK
    <3>2. ret' \in Statuses
      BY <2>2 DEF RegisterHandler, Statuses
    <3> QED BY <1>0, <2>2, <3>1, <3>2 DEF RegisterHandler, TypeOK, history
  <2>3. ASSUME NEW k \in Keys, DeregisterHandler(k) PROVE TypeOK'
    <3>1. table' \in Tables /\ ret' \in Statuses
      BY <2>3, ClearRemoves DEF DeregisterHandler, TypeOK, Statuses
    <3> QED BY <1>0, <2>3, <3>1 DEF DeregisterHandler, TypeOK, history
  <2>4. CASE SetTmSink \/ RejectTc \/ RejectTm
    BY <1>0, <2>4 DEF SetTmSink, RejectTc, RejectTm, TypeOK, history, ctxVars, Statuses
  <2> QED BY <1>1, <2>1, <2>2, <2>3, <2>4 DEF Configures
<1>2. ASSUME NEW k \in Keys, NEW ack \in AckSets, ProcessTc(k, ack) PROVE TypeOK'
  <2>1. tc' \in [Requests -> [key : Keys, ack : SUBSET Flags] \cup {NoTc}]
    BY <1>2, AckSetsAssumption DEF ProcessTc, TypeOK
  <2> QED BY <1>0, <1>2, <2>1 DEF ProcessTc, TypeOK, ctxVars, Statuses
<1>3. CASE FinishPacket
  <2>1. stack # <<>> /\ stack \in Seq(Frames)
    BY <1>3 DEF FinishPacket, At, TypeOK
  <2>2. Top.req \in Requests \cup {NoReq} /\ Top.kind \in Kinds /\ Top.seq \in 0 .. MaxCounter
    BY <2>1, TopResult DEF Frames
  <2>3. reports' \in [Requests -> Seq(Kinds)]
    <3>1. CASE Top.req = NoReq
      BY <1>3, <3>1 DEF FinishPacket, TypeOK
    <3>2. CASE Top.req \in Requests
      <4>1. Append(reports[Top.req], Top.kind) \in Seq(Kinds)
        BY <2>2, <3>2 DEF TypeOK
      <4> QED BY <1>3, <3>1, <3>2, <4>1 DEF FinishPacket, TypeOK
    <3> QED BY <2>2, <3>1, <3>2
  <2>4. counter' \in 0 .. MaxCounter
    BY <1>3, BoundsAssumption DEF FinishPacket, TypeOK, Incr
  <2> QED BY <1>0, <1>3, <2>2, <2>3, <2>4 DEF FinishPacket, TypeOK, Statuses
<1>4. CASE ReturnFromProcess \/ ReturnFromPacket
           \/ \E d \in 1 .. Len(stack) : ReturnFromCallback(d)
  <2>1. stack # <<>> /\ Top.st \in Statuses
    BY <1>4, ReturnStack, TopResult DEF Frames, TypeOK
  <2>2. ret' \in Statuses
    BY <1>4, <2>1, AppStatusesAssumption
    DEF ReturnFromProcess, ReturnFromPacket, ReturnFromCallback, Return, TypeOK
  <2> QED BY <1>0, <1>4, <2>2
          DEF ReturnFromProcess, ReturnFromPacket, ReturnFromCallback, TypeOK, ctxVars, history
<1>5. CASE \/ FindHandler \/ EmitAcceptance \/ EmitStart \/ InvokeHandler
           \/ EmitCompletion \/ StampHeader
           \/ BuildTm \/ ReportOther
           \/ \E kind \in ProgressKinds : EmitProgress(kind) \/ BuildProgress(kind)
           \/ \E k \in Keys : InvokeDirectly(k)
  <2>1. ret' \in Statuses /\ UNCHANGED <<ctxVars, history>>
    BY <1>5 DEF FindHandler, EmitAcceptance, EmitStart, InvokeHandler, EmitCompletion,
                StampHeader, BuildTm, ReportOther, EmitProgress, BuildProgress, InvokeDirectly, Statuses
  <2> QED BY <1>0, <2>1 DEF TypeOK, ctxVars, history
<1>6. CASE UNCHANGED vars
  BY <1>6 DEF vars, ctxVars, history, TypeOK
<1> QED BY StepCases, <1>1, <1>2, <1>3, <1>4, <1>5, <1>6

\* Every variable keeps its type; in particular the message counter stays in its
\* range over the wrap, and every frame holds a slot index or -1.
THEOREM TypeCorrect == Spec => []TypeOK
BY InitTypeOK, StepTypeOK, PTL DEF Spec

----------------------------------------------------------------------------
(* Nesting.  Which frames can lie above a frame at a point of P: only ones *)
(* at a point of A.  When control is elsewhere, no frame is at P.          *)

OnlyAbove(P, A) ==
    \A i \in 1 .. Len(stack) : stack[i].pc \in P =>
        \A j \in i + 1 .. Len(stack) : stack[j].pc \in A

NoneAt(P) == \A i \in 1 .. Len(stack) : stack[i].pc \notin P

LEMMA TopElsewhere ==
    ASSUME stack \in Seq(Frames), NEW P, NEW A, OnlyAbove(P, A),
           stack # <<>> => Top.pc \notin P \cup A
    PROVE  NoneAt(P)
<1>1. SUFFICES ASSUME NEW i \in 1 .. Len(stack), stack[i].pc \in P PROVE FALSE
  BY DEF NoneAt
<1>2. stack # <<>> /\ Top = stack[Len(stack)] /\ Len(stack) \in Nat \ {0}
  BY <1>1, TopResult
<1>3. i = Len(stack) \/ Len(stack) \in i + 1 .. Len(stack)
  BY <1>2
<1> QED BY <1>1, <1>2, <1>3 DEF OnlyAbove

LEMMA NoneBelowTop ==
    ASSUME stack \in Seq(Frames), stack # <<>>, NEW P, NEW A, OnlyAbove(P, A),
           Top.pc \notin A
    PROVE  \A i \in 1 .. Len(stack) - 1 : stack[i].pc \notin P
<1>1. Top = stack[Len(stack)] /\ Len(stack) \in Nat \ {0}
  BY TopResult
<1> QED BY <1>1 DEF OnlyAbove

\* Application code runs in the context it is in.
LEMMA AppCallsTop ==
    ASSUME NEW call, AppCalls(call)
    PROVE  /\ stack # <<>> => Top.pc \in AppContexts /\ call \in MayCall[Top.pc]
           /\ AppContext \in AppContexts
BY DEF AppCalls, AppContext

----------------------------------------------------------------------------
(* The message counter *)

\* While a packet is between the copy of the counter and its increment, only
\* the time source runs, and the copy is still the counter.
CountInv ==
    /\ CounterFollowsLastPacket
    /\ OnlyAbove({"count"}, {"clock"})
    /\ \A i \in 1 .. Len(stack) : stack[i].pc = "count" => stack[i].seq = counter

LEMMA SilentCalls ==
    ASSUME SilentClock, stack \in Seq(Frames), OnlyAbove({"count"}, {"clock"}),
           NEW call \in {"pus_init", "pus_tc_process", "pus_handler_invoke", "pus_tm_build",
                         "pus_service_1_emit", "pus_service_1_build"},
           AppCalls(call)
    PROVE  NoneAt({"count"})
<1>1. stack # <<>> => Top.pc \in AppContexts /\ Top.pc # "clock"
  BY AppCallsTop DEF SilentClock
<1>2. stack # <<>> => Top.pc \notin {"count"} \cup {"clock"}
  BY <1>1 DEF AppContexts
<1> QED BY <1>2, TopElsewhere

LEMMA StepCountInv ==
    ASSUME SilentClock, TypeOK, CountInv, [Next]_vars
    PROVE  CountInv'
<1>0. stack \in Seq(Frames) /\ OnlyAbove({"count"}, {"clock"})
  BY DEF TypeOK, CountInv
<1>a. ASSUME NoneAt({"count"})' PROVE CountInv' <=> CounterFollowsLastPacket'
  BY <1>a DEF NoneAt, CountInv, OnlyAbove
<1>1. CASE Configures
  <2>1. CASE InitContext
    <3>1. NoneAt({"count"}) /\ UNCHANGED stack /\ lastSeq' = NoSeq /\ counter' = 0
      BY <1>0, <2>1, SilentCalls DEF InitContext
    <3> QED BY <3>1, <1>a DEF NoneAt, CounterFollowsLastPacket
  <2>2. CASE ~InitContext
    <3>1. UNCHANGED <<stack, counter, lastSeq>>
      BY <1>1, <2>2 DEF Configures, RegisterHandler, DeregisterHandler, SetTmSink, RejectTc,
                        RejectTm, ctxVars, history
    <3> QED BY <3>1 DEF CountInv, CounterFollowsLastPacket, OnlyAbove
  <2> QED BY <2>1, <2>2
<1>2. CASE \/ \E k \in Keys : InvokeDirectly(k) \/ \E ack \in AckSets : ProcessTc(k, ack)
           \/ BuildTm \/ ReportOther
           \/ \E kind \in ProgressKinds : EmitProgress(kind) \/ BuildProgress(kind)
  <2>1. NoneAt({"count"})
    BY <1>0, <1>2, SilentCalls
    DEF InvokeDirectly, ProcessTc, BuildTm, ReportOther, EmitProgress, BuildProgress, AppEnters
  <2>2. UNCHANGED stack \/ Entered({"find", "stamp", "handler"})
    BY <1>2, InvokeDirectlyStack, ProcessTcStack, BuildTmStack, ProgressStack DEF Entered
  <2>3. NoneAt({"count"})'
    BY <1>0, <2>1, <2>2 DEF NoneAt, Entered
  <2>4. UNCHANGED <<counter, lastSeq>>
    BY <1>2 DEF InvokeDirectly, ProcessTc, BuildTm, ReportOther, EmitProgress, BuildProgress, ctxVars, history
  <2> QED BY <1>a, <2>3, <2>4 DEF CountInv, CounterFollowsLastPacket
<1>3. CASE FindHandler \/ EmitAcceptance \/ EmitStart \/ InvokeHandler \/ EmitCompletion
  <2>1. stack # <<>> /\ Top.pc \notin {"count", "clock"}
    BY <1>3 DEF FindHandler, EmitAcceptance, EmitStart, InvokeHandler, EmitCompletion, At
  <2>2. NoneAt({"count"})
    BY <1>0, <2>1, TopElsewhere
  <2>3. PICK f \in Frames : Stepped(f, {"stamp", "handler"}) /\ f.pc # "count"
    BY <1>3, FindHandlerStack, EmitAcceptanceStack, EmitStartStack, InvokeHandlerStack,
       EmitCompletionStack, SteppedWeaken
  <2>4. NoneAt({"count"})'
    BY <1>0, <2>2, <2>3 DEF NoneAt, Stepped
  <2>5. UNCHANGED <<counter, lastSeq>>
    BY <1>3 DEF FindHandler, EmitAcceptance, EmitStart, InvokeHandler, EmitCompletion,
                ctxVars, history
  <2> QED BY <1>a, <2>4, <2>5 DEF CountInv, CounterFollowsLastPacket
<1>4. CASE StampHeader
  <2>1. stack # <<>> /\ Top.pc \notin {"count", "clock"}
    BY <1>4 DEF StampHeader, At
  <2>2. NoneAt({"count"})
    BY <1>0, <2>1, TopElsewhere
  <2>3. PICK f \in Frames : Stepped(f, {"clock"}) /\ f.pc = "count" /\ f.seq = counter
    BY <1>4, StampHeaderStack
  <2>4. UNCHANGED <<counter, lastSeq>>
    BY <1>4 DEF StampHeader, ctxVars, history
  <2>5. \A i \in 1 .. Len(stack') : stack'[i].pc = "count" => i = Len(stack)
    BY <2>2, <2>3 DEF NoneAt, Stepped
  <2>6. OnlyAbove({"count"}, {"clock"})'
    BY <2>3, <2>5 DEF OnlyAbove, Stepped
  <2>7. \A i \in 1 .. Len(stack') : stack'[i].pc = "count" => stack'[i].seq = counter'
    BY <2>3, <2>4, <2>5 DEF Stepped
  <2> QED BY <2>4, <2>6, <2>7 DEF CountInv, CounterFollowsLastPacket
<1>5. CASE FinishPacket
  <2>1. stack # <<>> /\ Top.pc = "count"
    BY <1>5 DEF FinishPacket, At
  <2>2. Top = stack[Len(stack)] /\ Len(stack) \in Nat \ {0}
    BY <1>0, <2>1, TopResult
  <2>3. Top.seq = counter
    BY <2>1, <2>2 DEF CountInv
  <2>4. \A i \in 1 .. Len(stack) - 1 : stack[i].pc # "count"
    BY <1>0, <2>1, NoneBelowTop
  <2>5. PICK f \in Frames : Stepped(f, {"sink"}) /\ f.pc = "sent"
    BY <1>5, FinishPacketStack
  <2>6. NoneAt({"count"})'
    BY <2>4, <2>5 DEF NoneAt, Stepped
  <2>7. lastSeq' = counter /\ counter' = Incr(counter) /\ lastSeq' # NoSeq
    BY <1>5, <2>3, BoundsAssumption DEF FinishPacket, TypeOK, NoSeq
  <2> QED BY <1>a, <2>6, <2>7 DEF CounterFollowsLastPacket, Incr
<1>6. CASE ReturnFromProcess \/ ReturnFromPacket
           \/ \E d \in 1 .. Len(stack) : ReturnFromCallback(d)
  <2>1. Returned /\ Len(stack) \in Nat \ {0}
    BY <1>0, <1>6, ReturnStack, TopResult
  <2>2. UNCHANGED <<counter, lastSeq>>
    BY <1>6 DEF ReturnFromProcess, ReturnFromPacket, ReturnFromCallback, ctxVars, history
  <2> QED BY <2>1, <2>2 DEF CountInv, CounterFollowsLastPacket, OnlyAbove, Returned
<1>7. CASE UNCHANGED vars
  BY <1>7 DEF vars, ctxVars, history, CountInv, CounterFollowsLastPacket, OnlyAbove
<1> QED BY StepCases, <1>1, <1>2, <1>3, <1>4, <1>5, <1>6, <1>7

LEMMA InitCountInv == Init => CountInv
BY DEF Init, CountInv, CounterFollowsLastPacket, OnlyAbove

\* If the time source builds no packets and does not reset the context, packets
\* are numbered without gap or repetition, whatever handlers and sinks do
\* (pus_tm_hdr_fill copies the counter, pus_tm_build and build_report
\* increment it later).
THEOREM PacketsAreNumbered == SilentClock => (Spec => []CounterFollowsLastPacket)
<1>1. ASSUME SilentClock PROVE TypeOK /\ CountInv /\ [Next]_vars => (TypeOK /\ CountInv)'
  BY <1>1, StepTypeOK, StepCountInv
<1>2. Init => TypeOK /\ CountInv
  BY InitTypeOK, InitCountInv
<1>3. CountInv => CounterFollowsLastPacket
  BY DEF CountInv
<1>4. ASSUME SilentClock PROVE Spec => []CounterFollowsLastPacket
  <2>1. TypeOK /\ CountInv /\ [Next]_vars => (TypeOK /\ CountInv)'
    BY <1>1, <1>4
  <2> QED BY <1>2, <1>3, <2>1, PTL DEF Spec
<1> QED BY <1>4

----------------------------------------------------------------------------
(* Routing *)

PreDispatch == {"acceptance", "start", "invoke"}
Interrupts == PacketPcs \cup {"sink", "clock"}

\* Between the search and the call only packets, the sink and the time source
\* run, and the entry found stays used and stays under the telecommand's key.
\* The table has one entry per key, so a search would still find that one.
RouteInv ==
    /\ NoDuplicates(table)
    /\ OnlyAbove(PreDispatch, Interrupts)
    /\ \A i \in 1 .. Len(stack) :
          stack[i].pc \in PreDispatch => stack[i].idx \in Holding(table, tc[stack[i].req].key)

LEMMA UnheldRoute ==
    ASSUME NoneAt(PreDispatch)', NoDuplicates(table)'
    PROVE  RouteInv'
BY DEF NoneAt, RouteInv, OnlyAbove

LEMMA DisruptiveCalls ==
    ASSUME QuietCallbacks, TypeOK, OnlyAbove(PreDispatch, Interrupts),
           NEW call \in {"pus_init", "deregister", "pus_tc_process", "pus_handler_invoke"},
           AppCalls(call)
    PROVE  NoneAt(PreDispatch)
<1>1. stack # <<>> => Top.pc \in AppContexts /\ Top.pc \notin {"sink", "clock"}
  BY AppCallsTop DEF QuietCallbacks
<1>2. stack # <<>> => Top.pc \notin PreDispatch \cup Interrupts
  BY <1>1 DEF AppContexts, PreDispatch, Interrupts, PacketPcs
<1> QED BY <1>2, TopElsewhere DEF TypeOK

\* A step of pus_tc_process: nothing below it is before its dispatch.
LEMMA ProcessRoute ==
    ASSUME TypeOK, RouteInv, stack # <<>>, Top.pc \notin Interrupts, UNCHANGED <<table, tc>>,
           NEW f \in Frames, NEW g, Stepped(f, {g}), g \notin PreDispatch,
           f.pc \in PreDispatch =>
               g \in Interrupts /\ f.idx \in Holding(table, tc[f.req].key)
    PROVE  RouteInv'
<1>1. Len(stack) \in Nat \ {0}
  BY DEF Stepped
<1>2. \A i \in 1 .. Len(stack) - 1 : stack[i].pc \notin PreDispatch
  BY NoneBelowTop DEF TypeOK, RouteInv
<1>3. \A i \in 1 .. Len(stack') : stack'[i].pc \in PreDispatch => i = Len(stack)
  BY <1>1, <1>2 DEF Stepped
<1>4. OnlyAbove(PreDispatch, Interrupts)'
  BY <1>1, <1>3 DEF OnlyAbove, Stepped
<1>5. \A i \in 1 .. Len(stack') :
          stack'[i].pc \in PreDispatch => stack'[i].idx \in Holding(table', tc'[stack'[i].req].key)
  BY <1>1, <1>3 DEF Stepped
<1> QED BY <1>4, <1>5 DEF RouteInv

\* A step of a packet builder, or a new packet: the frames before their dispatch
\* stay where they were.
LEMMA InterruptRoute ==
    ASSUME TypeOK, RouteInv, UNCHANGED <<table, tc>>,
           \/ Entered({"stamp"})
           \/ \E f \in Frames : \E g \in Interrupts :
                 /\ Top.pc \in Interrupts /\ stack # <<>>
                 /\ f.pc \in Interrupts /\ Stepped(f, {g})
           \/ Returned
    PROVE  RouteInv'
<1>1. stack \in Seq(Frames) /\ Len(stack) \in Nat
  BY DEF TypeOK
<1>a. PreDispatch \cap Interrupts = {} /\ "stamp" \in Interrupts
  BY DEF PreDispatch, Interrupts, PacketPcs
<1>2. /\ \A i \in 1 .. Len(stack') :
            stack'[i].pc \in Interrupts \/ (i \in 1 .. Len(stack) /\ stack'[i] = stack[i])
      /\ Len(stack') \in Nat
  <2>1. CASE Entered({"stamp"})
    BY <1>1, <1>a, <2>1 DEF Entered
  <2>2. CASE \E f \in Frames : \E g \in Interrupts :
                 /\ Top.pc \in Interrupts /\ stack # <<>>
                 /\ f.pc \in Interrupts /\ Stepped(f, {g})
    BY <1>1, <2>2 DEF Stepped
  <2>3. CASE Returned
    BY <1>1, <2>3, EmptySeq, LenProperties DEF Returned
  <2> QED BY <2>1, <2>2, <2>3
<1>3. OnlyAbove(PreDispatch, Interrupts)'
  <2>1. SUFFICES ASSUME NEW i \in 1 .. Len(stack'), stack'[i].pc \in PreDispatch,
                        NEW j \in i + 1 .. Len(stack')
                 PROVE  stack'[j].pc \in Interrupts
    BY DEF OnlyAbove
  <2>2. i \in 1 .. Len(stack) /\ stack'[i] = stack[i]
    BY <1>2, <1>a, <2>1
  <2>3. j \in 1 .. Len(stack')
    BY <1>2
  <2>4. CASE j \in 1 .. Len(stack) /\ stack'[j] = stack[j]
    <3>1. j \in i + 1 .. Len(stack)
      BY <2>4
    <3> QED BY <2>1, <2>2, <2>4, <3>1 DEF RouteInv, OnlyAbove
  <2> QED BY <1>2, <2>3, <2>4
<1>4. \A i \in 1 .. Len(stack') :
          stack'[i].pc \in PreDispatch => stack'[i].idx \in Holding(table', tc'[stack'[i].req].key)
  BY <1>2, <1>a DEF RouteInv
<1> QED BY <1>3, <1>4 DEF RouteInv

LEMMA StepRouteInv ==
    ASSUME QuietCallbacks, TypeOK, RouteInv, [Next]_vars
    PROVE  RouteInv'
<1>0. /\ stack \in Seq(Frames) /\ OnlyAbove(PreDispatch, Interrupts)
      /\ table \in Tables /\ NoDuplicates(table)
  BY DEF TypeOK, RouteInv
<1>a. PreDispatch \cap (Interrupts \cup {"find", "handler", "completion", "return", "refused"}) = {}
  BY DEF PreDispatch, Interrupts, PacketPcs
<1>1. CASE Configures
  <2>1. CASE InitContext
    <3>1. NoneAt(PreDispatch) /\ UNCHANGED stack /\ NoDuplicates(table')
      BY <1>0, <2>1, DisruptiveCalls, EmptyTableFacts DEF InitContext
    <3> QED BY <3>1, UnheldRoute DEF NoneAt
  <2>2. ASSUME NEW k \in Keys, DeregisterHandler(k) PROVE RouteInv'
    <3>1. NoneAt(PreDispatch) /\ UNCHANGED stack
      BY <1>0, <2>2, DisruptiveCalls DEF DeregisterHandler
    <3>2. NoDuplicates(table')
      BY <1>0, <2>2, ClearKeepsNoDuplicates DEF DeregisterHandler
    <3> QED BY <3>1, <3>2, UnheldRoute DEF NoneAt
  <2>3. ASSUME NEW k \in Keys, NEW v \in Values, RegisterHandler(k, v) PROVE RouteInv'
    <3>1. UNCHANGED <<stack, tc>>
      BY <2>3 DEF RegisterHandler, history
    <3>2. NoDuplicates(table')
      BY <1>0, <2>3, StoreKeepsNoDuplicates DEF RegisterHandler
    <3>3. \A i \in UsedSlots(table) : i \in UsedSlots(table') /\ table'[i].key = table[i].key
      BY <1>0, <2>3, StoreKeepsEntries DEF RegisterHandler
    <3>4. \A kk : Holding(table, kk) \subseteq Holding(table', kk)
      BY <3>3 DEF Holding
    <3> QED BY <3>1, <3>2, <3>4 DEF RouteInv, OnlyAbove
  <2>4. CASE SetTmSink \/ RejectTc \/ RejectTm
    <3>1. UNCHANGED <<stack, table, tc>>
      BY <2>4 DEF SetTmSink, RejectTc, RejectTm, ctxVars, history
    <3> QED BY <3>1 DEF RouteInv, OnlyAbove
  <2> QED BY <1>1, <2>1, <2>2, <2>3, <2>4 DEF Configures
<1>2. CASE \E k \in Keys : InvokeDirectly(k) \/ \E ack \in AckSets : ProcessTc(k, ack)
  <2>1. NoneAt(PreDispatch)
    BY <1>0, <1>2, DisruptiveCalls DEF InvokeDirectly, ProcessTc, AppEnters
  <2>2. UNCHANGED stack \/ Entered({"find", "handler"})
    BY <1>2, InvokeDirectlyStack, ProcessTcStack DEF Entered
  <2>3. NoneAt(PreDispatch)'
    BY <1>0, <1>a, <2>1, <2>2 DEF NoneAt, Entered
  <2>4. UNCHANGED table
    BY <1>2 DEF InvokeDirectly, ProcessTc, ctxVars
  <2> QED BY <1>0, <2>3, <2>4, UnheldRoute
<1>3. CASE \/ BuildTm \/ ReportOther
           \/ \E kind \in ProgressKinds : EmitProgress(kind) \/ BuildProgress(kind)
  <2>1. Entered({"stamp"})
    BY <1>3, BuildTmStack, ProgressStack
  <2>2. UNCHANGED <<table, tc>>
    BY <1>3 DEF BuildTm, ReportOther, EmitProgress, BuildProgress, ctxVars, history
  <2> QED BY <2>1, <2>2, InterruptRoute
<1>4. CASE FindHandler \/ EmitAcceptance \/ EmitStart \/ InvokeHandler \/ EmitCompletion
  <2>1. /\ stack # <<>> /\ Top.pc \notin Interrupts
        /\ EmitAcceptance \/ EmitStart => Top.pc \in PreDispatch
        /\ Top = stack[Len(stack)] /\ Len(stack) \in Nat \ {0}
    BY <1>0, <1>4, TopResult DEF FindHandler, EmitAcceptance, EmitStart, InvokeHandler,
       EmitCompletion, At, Interrupts, PacketPcs, PreDispatch
  <2>2. UNCHANGED <<table, tc>>
    BY <1>4 DEF FindHandler, EmitAcceptance, EmitStart, InvokeHandler, EmitCompletion,
                ctxVars, history
  <2>3. Top.pc \in PreDispatch => Top.idx \in Holding(table, tc[Top.req].key)
    BY <2>1 DEF RouteInv
  <2>4. CASE InvokeHandler
    <3>1. PICK f \in Frames : Stepped(f, {"handler"}) /\ f.pc = "completion"
      BY <2>4, InvokeHandlerStack
    <3> QED BY <1>a, <2>1, <2>2, <3>1, ProcessRoute
  <2>5. CASE FindHandler \/ EmitAcceptance \/ EmitStart \/ EmitCompletion
    <3>1. PICK f \in Frames :
              /\ Stepped(f, {"stamp"})
              /\ f.pc \in PreDispatch => f.idx \in Holding(table, tc[f.req].key)
      <4>1. CASE FindHandler
        BY <1>a, <4>1, FindHandlerStack
      <4>2. CASE EmitAcceptance
        BY <2>1, <2>3, <4>2, EmitAcceptanceStack
      <4>3. CASE EmitStart
        BY <2>1, <2>3, <4>3, EmitStartStack
      <4>4. CASE EmitCompletion
        BY <1>a, <4>4, EmitCompletionStack
      <4> QED BY <2>5, <4>1, <4>2, <4>3, <4>4
    <3>2. "stamp" \in Interrupts
      BY DEF Interrupts, PacketPcs
    <3> QED BY <1>a, <2>1, <2>2, <3>1, <3>2, ProcessRoute
  <2> QED BY <1>4, <2>4, <2>5
<1>5. CASE StampHeader \/ FinishPacket
  <2>1. stack # <<>> /\ Top.pc \in Interrupts
    BY <1>5 DEF StampHeader, FinishPacket, At, Interrupts, PacketPcs
  <2>2. \E f \in Frames : \E g \in Interrupts : f.pc \in Interrupts /\ Stepped(f, {g})
    BY <1>5, StampHeaderStack, FinishPacketStack DEF Interrupts, PacketPcs
  <2>3. UNCHANGED <<table, tc>>
    BY <1>5 DEF StampHeader, FinishPacket, ctxVars, history
  <2> QED BY <2>1, <2>2, <2>3, InterruptRoute
<1>6. CASE ReturnFromProcess \/ ReturnFromPacket
           \/ \E d \in 1 .. Len(stack) : ReturnFromCallback(d)
  <2>1. Returned
    BY <1>6, ReturnStack
  <2>2. UNCHANGED <<table, tc>>
    BY <1>6 DEF ReturnFromProcess, ReturnFromPacket, ReturnFromCallback, ctxVars, history
  <2> QED BY <2>1, <2>2, InterruptRoute
<1>7. CASE UNCHANGED vars
  BY <1>7 DEF vars, ctxVars, history, RouteInv, OnlyAbove
<1> QED BY StepCases, <1>1, <1>2, <1>3, <1>4, <1>5, <1>6, <1>7

LEMMA InitRouteInv == Init => RouteInv
BY EmptyTableFacts DEF Init, RouteInv, OnlyAbove

LEMMA RouteInvRoutes == RouteInv => RoutingStaysValid
BY FindIsTheHolder DEF RouteInv, RoutingStaysValid, PreDispatch

\* If the sink and the time source neither reset the context, deregister nor
\* process telecommands, pus_tc_process calls the handler that is registered
\* for its telecommand at that moment, whatever they register and whatever
\* the handlers do.
THEOREM RoutingIsStable == QuietCallbacks => (Spec => []RoutingStaysValid)
<1>1. ASSUME QuietCallbacks PROVE Spec => []RoutingStaysValid
  <2>1. TypeOK /\ RouteInv /\ [Next]_vars => (TypeOK /\ RouteInv)'
    BY <1>1, StepTypeOK, StepRouteInv
  <2>2. Init => TypeOK /\ RouteInv
    BY InitTypeOK, InitRouteInv
  <2> QED BY <2>1, <2>2, RouteInvRoutes, PTL DEF Spec
<1> QED BY <1>1

----------------------------------------------------------------------------
(* The frames a step leaves on the stack *)

Replaced(f) ==
    /\ stack' \in Seq(Frames)
    /\ Len(stack) \in Nat \ {0}
    /\ Len(stack') = Len(stack)
    /\ \A i \in 1 .. Len(stack) - 1 : stack'[i] = stack[i]
    /\ stack'[Len(stack)] = f

ReplacedBelow(f, g) ==
    /\ stack' \in Seq(Frames)
    /\ Len(stack) \in Nat \ {0}
    /\ Len(stack') = Len(stack) + 1
    /\ \A i \in 1 .. Len(stack) - 1 : stack'[i] = stack[i]
    /\ stack'[Len(stack)] = f
    /\ stack'[Len(stack) + 1] = g

Pushed(g) ==
    /\ stack' \in Seq(Frames)
    /\ Len(stack) \in Nat
    /\ Len(stack') = Len(stack) + 1
    /\ \A i \in 1 .. Len(stack) : stack'[i] = stack[i]
    /\ stack'[Len(stack) + 1] = g

LEMMA ResumeReplaces ==
    ASSUME stack \in Seq(Frames), stack # <<>>, NEW f \in Frames, stack' = Resume(f)
    PROVE  Replaced(f)
<1>1. /\ stack' \in Seq(Frames)
      /\ Len(stack') = Len(stack)
      /\ stack'[Len(stack)] = f
      /\ \A i \in 1 .. Len(stack) - 1 : stack'[i] = stack[i]
  BY ResumeResult
<1>2. Len(stack) \in Nat \ {0}
  BY TopResult
<1> QED BY <1>1, <1>2 DEF Replaced

LEMMA ResumeAndEnterReplaces ==
    ASSUME stack \in Seq(Frames), stack # <<>>, NEW f \in Frames, NEW g \in Frames,
           stack' = ResumeAndEnter(f, g)
    PROVE  ReplacedBelow(f, g)
<1> DEFINE s == ResumeAndEnter(f, g)
<1>0. /\ s \in Seq(Frames)
      /\ Len(s) = Len(stack) + 1
      /\ s[Len(stack)] = f
      /\ s[Len(stack) + 1] = g
      /\ \A i \in 1 .. Len(stack) - 1 : s[i] = stack[i]
  BY ResumeAndEnterResult
<1>s. stack' = s
  OBVIOUS
<1> HIDE DEF s
<1>1. /\ stack' \in Seq(Frames)
      /\ Len(stack') = Len(stack) + 1
      /\ stack'[Len(stack)] = f
      /\ stack'[Len(stack) + 1] = g
      /\ \A i \in 1 .. Len(stack) - 1 : stack'[i] = stack[i]
  BY <1>0, <1>s
<1>2. Len(stack) \in Nat \ {0}
  BY TopResult
<1> QED BY <1>1, <1>2 DEF ReplacedBelow

LEMMA AppendPushes ==
    ASSUME stack \in Seq(Frames), NEW g \in Frames, stack' = Append(stack, g)
    PROVE  Pushed(g)
<1>1. /\ Append(stack, g) \in Seq(Frames)
      /\ Len(Append(stack, g)) = Len(stack) + 1
      /\ Append(stack, g)[Len(stack) + 1] = g
      /\ \A i \in 1 .. Len(stack) : Append(stack, g)[i] = stack[i]
  BY EnterResult
<1> QED BY <1>1 DEF Pushed

\* A report that the flags ask for is begun above the frame, or there is none.
ReportBegun(flag, kind, f) ==
    IF flag \in tc[Top.req].ack
    THEN \E g \in Frames :
            ReplacedBelow(f, g) /\ g.pc = "stamp" /\ g.req = Top.req /\ g.kind = kind
    ELSE Replaced(f)

LEMMA ReportBegins ==
    ASSUME stack \in Seq(Frames), stack # <<>>, NEW f \in Frames, NEW kind \in Kinds,
           NEW flag, ReportIfAsked(flag, kind, f)
    PROVE  ReportBegun(flag, kind, f)
<1> DEFINE g == Packet(kind, Top.req)
<1>1. g \in Frames /\ g.pc = "stamp" /\ g.req = Top.req /\ g.kind = kind
  BY TopReq, PacketType
<1>2. stack' = IF flag \in tc[Top.req].ack THEN ResumeAndEnter(f, g) ELSE Resume(f)
  BY DEF ReportIfAsked
<1> HIDE DEF g
<1> QED BY <1>1, <1>2, ResumeReplaces, ResumeAndEnterReplaces DEF ReportBegun

LEMMA FindHandlerFrames ==
    ASSUME TypeOK, FindHandler
    PROVE  \E f \in Frames :
               /\ f.req = Top.req
               /\ \/ f.pc = "acceptance" /\ Replaced(f)
                  \/ /\ f.pc = "refused"
                     /\ \E g \in Frames : /\ ReplacedBelow(f, g)
                                          /\ g.pc = "stamp" /\ g.req = Top.req
                                          /\ g.kind = "routing_failure"
<1>1. stack \in Seq(Frames) /\ stack # <<>> /\ Top \in Frames
  BY TopResult DEF FindHandler, At, TypeOK
<1> DEFINE k == tc[Top.req].key
<1>2. CASE Find(table, k) < 0
  <2> DEFINE f0 == [Top EXCEPT !.pc = "refused"]
             f == [f0 EXCEPT !.st = "NO_HANDLER"]
             g == Packet("routing_failure", Top.req)
  <2>1. f0 \in Frames /\ f0.pc = "refused" /\ f0.req = Top.req
    BY <1>1, SetPc DEF Pcs, ProcessPcs
  <2>2. stack' = ResumeAndEnter(f, g)
    BY <1>2 DEF FindHandler
  <2> HIDE DEF f0
  <2>3. f \in Frames /\ f.pc = "refused" /\ f.req = Top.req
    BY <2>1, SetSt DEF Statuses
  <2>4. g \in Frames /\ g.pc = "stamp" /\ g.req = Top.req /\ g.kind = "routing_failure"
    BY <1>1, PacketType DEF Frames, Kinds, Verification
  <2> HIDE DEF f, g
  <2> QED BY <1>1, <2>2, <2>3, <2>4, ResumeAndEnterReplaces
<1>3. CASE ~(Find(table, k) < 0)
  <2> DEFINE f0 == [Top EXCEPT !.pc = "acceptance"]
             f == [f0 EXCEPT !.idx = Find(table, k)]
  <2>1. f0 \in Frames /\ f0.pc = "acceptance" /\ f0.req = Top.req
    BY <1>1, SetPc DEF Pcs, ProcessPcs
  <2>2. stack' = Resume(f)
    BY <1>3 DEF FindHandler
  <2>3. Find(table, k) \in -1 .. MaxEntries - 1
    BY <1>3, FindResult, FindNegative, MaxEntriesAssumption DEF Slots
  <2> HIDE DEF f0
  <2>4. f \in Frames /\ f.pc = "acceptance" /\ f.req = Top.req
    BY <2>1, <2>3, SetIdx
  <2> HIDE DEF f
  <2> QED BY <1>1, <2>2, <2>4, ResumeReplaces
<1> QED BY <1>2, <1>3

LEMMA EmitAcceptanceFrames ==
    ASSUME TypeOK, EmitAcceptance
    PROVE  \E f \in Frames : /\ f.pc = "start" /\ f.req = Top.req
                             /\ ReportBegun("acceptance", "acceptance_success", f)
<1>1. stack \in Seq(Frames) /\ stack # <<>> /\ Top \in Frames
  BY TopResult DEF EmitAcceptance, At, TypeOK
<1> DEFINE f == [Top EXCEPT !.pc = "start"]
<1>2. f \in Frames /\ f.pc = "start" /\ f.req = Top.req
  BY <1>1, SetPc DEF Pcs, ProcessPcs
<1>3. ReportIfAsked("acceptance", "acceptance_success", f)
  BY DEF EmitAcceptance
<1> HIDE DEF f
<1> QED BY <1>1, <1>2, <1>3, ReportBegins DEF Kinds, Verification

LEMMA EmitStartFrames ==
    ASSUME TypeOK, EmitStart
    PROVE  \E f \in Frames : /\ f.pc = "invoke" /\ f.req = Top.req
                             /\ ReportBegun("start", "start_success", f)
<1>1. stack \in Seq(Frames) /\ stack # <<>> /\ Top \in Frames
  BY TopResult DEF EmitStart, At, TypeOK
<1> DEFINE f == [Top EXCEPT !.pc = "invoke"]
<1>2. f \in Frames /\ f.pc = "invoke" /\ f.req = Top.req
  BY <1>1, SetPc DEF Pcs, ProcessPcs
<1>3. ReportIfAsked("start", "start_success", f)
  BY DEF EmitStart
<1> HIDE DEF f
<1> QED BY <1>1, <1>2, <1>3, ReportBegins DEF Kinds, Verification

LEMMA InvokeHandlerFrames ==
    ASSUME TypeOK, InvokeHandler
    PROVE  \E f, g \in Frames : /\ f.pc = "completion" /\ f.req = Top.req
                                /\ ReplacedBelow(f, g)
                                /\ g.pc = "handler" /\ g.req = Top.req
<1>1. stack \in Seq(Frames) /\ stack # <<>> /\ Top \in Frames
  BY TopResult DEF InvokeHandler, At, TypeOK
<1> DEFINE f == [Top EXCEPT !.pc = "completion"]
           g == Frame("handler", Top.req)
<1>2. f \in Frames /\ f.pc = "completion" /\ f.req = Top.req
  BY <1>1, SetPc DEF Pcs, ProcessPcs
<1>3. g \in Frames /\ g.pc = "handler" /\ g.req = Top.req
  BY <1>1, CallbackFrame, TopReq
<1>4. stack' = ResumeAndEnter(f, g)
  BY DEF InvokeHandler
<1> HIDE DEF f, g
<1> QED BY <1>1, <1>2, <1>3, <1>4, ResumeAndEnterReplaces

LEMMA EmitCompletionFrames ==
    ASSUME TypeOK, EmitCompletion
    PROVE  \E f \in Frames :
               /\ f.pc = "return" /\ f.req = Top.req
               /\ ReportBegun("completion",
                              IF f.st = "OK" THEN "completion_success" ELSE "completion_failure",
                              f)
<1>1. stack \in Seq(Frames) /\ stack # <<>> /\ Top \in Frames
  BY TopResult DEF EmitCompletion, At, TypeOK
<1> DEFINE f0 == [Top EXCEPT !.pc = "return"]
           f == [f0 EXCEPT !.st = ret]
           kind == IF ret = "OK" THEN "completion_success" ELSE "completion_failure"
<1>2. f0 \in Frames /\ f0.pc = "return" /\ f0.req = Top.req
  BY <1>1, SetPc DEF Pcs, ProcessPcs
<1>3. ReportIfAsked("completion", kind, f)
  BY DEF EmitCompletion
<1> HIDE DEF f0
<1>4. f \in Frames /\ f.pc = "return" /\ f.req = Top.req /\ f.st = ret
  BY <1>2, SetSt DEF TypeOK
<1>5. kind \in Kinds
  BY DEF Kinds, Verification
<1> HIDE DEF f
<1>6. ReportBegun("completion", kind, f)
  BY <1>1, <1>3, <1>4, <1>5, ReportBegins
<1> QED BY <1>4, <1>6

LEMMA StampHeaderFrames ==
    ASSUME TypeOK, StampHeader
    PROVE  \E f \in Frames :
               /\ f.pc = "count" /\ f.req = Top.req /\ f.kind = Top.kind
               /\ Replaced(f) \/ \E g \in Frames : ReplacedBelow(f, g) /\ g.pc = "clock"
<1>1. stack \in Seq(Frames) /\ stack # <<>> /\ Top \in Frames
  BY TopResult DEF StampHeader, At, TypeOK
<1> DEFINE f0 == [Top EXCEPT !.pc = "count"]
           f == [f0 EXCEPT !.seq = counter]
           g == Frame("clock", Top.req)
<1>2. f0 \in Frames /\ f0.pc = "count" /\ f0.req = Top.req /\ f0.kind = Top.kind
  BY <1>1, SetPc DEF Pcs, PacketPcs
<1>3. g \in Frames /\ g.pc = "clock"
  BY <1>1, CallbackFrame, TopReq
<1>4. stack' = IF clock THEN ResumeAndEnter(f, g) ELSE Resume(f)
  BY DEF StampHeader
<1> HIDE DEF f0, g
<1>5. f \in Frames /\ f.pc = "count" /\ f.req = Top.req /\ f.kind = Top.kind
  BY <1>2 DEF TypeOK, Frames
<1> HIDE DEF f
<1> QED BY <1>1, <1>3, <1>4, <1>5, ResumeReplaces, ResumeAndEnterReplaces

LEMMA FinishPacketFrames ==
    ASSUME TypeOK, FinishPacket
    PROVE  \E f \in Frames :
               /\ f.pc = "sent" /\ f.req = Top.req /\ f.kind = Top.kind
               /\ Replaced(f) \/ \E g \in Frames : ReplacedBelow(f, g) /\ g.pc = "sink"
<1>1. stack \in Seq(Frames) /\ stack # <<>> /\ Top \in Frames
  BY TopResult DEF FinishPacket, At, TypeOK
<1> DEFINE f == [Top EXCEPT !.pc = "sent"]
           g == Frame("sink", Top.req)
<1>2. f \in Frames /\ f.pc = "sent" /\ f.req = Top.req /\ f.kind = Top.kind
  BY <1>1, SetPc DEF Pcs, PacketPcs
<1>3. g \in Frames /\ g.pc = "sink"
  BY <1>1, CallbackFrame, TopReq
<1>4. stack' = IF Top.send /\ sink THEN ResumeAndEnter(f, g) ELSE Resume(f)
  BY DEF FinishPacket
<1> HIDE DEF f, g
<1> QED BY <1>1, <1>2, <1>3, <1>4, ResumeReplaces, ResumeAndEnterReplaces

\* A call that the application makes pushes one frame above application code.
LEMMA AppFrames ==
    ASSUME TypeOK,
           \/ \E k \in Keys : InvokeDirectly(k)
           \/ BuildTm \/ ReportOther
           \/ \E kind \in ProgressKinds : EmitProgress(kind) \/ BuildProgress(kind)
    PROVE  \/ UNCHANGED stack
           \/ \E g \in Frames :
                 /\ Pushed(g)
                 /\ g.pc \in {"handler", "stamp"}
                 /\ \/ g.req = NoReq
                    \/ /\ g.pc = "stamp" /\ g.kind \in ProgressKinds
                       /\ stack # <<>> /\ Top.pc = "handler" /\ Top.req = g.req
<1>0. stack \in Seq(Frames)
  BY DEF TypeOK
<1>1. CASE \E k \in Keys : InvokeDirectly(k)
  <2> DEFINE g == Frame("handler", NoReq)
  <2>1. g \in Frames /\ g.pc = "handler" /\ g.req = NoReq
    BY CallbackFrame
  <2>2. UNCHANGED stack \/ stack' = Append(stack, g)
    BY <1>1 DEF InvokeDirectly
  <2> HIDE DEF g
  <2> QED BY <1>0, <2>1, <2>2, AppendPushes
<1>2. CASE BuildTm \/ ReportOther
  <2> DEFINE g == Packet("telemetry", NoReq)
             h == [g EXCEPT !.send = FALSE]
  <2>1. g \in Frames /\ g.pc = "stamp" /\ g.req = NoReq
    BY PacketType DEF Kinds
  <2>2. stack' = Append(stack, g) \/ stack' = Append(stack, h)
    BY <1>2 DEF BuildTm, ReportOther
  <2> HIDE DEF g
  <2>3. h \in Frames /\ h.pc = "stamp" /\ h.req = NoReq
    BY <2>1, SetSend
  <2> HIDE DEF h
  <2> QED BY <1>0, <2>1, <2>2, <2>3, AppendPushes
<1>3. ASSUME NEW kind \in ProgressKinds, EmitProgress(kind) \/ BuildProgress(kind)
      PROVE  \E g \in Frames :
                 /\ Pushed(g)
                 /\ g.pc = "stamp" /\ g.kind \in ProgressKinds
                 /\ stack # <<>> /\ Top.pc = "handler" /\ Top.req = g.req
  <2> DEFINE g == Packet(kind, Top.req)
             h == [g EXCEPT !.send = FALSE]
  <2>1. stack # <<>> /\ Top.pc = "handler"
    BY <1>3 DEF EmitProgress, BuildProgress, At
  <2>2. kind \in Kinds
    BY DEF ProgressKinds, Kinds, Verification
  <2>3. g \in Frames /\ g.pc = "stamp" /\ g.req = Top.req /\ g.kind = kind
    BY <1>0, <2>1, <2>2, TopReq, PacketType
  <2>4. stack' = Append(stack, g) \/ stack' = Append(stack, h)
    BY <1>3 DEF EmitProgress, BuildProgress
  <2> HIDE DEF g
  <2>5. h \in Frames /\ h.pc = "stamp" /\ h.req = Top.req /\ h.kind = kind
    BY <2>3, SetSend
  <2> HIDE DEF h
  <2> QED BY <1>0, <2>1, <2>3, <2>4, <2>5, AppendPushes
<1> QED BY <1>1, <1>2, <1>3

----------------------------------------------------------------------------
(* The reports of a request, and where the frames that issue them lie *)

CompletionKinds == {"completion_success", "completion_failure"}
Unfinished == {"stamp", "count"}

\* The report that the process frame f builds, if the flags ack ask for it.
Emits(f, kind, ack) ==
    \/ f.pc = "start" /\ "acceptance" \in ack /\ kind = "acceptance_success"
    \/ f.pc = "invoke" /\ "start" \in ack /\ kind = "start_success"
    \/ /\ f.pc = "return" /\ "completion" \in ack
       /\ kind = IF f.st = "OK" THEN "completion_success" ELSE "completion_failure"
    \/ f.pc = "refused" /\ kind = "routing_failure"

\* A packet or a handler that works on a telecommand.
AboutRequest(g) == g.pc \in PacketPcs \cup {"handler"} /\ g.req # NoReq

\* Frame g may lie directly above frame f, whose telecommand has the flags ack.
Lies(f, g, ack) ==
    /\ f.pc \in ProcessPcs =>
          /\ g.req = f.req
          /\ \/ g.pc \in PacketPcs /\ Emits(f, g.kind, ack)
             \/ g.pc = "handler" /\ f.pc = "completion"
    /\ AboutRequest(g) /\ f.pc \notin ProcessPcs =>
          /\ g.pc \in PacketPcs /\ g.kind \in ProgressKinds
          /\ f.pc = "handler" /\ f.req = g.req

\* The reports issued about the telecommand of the process frame f so far; above is
\* the point of the frame above it, where a report may be incomplete.
Issued(f, above, ack, issued) ==
    LET waits == above \in Unfinished IN
    /\ f.pc \in {"find", "acceptance"} => issued = <<>>
    /\ f.pc = "start" => issued = IF waits THEN <<>> ELSE RV!Announced(ack \ {"start"})
    /\ f.pc = "invoke" => issued = RV!Announced(IF waits THEN ack \ {"start"} ELSE ack)
    /\ f.pc = "completion" \/ (f.pc = "return" /\ waits) =>
          \A i \in DOMAIN issued : issued[i] \notin CompletionKinds
    /\ f.pc = "return" /\ ~waits /\ "completion" \in ack =>
          \E i \in DOMAIN issued : Emits(f, issued[i], ack)
    /\ f.pc = "refused" =>
          IF waits THEN issued = <<>> ELSE \E i \in DOMAIN issued : issued[i] = "routing_failure"

Above(s, i) == IF i + 1 \in 1 .. Len(s) THEN s[i + 1].pc ELSE "nothing"

\* Requests are numbered in the order in which they are received.
ReceiveInv ==
    /\ Received = 1 .. Cardinality(Received)
    /\ \A r \in Requests \ Received : reports[r] = <<>>

\* Each request has one frame of pus_tc_process at most; every packet about it is
\* built right above that frame, or right above its handler.
NestInv ==
    /\ \A i \in 1 .. Len(stack) : stack[i].pc \in ProcessPcs => stack[i].req \in Received
    /\ \A i, j \in 1 .. Len(stack) :
          stack[i].pc \in ProcessPcs /\ stack[j].pc \in ProcessPcs /\ stack[i].req = stack[j].req
          => i = j
    /\ \A i \in 1 .. Len(stack) :
          i + 1 \in 1 .. Len(stack) => Lies(stack[i], stack[i + 1], tc[stack[i].req].ack)
    /\ stack # <<>> => ~AboutRequest(stack[1])

IssueInv ==
    \A i \in 1 .. Len(stack) :
        stack[i].pc \in ProcessPcs =>
            Issued(stack[i], Above(stack, i), tc[stack[i].req].ack, reports[stack[i].req])

LEMMA PcsApart ==
    /\ ProcessPcs \cap (PacketPcs \cup {"handler", "sink", "clock"}) = {}
    /\ Unfinished \subseteq PacketPcs
    /\ AppContexts \cap (ProcessPcs \cup PacketPcs) = {}
BY DEF ProcessPcs, PacketPcs, Unfinished, AppContexts

\* Above a frame of pus_tc_process lies a packet or a handler.
LEMMA BelowTop ==
    ASSUME TypeOK, NestInv, NEW i \in 1 .. Len(stack), i + 1 \in 1 .. Len(stack),
           stack[i + 1].pc \notin PacketPcs \cup {"handler"}
    PROVE  stack[i].pc \notin ProcessPcs
BY DEF NestInv, Lies

----------------------------------------------------------------------------
(* Each step keeps requests, packets and reports together *)

\* pus_tc_process goes on.
LEMMA ProcessAdvances ==
    ASSUME TypeOK, NestInv, IssueInv, stack # <<>>, Top.pc \in ProcessPcs,
           UNCHANGED <<tc, reports>>,
           NEW f \in Frames, f.pc \in ProcessPcs, f.req = Top.req,
           \/ Replaced(f) /\ Issued(f, "nothing", tc[f.req].ack, reports[f.req])
           \/ \E g \in Frames :
                 /\ ReplacedBelow(f, g)
                 /\ g.pc \notin ProcessPcs
                 /\ Lies(f, g, tc[f.req].ack)
                 /\ Issued(f, g.pc, tc[f.req].ack, reports[f.req])
    PROVE  NestInv' /\ IssueInv'
<1> DEFINE n == Len(stack)
<1>a. n \in Nat \ {0} /\ Top = stack[n]
  BY TopResult DEF TypeOK
<1>b. /\ stack' \in Seq(Frames) /\ Len(stack') \in {n, n + 1}
      /\ \A i \in 1 .. n - 1 : stack'[i] = stack[i]
      /\ stack'[n] = f
      /\ Len(stack') = n + 1 =>
            /\ stack'[n + 1].pc \notin ProcessPcs
            /\ Lies(f, stack'[n + 1], tc[f.req].ack)
            /\ Issued(f, stack'[n + 1].pc, tc[f.req].ack, reports[f.req])
      /\ Len(stack') = n => Issued(f, "nothing", tc[f.req].ack, reports[f.req])
  <2>1. CASE Replaced(f) /\ Issued(f, "nothing", tc[f.req].ack, reports[f.req])
    BY <1>a, <2>1 DEF Replaced
  <2>2. ASSUME NEW g \in Frames, ReplacedBelow(f, g), g.pc \notin ProcessPcs,
               Lies(f, g, tc[f.req].ack),
               Issued(f, g.pc, tc[f.req].ack, reports[f.req])
        PROVE  /\ stack' \in Seq(Frames) /\ Len(stack') = n + 1
               /\ \A i \in 1 .. n - 1 : stack'[i] = stack[i]
               /\ stack'[n] = f /\ stack'[n + 1] = g
    BY <1>a, <2>2 DEF ReplacedBelow
  <2> QED BY <2>1, <2>2
<1>0. /\ n \in Nat \ {0} /\ Top = stack[n]
      /\ stack' \in Seq(Frames) /\ Len(stack') \in {n, n + 1}
      /\ \A i \in 1 .. n - 1 : stack'[i] = stack[i]
      /\ stack'[n] = f
      /\ Len(stack') = n + 1 => stack'[n + 1].pc \notin ProcessPcs
  BY <1>a, <1>b
<1>1. n - 1 \in 1 .. n => stack[n - 1].pc \notin ProcessPcs
  BY <1>0, BelowTop, PcsApart
<1>2. Received' = Received
  BY DEF Received
<1>3. \A i \in 1 .. Len(stack') :
          stack'[i].pc \in ProcessPcs =>
              /\ i \in 1 .. n /\ stack[i].pc \in ProcessPcs /\ stack'[i].req = stack[i].req
              /\ i = n \/ (i \in 1 .. n - 2 /\ stack'[i] = stack[i])
  <2> SUFFICES ASSUME NEW i \in 1 .. Len(stack'), stack'[i].pc \in ProcessPcs
               PROVE  /\ i \in 1 .. n /\ stack[i].pc \in ProcessPcs /\ stack'[i].req = stack[i].req
                      /\ i = n \/ (i \in 1 .. n - 2 /\ stack'[i] = stack[i])
    OBVIOUS
  <2>1. CASE i = n
    BY <1>0, <2>1
  <2>2. CASE i # n
    <3>1. i \in 1 .. n - 1
      BY <1>0, <2>2
    <3>2. stack'[i] = stack[i] /\ i \in 1 .. n
      BY <1>0, <3>1
    <3>3. i # n - 1
      BY <1>0, <1>1, <3>1, <3>2
    <3> QED BY <1>0, <3>1, <3>2, <3>3
  <2> QED BY <2>1, <2>2
<1>4. NestInv'
  <2>1. \A i \in 1 .. Len(stack') : stack'[i].pc \in ProcessPcs => stack'[i].req \in Received'
    BY <1>2, <1>3 DEF NestInv
  <2>2. \A i, j \in 1 .. Len(stack') :
          stack'[i].pc \in ProcessPcs /\ stack'[j].pc \in ProcessPcs /\ stack'[i].req = stack'[j].req
          => i = j
    BY <1>3 DEF NestInv
  <2>3. ASSUME NEW i \in 1 .. Len(stack'), i + 1 \in 1 .. Len(stack')
        PROVE  Lies(stack'[i], stack'[i + 1], tc'[stack'[i].req].ack)
    <3>1. CASE i + 1 \in 1 .. n - 1
      <4>1. /\ i \in 1 .. n /\ i + 1 \in 1 .. n
            /\ stack'[i] = stack[i] /\ stack'[i + 1] = stack[i + 1]
        BY <1>0, <3>1
      <4> QED BY <4>1 DEF NestInv
    <3>2. CASE i + 1 = n
      <4>1. i = n - 1 /\ i \in 1 .. n /\ stack'[i] = stack[i] /\ stack'[i + 1] = f
        BY <1>0, <3>2
      <4>2. stack[i].pc \notin ProcessPcs /\ ~AboutRequest(f)
        BY <1>1, <4>1, PcsApart DEF AboutRequest
      <4> QED BY <4>1, <4>2 DEF Lies
    <3>3. CASE i = n
      BY <1>0, <1>b, <2>3, <3>3
    <3> QED BY <1>0, <2>3, <3>1, <3>2, <3>3
  <2>4. ~AboutRequest(stack'[1])
    <3>1. CASE n = 1
      BY <1>0, <3>1, PcsApart DEF AboutRequest
    <3>2. CASE n # 1
      <4>1. stack'[1] = stack[1]
        <5>1. 1 \in 1 .. n - 1
          <6> HIDE DEF n
          <6> QED BY <1>a, <3>2
        <5> QED BY <1>0, <5>1
      <4> QED BY <4>1 DEF NestInv
    <3> QED BY <3>1, <3>2
  <2> QED BY <2>1, <2>2, <2>3, <2>4 DEF NestInv
<1>5. ASSUME NEW i \in 1 .. Len(stack'), stack'[i].pc \in ProcessPcs
      PROVE  Issued(stack'[i], Above(stack', i), tc'[stack'[i].req].ack, reports'[stack'[i].req])
  <2>1. CASE i \in 1 .. n - 2
    <3>1. stack'[i] = stack[i] /\ stack'[i + 1] = stack[i + 1] /\ i \in 1 .. n
          /\ i + 1 \in 1 .. n /\ i + 1 \in 1 .. Len(stack')
      BY <1>0, <2>1
    <3>2. Above(stack', i) = Above(stack, i)
      BY <3>1 DEF Above
    <3> QED BY <1>5, <3>1, <3>2 DEF IssueInv
  <2>2. CASE i = n
    <3>1. Above(stack', i) =
              IF Len(stack') = n + 1 THEN stack'[n + 1].pc ELSE "nothing"
      BY <1>0, <2>2 DEF Above
    <3>2. CASE Len(stack') = n
      BY <1>0, <1>b, <2>2, <3>1, <3>2
    <3>3. CASE Len(stack') = n + 1
      BY <1>0, <1>b, <2>2, <3>1, <3>3
    <3> QED BY <1>0, <3>2, <3>3
  <2> QED BY <1>3, <1>5, <2>1, <2>2
<1> QED BY <1>4, <1>5 DEF IssueInv

\* The application enters the library.
LEMMA AppEntersAbove ==
    ASSUME TypeOK, NestInv, IssueInv, UNCHANGED <<tc, reports>>,
           NEW g \in Frames, Pushed(g), g.pc \notin ProcessPcs,
           stack # <<>> => Top.pc \in AppContexts /\ Lies(Top, g, tc[Top.req].ack),
           stack = <<>> => ~AboutRequest(g)
    PROVE  NestInv' /\ IssueInv'
<1> DEFINE n == Len(stack)
<1>0. /\ n \in Nat /\ Len(stack') = n + 1
      /\ \A i \in 1 .. n : stack'[i] = stack[i]
      /\ stack'[n + 1] = g
  BY DEF Pushed
<1>1. n # 0 => Top = stack[n] /\ Top.pc \notin ProcessPcs /\ Lies(Top, g, tc[Top.req].ack)
  <2>1. n # 0 => stack # <<>>
    BY EmptySeq
  <2> QED BY <2>1, TopResult, PcsApart DEF TypeOK
<1>2. Received' = Received
  BY DEF Received
<1>3. \A i \in 1 .. Len(stack') :
          stack'[i].pc \in ProcessPcs => i \in 1 .. n - 1 /\ i \in 1 .. n /\ stack'[i] = stack[i]
  <2> SUFFICES ASSUME NEW i \in 1 .. Len(stack'), stack'[i].pc \in ProcessPcs
               PROVE  i \in 1 .. n - 1 /\ i \in 1 .. n /\ stack'[i] = stack[i]
    OBVIOUS
  <2>1. i \in 1 .. n /\ stack'[i] = stack[i]
    BY <1>0
  <2>2. i # n
    BY <1>1, <2>1
  <2> QED BY <1>0, <2>1, <2>2
<1>4. NestInv'
  <2>1. \A i \in 1 .. Len(stack') : stack'[i].pc \in ProcessPcs => stack'[i].req \in Received'
    BY <1>2, <1>3 DEF NestInv
  <2>2. \A i, j \in 1 .. Len(stack') :
          stack'[i].pc \in ProcessPcs /\ stack'[j].pc \in ProcessPcs /\ stack'[i].req = stack'[j].req
          => i = j
    BY <1>3 DEF NestInv
  <2>3. ASSUME NEW i \in 1 .. Len(stack'), i + 1 \in 1 .. Len(stack')
        PROVE  Lies(stack'[i], stack'[i + 1], tc'[stack'[i].req].ack)
    <3>1. CASE i + 1 \in 1 .. n
      <4>1. i \in 1 .. n /\ stack'[i] = stack[i] /\ stack'[i + 1] = stack[i + 1]
        BY <1>0, <3>1
      <4> QED BY <3>1, <4>1 DEF NestInv
    <3>2. CASE i = n
      <4>1. n # 0 /\ stack'[i] = stack[n] /\ stack'[i + 1] = g
        BY <1>0, <3>2
      <4> QED BY <1>1, <4>1
    <3> QED BY <1>0, <2>3, <3>1, <3>2
  <2>4. ~AboutRequest(stack'[1])
    <3>1. CASE n = 0
      <4>1. stack = <<>>
        BY <3>1, EmptySeq DEF TypeOK
      <4> QED BY <1>0, <3>1, <4>1
    <3>2. CASE n # 0
      <4>1. stack'[1] = stack[1] /\ stack # <<>>
        <5>1. 1 \in 1 .. n
          <6> HIDE DEF n
          <6> QED BY <1>0, <3>2
        <5> QED BY <1>0, <3>2, <5>1, EmptySeq
      <4> QED BY <4>1 DEF NestInv
    <3> QED BY <3>1, <3>2
  <2> QED BY <2>1, <2>2, <2>3, <2>4 DEF NestInv
<1>5. ASSUME NEW i \in 1 .. Len(stack'), stack'[i].pc \in ProcessPcs
      PROVE  Issued(stack'[i], Above(stack', i), tc'[stack'[i].req].ack, reports'[stack'[i].req])
  <2>1. i \in 1 .. n - 1 /\ i \in 1 .. n /\ stack'[i] = stack[i]
    BY <1>3, <1>5
  <2>2. i + 1 \in 1 .. n /\ i + 1 \in 1 .. Len(stack')
    BY <1>0, <2>1
  <2>3. Above(stack', i) = Above(stack, i)
    BY <1>0, <2>2 DEF Above
  <2> QED BY <1>5, <2>1, <2>3 DEF IssueInv
<1> QED BY <1>4, <1>5 DEF IssueInv

\* A packet goes on: the frames of pus_tc_process stay as they are.
LEMMA PacketAdvances ==
    ASSUME TypeOK, NestInv, stack # <<>>, Top.pc \in PacketPcs, UNCHANGED tc,
           NEW f \in Frames, f.pc \in PacketPcs, f.req = Top.req, f.kind = Top.kind,
           Replaced(f) \/ \E g \in Frames : ReplacedBelow(f, g) /\ g.pc \in {"sink", "clock"}
    PROVE  /\ NestInv'
           /\ \A i \in 1 .. Len(stack') :
                 stack'[i].pc \in ProcessPcs =>
                     /\ i \in 1 .. Len(stack) - 1 /\ i \in 1 .. Len(stack)
                     /\ stack'[i] = stack[i]
                     /\ Above(stack', i) =
                            IF i = Len(stack) - 1 THEN f.pc ELSE Above(stack, i)
<1> DEFINE n == Len(stack)
<1>0. /\ n \in Nat \ {0} /\ Top = stack[n]
      /\ Len(stack') \in {n, n + 1}
      /\ \A i \in 1 .. n - 1 : stack'[i] = stack[i]
      /\ stack'[n] = f
      /\ Len(stack') = n + 1 => stack'[n + 1].pc \in {"sink", "clock"}
  <2>1. n \in Nat \ {0} /\ Top = stack[n]
    BY TopResult DEF TypeOK
  <2>2. CASE Replaced(f)
    BY <2>1, <2>2 DEF Replaced
  <2>3. ASSUME NEW g \in Frames, ReplacedBelow(f, g), g.pc \in {"sink", "clock"}
        PROVE  /\ Len(stack') = n + 1
               /\ \A i \in 1 .. n - 1 : stack'[i] = stack[i]
               /\ stack'[n] = f /\ stack'[n + 1] = g
    BY <2>1, <2>3 DEF ReplacedBelow
  <2> QED BY <2>1, <2>2, <2>3
<1>1. f.pc \notin ProcessPcs /\ f.pc # "handler"
  BY PcsApart DEF PacketPcs
<1>2. Received' = Received
  BY DEF Received
<1>3. \A i \in 1 .. Len(stack') :
          stack'[i].pc \in ProcessPcs => i \in 1 .. n - 1 /\ i \in 1 .. n /\ stack'[i] = stack[i]
  <2> SUFFICES ASSUME NEW i \in 1 .. Len(stack'), stack'[i].pc \in ProcessPcs
               PROVE  i \in 1 .. n - 1 /\ i \in 1 .. n /\ stack'[i] = stack[i]
    OBVIOUS
  <2>1. i # n
    BY <1>0, <1>1
  <2>2. i # n + 1
    BY <1>0, PcsApart
  <2> QED BY <1>0, <2>1, <2>2
<1>4. ASSUME NEW i \in 1 .. Len(stack'), stack'[i].pc \in ProcessPcs
      PROVE  Above(stack', i) = IF i = n - 1 THEN f.pc ELSE Above(stack, i)
  <2>1. i \in 1 .. n - 1 /\ i + 1 \in 1 .. n /\ i + 1 \in 1 .. Len(stack')
    BY <1>0, <1>3, <1>4
  <2>2. CASE i = n - 1
    BY <1>0, <2>1, <2>2 DEF Above
  <2>3. CASE i # n - 1
    <3>1. i + 1 \in 1 .. n - 1
      BY <1>0, <2>1, <2>3
    <3> QED BY <1>0, <2>1, <2>3, <3>1 DEF Above
  <2> QED BY <2>2, <2>3
<1>5. NestInv'
  <2>1. \A i \in 1 .. Len(stack') : stack'[i].pc \in ProcessPcs => stack'[i].req \in Received'
    BY <1>2, <1>3 DEF NestInv
  <2>2. \A i, j \in 1 .. Len(stack') :
          stack'[i].pc \in ProcessPcs /\ stack'[j].pc \in ProcessPcs /\ stack'[i].req = stack'[j].req
          => i = j
    BY <1>3 DEF NestInv
  <2>3. ASSUME NEW i \in 1 .. Len(stack'), i + 1 \in 1 .. Len(stack')
        PROVE  Lies(stack'[i], stack'[i + 1], tc'[stack'[i].req].ack)
    <3>1. CASE i + 1 \in 1 .. n - 1
      <4>1. /\ i \in 1 .. n /\ i + 1 \in 1 .. n
            /\ stack'[i] = stack[i] /\ stack'[i + 1] = stack[i + 1]
        BY <1>0, <3>1
      <4> QED BY <4>1 DEF NestInv
    <3>2. CASE i + 1 = n
      <4>1. /\ i \in 1 .. n /\ stack'[i] = stack[i] /\ stack'[i + 1] = f
            /\ i + 1 \in 1 .. n /\ stack[i + 1] = Top
        BY <1>0, <3>2
      <4>2. Lies(stack[i], Top, tc[stack[i].req].ack)
        BY <4>1 DEF NestInv
      <4>3. Lies(stack[i], f, tc[stack[i].req].ack)
        <5>1. AboutRequest(f) = AboutRequest(Top) /\ Top.pc # "handler"
          BY PcsApart DEF AboutRequest, PacketPcs
        <5>2. stack[i].pc \in ProcessPcs =>
                  /\ f.req = stack[i].req
                  /\ f.pc \in PacketPcs /\ Emits(stack[i], f.kind, tc[stack[i].req].ack)
          BY <4>2, <5>1 DEF Lies
        <5>3. AboutRequest(f) /\ stack[i].pc \notin ProcessPcs =>
                  /\ f.pc \in PacketPcs /\ f.kind \in ProgressKinds
                  /\ stack[i].pc = "handler" /\ stack[i].req = f.req
          BY <4>2, <5>1 DEF Lies
        <5> QED BY <5>2, <5>3 DEF Lies
      <4> QED BY <4>1, <4>3
    <3>3. CASE i = n
      <4>1. stack'[i] = f /\ stack'[i + 1].pc \in {"sink", "clock"}
        BY <1>0, <2>3, <3>3
      <4>2. ~AboutRequest(stack'[i + 1])
        BY <4>1 DEF AboutRequest, PacketPcs
      <4> QED BY <1>1, <4>1, <4>2 DEF Lies
    <3> QED BY <1>0, <2>3, <3>1, <3>2, <3>3
  <2>4. ~AboutRequest(stack'[1])
    <3>1. CASE n = 1
      <4>1. stack'[1] = f /\ stack[1] = Top /\ ~AboutRequest(Top)
        BY <1>0, <3>1 DEF NestInv
      <4> QED BY <4>1 DEF AboutRequest
    <3>2. CASE n # 1
      <4>1. 1 \in 1 .. n - 1
        <5> HIDE DEF n
        <5> QED BY <1>0, <3>2
      <4>2. stack'[1] = stack[1]
        BY <1>0, <4>1
      <4> QED BY <4>2 DEF NestInv
    <3> QED BY <3>1, <3>2
  <2> QED BY <2>1, <2>2, <2>3, <2>4 DEF NestInv
<1> QED BY <1>3, <1>4, <1>5

\* Where the packet about a request lies that is being built.
LEMMA TopPacket ==
    ASSUME TypeOK, NestInv, stack # <<>>, Top.pc \in PacketPcs, Top.req # NoReq
    PROVE  \E p \in 1 .. Len(stack) - 1 :
              /\ p \in 1 .. Len(stack)
              /\ stack[p].pc \in ProcessPcs /\ stack[p].req = Top.req
              /\ \/ /\ p = Len(stack) - 1
                    /\ Above(stack, p) = Top.pc
                    /\ Emits(stack[p], Top.kind, tc[Top.req].ack)
                 \/ stack[p].pc = "completion" /\ Top.kind \in ProgressKinds
<1> DEFINE n == Len(stack)
<1>0. n \in Nat \ {0} /\ Top = stack[n]
  BY TopResult DEF TypeOK
<1>1. AboutRequest(Top) /\ Top.pc # "handler"
  BY PcsApart DEF AboutRequest, PacketPcs
<1>2. n # 1
  BY <1>0, <1>1 DEF NestInv
<1>3. n - 1 \in 1 .. n - 1 /\ n - 1 \in 1 .. n /\ (n - 1) + 1 = n
  <2> HIDE DEF n
  <2> QED BY <1>0, <1>2
<1>4. Lies(stack[n - 1], Top, tc[stack[n - 1].req].ack)
  <2>1. (n - 1) + 1 \in 1 .. n
    BY <1>0, <1>3
  <2> QED BY <1>0, <1>3, <2>1 DEF NestInv
<1>5. CASE stack[n - 1].pc \in ProcessPcs
  <2>1. stack[n - 1].req = Top.req /\ Emits(stack[n - 1], Top.kind, tc[Top.req].ack)
    BY <1>1, <1>4, <1>5 DEF Lies
  <2>2. Above(stack, n - 1) = Top.pc
    BY <1>0, <1>3 DEF Above
  <2> QED BY <1>3, <1>5, <2>1, <2>2
<1>6. CASE stack[n - 1].pc \notin ProcessPcs
  <2>1. Top.kind \in ProgressKinds /\ stack[n - 1].pc = "handler" /\ stack[n - 1].req = Top.req
    BY <1>1, <1>4, <1>6 DEF Lies
  <2>2. AboutRequest(stack[n - 1])
    BY <2>1 DEF AboutRequest
  <2>3. n - 1 # 1
    BY <2>2 DEF NestInv
  <2>4. /\ n - 2 \in 1 .. n - 1 /\ n - 2 \in 1 .. n
        /\ (n - 2) + 1 = n - 1
    <3> HIDE DEF n
    <3> QED BY <1>0, <1>2, <2>3
  <2>5. Lies(stack[n - 2], stack[n - 1], tc[stack[n - 2].req].ack)
    <3>1. (n - 2) + 1 \in 1 .. n
      BY <1>3, <2>4
    <3> QED BY <2>4, <3>1 DEF NestInv
  <2>6. stack[n - 2].pc = "completion" /\ stack[n - 2].req = Top.req
    BY <2>1, <2>2, <2>5 DEF Lies, PacketPcs
  <2>7. stack[n - 2].pc \in ProcessPcs
    BY <2>6 DEF ProcessPcs
  <2> QED BY <2>1, <2>4, <2>6, <2>7
<1> QED BY <1>5, <1>6

\* Only whether the report above is complete matters.
LEMMA IssuedAbove ==
    ASSUME NEW f, NEW a, NEW b, NEW ack, NEW issued, a \in Unfinished <=> b \in Unfinished
    PROVE  Issued(f, a, ack, issued) <=> Issued(f, b, ack, issued)
BY DEF Issued

LEMMA NothingAbove == "nothing" \notin Unfinished /\ "sent" \notin Unfinished
BY DEF Unfinished

\* The innermost call returns.
LEMMA ReturnKeepsReports ==
    ASSUME TypeOK, NestInv, IssueInv, stack # <<>>, Returned, Top.pc \notin Unfinished,
           UNCHANGED <<tc, reports>>
    PROVE  NestInv' /\ IssueInv'
<1> DEFINE n == Len(stack)
<1>0. /\ n \in Nat \ {0} /\ Top = stack[n]
      /\ Len(stack') = n - 1
      /\ \A i \in 1 .. n - 1 : i \in 1 .. n /\ stack'[i] = stack[i]
  BY TopResult DEF TypeOK, Returned
<1>2. Received' = Received
  BY DEF Received
<1>3. NestInv'
  <2>1. \A i \in 1 .. Len(stack') : i + 1 \in 1 .. Len(stack') => i + 1 \in 1 .. n
    BY <1>0
  <2>2. stack' # <<>> => stack'[1] = stack[1]
    <3>1. ASSUME stack' # <<>> PROVE 1 \in 1 .. n - 1
      <4>1. Len(stack') # 0
        BY <3>1, EmptySeq DEF Returned
      <4> HIDE DEF n
      <4> QED BY <1>0, <4>1
    <3> QED BY <1>0, <3>1
  <2> QED BY <1>0, <1>2, <2>1, <2>2 DEF NestInv
<1>4. ASSUME NEW i \in 1 .. Len(stack'), stack'[i].pc \in ProcessPcs
      PROVE  Issued(stack'[i], Above(stack', i), tc'[stack'[i].req].ack, reports'[stack'[i].req])
  <2>1. i \in 1 .. n /\ stack'[i] = stack[i]
    BY <1>0
  <2>2. Issued(stack[i], Above(stack, i), tc[stack[i].req].ack, reports[stack[i].req])
    BY <1>4, <2>1 DEF IssueInv
  <2>3. Above(stack', i) \in Unfinished <=> Above(stack, i) \in Unfinished
    <3>1. CASE i = n - 1
      <4>1. Above(stack, i) = Top.pc /\ Above(stack', i) = "nothing"
        BY <1>0, <3>1 DEF Above
      <4> QED BY <4>1, NothingAbove
    <3>2. CASE i # n - 1
      <4>1. i + 1 \in 1 .. n - 1 /\ i + 1 \in 1 .. n
        BY <1>0, <3>2
      <4> QED BY <1>0, <4>1 DEF Above
    <3> QED BY <3>1, <3>2
  <2> QED BY <2>1, <2>2, <2>3, IssuedAbove
<1> QED BY <1>3, <1>4 DEF IssueInv

\* Requests are numbered without a gap, so that the next one is new.
LEMMA NextRequest ==
    ASSUME ReceiveInv
    PROVE  /\ Cardinality(Received) \in Nat
           /\ Cardinality(Received) + 1 \notin Received
<1>1. Received \subseteq 1 .. MaxRequests
  BY DEF Received, Requests
<1>2. IsFiniteSet(1 .. MaxRequests)
  BY FS_Interval, BoundsAssumption
<1>3. Cardinality(Received) \in Nat
  BY <1>1, <1>2, FS_Subset, FS_CardinalityType
<1> QED BY <1>3 DEF ReceiveInv

LEMMA ReceiveTc ==
    ASSUME TypeOK, ReceiveInv, NestInv, IssueInv,
           NEW k \in Keys, NEW ack \in AckSets, ProcessTc(k, ack)
    PROVE  LET r == Cardinality(Received) + 1 IN
           /\ r \in Requests \ Received
           /\ tc' = [tc EXCEPT ![r] = [key |-> k, ack |-> ack]]
           /\ Received' = Received \cup {r}
           /\ UNCHANGED reports
           /\ \E g \in Frames : Pushed(g) /\ g.pc = "find" /\ g.req = r
<1> DEFINE r == Cardinality(Received) + 1
           g == Frame("find", r)
<1>1. /\ r \in Requests /\ tc' = [tc EXCEPT ![r] = [key |-> k, ack |-> ack]]
      /\ stack' = Append(stack, g) /\ UNCHANGED reports
  BY DEF ProcessTc
<1>2. r \notin Received
  BY NextRequest
<1> HIDE DEF r
<1>3. [key |-> k, ack |-> ack] # NoTc
  BY NoKeyAssumption DEF NoTc
<1>4. tc' = [q \in Requests |-> IF q = r THEN [key |-> k, ack |-> ack] ELSE tc[q]]
  BY <1>1 DEF TypeOK
<1>5. Received' = Received \cup {r}
  BY <1>1, <1>3, <1>4 DEF Received
<1>6. "find" \in Pcs
  BY DEF Pcs, ProcessPcs
<1>7. g \in Frames /\ g.pc = "find" /\ g.req = r
  BY <1>1, <1>6, FrameType
<1> HIDE DEF g
<1> QED BY <1>1, <1>2, <1>5, <1>7, AppendPushes DEF TypeOK, r

LEMMA ProcessTcNests ==
    ASSUME TypeOK, ReceiveInv, NestInv, IssueInv,
           NEW k \in Keys, NEW ack \in AckSets, ProcessTc(k, ack)
    PROVE  ReceiveInv' /\ NestInv' /\ IssueInv'
<1> DEFINE n == Len(stack)
           c == Cardinality(Received)
           r == c + 1
<1>1. /\ r \in Requests \ Received
      /\ tc' = [tc EXCEPT ![r] = [key |-> k, ack |-> ack]]
      /\ Received' = Received \cup {r}
      /\ UNCHANGED reports
      /\ c \in Nat /\ Received = 1 .. c
      /\ \A q \in Requests \ Received : reports[q] = <<>>
  BY ReceiveTc, NextRequest DEF ReceiveInv
<1>2. PICK g \in Frames : Pushed(g) /\ g.pc = "find" /\ g.req = r
  BY ReceiveTc
<1> HIDE DEF c
<1>3. ReceiveInv'
  <2>1. Received' = 1 .. c + 1
    BY <1>1
  <2>2. Cardinality(Received') = c + 1
    <3>1. 1 \in Int /\ c + 1 \in Int /\ ~(1 > c + 1) /\ (c + 1) - 1 + 1 = c + 1
      BY <1>1
    <3>2. Cardinality(1 .. c + 1) = IF 1 > c + 1 THEN 0 ELSE (c + 1) - 1 + 1
      BY <3>1, FS_Interval
    <3> QED BY <2>1, <3>1, <3>2
  <2> QED BY <1>1, <2>1, <2>2 DEF ReceiveInv
<1> HIDE DEF r
<1>4. /\ n \in Nat /\ Len(stack') = n + 1
      /\ \A i \in 1 .. n : i \in 1 .. n + 1 /\ stack'[i] = stack[i]
      /\ stack'[n + 1] = g
  BY <1>2 DEF Pushed
<1>5. g.pc \in ProcessPcs /\ ~AboutRequest(g)
  BY <1>2, PcsApart DEF ProcessPcs, PacketPcs, AboutRequest
<1>6. n # 0 => Top = stack[n] /\ Top.pc \notin ProcessPcs
  <2>1. n # 0 => stack # <<>>
    BY EmptySeq
  <2>2. stack # <<>> => Top.pc \in AppContexts
    BY AppCallsTop DEF ProcessTc, AppEnters
  <2> QED BY <2>1, <2>2, TopResult, PcsApart DEF TypeOK
<1>7. \A i \in 1 .. Len(stack') :
          \/ i \in 1 .. n /\ stack'[i] = stack[i]
          \/ i = n + 1 /\ stack'[i] = g
  BY <1>4
<1>8. \A q \in Requests \ {r} : tc'[q] = tc[q]
  BY <1>1 DEF TypeOK
<1>9. \A i \in 1 .. n : stack[i].pc \in ProcessPcs =>
          /\ stack[i].req \in Received /\ stack[i].req # r
          /\ tc'[stack[i].req] = tc[stack[i].req]
          /\ i # n
  <2> SUFFICES ASSUME NEW i \in 1 .. n, stack[i].pc \in ProcessPcs
               PROVE  /\ stack[i].req \in Received /\ stack[i].req # r
                      /\ tc'[stack[i].req] = tc[stack[i].req]
                      /\ i # n
    OBVIOUS
  <2>1. stack[i].req \in Received /\ stack[i].req # r
    BY <1>1 DEF NestInv
  <2>2. stack[i].req \in Requests
    BY <2>1 DEF Received
  <2>3. i # n
    BY <1>6
  <2> QED BY <1>8, <2>1, <2>2, <2>3
<1>10. NestInv'
  <2>1. \A i \in 1 .. Len(stack') : stack'[i].pc \in ProcessPcs => stack'[i].req \in Received'
    BY <1>1, <1>2, <1>7, <1>9
  <2>2. \A i, j \in 1 .. Len(stack') :
          stack'[i].pc \in ProcessPcs /\ stack'[j].pc \in ProcessPcs /\ stack'[i].req = stack'[j].req
          => i = j
    BY <1>2, <1>7, <1>9 DEF NestInv
  <2>3. ASSUME NEW i \in 1 .. Len(stack'), i + 1 \in 1 .. Len(stack')
        PROVE  Lies(stack'[i], stack'[i + 1], tc'[stack'[i].req].ack)
    <3>1. CASE i + 1 \in 1 .. n
      <4>1. i \in 1 .. n /\ stack'[i] = stack[i] /\ stack'[i + 1] = stack[i + 1]
        BY <1>4, <3>1
      <4>2. Lies(stack[i], stack[i + 1], tc[stack[i].req].ack)
        BY <3>1, <4>1 DEF NestInv
      <4>3. CASE stack[i].pc \in ProcessPcs
        BY <1>9, <4>1, <4>2, <4>3
      <4>4. CASE stack[i].pc \notin ProcessPcs
        BY <4>1, <4>2, <4>4 DEF Lies
      <4> QED BY <4>3, <4>4
    <3>2. CASE i = n
      <4>1. n # 0 /\ stack'[i] = stack[n] /\ stack'[i + 1] = g
        BY <1>4, <3>2
      <4> QED BY <1>5, <1>6, <4>1 DEF Lies
    <3> QED BY <1>4, <2>3, <3>1, <3>2
  <2>4. ~AboutRequest(stack'[1])
    <3>1. CASE n = 0
      BY <1>4, <1>5, <3>1
    <3>2. CASE n # 0
      <4>1. 1 \in 1 .. n
        <5> HIDE DEF n
        <5> QED BY <1>4, <3>2
      <4>2. stack'[1] = stack[1] /\ stack # <<>>
        BY <1>4, <3>2, <4>1, EmptySeq
      <4> QED BY <4>2 DEF NestInv
    <3> QED BY <3>1, <3>2
  <2> QED BY <2>1, <2>2, <2>3, <2>4 DEF NestInv
<1>11. ASSUME NEW i \in 1 .. Len(stack'), stack'[i].pc \in ProcessPcs
       PROVE  Issued(stack'[i], Above(stack', i), tc'[stack'[i].req].ack, reports'[stack'[i].req])
  <2>1. CASE i \in 1 .. n /\ stack'[i] = stack[i]
    <3>1. i + 1 \in 1 .. n /\ i + 1 \in 1 .. Len(stack')
      BY <1>4, <1>9, <1>11, <2>1
    <3>2. Above(stack', i) = Above(stack, i)
      BY <1>4, <3>1 DEF Above
    <3>3. Issued(stack[i], Above(stack, i), tc[stack[i].req].ack, reports[stack[i].req])
      BY <1>11, <2>1 DEF IssueInv
    <3> QED BY <1>1, <1>9, <1>11, <2>1, <3>2, <3>3
  <2>2. CASE i = n + 1 /\ stack'[i] = g
    <3>1. reports'[g.req] = <<>>
      BY <1>1, <1>2
    <3> QED BY <1>2, <2>2, <3>1 DEF Issued
  <2> QED BY <1>7, <2>1, <2>2
<1> QED BY <1>3, <1>10, <1>11 DEF IssueInv

\* A report is complete: it was due, and the frame it is about learns of it.
LEMMA FinishPacketNests ==
    ASSUME TypeOK, ReceiveInv, NestInv, IssueInv, FinishPacket
    PROVE  ReceiveInv' /\ NestInv' /\ IssueInv'
<1> DEFINE n == Len(stack)
           r == Top.req
           kind == Top.kind
<1>1. /\ stack # <<>> /\ stack \in Seq(Frames) /\ Top.pc = "count" /\ UNCHANGED tc
      /\ reports' = IF r = NoReq THEN reports ELSE [reports EXCEPT ![r] = Append(@, kind)]
  BY DEF FinishPacket, At, TypeOK
<1>2. Top.pc \in PacketPcs /\ Top.pc \in Unfinished
  BY <1>1 DEF PacketPcs, Unfinished
<1>3. PICK f \in Frames :
          /\ f.pc = "sent" /\ f.req = Top.req /\ f.kind = Top.kind
          /\ Replaced(f) \/ \E g \in Frames : ReplacedBelow(f, g) /\ g.pc \in {"sink", "clock"}
  BY FinishPacketFrames
<1>4. f.pc \in PacketPcs
  BY <1>3 DEF PacketPcs
<1>5. /\ NestInv'
      /\ \A i \in 1 .. Len(stack') :
             stack'[i].pc \in ProcessPcs =>
                 /\ i \in 1 .. n - 1 /\ i \in 1 .. n
                 /\ stack'[i] = stack[i]
                 /\ Above(stack', i) = IF i = n - 1 THEN "sent" ELSE Above(stack, i)
  BY <1>1, <1>2, <1>3, <1>4, PacketAdvances
<1>6. Received' = Received
  BY <1>1 DEF Received
<1>7. CASE r = NoReq
  <2>1. reports' = reports
    BY <1>1, <1>7
  <2>2. ReceiveInv'
    BY <1>6, <2>1 DEF ReceiveInv
  <2>3. \A i \in 1 .. n : i = n - 1 => stack[i].pc \notin ProcessPcs
    <3> SUFFICES ASSUME NEW i \in 1 .. n, i = n - 1, stack[i].pc \in ProcessPcs PROVE FALSE
      OBVIOUS
    <3>1. i + 1 \in 1 .. n /\ stack[i + 1] = Top
      BY <1>1, TopResult
    <3>2. stack[i].req = NoReq
      BY <1>7, <3>1 DEF NestInv, Lies
    <3>3. stack[i].req \in Requests
      BY DEF NestInv, Received
    <3> QED BY <3>2, <3>3 DEF Requests, NoReq
  <2>4. IssueInv'
    BY <1>1, <1>5, <2>1, <2>3 DEF IssueInv
  <2> QED BY <1>5, <2>2, <2>4
<1>8. CASE r # NoReq
  <2>1. PICK p \in 1 .. n - 1 :
            /\ p \in 1 .. n
            /\ stack[p].pc \in ProcessPcs /\ stack[p].req = r
            /\ \/ p = n - 1 /\ Above(stack, p) = Top.pc /\ Emits(stack[p], kind, tc[r].ack)
               \/ stack[p].pc = "completion" /\ kind \in ProgressKinds
    BY <1>1, <1>2, <1>8, TopPacket
  <2>2. r \in Received /\ r \in Requests
    BY <2>1 DEF NestInv, Received
  <2>3. /\ \A q \in Requests \ {r} : reports'[q] = reports[q]
        /\ reports'[r] = Append(reports[r], kind)
        /\ reports[r] \in Seq(Kinds)
    BY <1>1, <1>8, <2>2 DEF TypeOK
  <2>4. ReceiveInv'
    <3>1. \A q \in Requests \ Received : reports'[q] = reports[q]
      BY <2>2, <2>3
    <3> QED BY <1>6, <3>1 DEF ReceiveInv
  <2>5. ASSUME NEW i \in 1 .. Len(stack'), stack'[i].pc \in ProcessPcs
        PROVE  Issued(stack'[i], Above(stack', i), tc'[stack'[i].req].ack, reports'[stack'[i].req])
    <3>1. i \in 1 .. n /\ stack'[i] = stack[i] /\ stack[i].req \in Requests
      BY <1>5, <2>5 DEF NestInv, Received
    <3>2. Issued(stack[i], Above(stack, i), tc[stack[i].req].ack, reports[stack[i].req])
      BY <2>5, <3>1 DEF IssueInv
    <3>3. CASE i # p
      <4>1. stack[i].req # r
        BY <2>1, <2>5, <3>1, <3>3 DEF NestInv
      <4>2. i # n - 1
        <5> SUFFICES ASSUME i = n - 1 PROVE FALSE
          OBVIOUS
        <5>1. i + 1 \in 1 .. n /\ stack[i + 1] = Top
          BY <1>1, <3>1, TopResult
        <5>2. stack[i].req = r
          BY <2>5, <3>1, <5>1 DEF NestInv, Lies
        <5> QED BY <4>1, <5>2
      <4> QED BY <1>1, <1>5, <2>3, <2>5, <3>1, <3>2, <4>1, <4>2
    <3>4. CASE i = p
      <4> DEFINE ack == tc[r].ack
                 old == reports[r]
                 new == Append(old, kind)
      <4>1. /\ stack'[i] = stack[p] /\ stack'[i].req = r
            /\ tc'[r].ack = ack /\ reports'[r] = new
        BY <1>1, <2>1, <2>3, <3>1, <3>4
      <4>2. /\ DOMAIN new = 1 .. Len(old) + 1 /\ Len(old) \in Nat
            /\ DOMAIN old = 1 .. Len(old)
            /\ \A j \in DOMAIN old : new[j] = old[j]
            /\ new[Len(old) + 1] = kind
        BY <2>3
      <4>3. Len(old) + 1 \in DOMAIN new
        BY <4>2
      <4>4. CASE p = n - 1 /\ Above(stack, p) = Top.pc /\ Emits(stack[p], kind, ack)
        <5>1. Issued(stack[p], Top.pc, ack, old) /\ Above(stack', i) = "sent"
          BY <1>5, <2>1, <2>5, <3>2, <3>4, <4>4
        <5>2. CASE stack[p].pc = "start"
          <6>1. /\ old = <<>> /\ "acceptance" \in ack /\ kind = "acceptance_success"
            BY <1>2, <4>4, <5>1, <5>2 DEF Issued, Emits
          <6>2. new = RV!Announced(ack \ {"start"})
            BY <6>1 DEF RV!Announced
          <6> HIDE DEF new
          <6> QED BY <4>1, <5>1, <5>2, <6>2, NothingAbove DEF Issued
        <5>3. CASE stack[p].pc = "invoke"
          <6>1. old = RV!Announced(ack \ {"start"}) /\ "start" \in ack /\ kind = "start_success"
            BY <1>2, <4>4, <5>1, <5>3 DEF Issued, Emits
          <6>2. new = RV!Announced(ack)
            BY <6>1 DEF RV!Announced
          <6> HIDE DEF new
          <6> QED BY <4>1, <5>1, <5>3, <6>2, NothingAbove DEF Issued
        <5>4. CASE stack[p].pc \in {"return", "refused"}
          <6> HIDE DEF new
          <6> HIDE DEF old, ack
          <6>1. \E j \in DOMAIN new : new[j] = kind
            BY <4>2, <4>3
          <6>2. CASE stack[p].pc = "return"
            <7>1. \E j \in DOMAIN new : Emits(stack[p], new[j], ack)
              BY <4>4, <6>1
            <7>2. Issued(stack[p], "sent", ack, new)
              BY <6>2, <7>1, NothingAbove DEF Issued
            <7> QED BY <4>1, <5>1, <7>2
          <6>3. CASE stack[p].pc = "refused"
            <7>1. kind = "routing_failure"
              BY <4>4, <6>3 DEF Emits
            <7>2. Issued(stack[p], "sent", ack, new)
              BY <6>1, <6>3, <7>1, NothingAbove DEF Issued
            <7> QED BY <4>1, <5>1, <7>2
          <6> QED BY <5>4, <6>2, <6>3
        <5> QED BY <4>4, <5>2, <5>3, <5>4 DEF Emits
      <4>5. CASE stack[p].pc = "completion" /\ kind \in ProgressKinds
        <5> HIDE DEF new
        <5>1. \A j \in DOMAIN old : old[j] \notin CompletionKinds
          BY <3>2, <3>4, <2>1, <4>5 DEF Issued
        <5>2. kind \notin CompletionKinds
          BY <4>5 DEF ProgressKinds, CompletionKinds
        <5>3. ASSUME NEW j \in DOMAIN new PROVE new[j] \notin CompletionKinds
          <6> HIDE DEF old
          <6>1. CASE j \in DOMAIN old
            BY <4>2, <5>1, <6>1
          <6>2. CASE j = Len(old) + 1
            BY <4>2, <5>2, <6>2
          <6> QED BY <4>2, <6>1, <6>2
        <5> QED BY <4>1, <4>5, <5>3 DEF Issued
      <4> QED BY <2>1, <4>4, <4>5
    <3> QED BY <3>3, <3>4
  <2> QED BY <1>5, <2>4, <2>5 DEF IssueInv
<1> QED BY <1>7, <1>8

LEMMA StampHeaderNests ==
    ASSUME TypeOK, NestInv, IssueInv, StampHeader
    PROVE  NestInv' /\ IssueInv'
<1>1. stack # <<>> /\ stack \in Seq(Frames) /\ Top.pc = "stamp" /\ UNCHANGED <<tc, reports>>
  BY DEF StampHeader, At, TypeOK, history
<1>2. Top.pc \in PacketPcs
  BY <1>1 DEF PacketPcs
<1>3. PICK f \in Frames :
          /\ f.pc = "count" /\ f.req = Top.req /\ f.kind = Top.kind
          /\ Replaced(f) \/ \E g \in Frames : ReplacedBelow(f, g) /\ g.pc \in {"sink", "clock"}
  BY StampHeaderFrames
<1>4. f.pc \in PacketPcs
  BY <1>3 DEF PacketPcs
<1>5. /\ NestInv'
      /\ \A i \in 1 .. Len(stack') :
             stack'[i].pc \in ProcessPcs =>
                 /\ i \in 1 .. Len(stack) - 1 /\ i \in 1 .. Len(stack)
                 /\ stack'[i] = stack[i]
                 /\ Above(stack', i) = IF i = Len(stack) - 1 THEN "count" ELSE Above(stack, i)
  BY <1>1, <1>2, <1>3, <1>4, PacketAdvances
<1>6. ASSUME NEW i \in 1 .. Len(stack'), stack'[i].pc \in ProcessPcs
      PROVE  Issued(stack'[i], Above(stack', i), tc'[stack'[i].req].ack, reports'[stack'[i].req])
  <2>1. i \in 1 .. Len(stack) /\ stack'[i] = stack[i]
    BY <1>5, <1>6
  <2>2. Issued(stack[i], Above(stack, i), tc[stack[i].req].ack, reports[stack[i].req])
    BY <1>6, <2>1 DEF IssueInv
  <2>3. Above(stack', i) \in Unfinished <=> Above(stack, i) \in Unfinished
    <3>1. CASE i = Len(stack) - 1
      <4>1. Above(stack, i) = "stamp" /\ Above(stack', i) = "count"
        BY <1>1, <1>5, <1>6, <2>1, <3>1, TopResult DEF Above
      <4> QED BY <4>1 DEF Unfinished
    <3>2. CASE i # Len(stack) - 1
      BY <1>5, <1>6, <3>2
    <3> QED BY <3>1, <3>2
  <2> QED BY <1>1, <2>1, <2>2, <2>3, IssuedAbove
<1> QED BY <1>5, <1>6 DEF IssueInv

LEMMA TopIssued ==
    ASSUME TypeOK, NestInv, IssueInv, stack # <<>>, Top.pc \in ProcessPcs
    PROVE  /\ Issued(Top, "nothing", tc[Top.req].ack, reports[Top.req])
           /\ Top.req \in Received /\ Top.req \in Requests
<1>1. /\ Len(stack) \in 1 .. Len(stack) /\ Top = stack[Len(stack)]
      /\ Above(stack, Len(stack)) = "nothing"
  BY TopResult DEF TypeOK, Above
<1> QED BY <1>1 DEF IssueInv, NestInv, Received

ProcessStep == FindHandler \/ EmitAcceptance \/ EmitStart \/ InvokeHandler \/ EmitCompletion

\* The points that pus_tc_process goes through.
Follows(from, to) ==
    \/ from = "find" /\ to \in {"acceptance", "refused"}
    \/ from = "acceptance" /\ to = "start"
    \/ from = "start" /\ to = "invoke"
    \/ from = "invoke" /\ to = "completion"
    \/ from = "completion" /\ to = "return"

\* What the frame of pus_tc_process may become.
Advances(f) ==
    /\ f \in Frames /\ f.pc \in ProcessPcs /\ f.req = Top.req
    /\ \/ Replaced(f) /\ Issued(f, "nothing", tc[f.req].ack, reports[f.req])
       \/ \E g \in Frames :
             /\ ReplacedBelow(f, g)
             /\ g.pc \notin ProcessPcs
             /\ Lies(f, g, tc[f.req].ack)
             /\ Issued(f, g.pc, tc[f.req].ack, reports[f.req])

\* A report begun is one that was due.
LEMMA ReportAdvances ==
    ASSUME NEW f \in Frames, f.pc \in ProcessPcs, f.req = Top.req,
           NEW flag, NEW kind, ReportBegun(flag, kind, f),
           flag \in tc[f.req].ack => /\ Emits(f, kind, tc[f.req].ack)
                                     /\ Issued(f, "stamp", tc[f.req].ack, reports[f.req]),
           flag \notin tc[f.req].ack => Issued(f, "nothing", tc[f.req].ack, reports[f.req])
    PROVE  Advances(f)
<1>1. CASE flag \in tc[f.req].ack
  <2>1. PICK g \in Frames : ReplacedBelow(f, g) /\ g.pc = "stamp" /\ g.req = f.req /\ g.kind = kind
    BY <1>1 DEF ReportBegun
  <2>2. g.pc \in PacketPcs /\ g.pc \notin ProcessPcs
    BY <2>1, PcsApart DEF PacketPcs
  <2>3. Lies(f, g, tc[f.req].ack)
    BY <1>1, <2>1, <2>2 DEF Lies
  <2> QED BY <1>1, <2>1, <2>2, <2>3 DEF Advances
<1>2. CASE flag \notin tc[f.req].ack
  BY <1>2 DEF ReportBegun, Advances
<1> QED BY <1>1, <1>2

LEMMA ProcessStepAdvances ==
    ASSUME TypeOK, NestInv, IssueInv, ProcessStep
    PROVE  /\ stack # <<>> /\ Top.pc \in ProcessPcs /\ UNCHANGED <<tc, reports>>
           /\ \E f \in Frames : Advances(f) /\ Follows(Top.pc, f.pc)
<1>1. stack # <<>> /\ Top.pc \in ProcessPcs /\ UNCHANGED <<tc, reports>>
  BY DEF ProcessStep, FindHandler, EmitAcceptance, EmitStart, InvokeHandler, EmitCompletion,
     At, ProcessPcs, history
<1> DEFINE ack == tc[Top.req].ack
           issued == reports[Top.req]
<1>2. Issued(Top, "nothing", ack, issued)
  BY <1>1, TopIssued
<1>3. "nothing" \notin Unfinished /\ "stamp" \in Unfinished /\ "handler" \notin Unfinished
  BY DEF Unfinished
<1> HIDE DEF ack, issued
<1>4. CASE FindHandler
  <2>0. Top.pc = "find"
    BY <1>4 DEF FindHandler, At
  <2>1. issued = <<>>
    BY <1>2, <2>0 DEF Issued
  <2>2. PICK f \in Frames :
            /\ f.req = Top.req
            /\ \/ f.pc = "acceptance" /\ Replaced(f)
               \/ /\ f.pc = "refused"
                  /\ \E g \in Frames : /\ ReplacedBelow(f, g)
                                       /\ g.pc = "stamp" /\ g.req = Top.req
                                       /\ g.kind = "routing_failure"
    BY <1>4, FindHandlerFrames
  <2>3. CASE f.pc = "acceptance" /\ Replaced(f)
    <3>1. Issued(f, "nothing", ack, issued) /\ f.pc \in ProcessPcs
      BY <2>1, <2>3 DEF Issued, ProcessPcs
    <3> QED BY <2>0, <2>2, <2>3, <3>1, <1>1 DEF Advances, Follows, ack, issued
  <2>4. ASSUME NEW g \in Frames, f.pc = "refused", ReplacedBelow(f, g),
               g.pc = "stamp", g.req = Top.req, g.kind = "routing_failure"
        PROVE  Advances(f) /\ Follows(Top.pc, f.pc)
    <3>1. Issued(f, g.pc, ack, issued) /\ f.pc \in ProcessPcs
      BY <1>3, <2>1, <2>4 DEF Issued, ProcessPcs
    <3>2. g.pc \in PacketPcs /\ g.pc \notin ProcessPcs
      BY <2>4, PcsApart DEF PacketPcs
    <3>3. Lies(f, g, ack)
      BY <2>2, <2>4, <3>1, <3>2 DEF Lies, Emits
    <3> QED BY <2>0, <2>2, <2>4, <3>1, <3>2, <3>3 DEF Advances, Follows, ack, issued
  <2> QED BY <1>1, <2>2, <2>3, <2>4
<1>5. CASE EmitAcceptance
  <2>0. Top.pc = "acceptance"
    BY <1>5 DEF EmitAcceptance, At
  <2>1. issued = <<>>
    BY <1>2, <2>0 DEF Issued
  <2>2. PICK f \in Frames : /\ f.pc = "start" /\ f.req = Top.req
                            /\ ReportBegun("acceptance", "acceptance_success", f)
    BY <1>5, EmitAcceptanceFrames
  <2>3. "acceptance" \in ack => Emits(f, "acceptance_success", ack) /\ Issued(f, "stamp", ack, issued)
    BY <1>3, <2>1, <2>2 DEF Emits, Issued
  <2>4. "acceptance" \notin ack => RV!Announced(ack \ {"start"}) = <<>>
    BY DEF RV!Announced
  <2>5. "acceptance" \notin ack => Issued(f, "nothing", ack, issued)
    BY <1>3, <2>1, <2>2, <2>4 DEF Issued
  <2>6. f.pc \in ProcessPcs
    BY <2>2 DEF ProcessPcs
  <2> QED BY <1>1, <2>0, <2>2, <2>3, <2>5, <2>6, ReportAdvances DEF Follows, ack, issued
<1>6. CASE EmitStart
  <2>0. Top.pc = "start"
    BY <1>6 DEF EmitStart, At
  <2>1. issued = RV!Announced(ack \ {"start"})
    BY <1>2, <1>3, <2>0 DEF Issued
  <2>2. PICK f \in Frames : /\ f.pc = "invoke" /\ f.req = Top.req
                            /\ ReportBegun("start", "start_success", f)
    BY <1>6, EmitStartFrames
  <2>3. "start" \in ack => Emits(f, "start_success", ack) /\ Issued(f, "stamp", ack, issued)
    BY <1>3, <2>1, <2>2 DEF Emits, Issued
  <2>4. "start" \notin ack => RV!Announced(ack \ {"start"}) = RV!Announced(ack)
    BY DEF RV!Announced
  <2>5. "start" \notin ack => Issued(f, "nothing", ack, issued)
    BY <1>3, <2>1, <2>2, <2>4 DEF Issued
  <2>6. f.pc \in ProcessPcs
    BY <2>2 DEF ProcessPcs
  <2> QED BY <1>1, <2>0, <2>2, <2>3, <2>5, <2>6, ReportAdvances DEF Follows, ack, issued
<1>7. CASE InvokeHandler
  <2>0. Top.pc = "invoke"
    BY <1>7 DEF InvokeHandler, At
  <2>1. issued = RV!Announced(ack)
    BY <1>2, <1>3, <2>0 DEF Issued
  <2>2. PICK f, g \in Frames : /\ f.pc = "completion" /\ f.req = Top.req
                               /\ ReplacedBelow(f, g)
                               /\ g.pc = "handler" /\ g.req = Top.req
    BY <1>7, InvokeHandlerFrames
  <2>3. \A i \in DOMAIN RV!Announced(ack) : RV!Announced(ack)[i] \notin CompletionKinds
    BY DEF RV!Announced, CompletionKinds
  <2>4. Issued(f, g.pc, ack, issued)
    BY <1>3, <2>1, <2>2, <2>3 DEF Issued
  <2>5. f.pc \in ProcessPcs /\ g.pc \notin ProcessPcs
    BY <2>2, PcsApart DEF ProcessPcs
  <2>6. Lies(f, g, ack)
    BY <2>2, <2>5 DEF Lies
  <2> QED BY <1>1, <2>0, <2>2, <2>4, <2>5, <2>6 DEF Advances, Follows, ack, issued
<1>8. CASE EmitCompletion
  <2>0. Top.pc = "completion"
    BY <1>8 DEF EmitCompletion, At
  <2>1. \A i \in DOMAIN issued : issued[i] \notin CompletionKinds
    BY <1>2, <2>0 DEF Issued
  <2> DEFINE kind(f) == IF f.st = "OK" THEN "completion_success" ELSE "completion_failure"
  <2>2. PICK f \in Frames : /\ f.pc = "return" /\ f.req = Top.req
                            /\ ReportBegun("completion", kind(f), f)
    BY <1>8, EmitCompletionFrames
  <2>3. "completion" \in ack => Emits(f, kind(f), ack) /\ Issued(f, "stamp", ack, issued)
    BY <1>3, <2>1, <2>2 DEF Emits, Issued
  <2>4. "completion" \notin ack => Issued(f, "nothing", ack, issued)
    BY <1>3, <2>2 DEF Issued
  <2>5. f.pc \in ProcessPcs
    BY <2>2 DEF ProcessPcs
  <2> HIDE DEF kind
  <2> QED BY <1>1, <2>0, <2>2, <2>3, <2>4, <2>5, ReportAdvances DEF Follows, ack, issued
<1> QED BY <1>1, <1>4, <1>5, <1>6, <1>7, <1>8 DEF ProcessStep

LEMMA AppCallNests ==
    ASSUME TypeOK, NestInv, IssueInv,
           \/ \E k \in Keys : InvokeDirectly(k)
           \/ BuildTm \/ ReportOther
           \/ \E kind \in ProgressKinds : EmitProgress(kind) \/ BuildProgress(kind)
    PROVE  NestInv' /\ IssueInv'
<1>1. UNCHANGED <<tc, reports>> /\ (stack # <<>> => Top.pc \in AppContexts)
  BY AppCallsTop DEF InvokeDirectly, BuildTm, ReportOther, EmitProgress, BuildProgress, AppEnters, history
<1>2. CASE UNCHANGED stack
  BY <1>1, <1>2 DEF NestInv, IssueInv, Received
<1>3. ASSUME NEW g \in Frames,
             Pushed(g), g.pc \in {"handler", "stamp"},
             \/ g.req = NoReq
             \/ /\ g.pc = "stamp" /\ g.kind \in ProgressKinds
                /\ stack # <<>> /\ Top.pc = "handler" /\ Top.req = g.req
      PROVE  NestInv' /\ IssueInv'
  <2>1. g.pc \notin ProcessPcs /\ (stack # <<>> => Top.pc \notin ProcessPcs)
    BY <1>1, <1>3, PcsApart DEF ProcessPcs
  <2>2. g.pc = "stamp" => g.pc \in PacketPcs
    BY DEF PacketPcs
  <2>3. stack # <<>> => Lies(Top, g, tc[Top.req].ack)
    BY <1>3, <2>1, <2>2 DEF Lies, AboutRequest
  <2>4. stack = <<>> => ~AboutRequest(g)
    BY <1>3 DEF AboutRequest
  <2> QED BY <1>1, <1>3, <2>1, <2>3, <2>4, AppEntersAbove
<1> QED BY <1>2, <1>3, AppFrames

\* Whatever the application is, and however deep it nests, requests, packets and
\* reports keep together.
VerifInv == ReceiveInv /\ NestInv /\ IssueInv

LEMMA StepVerifInv == TypeOK /\ VerifInv /\ [Next]_vars => VerifInv'
<1> SUFFICES ASSUME TypeOK, VerifInv, [Next]_vars PROVE VerifInv'
  OBVIOUS
<1>0. ReceiveInv /\ NestInv /\ IssueInv
  BY DEF VerifInv
<1>a. UNCHANGED <<tc, reports>> => ReceiveInv'
  BY <1>0 DEF ReceiveInv, Received
<1>1. CASE Configures \/ UNCHANGED vars
  <2>1. UNCHANGED <<stack, tc, reports>>
    BY <1>1, ConfiguresStack DEF Configures, InitContext, RegisterHandler, DeregisterHandler,
       SetTmSink, RejectTc, RejectTm, vars, history
  <2> QED BY <1>0, <1>a, <2>1 DEF VerifInv, NestInv, IssueInv, Received
<1>2. ASSUME NEW k \in Keys, NEW ack \in AckSets, ProcessTc(k, ack) PROVE VerifInv'
  BY <1>0, <1>2, ProcessTcNests DEF VerifInv
<1>3. CASE \/ \E k \in Keys : InvokeDirectly(k)
           \/ BuildTm \/ ReportOther
           \/ \E kind \in ProgressKinds : EmitProgress(kind) \/ BuildProgress(kind)
  <2>1. UNCHANGED <<tc, reports>>
    BY <1>3 DEF InvokeDirectly, BuildTm, ReportOther, EmitProgress, BuildProgress, history
  <2> QED BY <1>0, <1>3, <1>a, <2>1, AppCallNests DEF VerifInv
<1>4. CASE ProcessStep
  <2>1. /\ stack # <<>> /\ Top.pc \in ProcessPcs /\ UNCHANGED <<tc, reports>>
        /\ \E f \in Frames : Advances(f)
    BY <1>0, <1>4, ProcessStepAdvances
  <2>2. NestInv' /\ IssueInv'
    BY <1>0, <2>1, ProcessAdvances DEF Advances
  <2> QED BY <1>a, <2>1, <2>2 DEF VerifInv
<1>5. CASE StampHeader
  <2>1. UNCHANGED <<tc, reports>>
    BY <1>5 DEF StampHeader, history
  <2> QED BY <1>0, <1>5, <1>a, <2>1, StampHeaderNests DEF VerifInv
<1>6. CASE FinishPacket
  BY <1>0, <1>6, FinishPacketNests DEF VerifInv
<1>7. CASE ReturnFromProcess \/ ReturnFromPacket
           \/ \E d \in 1 .. Len(stack) : ReturnFromCallback(d)
  <2>1. UNCHANGED <<tc, reports>>
    BY <1>7 DEF ReturnFromProcess, ReturnFromPacket, ReturnFromCallback, history
  <2>2. Top.pc \notin Unfinished
    BY <1>7 DEF ReturnFromProcess, ReturnFromPacket, ReturnFromCallback, At, AppContext,
       CallbackPcs, AppContexts, Unfinished
  <2> QED BY <1>0, <1>7, <1>a, <2>1, <2>2, ReturnStack, ReturnKeepsReports DEF VerifInv
<1> QED BY StepCases, <1>1, <1>2, <1>3, <1>4, <1>5, <1>6, <1>7 DEF ProcessStep

LEMMA InitVerifInv == Init => VerifInv
<1> SUFFICES ASSUME Init PROVE VerifInv
  OBVIOUS
<1>1. Received = {}
  BY DEF Init, Received
<1>2. Received = 1 .. Cardinality(Received)
  BY <1>1, FS_EmptySet
<1> QED BY <1>1, <1>2 DEF Init, VerifInv, ReceiveInv, NestInv, IssueInv

----------------------------------------------------------------------------
(* Each step is one of RequestVerification, or is not seen there *)

\* Frames of other requests play no part in the phase of q: it stays when all its
\* frames lie in the part of the stack that stays.
NotOf(f, q) == f.pc \in ProcessPcs => f.req # q

LEMMA PhaseKept ==
    ASSUME NEW q, tc'[q] = tc[q], Len(stack) \in Nat, Len(stack') \in Nat,
           NEW m \in Nat, m <= Len(stack), m <= Len(stack'),
           \A i \in 1 .. m : stack'[i] = stack[i],
           \A i \in 1 .. Len(stack) : i > m => NotOf(stack[i], q),
           \A i \in 1 .. Len(stack') : i > m => NotOf(stack'[i], q)
    PROVE  Phase(q)' = Phase(q)
<1> DEFINE Mine == ProcessFrames(q)
<1>1. /\ Mine \subseteq 1 .. m
      /\ Mine' = Mine
  <2>1. \A i : i \in Mine => i \in 1 .. m
    BY DEF ProcessFrames, NotOf
  <2>2. \A i : i \in Mine' => i \in 1 .. m
    BY DEF ProcessFrames, NotOf
  <2>3. \A i \in 1 .. m : i \in Mine' <=> i \in Mine
    BY DEF ProcessFrames
  <2> QED BY <2>1, <2>2, <2>3
<1>2. CASE Mine = {}
  BY <1>1, <1>2 DEF Phase
<1>3. CASE Mine # {}
  <2> DEFINE i == CHOOSE j \in Mine : TRUE
  <2>1. i \in Mine /\ i' = i
    BY <1>1, <1>3
  <2>2. stack'[i] = stack[i]
    BY <1>1, <2>1
  <2>3. Phase(q) = IF tc[q] = NoTc THEN "idle" ELSE PhaseAt(stack[i])
    BY <1>3 DEF Phase
  <2>4. Phase(q)' = IF tc'[q] = NoTc THEN "idle" ELSE PhaseAt(stack'[i'])
    BY <1>1, <1>3 DEF Phase
  <2> HIDE DEF i
  <2> QED BY <2>1, <2>2, <2>3, <2>4
<1> QED BY <1>2, <1>3

\* The phase of a request is that of its only frame of pus_tc_process.
LEMMA PhaseIs ==
    ASSUME NestInv, NEW r, tc[r] # NoTc,
           NEW i \in 1 .. Len(stack), stack[i].pc \in ProcessPcs, stack[i].req = r
    PROVE  Phase(r) = PhaseAt(stack[i])
<1>1. ProcessFrames(r) = {i}
  BY DEF ProcessFrames, NestInv
<1>2. (CHOOSE j \in ProcessFrames(r) : TRUE) = i
  BY <1>1
<1> QED BY <1>1, <1>2 DEF Phase

LEMMA PhaseBecomes ==
    ASSUME NestInv', NEW r, tc'[r] # NoTc,
           NEW i \in 1 .. Len(stack'), stack'[i].pc \in ProcessPcs, stack'[i].req = r
    PROVE  Phase(r)' = PhaseAt(stack'[i])
<1>1. ProcessFrames(r)' = {i}
  BY DEF ProcessFrames, NestInv
<1>2. (CHOOSE j \in ProcessFrames(r)' : TRUE) = i
  BY <1>1
<1> QED BY <1>1, <1>2 DEF Phase

LEMMA PhaseClosed ==
    ASSUME NEW r, tc'[r] # NoTc,
           \A i \in 1 .. Len(stack') : NotOf(stack'[i], r)
    PROVE  Phase(r)' = "closed"
<1>1. ProcessFrames(r)' = {}
  BY DEF ProcessFrames, NotOf
<1> QED BY <1>1 DEF Phase

\* One request moves.
LEMMA Moves ==
    ASSUME NEW r \in Requests, NEW from, NEW to, Phase(r) = from, Phase(r)' = to,
           \A q \in Requests \ {r} : Phase(q)' = Phase(q)
    PROVE  RV!Move(r, from, to)
BY DEF RV!Move

\* What a step changes that RequestVerification does not see.
LEMMA Stutters ==
    ASSUME UNCHANGED <<tc, reports>>, \A q \in Requests : Phase(q)' = Phase(q)
    PROVE  UNCHANGED RV!vars
BY DEF RV!vars

\* The step on request r is one of the abstract specification.
RequestStep(r) ==
    \/ \E flags \in SUBSET RV!Flags : RV!Receive(r, flags)
    \/ RV!Refuse(r)
    \/ RV!ReportRoutingFailure(r)
    \/ RV!ReportAcceptance(r)
    \/ RV!ReportStart(r)
    \/ RV!Execute(r)
    \/ \E kind \in RV!ProgressReports : RV!ReportProgress(r, kind)
    \/ \E outcome \in {"succeeded", "failed"} : RV!Finish(r, outcome)
    \/ RV!ReportCompletion(r, "succeeded", "completion_success")
    \/ RV!ReportCompletion(r, "failed", "completion_failure")
    \/ RV!Close(r)

LEMMA RequestStepIsNext ==
    ASSUME NEW r \in Requests, RequestStep(r)
    PROVE  RV!Next
BY DEF RequestStep, RV!Next

LEMMA AskedKept ==
    ASSUME UNCHANGED tc
    PROVE  [r \in Requests |-> tc[r].ack]' = [r \in Requests |-> tc[r].ack]
OBVIOUS

\* pus_tc_process goes on: routing, the end of the announcements, the start and the
\* end of execution show; the other steps do not.
LEMMA ProcessStepVerifies ==
    ASSUME TypeOK, VerifInv, VerifInv', ProcessStep
    PROVE  RV!Next \/ UNCHANGED RV!vars
<1>0. PICK r, n : r = Top.req /\ n = Len(stack)
  OBVIOUS
<1>1. /\ stack # <<>> /\ Top.pc \in ProcessPcs /\ UNCHANGED <<tc, reports>>
      /\ \E f \in Frames : Advances(f) /\ Follows(Top.pc, f.pc)
  BY ProcessStepAdvances DEF VerifInv
<1>2. PICK f \in Frames : Advances(f) /\ Follows(Top.pc, f.pc)
  BY <1>1
<1>3. n \in Nat \ {0} /\ Top = stack[n]
  BY <1>0, <1>1, TopResult DEF TypeOK
<1>4. /\ Issued(Top, "nothing", tc[r].ack, reports[r])
      /\ r \in Received /\ r \in Requests
  BY <1>0, <1>1, TopIssued DEF VerifInv
<1>5. /\ Len(stack') \in {n, n + 1}
      /\ \A i \in 1 .. n - 1 : stack'[i] = stack[i]
      /\ stack'[n] = f
      /\ Len(stack') = n + 1 => stack'[n + 1].pc \notin ProcessPcs
      /\ f.pc \in ProcessPcs /\ f.req = r
  <2>1. CASE Replaced(f)
    BY <1>0, <1>2, <1>3, <2>1 DEF Advances, Replaced
  <2>2. ASSUME NEW g \in Frames, ReplacedBelow(f, g), g.pc \notin ProcessPcs
        PROVE  /\ Len(stack') = n + 1
               /\ \A i \in 1 .. n - 1 : stack'[i] = stack[i]
               /\ stack'[n] = f /\ stack'[n + 1] = g
    BY <1>0, <1>3, <2>2 DEF ReplacedBelow
  <2> QED BY <1>0, <1>2, <2>1, <2>2 DEF Advances
<1>6. \A q \in Requests \ {r} : Phase(q)' = Phase(q)
  <2> SUFFICES ASSUME NEW q \in Requests \ {r} PROVE Phase(q)' = Phase(q)
    OBVIOUS
  <2>1. \A i \in 1 .. n : i > n - 1 => NotOf(stack[i], q)
    BY <1>0, <1>3 DEF NotOf
  <2>2. \A i \in 1 .. Len(stack') : i > n - 1 => NotOf(stack'[i], q)
    BY <1>3, <1>5 DEF NotOf
  <2>3. n - 1 \in Nat /\ n - 1 <= n /\ n - 1 <= Len(stack') /\ n \in Nat /\ Len(stack') \in Nat
    BY <1>3, <1>5
  <2>4. tc'[q] = tc[q]
    BY <1>1
  <2> QED BY <1>0, <1>5, <2>1, <2>2, <2>3, <2>4, PhaseKept
<1>7. tc[r] # NoTc /\ tc'[r] # NoTc
  BY <1>1, <1>4 DEF Received
<1>8. Phase(r) = PhaseAt(Top)
  <2>1. n \in 1 .. n
    BY <1>3
  <2> QED BY <1>0, <1>1, <1>3, <1>7, <2>1, PhaseIs DEF VerifInv
<1>9. Phase(r)' = PhaseAt(f)
  <2>1. n \in 1 .. Len(stack')
    BY <1>3, <1>5
  <2> QED BY <1>5, <1>7, <2>1, PhaseBecomes DEF VerifInv
<1>10. /\ UNCHANGED reports
       /\ [q \in Requests |-> tc[q].ack]' = [q \in Requests |-> tc[q].ack]
  BY <1>1, AskedKept
<1>11. CASE Top.pc = "find" /\ f.pc = "refused"
  <2>1. Phase(r) = "pending" /\ Phase(r)' = "refused"
    BY <1>8, <1>9, <1>11 DEF PhaseAt
  <2>2. reports[r] = <<>>
    BY <1>4, <1>11 DEF Issued
  <2>3. RV!Refuse(r)
    BY <1>4, <1>6, <1>10, <2>1, <2>2, Moves DEF RV!Refuse
  <2> QED BY <1>4, <2>3, RequestStepIsNext DEF RequestStep
<1>12. CASE Top.pc = "invoke" /\ f.pc = "completion"
  <2>1. Phase(r) = "pending" /\ Phase(r)' = "executing"
    BY <1>8, <1>9, <1>12 DEF PhaseAt
  <2>2. reports[r] = RV!Announced(tc[r].ack)
    BY <1>4, <1>12, NothingAbove DEF Issued
  <2>3. RV!Execute(r)
    BY <1>4, <1>6, <1>10, <2>1, <2>2, Moves DEF RV!Execute
  <2> QED BY <1>4, <2>3, RequestStepIsNext DEF RequestStep
<1>13. CASE Top.pc = "completion" /\ f.pc = "return"
  <2>0. PICK outcome : outcome = IF f.st = "OK" THEN "succeeded" ELSE "failed"
    OBVIOUS
  <2>1. Phase(r) = "executing" /\ Phase(r)' = outcome
    BY <1>8, <1>9, <1>13, <2>0 DEF PhaseAt
  <2>2. RV!Move(r, "executing", outcome)
    BY <1>4, <1>6, <2>1, Moves
  <2>3. outcome \in {"succeeded", "failed"}
    BY <2>0
  <2>4. RV!Finish(r, outcome)
    BY <1>10, <2>2 DEF RV!Finish
  <2> QED BY <1>4, <2>3, <2>4, RequestStepIsNext DEF RequestStep
<1>14. CASE \/ Top.pc = "find" /\ f.pc = "acceptance"
            \/ Top.pc = "acceptance" /\ f.pc = "start"
            \/ Top.pc = "start" /\ f.pc = "invoke"
  <2>1. Phase(r)' = Phase(r)
    BY <1>8, <1>9, <1>14 DEF PhaseAt
  <2> QED BY <1>1, <1>6, <2>1, Stutters
<1> QED BY <1>2, <1>11, <1>12, <1>13, <1>14 DEF Follows

\* A telecommand is taken for processing.
LEMMA ProcessTcVerifies ==
    ASSUME TypeOK, VerifInv, VerifInv',
           NEW k \in Keys, NEW ack \in AckSets, ProcessTc(k, ack)
    PROVE  RV!Next
<1>0. PICK r, n : r = Cardinality(Received) + 1 /\ n = Len(stack)
  OBVIOUS
<1>1. /\ r \in Requests \ Received
      /\ tc' = [tc EXCEPT ![r] = [key |-> k, ack |-> ack]]
      /\ Received' = Received \cup {r}
      /\ UNCHANGED reports
      /\ \E g \in Frames : Pushed(g) /\ g.pc = "find" /\ g.req = r
  BY <1>0, ReceiveTc DEF VerifInv
<1>2. PICK g \in Frames : Pushed(g) /\ g.pc = "find" /\ g.req = r
  BY <1>1
<1>3. /\ n \in Nat /\ Len(stack') = n + 1
      /\ \A i \in 1 .. n : stack'[i] = stack[i]
      /\ stack'[n + 1] = g
      /\ n + 1 \in 1 .. Len(stack')
  BY <1>0, <1>2 DEF Pushed
<1>4. /\ tc'[r] = [key |-> k, ack |-> ack]
      /\ \A q \in Requests \ {r} : tc'[q] = tc[q]
  BY <1>1 DEF TypeOK
<1>5. \A q \in Requests \ {r} : Phase(q)' = Phase(q)
  <2> SUFFICES ASSUME NEW q \in Requests \ {r} PROVE Phase(q)' = Phase(q)
    OBVIOUS
  <2>1. \A i \in 1 .. n : i > n => NotOf(stack[i], q)
    BY <1>3
  <2>2. \A i \in 1 .. Len(stack') : i > n => NotOf(stack'[i], q)
    BY <1>2, <1>3 DEF NotOf
  <2>3. n <= n /\ n <= Len(stack') /\ Len(stack') \in Nat
    BY <1>3
  <2> QED BY <1>0, <1>3, <1>4, <2>1, <2>2, <2>3, PhaseKept
<1>6. Phase(r) = "idle"
  <2>1. tc[r] = NoTc
    BY <1>1 DEF Received
  <2> QED BY <2>1 DEF Phase
<1>7. Phase(r)' = "pending"
  <2>1. tc'[r] # NoTc
    BY <1>4, NoKeyAssumption DEF NoTc
  <2>2. g.pc \in ProcessPcs
    BY <1>2 DEF ProcessPcs
  <2>3. Phase(r)' = PhaseAt(stack'[n + 1])
    BY <1>2, <1>3, <2>1, <2>2, PhaseBecomes DEF VerifInv
  <2> QED BY <1>2, <1>3, <2>3 DEF PhaseAt
<1>8. RV!Move(r, "idle", "pending")
  BY <1>1, <1>5, <1>6, <1>7, Moves
<1>9. [q \in Requests |-> tc[q].ack]' = [[q \in Requests |-> tc[q].ack] EXCEPT ![r] = ack]
  <2>1. \A q \in Requests : tc'[q].ack = IF q = r THEN ack ELSE tc[q].ack
    BY <1>4
  <2> QED BY <2>1
<1>10. ack \in SUBSET RV!Flags
  BY AckSetsAssumption DEF RV!Flags, Flags
<1>11. RV!Receive(r, ack)
  BY <1>1, <1>8, <1>9 DEF RV!Receive
<1> QED BY <1>1, <1>10, <1>11, RequestStepIsNext DEF RequestStep

\* Calls of the application that take no telecommand.
LEMMA AppCallStutters ==
    ASSUME TypeOK,
           \/ \E k \in Keys : InvokeDirectly(k)
           \/ BuildTm \/ ReportOther
           \/ \E kind \in ProgressKinds : EmitProgress(kind) \/ BuildProgress(kind)
    PROVE  UNCHANGED RV!vars
<1>1. UNCHANGED <<tc, reports>>
  BY DEF InvokeDirectly, BuildTm, ReportOther, EmitProgress, BuildProgress, history
<1>2. CASE UNCHANGED stack
  <2>1. \A q \in Requests : Phase(q)' = Phase(q)
    BY <1>1, <1>2 DEF Phase, ProcessFrames
  <2> QED BY <1>1, <2>1, Stutters
<1>3. ASSUME NEW g \in Frames, Pushed(g), g.pc \in {"handler", "stamp"}
      PROVE  UNCHANGED RV!vars
  <2>0. PICK n : n = Len(stack)
    OBVIOUS
  <2>1. /\ n \in Nat /\ Len(stack') = n + 1
        /\ \A i \in 1 .. n : stack'[i] = stack[i]
        /\ stack'[n + 1] = g /\ g.pc \notin ProcessPcs
    BY <1>3, <2>0 DEF Pushed, ProcessPcs
  <2>2. ASSUME NEW q \in Requests PROVE Phase(q)' = Phase(q)
    <3>1. \A i \in 1 .. n : i > n => NotOf(stack[i], q)
      BY <2>1
    <3>2. \A i \in 1 .. Len(stack') : i > n => NotOf(stack'[i], q)
      BY <2>1 DEF NotOf
    <3>3. n <= n /\ n <= Len(stack') /\ Len(stack') \in Nat
      BY <2>1
    <3> QED BY <1>1, <2>0, <2>1, <3>1, <3>2, <3>3, PhaseKept
  <2> QED BY <1>1, <2>2, Stutters
<1> QED BY <1>2, <1>3, AppFrames

\* A packet goes on: no request changes its phase.
LEMMA PacketKeepsPhases ==
    ASSUME TypeOK, stack # <<>>, Top.pc \in PacketPcs, UNCHANGED tc,
           NEW f \in Frames, f.pc \in PacketPcs,
           Replaced(f) \/ \E g \in Frames : ReplacedBelow(f, g) /\ g.pc \in {"sink", "clock"}
    PROVE  \A q \in Requests : Phase(q)' = Phase(q)
<1>0. PICK n : n = Len(stack)
  OBVIOUS
<1>1. /\ n \in Nat \ {0} /\ Top = stack[n]
      /\ Len(stack') \in {n, n + 1}
      /\ \A i \in 1 .. n - 1 : stack'[i] = stack[i]
      /\ stack'[n] = f
      /\ Len(stack') = n + 1 => stack'[n + 1].pc \in {"sink", "clock"}
  <2>1. n \in Nat \ {0} /\ Top = stack[n]
    BY <1>0, TopResult DEF TypeOK
  <2>2. CASE Replaced(f)
    BY <1>0, <2>1, <2>2 DEF Replaced
  <2>3. ASSUME NEW g \in Frames, ReplacedBelow(f, g), g.pc \in {"sink", "clock"}
        PROVE  /\ Len(stack') = n + 1
               /\ \A i \in 1 .. n - 1 : stack'[i] = stack[i]
               /\ stack'[n] = f /\ stack'[n + 1] = g
    BY <1>0, <2>1, <2>3 DEF ReplacedBelow
  <2> QED BY <2>1, <2>2, <2>3
<1>2. ASSUME NEW q \in Requests PROVE Phase(q)' = Phase(q)
  <2>1. \A i \in 1 .. n : i > n - 1 => NotOf(stack[i], q)
    BY <1>1, PcsApart DEF NotOf
  <2>2. \A i \in 1 .. Len(stack') : i > n - 1 => NotOf(stack'[i], q)
    BY <1>1, PcsApart DEF NotOf
  <2>3. n - 1 \in Nat /\ n - 1 <= n /\ n - 1 <= Len(stack') /\ n \in Nat /\ Len(stack') \in Nat
    BY <1>1
  <2> QED BY <1>0, <1>1, <2>1, <2>2, <2>3, PhaseKept
<1> QED BY <1>2

LEMMA StampHeaderStutters ==
    ASSUME TypeOK, StampHeader
    PROVE  UNCHANGED RV!vars
<1>1. stack # <<>> /\ Top.pc \in PacketPcs /\ UNCHANGED <<tc, reports>>
  BY DEF StampHeader, At, PacketPcs, history
<1>2. PICK f \in Frames :
          /\ f.pc = "count"
          /\ Replaced(f) \/ \E g \in Frames : ReplacedBelow(f, g) /\ g.pc \in {"sink", "clock"}
  BY StampHeaderFrames
<1>3. f.pc \in PacketPcs
  BY <1>2 DEF PacketPcs
<1> QED BY <1>1, <1>2, <1>3, PacketKeepsPhases, Stutters

\* A call returns.  Only the one of pus_tc_process closes a request, and by then the
\* last report about it was issued.
LEMMA ReturnVerifies ==
    ASSUME TypeOK, VerifInv,
           \/ ReturnFromProcess
           \/ ReturnFromPacket
           \/ \E d \in 1 .. Len(stack) : ReturnFromCallback(d)
    PROVE  RV!Next \/ UNCHANGED RV!vars
<1>0. PICK n, r : n = Len(stack) /\ r = Top.req
  OBVIOUS
<1>1. UNCHANGED <<tc, reports>>
  BY DEF ReturnFromProcess, ReturnFromPacket, ReturnFromCallback, history
<1>2. /\ n \in Nat \ {0} /\ Top = stack[n]
      /\ stack # <<>> /\ Len(stack') = n - 1
      /\ \A i \in 1 .. n - 1 : stack'[i] = stack[i]
  BY <1>0, ReturnStack, TopResult DEF Returned, TypeOK
<1>3. ASSUME NEW q \in Requests, NotOf(Top, q) PROVE Phase(q)' = Phase(q)
  <2>1. \A i \in 1 .. n : i > n - 1 => NotOf(stack[i], q)
    BY <1>2, <1>3
  <2>2. \A i \in 1 .. Len(stack') : i > n - 1 => NotOf(stack'[i], q)
    BY <1>2
  <2>3. n - 1 \in Nat /\ n - 1 <= n /\ n - 1 <= Len(stack') /\ n \in Nat /\ Len(stack') \in Nat
    BY <1>2
  <2> QED BY <1>0, <1>1, <1>2, <2>1, <2>2, <2>3, PhaseKept
<1>4. CASE Top.pc \notin ProcessPcs
  BY <1>1, <1>3, <1>4, Stutters DEF NotOf
<1>5. CASE ReturnFromProcess
  <2>1. Top.pc \in {"return", "refused"} /\ Top.pc \in ProcessPcs
    BY <1>5 DEF ReturnFromProcess, At, ProcessPcs
  <2>2. /\ Issued(Top, "nothing", tc[r].ack, reports[r])
        /\ r \in Received /\ r \in Requests
    BY <1>0, <1>2, <2>1, TopIssued DEF VerifInv
  <2>3. tc[r] # NoTc /\ tc'[r] # NoTc
    BY <1>1, <2>2 DEF Received
  <2>4. Phase(r) = PhaseAt(Top)
    <3>1. n \in 1 .. n
      BY <1>2
    <3> QED BY <1>0, <1>2, <2>1, <2>3, <3>1, PhaseIs DEF VerifInv
  <2>5. Phase(r)' = "closed"
    <3>1. \A i \in 1 .. Len(stack') : NotOf(stack'[i], r)
      <4> SUFFICES ASSUME NEW i \in 1 .. Len(stack'), stack'[i].pc \in ProcessPcs,
                          stack'[i].req = r
                   PROVE  FALSE
        BY DEF NotOf
      <4>1. i \in 1 .. n /\ n \in 1 .. n /\ i # n /\ stack'[i] = stack[i]
        BY <1>2
      <4> QED BY <1>0, <1>2, <2>1, <4>1 DEF VerifInv, NestInv
    <3> QED BY <2>3, <3>1, PhaseClosed
  <2>6. \A q \in Requests \ {r} : Phase(q)' = Phase(q)
    BY <1>0, <1>3 DEF NotOf
  <2>7. PICK from : from = PhaseAt(Top)
    OBVIOUS
  <2>8. RV!Move(r, from, "closed")
    BY <2>2, <2>4, <2>5, <2>6, <2>7, Moves
  <2>9. \/ from = "refused" /\ RV!Reported(r, "routing_failure")
        \/ /\ from = "succeeded"
           /\ "completion" \in tc[r].ack => RV!Reported(r, "completion_success")
        \/ /\ from = "failed"
           /\ "completion" \in tc[r].ack => RV!Reported(r, "completion_failure")
    <3>1. CASE Top.pc = "refused"
      BY <2>2, <2>7, <3>1, NothingAbove DEF PhaseAt, Issued, RV!Reported
    <3>2. CASE Top.pc = "return"
      <4>1. from = IF Top.st = "OK" THEN "succeeded" ELSE "failed"
        BY <2>7, <3>2 DEF PhaseAt
      <4>2. "completion" \in tc[r].ack =>
                RV!Reported(r, IF Top.st = "OK" THEN "completion_success"
                                                ELSE "completion_failure")
        BY <2>2, <3>2, NothingAbove DEF Issued, Emits, RV!Reported
      <4> QED BY <4>1, <4>2
    <3> QED BY <2>1, <3>1, <3>2
  <2>10. RV!Close(r)
    BY <1>1, <2>2, <2>4, <2>7, <2>8, <2>9, AskedKept DEF RV!Close
  <2> QED BY <2>2, <2>10, RequestStepIsNext DEF RequestStep
<1>6. CASE ReturnFromPacket
  BY <1>4, <1>6 DEF ReturnFromPacket, At, ProcessPcs
<1>7. CASE \E d \in 1 .. Len(stack) : ReturnFromCallback(d)
  BY <1>2, <1>4, <1>7, PcsApart DEF ReturnFromCallback, AppContext, CallbackPcs
<1> QED BY <1>5, <1>6, <1>7

\* A report is complete: it is one that the promise allows at this point.
LEMMA FinishPacketVerifies ==
    ASSUME TypeOK, VerifInv, FinishPacket
    PROVE  RV!Next \/ UNCHANGED RV!vars
<1>0. PICK n, r, kind : n = Len(stack) /\ r = Top.req /\ kind = Top.kind
  OBVIOUS
<1>1. /\ stack # <<>> /\ Top.pc = "count" /\ UNCHANGED tc
      /\ reports' = IF r = NoReq THEN reports ELSE [reports EXCEPT ![r] = Append(@, kind)]
  BY <1>0 DEF FinishPacket, At
<1>2. Top.pc \in PacketPcs /\ Top.pc \in Unfinished
  BY <1>1 DEF PacketPcs, Unfinished
<1>3. \A q \in Requests : Phase(q)' = Phase(q)
  <2>1. PICK f \in Frames :
            /\ f.pc = "sent"
            /\ Replaced(f) \/ \E g \in Frames : ReplacedBelow(f, g) /\ g.pc \in {"sink", "clock"}
    BY FinishPacketFrames
  <2>2. f.pc \in PacketPcs
    BY <2>1 DEF PacketPcs
  <2> QED BY <1>1, <1>2, <2>1, <2>2, PacketKeepsPhases
<1>4. CASE r = NoReq
  BY <1>1, <1>3, <1>4, Stutters
<1>5. CASE r # NoReq
  <2>1. PICK p \in 1 .. n - 1 :
            /\ p \in 1 .. n
            /\ stack[p].pc \in ProcessPcs /\ stack[p].req = r
            /\ \/ p = n - 1 /\ Above(stack, p) = Top.pc /\ Emits(stack[p], kind, tc[r].ack)
               \/ stack[p].pc = "completion" /\ kind \in ProgressKinds
    BY <1>0, <1>1, <1>2, <1>5, TopPacket DEF VerifInv
  <2>2. r \in Received /\ r \in Requests /\ tc[r] # NoTc
    BY <1>0, <2>1 DEF VerifInv, NestInv, Received
  <2>3. Phase(r) = PhaseAt(stack[p])
    BY <1>0, <2>1, <2>2, PhaseIs DEF VerifInv
  <2>4. Issued(stack[p], Above(stack, p), tc[r].ack, reports[r])
    BY <1>0, <2>1 DEF VerifInv, IssueInv
  <2>5. /\ UNCHANGED <<[q \in Requests |-> Phase(q)], [q \in Requests |-> tc[q].ack]>>
        /\ RV!Report(r, kind)
    BY <1>1, <1>3, <1>5, AskedKept DEF RV!Report
  <2>6. CASE stack[p].pc = "completion" /\ kind \in ProgressKinds
    <3>1. RV!ReportProgress(r, kind)
      BY <2>2, <2>3, <2>5, <2>6 DEF PhaseAt, RV!ReportProgress
    <3>2. kind \in RV!ProgressReports
      BY <2>6 DEF ProgressKinds, RV!ProgressReports
    <3> QED BY <2>2, <3>1, <3>2, RequestStepIsNext DEF RequestStep
  <2>7. CASE Above(stack, p) = Top.pc /\ Emits(stack[p], kind, tc[r].ack)
    <3>1. CASE stack[p].pc = "start"
      <4>1. "acceptance" \in tc[r].ack /\ kind = "acceptance_success" /\ reports[r] = <<>>
        BY <1>2, <2>4, <2>7, <3>1 DEF Issued, Emits
      <4>2. RV!ReportAcceptance(r)
        BY <2>2, <2>3, <2>5, <3>1, <4>1 DEF PhaseAt, RV!ReportAcceptance
      <4> QED BY <2>2, <4>2, RequestStepIsNext DEF RequestStep
    <3>2. CASE stack[p].pc = "invoke"
      <4>1. /\ "start" \in tc[r].ack /\ kind = "start_success"
            /\ reports[r] = RV!Announced(tc[r].ack \ {"start"})
        BY <1>2, <2>4, <2>7, <3>2 DEF Issued, Emits
      <4>2. RV!ReportStart(r)
        BY <2>2, <2>3, <2>5, <3>2, <4>1 DEF PhaseAt, RV!ReportStart
      <4> QED BY <2>2, <4>2, RequestStepIsNext DEF RequestStep
    <3>3. CASE stack[p].pc = "return"
      <4>1. /\ "completion" \in tc[r].ack
            /\ \A i \in DOMAIN reports[r] : reports[r][i] \notin CompletionKinds
        BY <1>2, <2>4, <2>7, <3>3 DEF Issued, Emits
      <4>2. CASE stack[p].st = "OK"
        <5>1. kind = "completion_success" /\ Phase(r) = "succeeded"
          BY <2>3, <2>7, <3>3, <4>2 DEF Emits, PhaseAt
        <5>2. RV!ReportCompletion(r, "succeeded", "completion_success")
          BY <2>2, <2>5, <4>1, <5>1 DEF RV!ReportCompletion, RV!Reported, CompletionKinds
        <5> QED BY <2>2, <5>2, RequestStepIsNext DEF RequestStep
      <4>3. CASE stack[p].st # "OK"
        <5>1. kind = "completion_failure" /\ Phase(r) = "failed"
          BY <2>3, <2>7, <3>3, <4>3 DEF Emits, PhaseAt
        <5>2. RV!ReportCompletion(r, "failed", "completion_failure")
          BY <2>2, <2>5, <4>1, <5>1 DEF RV!ReportCompletion, RV!Reported, CompletionKinds
        <5> QED BY <2>2, <5>2, RequestStepIsNext DEF RequestStep
      <4> QED BY <4>2, <4>3
    <3>4. CASE stack[p].pc = "refused"
      <4>1. kind = "routing_failure" /\ reports[r] = <<>>
        BY <1>2, <2>4, <2>7, <3>4 DEF Issued, Emits
      <4>2. RV!ReportRoutingFailure(r)
        BY <2>2, <2>3, <2>5, <3>4, <4>1 DEF PhaseAt, RV!ReportRoutingFailure
      <4> QED BY <2>2, <4>2, RequestStepIsNext DEF RequestStep
    <3> QED BY <2>7, <3>1, <3>2, <3>3, <3>4 DEF Emits
  <2> QED BY <2>1, <2>6, <2>7
<1> QED BY <1>4, <1>5

LEMMA StepVerifies == TypeOK /\ VerifInv /\ VerifInv' /\ [Next]_vars => [RV!Next]_(RV!vars)
<1> SUFFICES ASSUME TypeOK, VerifInv, VerifInv', [Next]_vars
             PROVE  RV!Next \/ UNCHANGED RV!vars
  OBVIOUS
<1>1. CASE Configures \/ UNCHANGED vars
  <2>1. UNCHANGED <<stack, tc, reports>>
    BY <1>1, ConfiguresStack DEF Configures, InitContext, RegisterHandler, DeregisterHandler,
       SetTmSink, RejectTc, RejectTm, vars, history
  <2>2. \A q \in Requests : Phase(q)' = Phase(q)
    BY <2>1 DEF Phase, ProcessFrames
  <2> QED BY <2>1, <2>2, Stutters
<1>2. ASSUME NEW k \in Keys, NEW ack \in AckSets, ProcessTc(k, ack) PROVE RV!Next
  BY <1>2, ProcessTcVerifies
<1>3. CASE \/ \E k \in Keys : InvokeDirectly(k)
           \/ BuildTm \/ ReportOther
           \/ \E kind \in ProgressKinds : EmitProgress(kind) \/ BuildProgress(kind)
  BY <1>3, AppCallStutters
<1>4. CASE ProcessStep
  BY <1>4, ProcessStepVerifies
<1>5. CASE StampHeader
  BY <1>5, StampHeaderStutters
<1>6. CASE FinishPacket
  BY <1>6, FinishPacketVerifies
<1>7. CASE ReturnFromProcess \/ ReturnFromPacket
           \/ \E d \in 1 .. Len(stack) : ReturnFromCallback(d)
  BY <1>7, ReturnVerifies
<1> QED BY StepCases, <1>1, <1>2, <1>3, <1>4, <1>5, <1>6, <1>7 DEF ProcessStep

LEMMA InitVerifies == Init => RV!Init
<1> SUFFICES ASSUME Init PROVE RV!Init
  OBVIOUS
<1>1. \A r \in Requests : Phase(r) = "idle" /\ tc[r].ack = {}
  BY DEF Init, Phase, NoTc
<1> QED BY <1>1 DEF Init, RV!Init

\* Whatever the application registers, calls from its callbacks and returns, and
\* however requests nest: pus_tc_process issues about each telecommand the reports
\* that its acknowledgement flags ask for, each at its time and with the outcome that
\* the handler returned, and returns only after the last one (pus.c 34-112).
THEOREM RequestsAreVerified == Spec => ImplementsVerification
<1>1. Init => RV!Init
  BY InitVerifies
<1>2. Spec => []TypeOK
  BY TypeCorrect
<1>3. Spec => []VerifInv
  <2>1. Init => VerifInv
    BY InitVerifInv
  <2>2. TypeOK /\ VerifInv /\ [Next]_vars => VerifInv'
    BY StepVerifInv
  <2> QED BY <1>2, <2>1, <2>2, PTL DEF Spec
<1>4. TypeOK /\ VerifInv /\ VerifInv' /\ [Next]_vars => [RV!Next]_(RV!vars)
  BY StepVerifies
<1> QED BY <1>1, <1>2, <1>3, <1>4, PTL DEF Spec, ImplementsVerification, RV!Spec

----------------------------------------------------------------------------
(* Routing, when callbacks may process telecommands but not remove handlers *)

\* The entry found stays used and stays under the telecommand's key until the call,
\* whatever runs above.
RoutedInv ==
    /\ NoDuplicates(table)
    /\ \A i \in 1 .. Len(stack) :
          stack[i].pc \in PreDispatch => stack[i].idx \in Holding(table, tc[stack[i].req].key)

LEMMA RouteIsRouted == RouteInv => RoutedInv
BY DEF RouteInv, RoutedInv

LEMMA RoutedRoutes == RoutedInv => RoutingStaysValid
BY FindIsTheHolder DEF RoutedInv, RoutingStaysValid, PreDispatch

\* Whoever removes handlers is at top level.
LEMMA RemovedAtTopLevel ==
    ASSUME HandlersStay, TypeOK, NEW call \in {"pus_init", "deregister"}, AppCalls(call)
    PROVE  stack = <<>>
<1> SUFFICES ASSUME stack # <<>> PROVE FALSE
  OBVIOUS
<1>1. Top.pc \in AppContexts /\ call \in MayCall[Top.pc]
  BY AppCallsTop
<1>2. Top.pc \in Pcs
  BY TopResult DEF TypeOK, Frames, Pcs
<1>3. Top.pc \in {"handler", "sink", "clock"}
  BY <1>1, <1>2 DEF AppContexts, Pcs, ProcessPcs, PacketPcs, CallbackPcs
<1> QED BY <1>1, <1>3 DEF HandlersStay

LEMMA SteppedRouted ==
    ASSUME TypeOK, RoutedInv, UNCHANGED <<table, tc>>,
           NEW f \in Frames, NEW G, Stepped(f, G), G \cap PreDispatch = {},
           f.pc \in PreDispatch => f.idx \in Holding(table, tc[f.req].key)
    PROVE  RoutedInv'
<1>1. ASSUME NEW i \in 1 .. Len(stack'), stack'[i].pc \in PreDispatch
      PROVE  stack'[i].idx \in Holding(table, tc[stack'[i].req].key)
  <2>1. PICK n \in Nat \ {0} : n = Len(stack)
    BY DEF Stepped
  <2>2. CASE i \in 1 .. n - 1
    <3>1. stack'[i] = stack[i] /\ i \in 1 .. Len(stack)
      BY <2>1, <2>2 DEF Stepped
    <3> QED BY <1>1, <3>1 DEF RoutedInv
  <2>3. CASE i = n
    BY <1>1, <2>1, <2>3 DEF Stepped
  <2>4. CASE i = n + 1
    BY <1>1, <2>1, <2>4 DEF Stepped
  <2>5. i \in 1 .. n - 1 \/ i = n \/ i = n + 1
    BY <2>1 DEF Stepped
  <2> QED BY <2>2, <2>3, <2>4, <2>5
<1> QED BY <1>1 DEF RoutedInv

\* Frames are only added that have not found their entry, or frames are left.
LEMMA RoutedKept ==
    ASSUME TypeOK, RoutedInv, UNCHANGED table,
           \A i \in 1 .. Len(stack') : stack'[i].pc \in PreDispatch =>
               /\ i \in 1 .. Len(stack) /\ stack'[i] = stack[i]
               /\ tc'[stack[i].req] = tc[stack[i].req]
    PROVE  RoutedInv'
BY DEF RoutedInv

LEMMA StepRoutedInv ==
    ASSUME HandlersStay, TypeOK, VerifInv, RoutedInv, [Next]_vars
    PROVE  RoutedInv'
<1>0. /\ stack \in Seq(Frames) /\ table \in Tables /\ NoDuplicates(table)
      /\ ReceiveInv /\ NestInv /\ IssueInv
  BY DEF TypeOK, RoutedInv, VerifInv
<1>a. /\ PreDispatch \cap {"stamp", "clock", "sink", "handler", "find", "count", "sent",
                            "completion", "return", "refused"} = {}
      /\ PreDispatch \subseteq ProcessPcs
  BY DEF PreDispatch, ProcessPcs
<1>1. CASE Configures
  <2>1. CASE InitContext
    <3>1. stack = <<>> /\ UNCHANGED stack /\ NoDuplicates(table')
      BY <2>1, RemovedAtTopLevel, EmptyTableFacts DEF InitContext
    <3> QED BY <3>1 DEF RoutedInv
  <2>2. ASSUME NEW k \in Keys, DeregisterHandler(k) PROVE RoutedInv'
    <3>1. stack = <<>> /\ UNCHANGED stack
      BY <2>2, RemovedAtTopLevel DEF DeregisterHandler
    <3>2. NoDuplicates(table')
      BY <1>0, <2>2, ClearKeepsNoDuplicates DEF DeregisterHandler
    <3> QED BY <3>1, <3>2 DEF RoutedInv
  <2>3. ASSUME NEW k \in Keys, NEW v \in Values, RegisterHandler(k, v) PROVE RoutedInv'
    <3>1. UNCHANGED <<stack, tc>>
      BY <2>3 DEF RegisterHandler, history
    <3>2. NoDuplicates(table')
      BY <1>0, <2>3, StoreKeepsNoDuplicates DEF RegisterHandler
    <3>3. \A i \in UsedSlots(table) : i \in UsedSlots(table') /\ table'[i].key = table[i].key
      BY <1>0, <2>3, StoreKeepsEntries DEF RegisterHandler
    <3>4. \A kk : Holding(table, kk) \subseteq Holding(table', kk)
      BY <3>3 DEF Holding
    <3> QED BY <3>1, <3>2, <3>4 DEF RoutedInv
  <2>4. CASE SetTmSink \/ RejectTc \/ RejectTm
    <3>1. UNCHANGED <<stack, table, tc>>
      BY <2>4 DEF SetTmSink, RejectTc, RejectTm, ctxVars, history
    <3> QED BY <3>1 DEF RoutedInv
  <2> QED BY <1>1, <2>1, <2>2, <2>3, <2>4 DEF Configures
<1>2. ASSUME NEW k \in Keys, NEW ack \in AckSets, ProcessTc(k, ack) PROVE RoutedInv'
  <2>1. PICK r, g : /\ r \in Requests \ Received
                    /\ tc' = [tc EXCEPT ![r] = [key |-> k, ack |-> ack]]
                    /\ g \in Frames /\ Pushed(g) /\ g.pc = "find"
    BY <1>0, <1>2, ReceiveTc
  <2>2. UNCHANGED table
    BY <1>2 DEF ProcessTc, ctxVars
  <2>3. \A i \in 1 .. Len(stack') : stack'[i].pc \in PreDispatch =>
            i \in 1 .. Len(stack) /\ stack'[i] = stack[i]
    BY <1>a, <2>1 DEF Pushed
  <2>4. ASSUME NEW i \in 1 .. Len(stack), stack[i].pc \in PreDispatch
        PROVE  tc'[stack[i].req] = tc[stack[i].req]
    <3>1. stack[i].req \in Received /\ stack[i].req \in Requests
      BY <1>0, <1>a, <2>4 DEF NestInv, Received
    <3> QED BY <2>1, <3>1 DEF TypeOK
  <2> QED BY <2>2, <2>3, <2>4, RoutedKept
<1>3. CASE \/ \E k \in Keys : InvokeDirectly(k)
           \/ BuildTm \/ ReportOther
           \/ \E kind \in ProgressKinds : EmitProgress(kind) \/ BuildProgress(kind)
  <2>1. UNCHANGED stack \/ Entered({"stamp", "handler"})
    BY <1>3, BuildTmStack, ProgressStack, InvokeDirectlyStack DEF Entered
  <2>2. UNCHANGED <<table, tc>>
    BY <1>3 DEF BuildTm, ReportOther, EmitProgress, BuildProgress, InvokeDirectly, ctxVars, history
  <2>3. \A i \in 1 .. Len(stack') : stack'[i].pc \in PreDispatch =>
            i \in 1 .. Len(stack) /\ stack'[i] = stack[i]
    BY <1>0, <1>a, <2>1 DEF Entered
  <2> QED BY <2>2, <2>3, RoutedKept
<1>4. CASE ProcessStep
  <2>1. UNCHANGED <<table, tc>> /\ stack # <<>>
    BY <1>4 DEF ProcessStep, FindHandler, EmitAcceptance, EmitStart, InvokeHandler,
                EmitCompletion, ctxVars, history, At
  <2>2. EmitAcceptance \/ EmitStart => Top.idx \in Holding(table, tc[Top.req].key)
    <3>1. Top = stack[Len(stack)] /\ Len(stack) \in 1 .. Len(stack)
      BY <1>0, <2>1, TopResult
    <3>2. EmitAcceptance \/ EmitStart => Top.pc \in PreDispatch
      BY DEF EmitAcceptance, EmitStart, At, PreDispatch
    <3> QED BY <3>1, <3>2 DEF RoutedInv
  <2>3. PICK f \in Frames :
            /\ Stepped(f, {"stamp", "handler"})
            /\ f.pc \in PreDispatch => f.idx \in Holding(table, tc[f.req].key)
    <3>1. CASE FindHandler
      <4>1. PICK f \in Frames : /\ Stepped(f, {"stamp"}) /\ f.req = Top.req
                                /\ \/ f.pc = "refused"
                                   \/ f.idx \in Holding(table, tc[Top.req].key)
        BY <3>1, FindHandlerStack
      <4> QED BY <1>a, <4>1, SteppedWeaken
    <3>2. CASE EmitAcceptance \/ EmitStart
      <4>1. PICK f \in Frames : Stepped(f, {"stamp"}) /\ f.req = Top.req /\ f.idx = Top.idx
        BY <3>2, EmitAcceptanceStack, EmitStartStack
      <4> QED BY <2>2, <3>2, <4>1, SteppedWeaken
    <3>3. CASE InvokeHandler \/ EmitCompletion
      <4>1. PICK f \in Frames : /\ Stepped(f, {"stamp"}) \/ Stepped(f, {"handler"})
                                /\ f.pc \in {"completion", "return"}
        BY <3>3, InvokeHandlerStack, EmitCompletionStack
      <4> QED BY <1>a, <4>1, SteppedWeaken
    <3> QED BY <1>4, <3>1, <3>2, <3>3 DEF ProcessStep
  <2> QED BY <1>a, <2>1, <2>3, SteppedRouted
<1>5. CASE StampHeader \/ FinishPacket
  <2>1. PICK f \in Frames : Stepped(f, {"clock", "sink"}) /\ f.pc \in {"count", "sent"}
    BY <1>5, StampHeaderStack, FinishPacketStack, SteppedWeaken
  <2>2. UNCHANGED <<table, tc>>
    BY <1>5 DEF StampHeader, FinishPacket, ctxVars, history
  <2> QED BY <1>a, <2>1, <2>2, SteppedRouted
<1>6. CASE ReturnFromProcess \/ ReturnFromPacket
           \/ \E d \in 1 .. Len(stack) : ReturnFromCallback(d)
  <2>1. Returned
    BY <1>6, ReturnStack
  <2>2. UNCHANGED <<table, tc>>
    BY <1>6 DEF ReturnFromProcess, ReturnFromPacket, ReturnFromCallback, ctxVars, history
  <2>3. \A i \in 1 .. Len(stack') : i \in 1 .. Len(stack) /\ stack'[i] = stack[i]
    BY <1>0, <2>1, EmptySeq, LenProperties DEF Returned
  <2> QED BY <2>2, <2>3, RoutedKept
<1>7. CASE UNCHANGED vars
  BY <1>7 DEF vars, ctxVars, history, RoutedInv
<1> QED BY StepCases, <1>1, <1>2, <1>3, <1>4, <1>5, <1>6, <1>7 DEF ProcessStep

\* If no callback resets the context or deregisters a handler, pus_tc_process calls
\* the handler that is registered for its telecommand at that moment, even when the
\* sink or the time source process further telecommands between search and call.
THEOREM RoutingSurvivesReentry == HandlersStay => (Spec => []RoutingStaysValid)
<1>1. ASSUME HandlersStay PROVE Spec => []RoutingStaysValid
  <2>1. TypeOK /\ VerifInv /\ RoutedInv /\ [Next]_vars => (TypeOK /\ VerifInv /\ RoutedInv)'
    BY <1>1, StepTypeOK, StepVerifInv, StepRoutedInv
  <2>2. Init => TypeOK /\ VerifInv /\ RoutedInv
    BY InitTypeOK, InitVerifInv, InitRouteInv, RouteIsRouted
  <2> QED BY <2>1, <2>2, RoutedRoutes, PTL DEF Spec
<1> QED BY <1>1

----------------------------------------------------------------------------
(* Packets and the callbacks that run for them *)

\* Only a sink runs right above a packet, once it is complete, and only the time
\* source while it is being stamped; both run nowhere else.
PacketLies(f, g) ==
    f.pc \in PacketPcs \/ g.pc \in {"sink", "clock"} =>
        \/ f.pc = "sent" /\ g.pc = "sink"
        \/ f.pc = "count" /\ g.pc = "clock"

PacketInv ==
    \A i \in 1 .. Len(stack) :
        i + 1 \in 1 .. Len(stack) => PacketLies(stack[i], stack[i + 1])

LEMMA PacketEntered ==
    ASSUME TypeOK, PacketInv, NEW G, Entered(G), G \cap {"sink", "clock"} = {},
           stack # <<>> => Top.pc \in AppContexts
    PROVE  PacketInv'
<1>1. ASSUME NEW i \in 1 .. Len(stack'), i + 1 \in 1 .. Len(stack')
      PROVE  PacketLies(stack'[i], stack'[i + 1])
  <2>1. PICK n \in Nat : n = Len(stack)
    BY DEF TypeOK
  <2>2. CASE i + 1 \in 1 .. n
    <3>1. /\ i \in 1 .. Len(stack) /\ i + 1 \in 1 .. Len(stack)
          /\ stack'[i] = stack[i] /\ stack'[i + 1] = stack[i + 1]
      BY <2>1, <2>2 DEF Entered
    <3> QED BY <3>1 DEF PacketInv
  <2>3. CASE i + 1 = n + 1
    <3>1. n # 0 /\ stack # <<>> /\ i = n
      BY <2>1, <2>3
    <3>2. stack'[i] = Top /\ stack'[i + 1].pc \in G
      BY <2>1, <2>3, <3>1, TopResult DEF TypeOK, Entered
    <3> QED BY <3>1, <3>2, PcsApart DEF PacketLies
  <2> QED BY <1>1, <2>1, <2>2, <2>3 DEF Entered
<1> QED BY <1>1 DEF PacketInv

LEMMA PacketStepped ==
    ASSUME TypeOK, PacketInv, NEW f \in Frames, NEW G, Stepped(f, G), stack # <<>>,
           Top.pc \notin {"sink", "clock"}, f.pc \notin {"sink", "clock"},
           \A pc \in G : \/ f.pc = "sent" /\ pc = "sink"
                         \/ f.pc = "count" /\ pc = "clock"
                         \/ f.pc \notin PacketPcs /\ pc \notin {"sink", "clock"}
    PROVE  PacketInv'
<1>1. ASSUME NEW i \in 1 .. Len(stack'), i + 1 \in 1 .. Len(stack')
      PROVE  PacketLies(stack'[i], stack'[i + 1])
  <2>1. PICK n \in Nat \ {0} : n = Len(stack)
    BY DEF Stepped
  <2>2. CASE i + 1 \in 1 .. n - 1
    <3>1. /\ i \in 1 .. Len(stack) /\ i + 1 \in 1 .. Len(stack)
          /\ i \in 1 .. Len(stack) - 1 /\ i + 1 \in 1 .. Len(stack) - 1
      BY <2>1, <2>2
    <3>2. stack'[i] = stack[i] /\ stack'[i + 1] = stack[i + 1]
      BY <3>1 DEF Stepped
    <3> QED BY <3>1, <3>2 DEF PacketInv
  <2>3. CASE i + 1 = n
    <3>1. i \in 1 .. Len(stack) /\ i + 1 \in 1 .. Len(stack) /\ i \in 1 .. Len(stack) - 1
      BY <1>1, <2>1, <2>3
    <3>2. stack'[i] = stack[i] /\ stack'[i + 1] = f /\ stack[i + 1] = Top
      BY <2>1, <2>3, <3>1, TopResult DEF TypeOK, Stepped
    <3>3. PacketLies(stack[i], Top)
      BY <3>1, <3>2 DEF PacketInv
    <3> QED BY <3>2, <3>3 DEF PacketLies
  <2>4. CASE i + 1 = n + 1
    <3>1. i = n /\ stack'[i] = f /\ stack'[i + 1].pc \in G
      BY <1>1, <2>1, <2>4 DEF Stepped
    <3> QED BY <3>1 DEF PacketLies
  <2>5. i + 1 \in 1 .. n - 1 \/ i + 1 = n \/ i + 1 = n + 1
    BY <1>1, <2>1 DEF Stepped
  <2> QED BY <2>2, <2>3, <2>4, <2>5
<1> QED BY <1>1 DEF PacketInv

LEMMA StepPacketInv == TypeOK /\ PacketInv /\ [Next]_vars => PacketInv'
<1> SUFFICES ASSUME TypeOK, PacketInv, [Next]_vars PROVE PacketInv'
  OBVIOUS
<1>1. CASE Configures \/ UNCHANGED vars
  BY <1>1, ConfiguresStack DEF PacketInv, vars
<1>2. CASE \E k \in Keys : InvokeDirectly(k) \/ \E ack \in AckSets : ProcessTc(k, ack)
  <2>1. UNCHANGED stack \/ Entered({"find", "handler"})
    BY <1>2, InvokeDirectlyStack, ProcessTcStack DEF Entered
  <2>2. stack # <<>> => Top.pc \in AppContexts
    BY <1>2, AppCallsTop DEF InvokeDirectly, ProcessTc, AppEnters
  <2>3. CASE UNCHANGED stack
    BY <2>3 DEF PacketInv
  <2> QED BY <2>1, <2>2, <2>3, PacketEntered
<1>3. CASE \/ BuildTm \/ ReportOther
           \/ \E kind \in ProgressKinds : EmitProgress(kind) \/ BuildProgress(kind)
  <2>1. Entered({"stamp"})
    BY <1>3, BuildTmStack, ProgressStack
  <2>2. stack # <<>> => Top.pc \in AppContexts
    BY <1>3, AppCallsTop DEF BuildTm, ReportOther, EmitProgress, BuildProgress, AppEnters
  <2> QED BY <2>1, <2>2, PacketEntered
<1>4. CASE FindHandler \/ EmitAcceptance \/ EmitStart \/ InvokeHandler \/ EmitCompletion
  <2>1. stack # <<>> /\ Top.pc \notin {"sink", "clock"}
    BY <1>4 DEF FindHandler, EmitAcceptance, EmitStart, InvokeHandler, EmitCompletion, At
  <2>2. PICK f \in Frames :
            /\ Stepped(f, {"stamp"}) \/ Stepped(f, {"handler"})
            /\ f.pc \in {"refused", "acceptance", "start", "invoke", "completion", "return"}
    BY <1>4, FindHandlerStack, EmitAcceptanceStack, EmitStartStack, InvokeHandlerStack,
       EmitCompletionStack
  <2>3. f.pc \notin PacketPcs
    BY <2>2 DEF PacketPcs
  <2> QED BY <2>1, <2>2, <2>3, PacketStepped
<1>5. CASE StampHeader
  <2>1. stack # <<>> /\ Top.pc \notin {"sink", "clock"}
    BY <1>5 DEF StampHeader, At
  <2> QED BY <1>5, <2>1, StampHeaderStack, PacketStepped
<1>6. CASE FinishPacket
  <2>1. stack # <<>> /\ Top.pc \notin {"sink", "clock"}
    BY <1>6 DEF FinishPacket, At
  <2> QED BY <1>6, <2>1, FinishPacketStack, PacketStepped
<1>7. CASE ReturnFromProcess \/ ReturnFromPacket
           \/ \E d \in 1 .. Len(stack) : ReturnFromCallback(d)
  <2>1. Returned
    BY <1>7, ReturnStack
  <2>2. PICK n \in Nat : n = Len(stack)
    BY LenProperties DEF TypeOK
  <2>3. Len(stack') = n - 1 /\ \A i \in 1 .. n - 1 : stack'[i] = stack[i]
    BY <2>1, <2>2 DEF Returned
  <2>4. \A i \in 1 .. Len(stack') : i \in 1 .. Len(stack) /\ stack'[i] = stack[i]
    BY <2>2, <2>3
  <2> QED BY <2>4 DEF PacketInv
<1> QED BY StepCases, <1>1, <1>2, <1>3, <1>4, <1>5, <1>6, <1>7

LEMMA InitPacketInv == Init => PacketInv
BY DEF Init, PacketInv
=============================================================================
