--------------------------- MODULE ServicesProofs ---------------------------
(***************************************************************************)
(* Proofs about the services of ST[17] and ST[20] in a context, for every  *)
(* size of the dispatch table and every application.                       *)
(***************************************************************************)
EXTENDS Services, PusCoreProofs

----------------------------------------------------------------------------
(* The commands of the services are apart. *)

LEMMA KeyFacts ==
    /\ \A s \in Services : FirstKey[s] \in ServiceKeys /\ SecondKey[s] \in ServiceKeys
    /\ \A s \in Services : FirstKey[s] # SecondKey[s]
    /\ \A s, t \in Services : s # t =>
          {FirstKey[s], SecondKey[s]} \cap {FirstKey[t], SecondKey[t]} = {}
    /\ ServiceKeys \subseteq Keys /\ ServiceKeys \subseteq Values
    /\ Nobody \notin Services
<1>1. \A s \in Services : FirstKey[s] \in ServiceKeys /\ SecondKey[s] \in ServiceKeys
  BY DEF Services, FirstKey, SecondKey, ServiceKeys
<1>2. \A s \in Services : FirstKey[s] # SecondKey[s]
  BY DEF Services, FirstKey, SecondKey
<1>3. \A s, t \in Services : s # t =>
          {FirstKey[s], SecondKey[s]} \cap {FirstKey[t], SecondKey[t]} = {}
  BY DEF Services, FirstKey, SecondKey
<1>4. ServiceKeys \subseteq Keys /\ ServiceKeys \subseteq Values
  BY ServiceKeysAssumption, Zenon
<1>5. Nobody \notin Services
  BY DEF Services, Nobody
<1> QED BY <1>1, <1>2, <1>3, <1>4, <1>5

----------------------------------------------------------------------------
(* Each step of Services is a step of PusCore. *)

CallbackReturns == At("handler") \/ At("sink") \/ At("clock")

LEMMA ReturnIsCoreStep ==
    ASSUME stack \in Seq(Frames), CallbackReturns, ReturnFromCallback(Len(stack))
    PROVE  Next
<1>1. Len(stack) \in 1 .. Len(stack)
  BY EmptySeq, LenProperties DEF CallbackReturns, At
<1> QED BY <1>1 DEF Next

LEMMA StepIsCoreStep == TypeOK /\ [ServicesNext]_allVars => [Next]_vars
<1> SUFFICES ASSUME TypeOK, [ServicesNext]_allVars PROVE [Next]_vars
  OBVIOUS
<1>0. stack \in Seq(Frames)
  BY DEF TypeOK
<1>1. ASSUME NEW s \in Services, RegisterFirst(s) \/ RegisterSecond(s) PROVE Next
  <2>1. {FirstKey[s], SecondKey[s]} \subseteq Keys \cap Values
    BY KeyFacts
  <2>2. \/ RegisterHandler(FirstKey[s], FirstKey[s])
        \/ RegisterHandler(SecondKey[s], SecondKey[s])
    BY <1>1 DEF RegisterFirst, RegisterSecond
  <2> QED BY <2>1, <2>2 DEF Next, ApplicationStep
<1>2. CASE Initialise \/ SetSink \/ BuildOwn \/ BuildAnswer
  BY <1>2 DEF Initialise, SetSink, BuildOwn, BuildAnswer, Next, ApplicationStep
<1>3. ASSUME NEW k \in Keys, NEW v \in Values, RegisterOwn(k, v) PROVE Next
  BY <1>3 DEF RegisterOwn, Next, ApplicationStep
<1>4. ASSUME NEW k \in Keys, Deregister(k) PROVE Next
  BY <1>4 DEF Deregister, Next, ApplicationStep
<1>5. ASSUME NEW k \in Keys, NEW ack \in AckSets, NEW short, NEW b, Receive(k, ack, short, b)
      PROVE  Next
  BY <1>5 DEF Receive, Next, ApplicationStep
<1>6. CASE Dispatch \/ SendPacket \/ LibraryGoesOn
  BY <1>6 DEF Dispatch, SendPacket, LibraryGoesOn, Next, LibraryStep
<1>7. ASSUME NEW status, HandlerReturns(status) PROVE Next
  BY <1>0, <1>7, ReturnIsCoreStep DEF HandlerReturns, CallbackReturns
<1>8. CASE RefuseShort \/ ReturnAnswered \/ ParametersSet
  BY <1>7, <1>8 DEF RefuseShort, ReturnAnswered, ParametersSet
<1>9. ASSUME NEW status, ParametersFail(status) \/ OwnHandlerReturns(status) PROVE Next
  BY <1>7, <1>9 DEF ParametersFail, OwnHandlerReturns
<1>10. ASSUME NEW status, SinkReturns(status) PROVE Next
  BY <1>0, <1>10, ReturnIsCoreStep DEF SinkReturns, CallbackReturns
<1>11. CASE ClockReturns
  BY <1>0, <1>11, ReturnIsCoreStep DEF ClockReturns, CallbackReturns
<1>12. CASE ReadOn
  BY <1>12 DEF ReadOn
<1>13. CASE UNCHANGED allVars
  BY <1>13 DEF allVars
<1> QED BY <1>1, <1>2, <1>3, <1>4, <1>5, <1>6, <1>8, <1>9, <1>10, <1>11, <1>12, <1>13
        DEF ServicesNext

\* The services are an application of the core: what holds of every application
\* holds of them.
THEOREM ServicesUseTheCore == ServicesSpec => Spec
<1>1. ServicesInit => Init
  BY DEF ServicesInit
<1>2. TypeOK /\ [ServicesNext]_allVars => [Next]_vars /\ TypeOK'
  BY StepIsCoreStep, StepTypeOK
<1> QED BY <1>1, <1>2, InitTypeOK, PTL DEF ServicesSpec, Spec

----------------------------------------------------------------------------
(* Registration *)

\* The first handler of the service whose registration runs is in the table.
RegistrationInv ==
    /\ table \in Tables /\ NoDuplicates(table)
    /\ registering \in Services \cup {Nobody}
    /\ registered \in [Services -> {Nobody, "OK", "TABLE_FULL"}]
    /\ \A s \in Services :
          /\ registering = s => Routed(FirstKey[s]) /\ registered[s] = Nobody
          /\ registered[s] = "OK" => Routed(FirstKey[s]) /\ Routed(SecondKey[s])
          /\ registered[s] = "TABLE_FULL" =>
                ~(Routed(FirstKey[s]) /\ Routed(SecondKey[s]))

\* A registration that is accepted routes its command to the handler and leaves
\* the others; one that is refused changes nothing, and the command has none.
LEMMA RegisterRoutes ==
    ASSUME table \in Tables, NoDuplicates(table), NEW k \in Keys, NEW v \in Values,
           RegisterHandler(k, v)
    PROVE  /\ table' \in Tables /\ NoDuplicates(table')
           /\ \A m \in Keys \ {k} : Lookup(table', m) = Lookup(table, m)
           /\ \/ ret' = "OK" /\ Lookup(table', k) = v
              \/ ret' = "TABLE_FULL" /\ Lookup(table', k) = NoValue
<1>1. CASE CanStore(table, k)
  <2>1. table' = Store(table, k, v) /\ ret' = "OK"
    BY <1>1 DEF RegisterHandler
  <2>2. table' \in Tables /\ NoDuplicates(table')
    BY <1>1, <2>1, StoreWrites, StoreKeepsNoDuplicates
  <2>3. \A m \in Keys : Lookup(table', m) = IF m = k THEN v ELSE Lookup(table, m)
    BY <1>1, <2>1, LookupAfterStore
  <2> QED BY <2>1, <2>2, <2>3
<1>2. CASE ~CanStore(table, k)
  <2>1. table' = table /\ ret' = "TABLE_FULL"
    BY <1>2 DEF RegisterHandler
  <2>2. Lookup(table, k) = NoValue
    BY <1>2 DEF CanStore, Lookup
  <2> QED BY <2>1, <2>2
<1> QED BY <1>1, <1>2

LEMMA DeregisterRoutes ==
    ASSUME table \in Tables, NoDuplicates(table), NEW k \in Keys, DeregisterHandler(k)
    PROVE  /\ table' \in Tables /\ NoDuplicates(table')
           /\ \A m \in Keys \ {k} : Lookup(table', m) = Lookup(table, m)
<1>1. CASE Holding(table, k) # {}
  <2>1. table' = Clear(table, k)
    BY <1>1 DEF DeregisterHandler
  <2> QED BY <1>1, <2>1, ClearRemoves, ClearKeepsNoDuplicates, LookupAfterClear
<1>2. CASE Holding(table, k) = {}
  BY <1>2 DEF DeregisterHandler
<1> QED BY <1>1, <1>2

LEMMA InitRegistrationInv == ServicesInit => RegistrationInv
BY EmptyTableFacts, KeyFacts DEF ServicesInit, Init, RegistrationInv, Nobody

LEMMA StepRegistrationInv == RegistrationInv /\ [ServicesNext]_allVars => RegistrationInv'
<1> SUFFICES ASSUME RegistrationInv, [ServicesNext]_allVars PROVE RegistrationInv'
  OBVIOUS
<1>0. table \in Tables /\ NoDuplicates(table)
  BY DEF RegistrationInv
<1>1. ASSUME NEW s \in Services, RegisterFirst(s) PROVE RegistrationInv'
  <2>1. FirstKey[s] \in Keys /\ FirstKey[s] \in Values
    BY KeyFacts
  <2>2. /\ table' \in Tables /\ NoDuplicates(table')
        /\ \A m \in Keys \ {FirstKey[s]} : Lookup(table', m) = Lookup(table, m)
        /\ \/ ret' = "OK" /\ Lookup(table', FirstKey[s]) = FirstKey[s]
           \/ ret' = "TABLE_FULL" /\ Lookup(table', FirstKey[s]) = NoValue
    BY <1>0, <1>1, <2>1, RegisterRoutes DEF RegisterFirst
  <2>3. NoValue # FirstKey[s]
    BY <2>1, NoValueAssumption
  <2>4. \A t \in Services : t # s =>
            /\ registered'[t] = registered[t]
            /\ Routed(FirstKey[t])' <=> Routed(FirstKey[t])
            /\ Routed(SecondKey[t])' <=> Routed(SecondKey[t])
    BY <1>1, <2>2, KeyFacts DEF RegisterFirst, Routed, RegistrationInv
  <2> QED BY <1>1, <2>2, <2>3, <2>4, KeyFacts DEF RegisterFirst, RegistrationInv, Routed, Nobody
<1>2. ASSUME NEW s \in Services, RegisterSecond(s) PROVE RegistrationInv'
  <2>1. SecondKey[s] \in Keys /\ SecondKey[s] \in Values
    BY KeyFacts
  <2>2. /\ table' \in Tables /\ NoDuplicates(table')
        /\ \A m \in Keys \ {SecondKey[s]} : Lookup(table', m) = Lookup(table, m)
        /\ \/ ret' = "OK" /\ Lookup(table', SecondKey[s]) = SecondKey[s]
           \/ ret' = "TABLE_FULL" /\ Lookup(table', SecondKey[s]) = NoValue
    BY <1>0, <1>2, <2>1, RegisterRoutes DEF RegisterSecond
  <2>3. NoValue # SecondKey[s]
    BY <2>1, NoValueAssumption
  <2>4. \A t \in Services : t # s =>
            /\ registered'[t] = registered[t]
            /\ Routed(FirstKey[t])' <=> Routed(FirstKey[t])
            /\ Routed(SecondKey[t])' <=> Routed(SecondKey[t])
    BY <1>2, <2>2, KeyFacts DEF RegisterSecond, Routed, RegistrationInv
  <2>5. Routed(FirstKey[s])'
    BY <1>2, <2>2, KeyFacts DEF RegisterSecond, Routed, RegistrationInv
  <2> QED BY <1>2, <2>2, <2>3, <2>4, <2>5, KeyFacts
          DEF RegisterSecond, RegistrationInv, Routed, Nobody
<1>3. ASSUME NEW k \in Keys, NEW v \in Values, RegisterOwn(k, v) PROVE RegistrationInv'
  <2>1. /\ table' \in Tables /\ NoDuplicates(table')
        /\ \A m \in ServiceKeys : Lookup(table', m) = Lookup(table, m)
    BY <1>0, <1>3, RegisterRoutes, KeyFacts DEF RegisterOwn
  <2> QED BY <1>3, <2>1, KeyFacts DEF RegisterOwn, Undisturbed, RegistrationInv, Routed
<1>4. ASSUME NEW k \in Keys, Deregister(k) PROVE RegistrationInv'
  <2>1. /\ table' \in Tables /\ NoDuplicates(table')
        /\ \A m \in Keys \ {k} : Lookup(table', m) = Lookup(table, m)
    BY <1>0, <1>4, DeregisterRoutes DEF Deregister
  <2>2. /\ registering = Nobody /\ registering' = Nobody
        /\ registered' \in [Services -> {Nobody, "OK", "TABLE_FULL"}]
        /\ \A s \in Services :
              registered'[s] = IF k \in {FirstKey[s], SecondKey[s]} THEN Nobody ELSE registered[s]
    BY <1>4 DEF Deregister, Undisturbed, RegistrationInv, KeysOf
  <2>3. \A s \in Services : k \notin {FirstKey[s], SecondKey[s]} =>
            /\ Routed(FirstKey[s])' <=> Routed(FirstKey[s])
            /\ Routed(SecondKey[s])' <=> Routed(SecondKey[s])
    BY <2>1, KeyFacts DEF Routed
  <2> QED BY <2>1, <2>2, <2>3, KeyFacts DEF RegistrationInv, Nobody
<1>5. CASE Initialise
  <2>1. table' = EmptyTable
    BY <1>5 DEF Initialise, InitContext
  <2> QED BY <1>5, <2>1, EmptyTableFacts, KeyFacts
          DEF Initialise, Undisturbed, RegistrationInv, Nobody
<1>6. CASE UNCHANGED <<table, registering, registered>>
  BY <1>6 DEF RegistrationInv, Routed
<1>7. CASE \/ SetSink \/ BuildOwn \/ BuildAnswer \/ Dispatch
           \/ RefuseShort \/ ReturnAnswered \/ ParametersSet
           \/ SendPacket \/ ClockReturns
           \/ \E status : \/ ParametersFail(status) \/ OwnHandlerReturns(status)
                          \/ SinkReturns(status)
  <2>1. UNCHANGED <<table, registering, registered>>
    BY <1>7 DEF SetSink, SetTmSink, BuildOwn, BuildAnswer, BuildTm, Dispatch, InvokeHandler,
       RefuseShort, ReturnAnswered, ParametersSet, ParametersFail, OwnHandlerReturns,
       HandlerReturns, SinkReturns, ClockReturns, ReturnFromCallback, SendPacket,
       FinishPacket, Undisturbed, ctxVars
  <2> QED BY <2>1, <1>6
<1>8. CASE LibraryGoesOn
  BY <1>6, <1>8 DEF LibraryGoesOn, Undisturbed, ctxVars, FindHandler, EmitAcceptance,
     EmitStart, EmitCompletion, ReturnFromProcess, StampHeader, ReturnFromPacket
<1>9. ASSUME NEW k, NEW ack, NEW short, NEW b, Receive(k, ack, short, b) PROVE RegistrationInv'
  BY <1>6, <1>9 DEF Receive, ProcessTc, Undisturbed, ctxVars
<1>10. CASE ReadOn
  BY <1>6, <1>10 DEF ReadOn, Undisturbed, vars, ctxVars
<1>11. CASE UNCHANGED allVars
  BY <1>6, <1>11 DEF allVars, vars, ctxVars, serviceVars
<1> QED BY <1>1, <1>2, <1>3, <1>4, <1>5, <1>7, <1>8, <1>9, <1>10, <1>11 DEF ServicesNext

\* What register_handlers of ST[17] and ST[20] returned stays true of the dispatch
\* table, whatever else is registered, until the application deregisters a handler
\* of the service or initialises the context.
THEOREM RegistrationIsTrue == ServicesSpec => []RegistrationStatusIsTrue
<1>1. RegistrationInv => RegistrationStatusIsTrue
  BY DEF RegistrationInv, RegistrationStatusIsTrue, KeysOf
<1> QED BY <1>1, InitRegistrationInv, StepRegistrationInv, PTL DEF ServicesSpec

----------------------------------------------------------------------------
(* The handlers that run, and the frames they run in *)

\* Where the handler of a call runs.
Depth(c) == calls[c].frame

\* The calls are the handlers on the stack, in the order in which they lie there.
CallsInv ==
    /\ \A c \in 1 .. Len(calls) :
          /\ Depth(c) \in 1 .. Len(stack)
          /\ stack[Depth(c)].pc = "handler" /\ stack[Depth(c)].req = calls[c].req
    /\ \A c, d \in 1 .. Len(calls) : c < d => Depth(c) < Depth(d)
    /\ \A i \in 1 .. Len(stack) :
          stack[i].pc = "handler" => \E c \in 1 .. Len(calls) : Depth(c) = i

\* Whatever came since a telecommand that is being processed came while it was being
\* processed.
LentInv ==
    \A i \in 1 .. Len(stack) : stack[i].pc \in ProcessPcs =>
        \A q \in Received : q > stack[i].req => stack[i].req \in given[q].during

\* What was read is the own payload or one that came over it; only commands that have
\* an answer are being answered.
ReadInv ==
    \A c \in 1 .. Len(calls) :
        /\ calls[c].about \subseteq {calls[c].req} \cup Overwriters(calls[c].req)
        /\ calls[c].pc = "answering" => calls[c].handler \in AnsweredKeys

CallTypes ==
    /\ calls \in Seq(CallRecords)
    /\ given \in [Requests -> Givens]
    /\ answers \in [Requests -> Seq(Outcomes)]

\* Nothing but application code comes between the two calls of a registration.
SecondInv == registering # Nobody => AppRuns

\* A search that found an entry found a slot of the table.
SlotInv == \A i \in 1 .. Len(stack) : stack[i].pc \in PreDispatch => stack[i].idx \in Slots

LinkInv == CallTypes /\ CallsInv /\ LentInv /\ ReadInv /\ SecondInv /\ SlotInv

----------------------------------------------------------------------------
(* What follows from it in a state *)

LEMMA CallsFront ==
    ASSUME calls \in Seq(CallRecords), calls # <<>>
    PROVE  /\ Front(calls) \in Seq(CallRecords)
           /\ Len(Front(calls)) = Len(calls) - 1
           /\ \A c \in 1 .. Len(calls) - 1 : Front(calls)[c] = calls[c]
<1> DEFINE n == Len(calls) - 1
<1>1. n \in Nat /\ \A c \in 1 .. n : calls[c] \in CallRecords
  BY EmptySeq, LenProperties
<1>2. Front(calls) = SubSeq(calls, 1, n)
  BY DEF Front
<1> HIDE DEF n
<1>3. /\ SubSeq(calls, 1, n) \in Seq(CallRecords)
      /\ Len(SubSeq(calls, 1, n)) = IF 1 <= n THEN n - 1 + 1 ELSE 0
      /\ \A c \in 1 .. n - 1 + 1 : SubSeq(calls, 1, n)[c] = calls[1 + c - 1]
  BY <1>1, SubSeqProperties
<1>4. Len(Front(calls)) = n /\ \A c \in 1 .. n : Front(calls)[c] = calls[c]
  BY <1>1, <1>2, <1>3
<1> QED BY <1>2, <1>3, <1>4 DEF n

\* The innermost handler on the stack is the current one.
LEMMA CurrentIs ==
    ASSUME CallTypes, CallsInv, NEW i \in 1 .. Len(stack), stack[i].pc = "handler",
           \A j \in i + 1 .. Len(stack) : stack[j].pc # "handler"
    PROVE  /\ calls # <<>> /\ Len(calls) \in 1 .. Len(calls)
           /\ Current = calls[Len(calls)] /\ Current \in CallRecords
           /\ Depth(Len(calls)) = i
           /\ Current.req = stack[i].req /\ Current.req \in Requests
<1>1. PICK c \in 1 .. Len(calls) : Depth(c) = i
  BY DEF CallsInv
<1>2. calls # <<>> /\ Len(calls) \in 1 .. Len(calls) /\ Len(calls) \in Nat
  BY <1>1, EmptySeq, LenProperties DEF CallTypes
<1>3. c = Len(calls)
  <2> SUFFICES ASSUME c # Len(calls) PROVE FALSE
    OBVIOUS
  <2>1. c < Len(calls)
    BY <1>1, <1>2
  <2>2. Depth(c) < Depth(Len(calls)) /\ Depth(Len(calls)) \in 1 .. Len(stack)
        /\ stack[Depth(Len(calls))].pc = "handler"
    BY <1>1, <1>2, <2>1 DEF CallsInv
  <2>3. Depth(Len(calls)) \in i + 1 .. Len(stack)
    BY <1>1, <2>2
  <2> QED BY <2>2, <2>3
<1>4. Current = calls[Len(calls)]
  BY DEF Current, Last
<1>5. Current \in CallRecords
  BY <1>2, <1>4 DEF CallTypes
<1>6. Current.req \in Requests
  BY <1>5 DEF CallRecords
<1> QED BY <1>1, <1>2, <1>3, <1>4, <1>5, <1>6 DEF CallsInv

LEMMA TopIsCurrent ==
    ASSUME TypeOK, CallTypes, CallsInv, At("handler")
    PROVE  /\ calls # <<>> /\ Len(calls) \in 1 .. Len(calls)
           /\ Current = calls[Len(calls)] /\ Current \in CallRecords
           /\ Depth(Len(calls)) = Len(stack)
           /\ Current.req = Top.req /\ Current.req \in Requests
<1>1. /\ Len(stack) \in 1 .. Len(stack) /\ stack[Len(stack)] = Top /\ Top.pc = "handler"
      /\ \A j \in Len(stack) + 1 .. Len(stack) : FALSE
  BY TopResult DEF At, TypeOK
<1> QED BY <1>1, CurrentIs

\* The handler of a telecommand runs right above its pus_tc_process.
LEMMA BelowHandler ==
    ASSUME TypeOK, NestInv, NEW i \in 1 .. Len(stack), stack[i].pc = "handler",
           stack[i].req \in Requests
    PROVE  /\ i - 1 \in 1 .. Len(stack)
           /\ stack[i - 1].pc = "completion" /\ stack[i - 1].pc \in ProcessPcs
           /\ stack[i - 1].req = stack[i].req
<1>1. AboutRequest(stack[i])
  BY DEF AboutRequest, Requests, NoReq
<1>2. i # 1
  BY <1>1 DEF NestInv
<1>3. i - 1 \in 1 .. Len(stack) /\ (i - 1) + 1 = i
  BY <1>2 DEF TypeOK
<1>4. Lies(stack[i - 1], stack[i], tc[stack[i - 1].req].ack)
  BY <1>3 DEF NestInv
<1>5. stack[i].pc \notin PacketPcs
  BY PcsApart DEF PacketPcs
<1>6. stack[i - 1].pc \in ProcessPcs
  BY <1>1, <1>4, <1>5 DEF Lies
<1> QED BY <1>3, <1>4, <1>5, <1>6 DEF Lies

\* The largest of a set of numbers with a bound.
LEMMA LargestIs ==
    ASSUME NEW N \in Nat, NEW S, S \subseteq 1 .. N, S # {}
    PROVE  Max(S) \in S /\ \A x \in S : Max(S) >= x
<1> DEFINE R == {p \in Nat \X Nat : p[1] < p[2]}
           T == {N - x : x \in S}
<1>1. IsWellFoundedOn(R, Nat)
  BY NatLessThanWellFounded DEF OpToRel
<1>2. T \subseteq Nat /\ T # {}
  <2>1. \A x \in S : x \in Nat /\ N - x \in Nat
    OBVIOUS
  <2>2. PICK x \in S : TRUE
    OBVIOUS
  <2>3. N - x \in T
    OBVIOUS
  <2> QED BY <2>1, <2>3
<1>3. PICK y \in T : \A z \in T : <<z, y>> \notin R
  BY <1>1, <1>2, WFMin
<1>4. PICK m \in S : y = N - m
  BY <1>3
<1>5. \A x \in S : m >= x
  <2> SUFFICES ASSUME NEW x \in S, ~(m >= x) PROVE FALSE
    OBVIOUS
  <2>1. N - x \in T /\ N - x \in Nat /\ y \in Nat /\ N - x < y
    BY <1>2, <1>4
  <2> QED BY <1>3, <2>1
<1> QED BY <1>5 DEF Max

\* The buffer of a telecommand that is being processed holds its bytes, or those of
\* one that was received into it since.
LEMMA BufferHolds ==
    ASSUME TypeOK, NestInv, CallTypes, LentInv,
           NEW i \in 1 .. Len(stack), stack[i].pc \in ProcessPcs
    PROVE  InBuffer(stack[i].req) \in {stack[i].req} \cup Overwriters(stack[i].req)
<1> DEFINE r == stack[i].req
           S == {q \in Received : given[q].buffer = given[r].buffer}
<1>1. r \in Received /\ \A q \in Received : q > r => r \in given[q].during
  BY DEF NestInv, LentInv, Received
<1>2. Received \subseteq 1 .. MaxRequests /\ MaxRequests \in Nat
  BY BoundsAssumption DEF Received, Requests
<1> HIDE DEF r
<1>3. r \in S /\ S \subseteq 1 .. MaxRequests
  BY <1>1, <1>2
<1>4. Max(S) \in S /\ Max(S) >= r
  BY <1>2, <1>3, LargestIs
<1>5. Max(S) \in Int /\ r \in Int
  BY <1>2, <1>3, <1>4
<1>6. CASE Max(S) = r
  BY <1>6 DEF InBuffer, r
<1>7. CASE Max(S) > r
  BY <1>1, <1>4, <1>7 DEF InBuffer, Overwriters, r
<1> QED BY <1>4, <1>5, <1>6, <1>7

\* The telecommand of a handler on the stack is being processed.
LEMMA HandlerHolds ==
    ASSUME TypeOK, NestInv, CallTypes, CallsInv, LentInv, NEW c \in 1 .. Len(calls)
    PROVE  InBuffer(calls[c].req) \in {calls[c].req} \cup Overwriters(calls[c].req)
<1>1. calls \in Seq(CallRecords)
  BY DEF CallTypes
<1>2. calls[c] \in CallRecords
  BY <1>1
<1>3. calls[c].req \in Requests
  BY <1>2 DEF CallRecords
<1>4. PICK h \in 1 .. Len(stack) : stack[h].pc = "handler" /\ stack[h].req = calls[c].req
  BY DEF CallsInv
<1>5. /\ h - 1 \in 1 .. Len(stack) /\ stack[h - 1].pc \in ProcessPcs
      /\ stack[h - 1].req = calls[c].req
  BY <1>3, <1>4, BelowHandler
<1> QED BY <1>5, BufferHolds

\* The frame below the answer is the one of the handler that builds it.
LEMMA AnswerFrame ==
    ASSUME TypeOK, CallTypes, CallsInv, NEW i, IsAnswer(i)
    PROVE  /\ calls # <<>> /\ Current.pc = "answering"
           /\ i - 1 \in 1 .. Len(stack) /\ stack[i - 1].pc = "handler"
<1>1. calls # <<>> /\ Current.frame = i - 1 /\ Current.pc = "answering"
  BY DEF IsAnswer
<1>2. Len(calls) \in 1 .. Len(calls) /\ Current = calls[Len(calls)]
  BY <1>1, EmptySeq, LenProperties DEF CallTypes, Current, Last
<1>3. Depth(Len(calls)) = i - 1
  BY <1>1, <1>2 DEF Depth
<1> QED BY <1>1, <1>2, <1>3 DEF CallsInv

\* The innermost handler is the one that is answering.
LEMMA AnswerIs ==
    ASSUME TypeOK, CallTypes, CallsInv, NEW i \in 1 .. Len(stack), stack[i].pc = "handler",
           \A j \in i + 1 .. Len(stack) : stack[j].pc # "handler"
    PROVE  IsAnswer(i + 1) <=> Current.pc = "answering"
<1>1. calls # <<>> /\ Current = calls[Len(calls)] /\ Depth(Len(calls)) = i
  BY CurrentIs
<1> QED BY <1>1 DEF IsAnswer, Depth

\* A telecommand has one handler on the stack.
LEMMA HandlersApart ==
    ASSUME TypeOK, NestInv, NEW h \in 1 .. Len(stack), NEW i \in 1 .. Len(stack),
           stack[h].pc = "handler", stack[i].pc = "handler",
           stack[h].req = stack[i].req, stack[h].req \in Requests
    PROVE  h = i
<1>1. /\ h - 1 \in 1 .. Len(stack) /\ stack[h - 1].pc \in ProcessPcs
      /\ stack[h - 1].req = stack[h].req
  BY BelowHandler
<1>2. /\ i - 1 \in 1 .. Len(stack) /\ stack[i - 1].pc \in ProcessPcs
      /\ stack[i - 1].req = stack[h].req
  BY BelowHandler
<1>3. h - 1 = i - 1
  BY <1>1, <1>2 DEF NestInv
<1> QED BY <1>3

LEMMA LinkReads == LinkInv => PayloadsAreReadWhileLent
<1> SUFFICES ASSUME LinkInv PROVE PayloadsAreReadWhileLent
  OBVIOUS
<1>1. DOMAIN calls = 1 .. Len(calls)
  BY DEF LinkInv, CallTypes
<1> QED BY <1>1 DEF LinkInv, ReadInv, PayloadsAreReadWhileLent

----------------------------------------------------------------------------
(* What a step leaves alone *)

KeepsProcesses ==
    \A i \in 1 .. Len(stack') : stack'[i].pc \in ProcessPcs =>
        i \in 1 .. Len(stack) /\ stack[i].pc \in ProcessPcs /\ stack'[i].req = stack[i].req

KeepsHandlers ==
    /\ \A i \in 1 .. Len(stack') : stack'[i].pc = "handler" => i \in 1 .. Len(stack)
    /\ \A i \in 1 .. Len(stack) : stack[i].pc = "handler" => i \in 1 .. Len(stack')
    /\ \A i \in 1 .. Len(stack) : i \in 1 .. Len(stack') =>
          /\ stack'[i].pc = "handler" <=> stack[i].pc = "handler"
          /\ stack'[i].pc = "handler" => stack'[i].req = stack[i].req

LEMMA UnchangedKeeps == UNCHANGED stack => KeepsProcesses /\ KeepsHandlers
BY DEF KeepsProcesses, KeepsHandlers

LEMMA EnteredKeeps ==
    ASSUME TypeOK, NEW G, Entered(G)
    PROVE  /\ G \cap ProcessPcs = {} => KeepsProcesses
           /\ "handler" \notin G => KeepsHandlers
<1>1. PICK n \in Nat : n = Len(stack)
  BY DEF TypeOK
<1>2. Len(stack') = n + 1 /\ stack'[n + 1].pc \in G /\ \A i \in 1 .. n : stack'[i] = stack[i]
  BY <1>1 DEF Entered
<1>3. \A i \in 1 .. n + 1 : i \in 1 .. n \/ i = n + 1
  BY <1>1
<1>4. \A i \in 1 .. n : i \in 1 .. n + 1
  BY <1>1
<1>5. G \cap ProcessPcs = {} => KeepsProcesses
  BY <1>1, <1>2, <1>3 DEF KeepsProcesses
<1>6. "handler" \notin G => KeepsHandlers
  BY <1>1, <1>2, <1>3, <1>4 DEF KeepsHandlers
<1> QED BY <1>5, <1>6

LEMMA SteppedKeeps ==
    ASSUME TypeOK, NEW f \in Frames, NEW G, Stepped(f, G), stack # <<>>
    PROVE  /\ (/\ G \cap ProcessPcs = {}
               /\ (f.pc \in ProcessPcs => Top.pc \in ProcessPcs /\ f.req = Top.req))
              => KeepsProcesses
           /\ "handler" \notin G /\ f.pc # "handler" /\ Top.pc # "handler" => KeepsHandlers
<1>1. PICK n \in Nat \ {0} : n = Len(stack)
  BY DEF Stepped
<1>2. /\ Len(stack') \in {n, n + 1}
      /\ \A i \in 1 .. n - 1 : stack'[i] = stack[i]
      /\ stack'[n] = f /\ stack[n] = Top
      /\ Len(stack') = n + 1 => stack'[n + 1].pc \in G
  BY <1>1, TopResult DEF Stepped, TypeOK
<1>3. \A i \in 1 .. Len(stack') :
          i \in 1 .. n - 1 \/ i = n \/ (i = n + 1 /\ Len(stack') = n + 1)
  BY <1>1, <1>2
<1>4. \A i \in 1 .. n : (i \in 1 .. n - 1 \/ i = n) /\ i \in 1 .. Len(stack')
  BY <1>1, <1>2
<1>5. \A i \in 1 .. n - 1 : i \in 1 .. n
  BY <1>1
<1>6. n \in 1 .. n
  BY <1>1
<1>7. G \cap ProcessPcs = {} /\ (f.pc \in ProcessPcs => Top.pc \in ProcessPcs /\ f.req = Top.req)
          => KeepsProcesses
  BY <1>1, <1>2, <1>3, <1>5, <1>6 DEF KeepsProcesses
<1>8. "handler" \notin G /\ f.pc # "handler" /\ Top.pc # "handler" => KeepsHandlers
  BY <1>1, <1>2, <1>3, <1>4, <1>5, <1>6 DEF KeepsHandlers
<1> QED BY <1>7, <1>8

LEMMA ReturnedKeeps ==
    ASSUME TypeOK, Returned, stack # <<>>
    PROVE  KeepsProcesses /\ (Top.pc # "handler" => KeepsHandlers)
<1>1. PICK n \in Nat \ {0} : n = Len(stack) /\ Top = stack[n]
  BY TopResult DEF TypeOK
<1>2. Len(stack') = n - 1 /\ \A i \in 1 .. n - 1 : stack'[i] = stack[i] /\ i \in 1 .. n
  BY <1>1 DEF Returned
<1>3. \A i \in 1 .. n : i \in 1 .. n - 1 \/ i = n
  BY <1>1
<1>4. KeepsProcesses
  BY <1>1, <1>2 DEF KeepsProcesses
<1>5. Top.pc # "handler" => KeepsHandlers
  BY <1>1, <1>2, <1>3 DEF KeepsHandlers
<1> QED BY <1>4, <1>5

LEMMA LentKept ==
    ASSUME LentInv, KeepsProcesses, UNCHANGED <<given, tc>>
    PROVE  LentInv'
<1>1. Received' = Received
  BY DEF Received
<1>2. ASSUME NEW i \in 1 .. Len(stack'), stack'[i].pc \in ProcessPcs,
             NEW q \in Received', q > stack'[i].req
      PROVE  stack'[i].req \in given'[q].during
  <2>1. i \in 1 .. Len(stack) /\ stack[i].pc \in ProcessPcs /\ stack'[i].req = stack[i].req
    BY <1>2 DEF KeepsProcesses
  <2> QED BY <1>1, <1>2, <2>1 DEF LentInv
<1> QED BY <1>2 DEF LentInv

LEMMA OverwritersKept ==
    ASSUME UNCHANGED <<given, tc>>, NEW r
    PROVE  Overwriters(r)' = Overwriters(r)
BY DEF Overwriters, Received

LEMMA CallsKept ==
    ASSUME CallsInv, KeepsHandlers, Len(calls') = Len(calls),
           \A c \in 1 .. Len(calls) :
               calls'[c].req = calls[c].req /\ calls'[c].frame = calls[c].frame
    PROVE  CallsInv'
<1>1. \A c \in 1 .. Len(calls) : Depth(c)' = Depth(c)
  BY DEF Depth
<1>2. ASSUME NEW c \in 1 .. Len(calls')
      PROVE  /\ Depth(c)' \in 1 .. Len(stack')
             /\ stack'[Depth(c)'].pc = "handler" /\ stack'[Depth(c)'].req = calls'[c].req
  <2>1. /\ Depth(c) \in 1 .. Len(stack) /\ Depth(c)' = Depth(c)
        /\ stack[Depth(c)].pc = "handler" /\ stack[Depth(c)].req = calls[c].req
    BY <1>1 DEF CallsInv
  <2> QED BY <2>1 DEF KeepsHandlers
<1>3. ASSUME NEW c \in 1 .. Len(calls'), NEW d \in 1 .. Len(calls'), c < d
      PROVE  Depth(c)' < Depth(d)'
  <2>1. Depth(c)' = Depth(c) /\ Depth(d)' = Depth(d)
    BY <1>1
  <2>2. Depth(c) < Depth(d)
    BY <1>3 DEF CallsInv
  <2> QED BY <2>1, <2>2
<1>4. ASSUME NEW i \in 1 .. Len(stack'), stack'[i].pc = "handler"
      PROVE  \E c \in 1 .. Len(calls') : Depth(c)' = i
  <2>1. i \in 1 .. Len(stack) /\ stack[i].pc = "handler"
    BY <1>4 DEF KeepsHandlers
  <2> QED BY <1>1, <2>1 DEF CallsInv
<1> QED BY <1>2, <1>3, <1>4 DEF CallsInv

LEMMA StepSlotInv == TypeOK /\ SlotInv /\ [Next]_vars => SlotInv'
<1> SUFFICES ASSUME TypeOK, SlotInv, [Next]_vars PROVE SlotInv'
  OBVIOUS
<1>a. PreDispatch \cap {"stamp", "clock", "sink", "handler", "find", "count", "sent",
                         "completion", "return", "refused"} = {}
  BY DEF PreDispatch
<1>b. ASSUME NEW f \in Frames, NEW G, Stepped(f, G), G \cap PreDispatch = {},
             f.pc \in PreDispatch => f.idx \in Slots
      PROVE  SlotInv'
  <2>1. PICK n \in Nat \ {0} : n = Len(stack)
    BY <1>b DEF Stepped
  <2>2. /\ Len(stack') \in {n, n + 1}
        /\ \A i \in 1 .. n - 1 : stack'[i] = stack[i]
        /\ stack'[n] = f
        /\ Len(stack') = n + 1 => stack'[n + 1].pc \in G
    BY <1>b, <2>1 DEF Stepped
  <2>3. \A i \in 1 .. Len(stack') :
            \/ i \in 1 .. n - 1 /\ i \in 1 .. n
            \/ i = n
            \/ i = n + 1 /\ Len(stack') = n + 1
    BY <2>1, <2>2
  <2> QED BY <1>b, <2>1, <2>2, <2>3 DEF SlotInv
<1>c. ASSUME \A i \in 1 .. Len(stack') : stack'[i].pc \in PreDispatch =>
                 i \in 1 .. Len(stack) /\ stack'[i] = stack[i]
      PROVE  SlotInv'
  BY <1>c DEF SlotInv
<1>1. CASE Configures \/ UNCHANGED vars
  BY <1>1, <1>c, ConfiguresStack DEF vars
<1>2. CASE \/ \E k \in Keys : InvokeDirectly(k) \/ \E ack \in AckSets : ProcessTc(k, ack)
           \/ BuildTm \/ ReportOther
           \/ \E kind \in ProgressKinds : EmitProgress(kind) \/ BuildProgress(kind)
  <2>1. UNCHANGED stack \/ Entered({"stamp", "handler", "find"})
    BY <1>2, BuildTmStack, ProgressStack, InvokeDirectlyStack, ProcessTcStack DEF Entered
  <2>2. \A i \in 1 .. Len(stack') : stack'[i].pc \in PreDispatch =>
            i \in 1 .. Len(stack) /\ stack'[i] = stack[i]
    BY <1>a, <2>1 DEF Entered, TypeOK
  <2> QED BY <1>c, <2>2
<1>3. CASE FindHandler
  <2>1. Holding(table, tc[Top.req].key) \subseteq Slots
    BY DEF Holding, UsedSlots
  <2> QED BY <1>3, <1>a, <1>b, <2>1, FindHandlerStack
<1>4. CASE EmitAcceptance \/ EmitStart
  <2>1. Top.idx \in Slots
    <3>1. stack # <<>> /\ Top.pc \in PreDispatch
      BY <1>4 DEF EmitAcceptance, EmitStart, At, PreDispatch
    <3>2. Top = stack[Len(stack)] /\ Len(stack) \in 1 .. Len(stack)
      BY <3>1, TopResult DEF TypeOK
    <3> QED BY <3>1, <3>2 DEF SlotInv
  <2> QED BY <1>4, <1>a, <1>b, <2>1, EmitAcceptanceStack, EmitStartStack
<1>5. CASE InvokeHandler \/ EmitCompletion
  BY <1>5, <1>a, <1>b, InvokeHandlerStack, EmitCompletionStack
<1>6. CASE StampHeader \/ FinishPacket
  BY <1>6, <1>a, <1>b, StampHeaderStack, FinishPacketStack
<1>7. CASE ReturnFromProcess \/ ReturnFromPacket
           \/ \E d \in 1 .. Len(stack) : ReturnFromCallback(d)
  <2>1. Returned
    BY <1>7, ReturnStack
  <2>2. \A i \in 1 .. Len(stack') : i \in 1 .. Len(stack) /\ stack'[i] = stack[i]
    BY <2>1, EmptySeq, LenProperties DEF Returned, TypeOK
  <2> QED BY <1>c, <2>2
<1> QED BY StepCases, <1>1, <1>2, <1>3, <1>4, <1>5, <1>6, <1>7

----------------------------------------------------------------------------
(* Each step keeps the calls with their frames *)

\* The handlers stay where they are, and so does what they read.
LEMMA QuietLinks ==
    ASSUME LinkInv, KeepsProcesses, KeepsHandlers, UNCHANGED <<calls, given, answers, tc>>,
           SecondInv', SlotInv'
    PROVE  LinkInv'
<1>1. CallTypes'
  BY DEF LinkInv, CallTypes
<1>2. CallsInv'
  BY CallsKept DEF LinkInv
<1>3. LentInv'
  BY LentKept DEF LinkInv
<1>4. ReadInv'
  BY OverwritersKept DEF LinkInv, ReadInv
<1> QED BY <1>1, <1>2, <1>3, <1>4 DEF LinkInv

\* A library step that leaves handlers and requests alone.
LEMMA LibraryKeeps ==
    ASSUME TypeOK, NestInv, IssueInv, LibraryGoesOn
    PROVE  KeepsProcesses /\ KeepsHandlers /\ UNCHANGED tc
<1>0. UNCHANGED tc
  BY DEF LibraryGoesOn, FindHandler, EmitAcceptance, EmitStart, EmitCompletion, history,
         ReturnFromProcess, StampHeader, ReturnFromPacket
<1>a. /\ "handler" \notin ProcessPcs /\ "stamp" \notin ProcessPcs /\ "clock" \notin ProcessPcs
      /\ "count" \notin ProcessPcs
  BY DEF ProcessPcs
<1>1. CASE FindHandler \/ EmitAcceptance \/ EmitStart \/ EmitCompletion
  <2>1. stack # <<>> /\ Top.pc \in ProcessPcs
    BY <1>1 DEF FindHandler, EmitAcceptance, EmitStart, EmitCompletion, At, ProcessPcs
  <2>2. PICK f \in Frames : /\ Stepped(f, {"stamp"}) /\ f.req = Top.req
                            /\ f.pc \in {"refused", "acceptance", "start", "invoke", "return"}
    BY <1>1, FindHandlerStack, EmitAcceptanceStack, EmitStartStack, EmitCompletionStack
  <2> QED BY <1>0, <1>a, <2>1, <2>2, SteppedKeeps
<1>2. CASE StampHeader
  <2>1. stack # <<>> /\ Top.pc = "stamp"
    BY <1>2 DEF StampHeader, At
  <2>2. PICK f \in Frames : Stepped(f, {"clock"}) /\ f.pc = "count"
    BY <1>2, StampHeaderStack
  <2> QED BY <1>0, <1>a, <2>1, <2>2, SteppedKeeps
<1>3. CASE ReturnFromProcess \/ ReturnFromPacket
  <2>1. stack # <<>> /\ Top.pc # "handler"
    BY <1>3 DEF ReturnFromProcess, ReturnFromPacket, At
  <2> QED BY <1>0, <1>3, <2>1, ReturnStack, ReturnedKeeps
<1> QED BY <1>1, <1>2, <1>3 DEF LibraryGoesOn

\* The answers keep their type when one leaves.
LEMMA AnsweredTypes ==
    ASSUME CallTypes, calls # <<>>, NEW outcome \in Outcomes, Answered(outcome),
           UNCHANGED <<calls, given>>
    PROVE  CallTypes'
<1>1. Len(calls) \in 1 .. Len(calls) /\ Current = calls[Len(calls)]
  BY EmptySeq, LenProperties DEF CallTypes, Current, Last
<1>2. Current \in CallRecords
  BY <1>1 DEF CallTypes
<1>3. PICK r \in Requests : r = Current.req
  BY <1>2 DEF CallRecords
<1>4. answers \in [Requests -> Seq(Outcomes)]
  BY DEF CallTypes
<1>5. Append(answers[r], outcome) \in Seq(Outcomes)
  BY <1>4
<1>6. answers' = [answers EXCEPT ![r] = Append(answers[r], outcome)]
  BY <1>3 DEF Answered
<1>7. answers' \in [Requests -> Seq(Outcomes)]
  BY <1>4, <1>5, <1>6
<1> QED BY <1>7 DEF CallTypes

LEMMA AnswerLinks ==
    ASSUME LinkInv, KeepsProcesses, KeepsHandlers, UNCHANGED <<calls, given, tc>>,
           \/ UNCHANGED answers
           \/ calls # <<>> /\ \E outcome \in Outcomes : Answered(outcome),
           SecondInv', SlotInv'
    PROVE  LinkInv'
<1>1. CASE UNCHANGED answers
  BY <1>1, QuietLinks
<1>2. CASE calls # <<>> /\ \E outcome \in Outcomes : Answered(outcome)
  <2>1. CallTypes'
    BY <1>2, AnsweredTypes DEF LinkInv
  <2>2. CallsInv' /\ LentInv'
    BY CallsKept, LentKept DEF LinkInv
  <2>3. ReadInv'
    BY OverwritersKept DEF LinkInv, ReadInv
  <2> QED BY <2>1, <2>2, <2>3 DEF LinkInv
<1> QED BY <1>1, <1>2

LEMMA SendPacketLinks ==
    ASSUME TypeOK, LinkInv, SendPacket, SlotInv'
    PROVE  LinkInv'
<1>1. stack # <<>> /\ Top.pc = "count"
  BY DEF SendPacket, FinishPacket, At
<1>2. PICK f \in Frames : Stepped(f, {"sink"}) /\ f.pc = "sent"
  BY FinishPacketStack DEF SendPacket
<1>3. {"sink"} \cap ProcessPcs = {} /\ "sent" \notin ProcessPcs
  BY DEF ProcessPcs
<1>4. KeepsProcesses /\ KeepsHandlers
  BY <1>1, <1>2, <1>3, SteppedKeeps
<1>5. UNCHANGED <<calls, given, tc>> /\ SecondInv'
  BY DEF SendPacket, FinishPacket, Undisturbed, SecondInv
<1>6. \/ UNCHANGED answers
      \/ calls # <<>> /\ \E outcome \in Outcomes : Answered(outcome)
  BY DEF SendPacket, IsAnswer, Outcomes
<1> QED BY <1>4, <1>5, <1>6, AnswerLinks

LEMMA CallbackReturned ==
    ASSUME TypeOK, ReturnFromCallback(Len(stack))
    PROVE  Returned /\ stack # <<>> /\ UNCHANGED <<ctxVars, tc, reports>>
<1>1. stack # <<>>
  BY DEF ReturnFromCallback, AppContext, CallbackPcs
<1>2. Len(stack) \in 1 .. Len(stack)
  BY <1>1, EmptySeq, LenProperties DEF TypeOK
<1>3. Returned
  BY <1>2, ReturnStack
<1> QED BY <1>1, <1>3 DEF ReturnFromCallback, history

LEMMA SinkReturnsLinks ==
    ASSUME TypeOK, LinkInv, NEW status, SinkReturns(status), SlotInv'
    PROVE  LinkInv'
<1>1. stack # <<>> /\ Top.pc = "sink" /\ ReturnFromCallback(Len(stack))
  BY DEF SinkReturns, At
<1>2. KeepsProcesses /\ KeepsHandlers /\ UNCHANGED tc
  BY <1>1, CallbackReturned, ReturnedKeeps
<1>3. UNCHANGED <<calls, given>> /\ SecondInv'
  BY DEF SinkReturns, Undisturbed, SecondInv
<1>4. \/ UNCHANGED answers
      \/ calls # <<>> /\ \E outcome \in Outcomes : Answered(outcome)
  BY DEF SinkReturns, IsAnswer, Outcomes
<1> QED BY <1>2, <1>3, <1>4, AnswerLinks

LEMMA ClockReturnsLinks ==
    ASSUME TypeOK, LinkInv, ClockReturns, SlotInv'
    PROVE  LinkInv'
<1>1. stack # <<>> /\ Top.pc = "clock" /\ ReturnFromCallback(Len(stack))
  BY DEF ClockReturns, At
<1>2. KeepsProcesses /\ KeepsHandlers /\ UNCHANGED tc
  BY <1>1, CallbackReturned, ReturnedKeeps
<1>3. UNCHANGED <<calls, given, answers>> /\ SecondInv'
  BY DEF ClockReturns, Undisturbed, SecondInv
<1> QED BY <1>2, <1>3, QuietLinks

\* The answer is begun: the current call goes on, in its own frame.
LEMMA BuildAnswerLinks ==
    ASSUME TypeOK, LinkInv, BuildAnswer, SlotInv'
    PROVE  LinkInv'
<1>0. CallTypes /\ CallsInv /\ ReadInv
  BY DEF LinkInv
<1>1. /\ At("handler") /\ BuildTm /\ Current.handler \in AnsweredKeys
      /\ UNCHANGED <<given, answers, tc>>
  BY DEF BuildAnswer, BuildTm, history
<1>2. /\ calls # <<>> /\ Len(calls) \in 1 .. Len(calls)
      /\ Current = calls[Len(calls)] /\ Current \in CallRecords
  BY <1>0, <1>1, TopIsCurrent
<1>3. Entered({"stamp"}) /\ "stamp" \notin ProcessPcs
  BY <1>1, BuildTmStack DEF ProcessPcs
<1>4. KeepsProcesses /\ KeepsHandlers
  BY <1>3, EnteredKeeps
<1> DEFINE m == Len(calls)
           new == [Current EXCEPT !.pc = "answering"]
<1>5. /\ new \in CallRecords /\ new.req = Current.req /\ new.about = Current.about
      /\ new.handler = Current.handler /\ new.pc = "answering" /\ new.frame = Current.frame
  BY <1>2 DEF CallRecords
<1>6. calls' = [calls EXCEPT ![m] = new]
  BY <1>2 DEF BuildAnswer
<1> HIDE DEF new
<1>7. /\ calls' \in Seq(CallRecords) /\ Len(calls') = m
      /\ \A c \in 1 .. m : calls'[c] = IF c = m THEN new ELSE calls[c]
  BY <1>0, <1>2, <1>5, <1>6 DEF CallTypes
<1> HIDE DEF m
<1>8. CallTypes'
  BY <1>0, <1>1, <1>7 DEF CallTypes
<1>9. \A c \in 1 .. Len(calls) :
          calls'[c].req = calls[c].req /\ calls'[c].frame = calls[c].frame
  BY <1>2, <1>5, <1>7 DEF m
<1>10. CallsInv'
  BY <1>0, <1>1, <1>4, <1>7, <1>9, CallsKept DEF m
<1>11. ReadInv'
  BY <1>0, <1>1, <1>2, <1>5, <1>7, OverwritersKept DEF ReadInv, m
<1>12. LentInv' /\ SecondInv'
  BY <1>1, <1>4, LentKept DEF BuildAnswer, Undisturbed, LinkInv, SecondInv
<1> QED BY <1>8, <1>10, <1>11, <1>12 DEF LinkInv

\* The current call has read once more.
LEMMA ReadOnLinks ==
    ASSUME TypeOK, VerifInv, LinkInv, ReadOn, SlotInv'
    PROVE  LinkInv'
<1>0. CallTypes /\ CallsInv /\ LentInv /\ ReadInv /\ NestInv
  BY DEF LinkInv, VerifInv
<1>1. At("handler") /\ UNCHANGED <<stack, given, answers, tc>> /\ SecondInv'
  BY DEF ReadOn, vars, history, Undisturbed, SecondInv
<1>2. /\ calls # <<>> /\ Len(calls) \in 1 .. Len(calls)
      /\ Current = calls[Len(calls)] /\ Current \in CallRecords
  BY <1>0, <1>1, TopIsCurrent
<1> DEFINE m == Len(calls)
           q == InBuffer(Current.req)
           new == [Current EXCEPT !.about = @ \cup {q}]
<1>3. q \in {Current.req} \cup Overwriters(Current.req)
  BY <1>0, <1>2, HandlerHolds
<1>4. q \in Requests
  BY <1>2, <1>3 DEF Overwriters, Received, CallRecords
<1>5. calls' = [calls EXCEPT ![m] = new]
  BY <1>2 DEF ReadOn
<1> HIDE DEF q
<1>6. /\ new \in CallRecords /\ new.req = Current.req /\ new.about = Current.about \cup {q}
      /\ new.handler = Current.handler /\ new.pc = Current.pc /\ new.frame = Current.frame
  BY <1>2, <1>4 DEF CallRecords
<1> HIDE DEF new
<1>7. /\ calls' \in Seq(CallRecords) /\ Len(calls') = m
      /\ \A c \in 1 .. m : calls'[c] = IF c = m THEN new ELSE calls[c]
  BY <1>0, <1>2, <1>5, <1>6 DEF CallTypes
<1> HIDE DEF m
<1>8. CallTypes'
  BY <1>0, <1>1, <1>7 DEF CallTypes
<1>9. \A c \in 1 .. Len(calls) :
          calls'[c].req = calls[c].req /\ calls'[c].frame = calls[c].frame
  BY <1>2, <1>6, <1>7 DEF m
<1>10. KeepsProcesses /\ KeepsHandlers
  BY <1>1, UnchangedKeeps
<1>11. CallsInv' /\ LentInv'
  BY <1>0, <1>1, <1>7, <1>9, <1>10, CallsKept, LentKept DEF m
<1>12. \A r : Overwriters(r)' = Overwriters(r)
  BY <1>1, OverwritersKept
<1>13. ReadInv'
  BY <1>0, <1>2, <1>3, <1>6, <1>7, <1>12 DEF ReadInv, m
<1> QED BY <1>1, <1>8, <1>11, <1>13 DEF LinkInv

LEMMA ConfigLinks ==
    ASSUME TypeOK, LinkInv, SlotInv',
           \/ \E s \in Services : RegisterFirst(s) \/ RegisterSecond(s)
           \/ Initialise \/ SetSink
           \/ \E k \in Keys : Deregister(k) \/ \E v \in Values : RegisterOwn(k, v)
    PROVE  LinkInv'
<1>1. UNCHANGED <<calls, given, answers>>
  BY DEF RegisterFirst, RegisterSecond, Initialise, SetSink, Deregister, RegisterOwn
<1>2. UNCHANGED <<stack, tc>>
  BY DEF RegisterFirst, RegisterSecond, Initialise, SetSink, Deregister, RegisterOwn,
         RegisterHandler, DeregisterHandler, InitContext, SetTmSink, history
<1>3. registering' = Nobody \/ AppRuns
  BY DEF RegisterFirst, RegisterSecond, Initialise, SetSink, Deregister, RegisterOwn, Undisturbed
<1>4. AppRuns => AppRuns'
  BY <1>1, <1>2 DEF AppRuns, At, Top, HasAppCode, Current
<1>5. SecondInv'
  BY <1>3, <1>4 DEF SecondInv
<1> QED BY <1>1, <1>2, <1>5, UnchangedKeeps, QuietLinks

LEMMA BuildOwnLinks ==
    ASSUME TypeOK, LinkInv, BuildOwn, SlotInv'
    PROVE  LinkInv'
<1>1. Entered({"stamp"}) /\ "stamp" \notin ProcessPcs
  BY BuildTmStack DEF BuildOwn, ProcessPcs
<1>2. UNCHANGED <<calls, given, answers, tc>> /\ SecondInv'
  BY DEF BuildOwn, BuildTm, history, Undisturbed, SecondInv
<1> QED BY <1>1, <1>2, EnteredKeeps, QuietLinks

LEMMA LibraryLinks ==
    ASSUME TypeOK, VerifInv, LinkInv, LibraryGoesOn, SlotInv'
    PROVE  LinkInv'
<1>1. KeepsProcesses /\ KeepsHandlers /\ UNCHANGED tc
  BY LibraryKeeps DEF VerifInv
<1>2. UNCHANGED <<calls, given, answers>> /\ SecondInv'
  BY DEF LibraryGoesOn, Undisturbed, SecondInv
<1> QED BY <1>1, <1>2, QuietLinks

\* A telecommand whose handler runs was received.
LEMMA CalledReceived ==
    ASSUME TypeOK, NestInv, CallTypes, CallsInv, NEW c \in 1 .. Len(calls)
    PROVE  calls[c].req \in Received /\ calls[c].req \in Requests
<1>1. calls \in Seq(CallRecords)
  BY DEF CallTypes
<1>2. calls[c] \in CallRecords
  BY <1>1
<1>3. calls[c].req \in Requests
  BY <1>2 DEF CallRecords
<1>4. PICK h \in 1 .. Len(stack) : stack[h].pc = "handler" /\ stack[h].req = calls[c].req
  BY DEF CallsInv
<1>5. /\ h - 1 \in 1 .. Len(stack) /\ stack[h - 1].pc \in ProcessPcs
      /\ stack[h - 1].req = calls[c].req
  BY <1>3, <1>4, BelowHandler
<1> QED BY <1>3, <1>5 DEF NestInv

\* The telecommand is received, into a buffer in use or not.
LEMMA ReceiveLinks ==
    ASSUME TypeOK, VerifInv, LinkInv, NEW k \in Keys, NEW ack \in AckSets,
           NEW short \in BOOLEAN, NEW b \in Buffers, Receive(k, ack, short, b), SlotInv'
    PROVE  LinkInv'
<1>0. /\ ReceiveInv /\ NestInv /\ IssueInv
      /\ CallTypes /\ CallsInv /\ LentInv /\ ReadInv
  BY DEF VerifInv, LinkInv
<1> DEFINE r == Cardinality(Received) + 1
           new == [short |-> short, buffer |-> b, during |-> InProcess]
<1>1. /\ ProcessTc(k, ack) /\ given' = [given EXCEPT ![r] = new]
      /\ UNCHANGED <<calls, answers>> /\ registering' = Nobody
  BY DEF Receive, Undisturbed
<1>2. /\ r \in Requests \ Received /\ Received' = Received \cup {r}
      /\ \E g \in Frames : Pushed(g) /\ g.pc = "find" /\ g.req = r
  BY <1>0, <1>1, ReceiveTc
<1>3. /\ r \in Int
      /\ \A q \in Received : q < r /\ q \in Requests /\ q \in Int
  <2>1. PICK m \in Nat : m = Cardinality(Received) /\ Received = 1 .. m
    BY <1>0, NextRequest DEF ReceiveInv
  <2>2. r = m + 1
    BY <2>1
  <2>3. Received \subseteq Requests
    BY DEF Received
  <2> HIDE DEF r, new
  <2>4. ASSUME NEW q \in Received PROVE q < r /\ q \in Requests /\ q \in Int
    <3>1. q \in 1 .. m
      BY <2>1
    <3> QED BY <2>2, <2>3, <3>1
  <2> QED BY <2>2, <2>4
<1> HIDE DEF r
<1>4. PICK g \in Frames : Pushed(g) /\ g.pc = "find" /\ g.req = r
  BY <1>2
<1>5. PICK n \in Nat : n = Len(stack)
  BY DEF TypeOK
<1>6. \A i \in 1 .. n : stack[i].pc \in ProcessPcs =>
          stack[i].req \in InProcess /\ stack[i].req \in Received
  BY <1>0, <1>5 DEF InProcess, NestInv
<1>7. InProcess \subseteq Requests
  BY <1>0, <1>5, <1>6 DEF InProcess, Received, NestInv
<1>8. new \in Givens /\ new.during = InProcess
  BY <1>7 DEF Givens
<1> HIDE DEF new
<1>9. /\ given' \in [Requests -> Givens] /\ given'[r].during = InProcess
      /\ \A q \in Received : given'[q] = given[q]
  BY <1>0, <1>1, <1>2, <1>3, <1>8 DEF CallTypes
<1>10. CallTypes' /\ CallsInv'
  <2>1. KeepsHandlers
    BY <1>1, ProcessTcStack, EnteredKeeps
  <2> QED BY <1>0, <1>1, <1>9, <2>1, CallsKept DEF CallTypes
<1>11. ReadInv'
  <2>1. ASSUME NEW q \in Received PROVE Overwriters(q) \subseteq Overwriters(q)'
    BY <1>2, <1>9 DEF Overwriters
  <2> QED BY <1>0, <1>1, <2>1, CalledReceived DEF ReadInv
<1>12. ASSUME NEW i \in 1 .. Len(stack'), stack'[i].pc \in ProcessPcs,
              NEW q \in Received', q > stack'[i].req
       PROVE  stack'[i].req \in given'[q].during
  <2>1. CASE i \in 1 .. n
    <3>1. i \in 1 .. Len(stack) /\ stack'[i] = stack[i]
      BY <1>4, <1>5, <2>1 DEF Pushed
    <3>2. CASE q \in Received
      BY <1>0, <1>9, <1>12, <3>1, <3>2 DEF LentInv
    <3>3. CASE q = r
      BY <1>6, <1>9, <1>12, <2>1, <3>1, <3>3
    <3> QED BY <1>2, <3>2, <3>3
  <2>2. CASE i = n + 1
    <3>1. stack'[i].req = r
      BY <1>4, <1>5, <2>2 DEF Pushed
    <3> QED BY <1>2, <1>3, <1>12, <3>1
  <2> QED BY <1>4, <1>5, <2>1, <2>2 DEF Pushed
<1>13. LentInv' /\ SecondInv'
  BY <1>1, <1>12 DEF LentInv, SecondInv
<1> QED BY <1>10, <1>11, <1>13 DEF LinkInv

\* The handler is entered, right above its pus_tc_process, and reads what it reads first.
LEMMA DispatchLinks ==
    ASSUME TypeOK, VerifInv, LinkInv, Dispatch, SlotInv'
    PROVE  LinkInv'
<1>0. /\ NestInv /\ CallTypes /\ CallsInv /\ LentInv /\ ReadInv /\ SlotInv
      /\ table \in Tables
  BY DEF VerifInv, LinkInv, TypeOK
<1>1. /\ InvokeHandler /\ stack # <<>> /\ Top.pc = "invoke"
      /\ table[Top.idx].val # NoValue
      /\ UNCHANGED <<given, answers, tc>> /\ registering' = Nobody
  BY DEF Dispatch, InvokeHandler, At, history, Undisturbed
<1>2. PICK n \in Nat \ {0} : n = Len(stack) /\ Top = stack[n] /\ n \in 1 .. Len(stack)
  BY <1>1, TopResult DEF TypeOK
<1>3. /\ Top.pc \in ProcessPcs /\ Top.pc \in PreDispatch
      /\ Top.req \in Received /\ Top.req \in Requests
  <2>1. Top.pc \in ProcessPcs /\ Top.pc \in PreDispatch
    BY <1>1 DEF ProcessPcs, PreDispatch
  <2> QED BY <1>0, <1>2, <2>1 DEF NestInv, Received
<1>4. /\ InBuffer(Top.req) \in {Top.req} \cup Overwriters(Top.req)
      /\ InBuffer(Top.req) \in Requests
  <2>1. InBuffer(Top.req) \in {Top.req} \cup Overwriters(Top.req)
    BY <1>0, <1>2, <1>3, BufferHolds
  <2> QED BY <1>3, <2>1 DEF Overwriters, Received
<1>5. table[Top.idx].val \in Values
  <2>1. Top.idx \in Slots
    BY <1>0, <1>2, <1>3 DEF SlotInv
  <2> QED BY <1>0, <1>1, <2>1 DEF Tables, Entries
<1>6. PICK f, g \in Frames : /\ f.pc = "completion" /\ f.req = Top.req
                            /\ ReplacedBelow(f, g)
                            /\ g.pc = "handler" /\ g.req = Top.req
  BY <1>1, InvokeHandlerFrames
<1>short. PICK short \in SeemsShort(table[Top.idx].val, Top.req) :
              calls' = Append(calls, Call(table[Top.idx].val, Top.req, short))
  BY DEF Dispatch
<1> DEFINE new == Call(table[Top.idx].val, Top.req, short)
<1>7. /\ new \in CallRecords /\ new.req = Top.req /\ new.frame = n + 1
      /\ new.about \subseteq {Top.req} \cup Overwriters(Top.req)
      /\ new.pc = "running" /\ new.handler = table[Top.idx].val
  <2>1. short \in BOOLEAN
    <3>1. given[Top.req] \in Givens
      BY <1>0, <1>3 DEF CallTypes
    <3> QED BY <3>1 DEF SeemsShort, Givens
  <2>2. new.about \in {{}, {InBuffer(Top.req)}}
    BY DEF Call
  <2>3. /\ new.req = Top.req /\ new.frame = n + 1 /\ new.pc = "running"
        /\ new.handler = table[Top.idx].val /\ new.short = short
        /\ new = [handler |-> new.handler, frame |-> new.frame, req |-> new.req,
                  short |-> new.short, about |-> new.about, pc |-> new.pc]
    BY <1>2 DEF Call
  <2> HIDE DEF new
  <2>4. new.about \subseteq {Top.req} \cup Overwriters(Top.req) /\ new.about \in SUBSET Requests
    BY <1>3, <1>4, <2>2
  <2>5. n + 1 \in Nat
    BY <1>2
  <2> QED BY <1>3, <1>5, <2>1, <2>3, <2>4, <2>5 DEF CallRecords
<1>8. PICK m \in Nat : m = Len(calls)
  BY <1>0 DEF CallTypes
<1> HIDE DEF new
<1>9. /\ calls' \in Seq(CallRecords) /\ Len(calls') = m + 1
      /\ \A c \in 1 .. m : calls'[c] = calls[c] /\ c \in 1 .. Len(calls)
      /\ calls'[m + 1] = new
  <2>1. calls' = Append(calls, new) /\ calls \in Seq(CallRecords)
    BY <1>0, <1>short DEF CallTypes, new
  <2> QED BY <1>7, <1>8, <2>1
<1>10. CallTypes'
  BY <1>0, <1>1, <1>9 DEF CallTypes
<1>11. ASSUME NEW c \in 1 .. m
       PROVE  /\ Depth(c)' = Depth(c) /\ Depth(c) \in 1 .. n - 1
              /\ stack'[Depth(c)].pc = "handler" /\ stack'[Depth(c)].req = calls'[c].req
  <2>1. Depth(c)' = Depth(c)
    BY <1>1, <1>9 DEF Depth
  <2>2. PICK h \in 1 .. n : /\ h = Depth(c) /\ stack[h].pc = "handler"
                            /\ stack[h].req = calls[c].req
    BY <1>0, <1>2, <1>9 DEF CallsInv
  <2>3. h # n
    BY <1>1, <1>2, <2>2
  <2>4. h \in 1 .. n - 1
    BY <2>2, <2>3
  <2>5. stack'[h] = stack[h]
    BY <1>2, <1>6, <2>4 DEF ReplacedBelow
  <2> QED BY <1>9, <2>1, <2>2, <2>4, <2>5
<1>12. Depth(m + 1)' = n + 1
  BY <1>7, <1>9 DEF Depth
<1>13. /\ Len(stack') = n + 1 /\ stack'[n] = f /\ stack'[n + 1] = g
       /\ \A i \in 1 .. n - 1 : stack'[i] = stack[i]
  BY <1>2, <1>6 DEF ReplacedBelow
<1>14. CallsInv'
  <2>1. ASSUME NEW c \in 1 .. Len(calls')
        PROVE  /\ Depth(c)' \in 1 .. Len(stack')
               /\ stack'[Depth(c)'].pc = "handler" /\ stack'[Depth(c)'].req = calls'[c].req
    <3>1. CASE c \in 1 .. m
      BY <1>11, <1>13, <3>1
    <3>2. CASE c = m + 1
      BY <1>6, <1>7, <1>9, <1>12, <1>13, <3>2
    <3> QED BY <1>9, <3>1, <3>2
  <2>2. ASSUME NEW c \in 1 .. Len(calls'), NEW d \in 1 .. Len(calls'), c < d
        PROVE  Depth(c)' < Depth(d)'
    <3>1. c \in 1 .. m /\ (d \in 1 .. m \/ d = m + 1)
      BY <1>9, <2>2
    <3>2. CASE d \in 1 .. m
      <4>1. Depth(c) < Depth(d)
        BY <1>0, <1>9, <2>2, <3>1, <3>2 DEF CallsInv
      <4> QED BY <1>11, <3>1, <3>2, <4>1
    <3>3. CASE d = m + 1
      BY <1>11, <1>12, <3>1, <3>3
    <3> QED BY <3>1, <3>2, <3>3
  <2>3. ASSUME NEW i \in 1 .. Len(stack'), stack'[i].pc = "handler"
        PROVE  \E c \in 1 .. Len(calls') : Depth(c)' = i
    <3>1. CASE i \in 1 .. n - 1
      <4>1. i \in 1 .. Len(stack) /\ stack[i].pc = "handler"
        BY <1>2, <1>13, <2>3, <3>1
      <4>2. PICK c \in 1 .. m : Depth(c) = i
        BY <1>0, <1>8, <4>1 DEF CallsInv
      <4>3. Depth(c)' = i
        BY <1>11, <4>2
      <4>4. c \in 1 .. Len(calls')
        BY <1>9, <4>2
      <4> QED BY <4>3, <4>4
    <3>2. CASE i = n
      BY <1>6, <1>13, <2>3, <3>2
    <3>3. CASE i = n + 1
      <4>1. m + 1 \in 1 .. Len(calls')
        BY <1>9
      <4> QED BY <1>12, <3>3, <4>1
    <3>4. i \in 1 .. n - 1 \/ i = n \/ i = n + 1
      BY <1>13
    <3> QED BY <3>1, <3>2, <3>3, <3>4
  <2> QED BY <2>1, <2>2, <2>3 DEF CallsInv
<1>15. LentInv'
  <2>1. KeepsProcesses
    <3>1. PICK f1 \in Frames : /\ Stepped(f1, {"handler"}) /\ f1.pc = "completion"
                               /\ f1.req = Top.req
      BY <1>1, InvokeHandlerStack
    <3>2. "handler" \notin ProcessPcs
      BY DEF ProcessPcs
    <3> QED BY <1>1, <1>3, <3>1, <3>2, SteppedKeeps
  <2> QED BY <1>0, <1>1, <2>1, LentKept
<1>16. ReadInv'
  <2>1. \A c \in 1 .. Len(calls') : c \in 1 .. m \/ c = m + 1
    BY <1>9
  <2>2. \A q : Overwriters(q)' = Overwriters(q)
    BY <1>1, OverwritersKept
  <2> QED BY <1>0, <1>7, <1>8, <1>9, <2>1, <2>2 DEF ReadInv
<1>17. SecondInv'
  BY <1>1 DEF SecondInv
<1> QED BY <1>10, <1>14, <1>15, <1>16, <1>17 DEF LinkInv

\* The innermost handler returns.
LEMMA HandlerReturnsLinks ==
    ASSUME TypeOK, LinkInv, Undisturbed, NEW status, HandlerReturns(status), SlotInv'
    PROVE  LinkInv'
<1>0. CallTypes /\ CallsInv /\ LentInv /\ ReadInv
  BY DEF LinkInv
<1>1. /\ At("handler") /\ ReturnFromCallback(Len(stack)) /\ calls' = Front(calls)
      /\ UNCHANGED <<given, answers>> /\ registering' = Nobody
  BY DEF HandlerReturns, Undisturbed
<1>2. Returned /\ stack # <<>> /\ UNCHANGED tc
  BY <1>1, CallbackReturned
<1>3. PICK m \in Nat \ {0} : m = Len(calls) /\ calls # <<>> /\ Depth(m) = Len(stack)
  <2>1. /\ calls # <<>> /\ Len(calls) \in 1 .. Len(calls)
        /\ Depth(Len(calls)) = Len(stack)
    BY <1>0, <1>1, TopIsCurrent
  <2>2. Len(calls) \in Nat
    BY <1>0 DEF CallTypes
  <2> QED BY <2>1, <2>2
<1>4. /\ calls' \in Seq(CallRecords) /\ Len(calls') = m - 1
      /\ \A c \in 1 .. m - 1 : calls'[c] = calls[c] /\ c \in 1 .. Len(calls)
  BY <1>0, <1>1, <1>3, CallsFront DEF CallTypes
<1>5. PICK n \in Nat \ {0} : /\ n = Len(stack) /\ Len(stack') = n - 1
                              /\ \A i \in 1 .. n - 1 : stack'[i] = stack[i] /\ i \in 1 .. n
  BY <1>2, TopResult DEF Returned, TypeOK
<1>6. ASSUME NEW c \in 1 .. m - 1
      PROVE  /\ Depth(c)' = Depth(c) /\ Depth(c) \in 1 .. n - 1
             /\ stack'[Depth(c)].pc = "handler" /\ stack'[Depth(c)].req = calls'[c].req
  <2>1. Depth(c)' = Depth(c)
    BY <1>1, <1>4 DEF Depth
  <2>2. PICK h \in 1 .. n : /\ h = Depth(c) /\ stack[h].pc = "handler"
                            /\ stack[h].req = calls[c].req
    BY <1>0, <1>4, <1>5 DEF CallsInv
  <2>3. m \in 1 .. Len(calls) /\ c < m
    BY <1>3
  <2>4. Depth(c) < Depth(m)
    BY <1>0, <1>4, <2>3 DEF CallsInv
  <2>5. h \in 1 .. n - 1
    BY <1>3, <1>5, <2>2, <2>4
  <2> QED BY <1>4, <1>5, <2>1, <2>2, <2>5
<1>7. CallsInv'
  <2>1. ASSUME NEW c \in 1 .. Len(calls')
        PROVE  /\ Depth(c)' \in 1 .. Len(stack')
               /\ stack'[Depth(c)'].pc = "handler" /\ stack'[Depth(c)'].req = calls'[c].req
    BY <1>4, <1>5, <1>6
  <2>2. ASSUME NEW c \in 1 .. Len(calls'), NEW d \in 1 .. Len(calls'), c < d
        PROVE  Depth(c)' < Depth(d)'
    <3>1. c \in 1 .. m - 1 /\ d \in 1 .. m - 1
      BY <1>4
    <3>2. Depth(c) < Depth(d)
      BY <1>0, <1>4, <2>2, <3>1 DEF CallsInv
    <3> QED BY <1>6, <3>1, <3>2
  <2>3. ASSUME NEW i \in 1 .. Len(stack'), stack'[i].pc = "handler"
        PROVE  \E c \in 1 .. Len(calls') : Depth(c)' = i
    <3>1. i \in 1 .. n - 1 /\ i \in 1 .. Len(stack) /\ stack[i].pc = "handler"
      BY <1>5, <2>3
    <3>2. PICK c \in 1 .. m : Depth(c) = i
      BY <1>0, <1>3, <3>1 DEF CallsInv
    <3>3. c # m
      BY <1>3, <1>5, <3>1, <3>2
    <3>4. c \in 1 .. m - 1
      BY <3>3
    <3> QED BY <1>4, <1>6, <3>2, <3>4
  <2> QED BY <2>1, <2>2, <2>3 DEF CallsInv
<1>8. LentInv'
  BY <1>0, <1>1, <1>2, ReturnedKeeps, LentKept
<1>9. CallTypes' /\ ReadInv'
  <2>1. \A q : Overwriters(q)' = Overwriters(q)
    BY <1>1, <1>2, OverwritersKept
  <2> QED BY <1>0, <1>1, <1>4, <2>1 DEF CallTypes, ReadInv
<1>10. SecondInv'
  BY <1>1 DEF SecondInv
<1> QED BY <1>7, <1>8, <1>9, <1>10 DEF LinkInv

LEMMA StepLinkInv ==
    TypeOK /\ VerifInv /\ LinkInv /\ [ServicesNext]_allVars => LinkInv'
<1> SUFFICES ASSUME TypeOK, VerifInv, LinkInv, [ServicesNext]_allVars PROVE LinkInv'
  OBVIOUS
<1>0. SlotInv'
  BY StepIsCoreStep, StepSlotInv DEF LinkInv
<1>1. ASSUME NEW s \in Services, RegisterFirst(s) \/ RegisterSecond(s) PROVE LinkInv'
  BY <1>0, <1>1, ConfigLinks
<1>2. CASE Initialise \/ SetSink
  BY <1>0, <1>2, ConfigLinks
<1>3. ASSUME NEW k \in Keys, NEW v \in Values, RegisterOwn(k, v) PROVE LinkInv'
  BY <1>0, <1>3, ConfigLinks
<1>4. ASSUME NEW k \in Keys, Deregister(k) PROVE LinkInv'
  BY <1>0, <1>4, ConfigLinks
<1>5. ASSUME NEW k \in Keys, NEW ack \in AckSets, NEW short \in Lengths(k),
             NEW b \in Buffers, Receive(k, ack, short, b)
      PROVE  LinkInv'
  <2>1. short \in BOOLEAN
    BY DEF Lengths
  <2> QED BY <1>0, <1>5, <2>1, ReceiveLinks
<1>6. CASE Dispatch
  BY <1>0, <1>6, DispatchLinks
<1>7. ASSUME NEW status, Undisturbed, HandlerReturns(status) PROVE LinkInv'
  BY <1>0, <1>7, HandlerReturnsLinks
<1>8. CASE RefuseShort \/ ReturnAnswered \/ ParametersSet
  BY <1>7, <1>8 DEF RefuseShort, ReturnAnswered, ParametersSet
<1>9. ASSUME NEW status, ParametersFail(status) \/ OwnHandlerReturns(status) PROVE LinkInv'
  BY <1>7, <1>9 DEF ParametersFail, OwnHandlerReturns
<1>10. ASSUME NEW status, SinkReturns(status) PROVE LinkInv'
  BY <1>0, <1>10, SinkReturnsLinks
<1>11. CASE BuildAnswer
  BY <1>0, <1>11, BuildAnswerLinks
<1>12. CASE SendPacket
  BY <1>0, <1>12, SendPacketLinks
<1>13. CASE ClockReturns
  BY <1>0, <1>13, ClockReturnsLinks
<1>14. CASE LibraryGoesOn
  BY <1>0, <1>14, LibraryLinks
<1>15. CASE BuildOwn
  BY <1>0, <1>15, BuildOwnLinks
<1>16. CASE ReadOn
  BY <1>0, <1>16, ReadOnLinks
<1>17. CASE UNCHANGED allVars
  <2>1. UNCHANGED <<stack, calls, given, answers, tc, registering>>
    BY <1>17 DEF allVars, serviceVars, vars, history
  <2>2. SecondInv'
    BY <2>1 DEF LinkInv, SecondInv, AppRuns, At, Top, HasAppCode, Current
  <2> QED BY <1>0, <2>1, <2>2, UnchangedKeeps, QuietLinks
<1> QED BY <1>1, <1>2, <1>3, <1>4, <1>5, <1>6, <1>8, <1>9, <1>10, <1>11, <1>12, <1>13,
           <1>14, <1>15, <1>16, <1>17
        DEF ServicesNext

LEMMA InitLinkInv == ServicesInit => LinkInv
<1> SUFFICES ASSUME ServicesInit PROVE LinkInv
  OBVIOUS
<1>1. stack = <<>> /\ calls = <<>> /\ registering = Nobody
  BY DEF ServicesInit, Init
<1>2. CallTypes
  BY DEF ServicesInit, CallTypes, Givens
<1>3. CallsInv /\ LentInv /\ SecondInv /\ SlotInv
  BY <1>1 DEF CallsInv, LentInv, SecondInv, SlotInv
<1>4. ReadInv
  BY <1>1 DEF ReadInv
<1> QED BY <1>2, <1>3, <1>4 DEF LinkInv

\* Every variable of the services keeps its type, for every size of the table and
\* every application: the calls running, the bytes they were given and the answers.
THEOREM ServicesTypesCorrect == ServicesSpec => []ServicesTypeOK
<1>1. TypeOK /\ VerifInv /\ LinkInv /\ RegistrationInv /\ [ServicesNext]_allVars
         => (TypeOK /\ VerifInv /\ LinkInv /\ RegistrationInv)'
  BY StepIsCoreStep, StepTypeOK, StepVerifInv, StepLinkInv, StepRegistrationInv
<1>2. ServicesInit => TypeOK /\ VerifInv /\ LinkInv /\ RegistrationInv
  BY InitTypeOK, InitVerifInv, InitLinkInv, InitRegistrationInv DEF ServicesInit
<1>3. TypeOK /\ LinkInv /\ RegistrationInv => ServicesTypeOK
  BY DEF ServicesTypeOK, LinkInv, CallTypes, RegistrationInv
<1> QED BY <1>1, <1>2, <1>3, PTL DEF ServicesSpec

\* Whatever the application receives, where and from where: the bytes a handler reads
\* are those of its own telecommand, or of one that the application received over
\* them while pus_tc_process had them on loan (pus_types.h:67, pus.c:40).  A buffer
\* that is left alone meanwhile is all that the library asks for.
THEOREM PayloadsAreLent == ServicesSpec => []PayloadsAreReadWhileLent
<1>1. TypeOK /\ VerifInv /\ LinkInv /\ [ServicesNext]_allVars
         => (TypeOK /\ VerifInv /\ LinkInv)'
  BY StepIsCoreStep, StepTypeOK, StepVerifInv, StepLinkInv
<1>2. ServicesInit => TypeOK /\ VerifInv /\ LinkInv
  BY InitTypeOK, InitVerifInv, InitLinkInv DEF ServicesInit
<1> QED BY <1>1, <1>2, LinkReads, PTL DEF ServicesSpec

----------------------------------------------------------------------------
(* What the answers to a telecommand are while it is processed *)

\* A command of a service is handled by its handler, and by nobody else's.
Own(key, handler) == key \in ServiceKeys \/ handler \in ServiceKeys => handler = key

\* The dispatch table routes the commands of the services to their handlers only.
ValuesInv == \A i \in UsedSlots(table) : Own(table[i].key, table[i].val)

\* The status tells what became of the answers.
Tells(status, ans) ==
    /\ status = "OK" => ans \in {<<"kept">>, <<"delivered">>}
    /\ status # "OK" => ans \in {<<>>, <<"refused">>}

\* The handler in frame d of stack s waits for its answer to be built and taken, or
\* has just been told, or is about to be told by the packet, what became of it.
Waits(s, d) ==
    /\ d < Len(s)
    /\ s[d + 1].pc \in PacketPcs /\ s[d + 1].send
    /\ Len(s) = d + 1 => s[d + 1].pc # "sent"
Done(s, d) ==
    \/ Len(s) = d
    \/ Len(s) = d + 1 /\ s[d + 1].pc = "sent"

\* The answers ans to the telecommand of the process frame f.
FrameAnswers(f, key, ans) ==
    /\ f.pc \in {"find", "acceptance", "start", "invoke"} => ans = <<>>
    /\ f.pc = "return" /\ key \in AnsweredKeys => Tells(f.st, ans)

FreshInv == \A r \in Requests \ Received : answers[r] = <<>>

FrameInv ==
    \A i \in 1 .. Len(stack) : stack[i].pc \in ProcessPcs =>
        FrameAnswers(stack[i], tc[stack[i].req].key, answers[stack[i].req])

\* The handler has just returned.
CompletionInv ==
    At("completion") /\ tc[Top.req].key \in AnsweredKeys => Tells(ret, answers[Top.req])

CallInv ==
    \A c \in 1 .. Len(calls) :
        /\ Own(tc[calls[c].req].key, calls[c].handler)
        /\ calls[c].pc = "running" => answers[calls[c].req] = <<>>
        /\ calls[c].pc = "answering" =>
              \/ Waits(stack, Depth(c)) /\ answers[calls[c].req] = <<>>
              \/ Done(stack, Depth(c)) /\ Tells(ret, answers[calls[c].req])

AnswerInv == FreshInv /\ FrameInv /\ CompletionInv /\ CallInv

----------------------------------------------------------------------------
(* Waiting, through a step *)

LEMMA WaitsNotDone ==
    ASSUME NEW s, Len(s) \in Nat, NEW d \in Nat, Waits(s, d)
    PROVE  ~Done(s, d)
BY DEF Waits, Done

\* Frames are only added.
LEMMA WaitsAbove ==
    ASSUME TypeOK, NEW d \in Nat, Waits(stack, d), stack' \in Seq(Frames),
           Len(stack') >= Len(stack),
           \A i \in 1 .. Len(stack) : stack'[i] = stack[i]
    PROVE  Waits(stack', d)
<1>1. PICK n \in Nat : n = Len(stack)
  BY DEF TypeOK
<1>2. PICK m \in Nat : m = Len(stack') /\ m >= n
  BY <1>1
<1>3. d < n /\ d + 1 \in 1 .. Len(stack)
  BY <1>1 DEF Waits
<1>4. stack'[d + 1] = stack[d + 1]
  BY <1>3
<1>5. m = d + 1 => n = d + 1
  BY <1>1, <1>2, <1>3
<1> QED BY <1>1, <1>2, <1>3, <1>4, <1>5 DEF Waits

\* The innermost frame is replaced; that may be the packet waited for.
LEMMA WaitsStepped ==
    ASSUME TypeOK, NEW d \in Nat, Waits(stack, d), NEW f \in Frames, NEW G, Stepped(f, G),
           Top.pc \in PacketPcs => f.pc \in PacketPcs /\ f.send = Top.send,
           Top.pc \in PacketPcs /\ Len(stack') = Len(stack) /\ Len(stack) = d + 1 => f.pc # "sent"
    PROVE  Waits(stack', d)
<1>1. PICK n \in Nat \ {0} : n = Len(stack)
  BY DEF Stepped
<1>2. PICK m \in {n, n + 1} : m = Len(stack')
  BY <1>1 DEF Stepped
<1>3. d < n
  BY <1>1 DEF Waits
<1>4. CASE d + 1 = n
  <2>1. stack[d + 1] = Top /\ stack'[d + 1] = f
    BY <1>1, <1>4, TopResult DEF TypeOK, Stepped
  <2>2. Top.pc \in PacketPcs /\ Top.send
    BY <2>1 DEF Waits
  <2>3. f.pc \in PacketPcs /\ f.send
    BY <2>2
  <2>4. m = d + 1 => f.pc # "sent"
    BY <1>1, <1>2, <1>4, <2>2
  <2> QED BY <1>2, <1>3, <2>1, <2>3, <2>4 DEF Waits
<1>5. CASE d + 1 # n
  <2>1. d + 1 \in 1 .. Len(stack) - 1
    BY <1>1, <1>3, <1>5
  <2>2. stack'[d + 1] = stack[d + 1]
    BY <2>1 DEF Stepped
  <2>3. m # d + 1 /\ d < m
    BY <1>2, <1>3, <1>5
  <2> QED BY <1>2, <2>2, <2>3 DEF Waits
<1> QED BY <1>4, <1>5

\* The innermost frame is left; it is not the packet waited for.
LEMMA WaitsReturned ==
    ASSUME TypeOK, NEW d \in Nat, Waits(stack, d), stack # <<>>, Returned,
           Len(stack) # d + 1,
           Len(stack) = d + 2 => stack[d + 1].pc # "sent"
    PROVE  Waits(stack', d)
<1>1. PICK n \in Nat \ {0} : n = Len(stack)
  BY TopResult DEF TypeOK
<1>2. d + 1 \in 1 .. n - 1
  BY <1>1 DEF Waits
<1>3. stack'[d + 1] = stack[d + 1] /\ Len(stack') = n - 1
  BY <1>1, <1>2 DEF Returned
<1>4. n - 1 = d + 1 => stack[d + 1].pc # "sent"
  BY <1>1
<1> QED BY <1>2, <1>3, <1>4 DEF Waits

----------------------------------------------------------------------------
(* What waits, and what does not *)

\* A call and its frame.
LEMMA CallFrame ==
    ASSUME TypeOK, CallTypes, CallsInv, NEW c \in 1 .. Len(calls)
    PROVE  /\ calls[c] \in CallRecords /\ calls[c].req \in Requests
           /\ Depth(c) \in Nat /\ Depth(c) \in 1 .. Len(stack)
           /\ stack[Depth(c)].pc = "handler"
<1>1. calls \in Seq(CallRecords)
  BY DEF CallTypes
<1>2. calls[c] \in CallRecords
  BY <1>1
<1>3. calls[c].req \in Requests
  BY <1>2 DEF CallRecords
<1>4. Depth(c) \in 1 .. Len(stack) /\ stack[Depth(c)].pc = "handler"
  BY DEF CallsInv
<1> QED BY <1>2, <1>3, <1>4

\* Unless the innermost call is the one that is told, or the packet that tells it, every
\* handler that answers waits.
LEMMA AllWait ==
    ASSUME TypeOK, CallTypes, CallsInv, CallInv, ~At("sent"),
           At("handler") => Current.pc # "answering",
           NEW c \in 1 .. Len(calls), calls[c].pc = "answering"
    PROVE  Waits(stack, Depth(c)) /\ answers[calls[c].req] = <<>>
<1>1. PICK d \in 1 .. Len(stack) : d = Depth(c) /\ stack[d].pc = "handler"
  BY CallFrame
<1>2. PICK n \in Nat : n = Len(stack)
  BY DEF TypeOK
<1>3. stack # <<>> /\ Top = stack[n] /\ n # 0
  <2>1. n # 0 /\ stack # <<>>
    BY <1>1, <1>2, EmptySeq
  <2> QED BY <1>2, <2>1, TopResult DEF TypeOK
<1>4. n # d
  <2> SUFFICES ASSUME n = d PROVE FALSE
    OBVIOUS
  <2>1. At("handler")
    BY <1>1, <1>3 DEF At
  <2>2. /\ Len(calls) \in 1 .. Len(calls) /\ Current = calls[Len(calls)]
        /\ Depth(Len(calls)) = Len(stack)
    BY <2>1, TopIsCurrent
  <2>3. c # Len(calls)
    BY <2>1, <2>2
  <2>4. c < Len(calls)
    BY <2>2, <2>3
  <2>5. Depth(c) < Depth(Len(calls))
    BY <2>2, <2>4 DEF CallsInv
  <2> QED BY <1>1, <1>2, <2>2, <2>5
<1>5. ~(n = d + 1 /\ stack[d + 1].pc = "sent")
  BY <1>3 DEF At
<1>6. ~Done(stack, d)
  BY <1>2, <1>4, <1>5 DEF Done
<1> QED BY <1>1, <1>6 DEF CallInv

\* Handlers that wait before and after a step do not see it.
LEMMA StillWait ==
    ASSUME CallTypes, CallInv, UNCHANGED <<calls, answers>>,
           \A c \in 1 .. Len(calls) : tc'[calls[c].req] = tc[calls[c].req],
           \A c \in 1 .. Len(calls) : calls[c].pc = "answering" =>
               Waits(stack', Depth(c)) /\ answers[calls[c].req] = <<>>
    PROVE  CallInv'
<1>1. ASSUME NEW c \in 1 .. Len(calls')
      PROVE  /\ Own(tc'[calls'[c].req].key, calls'[c].handler)
             /\ calls'[c].pc = "running" => answers'[calls'[c].req] = <<>>
             /\ calls'[c].pc = "answering" =>
                   Waits(stack', Depth(c)') /\ answers'[calls'[c].req] = <<>>
  <2>1. Depth(c)' = Depth(c)
    BY DEF Depth
  <2> QED BY <2>1 DEF CallInv
<1> QED BY <1>1 DEF CallInv

LEMMA FrameInvKept ==
    ASSUME FrameInv, UNCHANGED <<answers, tc>>,
           \A i \in 1 .. Len(stack') : stack'[i].pc \in ProcessPcs =>
               i \in 1 .. Len(stack) /\ stack'[i] = stack[i]
    PROVE  FrameInv'
BY DEF FrameInv

LEMMA FrameInvStepped ==
    ASSUME TypeOK, FrameInv, UNCHANGED <<answers, tc>>, NEW f \in Frames, NEW G,
           Stepped(f, G), G \cap ProcessPcs = {},
           f.pc \in ProcessPcs => FrameAnswers(f, tc[f.req].key, answers[f.req])
    PROVE  FrameInv'
<1>1. PICK n \in Nat \ {0} : n = Len(stack)
  BY DEF Stepped
<1>2. ASSUME NEW i \in 1 .. Len(stack'), stack'[i].pc \in ProcessPcs
      PROVE  FrameAnswers(stack'[i], tc[stack'[i].req].key, answers[stack'[i].req])
  <2>1. CASE i \in 1 .. n - 1
    <3>1. i \in 1 .. Len(stack) /\ stack'[i] = stack[i]
      BY <1>1, <2>1 DEF Stepped
    <3> QED BY <1>2, <3>1 DEF FrameInv
  <2>2. CASE i = n
    <3>1. stack'[i] = f
      BY <1>1, <2>2 DEF Stepped
    <3> QED BY <1>2, <3>1
  <2>3. CASE i = n + 1
    <3>1. stack'[i].pc \in G
      BY <1>1, <2>3 DEF Stepped
    <3> QED BY <1>2, <3>1
  <2>4. i \in 1 .. n - 1 \/ i = n \/ i = n + 1
    BY <1>1 DEF Stepped
  <2> QED BY <2>1, <2>2, <2>3, <2>4
<1> QED BY <1>2 DEF FrameInv

----------------------------------------------------------------------------
(* The table routes the commands of the services to their handlers *)

LEMMA RegisterKeepsValues ==
    ASSUME TypeOK, ValuesInv, NEW k \in Keys, NEW v \in Values, RegisterHandler(k, v),
           Own(k, v)
    PROVE  ValuesInv'
<1>1. CASE CanStore(table, k)
  <2> DEFINE s == SlotFor(table, k)
  <2>1. /\ table'[s] = [used |-> TRUE, key |-> k, val |-> v]
        /\ \A i \in Slots : i # s => table'[i] = table[i]
    BY <1>1, StoreWrites DEF TypeOK, RegisterHandler
  <2> HIDE DEF s
  <2>2. ASSUME NEW i \in UsedSlots(table') PROVE Own(table'[i].key, table'[i].val)
    <3>1. CASE i = s
      BY <2>1, <3>1
    <3>2. CASE i # s
      <4>1. i \in UsedSlots(table) /\ table'[i] = table[i]
        BY <2>1, <3>2 DEF UsedSlots
      <4> QED BY <4>1 DEF ValuesInv
    <3> QED BY <3>1, <3>2
  <2> QED BY <2>2 DEF ValuesInv
<1>2. CASE ~CanStore(table, k)
  BY <1>2 DEF RegisterHandler, ValuesInv
<1> QED BY <1>1, <1>2

LEMMA StepValuesInv == TypeOK /\ ValuesInv /\ [ServicesNext]_allVars => ValuesInv'
<1> SUFFICES ASSUME TypeOK, ValuesInv, [ServicesNext]_allVars PROVE ValuesInv'
  OBVIOUS
<1>1. ASSUME NEW s \in Services, RegisterFirst(s) \/ RegisterSecond(s) PROVE ValuesInv'
  <2>1. {FirstKey[s], SecondKey[s]} \subseteq Keys \cap Values
    BY KeyFacts
  <2>2. \A k : Own(k, k)
    BY DEF Own
  <2> QED BY <1>1, <2>1, <2>2, RegisterKeepsValues DEF RegisterFirst, RegisterSecond
<1>2. ASSUME NEW k \in Keys, NEW v \in Values \ ServiceKeys, RegisterOwn(k, v)
      PROVE  ValuesInv'
  <2>1. Own(k, v)
    BY <1>2 DEF RegisterOwn, Own
  <2> QED BY <1>2, <2>1, RegisterKeepsValues DEF RegisterOwn
<1>3. ASSUME NEW k \in Keys, Deregister(k) PROVE ValuesInv'
  <2>1. DeregisterHandler(k)
    BY <1>3 DEF Deregister
  <2>2. CASE Holding(table, k) # {}
    <3>1. table' = Clear(table, k)
      BY <2>1, <2>2 DEF DeregisterHandler
    <3>2. \A i \in UsedSlots(table') : i \in UsedSlots(table) /\ table'[i] = table[i]
      BY <2>2, <3>1, ClearRemoves DEF TypeOK, UsedSlots
    <3> QED BY <3>2 DEF ValuesInv
  <2>3. CASE Holding(table, k) = {}
    BY <2>1, <2>3 DEF DeregisterHandler, ValuesInv
  <2> QED BY <2>2, <2>3
<1>4. CASE Initialise
  <2>1. table' = EmptyTable
    BY <1>4 DEF Initialise, InitContext
  <2>2. UsedSlots(EmptyTable) = {}
    BY DEF EmptyTable, UsedSlots
  <2> QED BY <2>1, <2>2 DEF ValuesInv
<1>5. ASSUME UNCHANGED table PROVE ValuesInv'
  BY <1>5 DEF ValuesInv
<1>6. ASSUME NEW status, HandlerReturns(status) PROVE ValuesInv'
  BY <1>5, <1>6 DEF HandlerReturns, ReturnFromCallback, ctxVars
<1>7. CASE RefuseShort \/ ReturnAnswered \/ ParametersSet
           \/ \E status \in AppStatuses : ParametersFail(status) \/ OwnHandlerReturns(status)
  BY <1>6, <1>7 DEF RefuseShort, ReturnAnswered, ParametersSet, ParametersFail,
                    OwnHandlerReturns
<1>8. CASE SetSink \/ BuildOwn \/ BuildAnswer \/ Dispatch \/ SendPacket \/ ClockReturns
  BY <1>5, <1>8 DEF SetSink, SetTmSink, BuildOwn, BuildAnswer, BuildTm, Dispatch,
     InvokeHandler, SendPacket, FinishPacket, ClockReturns, ReturnFromCallback, ctxVars
<1>9. ASSUME NEW k, NEW ack, NEW short, NEW b, Receive(k, ack, short, b) PROVE ValuesInv'
  BY <1>5, <1>9 DEF Receive, ProcessTc, ctxVars
<1>10. ASSUME NEW status, SinkReturns(status) PROVE ValuesInv'
  BY <1>5, <1>10 DEF SinkReturns, ReturnFromCallback, ctxVars
<1>11. CASE LibraryGoesOn
  BY <1>5, <1>11 DEF LibraryGoesOn, FindHandler, EmitAcceptance, EmitStart, EmitCompletion,
     ReturnFromProcess, StampHeader, ReturnFromPacket, ctxVars
<1>12. CASE ReadOn \/ UNCHANGED allVars
  BY <1>5, <1>12 DEF ReadOn, allVars, vars, ctxVars
<1> QED BY <1>1, <1>2, <1>3, <1>4, <1>7, <1>8, <1>9, <1>10, <1>11, <1>12 DEF ServicesNext

LEMMA InitValuesInv == Init => ValuesInv
<1>1. UsedSlots(EmptyTable) = {}
  BY DEF EmptyTable, UsedSlots
<1> QED BY <1>1 DEF Init, ValuesInv

----------------------------------------------------------------------------
(* Application code runs *)

\* No handler has a next step of its own, other than to wait for its answer.
LEMMA AppWait ==
    ASSUME TypeOK, LinkInv, CallInv, AppRuns, AppContext \in AppContexts,
           NEW c \in 1 .. Len(calls), calls[c].pc = "answering"
    PROVE  Waits(stack, Depth(c)) /\ answers[calls[c].req] = <<>>
<1>0. CallTypes /\ CallsInv /\ ReadInv
  BY DEF LinkInv
<1>1. ~At("sent")
  BY DEF At, AppContext, AppContexts
<1>2. At("handler") => Current.pc # "answering"
  <2> SUFFICES ASSUME At("handler"), Current.pc = "answering" PROVE FALSE
    OBVIOUS
  <2>1. Len(calls) \in 1 .. Len(calls) /\ Current = calls[Len(calls)]
    BY <1>0, TopIsCurrent
  <2>2. Current.handler \in AnsweredKeys
    BY <1>0, <2>1 DEF ReadInv
  <2>3. Current.handler \in ServiceKeys
    BY <2>2 DEF AnsweredKeys
  <2>4. HasAppCode(Current)
    BY DEF AppRuns
  <2> QED BY <2>3, <2>4 DEF HasAppCode
<1> QED BY <1>0, <1>1, <1>2, AllWait

LEMMA NotCompleting ==
    ASSUME stack' # <<>> => stack'[Len(stack')].pc # "completion"
    PROVE  CompletionInv'
BY DEF CompletionInv, At, Top, Last

LEMMA AppAnswers ==
    ASSUME TypeOK, LinkInv, AnswerInv, AppRuns, AppContext \in AppContexts,
           UNCHANGED <<calls, given, answers, tc>>,
           UNCHANGED stack \/ Entered({"stamp"})
    PROVE  AnswerInv'
<1>0. CallTypes /\ CallsInv /\ FreshInv /\ FrameInv /\ CallInv /\ stack \in Seq(Frames)
  BY DEF LinkInv, AnswerInv, TypeOK
<1>1. FreshInv'
  BY <1>0 DEF FreshInv, Received
<1>2. FrameInv'
  <2>1. "stamp" \notin ProcessPcs
    BY DEF ProcessPcs
  <2>2. \A i \in 1 .. Len(stack') : stack'[i].pc \in ProcessPcs =>
            i \in 1 .. Len(stack) /\ stack'[i] = stack[i]
    BY <1>0, <2>1 DEF Entered
  <2> QED BY <1>0, <2>2, FrameInvKept
<1>3. CompletionInv'
  <2>1. stack # <<>> => stack[Len(stack)].pc # "completion"
    BY <1>0, TopResult DEF AppContext, AppContexts
  <2>2. stack' # <<>> => stack'[Len(stack')].pc # "completion"
    BY <2>1 DEF Entered
  <2> QED BY <2>2, NotCompleting
<1>4. CallInv'
  <2>1. ASSUME NEW c \in 1 .. Len(calls), calls[c].pc = "answering"
        PROVE  Waits(stack', Depth(c)) /\ answers[calls[c].req] = <<>>
    <3>1. Depth(c) \in Nat /\ Waits(stack, Depth(c)) /\ answers[calls[c].req] = <<>>
      BY <1>0, <2>1, AppWait, CallFrame
    <3>2. PICK n \in Nat : n = Len(stack)
      BY <1>0
    <3>3. /\ stack' \in Seq(Frames) /\ Len(stack') >= Len(stack)
          /\ \A i \in 1 .. Len(stack) : stack'[i] = stack[i]
      BY <1>0, <3>2 DEF Entered
    <3> QED BY <3>1, <3>3, WaitsAbove
  <2> QED BY <1>0, <2>1, StillWait
<1> QED BY <1>1, <1>2, <1>3, <1>4 DEF AnswerInv

LEMMA ConfigAnswers ==
    ASSUME TypeOK, LinkInv, AnswerInv,
           \/ \E s \in Services : RegisterFirst(s) \/ RegisterSecond(s)
           \/ Initialise \/ SetSink \/ BuildOwn
           \/ \E k \in Keys : Deregister(k) \/ \E v \in Values : RegisterOwn(k, v)
    PROVE  AnswerInv'
<1>1. UNCHANGED <<calls, given, answers>>
  BY DEF RegisterFirst, RegisterSecond, Initialise, SetSink, Deregister, RegisterOwn, BuildOwn
<1>2. UNCHANGED tc
  BY DEF RegisterFirst, RegisterSecond, Initialise, SetSink, Deregister, RegisterOwn, BuildOwn,
         BuildTm, RegisterHandler, DeregisterHandler, InitContext, SetTmSink, history
<1>3. UNCHANGED stack \/ Entered({"stamp"})
  <2>1. CASE BuildOwn
    BY <2>1, BuildTmStack DEF BuildOwn
  <2>2. CASE ~BuildOwn
    BY <2>2 DEF RegisterFirst, RegisterSecond, Initialise, SetSink, Deregister, RegisterOwn,
           RegisterHandler, DeregisterHandler, InitContext, SetTmSink, history
  <2> QED BY <2>1, <2>2
<1>4. AppContext \in AppContexts
  <2>1. \E call : AppCalls(call)
    BY DEF RegisterFirst, RegisterSecond, Initialise, SetSink, Deregister, RegisterOwn, BuildOwn,
           BuildTm, RegisterHandler, DeregisterHandler, InitContext, SetTmSink, AppEnters
  <2> QED BY <2>1, AppCallsTop
<1>5. AppRuns
  <2>1. ASSUME NEW s \in Services, RegisterSecond(s) PROVE AppRuns
    BY <2>1, KeyFacts DEF RegisterSecond, LinkInv, SecondInv
  <2> QED BY <2>1 DEF RegisterFirst, Initialise, SetSink, Deregister, RegisterOwn, BuildOwn
<1> QED BY <1>1, <1>2, <1>3, <1>4, <1>5, AppAnswers

----------------------------------------------------------------------------
(* The library goes on *)

LEMMA ReceiveAnswers ==
    ASSUME TypeOK, VerifInv, LinkInv, AnswerInv, NEW k \in Keys, NEW ack \in AckSets,
           NEW short, NEW b, Receive(k, ack, short, b)
    PROVE  AnswerInv'
<1>0. /\ ReceiveInv /\ NestInv /\ IssueInv /\ CallTypes /\ CallsInv
      /\ FreshInv /\ FrameInv /\ CallInv
  BY DEF VerifInv, LinkInv, AnswerInv
<1>1. ProcessTc(k, ack) /\ AppRuns /\ UNCHANGED <<calls, answers>>
  BY DEF Receive
<1> DEFINE r == Cardinality(Received) + 1
<1>2. /\ r \in Requests \ Received /\ Received' = Received \cup {r}
      /\ tc' = [tc EXCEPT ![r] = [key |-> k, ack |-> ack]]
      /\ \E g \in Frames : Pushed(g) /\ g.pc = "find" /\ g.req = r
  BY <1>0, <1>1, ReceiveTc
<1> HIDE DEF r
<1>3. PICK g \in Frames : Pushed(g) /\ g.pc = "find" /\ g.req = r
  BY <1>2
<1>4. \A q \in Received : q \in Requests /\ q # r /\ tc'[q] = tc[q]
  BY <1>0, <1>2 DEF Received, TypeOK
<1>5. PICK n \in Nat : n = Len(stack)
  BY DEF TypeOK
<1>6. FreshInv'
  BY <1>0, <1>1, <1>2 DEF FreshInv
<1>7. ASSUME NEW i \in 1 .. Len(stack'), stack'[i].pc \in ProcessPcs
      PROVE  FrameAnswers(stack'[i], tc'[stack'[i].req].key, answers'[stack'[i].req])
  <2>1. CASE i \in 1 .. n
    <3>1. i \in 1 .. Len(stack) /\ stack'[i] = stack[i]
      BY <1>3, <1>5, <2>1 DEF Pushed
    <3>2. stack[i].req \in Received
      BY <1>0, <1>7, <3>1 DEF NestInv
    <3>3. FrameAnswers(stack[i], tc[stack[i].req].key, answers[stack[i].req])
      BY <1>0, <1>7, <3>1 DEF FrameInv
    <3> QED BY <1>1, <1>4, <3>1, <3>2, <3>3
  <2>2. CASE i = n + 1
    <3>1. stack'[i].req = r /\ stack'[i].pc = "find"
      BY <1>3, <1>5, <2>2 DEF Pushed
    <3>2. answers'[r] = <<>>
      BY <1>0, <1>1, <1>2 DEF FreshInv
    <3> QED BY <3>1, <3>2 DEF FrameAnswers
  <2> QED BY <1>3, <1>5, <2>1, <2>2 DEF Pushed
<1>8. CompletionInv'
  <2>1. stack'[Len(stack')].pc = "find"
    BY <1>3 DEF Pushed
  <2> QED BY <2>1, NotCompleting
<1>9. CallInv'
  <2>1. \A c \in 1 .. Len(calls) : tc'[calls[c].req] = tc[calls[c].req]
    BY <1>0, <1>4, CalledReceived
  <2>2. AppContext \in AppContexts
    BY <1>1, AppCallsTop DEF ProcessTc, AppEnters
  <2>3. ASSUME NEW c \in 1 .. Len(calls), calls[c].pc = "answering"
        PROVE  Waits(stack', Depth(c)) /\ answers[calls[c].req] = <<>>
    <3>1. Depth(c) \in Nat /\ Waits(stack, Depth(c)) /\ answers[calls[c].req] = <<>>
      BY <1>0, <1>1, <2>2, <2>3, AppWait, CallFrame
    <3>2. /\ stack' \in Seq(Frames) /\ Len(stack') >= Len(stack)
          /\ \A i \in 1 .. Len(stack) : stack'[i] = stack[i]
      BY <1>3, <1>5 DEF Pushed
    <3> QED BY <3>1, <3>2, WaitsAbove
  <2> QED BY <1>0, <1>1, <2>1, <2>3, StillWait
<1> QED BY <1>6, <1>7, <1>8, <1>9 DEF AnswerInv, FrameInv

\* pus_tc_process or a packet goes on, in the innermost frame.
LEMMA SteppedAnswers ==
    ASSUME TypeOK, LinkInv, AnswerInv, UNCHANGED <<calls, given, answers, tc>>,
           stack # <<>>, Top.pc \notin {"sent", "handler"},
           NEW f \in Frames, NEW G, Stepped(f, G), G \cap ProcessPcs = {},
           f.pc \notin {"completion", "sent"},
           Top.pc \in PacketPcs => f.pc \in PacketPcs /\ f.send = Top.send,
           f.pc \in ProcessPcs => FrameAnswers(f, tc[f.req].key, answers[f.req])
    PROVE  AnswerInv'
<1>0. CallTypes /\ CallsInv /\ FreshInv /\ FrameInv /\ CallInv
  BY DEF LinkInv, AnswerInv
<1>1. FreshInv'
  BY <1>0 DEF FreshInv, Received
<1>2. FrameInv'
  BY <1>0, FrameInvStepped
<1>3. CompletionInv'
  <2>1. PICK n \in Nat \ {0} : n = Len(stack)
    BY DEF Stepped
  <2>2. \/ Len(stack') = n /\ stack'[n] = f
        \/ Len(stack') = n + 1 /\ stack'[n + 1].pc \in G
    BY <2>1 DEF Stepped
  <2>3. "completion" \in ProcessPcs
    BY DEF ProcessPcs
  <2>4. stack'[Len(stack')].pc # "completion"
    BY <2>2, <2>3
  <2> QED BY <2>4, NotCompleting
<1>4. CallInv'
  <2>1. ASSUME NEW c \in 1 .. Len(calls), calls[c].pc = "answering"
        PROVE  Waits(stack', Depth(c)) /\ answers[calls[c].req] = <<>>
    <3>1. ~At("sent") /\ ~At("handler")
      BY DEF At
    <3>2. Waits(stack, Depth(c)) /\ answers[calls[c].req] = <<>>
      BY <1>0, <2>1, <3>1, AllWait
    <3>3. Depth(c) \in Nat
      BY <1>0, CallFrame
    <3> QED BY <3>2, <3>3, WaitsStepped
  <2> QED BY <1>0, <2>1, StillWait
<1> QED BY <1>1, <1>2, <1>3, <1>4 DEF AnswerInv

LEMMA ProcessAnswers ==
    ASSUME TypeOK, LinkInv, AnswerInv, UNCHANGED <<calls, given, answers>>,
           FindHandler \/ EmitAcceptance \/ EmitStart \/ EmitCompletion
    PROVE  AnswerInv'
<1>1. stack # <<>> /\ Top.pc \in {"find", "acceptance", "start", "completion"} /\ UNCHANGED tc
  BY DEF FindHandler, EmitAcceptance, EmitStart, EmitCompletion, At, history
<1>2. Top.pc \in ProcessPcs /\ Top.pc \notin PacketPcs \cup {"sent", "handler"}
  BY <1>1 DEF ProcessPcs, PacketPcs
<1>3. FrameAnswers(Top, tc[Top.req].key, answers[Top.req])
  <2>1. Top = stack[Len(stack)] /\ Len(stack) \in 1 .. Len(stack)
    BY <1>1, TopResult DEF TypeOK
  <2> QED BY <1>2, <2>1 DEF AnswerInv, FrameInv
<1>4. PICK f \in Frames : /\ Stepped(f, {"stamp"})
                          /\ f.pc \in {"refused", "acceptance", "start", "invoke", "return"}
                          /\ FrameAnswers(f, tc[f.req].key, answers[f.req])
  <2>1. CASE FindHandler \/ EmitAcceptance \/ EmitStart
    <3>1. PICK f \in Frames : /\ Stepped(f, {"stamp"}) /\ f.req = Top.req
                              /\ f.pc \in {"refused", "acceptance", "start", "invoke"}
      BY <2>1, FindHandlerStack, EmitAcceptanceStack, EmitStartStack
    <3>2. Top.pc \in {"find", "acceptance", "start"}
      BY <2>1 DEF FindHandler, EmitAcceptance, EmitStart, At
    <3>3. answers[f.req] = <<>>
      BY <1>3, <3>1, <3>2 DEF FrameAnswers
    <3> QED BY <3>1, <3>3 DEF FrameAnswers
  <2>2. CASE EmitCompletion
    <3>1. PICK f \in Frames : /\ Stepped(f, {"stamp"}) /\ f.req = Top.req
                              /\ f.pc = "return" /\ f.st = ret
      BY <2>2, EmitCompletionStack
    <3>2. At("completion")
      BY <2>2 DEF EmitCompletion
    <3>3. tc[Top.req].key \in AnsweredKeys => Tells(ret, answers[Top.req])
      BY <3>2 DEF AnswerInv, CompletionInv
    <3> QED BY <3>1, <3>3 DEF FrameAnswers
  <2> QED BY <2>1, <2>2
<1>5. "stamp" \notin ProcessPcs /\ f.pc \notin {"completion", "sent"}
  BY <1>4 DEF ProcessPcs
<1> QED BY <1>1, <1>2, <1>4, <1>5, SteppedAnswers

LEMMA StampHeaderSends ==
    ASSUME TypeOK, StampHeader
    PROVE  \E f \in Frames : /\ Stepped(f, {"clock"}) /\ f.pc = "count"
                             /\ f.req = Top.req /\ f.send = Top.send
<1>1. stack \in Seq(Frames) /\ stack # <<>> /\ Top \in Frames
  BY TopResult DEF StampHeader, At, TypeOK
<1> DEFINE f0 == [Top EXCEPT !.pc = "count"]
           f == [f0 EXCEPT !.seq = counter]
           g == Frame("clock", Top.req)
<1>2. f0 \in Frames /\ f0.pc = "count" /\ f0.req = Top.req
  BY <1>1, SetPc DEF Pcs, PacketPcs
<1>2a. f0.send = Top.send
  BY <1>1 DEF Frames
<1>3. g \in Frames /\ g.pc = "clock"
  BY <1>1, CallbackFrame, TopReq
<1>4. stack' = IF clock THEN ResumeAndEnter(f, g) ELSE Resume(f)
  BY DEF StampHeader
<1> HIDE DEF f0, g
<1>5. f \in Frames /\ f.pc = "count" /\ f.req = Top.req /\ f.send = Top.send
  BY <1>2, <1>2a DEF TypeOK, Frames
<1> HIDE DEF f
<1>6. Stepped(f, {"clock"})
  <2>1. CASE clock
    BY <1>1, <1>3, <1>4, <1>5, <2>1, ResumeAndEnterIsStepped
  <2>2. CASE ~clock
    BY <1>1, <1>4, <1>5, <2>2, ResumeIsStepped, SteppedWeaken
  <2> QED BY <2>1, <2>2
<1> QED BY <1>5, <1>6

LEMMA StampAnswers ==
    ASSUME TypeOK, LinkInv, AnswerInv, UNCHANGED <<calls, given, answers>>, StampHeader
    PROVE  AnswerInv'
<1>1. stack # <<>> /\ Top.pc = "stamp" /\ UNCHANGED tc
  BY DEF StampHeader, At, history
<1>2. PICK f \in Frames : Stepped(f, {"clock"}) /\ f.pc = "count" /\ f.send = Top.send
  BY StampHeaderSends
<1>3. f.pc \in PacketPcs /\ f.pc \notin ProcessPcs /\ "clock" \notin ProcessPcs
  BY <1>2 DEF PacketPcs, ProcessPcs
<1> QED BY <1>1, <1>2, <1>3, SteppedAnswers

\* The handler of a command that was routed is the command's.
LEMMA DispatchAnswers ==
    ASSUME TypeOK, VerifInv, LinkInv, RoutedInv, ValuesInv, AnswerInv, Dispatch
    PROVE  AnswerInv'
<1>0. /\ NestInv /\ CallTypes /\ CallsInv /\ FreshInv /\ FrameInv /\ CallInv
  BY DEF VerifInv, LinkInv, AnswerInv
<1>1. /\ InvokeHandler /\ stack # <<>> /\ Top.pc = "invoke"
      /\ UNCHANGED <<given, answers, tc>>
  BY DEF Dispatch, InvokeHandler, At, history
<1>2. PICK n \in Nat \ {0} : n = Len(stack) /\ Top = stack[n] /\ n \in 1 .. Len(stack)
  BY <1>1, TopResult DEF TypeOK
<1>3. /\ Top.pc \in ProcessPcs /\ Top.pc \in PreDispatch
      /\ Top.pc \notin PacketPcs \cup {"sent", "handler"}
  BY <1>1 DEF ProcessPcs, PreDispatch, PacketPcs
<1>4. Own(tc[Top.req].key, table[Top.idx].val)
  <2>1. Top.idx \in Holding(table, tc[Top.req].key)
    BY <1>2, <1>3 DEF RoutedInv
  <2> QED BY <2>1 DEF Holding, ValuesInv
<1>5. answers[Top.req] = <<>>
  <2>1. FrameAnswers(Top, tc[Top.req].key, answers[Top.req])
    BY <1>0, <1>2, <1>3 DEF FrameInv
  <2> QED BY <1>1, <2>1 DEF FrameAnswers
<1>6. PICK f \in Frames : Stepped(f, {"handler"}) /\ f.pc = "completion" /\ f.req = Top.req
  BY <1>1, InvokeHandlerStack
<1>7. PICK g \in Frames, h \in Frames : ReplacedBelow(h, g) /\ g.pc = "handler"
  BY <1>1, InvokeHandlerFrames
<1>8. FreshInv'
  BY <1>0, <1>1 DEF FreshInv, Received
<1>9. FrameInv'
  <2>1. "handler" \notin ProcessPcs
    BY DEF ProcessPcs
  <2>2. FrameAnswers(f, tc[f.req].key, answers[f.req])
    BY <1>6 DEF FrameAnswers
  <2> QED BY <1>0, <1>1, <1>6, <2>1, <2>2, FrameInvStepped
<1>10. CompletionInv'
  <2>1. stack'[Len(stack')].pc = "handler"
    BY <1>2, <1>7 DEF ReplacedBelow
  <2> QED BY <2>1, NotCompleting
<1>short. PICK short : calls' = Append(calls, Call(table[Top.idx].val, Top.req, short))
  BY DEF Dispatch
<1> DEFINE new == Call(table[Top.idx].val, Top.req, short)
<1>11. new.req = Top.req /\ new.pc = "running" /\ new.handler = table[Top.idx].val
  BY DEF Call
<1>12. PICK m \in Nat : m = Len(calls)
  BY <1>0 DEF CallTypes
<1> HIDE DEF new
<1>13. /\ Len(calls') = m + 1 /\ calls'[m + 1] = new
       /\ \A c \in 1 .. m : calls'[c] = calls[c] /\ c \in 1 .. Len(calls)
  <2>1. calls' = Append(calls, new) /\ calls \in Seq(CallRecords)
    BY <1>0, <1>short DEF CallTypes, new
  <2> QED BY <1>12, <2>1
<1>14. ASSUME NEW c \in 1 .. Len(calls')
       PROVE  /\ Own(tc'[calls'[c].req].key, calls'[c].handler)
              /\ calls'[c].pc = "running" => answers'[calls'[c].req] = <<>>
              /\ calls'[c].pc = "answering" =>
                    Waits(stack', Depth(c)') /\ answers'[calls'[c].req] = <<>>
  <2>1. CASE c = m + 1
    BY <1>1, <1>4, <1>5, <1>11, <1>13, <2>1
  <2>2. CASE c \in 1 .. m
    <3>1. c \in 1 .. Len(calls) /\ calls'[c] = calls[c] /\ Depth(c)' = Depth(c)
      BY <1>1, <1>13, <2>2 DEF Depth
    <3>2. calls[c].pc = "answering" => Waits(stack', Depth(c)) /\ answers[calls[c].req] = <<>>
      <4> SUFFICES ASSUME calls[c].pc = "answering"
                   PROVE  Waits(stack', Depth(c)) /\ answers[calls[c].req] = <<>>
        OBVIOUS
      <4>1. ~At("sent") /\ ~At("handler")
        BY <1>3 DEF At
      <4>2. Waits(stack, Depth(c)) /\ answers[calls[c].req] = <<>>
        BY <1>0, <3>1, <4>1, AllWait
      <4>3. Depth(c) \in Nat
        BY <1>0, <3>1, CallFrame
      <4> QED BY <1>3, <1>6, <4>2, <4>3, WaitsStepped
    <3> QED BY <1>0, <1>1, <3>1, <3>2 DEF CallInv
  <2> QED BY <1>13, <2>1, <2>2
<1>15. CallInv'
  BY <1>14 DEF CallInv
<1> QED BY <1>8, <1>9, <1>10, <1>15 DEF AnswerInv

\* The answer is begun, and will be sent.
LEMMA BuildAnswerAnswers ==
    ASSUME TypeOK, LinkInv, AnswerInv, BuildAnswer
    PROVE  AnswerInv'
<1>0. CallTypes /\ CallsInv /\ FreshInv /\ FrameInv /\ CallInv
  BY DEF LinkInv, AnswerInv
<1>1. /\ At("handler") /\ BuildTm /\ Current.pc = "running"
      /\ calls' = [calls EXCEPT ![Len(calls)].pc = "answering"]
      /\ UNCHANGED <<given, answers, tc>>
  BY DEF BuildAnswer, BuildTm, history
<1>2. /\ Len(calls) \in 1 .. Len(calls) /\ Current = calls[Len(calls)]
      /\ Current \in CallRecords /\ Depth(Len(calls)) = Len(stack)
  BY <1>0, <1>1, TopIsCurrent
<1>3. PICK g \in Frames : Pushed(g) /\ g.pc = "stamp" /\ g.send
  <2> DEFINE g == Packet("telemetry", NoReq)
  <2>1. g \in Frames /\ g.pc = "stamp"
    BY PacketType DEF Kinds
  <2>2. g.send
    BY DEF Packet, Frame
  <2>3. stack' = Append(stack, g) /\ stack \in Seq(Frames)
    BY <1>1 DEF BuildTm, TypeOK
  <2> HIDE DEF g
  <2> QED BY <2>1, <2>2, <2>3, AppendPushes
<1>4. PICK n \in Nat : n = Len(stack)
  BY DEF TypeOK
<1>5. /\ stack' \in Seq(Frames) /\ Len(stack') = n + 1 /\ stack'[n + 1] = g
      /\ \A i \in 1 .. n : stack'[i] = stack[i] /\ i \in 1 .. Len(stack)
  BY <1>3, <1>4 DEF Pushed
<1>6. g.pc \notin ProcessPcs /\ g.pc \in PacketPcs /\ g.pc # "sent" /\ g.pc # "completion"
  BY <1>3 DEF ProcessPcs, PacketPcs
<1>7. FreshInv'
  BY <1>0, <1>1 DEF FreshInv, Received
<1>8. FrameInv'
  BY <1>0, <1>1, <1>5, <1>6, FrameInvKept
<1>9. CompletionInv'
  BY <1>5, <1>6, NotCompleting
<1> DEFINE m == Len(calls)
           new == [Current EXCEPT !.pc = "answering"]
<1>10. /\ new.req = Current.req /\ new.handler = Current.handler
       /\ new.frame = Current.frame /\ new.pc = "answering"
  BY <1>2 DEF CallRecords
<1>11. Len(calls') = m /\ \A c \in 1 .. m : calls'[c] = IF c = m THEN new ELSE calls[c]
  <2>1. calls' = [calls EXCEPT ![m] = new]
    BY <1>1, <1>2
  <2> HIDE DEF new
  <2> QED BY <1>0, <2>1 DEF CallTypes
<1> HIDE DEF new
<1>12. ASSUME NEW c \in 1 .. Len(calls')
       PROVE  /\ Own(tc'[calls'[c].req].key, calls'[c].handler)
              /\ calls'[c].pc = "running" => answers'[calls'[c].req] = <<>>
              /\ calls'[c].pc = "answering" =>
                    Waits(stack', Depth(c)') /\ answers'[calls'[c].req] = <<>>
  <2>0. /\ c \in 1 .. Len(calls) /\ calls'[c].req = calls[c].req
        /\ calls'[c].frame = calls[c].frame
    BY <1>2, <1>10, <1>11
  <2>1. Depth(c)' = Depth(c)
    BY <2>0 DEF Depth
  <2>2. CASE c = m
    <3>1. Waits(stack', n)
      BY <1>3, <1>5, <1>6 DEF Waits
    <3>2. Own(tc[calls[c].req].key, calls[c].handler) /\ answers[calls[c].req] = <<>>
      BY <1>0, <1>1, <1>2, <2>0, <2>2 DEF CallInv
    <3>3. calls'[c].handler = calls[c].handler
      BY <1>2, <1>10, <1>11, <2>2
    <3> QED BY <1>1, <1>2, <1>4, <2>0, <2>1, <2>2, <3>1, <3>2, <3>3
  <2>3. CASE c # m
    <3>1. calls'[c] = calls[c]
      BY <1>11, <2>0, <2>3
    <3>2. calls[c].pc = "answering" => Waits(stack', Depth(c)) /\ answers[calls[c].req] = <<>>
      <4> SUFFICES ASSUME calls[c].pc = "answering"
                   PROVE  Waits(stack', Depth(c)) /\ answers[calls[c].req] = <<>>
        OBVIOUS
      <4>1. ~At("sent")
        BY <1>1 DEF At
      <4>2. Waits(stack, Depth(c)) /\ answers[calls[c].req] = <<>>
        BY <1>0, <1>1, <2>0, <4>1, AllWait
      <4>3. Depth(c) \in Nat
        BY <1>0, <2>0, CallFrame
      <4>4. Len(stack') >= Len(stack) /\ \A i \in 1 .. Len(stack) : stack'[i] = stack[i]
        BY <1>4, <1>5
      <4> QED BY <1>5, <4>2, <4>3, <4>4, WaitsAbove
    <3> QED BY <1>0, <1>1, <2>0, <2>1, <3>1, <3>2 DEF CallInv
  <2> QED BY <2>2, <2>3
<1>13. CallInv'
  BY <1>12 DEF CallInv
<1> QED BY <1>7, <1>8, <1>9, <1>13 DEF AnswerInv

----------------------------------------------------------------------------
(* The answer leaves, or is refused *)

LEMMA SameDepth ==
    ASSUME CallTypes, CallsInv, NEW c \in 1 .. Len(calls), NEW e \in 1 .. Len(calls),
           Depth(c) = Depth(e)
    PROVE  c = e
<1>1. Depth(c) \in Int
  BY DEF CallsInv
<1>2. ~(c < e) /\ ~(e < c)
  BY <1>1 DEF CallsInv
<1> QED BY <1>2

LEMMA AnsweredOnce ==
    ASSUME CallTypes, NEW r \in Requests, Current.req = r, answers[r] = <<>>,
           NEW outcome, Answered(outcome)
    PROVE  /\ answers'[r] = <<outcome>>
           /\ \A q \in Requests \ {r} : answers'[q] = answers[q]
<1>1. answers' = [answers EXCEPT ![r] = Append(<<>>, outcome)]
  BY DEF Answered
<1>2. Append(<<>>, outcome) = <<outcome>>
  OBVIOUS
<1> QED BY <1>1, <1>2 DEF CallTypes

LEMMA TellsNothing ==
    ASSUME NEW status, status # "OK"
    PROVE  Tells(status, <<>>)
BY DEF Tells

\* The handler in frame i learns what became of its answer.
LEMMA AnswerTold ==
    ASSUME TypeOK, VerifInv, LinkInv, AnswerInv,
           NEW i \in 1 .. Len(stack), stack[i].pc = "handler",
           \A j \in i + 1 .. Len(stack) : stack[j].pc # "handler",
           Current.pc = "answering", Waits(stack, i),
           NEW outcome, Answered(outcome),
           \/ ret' = "OK" /\ outcome \in {"kept", "delivered"}
           \/ ret' # "OK" /\ outcome = "refused",
           UNCHANGED <<calls, given, tc>>,
           Done(stack', i),
           \A c \in 1 .. Len(calls) : calls[c].pc = "answering" /\ Depth(c) # i =>
               Waits(stack', Depth(c)) /\ answers[calls[c].req] = <<>>,
           \A j \in 1 .. Len(stack') : stack'[j].pc \in ProcessPcs =>
               j \in 1 .. Len(stack) /\ stack'[j] = stack[j],
           CompletionInv'
    PROVE  AnswerInv'
<1>0. /\ NestInv /\ CallTypes /\ CallsInv /\ FreshInv /\ FrameInv /\ CallInv
  BY DEF VerifInv, LinkInv, AnswerInv
<1> DEFINE m == Len(calls)
           r == Current.req
<1>1. /\ m \in 1 .. Len(calls) /\ Current = calls[m] /\ Depth(m) = i
      /\ r = stack[i].req /\ r \in Requests
  BY <1>0, CurrentIs
<1>2. answers[r] = <<>>
  <2>1. ~Done(stack, i)
    BY WaitsNotDone DEF TypeOK
  <2> QED BY <1>0, <1>1, <2>1 DEF CallInv
<1>3. r \in Received
  BY <1>0, <1>1, CalledReceived
<1> HIDE DEF m, r
<1>4. /\ answers'[r] = <<outcome>>
      /\ \A q \in Requests \ {r} : answers'[q] = answers[q]
  BY <1>0, <1>1, <1>2, AnsweredOnce DEF r
<1>5. Tells(ret', answers'[r])
  BY <1>4 DEF Tells
<1>6. Received' = Received /\ Received \subseteq Requests
  BY DEF Received
<1>7. FreshInv'
  BY <1>0, <1>3, <1>4, <1>6 DEF FreshInv
<1>8. ASSUME NEW j \in 1 .. Len(stack'), stack'[j].pc \in ProcessPcs
      PROVE  FrameAnswers(stack'[j], tc'[stack'[j].req].key, answers'[stack'[j].req])
  <2>1. j \in 1 .. Len(stack) /\ stack'[j] = stack[j] /\ stack[j].pc \in ProcessPcs
    BY <1>8
  <2>2. stack[j].req \in Requests
    BY <1>0, <1>6, <2>1 DEF NestInv
  <2>3. CASE stack[j].req = r
    <3>1. /\ i - 1 \in 1 .. Len(stack) /\ stack[i - 1].pc = "completion"
          /\ stack[i - 1].pc \in ProcessPcs /\ stack[i - 1].req = r
      BY <1>0, <1>1, BelowHandler
    <3>2. j = i - 1
      BY <1>0, <2>1, <2>3, <3>1 DEF NestInv
    <3>3. stack'[j].pc = "completion"
      BY <2>1, <3>1, <3>2
    <3> QED BY <3>3 DEF FrameAnswers
  <2>4. CASE stack[j].req # r
    BY <1>0, <1>4, <2>1, <2>2, <2>4 DEF FrameInv
  <2> QED BY <2>3, <2>4
<1>9. ASSUME NEW c \in 1 .. Len(calls')
      PROVE  /\ Own(tc'[calls'[c].req].key, calls'[c].handler)
             /\ calls'[c].pc = "running" => answers'[calls'[c].req] = <<>>
             /\ calls'[c].pc = "answering" =>
                   \/ Waits(stack', Depth(c)') /\ answers'[calls'[c].req] = <<>>
                   \/ Done(stack', Depth(c)') /\ Tells(ret', answers'[calls'[c].req])
  <2>1. c \in 1 .. Len(calls) /\ calls'[c] = calls[c] /\ Depth(c)' = Depth(c)
    BY DEF Depth
  <2>2. calls[c].req \in Requests
    BY <1>0, <2>1, CallFrame
  <2>3. Own(tc[calls[c].req].key, calls[c].handler)
    BY <1>0, <2>1 DEF CallInv
  <2>4. CASE c = m
    BY <1>1, <1>5, <2>1, <2>3, <2>4 DEF r
  <2>5. CASE c # m
    <3>1. Depth(c) # i
      BY <1>0, <1>1, <2>1, <2>5, SameDepth
    <3>2. calls[c].req # r
      <4>1. calls[c].req = stack[Depth(c)].req /\ Depth(c) \in 1 .. Len(stack)
            /\ stack[Depth(c)].pc = "handler"
        BY <1>0, <2>1 DEF CallsInv
      <4>2. PICK h \in 1 .. Len(stack) : /\ h = Depth(c) /\ stack[h].pc = "handler"
                                         /\ stack[h].req = calls[c].req
        BY <4>1
      <4> QED BY <1>0, <1>1, <2>2, <3>1, <4>2, HandlersApart
    <3>3. answers'[calls[c].req] = answers[calls[c].req]
      BY <1>4, <2>2, <3>2
    <3> QED BY <1>0, <2>1, <2>3, <3>1, <3>3 DEF CallInv
  <2> QED BY <2>4, <2>5
<1>10. FrameInv' /\ CallInv'
  BY <1>8, <1>9 DEF FrameInv, CallInv
<1> QED BY <1>7, <1>10 DEF AnswerInv

LEMMA FinishPacketSends ==
    ASSUME TypeOK, FinishPacket
    PROVE  \E f \in Frames :
               /\ Stepped(f, {"sink"}) /\ f.pc = "sent" /\ f.send = Top.send
               /\ Len(stack') = IF Top.send /\ sink THEN Len(stack) + 1 ELSE Len(stack)
<1>1. stack \in Seq(Frames) /\ stack # <<>> /\ Top \in Frames
  BY TopResult DEF FinishPacket, At, TypeOK
<1> DEFINE f == [Top EXCEPT !.pc = "sent"]
           g == Frame("sink", Top.req)
<1>2. f \in Frames /\ f.pc = "sent"
  BY <1>1, SetPc DEF Pcs, PacketPcs
<1>3. f.send = Top.send
  BY <1>1 DEF Frames
<1>4. g \in Frames /\ g.pc = "sink"
  BY <1>1, CallbackFrame, TopReq
<1>5. stack' = IF Top.send /\ sink THEN ResumeAndEnter(f, g) ELSE Resume(f)
  BY DEF FinishPacket
<1> HIDE DEF f, g
<1>6. CASE Top.send /\ sink
  <2>1. Stepped(f, {"sink"})
    BY <1>1, <1>2, <1>4, <1>5, <1>6, ResumeAndEnterIsStepped
  <2>2. Len(stack') = Len(stack) + 1
    BY <1>1, <1>2, <1>4, <1>5, <1>6, ResumeAndEnterReplaces DEF ReplacedBelow
  <2> QED BY <1>2, <1>3, <1>6, <2>1, <2>2
<1>7. CASE ~(Top.send /\ sink)
  <2>1. Stepped(f, {"sink"})
    BY <1>1, <1>2, <1>5, <1>7, ResumeIsStepped, SteppedWeaken
  <2>2. Len(stack') = Len(stack)
    BY <1>1, <1>2, <1>5, <1>7, ResumeReplaces DEF Replaced
  <2> QED BY <1>2, <1>3, <1>7, <2>1, <2>2
<1> QED BY <1>6, <1>7

\* The packet right above a handler that waits is its answer.
LEMMA AnswerAbove ==
    ASSUME TypeOK, LinkInv, NEW i \in 1 .. Len(stack), i + 1 \in 1 .. Len(stack),
           \A j \in i + 1 .. Len(stack) : stack[j].pc # "handler",
           NEW c \in 1 .. Len(calls), calls[c].pc = "answering", Depth(c) = i
    PROVE  IsAnswer(i + 1)
<1>1. CallTypes /\ CallsInv
  BY DEF LinkInv
<1>2. stack[i].pc = "handler"
  BY <1>1, CallFrame
<1>3. Len(calls) \in 1 .. Len(calls) /\ Current = calls[Len(calls)] /\ Depth(Len(calls)) = i
  BY <1>1, <1>2, CurrentIs
<1>4. c = Len(calls)
  BY <1>1, <1>3, SameDepth
<1> QED BY <1>1, <1>2, <1>3, <1>4, AnswerIs

LEMMA SendPacketAnswers ==
    ASSUME TypeOK, VerifInv, LinkInv, AnswerInv, SendPacket
    PROVE  AnswerInv'
<1>0. /\ CallTypes /\ CallsInv /\ FreshInv /\ FrameInv /\ CallInv
  BY DEF LinkInv, AnswerInv
<1>1. /\ FinishPacket /\ stack # <<>> /\ Top.pc = "count" /\ ret' = "OK"
      /\ UNCHANGED <<calls, given, tc>>
  BY DEF SendPacket, FinishPacket, At
<1>2. PICK n \in Nat \ {0} : n = Len(stack) /\ Top = stack[n] /\ n \in 1 .. Len(stack)
  BY <1>1, TopResult DEF TypeOK
<1>3. PICK f \in Frames :
          /\ Stepped(f, {"sink"}) /\ f.pc = "sent" /\ f.send = Top.send
          /\ Len(stack') = IF Top.send /\ sink THEN Len(stack) + 1 ELSE Len(stack)
  BY <1>1, FinishPacketSends
<1>4. /\ f.pc \notin ProcessPcs /\ f.pc \in PacketPcs /\ "sink" \notin ProcessPcs
      /\ Top.pc \in PacketPcs /\ Top.pc # "handler" /\ "completion" \in ProcessPcs
  BY <1>1, <1>3 DEF ProcessPcs, PacketPcs
<1>5. /\ \A j \in 1 .. n - 1 : stack'[j] = stack[j] /\ j \in 1 .. Len(stack)
      /\ stack'[n] = f
      /\ Len(stack') = n \/ (Len(stack') = n + 1 /\ stack'[n + 1].pc = "sink")
  BY <1>2, <1>3 DEF Stepped
<1>6. CompletionInv'
  <2>1. stack'[Len(stack')].pc # "completion"
    BY <1>3, <1>5
  <2> QED BY <2>1, NotCompleting
<1>7. \A j \in 1 .. Len(stack') : stack'[j].pc \in ProcessPcs =>
          j \in 1 .. Len(stack) /\ stack'[j] = stack[j]
  <2>1. \A j \in 1 .. Len(stack') : j \in 1 .. n - 1 \/ j = n \/ j = n + 1
    BY <1>2, <1>5
  <2> QED BY <1>4, <1>5, <2>1
<1>8. ASSUME NEW c \in 1 .. Len(calls), calls[c].pc = "answering"
      PROVE  /\ Waits(stack, Depth(c)) /\ answers[calls[c].req] = <<>>
             /\ Depth(c) \in 1 .. n - 1
             /\ Depth(c) = n - 1 => IsAnswer(n)
             /\ Depth(c) # n - 1 \/ Len(stack') # n => Waits(stack', Depth(c))
  <2>1. ~At("sent") /\ ~At("handler")
    BY <1>1 DEF At
  <2>2. Waits(stack, Depth(c)) /\ answers[calls[c].req] = <<>>
    BY <1>0, <1>8, <2>1, AllWait
  <2>3. PICK d \in 1 .. n : d = Depth(c) /\ d \in Nat
    BY <1>0, <1>2, CallFrame
  <2>4. d \in 1 .. n - 1
    BY <1>2, <2>2, <2>3 DEF Waits
  <2>5. d = n - 1 => IsAnswer(n)
    <3> SUFFICES ASSUME d = n - 1 PROVE IsAnswer(n)
      OBVIOUS
    <3>1. /\ d \in 1 .. Len(stack) /\ d + 1 \in 1 .. Len(stack) /\ d + 1 = n
          /\ \A j \in d + 1 .. Len(stack) : j = n
      BY <1>2, <2>4
    <3>2. \A j \in d + 1 .. Len(stack) : stack[j].pc # "handler"
      BY <1>2, <1>4, <3>1
    <3> QED BY <1>8, <2>3, <3>1, <3>2, AnswerAbove
  <2>6. d # n - 1 \/ Len(stack') # n => Waits(stack', d)
    <3>1. Waits(stack, d) /\ d \in Nat
      BY <2>2, <2>3
    <3>2. d # n - 1 \/ Len(stack') # n => ~(Len(stack') = Len(stack) /\ Len(stack) = d + 1)
      BY <1>2, <2>4
    <3> QED BY <1>3, <1>4, <3>1, <3>2, WaitsStepped
  <2> QED BY <2>2, <2>3, <2>4, <2>5, <2>6
<1>9. CASE IsAnswer(n) /\ ~sink
  <2>1. Answered("kept")
    BY <1>2, <1>9 DEF SendPacket
  <2>2. PICK i \in 1 .. Len(stack) : i = n - 1 /\ stack[i].pc = "handler"
    <3>1. n - 1 \in 1 .. Len(stack) /\ stack[n - 1].pc = "handler"
      BY <1>0, <1>9, AnswerFrame
    <3> QED BY <3>1
  <2>3. \A j \in i + 1 .. Len(stack) : stack[j].pc # "handler"
    <3>1. \A j \in i + 1 .. Len(stack) : j = n
      BY <1>2, <2>2
    <3> QED BY <1>2, <1>4, <3>1
  <2>4. Len(calls) \in 1 .. Len(calls) /\ Current = calls[Len(calls)] /\ Depth(Len(calls)) = i
    BY <1>0, <2>2, <2>3, CurrentIs
  <2>5. Current.pc = "answering" /\ Waits(stack, i)
    BY <1>8, <1>9, <2>4 DEF IsAnswer
  <2>6. Len(stack') = n
    BY <1>2, <1>3, <1>9
  <2>7. Done(stack', i)
    BY <1>3, <1>5, <2>2, <2>6 DEF Done
  <2>8. \A c \in 1 .. Len(calls) : calls[c].pc = "answering" /\ Depth(c) # i =>
            Waits(stack', Depth(c)) /\ answers[calls[c].req] = <<>>
    BY <1>8, <2>2
  <2> QED BY <1>1, <1>6, <1>7, <2>1, <2>2, <2>3, <2>5, <2>7, <2>8, AnswerTold
<1>10. CASE ~(IsAnswer(n) /\ ~sink)
  <2>1. UNCHANGED answers
    BY <1>2, <1>10 DEF SendPacket
  <2>2. ASSUME NEW c \in 1 .. Len(calls), calls[c].pc = "answering"
        PROVE  Waits(stack', Depth(c)) /\ answers[calls[c].req] = <<>>
    <3>1. CASE Depth(c) = n - 1
      <4>1. sink /\ Waits(stack, n - 1)
        BY <1>8, <1>10, <2>2, <3>1
      <4>2. Top.send
        <5>1. (n - 1) + 1 = n
          BY <1>2
        <5> QED BY <1>2, <4>1, <5>1 DEF Waits
      <4>3. Len(stack') # n
        BY <1>2, <1>3, <4>1, <4>2
      <4> QED BY <1>8, <2>2, <4>3
    <3>2. CASE Depth(c) # n - 1
      BY <1>8, <2>2, <3>2
    <3> QED BY <3>1, <3>2
  <2>3. FreshInv'
    BY <1>0, <1>1, <2>1 DEF FreshInv, Received
  <2>4. FrameInv'
    BY <1>0, <1>1, <1>7, <2>1, FrameInvKept
  <2>5. CallInv'
    BY <1>0, <1>1, <2>1, <2>2, StillWait
  <2> QED BY <1>6, <2>3, <2>4, <2>5 DEF AnswerInv
<1> QED BY <1>9, <1>10

----------------------------------------------------------------------------
(* Calls return *)

\* Above a pus_tc_process that waits for its handler runs the handler.
LEMMA CompletionBelow ==
    ASSUME NestInv, NEW i \in 1 .. Len(stack), i + 1 \in 1 .. Len(stack),
           stack[i].pc = "completion"
    PROVE  stack[i + 1].pc = "handler" /\ stack[i + 1].req = stack[i].req
<1>1. Lies(stack[i], stack[i + 1], tc[stack[i].req].ack)
  BY DEF NestInv
<1>2. stack[i].pc \in ProcessPcs
  BY DEF ProcessPcs
<1>3. \A kind, ack : ~Emits(stack[i], kind, ack)
  BY DEF Emits
<1> QED BY <1>1, <1>2, <1>3 DEF Lies

\* A call other than a packet or a sink returns: no handler learns of its answer.
LEMMA ReturnWaits ==
    ASSUME TypeOK, PacketInv, stack # <<>>, Returned, Top.pc \notin PacketPcs \cup {"sink"},
           NEW d \in Nat, Waits(stack, d)
    PROVE  Waits(stack', d)
<1>1. PICK n \in Nat \ {0} : n = Len(stack) /\ Top = stack[n]
  BY TopResult DEF TypeOK
<1>2. d < n /\ stack[d + 1].pc \in PacketPcs
  BY <1>1 DEF Waits
<1>3. n # d + 1
  BY <1>1, <1>2
<1>4. n = d + 2 => stack[d + 1].pc # "sent"
  <2> SUFFICES ASSUME n = d + 2 PROVE stack[d + 1].pc # "sent"
    OBVIOUS
  <2>1. d + 1 \in 1 .. Len(stack) /\ (d + 1) + 1 \in 1 .. Len(stack) /\ (d + 1) + 1 = n
    BY <1>1
  <2>2. PacketLies(stack[d + 1], Top)
    BY <1>1, <2>1 DEF PacketInv
  <2> QED BY <1>2, <2>2 DEF PacketLies
<1> QED BY <1>1, <1>3, <1>4, WaitsReturned

\* What runs is not pus_tc_process waiting for its handler.
LEMMA ReturnedElsewhere ==
    ASSUME TypeOK, NestInv, stack # <<>>, Returned, Top.pc # "handler"
    PROVE  CompletionInv'
<1>1. PICK n \in Nat \ {0} : n = Len(stack) /\ Top = stack[n]
  BY TopResult DEF TypeOK
<1>2. Len(stack') = n - 1 /\ \A i \in 1 .. n - 1 : stack'[i] = stack[i]
  BY <1>1 DEF Returned
<1>3. stack' # <<>> => stack'[Len(stack')].pc # "completion"
  <2> SUFFICES ASSUME stack' # <<>>, stack'[Len(stack')].pc = "completion" PROVE FALSE
    OBVIOUS
  <2>1. n - 1 # 0
    BY <1>2, EmptySeq DEF Returned
  <2>2. PICK i \in 1 .. Len(stack) : i = n - 1 /\ i + 1 \in 1 .. Len(stack) /\ i + 1 = n
    <3>1. n - 1 \in 1 .. Len(stack) /\ (n - 1) + 1 \in 1 .. Len(stack) /\ (n - 1) + 1 = n
      BY <1>1, <2>1
    <3> QED BY <3>1
  <2>3. stack[i].pc = "completion"
    BY <1>2, <2>2
  <2> QED BY <1>1, <2>2, <2>3, CompletionBelow
<1> QED BY <1>3, NotCompleting

\* A call returns of which no handler learns.
LEMMA ReturnedAnswers ==
    ASSUME TypeOK, VerifInv, LinkInv, AnswerInv, UNCHANGED <<calls, given, answers, tc>>,
           stack # <<>>, Returned, Top.pc # "handler",
           \A c \in 1 .. Len(calls) : calls[c].pc = "answering" =>
               Waits(stack', Depth(c)) /\ answers[calls[c].req] = <<>>
    PROVE  AnswerInv'
<1>0. NestInv /\ CallTypes /\ FreshInv /\ FrameInv /\ CallInv
  BY DEF VerifInv, LinkInv, AnswerInv
<1>1. FreshInv'
  BY <1>0 DEF FreshInv, Received
<1>2. \A i \in 1 .. Len(stack') : i \in 1 .. Len(stack) /\ stack'[i] = stack[i]
  BY EmptySeq, LenProperties DEF Returned, TypeOK
<1>3. FrameInv'
  BY <1>0, <1>2, FrameInvKept
<1>4. CompletionInv'
  BY <1>0, ReturnedElsewhere
<1>5. CallInv'
  BY <1>0, StillWait
<1> QED BY <1>1, <1>3, <1>4, <1>5 DEF AnswerInv

LEMMA QuietReturnAnswers ==
    ASSUME TypeOK, VerifInv, LinkInv, PacketInv, AnswerInv,
           UNCHANGED <<calls, given, answers>>,
           ReturnFromProcess \/ (At("clock") /\ ReturnFromCallback(Len(stack)))
    PROVE  AnswerInv'
<1>1. stack # <<>> /\ Top.pc \in {"return", "refused", "clock"}
  BY DEF ReturnFromProcess, At
<1>2. Returned /\ UNCHANGED tc
  <2>1. CASE ReturnFromProcess
    BY <2>1, ReturnStack DEF ReturnFromProcess, history
  <2>2. CASE ReturnFromCallback(Len(stack))
    BY <2>2, CallbackReturned
  <2> QED BY <2>1, <2>2
<1>3. Top.pc \notin PacketPcs \cup {"sink"} /\ Top.pc # "handler" /\ Top.pc # "sent"
  BY <1>1 DEF PacketPcs
<1>4. ASSUME NEW c \in 1 .. Len(calls), calls[c].pc = "answering"
      PROVE  Waits(stack', Depth(c)) /\ answers[calls[c].req] = <<>>
  <2>1. CallTypes /\ CallsInv /\ CallInv /\ ~At("sent") /\ ~At("handler")
    BY <1>3 DEF LinkInv, AnswerInv, At
  <2>2. Waits(stack, Depth(c)) /\ answers[calls[c].req] = <<>>
    BY <1>4, <2>1, AllWait
  <2>3. Depth(c) \in Nat
    BY <2>1, CallFrame
  <2> QED BY <1>1, <1>2, <1>3, <2>2, <2>3, ReturnWaits
<1> QED BY <1>1, <1>2, <1>3, <1>4, ReturnedAnswers

\* The sink has taken the answer, or has not.
LEMMA SinkReturnsAnswers ==
    ASSUME TypeOK, VerifInv, LinkInv, PacketInv, AnswerInv, NEW status, SinkReturns(status)
    PROVE  AnswerInv'
<1>0. NestInv /\ CallTypes /\ CallsInv /\ FreshInv /\ FrameInv /\ CallInv
  BY DEF VerifInv, LinkInv, AnswerInv
<1>1. /\ stack # <<>> /\ Top.pc = "sink" /\ ReturnFromCallback(Len(stack)) /\ ret' = status
      /\ UNCHANGED <<calls, given>>
  BY DEF SinkReturns, At
<1>2. Returned /\ UNCHANGED tc
  BY <1>1, CallbackReturned
<1>3. PICK n \in Nat \ {0} : n = Len(stack) /\ Top = stack[n] /\ n \in 1 .. Len(stack)
  BY <1>1, TopResult DEF TypeOK
<1>4. Len(stack') = n - 1 /\ \A j \in 1 .. n - 1 : stack'[j] = stack[j] /\ j \in 1 .. Len(stack)
  BY <1>2, <1>3 DEF Returned
<1>5. "sink" \notin PacketPcs /\ "sink" # "handler" /\ "sink" # "sent" /\ "sent" # "handler"
  BY DEF PacketPcs
<1>6. ASSUME NEW i \in 1 .. Len(stack), i = n - 1 PROVE stack[i].pc = "sent"
  <2>1. i + 1 \in 1 .. Len(stack) /\ i + 1 = n
    BY <1>3, <1>6
  <2>2. PacketLies(stack[i], Top)
    BY <1>3, <2>1 DEF PacketInv
  <2> QED BY <1>1, <2>2 DEF PacketLies
<1>7. ASSUME NEW i \in 1 .. Len(stack), i = n - 2
      PROVE  \A j \in i + 1 .. Len(stack) : stack[j].pc # "handler"
  <2>1. \A j \in i + 1 .. Len(stack) : j = n \/ (j = n - 1 /\ j \in 1 .. Len(stack))
    BY <1>3, <1>7
  <2> QED BY <1>1, <1>3, <1>5, <1>6, <2>1
<1>8. ASSUME NEW c \in 1 .. Len(calls), calls[c].pc = "answering"
      PROVE  /\ Waits(stack, Depth(c)) /\ answers[calls[c].req] = <<>>
             /\ Depth(c) = n - 2 => IsAnswer(n - 1)
             /\ Depth(c) # n - 2 => Waits(stack', Depth(c))
  <2>1. ~At("sent") /\ ~At("handler")
    BY <1>1 DEF At
  <2>2. Waits(stack, Depth(c)) /\ answers[calls[c].req] = <<>>
    BY <1>0, <1>8, <2>1, AllWait
  <2>3. PICK d \in 1 .. n : d = Depth(c) /\ d \in Nat
    BY <1>0, <1>3, CallFrame
  <2>4. d < n /\ stack[d + 1].pc \in PacketPcs
    BY <1>3, <2>2, <2>3 DEF Waits
  <2>5. n # d + 1
    BY <1>1, <1>3, <1>5, <2>4
  <2>6. d = n - 2 => IsAnswer(n - 1)
    <3> SUFFICES ASSUME d = n - 2 PROVE IsAnswer(n - 1)
      OBVIOUS
    <3>1. d \in 1 .. Len(stack) /\ d + 1 \in 1 .. Len(stack) /\ d + 1 = n - 1
      BY <1>3, <2>4
    <3>2. \A j \in d + 1 .. Len(stack) : stack[j].pc # "handler"
      BY <1>7, <3>1
    <3> QED BY <1>8, <2>3, <3>1, <3>2, AnswerAbove
  <2>7. d # n - 2 => Waits(stack', d)
    <3> SUFFICES ASSUME d # n - 2 PROVE Waits(stack', d)
      OBVIOUS
    <3>1. Len(stack) # d + 1 /\ Len(stack) # d + 2 /\ Waits(stack, d) /\ d \in Nat
      BY <1>3, <2>2, <2>3, <2>5
    <3> QED BY <1>1, <1>2, <3>1, WaitsReturned
  <2> QED BY <2>2, <2>3, <2>6, <2>7
<1>9. CASE IsAnswer(n - 1)
  <2>1. PICK i \in 1 .. Len(stack) : i = n - 2 /\ stack[i].pc = "handler"
    <3>1. (n - 1) - 1 \in 1 .. Len(stack) /\ stack[(n - 1) - 1].pc = "handler"
      BY <1>0, <1>9, AnswerFrame
    <3>2. (n - 1) - 1 = n - 2
      BY <1>3
    <3> QED BY <3>1, <3>2
  <2>2. \A j \in i + 1 .. Len(stack) : stack[j].pc # "handler"
    BY <1>7, <2>1
  <2>3. Len(calls) \in 1 .. Len(calls) /\ Current = calls[Len(calls)] /\ Depth(Len(calls)) = i
    BY <1>0, <2>1, <2>2, CurrentIs
  <2>4. Current.pc = "answering" /\ Waits(stack, i)
    BY <1>8, <1>9, <2>3 DEF IsAnswer
  <2> DEFINE outcome == IF status = "OK" THEN "delivered" ELSE "refused"
  <2>5. Answered(outcome)
    BY <1>3, <1>9 DEF SinkReturns
  <2>6. \/ ret' = "OK" /\ outcome \in {"kept", "delivered"}
        \/ ret' # "OK" /\ outcome = "refused"
    BY <1>1
  <2> HIDE DEF outcome
  <2>7. Done(stack', i)
    <3>1. Len(stack') = i + 1 /\ i + 1 \in 1 .. n - 1 /\ i + 1 = n - 1
      BY <1>3, <1>4, <2>1
    <3>2. stack'[i + 1].pc = "sent"
      BY <1>4, <1>6, <3>1
    <3> QED BY <3>1, <3>2 DEF Done
  <2>8. \A c \in 1 .. Len(calls) : calls[c].pc = "answering" /\ Depth(c) # i =>
            Waits(stack', Depth(c)) /\ answers[calls[c].req] = <<>>
    BY <1>8, <2>1
  <2>9. \A j \in 1 .. Len(stack') : stack'[j].pc \in ProcessPcs =>
            j \in 1 .. Len(stack) /\ stack'[j] = stack[j]
    BY <1>4
  <2>10. CompletionInv'
    BY <1>0, <1>1, <1>2, <1>5, ReturnedElsewhere
  <2> QED BY <1>1, <1>2, <2>1, <2>2, <2>4, <2>5, <2>6, <2>7, <2>8, <2>9, <2>10, AnswerTold
<1>10. CASE ~IsAnswer(n - 1)
  <2>1. UNCHANGED answers
    BY <1>3, <1>10 DEF SinkReturns
  <2>2. \A c \in 1 .. Len(calls) : calls[c].pc = "answering" =>
            Waits(stack', Depth(c)) /\ answers[calls[c].req] = <<>>
    BY <1>8, <1>10
  <2> QED BY <1>1, <1>2, <1>5, <2>1, <2>2, ReturnedAnswers
<1> QED BY <1>9, <1>10

\* A packet returns: the handler right below, if there is one, learns what became of
\* its answer.
LEMMA PacketReturnsAnswers ==
    ASSUME TypeOK, VerifInv, LinkInv, PacketInv, AnswerInv,
           UNCHANGED <<calls, given, answers>>, ReturnFromPacket
    PROVE  AnswerInv'
<1>0. NestInv /\ CallTypes /\ CallsInv /\ FreshInv /\ FrameInv /\ CallInv
  BY DEF VerifInv, LinkInv, AnswerInv
<1>1. stack # <<>> /\ Top.pc = "sent" /\ ret' = ret /\ UNCHANGED tc /\ Returned
  BY ReturnStack DEF ReturnFromPacket, At, Return, history
<1>2. PICK n \in Nat \ {0} : n = Len(stack) /\ Top = stack[n] /\ n \in 1 .. Len(stack)
  BY <1>1, TopResult DEF TypeOK
<1>3. Len(stack') = n - 1 /\ \A j \in 1 .. n - 1 : stack'[j] = stack[j] /\ j \in 1 .. Len(stack)
  BY <1>1, <1>2 DEF Returned
<1>4. FreshInv'
  BY <1>0, <1>1 DEF FreshInv, Received
<1>5. FrameInv'
  BY <1>0, <1>1, <1>3, FrameInvKept
<1>6. CompletionInv'
  BY <1>0, <1>1, ReturnedElsewhere
<1>7. ASSUME NEW c \in 1 .. Len(calls'), calls'[c].pc = "answering"
      PROVE  \/ Waits(stack', Depth(c)') /\ answers'[calls'[c].req] = <<>>
             \/ Done(stack', Depth(c)') /\ Tells(ret', answers'[calls'[c].req])
  <2>1. c \in 1 .. Len(calls) /\ calls'[c] = calls[c] /\ Depth(c)' = Depth(c)
    BY DEF Depth
  <2>2. PICK d \in 1 .. n : d = Depth(c) /\ d \in Nat /\ stack[d].pc = "handler"
    BY <1>0, <1>2, <2>1, CallFrame
  <2>3. \/ Waits(stack, d) /\ answers[calls[c].req] = <<>>
        \/ Done(stack, d) /\ Tells(ret, answers[calls[c].req])
    BY <1>0, <1>7, <2>1, <2>2 DEF CallInv
  <2>4. n # d
    BY <1>1, <1>2, <2>2
  <2>5. CASE n = d + 1
    <3>1. ~Waits(stack, d)
      BY <1>1, <1>2, <2>5 DEF Waits
    <3>2. Done(stack', d)
      BY <1>3, <2>5 DEF Done
    <3> QED BY <1>1, <2>1, <2>2, <2>3, <3>1, <3>2
  <2>6. CASE n # d + 1
    <3>1. ~Done(stack, d)
      BY <1>2, <2>4, <2>6 DEF Done
    <3>2. Waits(stack, d) /\ answers[calls[c].req] = <<>>
      BY <2>3, <3>1
    <3>3. n # d + 2
      <4> SUFFICES ASSUME n = d + 2 PROVE FALSE
        OBVIOUS
      <4>1. d + 1 \in 1 .. Len(stack) /\ (d + 1) + 1 \in 1 .. Len(stack) /\ (d + 1) + 1 = n
        BY <1>2
      <4>2. PacketLies(stack[d + 1], Top) /\ stack[d + 1].pc \in PacketPcs
        BY <1>2, <3>2, <4>1 DEF PacketInv, Waits
      <4> QED BY <1>1, <4>2 DEF PacketLies
    <3>4. Waits(stack', d)
      BY <1>1, <1>2, <2>2, <2>6, <3>2, <3>3, WaitsReturned
    <3> QED BY <2>1, <2>2, <3>2, <3>4
  <2> QED BY <2>5, <2>6
<1>8. CallInv'
  BY <1>0, <1>1, <1>7 DEF CallInv
<1> QED BY <1>4, <1>5, <1>6, <1>8 DEF AnswerInv

\* The innermost handler returns a status that tells what became of its answers.
LEMMA HandlerReturnsAnswers ==
    ASSUME TypeOK, VerifInv, LinkInv, PacketInv, AnswerInv, NEW status,
           HandlerReturns(status),
           Current.handler \in AnsweredKeys => Tells(status, answers[Current.req])
    PROVE  AnswerInv'
<1>0. NestInv /\ CallTypes /\ CallsInv /\ FreshInv /\ FrameInv /\ CallInv
  BY DEF VerifInv, LinkInv, AnswerInv
<1>1. /\ At("handler") /\ ReturnFromCallback(Len(stack)) /\ calls' = Front(calls)
      /\ ret' = status /\ UNCHANGED <<given, answers>>
  BY DEF HandlerReturns
<1>2. Returned /\ stack # <<>> /\ UNCHANGED tc /\ Top.pc = "handler"
  BY <1>1, CallbackReturned DEF At
<1>3. /\ calls # <<>> /\ Len(calls) \in 1 .. Len(calls) /\ Current = calls[Len(calls)]
      /\ Depth(Len(calls)) = Len(stack) /\ Current.req = Top.req /\ Current.req \in Requests
  BY <1>0, <1>1, TopIsCurrent
<1>4. PICK m \in Nat \ {0} : m = Len(calls)
  <2>1. Len(calls) \in Nat
    BY <1>0 DEF CallTypes
  <2> QED BY <1>3, <2>1
<1>5. /\ Len(calls') = m - 1
      /\ \A c \in 1 .. m - 1 : calls'[c] = calls[c] /\ c \in 1 .. Len(calls)
  <2>1. calls \in Seq(CallRecords) /\ calls # <<>> /\ calls' = Front(calls)
    BY <1>0, <1>1, <1>3 DEF CallTypes
  <2>2. /\ Len(calls') = Len(calls) - 1
        /\ \A c \in 1 .. Len(calls) - 1 : calls'[c] = calls[c]
    BY <2>1, CallsFront
  <2> QED BY <1>4, <2>2
<1>6. PICK n \in Nat \ {0} : n = Len(stack) /\ Top = stack[n] /\ n \in 1 .. Len(stack)
  BY <1>2, TopResult DEF TypeOK
<1>7. Len(stack') = n - 1 /\ \A j \in 1 .. n - 1 : stack'[j] = stack[j] /\ j \in 1 .. Len(stack)
  BY <1>2, <1>6 DEF Returned
<1>8. FreshInv'
  BY <1>0, <1>1, <1>2 DEF FreshInv, Received
<1>9. FrameInv'
  BY <1>0, <1>1, <1>2, <1>7, FrameInvKept
<1>10. ASSUME stack' # <<>>, stack'[n - 1].pc = "completion",
              tc[stack'[n - 1].req].key \in AnsweredKeys
       PROVE  Tells(status, answers[stack'[n - 1].req])
  <2>1. n - 1 # 0
    BY <1>2, <1>7, <1>10, EmptySeq DEF Returned
  <2>2. PICK i \in 1 .. Len(stack) : i = n - 1 /\ i + 1 \in 1 .. Len(stack) /\ i + 1 = n
    <3>1. n - 1 \in 1 .. Len(stack) /\ (n - 1) + 1 \in 1 .. Len(stack) /\ (n - 1) + 1 = n
      BY <1>6, <2>1
    <3> QED BY <3>1
  <2>3. stack'[n - 1] = stack[i] /\ stack[i].pc = "completion"
    BY <1>7, <1>10, <2>2
  <2>4. stack[i].req = Current.req
    BY <1>0, <1>3, <1>6, <2>2, <2>3, CompletionBelow
  <2>5. Own(tc[Current.req].key, Current.handler)
    BY <1>0, <1>3 DEF CallInv
  <2>6. tc[Current.req].key \in ServiceKeys
    BY <1>10, <2>3, <2>4 DEF AnsweredKeys
  <2>7. Current.handler \in AnsweredKeys
    BY <1>10, <2>3, <2>4, <2>5, <2>6 DEF Own
  <2> QED BY <2>3, <2>4, <2>7
<1>11. CompletionInv'
  <2>1. ASSUME At("completion")', tc'[Top'.req].key \in AnsweredKeys
        PROVE  Tells(ret', answers'[Top'.req])
    <3>1. stack' # <<>> /\ Top' = stack'[n - 1] /\ stack'[n - 1].pc = "completion"
      BY <1>7, <2>1 DEF At, Top, Last
    <3> QED BY <1>1, <1>2, <1>10, <2>1, <3>1
  <2> QED BY <2>1 DEF CompletionInv
<1>12. ASSUME NEW c \in 1 .. Len(calls')
       PROVE  /\ Own(tc'[calls'[c].req].key, calls'[c].handler)
              /\ calls'[c].pc = "running" => answers'[calls'[c].req] = <<>>
              /\ calls'[c].pc = "answering" =>
                    Waits(stack', Depth(c)') /\ answers'[calls'[c].req] = <<>>
  <2>1. /\ c \in 1 .. Len(calls) /\ calls'[c] = calls[c] /\ Depth(c)' = Depth(c)
        /\ c \in 1 .. m - 1
    BY <1>1, <1>5 DEF Depth
  <2>2. calls[c].pc = "answering" => Waits(stack', Depth(c)) /\ answers[calls[c].req] = <<>>
    <3> SUFFICES ASSUME calls[c].pc = "answering"
                 PROVE  Waits(stack', Depth(c)) /\ answers[calls[c].req] = <<>>
      OBVIOUS
    <3>1. PICK d \in 1 .. n : d = Depth(c) /\ d \in Nat
      BY <1>0, <1>6, <2>1, CallFrame
    <3>2. d < n
      <4>1. c < Len(calls)
        BY <1>4, <2>1
      <4>2. Depth(c) < Depth(Len(calls))
        BY <1>0, <1>3, <2>1, <4>1 DEF CallsInv
      <4> QED BY <1>3, <1>6, <3>1, <4>2
    <3>3. ~Done(stack, d)
      BY <1>2, <1>6, <3>1, <3>2 DEF Done
    <3>4. Waits(stack, d) /\ answers[calls[c].req] = <<>>
      BY <1>0, <2>1, <3>1, <3>3 DEF CallInv
    <3>5. Top.pc \notin PacketPcs \cup {"sink"}
      BY <1>2 DEF PacketPcs
    <3>6. Waits(stack', d)
      BY <1>2, <3>1, <3>4, <3>5, ReturnWaits
    <3> QED BY <3>1, <3>4, <3>6
  <2> QED BY <1>0, <1>1, <1>2, <2>1, <2>2 DEF CallInv
<1>13. CallInv'
  BY <1>12 DEF CallInv
<1> QED BY <1>8, <1>9, <1>11, <1>13 DEF AnswerInv

\* The innermost handler, before it answers and after.
LEMMA TopAnswers ==
    ASSUME TypeOK, CallTypes, CallsInv, CallInv, At("handler")
    PROVE  /\ Current.pc = "running" => answers[Current.req] = <<>>
           /\ Current.pc = "answering" => Tells(ret, answers[Current.req])
<1>1. /\ Len(calls) \in 1 .. Len(calls) /\ Current = calls[Len(calls)]
      /\ Depth(Len(calls)) = Len(stack)
  BY TopIsCurrent
<1>2. ~Waits(stack, Len(stack))
  BY DEF Waits, TypeOK
<1> QED BY <1>1, <1>2 DEF CallInv

\* Each way in which a handler returns.
LEMMA ServedAnswers ==
    ASSUME TypeOK, VerifInv, LinkInv, PacketInv, AnswerInv,
           \/ RefuseShort \/ ReturnAnswered \/ ParametersSet
           \/ \E status \in AppStatuses : ParametersFail(status) \/ OwnHandlerReturns(status)
    PROVE  AnswerInv'
<1>0. CallTypes /\ CallsInv /\ CallInv /\ AnsweredKeys \subseteq ServiceKeys
  BY DEF LinkInv, AnswerInv, AnsweredKeys
<1>1. CASE RefuseShort
  <2>1. At("handler") /\ HandlerReturns("BAD_LENGTH") /\ Current.pc = "running"
    BY <1>1 DEF RefuseShort
  <2>2. Tells("BAD_LENGTH", answers[Current.req])
    BY <1>0, <2>1, TopAnswers, TellsNothing
  <2> QED BY <2>1, <2>2, HandlerReturnsAnswers
<1>2. CASE ReturnAnswered
  <2>1. At("handler") /\ HandlerReturns(ret) /\ Current.pc = "answering"
    BY <1>2 DEF ReturnAnswered
  <2>2. Tells(ret, answers[Current.req])
    BY <1>0, <2>1, TopAnswers
  <2> QED BY <2>1, <2>2, HandlerReturnsAnswers
<1>3. CASE ParametersSet
  <2>1. HandlerReturns("OK") /\ Current.handler = "TC[20,3]"
    BY <1>3 DEF ParametersSet
  <2>2. Current.handler \notin AnsweredKeys
    BY <2>1 DEF AnsweredKeys
  <2> QED BY <2>1, <2>2, HandlerReturnsAnswers
<1>4. ASSUME NEW status \in AppStatuses, ParametersFail(status) PROVE AnswerInv'
  <2>1. /\ At("handler") /\ HandlerReturns(status) /\ status # "OK"
        /\ HasAppCode(Current) /\ Current.handler \in {"TC[20,1]", "TC[20,3]"}
    BY <1>4 DEF ParametersFail
  <2>2. Current.pc = "running"
    BY <2>1 DEF HasAppCode, ServiceKeys
  <2>3. Tells(status, answers[Current.req])
    BY <1>0, <2>1, <2>2, TopAnswers, TellsNothing
  <2> QED BY <2>1, <2>3, HandlerReturnsAnswers
<1>5. ASSUME NEW status \in AppStatuses, OwnHandlerReturns(status) PROVE AnswerInv'
  <2>1. HandlerReturns(status) /\ Current.handler \notin ServiceKeys
    BY <1>5 DEF OwnHandlerReturns
  <2> QED BY <1>0, <2>1, HandlerReturnsAnswers
<1> QED BY <1>1, <1>2, <1>3, <1>4, <1>5

LEMMA ReadOnAnswers ==
    ASSUME TypeOK, LinkInv, AnswerInv, ReadOn
    PROVE  AnswerInv'
<1>0. CallTypes /\ CallsInv /\ CallInv
  BY DEF LinkInv, AnswerInv
<1>1. At("handler") /\ UNCHANGED <<stack, ret, tc, answers>>
  BY DEF ReadOn, vars, history
<1>2. /\ Len(calls) \in 1 .. Len(calls) /\ Current = calls[Len(calls)]
      /\ Current \in CallRecords
  BY <1>0, <1>1, TopIsCurrent
<1> DEFINE new == [Current EXCEPT !.about = @ \cup {InBuffer(Current.req)}]
<1>3. calls' = [calls EXCEPT ![Len(calls)] = new]
  BY <1>2 DEF ReadOn
<1>4. /\ new.req = Current.req /\ new.handler = Current.handler
      /\ new.frame = Current.frame /\ new.pc = Current.pc
  BY <1>2 DEF CallRecords
<1> HIDE DEF new
<1>5. /\ Len(calls') = Len(calls)
      /\ \A c \in 1 .. Len(calls) : calls'[c] = IF c = Len(calls) THEN new ELSE calls[c]
  BY <1>0, <1>2, <1>3 DEF CallTypes
<1>6. \A c \in 1 .. Len(calls') :
          /\ c \in 1 .. Len(calls) /\ Depth(c)' = Depth(c)
          /\ calls'[c].req = calls[c].req /\ calls'[c].handler = calls[c].handler
          /\ calls'[c].pc = calls[c].pc
  BY <1>2, <1>4, <1>5 DEF Depth
<1>7. CallInv'
  BY <1>0, <1>1, <1>6 DEF CallInv
<1>8. FreshInv' /\ FrameInv' /\ CompletionInv'
  BY <1>1 DEF AnswerInv, FreshInv, FrameInv, CompletionInv, Received, At, Top
<1> QED BY <1>7, <1>8 DEF AnswerInv

LEMMA StepAnswerInv ==
    ASSUME TypeOK, VerifInv, LinkInv, PacketInv, RoutedInv, ValuesInv, AnswerInv,
           [ServicesNext]_allVars
    PROVE  AnswerInv'
<1>1. ASSUME NEW s \in Services, RegisterFirst(s) \/ RegisterSecond(s) PROVE AnswerInv'
  BY <1>1, ConfigAnswers
<1>2. CASE Initialise \/ SetSink \/ BuildOwn
  BY <1>2, ConfigAnswers
<1>3. ASSUME NEW k \in Keys, NEW v \in Values, RegisterOwn(k, v) PROVE AnswerInv'
  BY <1>3, ConfigAnswers
<1>4. ASSUME NEW k \in Keys, Deregister(k) PROVE AnswerInv'
  BY <1>4, ConfigAnswers
<1>5. ASSUME NEW k \in Keys, NEW ack \in AckSets, NEW short, NEW b, Receive(k, ack, short, b)
      PROVE  AnswerInv'
  BY <1>5, ReceiveAnswers
<1>6. CASE Dispatch
  BY <1>6, DispatchAnswers
<1>7. CASE \/ RefuseShort \/ ReturnAnswered \/ ParametersSet
           \/ \E status \in AppStatuses : ParametersFail(status) \/ OwnHandlerReturns(status)
  BY <1>7, ServedAnswers
<1>8. CASE BuildAnswer
  BY <1>8, BuildAnswerAnswers
<1>9. CASE SendPacket
  BY <1>9, SendPacketAnswers
<1>10. ASSUME NEW status, SinkReturns(status) PROVE AnswerInv'
  BY <1>10, SinkReturnsAnswers
<1>11. CASE ClockReturns
  BY <1>11, QuietReturnAnswers DEF ClockReturns
<1>12. CASE LibraryGoesOn
  <2>1. UNCHANGED <<calls, given, answers>>
    BY <1>12 DEF LibraryGoesOn
  <2>2. CASE FindHandler \/ EmitAcceptance \/ EmitStart \/ EmitCompletion
    BY <2>1, <2>2, ProcessAnswers
  <2>3. CASE ReturnFromProcess
    BY <2>1, <2>3, QuietReturnAnswers
  <2>4. CASE StampHeader
    BY <2>1, <2>4, StampAnswers
  <2>5. CASE ReturnFromPacket
    BY <2>1, <2>5, PacketReturnsAnswers
  <2> QED BY <1>12, <2>2, <2>3, <2>4, <2>5 DEF LibraryGoesOn
<1>13. CASE ReadOn
  BY <1>13, ReadOnAnswers
<1>14. CASE UNCHANGED allVars
  <2>1. UNCHANGED <<stack, ret, tc, calls, given, answers>>
    BY <1>14 DEF allVars, vars, serviceVars, history
  <2>2. \A c : Depth(c)' = Depth(c)
    BY <2>1 DEF Depth
  <2>3. FreshInv' /\ FrameInv' /\ CompletionInv'
    BY <2>1 DEF AnswerInv, FreshInv, FrameInv, CompletionInv, Received, At, Top
  <2>4. CallInv'
    BY <2>1, <2>2 DEF AnswerInv, CallInv
  <2> QED BY <2>3, <2>4 DEF AnswerInv
<1> QED BY <1>1, <1>2, <1>3, <1>4, <1>5, <1>6, <1>7, <1>8, <1>9, <1>10, <1>11, <1>12,
           <1>13, <1>14
        DEF ServicesNext

LEMMA InitAnswerInv == ServicesInit => AnswerInv
<1> SUFFICES ASSUME ServicesInit PROVE AnswerInv
  OBVIOUS
<1>1. stack = <<>> /\ calls = <<>> /\ answers = [r \in Requests |-> <<>>]
  BY DEF ServicesInit, Init
<1>2. FreshInv /\ FrameInv /\ CompletionInv /\ CallInv
  BY <1>1 DEF FreshInv, FrameInv, CompletionInv, CallInv, At
<1> QED BY <1>2 DEF AnswerInv

LEMMA AnswersTell == FrameInv => StatusTellsTheAnswer
<1> SUFFICES ASSUME FrameInv PROVE StatusTellsTheAnswer
  OBVIOUS
<1>1. ASSUME NEW i \in 1 .. Len(stack), stack[i].pc = "return",
             tc[stack[i].req].key \in AnsweredKeys
      PROVE  Tells(stack[i].st, answers[stack[i].req])
  <2>1. stack[i].pc \in ProcessPcs
    BY <1>1 DEF ProcessPcs
  <2> QED BY <1>1, <2>1 DEF FrameInv, FrameAnswers
<1> QED BY <1>1 DEF StatusTellsTheAnswer, Tells

\* The status that ends an answered command tells its sender the truth: OK if and
\* only if exactly one answer was built and the sink took it or there was no sink, and
\* a failure only if no answer left (pus_service_17.c:24, pus_service_20.c:128).  It
\* passes through the sink, pus_tm_build, the handler and pus_tc_process, and further
\* telecommands are answered meanwhile from sinks and getters.  The handler called
\* must be the one registered, which the assumption on the callbacks is for.
THEOREM AnswersAreTold ==
    QuietCallbacks \/ HandlersStay => (ServicesSpec => []StatusTellsTheAnswer)
<1> DEFINE Inv == TypeOK /\ VerifInv /\ LinkInv /\ PacketInv /\ ValuesInv /\ AnswerInv
<1>1. ServicesInit => Inv /\ RouteInv /\ RoutedInv
  BY InitTypeOK, InitVerifInv, InitLinkInv, InitPacketInv, InitValuesInv, InitAnswerInv,
     InitRouteInv, RouteIsRouted
     DEF ServicesInit
<1>2. Inv /\ RoutedInv /\ [ServicesNext]_allVars => Inv'
  BY StepIsCoreStep, StepTypeOK, StepVerifInv, StepLinkInv, StepPacketInv, StepValuesInv,
     StepAnswerInv
<1>3. Inv => StatusTellsTheAnswer
  BY AnswersTell DEF AnswerInv
<1>4. ASSUME QuietCallbacks PROVE ServicesSpec => []StatusTellsTheAnswer
  <2>1. Inv /\ RouteInv /\ [ServicesNext]_allVars => RouteInv'
    BY <1>4, StepIsCoreStep, StepRouteInv
  <2>2. RouteInv => RoutedInv
    BY RouteIsRouted
  <2> QED BY <1>1, <1>2, <1>3, <2>1, <2>2, PTL DEF ServicesSpec
<1>5. ASSUME HandlersStay PROVE ServicesSpec => []StatusTellsTheAnswer
  <2>1. Inv /\ RoutedInv /\ [ServicesNext]_allVars => RoutedInv'
    BY <1>5, StepIsCoreStep, StepRoutedInv
  <2> QED BY <1>1, <1>2, <1>3, <2>1, PTL DEF ServicesSpec
<1> QED BY <1>4, <1>5
=============================================================================
