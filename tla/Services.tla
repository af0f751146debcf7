------------------------------ MODULE Services ------------------------------
(***************************************************************************)
(* The handlers of ST[17] and ST[20] at work in a PUS context: the core    *)
(* with the library's own services registered in its dispatch table.       *)
(*                                                                         *)
(* PusCore lets a handler do anything.  Here the handlers of TC[17,1],     *)
(* TC[17,3], TC[20,1] and TC[20,3] do what pus_service_17.c and            *)
(* pus_service_20.c make them do: they read the telecommand, call getters  *)
(* and setters (application code, which may use the library again), build  *)
(* an answer and return the status of the call that built it.  The         *)
(* handlers of other commands stay arbitrary.  Every step is a step of     *)
(* PusCore, so what holds there holds here.  Handlers are called for       *)
(* telecommands only: pus_handler_invoke is PusCore's.                     *)
(*                                                                         *)
(* Payloads are abstracted to whose they are: a request stands for the     *)
(* bytes its sender wrote.  A decoded telecommand borrows its payload from *)
(* the buffer it was received into (include/pus_types.h:67), so what a     *)
(* handler reads is what that buffer holds by then.  The buffers are the   *)
(* application's: it may receive any telecommand into any of them, one in  *)
(* use included.                                                           *)
(***************************************************************************)
EXTENDS PusCore

Services == {"test", "parameters"}
FirstKey == [s \in Services |-> IF s = "test" THEN "TC[17,1]" ELSE "TC[20,1]"]
SecondKey == [s \in Services |-> IF s = "test" THEN "TC[17,3]" ELSE "TC[20,3]"]
KeysOf(s) == {FirstKey[s], SecondKey[s]}
ServiceKeys == {"TC[17,1]", "TC[17,3]", "TC[20,1]", "TC[20,3]"}

\* The commands that have an answer: TM[17,2], TM[17,4], TM[20,2].
AnsweredKeys == ServiceKeys \ {"TC[20,3]"}

\* The handlers of the services are named after their commands.
ASSUME ServiceKeysAssumption == ServiceKeys \subseteq Keys \cap Values
ASSUME HandlerStatusesAssumption == {"OK", "BAD_LENGTH"} \subseteq AppStatuses
ASSUME HandlersBuildAssumption == "pus_tm_build" \in MayCall["handler"]

CONSTANTS
    SinkStatuses,   \* what the sink returns
    Buffers,        \* the arrays that telecommands are received into
    NoBuffer,       \* where a telecommand is that was not received yet
    Removable       \* the commands whose handlers the application deregisters

ASSUME SinkStatusesAssumption == "OK" \in SinkStatuses /\ SinkStatuses \subseteq AppStatuses
ASSUME RemovableAssumption == Removable \subseteq Keys

VARIABLES
    calls,        \* the handlers that run, innermost last
    registering,  \* the service whose registration runs
    registered,   \* history: what register_handlers returned, until undone
    given,        \* the bytes of each request, and who was served when they came
    answers       \* history: what became of the answers built for each request

serviceVars == <<calls, registering, registered, given, answers>>
allVars == <<vars, serviceVars>>

Nobody == "none"
Outcomes == {"kept", "delivered", "refused"}

CallRecords == [handler : Values,           \* the function that runs
                frame   : Nat,              \* its place on the stack
                req     : Requests,         \* the telecommand it was given
                short   : BOOLEAN,          \* the payload fails its first check
                about   : SUBSET Requests,  \* whose payloads it has read
                pc      : {"running", "answering"}]

Givens == [short  : BOOLEAN,                 \* the payload is too short
           buffer : Buffers \cup {NoBuffer},  \* where it was received
           during : SUBSET Requests]         \* history: the requests being processed then

ServicesTypeOK ==
    /\ TypeOK
    /\ calls \in Seq(CallRecords)
    /\ registering \in Services \cup {Nobody}
    /\ registered \in [Services -> {Nobody, "OK", "TABLE_FULL"}]
    /\ given \in [Requests -> Givens]
    /\ answers \in [Requests -> Seq(Outcomes)]

ServicesInit ==
    /\ Init
    /\ calls = <<>>
    /\ registering = Nobody
    /\ registered = [s \in Services |-> Nobody]
    /\ given = [r \in Requests |-> [short |-> FALSE, buffer |-> NoBuffer, during |-> {}]]
    /\ answers = [r \in Requests |-> <<>>]

----------------------------------------------------------------------------
(* What runs *)

Current == Last(calls)

\* A handler of a service has application code in it where it calls getters and
\* setters.
HasAppCode(call) ==
    /\ call.handler \notin {"TC[17,1]", "TC[17,3]"}
    /\ call.handler \in ServiceKeys => ~call.short /\ call.pc = "running"

AppRuns == At("handler") => HasAppCode(Current)

\* pus_handler_register does not call back: nothing comes between the two calls
\* of a registration.
Undisturbed == registering = Nobody /\ UNCHANGED <<registering>>

\* The requests in the middle of their pus_tc_process.
InProcess == {stack[i].req : i \in {j \in 1 .. Len(stack) : stack[j].pc \in ProcessPcs}}

\* (slip: pus_tc_process decodes into a static structure, not a local one)
InStaticTc(r) == Max(Received)

\* What the buffer of request r holds by now: the request received there last.
InBuffer(r) == Max({q \in Received : given[q].buffer = given[r].buffer})

----------------------------------------------------------------------------
(* Registration *)

\* pus_service_17_register_handlers and pus_service_20_register_handlers.
RegisterFirst(s) ==
    /\ registering = Nobody
    /\ AppRuns
    /\ RegisterHandler(FirstKey[s], FirstKey[s])
    /\ IF ret' = "OK"
       THEN registering' = s /\ registered' = [registered EXCEPT ![s] = Nobody]
       ELSE registered' = [registered EXCEPT ![s] = ret'] /\ UNCHANGED registering
    /\ UNCHANGED <<calls, given, answers>>

\* (slip: the status of the second call is not returned)
RegisterSecondUnchecked(s) ==
    /\ registering = s
    /\ RegisterHandler(SecondKey[s], SecondKey[s])
    /\ registering' = Nobody
    /\ registered' = [registered EXCEPT ![s] = "OK"]
    /\ UNCHANGED <<calls, given, answers>>

\* (slip: the handler is passed as its user_data, and NULL as the handler)
RegisterSecondAsData(s) ==
    /\ registering = s
    /\ DeregisterHandler(SecondKey[s])
    /\ registering' = Nobody
    /\ registered' = [registered EXCEPT ![s] = ret']
    /\ UNCHANGED <<calls, given, answers>>

\* The first handler stays registered when the second is refused.
RegisterSecond(s) ==
    /\ registering = s
    /\ RegisterHandler(SecondKey[s], SecondKey[s])
    /\ registering' = Nobody
    /\ registered' = [registered EXCEPT ![s] = ret']
    /\ UNCHANGED <<calls, given, answers>>

\* The application registers its own handlers, for its own commands.
RegisterOwn(k, v) ==
    /\ Undisturbed /\ AppRuns
    /\ k \notin ServiceKeys
    /\ RegisterHandler(k, v)
    /\ UNCHANGED <<calls, registered, given, answers>>

Deregister(k) ==
    /\ Undisturbed /\ AppRuns
    /\ DeregisterHandler(k)
    /\ registered' = [s \in Services |-> IF k \in KeysOf(s) THEN Nobody ELSE registered[s]]
    /\ UNCHANGED <<calls, given, answers>>

Initialise ==
    /\ Undisturbed /\ AppRuns
    /\ InitContext
    /\ registered' = [s \in Services |-> Nobody]
    /\ UNCHANGED <<calls, given, answers>>

SetSink ==
    /\ Undisturbed /\ AppRuns
    /\ SetTmSink
    /\ UNCHANGED <<calls, registered, given, answers>>

----------------------------------------------------------------------------
(* Telecommands reach handlers *)

\* Three handlers look at the length of the payload.
Lengths(k) == IF k \in ServiceKeys \ {"TC[17,1]"} THEN BOOLEAN ELSE {FALSE}

\* The bytes lie in whatever buffer the caller of pus_tc_process passes, whether a
\* request that is being processed lies there or not.  There is room left on the
\* stack for the handler's answer (bound).
Receive(k, ack, short, buffer) ==
    /\ Undisturbed /\ AppRuns
    /\ Len(stack) + 2 <= MaxReentry
    /\ ProcessTc(k, ack)
    /\ given' = [given EXCEPT ![Cardinality(Received) + 1] =
                    [short |-> short, buffer |-> buffer, during |-> InProcess]]
    /\ UNCHANGED <<calls, registered, answers>>

\* The length of a payload is decoded with the header, and stays; but TC[20,1] also
\* compares it with a count that it reads from the buffer.
SeemsShort(handler, r) ==
    IF handler = "TC[20,1]" /\ InBuffer(r) # r THEN BOOLEAN ELSE {given[r].short}

\* The handler is entered: what it reads first, it reads now.
Call(handler, r, short) ==
    [handler |-> handler, frame |-> Len(stack) + 1, req |-> r, short |-> short,
     about |-> IF handler = "TC[17,1]" THEN {} ELSE {InBuffer(r)}, pc |-> "running"]

Dispatch ==
    /\ Undisturbed
    /\ InvokeHandler
    /\ \E short \in SeemsShort(table[Top.idx].val, Top.req) :
          calls' = Append(calls, Call(table[Top.idx].val, Top.req, short))
    /\ UNCHANGED <<registered, given, answers>>

----------------------------------------------------------------------------
(* Inside the handlers *)

\* The current handler returns.
HandlerReturns(status) ==
    /\ At("handler")
    /\ ReturnFromCallback(Len(stack))
    /\ ret' = status
    /\ calls' = Front(calls)
    /\ UNCHANGED <<registered, given, answers>>

\* handle_tc_17_3, handle_tc_20_1 and handle_tc_20_3 refuse a payload that is too
\* short (or, in ST[20], names too many parameters) before they do anything.
RefuseShort ==
    /\ Undisturbed
    /\ At("handler") /\ Current.handler \in ServiceKeys \ {"TC[17,1]"}
    /\ Current.pc = "running" /\ Current.short
    /\ HandlerReturns("BAD_LENGTH")

\* pus_service_17_emit_alive_report, pus_service_17_emit_connection_report and, when
\* all getters have answered, pus_service_20_emit_report.
BuildAnswer ==
    /\ Undisturbed
    /\ At("handler") /\ Current.handler \in AnsweredKeys
    /\ Current.pc = "running"
    /\ Current.handler = "TC[17,1]" \/ ~Current.short
    /\ BuildTm
    /\ calls' = [calls EXCEPT ![Len(calls)].pc = "answering"]
    /\ UNCHANGED <<registered, given, answers>>

\* (slip: the status of the answer is dropped)
ReturnOk ==
    /\ Undisturbed
    /\ At("handler") /\ Current.handler \in AnsweredKeys
    /\ Current.pc = "answering"
    /\ HandlerReturns("OK")

\* The handler returns what building its answer returned.
ReturnAnswered ==
    /\ Undisturbed
    /\ At("handler") /\ Current.handler \in AnsweredKeys
    /\ Current.pc = "answering"
    /\ HandlerReturns(ret)

\* A parameter is unknown, read-only or too long for the rest of the buffer, or a
\* getter or a setter fails: the loops of ST[20] are module Service20's.
ParametersFail(status) ==
    /\ Undisturbed
    /\ At("handler") /\ Current.handler \in {"TC[20,1]", "TC[20,3]"}
    /\ HasAppCode(Current)
    /\ status # "OK"
    /\ HandlerReturns(status)

\* Behind a setter, handle_tc_20_3 reads the next id and the next value.
ReadOn ==
    /\ Undisturbed
    /\ At("handler") /\ Current.handler = "TC[20,3]"
    /\ HasAppCode(Current)
    /\ calls' = [calls EXCEPT ![Len(calls)].about = @ \cup {InBuffer(Current.req)}]
    /\ UNCHANGED <<vars, registered, given, answers>>

ParametersSet ==
    /\ Undisturbed
    /\ At("handler") /\ Current.handler = "TC[20,3]"
    /\ HasAppCode(Current)
    /\ HandlerReturns("OK")

\* The application's own handlers return anything.
OwnHandlerReturns(status) ==
    /\ Undisturbed
    /\ At("handler") /\ Current.handler \notin ServiceKeys
    /\ HandlerReturns(status)

----------------------------------------------------------------------------
(* Answers on their way out *)

\* The packet in frame i is the answer of the current handler.
IsAnswer(i) ==
    /\ calls # <<>>
    /\ Current.frame = i - 1 /\ Current.pc = "answering"

Answered(outcome) ==
    answers' = [answers EXCEPT ![Current.req] = Append(@, outcome)]

\* Without a sink the answer stays in the buffer of its builder.
SendPacket ==
    /\ Undisturbed
    /\ FinishPacket
    /\ IF IsAnswer(Len(stack)) /\ ~sink THEN Answered("kept") ELSE UNCHANGED answers
    /\ UNCHANGED <<calls, registered, given>>

SinkReturns(status) ==
    /\ Undisturbed
    /\ At("sink") /\ ReturnFromCallback(Len(stack))
    /\ ret' = status
    /\ IF IsAnswer(Len(stack) - 1)
       THEN Answered(IF status = "OK" THEN "delivered" ELSE "refused")
       ELSE UNCHANGED answers
    /\ UNCHANGED <<calls, registered, given>>

ClockReturns ==
    /\ Undisturbed
    /\ At("clock") /\ ReturnFromCallback(Len(stack))
    /\ ret' = "OK"
    /\ UNCHANGED <<calls, registered, given, answers>>

\* Telemetry of the application, its getters and its setters.
BuildOwn ==
    /\ Undisturbed /\ AppRuns
    /\ BuildTm
    /\ UNCHANGED <<calls, registered, given, answers>>

\* The rest of the library knows nothing of the services.
LibraryGoesOn ==
    /\ Undisturbed
    /\ \/ FindHandler \/ EmitAcceptance \/ EmitStart \/ EmitCompletion
       \/ ReturnFromProcess \/ StampHeader \/ ReturnFromPacket
    /\ UNCHANGED <<calls, registered, given, answers>>

----------------------------------------------------------------------------
ServicesNext ==
    \/ \E s \in Services : RegisterFirst(s) \/ RegisterSecond(s)
    \/ Initialise \/ SetSink \/ BuildOwn
    \/ \E k \in Keys :
          \/ \E v \in Values \ ServiceKeys : RegisterOwn(k, v)
          \/ k \in Removable /\ Deregister(k)
          \/ \E ack \in AckSets, short \in Lengths(k), b \in Buffers :
                Receive(k, ack, short, b)
    \/ Dispatch \/ RefuseShort \/ BuildAnswer \/ ReturnAnswered \/ ReadOn \/ ParametersSet
    \/ \E status \in AppStatuses : ParametersFail(status) \/ OwnHandlerReturns(status)
    \/ \E status \in SinkStatuses : SinkReturns(status)
    \/ SendPacket \/ ClockReturns \/ LibraryGoesOn

ServicesSpec == ServicesInit /\ [][ServicesNext]_allVars

----------------------------------------------------------------------------
(* Properties *)

\* The status of an answered command tells its sender the truth, through the sink,
\* pus_tm_build, the handler and pus_tc_process, and through commands answered
\* meanwhile from the sink or from a getter: success means that exactly one
\* answer was built and that the sink took it, or that there was no sink; a
\* failure means that no answer left (pus_service_17.c:24, pus_service_20.c:128).
StatusTellsTheAnswer ==
    \A i \in 1 .. Len(stack) :
        stack[i].pc = "return" /\ tc[stack[i].req].key \in AnsweredKeys =>
            /\ stack[i].st = "OK" => answers[stack[i].req] \in {<<"kept">>, <<"delivered">>}
            /\ stack[i].st # "OK" => answers[stack[i].req] \in {<<>>, <<"refused">>}

\* A handler reads the payload of its own telecommand, and of another one only if the
\* application received that one into the same buffer while the first was being
\* processed.  Whoever keeps a buffer to one telecommand until pus_tc_process returns
\* needs nothing else: telecommands received meanwhile into other buffers - in the
\* sink of the acceptance report, in getters, between the setters of TC[20,3] - are
\* never mixed up with it (pus_types.h:67, pus.c:40).
Overwriters(r) ==
    {q \in Received : given[q].buffer = given[r].buffer /\ r \in given[q].during}
PayloadsAreReadWhileLent ==
    \A i \in DOMAIN calls :
        calls[i].about \subseteq {calls[i].req} \cup Overwriters(calls[i].req)

\* What register_handlers returned stays true until the application undoes it: OK
\* means that both commands of the service are routed to it, TABLE_FULL that
\* not both are - one of them may be (pus_service_17.c:94, pus_service_20.c:232).
Routed(k) == Lookup(table, k) = k
RegistrationStatusIsTrue ==
    registering = Nobody =>
        \A s \in Services :
            /\ registered[s] = "OK" => \A k \in KeysOf(s) : Routed(k)
            /\ registered[s] = "TABLE_FULL" => \E k \in KeysOf(s) : ~Routed(k)
=============================================================================
