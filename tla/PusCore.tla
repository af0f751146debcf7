------------------------------ MODULE PusCore ------------------------------
(***************************************************************************)
(* One PUS context and the C stack of the program that uses it.            *)
(*                                                                         *)
(* The library has no threads.  What makes it concurrent is that it calls  *)
(* the application back - a TC handler, the TM sink, the time source - in  *)
(* the middle of its own functions, and that the application may call the  *)
(* library again from there.  The stack is therefore part of the state:    *)
(* one frame per active pus_tc_process, per TM packet being built and per  *)
(* running callback, each with the local variables that outlive a call.    *)
(* One action is the code between two calls that may re-enter.             *)
(*                                                                         *)
(* Sources: src/src/pus.c, pus_handler.c, pus_context.c, pus_internal.h,   *)
(* pus_service_1.c.  Packet bytes are abstracted: a telecommand is its     *)
(* routing key and its acknowledgement flags, a TM packet its kind, the    *)
(* request it is about and its message counter.                            *)
(***************************************************************************)
EXTENDS SlotTable, SequencesExt

CONSTANTS
    MaxRequests,   \* bound: telecommands given to pus_tc_process
    AckSets,       \* the acknowledgement flags a telecommand may carry
    AppStatuses,   \* what handlers and sinks return
    MayCall,       \* the library calls each piece of application code makes
    MaxCounter,    \* the largest tm_counter (65535 in the code)
    MaxReentry,    \* bound: frames below the deepest call made by a callback
    MaxProgress    \* bound: reports a request has before handlers stop adding

Flags == {"acceptance", "start", "progress", "completion"}

\* Where application code runs: at top level, or in one of the callbacks.
AppContexts == {"main", "handler", "sink", "clock"}

Calls == {"pus_init", "pus_handler_register", "deregister", "pus_set_tm_sink",
          "pus_tc_process", "pus_handler_invoke", "pus_tm_build",
          "pus_service_1_emit", "pus_service_1_build"}

Statuses == {"OK", "NULL", "BAD_LENGTH", "BAD_VERSION", "BAD_SERVICE", "NO_HANDLER",
             "HANDLER_FAILED", "BUFFER_TOO_SMALL", "TABLE_FULL"}

ASSUME AckSetsAssumption == AckSets \subseteq SUBSET Flags
ASSUME AppStatusesAssumption == AppStatuses \subseteq Statuses
ASSUME MayCallAssumption == MayCall \in [AppContexts -> SUBSET Calls]
ASSUME BoundsAssumption ==
    /\ MaxCounter \in Nat \ {0}
    /\ MaxRequests \in Nat
    /\ MaxReentry \in Nat
    /\ MaxProgress \in Nat

Requests == 1 .. MaxRequests
NoReq == 0
NoTc == [key |-> NoKey, ack |-> {}]
NoSeq == -1

\* The kinds of TM packet: the ST[01] reports, and everything built by
\* pus_tm_build.
Verification == {"acceptance_success", "start_success", "progress_success",
                 "progress_failure", "completion_success", "completion_failure",
                 "routing_failure"}
Kinds == Verification \cup {"telemetry"}

\* Program points of pus_tc_process and of the packet builders.
ProcessPcs == {"find", "acceptance", "start", "invoke", "completion", "return", "refused"}
PacketPcs == {"stamp", "count", "sent"}
CallbackPcs == AppContexts \ {"main"}

Frames == [pc   : ProcessPcs \cup PacketPcs \cup CallbackPcs,
           req  : Requests \cup {NoReq},   \* the telecommand the frame works on
           idx  : -1 .. MaxEntries - 1,    \* pus_tc_process: idx
           st   : Statuses,                \* pus_tc_process: st
           kind : Kinds,                   \* packet builders: the subtype
           send : BOOLEAN,                 \* packet builders: forwards to the sink
           seq  : 0 .. MaxCounter]         \* packet builders: hdr.msg_type_counter

VARIABLES
    table,     \* ctx->handler_table
    counter,   \* ctx->tm_counter
    sink,      \* ctx->tm_sink is not NULL
    clock,     \* ctx->time_source is not NULL
    stack,     \* the active calls, innermost last
    ret,       \* the status just returned; OK once another call was entered
    tc,        \* history: the telecommand of each request
    reports,   \* history: the verification reports issued about each request
    lastSeq    \* history: the number on the last packet finished

ctxVars == <<table, counter, sink, clock>>
history == <<tc, reports, lastSeq>>
vars == <<ctxVars, stack, ret, history>>

TypeOK ==
    /\ table \in Tables
    /\ counter \in 0 .. MaxCounter
    /\ sink \in BOOLEAN
    /\ clock \in BOOLEAN
    /\ stack \in Seq(Frames)
    /\ ret \in Statuses
    /\ tc \in [Requests -> [key : Keys, ack : SUBSET Flags] \cup {NoTc}]
    /\ reports \in [Requests -> Seq(Kinds)]
    /\ lastSeq \in 0 .. MaxCounter \cup {NoSeq}

----------------------------------------------------------------------------
(* The stack *)

Top == Last(stack)

\* The frame of a call about request r that has just been entered.
Frame(pc, r) == [pc |-> pc, req |-> r, idx |-> -1, st |-> "OK",
                 kind |-> "telemetry", send |-> FALSE, seq |-> 0]

\* The innermost frame becomes f; f is entered above it.
Resume(f) == [stack EXCEPT ![Len(stack)] = f]
ResumeAndEnter(f, g) == Append(Resume(f), g)

At(pc) == stack # <<>> /\ Top.pc = pc

Packet(kind, r) == [Frame("stamp", r) EXCEPT !.kind = kind, !.send = TRUE]

Return(status) ==
    /\ stack' = Front(stack)
    /\ ret' = status

AppContext == IF stack = <<>> THEN "main" ELSE Top.pc

\* The application makes a library call from where it is.
AppCalls(call) ==
    /\ AppContext \in AppContexts
    /\ call \in MayCall[AppContext]

\* A call that pushes frames: re-entry is bounded.
AppEnters(call) ==
    /\ AppCalls(call)
    /\ Len(stack) <= MaxReentry

\* (slip: the increment does not wrap)
IncrUnbounded(c) == c + 1

\* uint16_t increment.
Incr(c) == IF c = MaxCounter THEN 0 ELSE c + 1

----------------------------------------------------------------------------
(* Configuration: pus_context.c, pus_handler_register, pus_set_tm_sink *)

Init ==
    /\ table = EmptyTable
    /\ counter = 0
    /\ sink = FALSE
    /\ clock = FALSE
    /\ stack = <<>>
    /\ ret = "OK"
    /\ tc = [r \in Requests |-> NoTc]
    /\ reports = [r \in Requests |-> <<>>]
    /\ lastSeq = NoSeq

\* pus_init and pus_init_with_config.  A NULL config is refused only after the
\* context was wiped.
InitContext ==
    /\ AppCalls("pus_init")
    /\ table' = EmptyTable
    /\ counter' = 0
    /\ lastSeq' = NoSeq
    /\ \/ sink' \in BOOLEAN /\ clock' \in BOOLEAN /\ ret' = "OK"
       \/ sink' = FALSE /\ clock' = FALSE /\ ret' = "NULL"
    /\ UNCHANGED <<stack, tc, reports>>

RegisterHandler(k, v) ==
    /\ AppCalls("pus_handler_register")
    /\ IF CanStore(table, k)
       THEN table' = Store(table, k, v) /\ ret' = "OK"
       ELSE ret' = "TABLE_FULL" /\ UNCHANGED table
    /\ UNCHANGED <<counter, sink, clock, stack, history>>

DeregisterHandler(k) ==
    /\ AppCalls("deregister")
    /\ IF Holding(table, k) # {}
       THEN table' = Clear(table, k) /\ ret' = "OK"
       ELSE ret' = "NO_HANDLER" /\ UNCHANGED table
    /\ UNCHANGED <<counter, sink, clock, stack, history>>

SetTmSink ==
    /\ AppCalls("pus_set_tm_sink")
    /\ sink' \in BOOLEAN
    /\ ret' = "OK"
    /\ UNCHANGED <<table, counter, clock, stack, history>>

----------------------------------------------------------------------------
(* pus_tc_process *)

\* The decoder refuses the buffer: nothing is reported.
RejectTc ==
    /\ AppCalls("pus_tc_process")
    /\ ret' \in {"NULL", "BAD_LENGTH", "BAD_VERSION"}
    /\ UNCHANGED <<ctxVars, stack, history>>

Received == {r \in Requests : tc[r] # NoTc}

ProcessTc(k, ack) ==
    LET r == Cardinality(Received) + 1 IN
    /\ AppEnters("pus_tc_process")
    /\ r \in Requests
    /\ tc' = [tc EXCEPT ![r] = [key |-> k, ack |-> ack]]
    /\ stack' = Append(stack, Frame("find", r))
    /\ ret' = "OK"
    /\ UNCHANGED <<ctxVars, reports, lastSeq>>

\* Routing comes before any report.
FindHandler ==
    /\ At("find")
    /\ LET idx == Find(table, tc[Top.req].key) IN
       IF idx < 0
       THEN stack' = ResumeAndEnter([Top EXCEPT !.pc = "refused", !.st = "NO_HANDLER"],
                                    Packet("routing_failure", Top.req))
       ELSE stack' = Resume([Top EXCEPT !.pc = "acceptance", !.idx = idx])
    /\ ret' = "OK"
    /\ UNCHANGED <<ctxVars, history>>

\* A report the acknowledgement flags ask for is emitted before the call goes on.
ReportIfAsked(flag, kind, frame) ==
    stack' = IF flag \in tc[Top.req].ack
             THEN ResumeAndEnter(frame, Packet(kind, Top.req))
             ELSE Resume(frame)

EmitAcceptance ==
    /\ At("acceptance")
    /\ ReportIfAsked("acceptance", "acceptance_success", [Top EXCEPT !.pc = "start"])
    /\ ret' = "OK"
    /\ UNCHANGED <<ctxVars, history>>

EmitStart ==
    /\ At("start")
    /\ ReportIfAsked("start", "start_success", [Top EXCEPT !.pc = "invoke"])
    /\ ret' = "OK"
    /\ UNCHANGED <<ctxVars, history>>

\* The entry called is the one at the index found before the reports were
\* emitted: the table is not searched again.  A deregistered entry still has its
\* handler; in a context wiped meanwhile the call is through NULL and ends the
\* program, so no step follows.
InvokeHandler ==
    /\ At("invoke")
    /\ table[Top.idx].val # NoValue
    /\ stack' = ResumeAndEnter([Top EXCEPT !.pc = "completion"], Frame("handler", Top.req))
    /\ ret' = "OK"
    /\ UNCHANGED <<ctxVars, history>>

\* (slip: the flag tested is the one of the start report)
EmitCompletionOnStartFlag ==
    /\ At("completion")
    /\ ReportIfAsked("start",
                     IF ret = "OK" THEN "completion_success" ELSE "completion_failure",
                     [Top EXCEPT !.pc = "return", !.st = ret])
    /\ ret' = "OK"
    /\ UNCHANGED <<ctxVars, history>>

EmitCompletion ==
    /\ At("completion")
    /\ ReportIfAsked("completion",
                     IF ret = "OK" THEN "completion_success" ELSE "completion_failure",
                     [Top EXCEPT !.pc = "return", !.st = ret])
    /\ ret' = "OK"
    /\ UNCHANGED <<ctxVars, history>>

\* The status of the emissions is ignored.
ReturnFromProcess ==
    /\ At("return") \/ At("refused")
    /\ Return(Top.st)
    /\ UNCHANGED <<ctxVars, history>>

\* pus_handler_invoke: no verification reports.
InvokeDirectly(k) ==
    /\ AppEnters("pus_handler_invoke")
    /\ IF Find(table, k) < 0
       THEN ret' = "NO_HANDLER" /\ UNCHANGED stack
       ELSE stack' = Append(stack, Frame("handler", NoReq)) /\ ret' = "OK"
    /\ UNCHANGED <<ctxVars, history>>

----------------------------------------------------------------------------
(* Building and sending a TM packet: pus_tm_build and the ST[01] reports *)

BuildTm ==
    /\ AppEnters("pus_tm_build")
    /\ stack' = Append(stack, Packet("telemetry", NoReq))
    /\ ret' = "OK"
    /\ UNCHANGED <<ctxVars, history>>

\* An argument is NULL, the payload is too long or the buffer too small: nothing is
\* counted. The reports of pus_service_1 are refused for the same reasons.
RejectTm ==
    /\ AppCalls("pus_tm_build") \/ AppCalls("pus_service_1_build")
    /\ ret' \in {"NULL", "BUFFER_TOO_SMALL"}
    /\ UNCHANGED <<ctxVars, stack, history>>

ReportsOf(r) == IF r = NoReq THEN 0 ELSE Len(reports[r])

\* A handler reports progress on its telecommand (pus_service_1_emit_success
\* and pus_service_1_emit_failure).
EmitProgress(kind) ==
    /\ AppEnters("pus_service_1_emit")
    /\ At("handler")
    /\ ReportsOf(Top.req) < MaxProgress
    /\ stack' = Append(stack, Packet(kind, Top.req))
    /\ ret' = "OK"
    /\ UNCHANGED <<ctxVars, history>>

\* A handler builds a progress report without sending it
\* (pus_service_1_build_success and pus_service_1_build_failure).
BuildProgress(kind) ==
    /\ AppEnters("pus_service_1_build")
    /\ At("handler")
    /\ ReportsOf(Top.req) < MaxProgress
    /\ stack' = Append(stack, [Packet(kind, Top.req) EXCEPT !.send = FALSE])
    /\ ret' = "OK"
    /\ UNCHANGED <<ctxVars, history>>

\* The four calls take any subtype and any telecommand, from wherever the application is.
\* A report of another kind, or about another telecommand than the handler's own, is
\* none that the library owes to a request: it is built, counted and sent.
ReportOther ==
    /\ \/ /\ AppEnters("pus_service_1_emit")
          /\ stack' = Append(stack, Packet("telemetry", NoReq))
       \/ /\ AppEnters("pus_service_1_build")
          /\ stack' = Append(stack, [Packet("telemetry", NoReq) EXCEPT !.send = FALSE])
    /\ ret' = "OK"
    /\ UNCHANGED <<ctxVars, history>>

\* pus_tm_hdr_fill: the counter is copied before the time source is called.
StampHeader ==
    /\ At("stamp")
    /\ LET stamped == [Top EXCEPT !.pc = "count", !.seq = counter] IN
       stack' = IF clock THEN ResumeAndEnter(stamped, Frame("clock", Top.req))
                ELSE Resume(stamped)
    /\ ret' = "OK"
    /\ UNCHANGED <<ctxVars, history>>

\* (slip: only packets handed to the sink are counted)
CountSentPackets ==
    /\ At("count")
    /\ counter' = IF Top.send /\ sink THEN Incr(counter) ELSE counter
    /\ lastSeq' = Top.seq
    /\ reports' = IF Top.req = NoReq THEN reports
                  ELSE [reports EXCEPT ![Top.req] = Append(@, Top.kind)]
    /\ LET finished == [Top EXCEPT !.pc = "sent"] IN
       stack' = IF Top.send /\ sink THEN ResumeAndEnter(finished, Frame("sink", Top.req))
                ELSE Resume(finished)
    /\ ret' = "OK"
    /\ UNCHANGED <<table, sink, clock, tc>>

\* The packet is complete: it is counted, then handed to the sink there is now.
FinishPacket ==
    /\ At("count")
    /\ counter' = Incr(counter)
    /\ lastSeq' = Top.seq
    /\ reports' = IF Top.req = NoReq THEN reports
                  ELSE [reports EXCEPT ![Top.req] = Append(@, Top.kind)]
    /\ LET finished == [Top EXCEPT !.pc = "sent"] IN
       stack' = IF Top.send /\ sink THEN ResumeAndEnter(finished, Frame("sink", Top.req))
                ELSE Resume(finished)
    /\ ret' = "OK"
    /\ UNCHANGED <<table, sink, clock, tc>>

\* (slip: a packet the sink refused is offered again)
RetryRefusedPacket ==
    /\ At("sent")
    /\ IF ret = "OK" THEN Return(ret)
       ELSE stack' = ResumeAndEnter(Top, Frame("sink", Top.req)) /\ ret' = "OK"
    /\ UNCHANGED <<ctxVars, history>>

\* (slip: of the packets the sink refused, those about no request are offered again)
RetryRefusedTelemetry ==
    /\ At("sent")
    /\ IF ret = "OK" \/ Top.req # NoReq THEN Return(ret)
       ELSE stack' = ResumeAndEnter(Top, Frame("sink", Top.req)) /\ ret' = "OK"
    /\ UNCHANGED <<ctxVars, history>>

\* The builder returns what the sink returned, or OK when there was none.
ReturnFromPacket ==
    /\ At("sent")
    /\ Return(ret)
    /\ UNCHANGED <<ctxVars, history>>

----------------------------------------------------------------------------
(* The application's callbacks end *)

ReturnFromCallback(d) ==
    /\ Len(stack) = d
    /\ AppContext \in CallbackPcs
    /\ \E status \in AppStatuses : Return(status)
    /\ UNCHANGED <<ctxVars, history>>

----------------------------------------------------------------------------
LibraryStep ==
    \/ FindHandler
    \/ EmitAcceptance
    \/ EmitStart
    \/ InvokeHandler
    \/ EmitCompletion
    \/ ReturnFromProcess
    \/ StampHeader
    \/ FinishPacket
    \/ ReturnFromPacket

ApplicationStep ==
    \/ InitContext
    \/ \E k \in Keys :
          \/ \E v \in Values : RegisterHandler(k, v)
          \/ DeregisterHandler(k)
          \/ InvokeDirectly(k)
          \/ \E ack \in AckSets : ProcessTc(k, ack)
    \/ SetTmSink
    \/ RejectTc
    \/ BuildTm
    \/ ReportOther
    \/ RejectTm
    \/ \E kind \in {"progress_success", "progress_failure"} :
          EmitProgress(kind) \/ BuildProgress(kind)

Next ==
    \/ LibraryStep
    \/ ApplicationStep
    \/ \E d \in 1 .. Len(stack) : ReturnFromCallback(d)

Spec == Init /\ [][Next]_vars

----------------------------------------------------------------------------
(* Assumptions on the callbacks, for the properties that need them *)

\* The sink and the time source run between routing and dispatch.  They leave
\* the dispatch table's entries in place, themselves and through the handlers
\* they would cause to run.
QuietCallbacks ==
    \A c \in {"sink", "clock"} :
        MayCall[c] \cap {"pus_init", "deregister", "pus_tc_process",
                         "pus_handler_invoke"} = {}

\* The callbacks neither reset the context nor deregister handlers, themselves or
\* through the handlers they cause to run: only the top level does.
HandlersStay ==
    \A c \in {"handler", "sink", "clock"} :
        MayCall[c] \cap {"pus_init", "deregister"} = {}

\* The time source runs between the copy of the counter and its increment.  It
\* neither builds packets nor resets the context.
SilentClock ==
    MayCall["clock"] \subseteq {"pus_handler_register", "deregister", "pus_set_tm_sink"}

----------------------------------------------------------------------------
(* Properties *)

\* While pus_tc_process reports acceptance and start, through a sink and a time
\* source that may re-enter the library, the index it holds stays the one a
\* search would find: the handler it is about to call is the one registered for
\* the telecommand at that moment (pus.c 68-86).
RoutingStaysValid ==
    \A i \in 1 .. Len(stack) :
        stack[i].pc \in {"acceptance", "start", "invoke"} =>
            stack[i].idx = Find(table, tc[stack[i].req].key)

\* The message counter is always one past the number on the last packet, and 0
\* in a context that built none: packets are numbered without gap or repetition,
\* over the wrap of the counter and whatever packets handlers and sinks build
\* meanwhile.
CounterFollowsLastPacket ==
    counter = IF lastSeq = NoSeq THEN 0 ELSE Incr(lastSeq)

\* How far a request got, as the frame of its pus_tc_process shows.
ProcessFrames(r) ==
    {i \in 1 .. Len(stack) : stack[i].pc \in ProcessPcs /\ stack[i].req = r}

PhaseAt(frame) ==
    CASE frame.pc = "refused" -> "refused"
      [] frame.pc = "completion" -> "executing"
      [] frame.pc = "return" -> IF frame.st = "OK" THEN "succeeded" ELSE "failed"
      [] OTHER -> "pending"

Phase(r) ==
    IF tc[r] = NoTc THEN "idle"
    ELSE IF ProcessFrames(r) = {} THEN "closed"
    ELSE PhaseAt(stack[CHOOSE i \in ProcessFrames(r) : TRUE])

\* pus_tc_process keeps ST[01]'s promises for every request, however requests,
\* packets and callbacks nest.
RV == INSTANCE RequestVerification WITH
        phase <- [r \in Requests |-> Phase(r)],
        asked <- [r \in Requests |-> tc[r].ack]

ImplementsVerification == RV!Spec

\* Every telecommand taken for processing is answered: pus_tc_process returns,
\* and by ImplementsVerification it does so only after the last report was issued.
\* Tasks says under which fairness.
EveryRequestCloses ==
    \A r \in Requests : (Phase(r) # "idle") ~> (Phase(r) = "closed")

----------------------------------------------------------------------------
(* What the headers say that the code does not do *)

\* include/pus_context.h and pus_internal.h: pus_tc_process calls a handler for
\* a matched command, and nobody stores the index a search returned.  The index
\* is kept across the emission of two reports; a sink that takes the entry out of
\* the table makes the call go to an entry of no command, or of another one.
HandlerMatchesCommand ==
    At("invoke") => Top.idx \in Holding(table, tc[Top.req].key)

\* include/pus_context.h: a value other than OK returned by a handler triggers
\* a completion failure report.
FailureIsReported ==
    At("return") /\ Top.st # "OK" => RV!Reported(Top.req, "completion_failure")
=============================================================================
