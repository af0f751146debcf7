# EmbeddedPUS: a verification project

TLA+ models of the EmbeddedPUS library (`src/src/*.c`, `src/include/*.h`), the TLC runs
that check them on small instances, and theorems about them that the TLAPS proof system
checks for every value of the constants. Paths below are those of the repository; the
conventional notation TC[s,t] and TM[s,t] is that of its documentation.

## 1. The system

EmbeddedPUS is the on-board side of the ECSS packet utilisation standard: a C library
without threads, without allocation and without persistent state. The application owns
every structure and passes it in. It receives telecommands (TC) from the ground and hands
them to the library, which routes them to handlers and reports to the ground about their
progress by telemetry (TM), through a *sink* that the application provides.

What makes a library of this size hard is **re-entry**. It calls the application back (a TC
handler, the TM sink, the time source, a housekeeping provider, a parameter's getter or
setter) from the middle of its own functions, and the application may call the library
again from there. Everything a function read before such a call may have changed when the
call returns. The unit tests call every function alone, with callbacks that only record.
The second difficulty is **arithmetic on lengths** in `uint16_t`. The third is
**concurrency between tasks**: the library has no lock, and a context that two tasks share
needs a mutex around every call (`pus_context.h:72-74`). There are no timeouts, no
persistence and no lost messages inside the library.

### Components

| component | state it keeps | operations | depends on | what makes it correct |
|---|---|---|---|---|
| Dispatch table (`pus_handler.c`) | `handler_table`: entries with key, handler, `is_used` | register, deregister (NULL handler), find, invoke | – | a bounded map: at most one entry per key; replacing works in a full table; an entry keeps its slot |
| Context (`pus_context.c`, `pus_set_tm_sink`) | table, `tm_counter`, sink, time source, default ids | init, init with configuration, change of the sink | – | wiping the context restarts the numbering |
| TC processing (`pus_tc_process`) | locals only: the decoded TC, the index of the handler, the handler's status | decode, route, report acceptance and start, dispatch, report completion | table, codec, ST[01], handlers | reports in the order of ST[01] and about the right request; the handler called is the one registered; every TC is answered |
| TM building (`pus_tm_build`, `pus_internal.h`) | `tm_counter` | check the lengths, stamp a header, copy, count, send | codec, time source, sink | numbers without gap or repetition; lengths in range; no refusal without need |
| ST[01] request verification (`pus_service_1.c`) | `tm_counter` | build and emit success and failure reports | as TM building | as TC processing |
| ST[03] housekeeping (`pus_service_3.c`) | the structures: id, kind, provider | init, register (two kinds), emit (two kinds) | TM building, providers | a report is collected by the provider of its id and kind; lengths |
| ST[05] events (`pus_service_5.c`) | – | emit | TM building | lengths |
| ST[17] test (`pus_service_17.c`) | – | two emissions, two handlers, registration of these | TM building, table | the status of a request tells whether its answer left; what a registration returned is true |
| ST[20] parameters (`pus_service_20.c`) | the parameters: id, value length, getter, setter | init, register, report, handlers of TC[20,1] and TC[20,3], registration of these | TM building, table, getters, setters | values are set as commanded, up to the first failure; a report is what was read; loops stay in their buffers |
| Codec (`pus_codec.c`) | – | encode and decode both secondary headers | – | round trips, in either direction |

Left out: the example program (no logic of its own), the unit tests (read for what they
expect), the Makefile and the coverage script.

Components interact by direct calls and share one context. A typical stack, outermost
first: application, `pus_tc_process`, a handler, `pus_service_20_emit_report`, a getter,
`pus_tm_build`, the sink, `pus_tm_build`.

## 2. The modules

| module | models | proofs |
|---|---|---|
| `SlotTable` | the table idiom of `pus_handler.c`, `pus_service_3.c`, `pus_service_20.c`: search, insertion, removal | `SlotTableProofs` (lemmas) |
| `HandlerTable` | the public calls of `pus_handler.c` | `HandlerTableProofs` |
| `Directory` | abstract: the bounded map the registration API promises | |
| `PusCore` | one context and the C stack: `pus.c`, `pus_context.c`, `pus_internal.h`, `pus_service_1.c` over the dispatch table | `PusCoreProofs` |
| `RequestVerification` | abstract: what ST[01] promises about each request | |
| `TmReports` | lengths and origins of packets: `pus_tm_build`, ST[03], ST[05], ST[17] | `TmReportsProofs` |
| `Service20` | ST[20], item by item | `Service20Proofs` |
| `Codec` | the four conversions of `pus_codec.c` | `CodecProofs` |
| `Services` | composition: the handlers and the registration of ST[17] and ST[20] over `PusCore` | `ServicesProofs` |
| `Tasks` | composition: two tasks in one context, under a mutex | `TasksProofs` |
| `MCPusCore`, `MCTmReports`, `MCService20`, `MCCodec`, `MCServices`, `MCTasks` | definitions of the bounded inputs for TLC | |

`PusCore`, `TmReports` and `Service20` extend `SlotTable`: each has its own table of the same
shape. `HandlerTable` instantiates `Directory`, and `PusCore` instantiates
`RequestVerification`, through refinement mappings. `Services` extends `PusCore`; `Tasks`
instantiates it three times, once for each task's stack and once for what the context sees.

### SlotTable and HandlerTable

A key stands for what the search compares (service and subtype in the dispatch table, id
and kind in ST[03], the id in ST[20]), a value for what an entry carries. `Find` is the
ascending scan, `Store` the insertion that scans the whole table for the key before it takes
the first free slot, `Clear` the deregistration, which resets the flag only: key and handler
stay behind in the slot, as in the code. In `HandlerTable` every call is one action,
and `reply` is what the call hands back. The two outcomes of a call are two actions.

`Directory` is what a user of the API sees: a partial function of bounded size. The mapping
reads `map[k]` with the search. It would break if a hole in front of an entry were filled
by a second registration of its key, because a later deregistration would bring the old
entry back.

### PusCore

The state is the context (`table`, `counter`, whether there is a `sink` and a `clock`), the
`stack`, and `ret`, the status of the call that has just returned. A frame is an active
`pus_tc_process`, a TM packet being built or a running callback, with the locals that
outlive a call: the index, the handler's status, the number copied into the header. One
action is the code between two calls that may re-enter:

| action | code |
|---|---|
| `ProcessTc`, `RejectTc` | entry of `pus_tc_process` and the outcome of `pus_tc_decode` |
| `FindHandler` | the search; on failure the emission of TM[1,10] (`pus.c:66-74`) |
| `EmitAcceptance`, `EmitStart` | TM[1,1] and TM[1,3] if the flags ask for them (`pus.c:76-84`) |
| `InvokeHandler` | the call through the index found before (`pus.c:86`) |
| `EmitCompletion`, `ReturnFromProcess` | TM[1,7] or TM[1,8], and the return (`pus.c:88-103`) |
| `StampHeader` | `pus_tm_hdr_fill`: the counter is copied, then the time source runs |
| `FinishPacket` | the counter is incremented, then the sink there is *now* runs |
| `ReturnFromPacket` | the sink's status, or OK without a sink |
| `InitContext`, `RegisterHandler`, `DeregisterHandler`, `SetTmSink`, `InvokeDirectly`, `BuildTm` | the public calls, by the application or by a callback |
| `EmitProgress`, `BuildProgress`, `ReportOther` | the calls of `pus_service_1.c`: a handler's progress report on its telecommand, and any other report, from anywhere |
| `ReturnFromCallback` | a handler, sink or time source returns any status of `AppStatuses` |

The constant `MayCall` says which calls each piece of application code makes: at top level,
in handlers, in the sink, in the time source. The proofs hold for every choice of it;
each run uses the one that its question needs. A telecommand is its key and its
acknowledgement flags, a packet its kind, the request it is about and its number. `tc`,
`reports` and `lastSeq` are history variables that no guard of the code's own steps reads,
except for the key and the flags of a telecommand, which are locals of its frame.

If the context is wiped between the search and the dispatch, the entry called is NULL and
the program ends: the model has no step from there.

`pus_init` and `pus_init_with_config` are one action: without a configuration nothing but
the sink and the time source differs, and a NULL configuration is refused after the wipe.

`RequestVerification` has one state machine per request. The mapping reads the phase
of a request off the frame of its `pus_tc_process`; the reports are those
issued. `Refuse` happens before anything was reported, the reports before execution come in
their order and only if asked for, `Close` needs the completion report that was asked for and
that agrees with the handler's outcome, and nothing is reported twice. The abstract machine
says nothing of nesting: that two requests, one processed from the other's handler, do not
disturb each other is part of the refinement.

### TmReports

Payloads are reduced to a length and an origin; lengths are `uint16_t`. `TmBuild`, `EmitEvent`
and `EmitTest` are whole calls, since nothing of this module's state changes after the
packet is complete. `packet` is what came of the last emission: the packet, or none when the
emission was refused. An ST[03] emission is split at the provider call (`BeginReport`, then
`FinishReport` or `AbandonReport`): the provider may register structures and emit reports
itself, so the emissions under way form a stack. `packet`, `asked` and `registered` are
history.

### Service20

`ReceiveSet` and `ReceiveReport` are the entries of the two handlers. `SetItem` is one round of the
loop of TC[20,3]. A round of a report is split where the application runs in the middle of it:
`CallGetter` makes the checks, writes the id at the offset and keeps the value length in `len`,
`GetterFills` writes the value behind it and advances the offset by `len`. The payload is an
array of `MaxTmPayload` bytes, unwritten at first, that is written at offsets only. `RefuseItem`,
`RefuseRead`, `SetterFails` and `GetterFails` are the early returns, in the order of the code.
Between two rounds, and while a getter runs, `RegisterParam`, `InitService` and `Update` may
happen: they stand for what getters, setters and the commands nested in them do. A getter whose
parameter was registered with another length meanwhile fills as many bytes as it was asked for.
Bytes are numbers below `Base`, and offsets and lengths are modulo `Wrap`, so that a small
instance reaches the wrap. The ground system is external: it encodes a list of
pairs with the value lengths it believes in, and the link delivers the telecommand whole,
with a byte too many, or cut anywhere. `memory`, the values of the parameters, belongs to the
application. Where a wrapped sum passes a check, the code's behaviour is undefined (the
setter or the getter is given more bytes than there are), and the model stops in the state
`op = "overrun"`.

### Codec

The four conversions with their true widths (a `uint32_t` is the pair of its halves, because
TLC has integers of 32 bits, signed), over one buffer that encoders and the link overwrite and
decoders read. The decoder of a TC fills its structure before it refuses a version.

### Services

`PusCore` lets a handler do anything. `Services` puts the library's own handlers into the
dispatch table, named after the commands they serve, next to handlers of the application
that stay arbitrary. Every step is a step of `PusCore` (`ServicesUseTheCore`, proved), so the
properties of the core hold here too.

| action | code |
|---|---|
| `RegisterFirst`, `RegisterSecond` | the two calls of `pus_handler_register` in `register_handlers` (`pus_service_17.c:94`, `pus_service_20.c:232`); nothing comes between them, because they call nobody back |
| `RegisterOwn`, `Deregister`, `Initialise`, `SetSink`, `BuildOwn` | what the application does from top level, from its handlers, and from getters and setters |
| `Receive`, `Dispatch` | a telecommand is received into an array and given to `pus_tc_process`; its handler is entered and reads what it reads first |
| `RefuseShort` | the length checks at the top of three handlers |
| `BuildAnswer`, `SendPacket`, `SinkReturns`, `ReturnAnswered` | `pus_service_17_emit_*` and the end of `pus_service_20_emit_report`; the handler returns the status of the answer it built |
| `ReadOn` | `handle_tc_20_3` reads on in its payload, behind a setter |
| `ParametersFail`, `ParametersSet` | the ends of the loops of ST[20], whose rounds are in `Service20` |
| `LibraryGoesOn` | the rest of the core, which knows nothing of services |

A payload is reduced to *whose* it is: `given` says into which buffer each request was
received, whether its payload fails the handler's first check, and (a history) which requests
were being processed then; `calls` runs beside the handler frames of the stack and remembers
whose payloads a handler has read. The decoded telecommand borrows its payload from the
receiver's buffer (`pus_types.h:67`), so what a handler reads is what that buffer holds *by
then* (`InBuffer`). `pus.c:40` decodes from whatever pointer it is given, so the application
may receive any request into any buffer, one in use included. A request received over another
one that is in process then is what the other's handler reads from there on (and TC[20,1],
which compares its length with a count in the buffer, may find it short or long enough:
`SeemsShort`). `PayloadsAreReadWhileLent` says that this is the only way to read a foreign
payload. The mutant `InStaticTc`, a `pus_tc_process` that decodes into a static structure
instead of a local one, breaks it: a command served from the sink of the acceptance report
would be handed to the outer handler. `answers` and `registered` are history.
`pus_handler_invoke` is left to `PusCore`: here, handlers run for telecommands only.

### Tasks

One context, two stacks: a task that processes telecommands and a task that reports and
reconfigures. Each runs `PusCore` as it is, with its own `stack` and `ret`. The mutex is the
application's and is not in the library; `pus_context.h:72-74` and the limitations in the
repository's README (line 171) ask for it. It is taken when a task's stack becomes
non-empty and given back when it is empty again, so it is held while callbacks run, and
callbacks call the library without taking it again. `turn`, the task that ran last, selects the
stack that the context sees; with it, the two tasks together are *one* application of the
core (`ImplementsCore`). `MayEnter` and `Holder` are that discipline and no code of the library; two
mutants drop the mutex in one task and during callbacks: numbering, routing and the refinement
then fail. What the library owes the mutex is that its calls come back. `MutexIsGivenBack` says
so of every call, telemetry and configuration included, and therefore implies
`EveryRequestCloses`, which says it of telecommands in the words of ST[01]; their mutants differ
(a sink retried for ever for any packet, or only for packets about no request).

## 3. The runs

The passing runs are exhaustive and take a few seconds to about three minutes each, with two
workers.

| run | what it shows | bounds, and why they are enough |
|---|---|---|
| `HandlerTable` | `TypeOK`, `UniqueKeys`, `EntriesStayPut`, refinement of `Directory` | 4 keys for 3 slots, 2 handlers: every pattern of holes, a full table, a replacement behind a hole. A scan distinguishes only the slots before, at and behind one slot |
| `CoreVerification` | `TypeOK`, refinement of `RequestVerification` | 2 telecommands, of which one may run inside the other, 3 sets of flags (none, the outer two, all), sinks that build telemetry, progress reports and other ST[01] reports from handlers, failing handlers and sinks; calls nested from at most 3 frames deep |
| `CoreNesting` | `RoutingStaysValid`, `CounterFollowsLastPacket` | 2 keys for 2 slots and a counter of 2 values, so that the table has holes and the counter wraps; the table changes at top level, in handlers, in the sink and in the time source; packets, sent and unsent, from all places but the time source; nested telecommands; initialisation at top level and in handlers; every telecommand asks for both reports before the dispatch, and calls nest from up to 5 frames deep, so that the sink of a nested telecommand's report builds packets and registers too |
| `Services` | `ServicesTypeOK`, `StatusTellsTheAnswer`, `PayloadsAreReadWhileLent`, `RegistrationStatusIsTrue` | 5 commands for 2 slots, so each `register_handlers` meets a full table at its first or second call, and two commands of one service or of both can be routed; 2 telecommands, the second received at top level, in a sink, in a getter or in an application's handler while the first is served, into the same one of 2 buffers (which are alike, so under symmetry) or the other, 6 frames deep (room for a whole request inside the sink of another one's answer); a sink that fails. States that differ only in the history of requests that were over before any request now in process came are one state (`WithoutThePast`): `InBuffer`, the stack and the properties look at no such request |
| `Tasks` | `TasksShareTheNumbering`, `TasksKeepTheRouting`, `ImplementsCore`, `EveryRequestCloses`, `MutexIsGivenBack` | 1 slot that the housekeeping task fills and empties, 2 telecommands, one possibly inside the other, a counter of 2 values; sinks that build packets. One call of the other task between two steps is enough to break what the mutex protects |
| `Parameters` | `TypeOK`, `SetsFollowTheCommand`, `StatusTellsWhatWasSet`, `ReportIsReplayable`, `OverrunNeedsHugeLength` | 2 parameters, values of 1, 2 and 14 bytes with offsets modulo 18, so sums wrap in both loops; read-only ones; commands of up to 2 pairs cut at every byte; re-registration with other lengths between any two items and while a getter runs |
| `TmReports` | `TypeOK`, `PacketsFitTheirBuffers`, `RefusedOnlyWhenTooLong`, `CollectedByItsProvider` | *every* payload length and capacity of a 6-valued integer with a header of 1 and a limit of 2, so every boundary and every wrap; 3 structures, two of one id in both kinds, for 2 entries, so that the table is full with and without a structure that asks for replacement; 2 providers, which are alike (symmetry); emissions nested two deep |
| `Codec` | `TypeOK`, both round trips, `DecodedStandsForItsBytes` | fields at the boundaries of each byte and above the four-bit fields; buffers shared by TC, TM and noise; capacities and lengths on either side of 10 and 12 |
| `CoreStaleIndex`, `CoreFailureUnreported`, `TmDocumentedPayload`, `ParameterGetterRoom` | violations: section 6 | the smallest instance in which the statement fails |

Symmetry and the view are used with invariants only, in `Services` and (symmetry) with the
properties of `TmReports`.

`MaxRequests`, `MaxReentry` (how deep a call may be made from), `MaxProgress`, `MaxDepth`
(ST[03] emissions under way), `Commands`, `Requests` and `Data` bound the model, not the code;
the proofs do not fix them. `MaxEntries`, `MaxCounter`, `Wrap`, `Base`, `MaxPayload`,
`MaxTmPayload`, `MaxTcPayload` and `HeaderLen` stand for limits of the code and are smaller in
the runs, so that the limit is reached.

Deadlock is checked in every passing run except `Parameters`, where the model stops at
undefined behaviour on purpose.

### Fairness

Only `Tasks` uses it, as `TaskFairness`. `WF_vars(LibraryGoesOn)`: in the task that holds the
mutex the library's own code is never blocked and always goes on. `SF_vars(CallbackReturns(d))`
for each depth `d` of the stack: a callback that is again and again able to return does
return. It must be strong, because the callback cannot return while a library call it made
is active. This is an assumption about the application (its callbacks end after finitely
many calls), and without it no function that calls back ends. Nothing is assumed of the
calls the application might make, and no task is assumed to win the mutex: `MutexIsGivenBack` is
what a fair mutex would need. The bound `MaxReentry` hides one thing: a sink that builds a
packet on every call recurses for ever, in the code as well.

### Slips

Some modules hold definitions marked *slip*. They are variants of the next definition with
a plausible mistake in them (a dropped mask, a swapped order, a check of the wrong flag, a sum
checked after it wrapped) and are used by nothing. Put in the place of the original, each
makes the property that guards that spot fail in its run, which shows that the property
can see it.

## 4. The proofs

All proofs are checked by TLAPS to the last leaf, for any value of the constants that
satisfies the `ASSUME`s of the modules. These only say what a type or the preprocessor says (a
table has a positive number of slots, the NULL handler is not a handler, the longest packet
fits in a `uint16_t`); TLC evaluates them in every run.

| theorem | says | argument |
|---|---|---|
| `HandlerTableProofs!TypeCorrect` | `[]TypeOK` | part of `IInv` |
| `HandlerTableProofs!KeysAreUnique` | `[]UniqueKeys` | `IInv`: the type, no duplicates, and used slots hold real keys and handlers |
| `HandlerTableProofs!EntriesKeepTheirSlots` | `EntriesStayPut` | one case per call |
| `HandlerTableProofs!TableImplementsDirectory` | `Spec => ImplementsDirectory` | every step is mapped, under `IInv` |
| `PusCoreProofs!TypeCorrect` | `[]TypeOK` at any depth of the stack, for any application | one lemma per shape of a step: a frame is resumed, entered above, or left |
| `PusCoreProofs!PacketsAreNumbered` | `SilentClock => (Spec => []CounterFollowsLastPacket)` | `CountInv` |
| `PusCoreProofs!RoutingIsStable` | `QuietCallbacks => (Spec => []RoutingStaysValid)` | `RouteInv` |
| `PusCoreProofs!RoutingSurvivesReentry` | `HandlersStay => (Spec => []RoutingStaysValid)` | `RoutedInv` under `VerifInv` |
| `PusCoreProofs!RequestsAreVerified` | `Spec => ImplementsVerification`, for any application | `VerifInv`, every step is mapped |
| `ServicesProofs!ServicesUseTheCore` | `ServicesSpec => Spec` of `PusCore`: the services are an application of the core | one case per action |
| `ServicesProofs!RegistrationIsTrue` | `[]RegistrationStatusIsTrue` for any table, any further commands, any application | `RegistrationInv` |
| `ServicesProofs!ServicesTypesCorrect` | `[]ServicesTypeOK`, for any application | `LinkInv` under `VerifInv` |
| `ServicesProofs!PayloadsAreLent` | `[]PayloadsAreReadWhileLent`, for any application and any use it makes of its buffers | `LinkInv` under `VerifInv` |
| `ServicesProofs!AnswersAreTold` | `QuietCallbacks \/ HandlersStay => (ServicesSpec => []StatusTellsTheAnswer)` | `AnswerInv`, with all the others |
| `TasksProofs!MutexMakesOneApplication` | `Spec => ImplementsCore` | `LockInv`, one lemma per task |
| `TasksProofs!NumberingIsShared` | `Core!SilentClock => (Spec => []TasksShareTheNumbering)` | the refinement and `PacketsAreNumbered` |
| `TasksProofs!RoutingIsKept` | `Core!QuietCallbacks \/ Core!HandlersStay => (Spec => []TasksKeepTheRouting)` | the refinement, both theorems on routing, `LockInv` |
| `TasksProofs!BothTasksVerifyRequests` | ST[01]'s promises to the requests of either task | the refinement and `RequestsAreVerified` |
| `Service20Proofs!LoopsStayInsideTheirBuffers` | `[]OverrunNeedsHugeLength` | `OffsetInv` |
| `Service20Proofs!CommandsAreFollowed`, `StatusIsTrue` | `[]SetsFollowTheCommand`, `[]StatusTellsWhatWasSet` | `CommandInv` |
| `Service20Proofs!ReportsAreReplayable` | `[]ReportIsReplayable` | `ReportInv` |
| `Service20Proofs!TypeCorrect` | `[]TypeOK` | `TypeInv` with `OffsetInv` |
| `TmReportsProofs!TypeCorrect` | `[]TypeOK` | `LengthInv`, `HistoryType` |
| `TmReportsProofs!PacketsFit`, `RefusalsAreJustified`, `ReportsAreCollectedRight` | the three properties of `TmReports` | `TableInv`, `LengthInv` |
| `CodecProofs!TcIsReadBack`, `TmIsReadBack`, `DecodingLosesNothing`, `TypeCorrect` | the four properties of `Codec` | `CodecInv` |

Why the strengthenings are needed:

- **HandlerTable.** `UniqueKeys` alone is inductive only with the fact that a used slot holds
  a key of `Keys`; the refinement also needs that its value is not NULL, and that the number of
  keys the map holds is the number of used slots. The last is a lemma of `SlotTableProofs` (the
  used slots and the held keys are in bijection), because `Directory` says "full" with a
  cardinality and the code with a scan that found no free slot.
- **`CountInv`.** A packet copies the counter before it calls the time source and increments it
  afterwards. The invariant says that above such a packet (pc `count`) there is nothing but
  the time source, and that its number is still the counter. It is false if the time
  source builds packets; that is the assumption `SilentClock`, which the code states nowhere
  and which only an unusual time source would break.
- **`RouteInv`.** Above a `pus_tc_process` that has searched and not yet dispatched there are
  only packets, the sink and the time source, and the entry at its index is still used and
  still under the telecommand's key. With uniqueness this makes the index the result of a
  search. `QuietCallbacks` is the assumption that these callbacks do not take entries out of
  the table; `CoreStaleIndex` shows that it is necessary. Handlers and the top level may do
  anything.
- **`RoutedInv`.** `RouteInv` is false as soon as a sink processes a telecommand: a handler then
  runs above the search. `HandlersStay` allows that (and a time source that does the same), and
  forbids instead that any callback resets the context or deregisters, handlers included. The
  invariant then only says that the entry at the index is used and under the telecommand's key;
  which frames lie above no longer matters, because the only steps that take an entry out
  happen with an empty stack. The telecommand's key stays the same although requests are
  received above, which is `ReceiveInv` of `VerifInv`. Neither hypothesis implies the other:
  `CoreNesting` runs under the first, `Services` under the second (`MCServices` assumes it, and
  TLC evaluates it).
- **`VerifInv`.** `RequestVerification` tells how far each request is and which reports it got;
  in the code both are implied by where `pus_tc_process` stands and what runs above it. The
  invariant has three parts. `ReceiveInv`: requests are numbered as they come, and one that
  was not received has no reports. `NestInv`: a request has one frame of `pus_tc_process` at
  most, and a packet about it lies right above that frame, and is then the report due there,
  or above its handler, and is then a progress report. `IssueInv`: the reports issued are the
  ones the point of the frame calls for, with or without the last one, depending on whether
  the packet above is complete. Then a step of the frame is a change of phase or is not seen
  (`ProcessStepVerifies`), and the end of a packet is the report that the phase allows
  (`FinishPacketVerifies`). No assumption on the application is needed.
- **`OffsetInv`.** The offset stays within the telecommand (or the report's payload), so that a
  sum that passes a check modulo `Wrap` but not without it must have wrapped, and only the
  value length can have done that.
- **`CommandInv`.** A set command is a list of items of unequal lengths behind one another, and
  the loop finds its way by reading. The invariant says that between two rounds the offset is
  a boundary of the layout that ground used, that the items before it are those set, and
  that the payload is a prefix of the encoded command - as long as every length used so far
  was the one ground believed in (`agreed`). A round that finds its value complete then reads
  exactly the next pair (`RoundReads`); a round that does not proves the command was cut.
- **`ReportInv`.** The buffer up to the offset is the encoding of the pairs read so far, with
  the count of ids in front, and while a getter runs also the two bytes of its id; that `len`
  more bytes fit behind them is in `OffsetInv`. A write at the offset leaves what lies below it
  (`WrittenBehind`), and one item is complete when the getter has filled as many bytes as the
  offset then advances by (`ReportGrows`), whatever the table says by then.
- **Layouts.** The encoded form is a fold, `FlattenSeq`, over pairs of any number. The prover
  cannot instantiate an induction rule, so the lemmas argue from the least counterexample
  (`SetInduction`) and from functions that solve the recursion (`Recursion`, `IsLayout`): such a
  layout gives every item its first byte, exists for every sequence, and any two agree.
- **`RegistrationInv`.** Between its two calls a registration has its first command routed to
  it, and nobody deregisters meanwhile. Uniqueness carries it over the registrations of others.
- **`LinkInv`.** `Services` keeps its own list of the handlers that run, `calls`, beside the
  stack of the core, and notes for each telecommand where it was received and which ones were
  in process then. The invariant ties both to the stack. `CallsInv`: the calls are the handler
  frames, in their order. `LentInv`: whatever was received after a request that is in process
  was received while it was. So a buffer holds the request itself or a later one, and that one
  is an overwriter (`BufferHolds`; that a set of requests has a latest one is `LargestIs`), and
  `ReadInv` carries over what was read. `NestInv` of `VerifInv` is what puts a handler right
  above its `pus_tc_process`, so that a request whose handler runs is in process; `SecondInv`
  and `SlotInv` are what the two calls of a registration and the dispatch need to keep it. No
  assumption on the application.
- **`PacketInv`.** A sink runs right above a complete packet only, the time source right above one
  being stamped only, and nothing else runs above a packet. A handler that waits for its answer
  therefore stays the last handler below that packet, and it is the answer's own status that
  the packet returns.
- **`AnswerInv`.** The status travels from the sink to the packet, the handler and
  `pus_tc_process` through the one variable `ret`, while commands answered in the sink or in a
  getter use `ret` too. `CallInv` says of each handler that has begun its answer that either it
  waits and has no answer yet (`Waits`: its packet is above it, incomplete or with frames
  above), or it is done and `ret` tells its answer (`Done`: it is the top, or its packet is, with
  the sink's status just returned). `CompletionInv` says the same of `pus_tc_process` just after
  the handler, and `FrameInv` of the status it keeps; `FreshInv` and the rest of `FrameInv` say
  that a request is not answered before its handler runs. Only these handlers answer
  (`ValuesInv`: the commands of a service are registered with its handlers and with nothing
  else), and the handler called must be the one found: that is where the routing, and with it
  `QuietCallbacks \/ HandlersStay`, comes in. Without it a command of ST[17] could be dispatched to
  a handler of the application, which answers nothing and says OK.
- **`LockInv`.** A stack that is not empty belongs to the task that holds the mutex, and that
  task ran last. So whoever enters finds both stacks empty, and a step of a task is a step
  of the core on the stack that `turn` selects. The theorems about the core are then cited
  through the instance, with the assumptions on its constants derived for the union of both
  tasks' calls.
- **`TableInv`.** The table maps each structure to the provider registered last, which
  needs uniqueness and used slots that hold real keys.
- **`CodecInv`.** The buffer holds what the encoder left as long as `holds` says so. The
  arithmetic is in lemmas on one `uint16_t` and on one pair of four-bit fields.

Model-checked only: the liveness properties `EveryRequestCloses` and `MutexIsGivenBack`, because
the prover has no rule for fairness and none for `ENABLED`. Every invariant, action property and
refinement that a passing run checks has a theorem.

The runs that end in a violation have no proof, of course.

## 5. Hazards

`PROJECT.json` lists them at their lines with the properties that would catch each. The main
ones:

- the index that `pus_tc_process` keeps across two emissions: `RoutingStaysValid`,
  `HandlerMatchesCommand`;
- the counter that is read, then a callback runs, then it is incremented:
  `CounterFollowsLastPacket`;
- telecommands processed inside handlers and sinks: `ImplementsVerification`,
  `EveryRequestCloses`;
- a sink that refuses an answer, or a command served from the sink of another's answer:
  `StatusTellsTheAnswer`;
- a payload that is only borrowed, and telecommands received before it was read:
  `PayloadsAreReadWhileLent`;
- one registration of two that fails: `RegistrationStatusIsTrue`;
- two tasks, each in the middle of a call: `TasksShareTheNumbering`, `TasksKeepTheRouting`,
  `ImplementsCore`;
- a call that must come back, through everything it calls: `EveryRequestCloses`,
  `MutexIsGivenBack`;
- holes in a table: `UniqueKeys`, `EntriesStayPut`, `ImplementsDirectory`;
- a table that changes under a loop over a telecommand: `SetsFollowTheCommand`,
  `StatusTellsWhatWasSet`;
- a getter that changes the table in the middle of an item: `ReportIsReplayable`;
- structures of different kinds that share an id: `CollectedByItsProvider`;
- sums of lengths in `uint16_t`: `OverrunNeedsHugeLength`, `PacketsFitTheirBuffers`,
  `RefusedOnlyWhenTooLong`.

Every hazard listed has a property that some run checks, but one: `pus_init_with_config` wipes the
context before it refuses a NULL configuration (`pus_context.c:23`). The model has that branch,
so every property is checked over it; the loss itself contradicts no document.

## 6. Where code and documentation differ

Each has a run that TLC ends with a counterexample.

1. **A stored index** (`CoreStaleIndex`, `pus.c:86`). `pus_internal.h:33` says that callers must
   not store the index; `pus_tc_process` keeps it while the sink runs. A sink that deregisters
   the handler, or re-uses its slot, makes the call go to an entry that is not registered for
   the telecommand.
2. **A failure without a report** (`CoreFailureUnreported`, `pus.c:88`). `pus_context.h:19` says
   that a handler's failure triggers a completion failure report; the code sends it only if
   the telecommand has the completion flag.
3. **The largest payload** (`TmDocumentedPayload`, `pus.c:124`). ST[03] and ST[05] say "up to
   `PUS_MAX_TM_PAYLOAD_LEN`" of data behind the id and size their buffers for it; `pus_tm_build`
   counts the id in, so the last two lengths are refused.
4. **Room for the getter** (`ParameterGetterRoom`, `pus_service_20.c:111`). The sum is cut to
   `uint16_t` before it is compared: for a `value_len` near 65535 the check passes although the
   buffer has no room. `LoopsStayInsideTheirBuffers` proves that this is the only way.

Read but not run: `pus.h:56` lists three statuses for `pus_tm_build`, but the sink's status is
returned, whatever it is, after the packet was counted (`pus.c:146`, `ReturnFromPacket`); the
lists of `pus_service_17.h:16`, `pus_service_17.h:28` and `pus_service_20.h:93` leave it out
too, and `StatusTellsTheAnswer` shows that callers depend on it; and nothing enforces the
maximum TC payload that `pus_config.h:20` defines.

## 7. What is not modelled

- NULL arguments, except where one has an effect (`pus_init_with_config`): they return before
  anything changes.
- The bytes of payloads, failure codes, default ids and `user_data`: no decision of the
  library depends on them. ST[20] is the exception, and has its bytes.
- Which telecommand an ST[01] report of the application is about, unless it is progress that a
  handler reports on its own (`ReportOther` builds, counts and sends it). Acceptance, start and
  completion are the library's to report; an application that reports them itself breaks
  ST[01] by its own hand.
- `pus_handler_invoke` with a telecommand that is being processed: `PusCore` has the call, with
  arbitrary handlers, but the handler it enters reports no progress on a request. `Services` has no
  such call.
- Two tasks without a mutex, or with one given back in callbacks: undefined, by
  `pus_context.h:72`. The mutants of `Tasks` show what happens.
- The example program: it registers printing callbacks, calls each service once in a fixed
  order and ends. It is also the only place where a whole stack of services is initialised,
  and its order is one of those `Services` allows.

## 8. Plan

Done: the dispatch table and its refinement; the core with ST[01] and its refinement, both
proved; the length checks and ST[03]; ST[20], with proofs of what its loops read and write; the
codec; the services over the core, with the proofs that their answers are told and whose payloads
they read; two tasks under a mutex, proved to be one application.
Next, in this order:

1. `Services` and `Service20` in one model: the loops of ST[20] in the middle of commands that
   nest through getters and setters, so that two set commands interleave item by item.
