-------------------------------- MODULE Tasks --------------------------------
(***************************************************************************)
(* Two tasks that share one context under a mutex, as pus_context.h (line  *)
(* 72) and the Limitations in README.md ask for: one processes             *)
(* telecommands, one sends housekeeping and changes the dispatch table.    *)
(* Each task runs PusCore on a stack of its own; the context is one.  The  *)
(* mutex is the application's: taken around each call a task makes, it is  *)
(* held while the callbacks of that call run, which call the library       *)
(* without taking it again.                                                *)
(***************************************************************************)
EXTENDS Integers, Sequences

CONSTANTS
    MaxEntries, Keys, Values, NoKey, NoValue,
    MaxRequests, AckSets, AppStatuses, MaxCounter, MaxReentry, MaxProgress,
    TcMayCall,    \* the calls of the telecommand task and its callbacks
    HkMayCall     \* the calls of the housekeeping task and its callbacks

VARIABLES
    table, counter, sink, clock, tc, reports, lastSeq,
    tcStack, tcRet,   \* the stack of the telecommand task
    hkStack, hkRet,   \* the stack of the housekeeping task
    owner,            \* the task that holds the mutex
    turn              \* history: the task that ran last

shared == <<table, counter, sink, clock, tc, reports, lastSeq>>
tcVars == <<tcStack, tcRet>>
hkVars == <<hkStack, hkRet>>
vars == <<shared, tcVars, hkVars, owner, turn>>

Nobody == "none"
TaskNames == {"telecommand", "housekeeping"}

Tc == INSTANCE PusCore WITH stack <- tcStack, ret <- tcRet, MayCall <- TcMayCall
Hk == INSTANCE PusCore WITH stack <- hkStack, ret <- hkRet, MayCall <- HkMayCall

\* What PusCore assumes of its constants, for both tasks.
ASSUME ConstantsAssumption ==
    /\ MaxEntries \in Nat \ {0} /\ NoKey \notin Keys /\ NoValue \notin Values
    /\ AckSets \subseteq SUBSET Tc!Flags
    /\ AppStatuses \subseteq Tc!Statuses
    /\ MaxCounter \in Nat \ {0}
    /\ MaxRequests \in Nat /\ MaxReentry \in Nat /\ MaxProgress \in Nat
ASSUME MayCallAssumption ==
    /\ TcMayCall \in [Tc!AppContexts -> SUBSET Tc!Calls]
    /\ HkMayCall \in [Tc!AppContexts -> SUBSET Tc!Calls]

----------------------------------------------------------------------------
(* The mutex *)

\* (slips: the housekeeping task does not take the mutex; the mutex is given
\* back while a callback runs)
MayEnterUnlessTelecommand(task) == task = "housekeeping" \/ owner \in {Nobody, task}
HolderOutsideCallbacks(task, stack) ==
    IF stack = <<>> \/ stack[Len(stack)].pc \in {"sink", "clock"} THEN Nobody ELSE task

MayEnter(task) == owner \in {Nobody, task}

\* Who holds it after a step of task that leaves it with this stack.
Holder(task, stack) == IF stack = <<>> THEN Nobody ELSE task

Runs(task, stack) ==
    /\ owner' = Holder(task, stack)
    /\ turn' = task

----------------------------------------------------------------------------
Init ==
    /\ Tc!Init
    /\ hkStack = <<>>
    /\ hkRet = "OK"
    /\ owner = Nobody
    /\ turn = "telecommand"

\* The telecommand task makes a call, or the call it is in goes on.
TelecommandStep ==
    /\ MayEnter("telecommand")
    /\ Tc!Next
    /\ Runs("telecommand", tcStack')
    /\ UNCHANGED hkVars

HousekeepingStep ==
    /\ MayEnter("housekeeping")
    /\ Hk!Next
    /\ Runs("housekeeping", hkStack')
    /\ UNCHANGED tcVars

Next == TelecommandStep \/ HousekeepingStep

Spec == Init /\ [][Next]_vars

----------------------------------------------------------------------------
(* Properties *)

\* What the context sees: one stack at a time.
Calls(mayTc, mayHk) == [c \in DOMAIN mayTc |-> mayTc[c] \cup mayHk[c]]
Core == INSTANCE PusCore WITH
            stack <- IF turn = "telecommand" THEN tcStack ELSE hkStack,
            ret <- IF turn = "telecommand" THEN tcRet ELSE hkRet,
            MayCall <- Calls(TcMayCall, HkMayCall)

\* Under the mutex two tasks are one application of the library: whatever one
\* task could do, and nothing else, so that every property of the core holds
\* for both (pus_context.h:72).
ImplementsCore == Core!Spec

\* The packets of both tasks share one numbering, without gap or repetition,
\* although each copies the counter before its time source runs and increments it
\* afterwards (pus_internal.h:25, pus.c:142).
TasksShareTheNumbering == Core!CounterFollowsLastPacket

\* No task changes the entry that another one is about to call through
\* (pus.c:68-86).
TasksKeepTheRouting == Tc!RoutingStaysValid /\ Hk!RoutingStaysValid

\* The library's own code goes on in the task that holds the mutex, and every
\* callback returns after finitely many calls: SF at each depth, because a call
\* made by the callback disables its return until the call has returned.  Nobody has
\* to call the library, and no task has to win the mutex.
LibraryGoesOn ==
    \/ Tc!LibraryStep /\ TelecommandStep
    \/ Hk!LibraryStep /\ HousekeepingStep

CallbackReturns(d) ==
    \/ Tc!ReturnFromCallback(d) /\ TelecommandStep
    \/ Hk!ReturnFromCallback(d) /\ HousekeepingStep

TaskFairness ==
    /\ WF_vars(LibraryGoesOn)
    /\ \A d \in 1 .. MaxReentry + 3 : SF_vars(CallbackReturns(d))

FairSpec == Spec /\ TaskFairness

\* Every telecommand is answered although the task that processes it shares the
\* context, and callbacks re-enter it.
EveryRequestCloses == Core!EveryRequestCloses

\* The mutex is given back after every call, whatever its callbacks call and
\* however it returns, so that neither task waits for ever.
MutexIsGivenBack == owner # Nobody ~> owner = Nobody
=============================================================================
