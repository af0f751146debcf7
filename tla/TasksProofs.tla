---------------------------- MODULE TasksProofs ----------------------------
(***************************************************************************)
(* Two tasks under a mutex are one application of the library, so that     *)
(* what PusCoreProofs proves of one stack holds for both.                  *)
(***************************************************************************)
EXTENDS Tasks, TLAPS

\* The theorems about the core, for the context that the tasks share.
Proved == INSTANCE PusCoreProofs WITH
            stack <- IF turn = "telecommand" THEN tcStack ELSE hkStack,
            ret <- IF turn = "telecommand" THEN tcRet ELSE hkRet,
            MayCall <- Calls(TcMayCall, HkMayCall)

----------------------------------------------------------------------------
(* A task that enters the context takes up where nobody is: what it does, *)
(* the core may do.                                                       *)

LEMMA TcData ==
    /\ \A t, k : Tc!Find(t, k) = Core!Find(t, k)
    /\ \A t, k : Tc!Holding(t, k) = Core!Holding(t, k)
    /\ \A t, k : Tc!CanStore(t, k) = Core!CanStore(t, k)
    /\ \A t, k, v : Tc!Store(t, k, v) = Core!Store(t, k, v)
    /\ \A t, k : Tc!Clear(t, k) = Core!Clear(t, k)
    /\ Tc!EmptyTable = Core!EmptyTable
    /\ \A S : Tc!Cardinality(S) = Core!Cardinality(S)
    /\ \A pc, r : Tc!Frame(pc, r) = Core!Frame(pc, r)
    /\ \A kind, r : Tc!Packet(kind, r) = Core!Packet(kind, r)
    /\ \A c : Tc!Incr(c) = Core!Incr(c)
BY DEF Tc!Find, Core!Find, Tc!Holding, Core!Holding, Tc!CanStore, Core!CanStore,
       Tc!Store, Core!Store, Tc!Clear, Core!Clear, Tc!SlotFor, Core!SlotFor, Tc!First,
       Core!First, Tc!Slots, Core!Slots, Tc!UsedSlots, Core!UsedSlots, Tc!FreeSlots,
       Core!FreeSlots, Tc!EmptyTable, Core!EmptyTable, Tc!Cardinality, Core!Cardinality,
       Tc!Frame, Core!Frame, Tc!Packet, Core!Packet, Tc!Incr, Core!Incr

LEMMA TcCalls ==
    ASSUME turn = "telecommand" \/ (tcStack = <<>> /\ hkStack = <<>>),
           turn' = "telecommand", NEW call
    PROVE  /\ Tc!AppCalls(call) => Core!AppCalls(call)
           /\ Tc!AppEnters(call) => Core!AppEnters(call)
BY MayCallAssumption DEF Calls, Tc!AppCalls, Core!AppCalls, Tc!AppEnters,
       Core!AppEnters, Tc!AppContext, Core!AppContext, Tc!AppContexts, Core!AppContexts,
       Tc!Top, Core!Top, Tc!Last, Core!Last

\* The data of both are the same, the calls a task makes are among those of the
\* application, and what is read of ret is read when the stack is not empty.
LEMMA TelecommandRunsCore ==
    ASSUME turn = "telecommand" \/ (tcStack = <<>> /\ hkStack = <<>>),
           turn' = "telecommand", Tc!Next
    PROVE  Core!Next
<1> USE TcData, TcCalls DEF Tc!At, Core!At, Tc!Top, Core!Top, Tc!Last, Core!Last,
        Tc!Resume, Core!Resume, Tc!ResumeAndEnter, Core!ResumeAndEnter,
        Tc!ReportIfAsked, Core!ReportIfAsked, Tc!ReportsOf, Core!ReportsOf, Tc!Return,
        Core!Return, Tc!Front, Core!Front, Tc!AppContext, Core!AppContext,
        Tc!AppContexts, Core!AppContexts, Tc!CallbackPcs, Core!CallbackPcs, Tc!Received,
        Core!Received, Tc!Requests, Core!Requests, Tc!NoTc, Core!NoTc, Tc!NoReq,
        Core!NoReq, Tc!NoSeq, Core!NoSeq, Tc!ctxVars, Core!ctxVars, Tc!history,
        Core!history
<1>1. Tc!FindHandler => Core!FindHandler
  BY DEF Tc!FindHandler, Core!FindHandler
<1>2. Tc!EmitAcceptance => Core!EmitAcceptance
  BY DEF Tc!EmitAcceptance, Core!EmitAcceptance
<1>3. Tc!EmitStart => Core!EmitStart
  BY DEF Tc!EmitStart, Core!EmitStart
<1>4. Tc!InvokeHandler => Core!InvokeHandler
  BY DEF Tc!InvokeHandler, Core!InvokeHandler
<1>5. Tc!EmitCompletion => Core!EmitCompletion
  BY DEF Tc!EmitCompletion, Core!EmitCompletion
<1>6. Tc!ReturnFromProcess => Core!ReturnFromProcess
  BY DEF Tc!ReturnFromProcess, Core!ReturnFromProcess
<1>7. Tc!StampHeader => Core!StampHeader
  BY DEF Tc!StampHeader, Core!StampHeader
<1>8. Tc!FinishPacket => Core!FinishPacket
  BY DEF Tc!FinishPacket, Core!FinishPacket
<1>9. Tc!ReturnFromPacket => Core!ReturnFromPacket
  BY DEF Tc!ReturnFromPacket, Core!ReturnFromPacket
<1>10. Tc!InitContext => Core!InitContext
  BY DEF Tc!InitContext, Core!InitContext
<1>11. Tc!SetTmSink => Core!SetTmSink
  BY DEF Tc!SetTmSink, Core!SetTmSink
<1>12. Tc!RejectTc => Core!RejectTc
  BY DEF Tc!RejectTc, Core!RejectTc
<1>13. Tc!BuildTm => Core!BuildTm
  BY DEF Tc!BuildTm, Core!BuildTm
<1>24. Tc!ReportOther => Core!ReportOther
  BY DEF Tc!ReportOther, Core!ReportOther
<1>14. Tc!RejectTm => Core!RejectTm
  BY DEF Tc!RejectTm, Core!RejectTm
<1>15. \A k, v : Tc!RegisterHandler(k, v) => Core!RegisterHandler(k, v)
  BY DEF Tc!RegisterHandler, Core!RegisterHandler
<1>16. \A k : Tc!DeregisterHandler(k) => Core!DeregisterHandler(k)
  BY DEF Tc!DeregisterHandler, Core!DeregisterHandler
<1>17. \A k : Tc!InvokeDirectly(k) => Core!InvokeDirectly(k)
  BY DEF Tc!InvokeDirectly, Core!InvokeDirectly
<1>18. \A k, ack : Tc!ProcessTc(k, ack) => Core!ProcessTc(k, ack)
  BY DEF Tc!ProcessTc, Core!ProcessTc
<1>19. \A kind : Tc!EmitProgress(kind) => Core!EmitProgress(kind)
  BY DEF Tc!EmitProgress, Core!EmitProgress
<1>20. \A kind : Tc!BuildProgress(kind) => Core!BuildProgress(kind)
  BY DEF Tc!BuildProgress, Core!BuildProgress
<1>21. \A d : Tc!ReturnFromCallback(d) => Core!ReturnFromCallback(d)
  BY DEF Tc!ReturnFromCallback, Core!ReturnFromCallback
<1>22. Tc!LibraryStep => Core!LibraryStep
  BY <1>1, <1>2, <1>3, <1>4, <1>5, <1>6, <1>7, <1>8, <1>9
  DEF Tc!LibraryStep, Core!LibraryStep
<1>23. Tc!ApplicationStep => Core!ApplicationStep
  BY <1>10, <1>11, <1>12, <1>13, <1>14, <1>15, <1>16, <1>17, <1>18, <1>19, <1>20, <1>24
  DEF Tc!ApplicationStep, Core!ApplicationStep
<1> QED BY <1>21, <1>22, <1>23 DEF Tc!Next, Core!Next

LEMMA HkData ==
    /\ \A t, k : Hk!Find(t, k) = Core!Find(t, k)
    /\ \A t, k : Hk!Holding(t, k) = Core!Holding(t, k)
    /\ \A t, k : Hk!CanStore(t, k) = Core!CanStore(t, k)
    /\ \A t, k, v : Hk!Store(t, k, v) = Core!Store(t, k, v)
    /\ \A t, k : Hk!Clear(t, k) = Core!Clear(t, k)
    /\ Hk!EmptyTable = Core!EmptyTable
    /\ \A S : Hk!Cardinality(S) = Core!Cardinality(S)
    /\ \A pc, r : Hk!Frame(pc, r) = Core!Frame(pc, r)
    /\ \A kind, r : Hk!Packet(kind, r) = Core!Packet(kind, r)
    /\ \A c : Hk!Incr(c) = Core!Incr(c)
BY DEF Hk!Find, Core!Find, Hk!Holding, Core!Holding, Hk!CanStore, Core!CanStore,
       Hk!Store, Core!Store, Hk!Clear, Core!Clear, Hk!SlotFor, Core!SlotFor, Hk!First,
       Core!First, Hk!Slots, Core!Slots, Hk!UsedSlots, Core!UsedSlots, Hk!FreeSlots,
       Core!FreeSlots, Hk!EmptyTable, Core!EmptyTable, Hk!Cardinality, Core!Cardinality,
       Hk!Frame, Core!Frame, Hk!Packet, Core!Packet, Hk!Incr, Core!Incr

LEMMA HkCalls ==
    ASSUME turn = "housekeeping" \/ (tcStack = <<>> /\ hkStack = <<>>),
           turn' = "housekeeping", NEW call
    PROVE  /\ Hk!AppCalls(call) => Core!AppCalls(call)
           /\ Hk!AppEnters(call) => Core!AppEnters(call)
BY MayCallAssumption DEF Calls, Tc!AppContexts, Hk!AppCalls, Core!AppCalls,
       Hk!AppEnters, Core!AppEnters, Hk!AppContext, Core!AppContext, Hk!AppContexts,
       Core!AppContexts, Hk!Top, Core!Top, Hk!Last, Core!Last

\* The same of the other task.
LEMMA HousekeepingRunsCore ==
    ASSUME turn = "housekeeping" \/ (tcStack = <<>> /\ hkStack = <<>>),
           turn' = "housekeeping", Hk!Next
    PROVE  Core!Next
<1> USE HkData, HkCalls DEF Hk!At, Core!At, Hk!Top, Core!Top, Hk!Last, Core!Last,
        Hk!Resume, Core!Resume, Hk!ResumeAndEnter, Core!ResumeAndEnter,
        Hk!ReportIfAsked, Core!ReportIfAsked, Hk!ReportsOf, Core!ReportsOf, Hk!Return,
        Core!Return, Hk!Front, Core!Front, Hk!AppContext, Core!AppContext,
        Hk!AppContexts, Core!AppContexts, Hk!CallbackPcs, Core!CallbackPcs, Hk!Received,
        Core!Received, Hk!Requests, Core!Requests, Hk!NoTc, Core!NoTc, Hk!NoReq,
        Core!NoReq, Hk!NoSeq, Core!NoSeq, Hk!ctxVars, Core!ctxVars, Hk!history,
        Core!history
<1>1. Hk!FindHandler => Core!FindHandler
  BY DEF Hk!FindHandler, Core!FindHandler
<1>2. Hk!EmitAcceptance => Core!EmitAcceptance
  BY DEF Hk!EmitAcceptance, Core!EmitAcceptance
<1>3. Hk!EmitStart => Core!EmitStart
  BY DEF Hk!EmitStart, Core!EmitStart
<1>4. Hk!InvokeHandler => Core!InvokeHandler
  BY DEF Hk!InvokeHandler, Core!InvokeHandler
<1>5. Hk!EmitCompletion => Core!EmitCompletion
  BY DEF Hk!EmitCompletion, Core!EmitCompletion
<1>6. Hk!ReturnFromProcess => Core!ReturnFromProcess
  BY DEF Hk!ReturnFromProcess, Core!ReturnFromProcess
<1>7. Hk!StampHeader => Core!StampHeader
  BY DEF Hk!StampHeader, Core!StampHeader
<1>8. Hk!FinishPacket => Core!FinishPacket
  BY DEF Hk!FinishPacket, Core!FinishPacket
<1>9. Hk!ReturnFromPacket => Core!ReturnFromPacket
  BY DEF Hk!ReturnFromPacket, Core!ReturnFromPacket
<1>10. Hk!InitContext => Core!InitContext
  BY DEF Hk!InitContext, Core!InitContext
<1>11. Hk!SetTmSink => Core!SetTmSink
  BY DEF Hk!SetTmSink, Core!SetTmSink
<1>12. Hk!RejectTc => Core!RejectTc
  BY DEF Hk!RejectTc, Core!RejectTc
<1>13. Hk!BuildTm => Core!BuildTm
  BY DEF Hk!BuildTm, Core!BuildTm
<1>24. Hk!ReportOther => Core!ReportOther
  BY DEF Hk!ReportOther, Core!ReportOther
<1>14. Hk!RejectTm => Core!RejectTm
  BY DEF Hk!RejectTm, Core!RejectTm
<1>15. \A k, v : Hk!RegisterHandler(k, v) => Core!RegisterHandler(k, v)
  BY DEF Hk!RegisterHandler, Core!RegisterHandler
<1>16. \A k : Hk!DeregisterHandler(k) => Core!DeregisterHandler(k)
  BY DEF Hk!DeregisterHandler, Core!DeregisterHandler
<1>17. \A k : Hk!InvokeDirectly(k) => Core!InvokeDirectly(k)
  BY DEF Hk!InvokeDirectly, Core!InvokeDirectly
<1>18. \A k, ack : Hk!ProcessTc(k, ack) => Core!ProcessTc(k, ack)
  BY DEF Hk!ProcessTc, Core!ProcessTc
<1>19. \A kind : Hk!EmitProgress(kind) => Core!EmitProgress(kind)
  BY DEF Hk!EmitProgress, Core!EmitProgress
<1>20. \A kind : Hk!BuildProgress(kind) => Core!BuildProgress(kind)
  BY DEF Hk!BuildProgress, Core!BuildProgress
<1>21. \A d : Hk!ReturnFromCallback(d) => Core!ReturnFromCallback(d)
  BY DEF Hk!ReturnFromCallback, Core!ReturnFromCallback
<1>22. Hk!LibraryStep => Core!LibraryStep
  BY <1>1, <1>2, <1>3, <1>4, <1>5, <1>6, <1>7, <1>8, <1>9
  DEF Hk!LibraryStep, Core!LibraryStep
<1>23. Hk!ApplicationStep => Core!ApplicationStep
  BY <1>10, <1>11, <1>12, <1>13, <1>14, <1>15, <1>16, <1>17, <1>18, <1>19, <1>20, <1>24
  DEF Hk!ApplicationStep, Core!ApplicationStep
<1> QED BY <1>21, <1>22, <1>23 DEF Hk!Next, Core!Next

----------------------------------------------------------------------------
(* The core of Tasks and the core the theorems are about are the same. *)

LEMMA CoreData ==
    /\ \A t, k : Core!Find(t, k) = Proved!Find(t, k)
    /\ \A t, k : Core!Holding(t, k) = Proved!Holding(t, k)
    /\ \A t, k : Core!CanStore(t, k) = Proved!CanStore(t, k)
    /\ \A t, k, v : Core!Store(t, k, v) = Proved!Store(t, k, v)
    /\ \A t, k : Core!Clear(t, k) = Proved!Clear(t, k)
    /\ Core!EmptyTable = Proved!EmptyTable
    /\ \A S : Core!Cardinality(S) = Proved!Cardinality(S)
    /\ \A pc, r : Core!Frame(pc, r) = Proved!Frame(pc, r)
    /\ \A kind, r : Core!Packet(kind, r) = Proved!Packet(kind, r)
    /\ \A c : Core!Incr(c) = Proved!Incr(c)
BY DEF Core!Find, Proved!Find, Core!Holding, Proved!Holding, Core!CanStore,
       Proved!CanStore, Core!Store, Proved!Store, Core!Clear, Proved!Clear,
       Core!SlotFor, Proved!SlotFor, Core!First, Proved!First, Core!Slots, Proved!Slots,
       Core!UsedSlots, Proved!UsedSlots, Core!FreeSlots, Proved!FreeSlots,
       Core!EmptyTable, Proved!EmptyTable, Core!Cardinality, Proved!Cardinality,
       Core!Frame, Proved!Frame, Core!Packet, Proved!Packet, Core!Incr, Proved!Incr

LEMMA CoreCalls ==
    ASSUME NEW call
    PROVE  /\ Core!AppCalls(call) => Proved!AppCalls(call)
           /\ Core!AppEnters(call) => Proved!AppEnters(call)
BY MayCallAssumption DEF Calls, Core!AppCalls, Proved!AppCalls, Core!AppEnters,
       Proved!AppEnters, Core!AppContext, Proved!AppContext, Core!AppContexts,
       Proved!AppContexts, Core!Top, Proved!Top, Core!Last, Proved!Last

\* Action by action.
LEMMA SameNext ==
    ASSUME Core!Next
    PROVE  Proved!Next
<1> USE CoreData, CoreCalls DEF Core!At, Proved!At, Core!Top, Proved!Top, Core!Last,
        Proved!Last, Core!Resume, Proved!Resume, Core!ResumeAndEnter,
        Proved!ResumeAndEnter, Core!ReportIfAsked, Proved!ReportIfAsked, Core!ReportsOf,
        Proved!ReportsOf, Core!Return, Proved!Return, Core!Front, Proved!Front,
        Core!AppContext, Proved!AppContext, Core!AppContexts, Proved!AppContexts,
        Core!CallbackPcs, Proved!CallbackPcs, Core!Received, Proved!Received,
        Core!Requests, Proved!Requests, Core!NoTc, Proved!NoTc, Core!NoReq,
        Proved!NoReq, Core!NoSeq, Proved!NoSeq, Core!ctxVars, Proved!ctxVars,
        Core!history, Proved!history
<1>1. Core!FindHandler => Proved!FindHandler
  BY DEF Core!FindHandler, Proved!FindHandler
<1>2. Core!EmitAcceptance => Proved!EmitAcceptance
  BY DEF Core!EmitAcceptance, Proved!EmitAcceptance
<1>3. Core!EmitStart => Proved!EmitStart
  BY DEF Core!EmitStart, Proved!EmitStart
<1>4. Core!InvokeHandler => Proved!InvokeHandler
  BY DEF Core!InvokeHandler, Proved!InvokeHandler
<1>5. Core!EmitCompletion => Proved!EmitCompletion
  BY DEF Core!EmitCompletion, Proved!EmitCompletion
<1>6. Core!ReturnFromProcess => Proved!ReturnFromProcess
  BY DEF Core!ReturnFromProcess, Proved!ReturnFromProcess
<1>7. Core!StampHeader => Proved!StampHeader
  BY DEF Core!StampHeader, Proved!StampHeader
<1>8. Core!FinishPacket => Proved!FinishPacket
  BY DEF Core!FinishPacket, Proved!FinishPacket
<1>9. Core!ReturnFromPacket => Proved!ReturnFromPacket
  BY DEF Core!ReturnFromPacket, Proved!ReturnFromPacket
<1>10. Core!InitContext => Proved!InitContext
  BY DEF Core!InitContext, Proved!InitContext
<1>11. Core!SetTmSink => Proved!SetTmSink
  BY DEF Core!SetTmSink, Proved!SetTmSink
<1>12. Core!RejectTc => Proved!RejectTc
  BY DEF Core!RejectTc, Proved!RejectTc
<1>13. Core!BuildTm => Proved!BuildTm
  BY DEF Core!BuildTm, Proved!BuildTm
<1>24. Core!ReportOther => Proved!ReportOther
  BY DEF Core!ReportOther, Proved!ReportOther
<1>14. Core!RejectTm => Proved!RejectTm
  BY DEF Core!RejectTm, Proved!RejectTm
<1>15. \A k, v : Core!RegisterHandler(k, v) => Proved!RegisterHandler(k, v)
  BY DEF Core!RegisterHandler, Proved!RegisterHandler
<1>16. \A k : Core!DeregisterHandler(k) => Proved!DeregisterHandler(k)
  BY DEF Core!DeregisterHandler, Proved!DeregisterHandler
<1>17. \A k : Core!InvokeDirectly(k) => Proved!InvokeDirectly(k)
  BY DEF Core!InvokeDirectly, Proved!InvokeDirectly
<1>18. \A k, ack : Core!ProcessTc(k, ack) => Proved!ProcessTc(k, ack)
  BY DEF Core!ProcessTc, Proved!ProcessTc
<1>19. \A kind : Core!EmitProgress(kind) => Proved!EmitProgress(kind)
  BY DEF Core!EmitProgress, Proved!EmitProgress
<1>20. \A kind : Core!BuildProgress(kind) => Proved!BuildProgress(kind)
  BY DEF Core!BuildProgress, Proved!BuildProgress
<1>21. \A d : Core!ReturnFromCallback(d) => Proved!ReturnFromCallback(d)
  BY DEF Core!ReturnFromCallback, Proved!ReturnFromCallback
<1>22. Core!LibraryStep => Proved!LibraryStep
  BY <1>1, <1>2, <1>3, <1>4, <1>5, <1>6, <1>7, <1>8, <1>9
  DEF Core!LibraryStep, Proved!LibraryStep
<1>23. Core!ApplicationStep => Proved!ApplicationStep
  BY <1>10, <1>11, <1>12, <1>13, <1>14, <1>15, <1>16, <1>17, <1>18, <1>19, <1>20, <1>24
  DEF Core!ApplicationStep, Proved!ApplicationStep
<1> QED BY <1>21, <1>22, <1>23 DEF Core!Next, Proved!Next

LEMMA SameSpec == Core!Spec => Proved!Spec
<1>1. Core!Init => Proved!Init
  BY CoreData DEF Core!Init, Proved!Init, Core!Requests, Proved!Requests, Core!NoTc,
     Proved!NoTc, Core!NoSeq, Proved!NoSeq
<1>2. Core!vars = Proved!vars
  BY DEF Core!vars, Proved!vars, Core!ctxVars, Proved!ctxVars, Core!history, Proved!history
<1>3. [Core!Next]_(Core!vars) => [Proved!Next]_(Proved!vars)
  BY SameNext, <1>2 DEF Core!vars, Proved!vars, Core!ctxVars, Proved!ctxVars, Core!history,
     Proved!history
<1> QED BY <1>1, <1>3, PTL DEF Core!Spec, Proved!Spec

\* What the theorems assume of the constants.
LEMMA ProvedAssumptions ==
    /\ MaxEntries \in Nat \ {0}
    /\ NoKey \notin Keys
    /\ NoValue \notin Values
    /\ AckSets \subseteq SUBSET Proved!Flags
    /\ AppStatuses \subseteq Proved!Statuses
    /\ Calls(TcMayCall, HkMayCall) \in [Proved!AppContexts -> SUBSET Proved!Calls]
    /\ /\ MaxCounter \in Nat \ {0}
       /\ MaxRequests \in Nat
       /\ MaxReentry \in Nat
       /\ MaxProgress \in Nat
<1>1. Calls(TcMayCall, HkMayCall) \in [Tc!AppContexts -> SUBSET Tc!Calls]
  BY MayCallAssumption DEF Calls
<1>2. /\ Tc!Flags = Proved!Flags
      /\ Tc!Statuses = Proved!Statuses
      /\ Tc!AppContexts = Proved!AppContexts
      /\ Tc!Calls = Proved!Calls
  BY DEF Tc!Flags, Proved!Flags, Tc!Statuses, Proved!Statuses, Tc!AppContexts,
     Proved!AppContexts, Tc!Calls, Proved!Calls
<1> QED BY <1>1, <1>2, ConstantsAssumption

----------------------------------------------------------------------------
(* The mutex *)

Running == IF turn = "telecommand" THEN tcStack ELSE hkStack

\* Who is inside a call holds the mutex, and the other one is not inside.
LockInv ==
    /\ turn \in TaskNames
    /\ turn = "telecommand" => hkStack = <<>>
    /\ turn = "housekeeping" => tcStack = <<>>
    /\ owner = Holder(turn, Running)

LEMMA InitLockInv == Init => LockInv
BY DEF Init, Tc!Init, LockInv, TaskNames, Holder, Running, Nobody

\* A task that may enter ran last, or neither is inside.
LEMMA EnterAlone ==
    ASSUME LockInv, NEW task \in TaskNames, MayEnter(task)
    PROVE  turn = task \/ (tcStack = <<>> /\ hkStack = <<>>)
BY DEF LockInv, TaskNames, MayEnter, Holder, Running, Nobody

LEMMA StepLockInv == LockInv /\ [Next]_vars => LockInv'
<1> SUFFICES ASSUME LockInv, [Next]_vars PROVE LockInv'
  OBVIOUS
<1>1. CASE TelecommandStep
  <2>1. turn = "telecommand" \/ (tcStack = <<>> /\ hkStack = <<>>)
    BY <1>1, EnterAlone DEF TelecommandStep, TaskNames
  <2> QED BY <1>1, <2>1 DEF TelecommandStep, LockInv, Runs, Running, TaskNames, hkVars, Holder
<1>2. CASE HousekeepingStep
  <2>1. turn = "housekeeping" \/ (tcStack = <<>> /\ hkStack = <<>>)
    BY <1>2, EnterAlone DEF HousekeepingStep, TaskNames
  <2> QED BY <1>2, <2>1 DEF HousekeepingStep, LockInv, Runs, Running, TaskNames, tcVars, Holder
<1>3. CASE UNCHANGED vars
  BY <1>3 DEF vars, tcVars, hkVars, LockInv, Running, Holder
<1> QED BY <1>1, <1>2, <1>3 DEF Next

\* Every step of a task is a step of the core.
LEMMA StepRunsCore == LockInv /\ [Next]_vars => [Core!Next]_(Core!vars)
<1> SUFFICES ASSUME LockInv, [Next]_vars PROVE [Core!Next]_(Core!vars)
  OBVIOUS
<1>1. CASE TelecommandStep
  <2>1. turn = "telecommand" \/ (tcStack = <<>> /\ hkStack = <<>>)
    BY <1>1, EnterAlone DEF TelecommandStep, TaskNames
  <2> QED BY <1>1, <2>1, TelecommandRunsCore DEF TelecommandStep, Runs
<1>2. CASE HousekeepingStep
  <2>1. turn = "housekeeping" \/ (tcStack = <<>> /\ hkStack = <<>>)
    BY <1>2, EnterAlone DEF HousekeepingStep, TaskNames
  <2> QED BY <1>2, <2>1, HousekeepingRunsCore DEF HousekeepingStep, Runs
<1>3. CASE UNCHANGED vars
  BY <1>3 DEF vars, shared, tcVars, hkVars, Core!vars, Core!ctxVars, Core!history
<1> QED BY <1>1, <1>2, <1>3 DEF Next

LEMMA InitRunsCore == Init => Core!Init
BY DEF Init, Tc!Init, Core!Init, Tc!EmptyTable, Core!EmptyTable, Tc!Slots, Core!Slots,
       Tc!Requests, Core!Requests, Tc!NoTc, Core!NoTc, Tc!NoSeq, Core!NoSeq

----------------------------------------------------------------------------
(* Theorems *)

\* Two tasks under the mutex do what one application without tasks could do.
THEOREM MutexMakesOneApplication == Spec => ImplementsCore
BY InitLockInv, StepLockInv, StepRunsCore, InitRunsCore, PTL
DEF Spec, ImplementsCore, Core!Spec

\* If the time sources of both tasks build no packets, the packets of both share
\* one numbering without gap or repetition.
THEOREM NumberingIsShared ==
    Core!SilentClock => (Spec => []TasksShareTheNumbering)
<1>1. ASSUME Core!SilentClock PROVE Spec => []TasksShareTheNumbering
  <2>0. Proved!SilentClock
    BY <1>1 DEF Core!SilentClock, Proved!SilentClock
  <2>1. Proved!Spec => []Proved!CounterFollowsLastPacket
    BY <2>0, ProvedAssumptions, Proved!PacketsAreNumbered
  <2>2. Proved!CounterFollowsLastPacket => TasksShareTheNumbering
    BY DEF Proved!CounterFollowsLastPacket, TasksShareTheNumbering,
       Core!CounterFollowsLastPacket, Proved!Incr, Core!Incr, Proved!NoSeq, Core!NoSeq
  <2> QED BY <2>1, <2>2, MutexMakesOneApplication, SameSpec, PTL DEF ImplementsCore
<1> QED BY <1>1

\* If no sink and no time source takes entries out of the table, or no callback at
\* all does, no task changes the entry that another one is about to call through.
THEOREM RoutingIsKept ==
    Core!QuietCallbacks \/ Core!HandlersStay => (Spec => []TasksKeepTheRouting)
<1>1. ASSUME Core!QuietCallbacks \/ Core!HandlersStay PROVE Spec => []TasksKeepTheRouting
  <2>0. Proved!QuietCallbacks \/ Proved!HandlersStay
    BY <1>1 DEF Core!QuietCallbacks, Proved!QuietCallbacks, Core!HandlersStay,
       Proved!HandlersStay
  <2>1. Proved!Spec => []Proved!RoutingStaysValid
    BY <2>0, ProvedAssumptions, Proved!RoutingIsStable, Proved!RoutingSurvivesReentry
  <2>2. LockInv /\ Proved!RoutingStaysValid => TasksKeepTheRouting
    BY TcData, HkData, CoreData DEF LockInv, TaskNames, Proved!RoutingStaysValid,
       TasksKeepTheRouting, Tc!RoutingStaysValid, Hk!RoutingStaysValid
  <2> QED BY <2>1, <2>2, InitLockInv, StepLockInv, MutexMakesOneApplication, SameSpec, PTL
          DEF ImplementsCore, Spec
<1> QED BY <1>1

\* Whichever task takes a telecommand, and whatever the other one does between its
\* calls: every report that was asked for is issued, in order, before the request
\* is closed.
THEOREM BothTasksVerifyRequests == Spec => Proved!ImplementsVerification
<1>1. Proved!Spec => Proved!ImplementsVerification
  BY ProvedAssumptions, Proved!RequestsAreVerified
<1> QED BY <1>1, MutexMakesOneApplication, SameSpec, PTL DEF ImplementsCore
=============================================================================
