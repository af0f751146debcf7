------------------------- MODULE HandlerTableProofs -------------------------
(***************************************************************************)
(* Proofs about the dispatch table: its type, the uniqueness of its keys,  *)
(* and that the array of slots implements the bounded map of Directory,    *)
(* for every table size and every set of keys and handlers.                *)
(***************************************************************************)
EXTENDS HandlerTable, SlotTableProofs

\* The inductive invariant.  Uniqueness alone is inductive, but the refinement
\* also needs that used entries hold registered keys and non-NULL handlers.
IInv ==
    /\ TypeOK
    /\ NoDuplicates(table)
    /\ Filled(table)

LEMMA InitIInv == Init => IInv
<1> SUFFICES ASSUME Init PROVE IInv
  OBVIOUS
<1>1. TypeOK
  BY EmptyTableFacts DEF Init, TypeOK, Outcome, Calls, Statuses
<1>2. NoDuplicates(table) /\ Filled(table)
  BY EmptyTableFacts DEF Init, Filled, UsedSlots, EmptyTable
<1> QED BY <1>1, <1>2 DEF IInv

LEMMA LookupType ==
    ASSUME NEW t \in Tables, NEW k
    PROVE  Lookup(t, k) \in Values \cup {NoValue}
BY FindResult DEF Lookup, Tables, Entries

LEMMA StepIInv == IInv /\ [Next]_vars => IInv'
<1> SUFFICES ASSUME IInv, [Next]_vars PROVE IInv'
  OBVIOUS
<1> USE DEF IInv
<1>1. CASE Initialise
  BY <1>1, EmptyTableFacts
  DEF Initialise, TypeOK, Outcome, Calls, Statuses, Filled, UsedSlots, EmptyTable
<1>2. ASSUME NEW k \in Keys, NEW v \in Values, Register(k, v) PROVE IInv'
  <2>1. CanStore(table, k) /\ table' = Store(table, k, v)
    BY <1>2 DEF Register
  <2>2. table' \in Tables /\ NoDuplicates(table') /\ Filled(table')
    BY <2>1, StoreWrites, StoreKeepsNoDuplicates, StoreKeepsFilled DEF TypeOK
  <2> QED BY <1>2, <2>2 DEF Register, TypeOK, Outcome, Calls, Statuses
<1>3. ASSUME NEW k \in Keys, RefuseRegister(k) PROVE IInv'
  BY <1>3 DEF RefuseRegister, TypeOK, Outcome, Calls, Statuses
<1>4. ASSUME NEW k \in Keys, Deregister(k) PROVE IInv'
  <2>1. Holding(table, k) # {} /\ table' = Clear(table, k)
    BY <1>4 DEF Deregister
  <2>2. table' \in Tables /\ NoDuplicates(table') /\ Filled(table')
    BY <2>1, ClearRemoves, ClearKeepsNoDuplicates, ClearKeepsFilled DEF TypeOK
  <2> QED BY <1>4, <2>2 DEF Deregister, TypeOK, Outcome, Calls, Statuses
<1>5. ASSUME NEW k \in Keys, RefuseDeregister(k) PROVE IInv'
  BY <1>5 DEF RefuseDeregister, TypeOK, Outcome, Calls, Statuses
<1>6. ASSUME NEW k \in Keys, Invoke(k) PROVE IInv'
  <2>1. Find(table, k) < 0 \/ table[Find(table, k)].val \in Values \cup {NoValue}
    BY FindResult, FindNegative DEF TypeOK, Tables, Entries
  <2> QED BY <1>6, <2>1 DEF Invoke, TypeOK, Outcome, Calls, Statuses
<1>7. CASE UNCHANGED vars
  BY <1>7 DEF vars, TypeOK
<1> QED BY <1>1, <1>2, <1>3, <1>4, <1>5, <1>6, <1>7 DEF Next

LEMMA Invariance == Spec => []IInv
BY InitIInv, StepIInv, PTL DEF Spec

\* The table and the reply keep their types.
THEOREM TypeCorrect == Spec => []TypeOK
<1>1. IInv => TypeOK
  BY DEF IInv
<1> QED BY <1>1, Invariance, PTL

\* No two used entries hold the same (service, subtype), whatever sequence of
\* registrations and deregistrations came before (pus_handler_register).
THEOREM KeysAreUnique == Spec => []UniqueKeys
<1>1. IInv => UniqueKeys
  BY DEF IInv, NoDuplicates, UniqueKeys
<1> QED BY <1>1, Invariance, PTL

\* A call changes at most the entry of its own key, in place; so a table index
\* found before the call is good after it for every other key.
THEOREM EntriesKeepTheirSlots == Spec => EntriesStayPut
<1> DEFINE Same(k) == \A i \in UsedSlots(table) :
                          table[i].key # k => table'[i] = table[i]
<1>1. ASSUME IInv, [Next]_vars, reply'.call # "pus_init", ~ UNCHANGED vars
      PROVE  \E k \in Keys : reply'.key = k /\ Same(k)
  <2>1. CASE Initialise
    BY <1>1, <2>1 DEF Initialise, Outcome
  <2>2. ASSUME NEW k \in Keys, NEW v \in Values, Register(k, v)
        PROVE  reply'.key = k /\ Same(k)
    <3>1. table \in Tables /\ CanStore(table, k) /\ table' = Store(table, k, v)
      BY <1>1, <2>2 DEF IInv, TypeOK, Register
    <3>2. Same(k)
      <4>1. SUFFICES ASSUME NEW i \in UsedSlots(table), table[i].key # k
                     PROVE  i # SlotFor(table, k) /\ i \in Slots
        BY ZenonT(30), <3>1, StoreWrites
      <4> QED BY <3>1, <4>1, SlotForResult DEF Holding, UsedSlots
    <3>3. reply'.key = k
      BY <2>2 DEF Register, Outcome
    <3> QED BY <3>2, <3>3
  <2>3. ASSUME NEW k \in Keys, Deregister(k) PROVE reply'.key = k /\ Same(k)
    <3>1. table \in Tables /\ Holding(table, k) # {} /\ table' = Clear(table, k)
      BY <1>1, <2>3 DEF IInv, TypeOK, Deregister
    <3>2. Find(table, k) \in Holding(table, k)
      BY <3>1, FindResult
    <3>3. reply'.key = k
      BY <2>3 DEF Deregister, Outcome
    <3> QED BY <3>1, <3>2, <3>3, ClearRemoves DEF Holding, UsedSlots
  <2>4. ASSUME NEW k \in Keys, RefuseRegister(k) \/ RefuseDeregister(k) \/ Invoke(k)
        PROVE  reply'.key = k /\ Same(k)
    <3>1. reply'.key = k
      BY <2>4 DEF RefuseRegister, RefuseDeregister, Invoke, Outcome
    <3>2. Same(k)
      BY <2>4 DEF RefuseRegister, RefuseDeregister, Invoke
    <3> QED BY <3>1, <3>2
  <2> HIDE DEF Same
  <2> QED BY <1>1, <2>1, <2>2, <2>3, <2>4 DEF Next
<1>2. IInv /\ [Next]_vars
        => [reply'.call # "pus_init" =>
              \A i \in UsedSlots(table) :
                  table[i].key # reply'.key => table'[i] = table[i]]_vars
  BY <1>1
<1> QED BY <1>2, Invariance, PTL DEF Spec, EntriesStayPut

----------------------------------------------------------------------------
LEMMA MapsInit == Init => D!Init
BY EmptyTableFacts DEF Init, D!Init, Outcome, D!Outcome, Lookup

\* The instance has its own copy of the library's definition.
LEMMA SameCardinality == \A S : D!Cardinality(S) = Cardinality(S)
BY Zenon DEF Cardinality, D!Cardinality

\* The keys the abstract map registers are those the table holds.
LEMMA RegisteredIsHeld == D!Registered = Held(table)
BY DEF D!Registered, Held

LEMMA MapsStep == IInv /\ [Next]_vars => [D!Next]_D!vars
<1> SUFFICES ASSUME IInv, [Next]_vars PROVE [D!Next]_D!vars
  OBVIOUS
<1>0. table \in Tables /\ NoDuplicates(table) /\ Filled(table)
  BY DEF IInv, TypeOK
<1>1. CASE Initialise
  <2>1. [k \in Keys |-> Lookup(table, k)]' = [k \in Keys |-> NoValue]
    BY <1>1, EmptyTableFacts DEF Initialise, Lookup
  <2>2. D!Initialise
    BY <1>1, <2>1 DEF Initialise, D!Initialise, Outcome, D!Outcome
  <2> QED BY <2>2 DEF D!Next
<1>2. ASSUME NEW k \in Keys, NEW v \in Values, Register(k, v) PROVE D!Register(k, v)
  <2>1. CanStore(table, k) /\ table' = Store(table, k, v)
    BY <1>2 DEF Register
  <2>2. k \in D!Registered \/ Cardinality(D!Registered) < MaxEntries
    BY <1>0, <2>1, CanStoreIffRoom, RegisteredIsHeld
  <2>3. \A m \in Keys : Lookup(table', m) = IF m = k THEN v ELSE Lookup(table, m)
    BY <1>0, <2>1, LookupAfterStore
  <2>4. [m \in Keys |-> Lookup(table, m)]'
          = [[m \in Keys |-> Lookup(table, m)] EXCEPT ![k] = v]
    BY <2>3
  <2> QED BY <1>2, <2>2, <2>4, SameCardinality, Zenon DEF Register, D!Register, Outcome, D!Outcome
<1>3. ASSUME NEW k \in Keys, RefuseRegister(k) PROVE D!RefuseRegister(k)
  <2>1. k \notin D!Registered /\ ~(Cardinality(D!Registered) < MaxEntries)
    BY <1>0, <1>3, CanStoreIffRoom, RegisteredIsHeld DEF RefuseRegister
  <2>2. Cardinality(D!Registered) \in Nat
    BY <1>0, HeldCardinality, RegisteredIsHeld, FS_CardinalityType
  <2>3. Cardinality(D!Registered) >= MaxEntries
    BY <2>1, <2>2, MaxEntriesAssumption
  <2> QED BY <1>3, <2>1, <2>3, SameCardinality
          DEF RefuseRegister, D!RefuseRegister, Outcome, D!Outcome
<1>4. ASSUME NEW k \in Keys, Deregister(k) PROVE D!Deregister(k)
  <2>1. Holding(table, k) # {} /\ table' = Clear(table, k)
    BY <1>4 DEF Deregister
  <2>2. k \in D!Registered
    BY <1>0, <2>1, HeldIffHolding, RegisteredIsHeld
  <2>3. \A m \in Keys : Lookup(table', m) = IF m = k THEN NoValue ELSE Lookup(table, m)
    BY <1>0, <2>1, LookupAfterClear
  <2>4. [m \in Keys |-> Lookup(table, m)]'
          = [[m \in Keys |-> Lookup(table, m)] EXCEPT ![k] = NoValue]
    BY <2>3
  <2> QED BY <1>4, <2>2, <2>4 DEF Deregister, D!Deregister, Outcome, D!Outcome
<1>5. ASSUME NEW k \in Keys, RefuseDeregister(k) PROVE D!Deregister(k)
  <2>1. Holding(table, k) = {} /\ table' = table
    BY <1>5 DEF RefuseDeregister
  <2>2. k \notin D!Registered /\ Lookup(table, k) = NoValue
    BY <1>0, <2>1, HeldIffHolding, RegisteredIsHeld DEF Lookup
  <2>3. [m \in Keys |-> Lookup(table, m)]'
          = [[m \in Keys |-> Lookup(table, m)] EXCEPT ![k] = NoValue]
    BY <2>1, <2>2
  <2> QED BY <1>5, <2>2, <2>3 DEF RefuseDeregister, D!Deregister, Outcome, D!Outcome
<1>6. ASSUME NEW k \in Keys, Invoke(k) PROVE D!Invoke(k)
  <2>1. (Find(table, k) < 0) <=> k \notin D!Registered
    BY <1>0, FindNegative, HeldIffHolding, RegisteredIsHeld
  <2>2. k \in D!Registered => table[Find(table, k)].val = Lookup(table, k)
    BY <1>0, HeldIffHolding, RegisteredIsHeld DEF Lookup
  <2> QED BY <1>6, <2>1, <2>2 DEF Invoke, D!Invoke, Outcome, D!Outcome
<1>7. CASE UNCHANGED vars
  BY <1>7 DEF vars, D!vars
<1>8. CASE Next
  BY <1>1, <1>2, <1>3, <1>4, <1>5, <1>6, <1>8 DEF Next, D!Next
<1> QED BY <1>7, <1>8

\* pus_handler_register, pus_handler_find and pus_handler_invoke over the array
\* implement a bounded map: at most one handler per key, the last one registered,
\* refused only when the map is full.
THEOREM TableImplementsDirectory == Spec => ImplementsDirectory
BY MapsInit, MapsStep, Invariance, PTL DEF Spec, ImplementsDirectory, D!Spec
=============================================================================
