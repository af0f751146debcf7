--------------------------- MODULE SlotTableProofs ---------------------------
(***************************************************************************)
(* Facts about the table operators of SlotTable, for every size and every  *)
(* set of keys and values: what a search returns, and what an insertion or *)
(* a removal changes.  The proofs of the components cite them by name.     *)
(***************************************************************************)
EXTENDS SlotTable, FiniteSetTheorems, TLAPS

\* No key is held by two used entries.
NoDuplicates(t) == \A i, j \in UsedSlots(t) : t[i].key = t[j].key => i = j

----------------------------------------------------------------------------
\* Every nonempty set of naturals has a least element.
LEMMA NatLeast ==
    ASSUME NEW S \in SUBSET Nat, S # {}
    PROVE  \E x \in S : \A y \in S : x <= y
<1> DEFINE R == OpToRel(<, Nat)
<1>1. PICK x \in S : \A y \in S : ~ (<<y, x>> \in R)
  <2>1. IsWellFoundedOn(R, Nat)
    BY NatLessThanWellFounded
  <2>2. S \subseteq Nat
    OBVIOUS
  <2> HIDE DEF R
  <2> QED BY <2>1, <2>2, WFMin, Zenon
<1>2. SUFFICES ASSUME NEW y \in S, ~(x <= y)
               PROVE  <<y, x>> \in R
  BY <1>1
<1>3. y \in Nat /\ x \in Nat /\ y < x
  BY <1>2
<1>4. <<y, x>> \in Nat \X Nat /\ <<y, x>>[1] < <<y, x>>[2]
  BY <1>3
<1> QED BY <1>4, Zenon DEF OpToRel

\* First is an element of its set, and the least one.
LEMMA FirstIsLeast ==
    ASSUME NEW S \in SUBSET Slots, S # {}
    PROVE  First(S) \in S /\ \A j \in S : First(S) <= j
<1>1. S \in SUBSET Nat
  BY MaxEntriesAssumption DEF Slots
<1>2. \E i \in S : \A j \in S : i <= j
  BY <1>1, NatLeast
<1> QED BY <1>2 DEF First

\* A search returns -1 or a used slot that holds the key.
LEMMA FindResult ==
    ASSUME NEW t, NEW k
    PROVE  IF Holding(t, k) = {}
           THEN Find(t, k) = -1
           ELSE Find(t, k) \in Holding(t, k) /\ Find(t, k) \in Slots
<1>1. Holding(t, k) \in SUBSET Slots
  BY DEF Holding, UsedSlots
<1>2. CASE Holding(t, k) = {}
  BY <1>2 DEF Find
<1>3. CASE Holding(t, k) # {}
  BY <1>1, <1>3, FirstIsLeast DEF Find
<1> QED BY <1>2, <1>3

\* -1 is not a slot.
LEMMA FindNegative ==
    ASSUME NEW t, NEW k
    PROVE  (Find(t, k) < 0) <=> (Holding(t, k) = {})
BY FindResult, MaxEntriesAssumption DEF Slots

\* In a table without duplicates there is only one slot a search can return.
LEMMA FindIsTheHolder ==
    ASSUME NEW t, NEW k, NoDuplicates(t), NEW i \in Holding(t, k)
    PROVE  Find(t, k) = i
<1>1. Find(t, k) \in Holding(t, k)
  BY FindResult
<1> QED BY <1>1 DEF NoDuplicates, Holding

----------------------------------------------------------------------------
\* An insertion writes one slot: the holder's if there is one, else a free one.
LEMMA SlotForResult ==
    ASSUME NEW t, NEW k, CanStore(t, k)
    PROVE  LET n == SlotFor(t, k)
           IN  /\ n \in Slots
               /\ n \in UsedSlots(t) => n \in Holding(t, k)
               /\ Holding(t, k) # {} => n \in Holding(t, k)
<1>1. CASE Holding(t, k) # {}
  BY <1>1, FindResult DEF SlotFor
<1>2. CASE Holding(t, k) = {}
  <2>1. FreeSlots(t) # {} /\ FreeSlots(t) \in SUBSET Slots
    BY <1>2 DEF CanStore, FreeSlots
  <2>2. First(FreeSlots(t)) \in FreeSlots(t)
    BY <2>1, FirstIsLeast
  <2> QED BY <1>2, <2>2 DEF SlotFor, FreeSlots
<1> QED BY <1>1, <1>2

LEMMA StoreWrites ==
    ASSUME NEW t \in Tables, NEW k \in Keys, NEW v \in Values, CanStore(t, k)
    PROVE  /\ Store(t, k, v) \in Tables
           /\ Store(t, k, v)[SlotFor(t, k)] = [used |-> TRUE, key |-> k, val |-> v]
           /\ \A i \in Slots : i # SlotFor(t, k) => Store(t, k, v)[i] = t[i]
<1>1. SlotFor(t, k) \in Slots
  BY SlotForResult
<1>2. [used |-> TRUE, key |-> k, val |-> v] \in Entries
  BY DEF Entries
<1> QED BY <1>1, <1>2 DEF Store, Tables

\* A removal clears the flag of the holder.
LEMMA ClearRemoves ==
    ASSUME NEW t \in Tables, NEW k \in Keys, Holding(t, k) # {}
    PROVE  /\ Clear(t, k) \in Tables
           /\ Find(t, k) \in Slots
           /\ ~Clear(t, k)[Find(t, k)].used
           /\ \A i \in Slots : i # Find(t, k) => Clear(t, k)[i] = t[i]
<1> DEFINE h == Find(t, k)
<1> DEFINE e == [used |-> FALSE, key |-> t[h].key, val |-> t[h].val]
<1>1. h \in Slots
  BY FindResult
<1>2. t[h] \in Entries
  BY <1>1 DEF Tables
<1>3. e \in Entries /\ ~e.used
  BY <1>2 DEF Entries
<1>4. Clear(t, k) = [t EXCEPT ![h] = e]
  BY DEF Clear
<1> HIDE DEF e
<1> QED BY <1>1, <1>3, <1>4 DEF Tables

----------------------------------------------------------------------------
\* Neither insertion nor removal makes a key appear twice.
LEMMA StoreKeepsNoDuplicates ==
    ASSUME NEW t \in Tables, NEW k \in Keys, NEW v \in Values,
           CanStore(t, k), NoDuplicates(t)
    PROVE  NoDuplicates(Store(t, k, v))
<1> DEFINE s == Store(t, k, v)
           n == SlotFor(t, k)
<1>0. s[n] = [used |-> TRUE, key |-> k, val |-> v] /\ \A i \in Slots : i # n => s[i] = t[i]
  BY StoreWrites, Zenon
<1>1. s[n].used /\ s[n].key = k /\ \A i \in Slots : i # n => s[i] = t[i]
  BY <1>0
<1>2. \A i \in Slots : i # n /\ t[i].used => t[i].key # k
  <2>1. SUFFICES ASSUME NEW i \in Holding(t, k) PROVE i = n
    BY DEF Holding, UsedSlots
  <2>2. n \in Holding(t, k)
    BY <2>1, SlotForResult
  <2> QED BY <2>1, <2>2 DEF NoDuplicates, Holding
<1> HIDE DEF s, n
<1>3. NoDuplicates(s)
  BY <1>1, <1>2 DEF NoDuplicates, UsedSlots
<1> QED BY <1>3 DEF s

LEMMA ClearKeepsNoDuplicates ==
    ASSUME NEW t \in Tables, NEW k \in Keys, Holding(t, k) # {}, NoDuplicates(t)
    PROVE  NoDuplicates(Clear(t, k))
BY ClearRemoves DEF NoDuplicates, UsedSlots

LEMMA EmptyTableFacts ==
    /\ EmptyTable \in Tables
    /\ NoDuplicates(EmptyTable)
    /\ \A k : Holding(EmptyTable, k) = {}
BY DEF EmptyTable, Tables, Entries, NoDuplicates, UsedSlots, Holding

\* Insertions leave every used entry in its slot, under its key.
LEMMA StoreKeepsEntries ==
    ASSUME NEW t \in Tables, NEW k \in Keys, NEW v \in Values,
           CanStore(t, k), NEW i \in UsedSlots(t)
    PROVE  i \in UsedSlots(Store(t, k, v)) /\ Store(t, k, v)[i].key = t[i].key
<1> DEFINE s == Store(t, k, v)
           n == SlotFor(t, k)
<1>1. s[n] = [used |-> TRUE, key |-> k, val |-> v] /\ \A j \in Slots : j # n => s[j] = t[j]
  BY StoreWrites, Zenon
<1>2. i \in Slots /\ t[i].used
  BY DEF UsedSlots
<1>3. i = n => t[i].key = k
  BY SlotForResult DEF Holding
<1> HIDE DEF s, n
<1>4. s[i].used /\ s[i].key = t[i].key
  BY <1>1, <1>2, <1>3
<1> QED BY <1>2, <1>4 DEF s, UsedSlots

----------------------------------------------------------------------------
(* A table as a map *)

\* Used entries hold a key and a value.
Filled(t) == \A i \in UsedSlots(t) : t[i].key \in Keys /\ t[i].val \in Values

LEMMA LookupResult ==
    ASSUME NEW t, NEW k, NoDuplicates(t), NEW i \in Holding(t, k)
    PROVE  Lookup(t, k) = t[i].val
<1>1. Find(t, k) = i
  BY FindIsTheHolder
<1> QED BY <1>1 DEF Lookup

LEMMA StoreKeepsFilled ==
    ASSUME NEW t \in Tables, NEW k \in Keys, NEW v \in Values,
           CanStore(t, k), Filled(t)
    PROVE  Filled(Store(t, k, v))
<1> DEFINE s == Store(t, k, v)
           n == SlotFor(t, k)
<1>1. s[n] = [used |-> TRUE, key |-> k, val |-> v] /\ \A j \in Slots : j # n => s[j] = t[j]
  BY StoreWrites, Zenon
<1> HIDE DEF s, n
<1>2. Filled(s)
  BY <1>1 DEF Filled, UsedSlots
<1> QED BY <1>2 DEF s

LEMMA ClearKeepsFilled ==
    ASSUME NEW t \in Tables, NEW k \in Keys, Holding(t, k) # {}, Filled(t)
    PROVE  Filled(Clear(t, k))
BY ClearRemoves DEF Filled, UsedSlots

\* Storing sets the value of one key and keeps the others.
LEMMA LookupAfterStore ==
    ASSUME NEW t \in Tables, NEW k \in Keys, NEW v \in Values,
           CanStore(t, k), NoDuplicates(t), NEW m \in Keys
    PROVE  Lookup(Store(t, k, v), m) = IF m = k THEN v ELSE Lookup(t, m)
<1> DEFINE s == Store(t, k, v)
           n == SlotFor(t, k)
<1>1. s[n] = [used |-> TRUE, key |-> k, val |-> v] /\ \A j \in Slots : j # n => s[j] = t[j]
  BY StoreWrites, ZenonT(30)
<1>2. NoDuplicates(s)
  BY StoreKeepsNoDuplicates
<1>3. n \in Slots /\ (n \in UsedSlots(t) => n \in Holding(t, k))
  BY SlotForResult
<1> HIDE DEF s, n
<1>4. CASE m = k
  <2>1. n \in Holding(s, k)
    BY <1>1, <1>3 DEF Holding, UsedSlots
  <2> QED BY <1>1, <1>2, <1>4, <2>1, LookupResult DEF s
<1>5. CASE m # k /\ Holding(t, m) # {}
  <2>1. PICK i \in Holding(t, m) : TRUE
    BY <1>5
  <2>2. i \in Slots /\ i # n
    BY <1>3, <1>5, <2>1 DEF Holding, UsedSlots
  <2>3. i \in Holding(s, m) /\ s[i] = t[i]
    BY <1>1, <2>1, <2>2 DEF Holding, UsedSlots
  <2> QED BY <1>2, <1>5, <2>1, <2>3, LookupResult DEF s
<1>6. CASE m # k /\ Holding(t, m) = {}
  <2>1. Holding(s, m) = {}
    BY <1>1, <1>3, <1>6 DEF Holding, UsedSlots
  <2> QED BY <1>6, <2>1 DEF Lookup, s
<1> QED BY <1>4, <1>5, <1>6

\* Clearing removes one key and keeps the others.
LEMMA LookupAfterClear ==
    ASSUME NEW t \in Tables, NEW k \in Keys, Holding(t, k) # {},
           NoDuplicates(t), NEW m \in Keys
    PROVE  Lookup(Clear(t, k), m) = IF m = k THEN NoValue ELSE Lookup(t, m)
<1> DEFINE s == Clear(t, k)
           h == Find(t, k)
<1>1. h \in Slots /\ ~s[h].used /\ \A i \in Slots : i # h => s[i] = t[i]
  BY ClearRemoves
<1>2. NoDuplicates(s)
  BY ClearKeepsNoDuplicates
<1>3. h \in Holding(t, k)
  BY FindResult
<1> HIDE DEF s, h
<1>4. CASE m = k
  <2>1. Holding(s, k) = {}
    BY <1>1, <1>3 DEF Holding, UsedSlots, NoDuplicates
  <2> QED BY <1>4, <2>1 DEF Lookup, s
<1>5. CASE m # k /\ Holding(t, m) # {}
  <2>1. PICK i \in Holding(t, m) : TRUE
    BY <1>5
  <2>2. i \in Slots /\ i # h
    BY <1>3, <1>5, <2>1 DEF Holding, UsedSlots
  <2>3. i \in Holding(s, m) /\ s[i] = t[i]
    BY <1>1, <2>1, <2>2 DEF Holding, UsedSlots
  <2> QED BY <1>2, <1>5, <2>1, <2>3, LookupResult DEF s
<1>6. CASE m # k /\ Holding(t, m) = {}
  <2>1. Holding(s, m) = {}
    BY <1>1, <1>6 DEF Holding, UsedSlots
  <2> QED BY <1>6, <2>1 DEF Lookup, s
<1> QED BY <1>4, <1>5, <1>6

\* The keys a table holds, when its values are not NULL.
Held(t) == {k \in Keys : Lookup(t, k) # NoValue}

LEMMA HeldIffHolding ==
    ASSUME NEW t, Filled(t), NEW k \in Keys
    PROVE  k \in Held(t) <=> Holding(t, k) # {}
<1>1. CASE Holding(t, k) = {}
  BY <1>1 DEF Held, Lookup
<1>2. CASE Holding(t, k) # {}
  <2>1. Find(t, k) \in UsedSlots(t)
    BY <1>2, FindResult DEF Holding
  <2>2. Lookup(t, k) \in Values
    BY <1>2, <2>1 DEF Lookup, Filled
  <2> QED BY <1>2, <2>2, NoValueAssumption DEF Held
<1> QED BY <1>1, <1>2

\* A table holds as many keys as it has used slots.
LEMMA HeldCardinality ==
    ASSUME NEW t, Filled(t), NoDuplicates(t)
    PROVE  /\ Cardinality(Held(t)) = Cardinality(UsedSlots(t))
           /\ IsFiniteSet(Held(t))
<1>1. IsFiniteSet(UsedSlots(t))
  <2>1. IsFiniteSet(Slots)
    BY MaxEntriesAssumption, FS_Interval DEF Slots
  <2> QED BY <2>1, FS_Subset DEF UsedSlots
<1> DEFINE f == [i \in UsedSlots(t) |-> t[i].key]
<1>2. f \in [UsedSlots(t) -> Held(t)]
  <2>1. SUFFICES ASSUME NEW i \in UsedSlots(t) PROVE t[i].key \in Held(t)
    OBVIOUS
  <2>2. t[i].key \in Keys /\ i \in Holding(t, t[i].key)
    BY DEF Filled, Holding
  <2> QED BY <2>2, HeldIffHolding
<1>3. \A k \in Held(t) : \E i \in UsedSlots(t) : f[i] = k
  <2>1. SUFFICES ASSUME NEW k \in Held(t) PROVE \E i \in UsedSlots(t) : t[i].key = k
    OBVIOUS
  <2>2. Holding(t, k) # {}
    BY HeldIffHolding DEF Held
  <2> QED BY <2>2 DEF Holding
<1>4. \A i, j \in UsedSlots(t) : f[i] = f[j] => i = j
  BY DEF NoDuplicates
<1> HIDE DEF f
<1>5. f \in Bijection(UsedSlots(t), Held(t))
  BY <1>2, <1>3, <1>4 DEF Bijection, Injection, Surjection, IsInjective
<1>6. ExistsBijection(UsedSlots(t), Held(t))
  BY <1>5 DEF ExistsBijection
<1> QED BY <1>1, <1>6, FS_Bijection

\* A key can be stored if it is there or the table holds fewer than MaxEntries.
LEMMA CanStoreIffRoom ==
    ASSUME NEW t, Filled(t), NoDuplicates(t), NEW k \in Keys
    PROVE  CanStore(t, k) <=> (k \in Held(t) \/ Cardinality(Held(t)) < MaxEntries)
<1>1. IsFiniteSet(Slots) /\ Cardinality(Slots) = MaxEntries
  BY MaxEntriesAssumption, FS_Interval DEF Slots
<1>2. UsedSlots(t) \in SUBSET Slots
  BY DEF UsedSlots
<1>3. /\ Cardinality(UsedSlots(t)) <= MaxEntries
      /\ Cardinality(UsedSlots(t)) = MaxEntries => UsedSlots(t) = Slots
      /\ Cardinality(UsedSlots(t)) \in Nat
  BY <1>1, <1>2, FS_Subset, FS_CardinalityType
<1>4. FreeSlots(t) # {} <=> Cardinality(UsedSlots(t)) < MaxEntries
  <2>1. FreeSlots(t) = {} => UsedSlots(t) = Slots
    BY <1>2 DEF FreeSlots
  <2>2. UsedSlots(t) = Slots => FreeSlots(t) = {}
    BY DEF FreeSlots
  <2> QED BY <1>1, <1>3, <2>1, <2>2, MaxEntriesAssumption
<1> QED BY <1>4, HeldCardinality, HeldIffHolding DEF CanStore
=============================================================================
