----------------------------- MODULE SlotTable -----------------------------
(***************************************************************************)
(* The fixed-size table idiom of the library: an array of entries with an  *)
(* is_used flag, searched linearly by key.  The dispatch table of a PUS    *)
(* context (src/src/pus_handler.c) is one; the structure table of ST[03]   *)
(* and the parameter table of ST[20] have the same search and the same     *)
(* insertion, written again in each file.                                  *)
(*                                                                         *)
(* A key stands for what the search compares ((service, subtype) here), a  *)
(* value for what the entry carries (handler and user_data).  Clearing an  *)
(* entry resets its flag only: its key and its value stay behind in the    *)
(* array, which is what a reader holding an old index would see.           *)
(***************************************************************************)
EXTENDS Integers, FiniteSets

CONSTANTS
    MaxEntries,   \* number of slots, e.g. PUS_MAX_TC_HANDLERS
    Keys,         \* what entries are registered under
    Values,       \* what entries hold
    NoKey,        \* the key of a slot that was never written (all bytes zero)
    NoValue       \* the NULL value

ASSUME MaxEntriesAssumption == MaxEntries \in Nat \ {0}
ASSUME NoKeyAssumption == NoKey \notin Keys
ASSUME NoValueAssumption == NoValue \notin Values

Slots == 0 .. MaxEntries - 1

Entries == [used : BOOLEAN, key : Keys \cup {NoKey}, val : Values \cup {NoValue}]

Tables == [Slots -> Entries]

EmptyTable == [i \in Slots |-> [used |-> FALSE, key |-> NoKey, val |-> NoValue]]

----------------------------------------------------------------------------
UsedSlots(t) == {i \in Slots : t[i].used}

FreeSlots(t) == Slots \ UsedSlots(t)

\* The slots a linear search for key k stops at.
Holding(t, k) == {i \in UsedSlots(t) : t[i].key = k}

\* The slot an ascending scan of S meets first.
First(S) == CHOOSE i \in S : \A j \in S : i <= j

\* The index of k's entry, or -1.
Find(t, k) == IF Holding(t, k) = {} THEN -1 ELSE First(Holding(t, k))

\* The value registered under k, or NoValue.
Lookup(t, k) == IF Holding(t, k) = {} THEN NoValue ELSE t[Find(t, k)].val

----------------------------------------------------------------------------
(* Plausible slips in the code below.  Nothing uses them: each is put in the *)
(* place of the definition that follows to see which property notices.       *)

\* Replacing an entry is refused once the table is full.
CanStoreIfRoom(t, k) == FreeSlots(t) # {}

\* The scan stops at the first slot that would do.
FirstUsableSlot(t, k) == First(Holding(t, k) \cup FreeSlots(t))

\* The entries behind a hole are moved up.
ClearAndCompact(t, k) ==
    [i \in Slots |->
        IF i < Find(t, k) THEN t[i]
        ELSE IF i + 1 \in Slots THEN t[i + 1] ELSE EmptyTable[i]]

----------------------------------------------------------------------------
CanStore(t, k) == Holding(t, k) # {} \/ FreeSlots(t) # {}

\* The whole table is scanned for k before a free slot is taken: an entry that
\* holds k gets the new value, whatever free slots precede it.
SlotFor(t, k) == IF Holding(t, k) # {} THEN Find(t, k) ELSE First(FreeSlots(t))

\* (slip: the fields are filled in the wrong order)
StoreFieldsSwapped(t, k, v) ==
    [t EXCEPT ![SlotFor(t, k)] = [used |-> TRUE, key |-> v, val |-> k]]

Store(t, k, v) == [t EXCEPT ![SlotFor(t, k)] = [used |-> TRUE, key |-> k, val |-> v]]

\* Only the flag is reset.
Clear(t, k) == [t EXCEPT ![Find(t, k)] = [used |-> FALSE, key |-> @.key, val |-> @.val]]
=============================================================================
