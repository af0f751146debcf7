---------------------------- MODULE HandlerTable ----------------------------
(***************************************************************************)
(* The dispatch table of a PUS context, as src/src/pus_handler.c keeps it: *)
(* one action per public call, over the array of SlotTable.  The value     *)
(* reply is what the call hands back: its status and, for an invocation,   *)
(* the handler that was called (whose own status the call returns).        *)
(***************************************************************************)
EXTENDS SlotTable

VARIABLES
    table,   \* ctx->handler_table
    reply    \* the outcome of the last call

vars == <<table, reply>>

Outcome(call, key, status, called) ==
    [call |-> call, key |-> key, status |-> status, called |-> called]

Calls == {"pus_init", "pus_handler_register", "pus_handler_invoke"}

Statuses == {"OK", "NO_HANDLER", "TABLE_FULL", "CALLED"}

TypeOK ==
    /\ table \in Tables
    /\ reply \in [call : Calls, key : Keys \cup {NoKey},
                 status : Statuses, called : Values \cup {NoValue}]

----------------------------------------------------------------------------
Init ==
    /\ table = EmptyTable
    /\ reply = Outcome("pus_init", NoKey, "OK", NoValue)

Initialise ==
    /\ table' = EmptyTable
    /\ reply' = Outcome("pus_init", NoKey, "OK", NoValue)

\* pus_handler_register with a handler.
Register(k, v) ==
    /\ CanStore(table, k)
    /\ table' = Store(table, k, v)
    /\ reply' = Outcome("pus_handler_register", k, "OK", NoValue)

RefuseRegister(k) ==
    /\ ~CanStore(table, k)
    /\ reply' = Outcome("pus_handler_register", k, "TABLE_FULL", NoValue)
    /\ UNCHANGED table

\* pus_handler_register with a NULL handler.
Deregister(k) ==
    /\ Holding(table, k) # {}
    /\ table' = Clear(table, k)
    /\ reply' = Outcome("pus_handler_register", k, "OK", NoValue)

RefuseDeregister(k) ==
    /\ Holding(table, k) = {}
    /\ reply' = Outcome("pus_handler_register", k, "NO_HANDLER", NoValue)
    /\ UNCHANGED table

\* pus_handler_invoke: the handler it calls is the one at the index it found.
Invoke(k) ==
    /\ reply' = IF Find(table, k) < 0
                THEN Outcome("pus_handler_invoke", k, "NO_HANDLER", NoValue)
                ELSE Outcome("pus_handler_invoke", k, "CALLED", table[Find(table, k)].val)
    /\ UNCHANGED table

Next ==
    \/ Initialise
    \/ \E k \in Keys :
          \/ \E v \in Values : Register(k, v)
          \/ RefuseRegister(k)
          \/ Deregister(k)
          \/ RefuseDeregister(k)
          \/ Invoke(k)

Spec == Init /\ [][Next]_vars

----------------------------------------------------------------------------
\* No key is held by two used entries, whatever holes deregistration left:
\* a second registration of a key behind a hole must replace the entry, not
\* fill the hole, or a later deregistration would uncover the stale one.
UniqueKeys ==
    \A i, j \in UsedSlots(table) : table[i].key = table[j].key => i = j

\* An entry keeps its slot: while the context is not initialised again, a call
\* on one key neither moves, re-keys, alters nor drops the entry of another.
\* Indices found before a call stay good after it for every entry the call was
\* not about.
EntriesStayPut ==
    [][ reply'.call # "pus_init" =>
          \A i \in UsedSlots(table) :
              table[i].key # reply'.key => table'[i] = table[i] ]_vars

\* The array implements the bounded map of Directory.
D == INSTANCE Directory WITH
        Capacity <- MaxEntries,
        map <- [k \in Keys |-> Lookup(table, k)]

ImplementsDirectory == D!Spec
=============================================================================
