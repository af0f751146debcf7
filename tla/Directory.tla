----------------------------- MODULE Directory -----------------------------
(***************************************************************************)
(* What the handler registration API promises (include/pus_handler.h): a   *)
(* map from (service, subtype) to at most one handler, bounded in size,    *)
(* where registering again replaces, and where only a registration of a    *)
(* new key can be refused, and only when the map is full.                  *)
(***************************************************************************)
EXTENDS Naturals, FiniteSets

CONSTANTS Capacity, Keys, Values, NoKey, NoValue

VARIABLES
    map,     \* the handler registered under each key, or NoValue
    reply    \* the outcome of the last call

vars == <<map, reply>>

Registered == {k \in Keys : map[k] # NoValue}

Outcome(call, key, status, called) ==
    [call |-> call, key |-> key, status |-> status, called |-> called]

Init ==
    /\ map = [k \in Keys |-> NoValue]
    /\ reply = Outcome("pus_init", NoKey, "OK", NoValue)

Initialise ==
    /\ map' = [k \in Keys |-> NoValue]
    /\ reply' = Outcome("pus_init", NoKey, "OK", NoValue)

Register(k, v) ==
    /\ k \in Registered \/ Cardinality(Registered) < Capacity
    /\ map' = [map EXCEPT ![k] = v]
    /\ reply' = Outcome("pus_handler_register", k, "OK", NoValue)

RefuseRegister(k) ==
    /\ k \notin Registered
    /\ Cardinality(Registered) >= Capacity
    /\ reply' = Outcome("pus_handler_register", k, "TABLE_FULL", NoValue)
    /\ UNCHANGED map

Deregister(k) ==
    /\ map' = [map EXCEPT ![k] = NoValue]
    /\ reply' = Outcome("pus_handler_register", k,
                        IF k \in Registered THEN "OK" ELSE "NO_HANDLER", NoValue)

Invoke(k) ==
    /\ reply' = IF k \in Registered
                THEN Outcome("pus_handler_invoke", k, "CALLED", map[k])
                ELSE Outcome("pus_handler_invoke", k, "NO_HANDLER", NoValue)
    /\ UNCHANGED map

Next ==
    \/ Initialise
    \/ \E k \in Keys :
          \/ \E v \in Values : Register(k, v)
          \/ RefuseRegister(k)
          \/ Deregister(k)
          \/ Invoke(k)

Spec == Init /\ [][Next]_vars
=============================================================================
