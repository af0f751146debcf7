------------------------------ MODULE MCServices ------------------------------
(* An application of Services for TLC. *)
EXTENDS Services

CommandKeys == ServiceKeys \cup {"TC[8,1]"}
Handlers == ServiceKeys \cup {"own"}

\* Telecommands come at top level, while a sink sends, and from the
\* application's handlers, getters and setters, which also build packets and
\* change the sink.
Serving ==
    [main    |-> {"pus_init", "pus_handler_register", "deregister", "pus_tc_process"},
     handler |-> {"pus_tm_build", "pus_tc_process", "pus_set_tm_sink"},
     sink    |-> {"pus_tc_process"},
     clock   |-> {}]

\* The application keeps what the theorem AnswersAreTold asks of it.
ASSUME ServingAssumption == HandlersStay

OnlyAcceptance == {{"acceptance"}}
SomeKeys == {"TC[17,1]", "TC[20,1]"}

\* The buffers are alike, and the run has invariants only.
BuffersAreAlike == Permutations(Buffers)

\* What is left of a request and of all that came before it, once none of them is being
\* processed, is history: nothing that can still happen, and no property, depends on it.
Live == {r \in Received : \E p \in InProcess : p <= r}
WithoutThePast ==
    <<ctxVars, lastSeq, stack, ret, calls, registering, registered, Cardinality(Received),
      [r \in Live |-> <<tc[r], reports[r], given[r], answers[r]>>]>>
=============================================================================
