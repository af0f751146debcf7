------------------------------ MODULE MCPusCore ------------------------------
(* Applications of PusCore for TLC: what each piece of code calls. *)
EXTENDS PusCore

SomeAcks == {{}, {"acceptance", "completion"}, Flags}
BeforeExecution == {{"acceptance", "start"}}

\* Handlers process further telecommands and report progress; the sink builds
\* telemetry of its own.
Verifying ==
    [main    |-> {"pus_init", "pus_handler_register", "pus_tc_process"},
     handler |-> {"pus_tc_process", "pus_service_1_emit"},
     sink    |-> {"pus_tm_build"},
     clock   |-> {}]

\* Everybody changes the table and builds packets, sent and unsent; the sink and the
\* clock leave the entries in place, and the clock builds nothing.
Nesting ==
    [main    |-> {"pus_init", "pus_handler_register", "deregister", "pus_tc_process",
                  "pus_handler_invoke", "pus_tm_build"},
     handler |-> {"pus_init", "deregister", "pus_tc_process", "pus_service_1_build"},
     sink    |-> {"pus_handler_register", "pus_set_tm_sink", "pus_tm_build"},
     clock   |-> {"pus_handler_register", "pus_set_tm_sink"}]

\* One well-behaved command at a time.
Plain ==
    [main    |-> {"pus_init", "pus_handler_register", "pus_tc_process"},
     handler |-> {},
     sink    |-> {},
     clock   |-> {}]

\* The sink also takes handlers out of the dispatch table.
DeregisteringSink ==
    [Plain EXCEPT !["sink"] = {"deregister", "pus_handler_register"}]
=============================================================================
