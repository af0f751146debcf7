------------------------------- MODULE MCTasks -------------------------------
(* Two tasks for TLC: what they and their callbacks call. *)
EXTENDS Tasks

\* The handlers, the sink and the time source are the context's, and so the same
\* in both tasks: handlers process further telecommands, the sink builds telemetry
\* of its own.
Callbacks == [main    |-> {},
              handler |-> {"pus_tc_process"},
              sink    |-> {"pus_tm_build"},
              clock   |-> {}]

TcCalls == [Callbacks EXCEPT !["main"] = {"pus_tc_process"}]
HkCalls == [Callbacks EXCEPT !["main"] =
               {"pus_init", "pus_handler_register", "deregister", "pus_tm_build"}]

AroundExecution == {{"acceptance", "completion"}}
=============================================================================
