------------------------ MODULE RequestVerification ------------------------
(***************************************************************************)
(* What ST[01] promises the sender of a telecommand (include/pus.h and the *)
(* report subtypes of include/pus_services.h): the reports issued about    *)
(* one request, in which order, and which outcome they announce.  Requests *)
(* are independent: nothing here says how they are nested or interleaved.  *)
(***************************************************************************)
EXTENDS Naturals, Sequences

CONSTANT Requests

VARIABLES
    phase,    \* how far each request got
    asked,    \* the reports its acknowledgement flags ask for
    reports   \* the reports issued about it, oldest first

vars == <<phase, asked, reports>>

Flags == {"acceptance", "start", "progress", "completion"}

Phases == {"idle", "pending", "refused", "executing", "succeeded", "failed", "closed"}

\* The reports that precede execution.
Announced(flags) ==
    (IF "acceptance" \in flags THEN <<"acceptance_success">> ELSE <<>>)
    \o (IF "start" \in flags THEN <<"start_success">> ELSE <<>>)

ProgressReports == {"progress_success", "progress_failure"}

Report(r, kind) == reports' = [reports EXCEPT ![r] = Append(@, kind)]

Move(r, from, to) ==
    /\ phase[r] = from
    /\ phase' = [phase EXCEPT ![r] = to]

Reported(r, kind) == \E i \in DOMAIN reports[r] : reports[r][i] = kind

----------------------------------------------------------------------------
Init ==
    /\ phase = [r \in Requests |-> "idle"]
    /\ asked = [r \in Requests |-> {}]
    /\ reports = [r \in Requests |-> <<>>]

Receive(r, flags) ==
    /\ Move(r, "idle", "pending")
    /\ asked' = [asked EXCEPT ![r] = flags]
    /\ UNCHANGED reports

\* A routing failure is a kind of acceptance failure: it is decided before
\* anything was reported, and it is reported whatever the flags ask for.
Refuse(r) ==
    /\ reports[r] = <<>>
    /\ Move(r, "pending", "refused")
    /\ UNCHANGED <<asked, reports>>

ReportRoutingFailure(r) ==
    /\ phase[r] = "refused"
    /\ reports[r] = <<>>
    /\ Report(r, "routing_failure")
    /\ UNCHANGED <<phase, asked>>

ReportAcceptance(r) ==
    /\ phase[r] = "pending"
    /\ "acceptance" \in asked[r]
    /\ reports[r] = <<>>
    /\ Report(r, "acceptance_success")
    /\ UNCHANGED <<phase, asked>>

ReportStart(r) ==
    /\ phase[r] = "pending"
    /\ "start" \in asked[r]
    /\ reports[r] = Announced(asked[r] \ {"start"})
    /\ Report(r, "start_success")
    /\ UNCHANGED <<phase, asked>>

Execute(r) ==
    /\ reports[r] = Announced(asked[r])
    /\ Move(r, "pending", "executing")
    /\ UNCHANGED <<asked, reports>>

ReportProgress(r, kind) ==
    /\ phase[r] = "executing"
    /\ Report(r, kind)
    /\ UNCHANGED <<phase, asked>>

Finish(r, outcome) ==
    /\ Move(r, "executing", outcome)
    /\ UNCHANGED <<asked, reports>>

ReportCompletion(r, outcome, kind) ==
    /\ phase[r] = outcome
    /\ "completion" \in asked[r]
    /\ ~Reported(r, kind)
    /\ Report(r, kind)
    /\ UNCHANGED <<phase, asked>>

\* A request is closed only after its last report was issued.
Close(r) ==
    /\ \/ phase[r] = "refused" /\ Reported(r, "routing_failure")
       \/ /\ phase[r] = "succeeded"
          /\ "completion" \in asked[r] => Reported(r, "completion_success")
       \/ /\ phase[r] = "failed"
          /\ "completion" \in asked[r] => Reported(r, "completion_failure")
    /\ Move(r, phase[r], "closed")
    /\ UNCHANGED <<asked, reports>>

Next ==
    \E r \in Requests :
        \/ \E flags \in SUBSET Flags : Receive(r, flags)
        \/ Refuse(r)
        \/ ReportRoutingFailure(r)
        \/ ReportAcceptance(r)
        \/ ReportStart(r)
        \/ Execute(r)
        \/ \E kind \in ProgressReports : ReportProgress(r, kind)
        \/ \E outcome \in {"succeeded", "failed"} : Finish(r, outcome)
        \/ ReportCompletion(r, "succeeded", "completion_success")
        \/ ReportCompletion(r, "failed", "completion_failure")
        \/ Close(r)

Spec == Init /\ [][Next]_vars
=============================================================================
