------------------------------ MODULE Reports -------------------------------
(***************************************************************************)
(* What a loaded report says of a stored run beyond the row of the run: it  *)
(* is put together from the outbox whenever it is read, long after the run, *)
(* while later runs withdraw, split, attempt and recover its messages.      *)
(* load_reports reads under one SQLite snapshot, so that a report is a      *)
(* function of one state of Delivery, whoever asks for it and when.         *)
(***************************************************************************)
EXTENDS Delivery

RowsOf(r) == {m \in DOMAIN outbox : m.run = r}

\* load_notification_reports
Notifications(r) == [m \in RowsOf(r) |-> outbox[m].status]

\* load_transitions: what any row of the run tells, cancelled ones included.
Transitions(r) == UNION {{<<m.kind, p[1]>> : p \in m.members} : m \in RowsOf(r)}

\* load_report
LoadedReport(r) ==
    [exit |-> runs[r].exit, activity |-> runs[r].activity, evidence |-> runs[r].evidence,
     notifications |-> Notifications(r), transitions |-> Transitions(r)]

\* load_reports without a limit: the stored runs not before `since`.
LoadedReports(since) ==
    [r \in {q \in DOMAIN runs : q >= since} |-> LoadedReport(r)]

-----------------------------------------------------------------------------
(* Properties.                                                             *)

\* A stored report keeps its history while later runs change its messages: its
\* transitions stay what they were when its run was committed, none of its
\* notifications is lost, and an exit that failed for a delivery stays failed.
ReportsKeepTheirHistory ==
    [][LET before == LoadedReports(1)
           after == LoadedReports(1)'
       IN  \A r \in DOMAIN before \cap DOMAIN after :
             /\ after[r].transitions = before[r].transitions
             /\ DOMAIN before[r].notifications \subseteq DOMAIN after[r].notifications
             /\ before[r].exit = 4 => after[r].exit = 4]_vars

\* An episode's alert, and its resolution, is told by the reports of one run
\* only, in however many messages it was split into and tried.
ToldByOneRun ==
    \A m, n \in DOMAIN outbox :
        m.kind = n.kind /\ m.members \cap n.members # {} => m.run = n.run

-----------------------------------------------------------------------------
(* What these properties, and the reports of Delivery, rest on besides the *)
(* invariant of Delivery.                                                  *)

\* A transition of an episode is told after the latch made it: an episode that
\* is pending has no row, and one that is not clear has no resolution.
RowsFollowLatches ==
    \A m \in DOMAIN outbox : \A p \in m.members : latch[p[1]].episode = p[2] =>
        /\ latch[p[1]].lifecycle # "pending"
        /\ m.kind = "resolution" => latch[p[1]].lifecycle = "clear"

\* Stored runs are no younger than the newest, nor are recovered attempts; from
\* its commit on, the running check's own report is stored.
RunsAreNumbered ==
    /\ \A r \in DOMAIN runs : r <= last
    /\ \A a \in recovered : a.executor <= last
    /\ pc \in {"committed", "delivering", "sending", "sent", "finishing"} => last \in DOMAIN runs

\* What is in flight, by where the check is.
AtMostOneInFlight ==
    /\ \A m, n \in InFlight : m = n
    /\ pc \in {"observing", "committed", "delivering", "finishing"} => InFlight = {}
    /\ pc \in {"sending", "sent"} => outbox[sending].executor = last

\* The running check knows its exit code, and while it delivers, the attempts
\* its report shows were all delivered, but for the one being sent.
CheckKnowsItsReport ==
    /\ pc = "observing" => (failed <=> recovered # {})
    /\ pc \in {"sending", "sent"} => (failed <=> runs[last].exit = 4)
    /\ pc \in {"committed", "delivering", "sending", "sent"} =>
         \A e \in runs[last].activity : e.executor = last =>
            \/ e.result = "delivered"
            \/ pc \in {"sending", "sent"} /\ e.message = sending /\ e.result = "in_flight"

ReportInv ==
    /\ ToldByOneRun
    /\ InFlightIsRecoverable
    /\ ExitMatchesActivity
    /\ ClaimsAreTrue
    /\ RowsFollowLatches
    /\ RunsAreNumbered
    /\ AtMostOneInFlight
    /\ CheckKnowsItsReport

=============================================================================
