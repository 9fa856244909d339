------------------------------- MODULE Drain --------------------------------
(***************************************************************************)
(* Does everything that is queued get an answer?  The delivery loop stops   *)
(* at the first message that is not delivered, reads its queue once, and    *)
(* any check may be killed: this module keeps of the outbox only what that  *)
(* question needs, and lets checks run for ever.                            *)
(*                                                                         *)
(* A message here is a place in the line: a batch that loses members is     *)
(* replaced by a copy with the same age and retry time, which keeps its     *)
(* place.  Decided rows leave the line, and their place may be used again   *)
(* for a new message.  The line is in the order of pending_outbox: oldest   *)
(* first, and alerts before resolutions of the same run.                    *)
(***************************************************************************)
EXTENDS Naturals, SequencesExt

CONSTANTS Message, NoMessage

ASSUME MessageAssumption == IsFiniteSet(Message)
ASSUME NoMessageAssumption == NoMessage \notin Message

VARIABLES
    line,       \* the messages that are pending, retryable or in flight
    waiting,    \* the retryable ones whose next_retry_at has not come yet
    flight,     \* the message with a durable claim, or NoMessage
    pc,         \* where the running check is; "idle" when there is none
    queue,      \* messages read by pending_outbox and not attempted yet
    answer      \* what the provider's answer was classified as

process == <<pc, queue, answer>>
vars == <<line, waiting, flight, process>>

-----------------------------------------------------------------------------
Init ==
    /\ line = <<>>
    /\ waiting = {}
    /\ flight = NoMessage
    /\ pc = "idle"
    /\ queue = <<>>
    /\ answer = "unknown"

Exits ==
    /\ pc' = "idle"
    /\ queue' = <<>>
    /\ answer' = "unknown"

\* The messages of S one after another as they are in seq; there is one such
\* sequence if seq has them all.
Sorted(S, seq) ==
    {s \in SetToSeqs(S) :
        \A i, j \in DOMAIN s : i < j =>
            \E k, l \in DOMAIN seq : k < l /\ s[i] = seq[k] /\ s[j] = seq[l]}

\* The line without some of its messages.
Without(gone) == Sorted(ToSet(line) \ gone, line)

\* Five seconds have passed since the message's last attempt.
Elapse(m) ==
    /\ m \in waiting
    /\ waiting' = waiting \ {m}
    /\ UNCHANGED <<line, flight, process>>

\* The timer, or a person, starts a check.
StartCheck ==
    /\ pc = "idle"
    /\ pc' = "recovering"
    /\ UNCHANGED <<line, waiting, flight, queue, answer>>

\* recover_interrupted_attempts: the message is quarantined.
RecoverAttempt ==
    /\ pc = "recovering"
    /\ flight # NoMessage
    /\ line' \in Without({flight})
    /\ flight' = NoMessage
    /\ UNCHANGED <<waiting, process>>

RecoverDone ==
    /\ pc = "recovering"
    /\ flight = NoMessage
    /\ pc' = "observing"
    /\ UNCHANGED <<line, waiting, flight, queue, answer>>

\* commit_run: unsent messages are withdrawn, new ones join the end of the
\* line.  A run that suppresses notifications queues nothing and sends nothing.
CommitRun ==
    /\ pc = "observing"
    /\ \E withdrawn \in SUBSET ToSet(line), suppress \in BOOLEAN :
       \E new \in SUBSET (Message \ ToSet(line)) :
       \E rest \in Without(withdrawn), arrivals \in SetToSeqs(new) :
         /\ suppress => new = {}
         /\ line' = rest \o arrivals
         /\ waiting' = waiting \ withdrawn
         /\ pc' = IF suppress THEN "finishing" ELSE "committed"
    /\ UNCHANGED <<flight, queue, answer>>

Eligible == ToSet(line) \ waiting

\* Mutant: the newest messages are read first.
NewestFirst == Sorted(Eligible, Reverse(line))

\* What pending_outbox selects, in its order.
Pending == Sorted(Eligible, line)

ReadPending ==
    /\ pc = "committed"
    /\ queue' \in Pending
    /\ pc' = "delivering"
    /\ UNCHANGED <<line, waiting, flight, answer>>

\* begin_notification_attempt; it returns an error, and the check ends, when
\* the message is no longer eligible.
BeginAttempt ==
    /\ pc = "delivering"
    /\ queue # <<>>
    /\ Head(queue) \in Eligible
    /\ flight' = Head(queue)
    /\ queue' = Tail(queue)
    /\ pc' = "sending"
    /\ UNCHANGED <<line, waiting, answer>>

\* The provider's answer about the claimed message.
Answer(m, result) ==
    /\ pc = "sending"
    /\ flight = m
    /\ answer' = result
    /\ pc' = "sent"
    /\ UNCHANGED <<line, waiting, flight, queue>>

Decided == {"delivered", "failed", "unknown"}

Send == \E m \in Message, result \in Decided \cup {"retryable"} : Answer(m, result)

\* Mutant: after a retryable answer the loop takes the message again.
TakesItAgain ==
    IF answer = "retryable" THEN <<"delivering", <<flight>> \o queue>>
    ELSE <<IF answer = "delivered" THEN "delivering" ELSE "finishing", queue>>

\* Where the check goes on, and with which messages: the loop stops after
\* anything but a delivery.
GoesOn == <<IF answer = "delivered" THEN "delivering" ELSE "finishing", queue>>

\* record_notification_attempt, and the end of the loop's body.
RecordAttempt ==
    /\ pc = "sent"
    /\ line' \in Without(IF answer \in Decided THEN {flight} ELSE {})
    /\ waiting' = IF answer \in Decided THEN waiting ELSE waiting \cup {flight}
    /\ flight' = NoMessage
    /\ pc' = GoesOn[1]
    /\ queue' = GoesOn[2]
    /\ answer' = "unknown"

Finish ==
    /\ pc = "finishing" \/ (pc = "delivering" /\ queue = <<>>)
    /\ Exits
    /\ UNCHANGED <<line, waiting, flight>>

\* The process is killed or returns an error, at any point.
EndEarly ==
    /\ pc # "idle"
    /\ Exits
    /\ UNCHANGED <<line, waiting, flight>>

Next ==
    \/ \E m \in Message : Elapse(m)
    \/ StartCheck
    \/ RecoverAttempt
    \/ RecoverDone
    \/ CommitRun
    \/ ReadPending
    \/ BeginAttempt
    \/ Send
    \/ RecordAttempt
    \/ Finish
    \/ EndEarly

(***************************************************************************)
(* Fairness.  Time passes and the timer starts checks; a check that is not  *)
(* killed goes on.  EndEarly has no fairness, but may happen in any check:  *)
(* strong fairness of the steps says only that checks are not killed at the *)
(* same point for ever, and that notifications are not disabled for good.   *)
(* Of the provider it says that no single message gets connection failures  *)
(* and 5xx answers for ever.                                                *)
(***************************************************************************)
Fairness ==
    /\ \A m \in Message : WF_vars(Elapse(m))
    /\ WF_vars(StartCheck)
    /\ SF_vars(RecoverAttempt)
    /\ SF_vars(RecoverDone)
    /\ SF_vars(CommitRun /\ pc' = "committed")
    /\ SF_vars(ReadPending)
    /\ SF_vars(BeginAttempt)
    /\ \A m \in Message : SF_vars(\E result \in Decided : Answer(m, result))
    /\ SF_vars(RecordAttempt)
    /\ WF_vars(Finish)

Spec == Init /\ [][Next]_vars /\ Fairness

-----------------------------------------------------------------------------
(* Properties.                                                             *)

\* Every queued message is eventually decided or withdrawn, however checks are
\* killed, whatever is queued after it and however often the messages before
\* it are refused: nothing is stuck behind the loop's early stop, behind its
\* own backoff, or in flight.
EveryMessageIsDecided ==
    \A m \in Message : m \in ToSet(line) ~> m \notin ToSet(line)

\* The queue is read once and used over the whole loop; still no claim is
\* refused because what was read is stale: each message left in it is in the
\* line, due and not in flight, and no message is twice in it.
QueueStaysEligible ==
    pc \in {"delivering", "sending", "sent"} =>
        /\ ToSet(queue) \subseteq Eligible \ {flight}
        /\ IsInjective(queue)

=============================================================================
