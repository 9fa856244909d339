---------------------------- MODULE DrainProofs -----------------------------
(***************************************************************************)
(* Every check of Drain, for every set of places in the line: the queue     *)
(* that a check reads once stays usable until the check ends.               *)
(***************************************************************************)
EXTENDS Drain, FiniteSetTheorems, TLAPS

-----------------------------------------------------------------------------
(* What the order of the line does not touch.                              *)

\* A sequence taken from the line has the messages asked for, each once.
LEMMA SortedHasAll ==
    ASSUME NEW S \in SUBSET Message, NEW seq, NEW s \in Sorted(S, seq)
    PROVE  /\ s \in Seq(S)
           /\ ToSet(s) = S
           /\ IsInjective(s)
<1> DEFINE D == 1..Cardinality(S)
<1>1. /\ IsFiniteSet(S)
      /\ Cardinality(S) \in Nat
  BY FS_Subset, FS_CardinalityType, MessageAssumption
<1>2. /\ s \in [D -> S]
      /\ \A i, j \in D : i # j => s[i] # s[j]
  BY DEF Sorted, SetToSeqs
<1>3. IsInjective(s)
  BY <1>2 DEF IsInjective
<1>4. s \in Seq(S)
  BY <1>1, <1>2
<1>5. Cardinality(D) = Cardinality(S)
  BY <1>1, FS_Interval
<1>6. s \in Injection(D, S)
  BY <1>2, <1>3 DEF Injection
<1>7. s \in Surjection(D, S)
  BY <1>1, <1>5, <1>6, FS_Injection
<1>8. \A m \in S : \E i \in D : s[i] = m
  BY <1>7 DEF Surjection
<1>9. DOMAIN s = D
  BY <1>2
<1>10. ToSet(s) = S
  BY <1>2, <1>8, <1>9 DEF ToSet
<1>. QED  BY <1>3, <1>4, <1>10

\* The same of a sequence that holds a set in any order.
LEMMA AnyOrderIsASequence ==
    ASSUME NEW S \in SUBSET Message, NEW s \in SetToSeqs(S)
    PROVE  s \in Seq(S)
<1>1. Cardinality(S) \in Nat
  BY FS_Subset, FS_CardinalityType, MessageAssumption
<1>. QED  BY <1>1 DEF SetToSeqs

\* What is left of a queue when its head has been taken.
LEMMA TakingTheHead ==
    ASSUME NEW s \in Seq(Message), s # <<>>, IsInjective(s)
    PROVE  /\ Head(s) \in Message
           /\ Tail(s) \in Seq(Message)
           /\ ToSet(Tail(s)) \subseteq ToSet(s) \ {Head(s)}
           /\ IsInjective(Tail(s))
<1>1. /\ Head(s) = s[1]
      /\ Head(s) \in Message
      /\ Tail(s) \in Seq(Message)
      /\ DOMAIN Tail(s) = 1..(Len(s) - 1)
      /\ Len(s) \in Nat \ {0}
      /\ DOMAIN s = 1..Len(s)
  OBVIOUS
<1>2. \A i \in DOMAIN Tail(s) :
        /\ i + 1 \in DOMAIN s
        /\ i + 1 # 1
        /\ Tail(s)[i] = s[i + 1]
  BY <1>1
<1>3. 1 \in DOMAIN s
  BY <1>1
<1>4. ToSet(Tail(s)) \subseteq ToSet(s) \ {Head(s)}
  BY <1>1, <1>2, <1>3 DEF ToSet, IsInjective
<1>5. ASSUME NEW i \in DOMAIN Tail(s), NEW j \in DOMAIN Tail(s),
             Tail(s)[i] = Tail(s)[j]
      PROVE  i = j
  <2>1. i + 1 = j + 1
    BY <1>2, <1>5 DEF IsInjective
  <2>. QED  BY <1>1, <2>1
<1>6. IsInjective(Tail(s))
  BY <1>5 DEF IsInjective
<1>. QED  BY <1>1, <1>4, <1>6

-----------------------------------------------------------------------------
(* The invariant.                                                          *)

Place == {"idle", "recovering", "observing", "committed", "delivering",
          "sending", "sent", "finishing"}

TypeOK ==
    /\ line \in Seq(Message)
    /\ waiting \in SUBSET Message
    /\ flight \in Message \cup {NoMessage}
    /\ pc \in Place
    /\ queue \in Seq(Message)
    /\ answer \in Decided \cup {"retryable"}

\* A check has no claim from the end of its recovery to its first attempt, nor
\* between two attempts, and one during an attempt.
ClaimsAreAttempts ==
    /\ pc \in {"observing", "committed", "delivering", "finishing"} =>
           flight = NoMessage
    /\ pc \in {"sending", "sent"} => flight \in Message

\* A message with a claim is in the line and its time has come, also when the
\* check that claimed it is gone.
ClaimIsDue == flight # NoMessage => flight \in Eligible

IInv == TypeOK /\ ClaimsAreAttempts /\ ClaimIsDue /\ QueueStaysEligible

\* At the start there is nothing.
LEMMA InitIInv == Init => IInv
BY DEF Init, IInv, TypeOK, Place, Decided, ClaimsAreAttempts, ClaimIsDue,
       QueueStaysEligible

\* A sequence of messages of the line consists of messages.
LEMMA LineHasMessages ==
    ASSUME NEW s \in Seq(Message)
    PROVE  ToSet(s) \subseteq Message
BY DEF ToSet

\* A time that comes only makes more messages eligible.
LEMMA ElapseIInv ==
    ASSUME IInv, NEW m \in Message, Elapse(m)
    PROVE  IInv'
<1> USE DEF Elapse, process
<1>1. TypeOK'
  BY DEF IInv, TypeOK
<1>2. Eligible \subseteq Eligible'
  BY DEF Eligible
<1>3. ClaimsAreAttempts' /\ ClaimIsDue'
  BY <1>2 DEF IInv, ClaimsAreAttempts, ClaimIsDue
<1>4. QueueStaysEligible'
  BY <1>2 DEF IInv, QueueStaysEligible
<1>. QED  BY <1>1, <1>3, <1>4 DEF IInv

\* A killed or finished check leaves its claim, which no later check uses
\* before it is recovered.
LEMMA ExitsIInv ==
    ASSUME IInv, Exits, UNCHANGED <<line, waiting, flight>>
    PROVE  IInv'
<1> USE DEF Exits
<1>1. TypeOK'
  BY DEF IInv, TypeOK, Place, Decided
<1>2. Eligible' = Eligible
  BY DEF Eligible
<1>3. ClaimsAreAttempts' /\ ClaimIsDue' /\ QueueStaysEligible'
  BY <1>2 DEF IInv, ClaimsAreAttempts, ClaimIsDue, QueueStaysEligible
<1>. QED  BY <1>1, <1>3 DEF IInv

\* Up to the reading of the queue: recovery leaves no claim, and what a run
\* withdraws or queues meets none.
LEMMA RecoverIInv ==
    ASSUME IInv, StartCheck \/ RecoverAttempt \/ RecoverDone
    PROVE  IInv'
<1>1. CASE StartCheck
  BY <1>1 DEF StartCheck, IInv, TypeOK, Place, ClaimsAreAttempts, ClaimIsDue,
              Eligible, QueueStaysEligible
<1>2. CASE RecoverAttempt
  <2>1. ToSet(line) \ {flight} \in SUBSET Message
    BY LineHasMessages DEF IInv, TypeOK
  <2>2. line' \in Seq(ToSet(line) \ {flight})
    BY <1>2, <2>1, SortedHasAll DEF RecoverAttempt, Without
  <2>3. line' \in Seq(Message)
    BY <2>1, <2>2
  <2>. QED  BY <1>2, <2>3 DEF RecoverAttempt, process, IInv, TypeOK, Place,
                               ClaimsAreAttempts, ClaimIsDue, QueueStaysEligible
<1>3. CASE RecoverDone
  BY <1>3 DEF RecoverDone, IInv, TypeOK, Place, ClaimsAreAttempts, ClaimIsDue,
              QueueStaysEligible
<1>. QED  BY <1>1, <1>2, <1>3

\* commit_run, which runs without a claim.
LEMMA CommitRunIInv ==
    ASSUME IInv, CommitRun
    PROVE  IInv'
<1>1. ToSet(line) \in SUBSET Message
  BY LineHasMessages DEF IInv, TypeOK
<1>2. PICK withdrawn \in SUBSET ToSet(line), suppress \in BOOLEAN :
         \E new \in SUBSET (Message \ ToSet(line)) :
         \E rest \in Without(withdrawn), arrivals \in SetToSeqs(new) :
           /\ line' = rest \o arrivals
           /\ waiting' = waiting \ withdrawn
           /\ pc' = IF suppress THEN "finishing" ELSE "committed"
  BY DEF CommitRun
<1>3. PICK new \in SUBSET (Message \ ToSet(line)) :
         \E rest \in Without(withdrawn), arrivals \in SetToSeqs(new) :
           line' = rest \o arrivals
  BY <1>2
<1>4. PICK rest \in Without(withdrawn) : \E arrivals \in SetToSeqs(new) :
           line' = rest \o arrivals
  BY <1>3
<1>5. PICK arrivals \in SetToSeqs(new) : line' = rest \o arrivals
  BY <1>4
<1>6. rest \in Seq(Message)
  <2>1. ToSet(line) \ withdrawn \in SUBSET Message
    BY <1>1
  <2>2. rest \in Seq(ToSet(line) \ withdrawn)
    BY <2>1, SortedHasAll DEF Without
  <2>. QED  BY <2>1, <2>2
<1>7. arrivals \in Seq(Message)
  <2>1. new \in SUBSET Message
    OBVIOUS
  <2>2. arrivals \in Seq(new)
    BY <2>1, AnyOrderIsASequence
  <2>. QED  BY <2>1, <2>2
<1>8. line' \in Seq(Message)
  BY <1>5, <1>6, <1>7
<1>9. /\ pc = "observing"
      /\ pc' \in {"committed", "finishing"}
      /\ UNCHANGED <<flight, queue, answer>>
  BY <1>2 DEF CommitRun
<1>10. TypeOK'
  BY <1>2, <1>8, <1>9 DEF IInv, TypeOK, Place
<1>. QED  BY <1>9, <1>10 DEF IInv, ClaimsAreAttempts, ClaimIsDue,
                              QueueStaysEligible, TypeOK

\* pending_outbox gives eligible messages, each once, when there is no claim.
LEMMA ReadPendingIInv ==
    ASSUME IInv, ReadPending
    PROVE  IInv'
<1>1. Eligible \in SUBSET Message
  BY LineHasMessages DEF IInv, TypeOK, Eligible
<1>2. /\ queue' \in Seq(Eligible)
      /\ ToSet(queue') = Eligible
      /\ IsInjective(queue')
  BY <1>1, SortedHasAll DEF ReadPending, Pending
<1>3. queue' \in Seq(Message)
  BY <1>1, <1>2
<1>4. TypeOK'
  BY <1>3 DEF ReadPending, IInv, TypeOK, Place
<1>5. Eligible' = Eligible
  BY DEF ReadPending, Eligible
<1>6. flight = NoMessage
  BY DEF ReadPending, IInv, ClaimsAreAttempts
<1>7. QueueStaysEligible'
  BY <1>1, <1>2, <1>5, <1>6, NoMessageAssumption
     DEF ReadPending, QueueStaysEligible
<1>8. ClaimsAreAttempts' /\ ClaimIsDue'
  BY <1>6 DEF ReadPending, ClaimsAreAttempts, ClaimIsDue
<1>. QED  BY <1>4, <1>7, <1>8 DEF IInv

\* The claimed message leaves the queue, and was in it only once.
LEMMA BeginAttemptIInv ==
    ASSUME IInv, BeginAttempt
    PROVE  IInv'
<1>1. /\ queue \in Seq(Message)
      /\ IsInjective(queue)
      /\ ToSet(queue) \subseteq Eligible
  BY DEF BeginAttempt, IInv, TypeOK, QueueStaysEligible
<1>2. /\ Head(queue) \in Message
      /\ Tail(queue) \in Seq(Message)
      /\ ToSet(Tail(queue)) \subseteq ToSet(queue) \ {Head(queue)}
      /\ IsInjective(Tail(queue))
  BY <1>1, TakingTheHead DEF BeginAttempt
<1>3. Eligible' = Eligible
  BY DEF BeginAttempt, Eligible
<1>4. TypeOK'
  BY <1>2 DEF BeginAttempt, IInv, TypeOK, Place
<1>5. QueueStaysEligible'
  BY <1>1, <1>2, <1>3 DEF BeginAttempt, QueueStaysEligible
<1>6. ClaimsAreAttempts' /\ ClaimIsDue'
  BY <1>2, <1>3 DEF BeginAttempt, ClaimsAreAttempts, ClaimIsDue
<1>. QED  BY <1>4, <1>5, <1>6 DEF IInv

\* The provider's answer changes no row.
LEMMA SendIInv ==
    ASSUME IInv, Send
    PROVE  IInv'
<1>1. PICK m \in Message, result \in Decided \cup {"retryable"} : Answer(m, result)
  BY DEF Send
<1>2. TypeOK'
  BY <1>1 DEF Answer, IInv, TypeOK, Place
<1>3. Eligible' = Eligible
  BY <1>1 DEF Answer, Eligible
<1>. QED  BY <1>1, <1>2, <1>3 DEF Answer, IInv, ClaimsAreAttempts, ClaimIsDue,
                                   QueueStaysEligible

\* The recorded message is not among those left, so what becomes of it makes
\* none of them ineligible.
LEMMA RecordAttemptIInv ==
    ASSUME IInv, RecordAttempt
    PROVE  IInv'
<1> DEFINE gone == IF answer \in Decided THEN {flight} ELSE {}
<1>1. ToSet(line) \ gone \in SUBSET Message
  BY LineHasMessages DEF IInv, TypeOK
<1>2. /\ line' \in Seq(ToSet(line) \ gone)
      /\ ToSet(line') = ToSet(line) \ gone
  BY <1>1, SortedHasAll DEF RecordAttempt, Without
<1>3. line' \in Seq(Message)
  BY <1>1, <1>2
<1>4. /\ pc' \in {"delivering", "finishing"}
      /\ queue' = queue
  BY DEF RecordAttempt, GoesOn
<1>5. flight \in Message
  BY DEF RecordAttempt, IInv, ClaimsAreAttempts
<1>6. waiting' \subseteq Message
  BY <1>5 DEF RecordAttempt, IInv, TypeOK
<1>7. TypeOK'
  BY <1>3, <1>4, <1>6 DEF RecordAttempt, IInv, TypeOK, Place, Decided
<1>8. Eligible \ {flight} \subseteq Eligible'
  BY <1>2 DEF RecordAttempt, Eligible
<1>9. ToSet(queue) \subseteq Eligible \ {flight} /\ IsInjective(queue)
  BY DEF RecordAttempt, IInv, QueueStaysEligible
<1>10. /\ flight' = NoMessage
       /\ NoMessage \notin ToSet(queue)
  BY LineHasMessages, NoMessageAssumption DEF RecordAttempt, IInv, TypeOK
<1>11. QueueStaysEligible'
  BY <1>4, <1>8, <1>9, <1>10 DEF QueueStaysEligible
<1>12. ClaimsAreAttempts' /\ ClaimIsDue'
  BY <1>4, <1>10 DEF ClaimsAreAttempts, ClaimIsDue
<1>. QED  BY <1>7, <1>11, <1>12 DEF IInv

-----------------------------------------------------------------------------
(* The theorems.                                                           *)

\* Every step keeps the invariant.
LEMMA NextIInv == IInv /\ [Next]_vars => IInv'
<1> SUFFICES ASSUME IInv, [Next]_vars PROVE IInv'
  OBVIOUS
<1>1. CASE \E m \in Message : Elapse(m)
  BY <1>1, ElapseIInv
<1>2. CASE StartCheck \/ RecoverAttempt \/ RecoverDone
  BY <1>2, RecoverIInv
<1>3. CASE CommitRun
  BY <1>3, CommitRunIInv
<1>4. CASE ReadPending
  BY <1>4, ReadPendingIInv
<1>5. CASE BeginAttempt
  BY <1>5, BeginAttemptIInv
<1>6. CASE Send
  BY <1>6, SendIInv
<1>7. CASE RecordAttempt
  BY <1>7, RecordAttemptIInv
<1>8. CASE Finish
  BY <1>8, ExitsIInv DEF Finish
<1>9. CASE EndEarly
  BY <1>9, ExitsIInv DEF EndEarly
<1>10. CASE UNCHANGED vars
  BY <1>10 DEF vars, process, IInv, TypeOK, ClaimsAreAttempts, ClaimIsDue,
               Eligible, QueueStaysEligible
<1>. QED  BY <1>1, <1>2, <1>3, <1>4, <1>5, <1>6, <1>7, <1>8, <1>9, <1>10
          DEF Next

\* In every reachable state the variables are well typed, no claim is held
\* between two attempts, a claimed message is due, and the queue of a check is
\* usable.
THEOREM Invariant == Spec => []IInv
<1>1. Init => IInv
  BY InitIInv
<1>2. IInv /\ [Next]_vars => IInv'
  BY NextIInv
<1>. QED  BY <1>1, <1>2, PTL DEF Spec

\* What pending_outbox read once stays eligible over the whole delivery loop:
\* no later iteration claims a message that is decided, backed off or claimed.
THEOREM QueueIsNeverStale == Spec => []QueueStaysEligible
<1>1. IInv => QueueStaysEligible
  BY DEF IInv
<1>. QED  BY <1>1, Invariant, PTL

\* So begin_notification_attempt never refuses what the loop hands to it: while
\* the loop has messages left, the next one can be claimed.
THEOREM NoAttemptIsRefused ==
    Spec => [](pc = "delivering" /\ queue # <<>> => Head(queue) \in Eligible)
<1>1. ASSUME IInv, pc = "delivering", queue # <<>>
      PROVE  Head(queue) \in Eligible
  <2>1. /\ queue \in Seq(Message)
        /\ ToSet(queue) \subseteq Eligible
    BY <1>1 DEF IInv, TypeOK, QueueStaysEligible
  <2>2. 1 \in DOMAIN queue /\ Head(queue) = queue[1]
    BY <2>1, <1>1
  <2>3. Head(queue) \in ToSet(queue)
    BY <2>2 DEF ToSet
  <2>. QED  BY <2>1, <2>3
<1>2. IInv => (pc = "delivering" /\ queue # <<>> => Head(queue) \in Eligible)
  BY <1>1
<1>. QED  BY <1>2, Invariant, PTL

=============================================================================
